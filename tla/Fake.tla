-------------------------------- MODULE Fake --------------------------------
(***************************************************************************)
(* A fake of flyontimefakes, which a test puts in the place of an object,  *)
(* with its locks.  Goroutines call its methods; each method has a lock of *)
(* its own for the arguments of its calls, and another lock guards the     *)
(* record of the calls of all methods, which Invocations reads.  The fakes *)
(* are generated and differ in their methods only, so the methods are a    *)
(* parameter: Order names them in the order in which Invocations locks     *)
(* them.  The fakes that one goroutine calls are simpler in MonitorTest    *)
(* and PilotTest.                                                          *)
(*                                                                         *)
(* A test arranges what the methods return before anybody calls them: the  *)
(* fields that hold it have no lock.  It arranges no zero value, which is  *)
(* what a method returns anyway.                                           *)
(***************************************************************************)
EXTENDS Naturals, Sequences

CONSTANTS
    Order,      \* the methods, a sequence
    Callers,    \* goroutines that call them
    Nobody,
    Values,     \* what a method may return
    Zero,       \* the zero value of Go
    MaxCalls    \* bound on the calls of a method

\* FakeConcourseEvents.
ConcourseEventsFake == <<"NextEvent", "Close">>

\* Invocations takes no lock twice: a second RLock by the same goroutine
\* would wait for a writer that waits for the first.
LocksOnce(order) == \A i, j \in DOMAIN order : order[i] = order[j] => i = j

IsFake(order) == order \in Seq(STRING) /\ order # <<>> /\ LocksOnce(order)

ASSUME FakeAssumption ==
    /\ IsFake(Order)
    /\ Nobody \notin Callers
    /\ Zero \notin Values
    /\ MaxCalls \in Nat

Methods == {Order[i] : i \in DOMAIN Order}

Answers == Values \cup {Zero}

VARIABLES
    stub,           \* what the Stub of each method returns, if there is one
    returns,        \* what Returns was told
    returnsOnCall,  \* what ReturnsOnCall was told, for each call
    argsForCall,    \* who made each call of each method
    invocations,    \* the same, in the other record
    holder,         \* who holds the lock of each method
    call,           \* where each caller is
    collecting,     \* the locks Invocations holds: 0, the first, all
    collected,      \* history: what Invocations found last
    answers         \* history: what each call of each method returned

arranged == <<stub, returns, returnsOnCall>>
records == <<argsForCall, invocations>>
inspector == <<collecting, collected>>
fakeVars == <<arranged, records, holder, call, inspector, answers>>

Out == [at |-> "out", method |-> Order[1], index |-> 0, specific |-> Zero]

FakeInit ==
    /\ stub = [m \in Methods |-> Zero]
    /\ returns = [m \in Methods |-> Zero]
    /\ returnsOnCall = [m \in Methods |-> [i \in 0..(MaxCalls - 1) |-> Zero]]
    /\ argsForCall = [m \in Methods |-> <<>>]
    /\ invocations = [m \in Methods |-> <<>>]
    /\ holder = [m \in Methods |-> Nobody]
    /\ call = [p \in Callers |-> Out]
    /\ collecting = 0
    /\ collected = [m \in Methods |-> <<>>]
    /\ answers = [m \in Methods |-> <<>>]

-----------------------------------------------------------------------------
(* Arranging.                                                              *)

Untouched == \A m \in Methods : argsForCall[m] = <<>>

SetStub(m, v) ==
    /\ Untouched
    /\ stub' = [stub EXCEPT ![m] = v]
    /\ UNCHANGED <<returns, returnsOnCall, records, holder, call, inspector, answers>>

Returns(m, v) ==
    /\ Untouched
    /\ stub' = [stub EXCEPT ![m] = Zero]
    /\ returns' = [returns EXCEPT ![m] = v]
    /\ UNCHANGED <<returnsOnCall, records, holder, call, inspector, answers>>

ReturnsOnCall(m, i, v) ==
    /\ Untouched
    /\ stub' = [stub EXCEPT ![m] = Zero]
    /\ returnsOnCall' = [returnsOnCall EXCEPT ![m][i] = v]
    /\ UNCHANGED <<returns, records, holder, call, inspector, answers>>

-----------------------------------------------------------------------------
(* A call.                                                                 *)

\* Invocations holds the read lock of m.
ReadLocked(m) == \E i \in 1..(collecting - 1) : Order[i] = m

\* Mutant of Enter: the lock of the method is not taken.
EnterUnlocked(p, m) ==
    LET n == Len(argsForCall[m]) IN
    /\ call[p].at = "out"
    /\ n < MaxCalls
    /\ argsForCall' = [argsForCall EXCEPT ![m] = Append(@, p)]
    /\ call' = [call EXCEPT ![p] = [at |-> "recording", method |-> m, index |-> n,
                                    specific |-> returnsOnCall[m][n]]]
    /\ UNCHANGED <<arranged, invocations, holder, inspector, answers>>

\* The lock of the method is taken; the number of calls so far decides which
\* answer is this call's.
Enter(p, m) ==
    LET n == Len(argsForCall[m]) IN
    /\ call[p].at = "out"
    /\ holder[m] = Nobody
    /\ ~ReadLocked(m)
    /\ n < MaxCalls
    /\ holder' = [holder EXCEPT ![m] = p]
    /\ argsForCall' = [argsForCall EXCEPT ![m] = Append(@, p)]
    /\ call' = [call EXCEPT ![p] = [at |-> "recording", method |-> m, index |-> n,
                                    specific |-> returnsOnCall[m][n]]]
    /\ UNCHANGED <<arranged, invocations, inspector, answers>>

\* Mutant of Record: the call is not recorded if the other record is locked.
RecordOrSkip(p) ==
    LET m == call[p].method IN
    /\ call[p].at = "recording"
    /\ invocations' = IF collecting = 0
                      THEN [invocations EXCEPT ![m] = Append(@, p)] ELSE invocations
    /\ holder' = [holder EXCEPT ![m] = Nobody]
    /\ call' = [call EXCEPT ![p].at = "answering"]
    /\ UNCHANGED <<arranged, argsForCall, inspector, answers>>

\* recordInvocation, which waits for the lock of the record, and the unlock.
Record(p) ==
    LET m == call[p].method IN
    /\ call[p].at = "recording"
    /\ collecting = 0
    /\ invocations' = [invocations EXCEPT ![m] = Append(@, p)]
    /\ holder' = [holder EXCEPT ![m] = Nobody]
    /\ call' = [call EXCEPT ![p].at = "answering"]
    /\ UNCHANGED <<arranged, argsForCall, inspector, answers>>

\* Mutant of AnswerOf: what Returns was told goes first.
AnswerInGeneral(p) ==
    LET c == call[p] IN
    IF stub[c.method] # Zero THEN stub[c.method]
    ELSE IF returns[c.method] # Zero THEN returns[c.method]
    ELSE c.specific

\* The answer is chosen without a lock.
AnswerOf(p) ==
    LET c == call[p] IN
    IF stub[c.method] # Zero THEN stub[c.method]
    ELSE IF c.specific # Zero THEN c.specific
    ELSE returns[c.method]

Answer(p) ==
    LET c == call[p] IN
    /\ c.at = "answering"
    /\ answers' = [answers EXCEPT ![c.method] =
                       Append(@, [index |-> c.index, value |-> AnswerOf(p)])]
    /\ call' = [call EXCEPT ![p] = Out]
    /\ UNCHANGED <<arranged, records, holder, inspector>>

-----------------------------------------------------------------------------
(* Invocations: the read lock of the record, then that of every method,    *)
(* then a copy; all are let go at the end.  CallCount and ArgsForCall hold *)
(* one read lock for a moment and change nothing.                          *)

\* Mutant of LockNext: the locks of the methods are not waited for.
LockAny ==
    /\ collecting \in 1..Len(Order)
    /\ collecting' = collecting + 1
    /\ UNCHANGED <<arranged, records, holder, call, collected, answers>>

LockRecord ==
    /\ collecting = 0
    /\ collecting' = 1
    /\ UNCHANGED <<arranged, records, holder, call, collected, answers>>

LockNext ==
    /\ collecting \in 1..Len(Order)
    /\ holder[Order[collecting]] = Nobody
    /\ collecting' = collecting + 1
    /\ UNCHANGED <<arranged, records, holder, call, collected, answers>>

Collect ==
    /\ collecting = Len(Order) + 1
    /\ collected' = invocations
    /\ collecting' = 0
    /\ UNCHANGED <<arranged, records, holder, call, answers>>

-----------------------------------------------------------------------------

FakeNext ==
    \/ \E m \in Methods, v \in Values :
          \/ SetStub(m, v)
          \/ Returns(m, v)
          \/ \E i \in 0..(MaxCalls - 1) : ReturnsOnCall(m, i, v)
    \/ \E p \in Callers :
          \/ \E m \in Methods : Enter(p, m)
          \/ Record(p)
          \/ Answer(p)
    \/ LockRecord \/ LockNext \/ Collect

FakeSpec == FakeInit /\ [][FakeNext]_fakeVars

-----------------------------------------------------------------------------
(* Properties.                                                             *)

FakeTypeOK ==
    /\ stub \in [Methods -> Answers]
    /\ returns \in [Methods -> Answers]
    /\ returnsOnCall \in [Methods -> [0..(MaxCalls - 1) -> Answers]]
    /\ argsForCall \in [Methods -> Seq(Callers)]
    /\ invocations \in [Methods -> Seq(Callers)]
    /\ holder \in [Methods -> Callers \cup {Nobody}]
    /\ call \in [Callers -> [at : {"out", "recording", "answering"}, method : Methods,
                             index : Nat, specific : Answers]]
    /\ collecting \in 0..(Len(Order) + 1)
    /\ collected \in [Methods -> Seq(Callers)]
    /\ answers \in [Methods -> Seq([index : Nat, value : Answers])]

\* The two records of the calls of a method agree, the callers in the same
\* order, except for the call that is being recorded: who waits for a call
\* count finds the call in Invocations too.
RecordsAgree ==
    \A m \in Methods :
        argsForCall[m] = IF holder[m] = Nobody THEN invocations[m]
                         ELSE Append(invocations[m], holder[m])

\* What Invocations returns is one moment of all methods: no call is between
\* its two records then.
CollectedAtOnce ==
    [][collected' # collected => collected' = argsForCall]_<<collected, argsForCall>>

\* The answer arranged for the k-th call of m.
Arranged(m, k) ==
    CASE stub[m] # Zero -> stub[m]
      [] stub[m] = Zero /\ returnsOnCall[m][k] # Zero -> returnsOnCall[m][k]
      [] OTHER -> returns[m]

\* Every call gets the answer arranged for its place among the calls of its
\* method, and no two calls have the same place.
AnswersInOrder ==
    \A m \in Methods :
        /\ \A i \in DOMAIN answers[m] :
              /\ answers[m][i].index < Len(invocations[m])
              /\ answers[m][i].value = Arranged(m, answers[m][i].index)
        /\ \A i, j \in DOMAIN answers[m] :
              answers[m][i].index = answers[m][j].index => i = j
=============================================================================
