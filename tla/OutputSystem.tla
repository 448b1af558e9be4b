----------------------------- MODULE OutputSystem -----------------------------
(***************************************************************************)
(* buildOutput in its two settings.  In the running program its events     *)
(* come from a server over a connection; in the test of the monitor they   *)
(* come from FakeConcourseEvents, which was told what to return.           *)
(*                                                                         *)
(* The fake is safe for more goroutines than that test has.  Here one more *)
(* may close it, and its Invocations may be read, beside buildOutput;      *)
(* nothing in the repository does either, so the behaviours of the test    *)
(* are those in which the helper and the inspector do not move.            *)
(***************************************************************************)
EXTENDS BuildOutput, EventStream, Fake

CONSTANTS
    EOF,        \* what NextEvent returns at the end
    Reader,     \* the goroutine that is in buildOutput
    Helper      \* a goroutine that closes the fake

ASSUME SystemAssumption ==
    /\ Callers = {Reader, Helper}
    /\ Reader # Helper
    /\ EOF \notin Events
    /\ Zero \notin Events
    /\ Entries = Events
    /\ Order = ConcourseEventsFake

VARIABLE setting    \* "server" or "test"

systemVars == <<outputVars, streamVars, fakeVars, setting>>

SystemInit ==
    /\ OutputInit
    /\ StreamInit
    /\ FakeInit
    /\ setting \in {"server", "test"}
    /\ setting = "test" => log = <<>>

-----------------------------------------------------------------------------
(* With a server.                                                          *)

Served == setting = "server" /\ UNCHANGED <<fakeVars, setting>>

Refused == Served /\ NoStream /\ UNCHANGED streamVars
Opened == Served /\ OpenStream /\ Connect
Received == Served /\ \E ev \in Events : Read(ev) /\ Deliver(ev)
Ended == Served /\ ReturnText /\ End
CutShort == Served /\ ReturnText /\ Cut
Lost == Served /\ Lose /\ UNCHANGED outputVars
Reconnected == Served /\ Reconnect /\ UNCHANGED outputVars
Disappeared == Served /\ Disappear /\ UNCHANGED outputVars

ServerNext ==
    \/ Refused \/ Opened
    \/ Received \/ Ended \/ CutShort
    \/ Lost \/ Reconnected \/ Disappeared

-----------------------------------------------------------------------------
(* With the fake.                                                          *)

Faked == setting = "test" /\ UNCHANGED <<streamVars, setting>>

\* The answers of NextEvent are arranged one after the other.
Arranges ==
    /\ Faked
    /\ at = "asking"
    /\ \E v \in Values :
          \/ \E i \in 0..(MaxCalls - 1) :
                /\ \A j \in 0..(MaxCalls - 1) : j < i <=> returnsOnCall["NextEvent"][j] # Zero
                /\ ReturnsOnCall("NextEvent", i, v)
          \/ Returns("NextEvent", v)
          \/ SetStub("NextEvent", v)
    /\ UNCHANGED outputVars

Given == Faked /\ OpenStream /\ UNCHANGED fakeVars

Asks == Faked /\ at = "reading" /\ Enter(Reader, "NextEvent") /\ UNCHANGED outputVars

\* A nil event, with no error, is passed over.
Gets ==
    /\ Faked
    /\ at = "reading"
    /\ Answer(Reader)
    /\ LET v == AnswerOf(Reader) IN
       \/ v = EOF /\ ReturnText
       \/ v = Zero /\ Read([kind |-> "other", task |-> NoTask])
       \/ v \in Events /\ Read(v)

\* The deferred Close, and the end of it.
Closes ==
    /\ Faked
    /\ at = "returned"
    /\ \A i \in DOMAIN argsForCall["Close"] : argsForCall["Close"][i] # Reader
    /\ Enter(Reader, "Close")
    /\ UNCHANGED outputVars

Closed == Faked /\ at = "returned" /\ Answer(Reader) /\ UNCHANGED outputVars

\* What the fake allows, and no test does.
HelperCloses == Faked /\ at # "asking" /\ Enter(Helper, "Close") /\ UNCHANGED outputVars
HelperClosed == Faked /\ Answer(Helper) /\ UNCHANGED outputVars

Records == Faked /\ (\E p \in Callers : Record(p)) /\ UNCHANGED outputVars

Inspects == Faked /\ (LockRecord \/ LockNext \/ Collect) /\ UNCHANGED outputVars

TestNext ==
    \/ Arranges \/ Given
    \/ Asks \/ Gets \/ Closes \/ Closed
    \/ HelperCloses \/ HelperClosed
    \/ Records \/ Inspects

-----------------------------------------------------------------------------

SystemNext == ServerNext \/ TestNext

\* The reader runs; a client sets the connection up again while it can; and a
\* connection is not lost each time before something came through.
SystemFairness ==
    /\ SF_systemVars(Received \/ Ended \/ CutShort)
    /\ WF_systemVars(Reconnected)

SystemSpec == SystemInit /\ [][SystemNext]_systemVars /\ SystemFairness

-----------------------------------------------------------------------------
(* Properties.                                                             *)

\* Every variable has its type.
TypeOK ==
    /\ OutputTypeOK
    /\ StreamTypeOK
    /\ FakeTypeOK
    /\ setting \in {"server", "test"}

\* buildOutput returns on the whole log of the build, every event once and in
\* order, however often the connection broke, unless the server closed it
\* before the end.
WholeLog ==
    [][setting = "server" /\ at = "reading" /\ at' = "returned" =>
          cut' \/ seen' = log]_systemVars

\* buildOutput, for which the monitor waits, returns, unless the server has
\* deleted the build: then NextEvent fails for ever and buildOutput with it.
ReturnsUnlessGone ==
    setting = "server" /\ at = "reading" ~> at = "returned" \/ gone
=============================================================================
