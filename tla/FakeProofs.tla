------------------------------ MODULE FakeProofs ------------------------------
(***************************************************************************)
(* Proofs about the fakes, for any methods in any order, any number of     *)
(* callers, and whatever a test arranges.                                  *)
(***************************************************************************)
EXTENDS Fake, TLAPS

-----------------------------------------------------------------------------
(* The inductive invariant.                                                *)

\* The lock of a method is held by the caller that is recording a call of it.
LockHeld ==
    /\ \A m \in Methods : holder[m] # Nobody =>
          call[holder[m]].at = "recording" /\ call[holder[m]].method = m
    /\ \A p \in Callers : call[p].at = "recording" => holder[call[p].method] = p

\* No method whose lock Invocations has is being recorded.
ReadLocksHeld ==
    \A i \in 1..Len(Order) : i < collecting => holder[Order[i]] = Nobody

\* A call that is not over has its place among the calls of its method, and the
\* answer that is specific to it.
Placed ==
    \A p \in Callers :
        LET c == call[p] IN
        /\ c.at = "recording" => c.index = Len(invocations[c.method])
        /\ c.at = "answering" => c.index < Len(invocations[c.method])
        /\ c.at # "out" => /\ c.index \in 0..(MaxCalls - 1)
                           /\ c.specific = returnsOnCall[c.method][c.index]

\* No two calls have the same place.
PlacesDiffer ==
    /\ \A p, q \in Callers :
          /\ call[p].at = "answering" /\ call[q].at = "answering"
          /\ call[p].method = call[q].method
          /\ call[p].index = call[q].index
          => p = q
    /\ \A p \in Callers : call[p].at = "answering" =>
          \A i \in DOMAIN answers[call[p].method] :
              answers[call[p].method][i].index # call[p].index

FakeInv ==
    /\ FakeTypeOK
    /\ RecordsAgree
    /\ LockHeld
    /\ ReadLocksHeld
    /\ Placed
    /\ PlacesDiffer
    /\ AnswersInOrder

-----------------------------------------------------------------------------
(* Lemmas.                                                                 *)

\* What is in a sequence.
LEMMA ElementType ==
    ASSUME NEW S, NEW s \in Seq(S), NEW i \in DOMAIN s
    PROVE  s[i] \in S
<1>1. DOMAIN s = 1..Len(s)
  OBVIOUS
<1>2. QED
  BY <1>1

\* What returned has a place, and a sequence that is not empty has a first.
LEMMA AnswerType ==
    ASSUME FakeTypeOK, NEW m \in Methods
    PROVE  /\ \A i \in DOMAIN answers[m] : answers[m][i].index \in Nat
           /\ answers[m] # <<>> => 1 \in DOMAIN answers[m]
<1>1. answers[m] \in Seq([index : Nat, value : Answers])
  BY DEF FakeTypeOK
<1>2. ASSUME NEW i \in DOMAIN answers[m] PROVE answers[m][i].index \in Nat
  <2>1. answers[m][i] \in [index : Nat, value : Answers]
    BY <1>1, ElementType
  <2>2. QED
    BY <2>1
<1>3. ASSUME answers[m] # <<>> PROVE 1 \in DOMAIN answers[m]
  <2>1. Len(answers[m]) \in Nat /\ Len(answers[m]) # 0
    BY <1>1, <1>3
  <2>2. DOMAIN answers[m] = 1..Len(answers[m])
    BY <1>1
  <2>3. QED
    BY <2>1, <2>2
<1>4. QED
  BY <1>2, <1>3

\* The order is a sequence that is not empty.
LEMMA OrderType == Order \in Seq(Methods) /\ Len(Order) > 0
BY FakeAssumption DEF IsFake, Methods

LEMMA InitTyped == FakeInit => FakeInv
<1> SUFFICES ASSUME FakeInit PROVE FakeInv
  OBVIOUS
<1> USE OrderType, FakeAssumption
<1>1. Order[1] \in Methods
  BY DEF Methods
<1>2. FakeTypeOK
  BY <1>1 DEF FakeInit, FakeTypeOK, Answers, Out
<1>3. RecordsAgree
  BY DEF FakeInit, RecordsAgree
<1>4. LockHeld /\ Placed /\ PlacesDiffer
  BY DEF FakeInit, LockHeld, Placed, PlacesDiffer, Out
<1>5. ReadLocksHeld
  BY DEF FakeInit, ReadLocksHeld, Methods
<1>6. AnswersInOrder
  BY DEF FakeInit, AnswersInOrder
<1>7. QED
  BY <1>2, <1>3, <1>4, <1>5, <1>6 DEF FakeInv

\* While the answers are arranged, nobody has called.
LEMMA QuietBefore ==
    FakeInv /\ Untouched =>
        /\ \A p \in Callers : call[p].at = "out"
        /\ \A m \in Methods : answers[m] = <<>> /\ invocations[m] = <<>>
<1> SUFFICES ASSUME FakeInv, Untouched
             PROVE  /\ \A p \in Callers : call[p].at = "out"
                    /\ \A m \in Methods : answers[m] = <<>> /\ invocations[m] = <<>>
  OBVIOUS
<1> USE FakeAssumption
<1>1. ASSUME NEW m \in Methods PROVE invocations[m] = <<>> /\ holder[m] = Nobody
  <2>1. argsForCall[m] = <<>> /\ invocations[m] \in Seq(Callers)
    BY DEF Untouched, FakeInv, FakeTypeOK
  <2>2. Append(invocations[m], holder[m]) # <<>>
    BY <2>1
  <2>3. QED
    BY <2>1, <2>2 DEF FakeInv, RecordsAgree
<1>2. ASSUME NEW m \in Methods PROVE answers[m] = <<>>
  <2>1. \A i \in DOMAIN answers[m] : answers[m][i].index < Len(invocations[m])
    BY DEF FakeInv, AnswersInOrder
  <2>2. Len(invocations[m]) = 0
    BY <1>1
  <2>3. QED
    BY <2>1, <2>2, AnswerType DEF FakeInv
<1>3. ASSUME NEW p \in Callers PROVE call[p].at = "out"
  <2>1. /\ call[p].at \in {"out", "recording", "answering"}
        /\ call[p].method \in Methods
        /\ call[p].index \in Nat
    BY DEF FakeInv, FakeTypeOK
  <2>2. call[p].at # "recording"
    BY <1>1, <2>1 DEF FakeInv, LockHeld
  <2>3. call[p].at # "answering"
    <3>1. Len(invocations[call[p].method]) = 0
      BY <1>1, <2>1
    <3>2. QED
      BY <2>1, <3>1 DEF FakeInv, Placed
  <2>4. QED
    BY <2>1, <2>2, <2>3
<1>4. QED
  BY <1>1, <1>2, <1>3

\* Arranging an answer.
LEMMA ArrangeStep ==
    ASSUME FakeInv, NEW m \in Methods, NEW v \in Values,
           \/ SetStub(m, v)
           \/ Returns(m, v)
           \/ \E i \in 0..(MaxCalls - 1) : ReturnsOnCall(m, i, v)
    PROVE  FakeInv'
<1> USE FakeAssumption
<1>1. /\ Untouched
      /\ UNCHANGED <<records, holder, call, inspector, answers>>
  BY DEF SetStub, Returns, ReturnsOnCall
<1>2. /\ \A p \in Callers : call[p].at = "out"
      /\ \A n \in Methods : answers[n] = <<>> /\ invocations[n] = <<>>
  BY <1>1, QuietBefore
<1>3. FakeTypeOK'
  <2>1. /\ stub' \in [Methods -> Answers]
        /\ returns' \in [Methods -> Answers]
        /\ returnsOnCall' \in [Methods -> [0..(MaxCalls - 1) -> Answers]]
    <3>1. /\ stub \in [Methods -> Answers]
          /\ returns \in [Methods -> Answers]
          /\ returnsOnCall \in [Methods -> [0..(MaxCalls - 1) -> Answers]]
          /\ v \in Answers /\ Zero \in Answers
      BY DEF FakeInv, FakeTypeOK, Answers
    <3>2. CASE SetStub(m, v)
      BY <3>1, <3>2 DEF SetStub
    <3>3. CASE Returns(m, v)
      BY <3>1, <3>3 DEF Returns
    <3>4. ASSUME NEW i \in 0..(MaxCalls - 1), ReturnsOnCall(m, i, v)
          PROVE  /\ stub' \in [Methods -> Answers]
                 /\ returns' \in [Methods -> Answers]
                 /\ returnsOnCall' \in [Methods -> [0..(MaxCalls - 1) -> Answers]]
      <4>1. [returnsOnCall[m] EXCEPT ![i] = v] \in [0..(MaxCalls - 1) -> Answers]
        BY <3>1
      <4>2. QED
        BY <3>1, <3>4, <4>1 DEF ReturnsOnCall
    <3>5. QED
      BY <3>2, <3>3, <3>4
  <2>2. QED
    BY <1>1, <2>1 DEF FakeInv, FakeTypeOK, records, inspector
<1>4. RecordsAgree' /\ LockHeld' /\ ReadLocksHeld'
  BY <1>1 DEF FakeInv, RecordsAgree, LockHeld, ReadLocksHeld, records, inspector
<1>5. Placed' /\ PlacesDiffer'
  BY <1>1, <1>2 DEF FakeInv, Placed, PlacesDiffer, records
<1>6. AnswersInOrder'
  BY <1>1, <1>2 DEF AnswersInOrder, records
<1>7. QED
  BY <1>3, <1>4, <1>5, <1>6 DEF FakeInv

\* A caller enters a method.
LEMMA EnterStep ==
    ASSUME FakeInv, NEW p \in Callers, NEW m \in Methods, Enter(p, m)
    PROVE  FakeInv'
<1> USE FakeAssumption
<1> DEFINE n == Len(argsForCall[m])
<1> DEFINE c == [at |-> "recording", method |-> m, index |-> n,
                 specific |-> returnsOnCall[m][n]]
<1>1. /\ call[p].at = "out"
      /\ holder[m] = Nobody
      /\ ~ReadLocked(m)
      /\ n < MaxCalls
      /\ holder' = [holder EXCEPT ![m] = p]
      /\ argsForCall' = [argsForCall EXCEPT ![m] = Append(@, p)]
      /\ call' = [call EXCEPT ![p] = c]
      /\ UNCHANGED <<arranged, invocations, inspector, answers>>
  BY DEF Enter
<1>2. /\ argsForCall \in [Methods -> Seq(Callers)]
      /\ holder \in [Methods -> Callers \cup {Nobody}]
      /\ call \in [Callers -> [at : {"out", "recording", "answering"}, method : Methods,
                               index : Nat, specific : Answers]]
      /\ invocations[m] \in Seq(Callers)
      /\ returnsOnCall \in [Methods -> [0..(MaxCalls - 1) -> Answers]]
  BY DEF FakeInv, FakeTypeOK
<1>3. argsForCall[m] = invocations[m] /\ n \in 0..(MaxCalls - 1)
  BY <1>1, <1>2 DEF FakeInv, RecordsAgree
<1>4. c \in [at : {"out", "recording", "answering"}, method : Methods,
             index : Nat, specific : Answers]
  BY <1>2, <1>3
<1>5. /\ call'[p] = c
      /\ \A q \in Callers : q # p => call'[q] = call[q]
      /\ holder'[m] = p
      /\ \A k \in Methods : k # m => holder'[k] = holder[k]
      /\ argsForCall'[m] = Append(argsForCall[m], p)
      /\ \A k \in Methods : k # m => argsForCall'[k] = argsForCall[k]
  BY <1>1, <1>2
<1> HIDE DEF c
<1>6. c.at = "recording" /\ c.method = m /\ c.index = n /\ c.specific = returnsOnCall[m][n]
  BY DEF c
<1>7. FakeTypeOK'
  <2>1. argsForCall' \in [Methods -> Seq(Callers)]
    BY <1>1, <1>2
  <2>2. call' \in [Callers -> [at : {"out", "recording", "answering"}, method : Methods,
                               index : Nat, specific : Answers]]
    BY <1>1, <1>2, <1>4
  <2>3. QED
    BY <1>1, <1>2, <2>1, <2>2 DEF FakeInv, FakeTypeOK, arranged, inspector
<1>8. RecordsAgree'
  BY <1>1, <1>3, <1>5 DEF FakeInv, RecordsAgree
<1>9. LockHeld'
  BY <1>1, <1>2, <1>5, <1>6 DEF FakeInv, LockHeld
<1>10. ReadLocksHeld'
  <2>1. ASSUME NEW i \in 1..Len(Order), i < collecting PROVE Order[i] # m
    <3>1. i \in 1..(collecting - 1)
      BY <2>1, OrderType DEF FakeInv, FakeTypeOK
    <3>2. QED
      BY <1>1, <3>1 DEF ReadLocked
  <2>2. \A i \in 1..Len(Order) : Order[i] \in Methods
    BY OrderType
  <2>3. QED
    BY <1>1, <1>5, <2>1, <2>2 DEF FakeInv, ReadLocksHeld, inspector
<1>11. Placed'
  BY <1>1, <1>3, <1>5, <1>6 DEF FakeInv, Placed, arranged
<1>12. PlacesDiffer'
  <2>1. ASSUME NEW q \in Callers, call'[q].at = "answering" PROVE q # p /\ call'[q] = call[q]
    BY <1>5, <1>6, <2>1
  <2>2. answers' = answers
    BY <1>1
  <2>3. QED
    BY <2>1, <2>2 DEF FakeInv, PlacesDiffer
<1>13. AnswersInOrder'
  BY <1>1 DEF FakeInv, AnswersInOrder, Arranged, arranged
<1>14. QED
  BY <1>7, <1>8, <1>9, <1>10, <1>11, <1>12, <1>13 DEF FakeInv

\* A call is recorded and the lock let go.
LEMMA RecordStep ==
    ASSUME FakeInv, NEW p \in Callers, Record(p)
    PROVE  FakeInv'
<1> USE FakeAssumption
<1> DEFINE m == call[p].method
<1>1. /\ call[p].at = "recording"
      /\ collecting = 0
      /\ invocations' = [invocations EXCEPT ![m] = Append(@, p)]
      /\ holder' = [holder EXCEPT ![m] = Nobody]
      /\ call' = [call EXCEPT ![p].at = "answering"]
      /\ UNCHANGED <<arranged, argsForCall, inspector, answers>>
  BY DEF Record
<1>2. /\ call \in [Callers -> [at : {"out", "recording", "answering"}, method : Methods,
                               index : Nat, specific : Answers]]
      /\ invocations \in [Methods -> Seq(Callers)]
      /\ holder \in [Methods -> Callers \cup {Nobody}]
      /\ m \in Methods
  BY DEF FakeInv, FakeTypeOK
<1>3. holder[m] = p /\ call[p].index = Len(invocations[m])
  BY <1>1, <1>2 DEF FakeInv, LockHeld, Placed
<1>4. /\ call'[p].at = "answering"
      /\ call'[p].method = m
      /\ call'[p].index = call[p].index
      /\ call'[p].specific = call[p].specific
      /\ \A q \in Callers : q # p => call'[q] = call[q]
      /\ holder'[m] = Nobody
      /\ \A k \in Methods : k # m => holder'[k] = holder[k]
      /\ invocations'[m] = Append(invocations[m], p)
      /\ \A k \in Methods : k # m => invocations'[k] = invocations[k]
      /\ Len(invocations'[m]) = Len(invocations[m]) + 1
      /\ \A k \in Methods : Len(invocations[k]) \in Nat
      /\ Len(invocations'[m]) \in Nat
  BY <1>1, <1>2
<1>5. \A q \in Callers : q # p => ~(call[q].at = "recording" /\ call[q].method = m)
  BY <1>3 DEF FakeInv, LockHeld
<1> HIDE DEF m
<1>6. FakeTypeOK'
  <2>1. call' \in [Callers -> [at : {"out", "recording", "answering"}, method : Methods,
                               index : Nat, specific : Answers]]
    BY <1>1, <1>2
  <2>2. invocations' \in [Methods -> Seq(Callers)]
    BY <1>1, <1>2
  <2>3. holder' \in [Methods -> Callers \cup {Nobody}]
    BY <1>1, <1>2
  <2>4. QED
    BY <1>1, <2>1, <2>2, <2>3 DEF FakeInv, FakeTypeOK, arranged, inspector
<1>7. RecordsAgree'
  BY <1>1, <1>2, <1>3, <1>4 DEF FakeInv, RecordsAgree
<1>8. LockHeld'
  BY <1>1, <1>2, <1>3, <1>4, <1>5 DEF FakeInv, LockHeld
<1>9. ReadLocksHeld'
  BY <1>1, OrderType DEF FakeInv, FakeTypeOK, ReadLocksHeld, inspector
<1>10. Placed'
  <2>1. ASSUME NEW q \in Callers, q # p
        PROVE  LET c == call[q] IN
               /\ c.at = "recording" => c.index = Len(invocations'[c.method])
               /\ c.at = "answering" => c.index < Len(invocations'[c.method])
               /\ c.at # "out" => /\ c.index \in 0..(MaxCalls - 1)
                                  /\ c.specific = returnsOnCall'[c.method][c.index]
    <3>1. call[q].method \in Methods /\ call[q].index \in Nat
      BY <1>2
    <3>2. QED
      BY <1>1, <1>2, <1>4, <1>5, <2>1, <3>1 DEF FakeInv, Placed, arranged
  <2>2. QED
    BY <1>1, <1>3, <1>4, <2>1, <1>2 DEF FakeInv, Placed, arranged
<1>11. PlacesDiffer'
  <2>1. ASSUME NEW q \in Callers, q # p, call[q].at = "answering", call[q].method = m
        PROVE  call[q].index # call[p].index
    BY <1>2, <1>3, <1>4, <2>1 DEF FakeInv, Placed
  <2>2. \A i \in DOMAIN answers[m] : answers[m][i].index # call[p].index
    BY <1>2, <1>3 DEF FakeInv, AnswersInOrder
  <2>3. answers' = answers
    BY <1>1
  <2>4. ASSUME NEW q \in Callers, NEW r \in Callers, q # r,
               call'[q].at = "answering", call'[r].at = "answering",
               call'[q].method = call'[r].method
        PROVE  call'[q].index # call'[r].index
    <3>1. CASE q = p
      BY <1>4, <2>1, <2>4, <3>1
    <3>2. CASE r = p
      BY <1>4, <2>1, <2>4, <3>2
    <3>3. CASE q # p /\ r # p
      BY <1>4, <2>4, <3>3 DEF FakeInv, PlacesDiffer
    <3>4. QED
      BY <3>1, <3>2, <3>3
  <2>5. ASSUME NEW q \in Callers, call'[q].at = "answering"
        PROVE  \A i \in DOMAIN answers[call'[q].method] :
                   answers[call'[q].method][i].index # call'[q].index
    <3>1. CASE q = p
      BY <1>4, <2>2, <3>1
    <3>2. CASE q # p
      BY <1>4, <2>5, <3>2 DEF FakeInv, PlacesDiffer
    <3>3. QED
      BY <3>1, <3>2
  <2>6. QED
    BY <2>3, <2>4, <2>5 DEF PlacesDiffer
<1>12. AnswersInOrder'
  <2>1. ASSUME NEW k \in Methods, NEW i \in DOMAIN answers[k]
        PROVE  answers[k][i].index < Len(invocations'[k])
    <3>1. answers[k][i].index \in Nat
      BY <2>1, AnswerType DEF FakeInv
    <3>2. answers[k][i].index < Len(invocations[k])
      BY <2>1 DEF FakeInv, AnswersInOrder
    <3>3. QED
      BY <1>4, <3>1, <3>2
  <2>2. QED
    BY <1>1, <2>1 DEF FakeInv, AnswersInOrder, Arranged, arranged
<1>13. QED
  BY <1>6, <1>7, <1>8, <1>9, <1>10, <1>11, <1>12 DEF FakeInv

\* The answer that is chosen without a lock is the one arranged.
LEMMA AnswerStep ==
    ASSUME FakeInv, NEW p \in Callers, Answer(p)
    PROVE  FakeInv'
<1> USE FakeAssumption
<1> DEFINE m == call[p].method
<1> DEFINE a == [index |-> call[p].index, value |-> AnswerOf(p)]
<1>1. /\ call[p].at = "answering"
      /\ answers' = [answers EXCEPT ![m] = Append(@, a)]
      /\ call' = [call EXCEPT ![p] = Out]
      /\ UNCHANGED <<arranged, records, holder, inspector>>
  BY DEF Answer
<1>2. /\ call \in [Callers -> [at : {"out", "recording", "answering"}, method : Methods,
                               index : Nat, specific : Answers]]
      /\ answers \in [Methods -> Seq([index : Nat, value : Answers])]
      /\ m \in Methods
      /\ call[p].index \in Nat
      /\ call[p].specific \in Answers
      /\ stub \in [Methods -> Answers]
      /\ returns \in [Methods -> Answers]
  BY DEF FakeInv, FakeTypeOK
<1>3. a \in [index : Nat, value : Answers]
  BY <1>2 DEF AnswerOf
<1>4. /\ a.index = call[p].index
      /\ a.value = Arranged(m, call[p].index)
  BY <1>1, <1>2 DEF AnswerOf, Arranged, FakeInv, Placed
<1>5. call[p].index < Len(invocations[m])
  BY <1>1 DEF FakeInv, Placed
<1> HIDE DEF a, m
<1>6. /\ answers'[m] = Append(answers[m], a)
      /\ \A k \in Methods : k # m => answers'[k] = answers[k]
      /\ call'[p].at = "out"
      /\ \A q \in Callers : q # p => call'[q] = call[q]
  BY <1>1, <1>2 DEF Out
<1>7. ASSUME NEW i \in DOMAIN answers'[m]
      PROVE  \/ i \in DOMAIN answers[m] /\ answers'[m][i] = answers[m][i]
             \/ i = Len(answers[m]) + 1 /\ answers'[m][i] = a
  <2>1. answers[m] \in Seq([index : Nat, value : Answers])
    BY <1>2
  <2>2. QED
    BY <1>3, <1>6, <1>7, <2>1
<1>8. FakeTypeOK'
  <2>1. call' \in [Callers -> [at : {"out", "recording", "answering"}, method : Methods,
                               index : Nat, specific : Answers]]
    <3>1. Out \in [at : {"out", "recording", "answering"}, method : Methods,
                   index : Nat, specific : Answers]
      BY OrderType DEF Out, Answers, Methods
    <3>2. QED
      BY <1>1, <1>2, <3>1
  <2>2. answers' \in [Methods -> Seq([index : Nat, value : Answers])]
    <3>1. Append(answers[m], a) \in Seq([index : Nat, value : Answers])
      <4>1. answers[m] \in Seq([index : Nat, value : Answers])
        BY <1>2
      <4>2. QED
        BY <1>3, <4>1
    <3>2. answers' = [answers EXCEPT ![m] = Append(answers[m], a)]
      BY <1>1
    <3>3. QED
      BY <1>2, <3>1, <3>2, Zenon
  <2>3. QED
    BY <1>1, <2>1, <2>2 DEF FakeInv, FakeTypeOK, arranged, records, inspector
<1>9. RecordsAgree' /\ ReadLocksHeld'
  BY <1>1 DEF FakeInv, RecordsAgree, ReadLocksHeld, records, inspector
<1>10. LockHeld'
  <2>1. \A k \in Methods : holder[k] # p
    BY <1>1 DEF FakeInv, LockHeld
  <2>2. \A k \in Methods : holder[k] \in Callers \cup {Nobody}
    BY DEF FakeInv, FakeTypeOK
  <2>3. QED
    BY <1>1, <1>6, <2>1, <2>2 DEF FakeInv, LockHeld
<1>11. Placed'
  BY <1>1, <1>6 DEF FakeInv, Placed, arranged, records
<1>12. PlacesDiffer'
  <2>1. ASSUME NEW q \in Callers, call'[q].at = "answering"
        PROVE  q # p /\ call'[q] = call[q]
    BY <1>6, <2>1
  <2>2. ASSUME NEW q \in Callers, call'[q].at = "answering"
        PROVE  \A i \in DOMAIN answers'[call[q].method] :
                   answers'[call[q].method][i].index # call[q].index
    <3>1. CASE call[q].method = m
      BY <1>1, <1>4, <1>7, <2>1, <2>2, <3>1 DEF FakeInv, PlacesDiffer, m
    <3>2. CASE call[q].method # m
      <4>1. call[q].method \in Methods
        BY <1>2
      <4>2. QED
        BY <1>6, <2>1, <2>2, <3>2, <4>1 DEF FakeInv, PlacesDiffer
    <3>3. QED
      BY <3>1, <3>2
  <2>3. QED
    BY <2>1, <2>2 DEF FakeInv, PlacesDiffer
<1>13. AnswersInOrder'
  <2>1. UNCHANGED <<stub, returns, returnsOnCall, invocations>>
    BY <1>1 DEF arranged, records
  <2>2. ASSUME NEW k \in Methods, NEW i \in DOMAIN answers'[k]
        PROVE  /\ answers'[k][i].index < Len(invocations[k])
               /\ answers'[k][i].value = Arranged(k, answers'[k][i].index)
    <3>1. CASE k = m
      BY <1>4, <1>5, <1>7, <2>2, <3>1 DEF FakeInv, AnswersInOrder
    <3>2. CASE k # m
      BY <1>6, <2>2, <3>2 DEF FakeInv, AnswersInOrder
    <3>3. QED
      BY <3>1, <3>2
  <2>3. ASSUME NEW k \in Methods, NEW i \in DOMAIN answers'[k], NEW j \in DOMAIN answers'[k],
               answers'[k][i].index = answers'[k][j].index
        PROVE  i = j
    <3>1. CASE k = m
      <4>1. \A l \in DOMAIN answers[m] : answers[m][l].index # a.index
        BY <1>1, <1>4 DEF FakeInv, PlacesDiffer, m
      <4>2. QED
        BY <1>7, <2>3, <3>1, <4>1, <1>2 DEF FakeInv, AnswersInOrder
    <3>2. CASE k # m
      BY <1>6, <2>3, <3>2 DEF FakeInv, AnswersInOrder
    <3>3. QED
      BY <3>1, <3>2
  <2>4. QED
    BY <2>1, <2>2, <2>3 DEF AnswersInOrder, Arranged
<1>14. QED
  BY <1>8, <1>9, <1>10, <1>11, <1>12, <1>13 DEF FakeInv

\* The goroutine of the test collects what was called.
LEMMA InspectStep ==
    ASSUME FakeInv, LockRecord \/ LockNext \/ Collect
    PROVE  FakeInv'
<1>1. UNCHANGED <<arranged, records, holder, call, answers>>
  BY DEF LockRecord, LockNext, Collect
<1>2. collecting' \in 0..(Len(Order) + 1) /\ collected' \in [Methods -> Seq(Callers)]
  BY OrderType DEF LockRecord, LockNext, Collect, FakeInv, FakeTypeOK
<1>3. FakeTypeOK'
  BY <1>1, <1>2 DEF FakeInv, FakeTypeOK, arranged, records
<1>4. ReadLocksHeld'
  <2>1. ASSUME NEW i \in 1..Len(Order), i < collecting' PROVE holder[Order[i]] = Nobody
    <3>1. collecting \in Nat /\ Len(Order) \in Nat
      BY OrderType DEF FakeInv, FakeTypeOK
    <3>2. CASE LockNext
      BY <2>1, <3>1, <3>2 DEF LockNext, FakeInv, ReadLocksHeld
    <3>3. CASE LockRecord \/ Collect
      BY <2>1, <3>1, <3>3 DEF LockRecord, Collect
    <3>4. QED
      BY <3>2, <3>3
  <2>2. QED
    BY <1>1, <2>1 DEF ReadLocksHeld
<1>5. RecordsAgree' /\ LockHeld' /\ Placed' /\ PlacesDiffer' /\ AnswersInOrder'
  BY <1>1 DEF FakeInv, RecordsAgree, LockHeld, Placed, PlacesDiffer, AnswersInOrder,
              Arranged, arranged, records
<1>6. QED
  BY <1>3, <1>4, <1>5 DEF FakeInv

\* FakeInv is inductive.
LEMMA FakeStep == FakeInv /\ [FakeNext]_fakeVars => FakeInv'
<1> SUFFICES ASSUME FakeInv, [FakeNext]_fakeVars PROVE FakeInv'
  OBVIOUS
<1>1. CASE UNCHANGED fakeVars
  <2>1. UNCHANGED <<stub, returns, returnsOnCall, argsForCall, invocations, holder, call,
                    collecting, collected, answers>>
    BY <1>1 DEF fakeVars, arranged, records, inspector
  <2>2. FakeTypeOK' /\ RecordsAgree'
    BY <2>1 DEF FakeInv, FakeTypeOK, RecordsAgree
  <2>3. LockHeld' /\ ReadLocksHeld' /\ Placed'
    BY <2>1 DEF FakeInv, LockHeld, ReadLocksHeld, Placed
  <2>4. PlacesDiffer' /\ AnswersInOrder'
    BY <2>1 DEF FakeInv, PlacesDiffer, AnswersInOrder, Arranged
  <2>5. QED
    BY <2>2, <2>3, <2>4 DEF FakeInv
<1>2. CASE FakeNext
  <2>1. CASE \E m \in Methods, v \in Values :
                \/ SetStub(m, v)
                \/ Returns(m, v)
                \/ \E i \in 0..(MaxCalls - 1) : ReturnsOnCall(m, i, v)
    BY <2>1, ArrangeStep
  <2>2. ASSUME NEW p \in Callers, NEW m \in Methods, Enter(p, m) PROVE FakeInv'
    BY <2>2, EnterStep
  <2>3. ASSUME NEW p \in Callers, Record(p) PROVE FakeInv'
    BY <2>3, RecordStep
  <2>4. ASSUME NEW p \in Callers, Answer(p) PROVE FakeInv'
    BY <2>4, AnswerStep
  <2>5. CASE LockRecord \/ LockNext \/ Collect
    BY <2>5, InspectStep
  <2>6. QED
    BY <1>2, <2>1, <2>2, <2>3, <2>4, <2>5 DEF FakeNext
<1>3. QED
  BY <1>1, <1>2

\* The invariant holds of every fake.
THEOREM FakeInvariant == FakeSpec => []FakeInv
BY InitTyped, FakeStep, PTL DEF FakeSpec

\* The two records of the calls agree, and each call gets the answer that was
\* arranged for its place: the methods of every fake, and recordInvocation.
THEOREM FakeRecords == FakeSpec => [](FakeTypeOK /\ RecordsAgree /\ AnswersInOrder)
<1>1. FakeInv => FakeTypeOK /\ RecordsAgree /\ AnswersInOrder
  BY DEF FakeInv
<1>2. QED
  BY <1>1, FakeInvariant, PTL

\* What Invocations returns is one moment of all methods.
LEMMA CollectStep ==
    FakeInv /\ [FakeNext]_fakeVars =>
        (collected' # collected => collected' = argsForCall)
<1> SUFFICES ASSUME FakeInv, [FakeNext]_fakeVars, collected' # collected
             PROVE  collected' = argsForCall
  OBVIOUS
<1>1. Collect
  BY DEF FakeNext, fakeVars, inspector, SetStub, Returns, ReturnsOnCall, Enter, Record,
         Answer, LockRecord, LockNext
<1>2. ASSUME NEW m \in Methods PROVE argsForCall[m] = invocations[m]
  <2>1. PICK i \in 1..Len(Order) : Order[i] = m
    BY OrderType DEF Methods
  <2>2. holder[m] = Nobody
    BY <1>1, <2>1, OrderType DEF Collect, FakeInv, ReadLocksHeld
  <2>3. QED
    BY <2>2 DEF FakeInv, RecordsAgree
<1>3. argsForCall = invocations
  BY <1>2 DEF FakeInv, FakeTypeOK
<1>4. QED
  BY <1>1, <1>3 DEF Collect

\* Invocations, which takes the locks one after the other while calls go on,
\* returns what was called up to one moment.
THEOREM FakeCollects == FakeSpec => CollectedAtOnce
<1>1. FakeInv /\ [FakeNext]_fakeVars =>
          [collected' # collected => collected' = argsForCall]_<<collected, argsForCall>>
  BY CollectStep
<1>2. QED
  BY <1>1, FakeInvariant, PTL DEF FakeSpec, CollectedAtOnce
=============================================================================
