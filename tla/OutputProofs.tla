----------------------------- MODULE OutputProofs -----------------------------
(***************************************************************************)
(* Theorems about buildOutput and the stream it reads from a server, for   *)
(* logs of any length and any tasks, checked by TLAPS.                     *)
(***************************************************************************)
EXTENDS OutputSystem, FakeProofs, SequenceTheorems, FiniteSetTheorems

\* What the reader has seen is what the connections brought, each of them
\* from where the one before it broke.
Agreed ==
    /\ lastEvent \in 0..Len(log)
    /\ at = "asking" => lastEvent = 0
    /\ at # "returned" =>
          /\ Len(seen) = lastEvent
          /\ \A k \in 1..lastEvent : seen[k] = log[k]

IInv ==
    /\ log \in Seq(Events)
    /\ seen \in Seq(Events)
    /\ setting = "server" => Agreed

\* Every case of the loop keeps the event it got.
LEMMA ReadKeeps ==
    ASSUME NEW ev, Read(ev)
    PROVE  at = "reading" /\ at' = at /\ seen' = Append(seen, ev)
BY DEF Read, WriteLog, KeepConfig, WriteCommand, WriteError, WriteExit, PassOver, Got

LEMMA Starts == SystemInit => IInv
<1> SUFFICES ASSUME SystemInit PROVE IInv
  OBVIOUS
<1>1. log \in Seq(Events)
  <2>1. PICK n \in 0..MaxEvents : log \in [1..n -> Events]
    BY SystemAssumption DEF SystemInit, StreamInit
  <2>2. n \in Nat
    BY <2>1
  <2>3. QED
    BY <2>1, <2>2, SeqDef
<1>2. seen = <<>> /\ lastEvent = 0 /\ Len(log) \in Nat
  BY <1>1 DEF SystemInit, OutputInit, StreamInit
<1>3. seen \in Seq(Events)
  BY <1>2
<1>4. Len(seen) = 0
  BY <1>2
<1>5. QED
  BY <1>1, <1>2, <1>3, <1>4 DEF IInv, Agreed

\* A step of the test leaves the server's side alone.
LEMMA TestSteps ==
    ASSUME IInv, TestNext
    PROVE  IInv'
<1>1. setting = "test" /\ UNCHANGED <<log, setting>>
  BY DEF TestNext, Arranges, Given, Asks, Gets, Closes, Closed, HelperCloses, HelperClosed,
         Records, Inspects, Faked, streamVars
<1>2. UNCHANGED seen \/ \E ev \in Events : seen' = Append(seen, ev)
  <2>1. CASE Gets
    <3> DEFINE v == AnswerOf(Reader)
    <3>1. CASE ReturnText
      BY <3>1 DEF ReturnText
    <3>2. CASE v = Zero /\ Read([kind |-> "other", task |-> NoTask])
      <4>1. [kind |-> "other", task |-> NoTask] \in Events
        BY DEF Events
      <4>2. QED
        BY <3>2, <4>1, ReadKeeps
    <3>3. CASE v \in Events /\ Read(v)
      BY <3>3, ReadKeeps
    <3>4. QED
      BY <2>1, <3>1, <3>2, <3>3 DEF Gets
  <2>2. CASE Arranges \/ Given \/ Asks \/ Closes \/ Closed \/ HelperCloses \/ HelperClosed
             \/ Records \/ Inspects
    BY <2>2 DEF Arranges, Given, Asks, Closes, Closed, HelperCloses, HelperClosed, Records,
                Inspects, OpenStream, outputVars
  <2>3. QED
    BY <2>1, <2>2 DEF TestNext
<1>3. QED
  BY <1>1, <1>2 DEF IInv

LEMMA ServerSteps ==
    ASSUME IInv, ServerNext
    PROVE  IInv'
<1>0. /\ Agreed /\ setting = "server" /\ setting' = setting
      /\ Len(log) \in Nat /\ Len(seen) \in Nat /\ lastEvent \in Nat
  BY DEF ServerNext, Refused, Opened, Received, Ended, CutShort, Lost, Reconnected, Disappeared,
         Served, IInv, Agreed
<1>1. CASE Refused \/ Ended \/ CutShort
  BY <1>0, <1>1 DEF Refused, Ended, CutShort, NoStream, ReturnText, End, Cut, streamVars,
                    IInv, Agreed
<1>2. CASE Opened
  BY <1>0, <1>2 DEF Opened, OpenStream, Connect, IInv, Agreed
<1>3. CASE Lost \/ Reconnected \/ Disappeared
  BY <1>0, <1>3 DEF Lost, Reconnected, Disappeared, Lose, Reconnect, Disappear, outputVars,
                    IInv, Agreed
<1>4. ASSUME NEW ev \in Events, Read(ev), Deliver(ev) PROVE IInv'
  <2>1. at = "reading" /\ at' = at /\ seen' = Append(seen, ev)
    BY <1>4, ReadKeeps
  <2>2. /\ lastEvent < Len(log)
        /\ ev = log[lastEvent + 1]
        /\ lastEvent' = lastEvent + 1
        /\ log' = log
    BY <1>4 DEF Deliver
  <2>3. Len(seen) = lastEvent /\ \A k \in 1..lastEvent : seen[k] = log[k]
    BY <1>0, <2>1 DEF Agreed
  <2>4. seen' \in Seq(Events) /\ Len(seen') = lastEvent + 1
        /\ \A k \in 1..(lastEvent + 1) :
              seen'[k] = IF k = lastEvent + 1 THEN ev ELSE seen[k]
    BY <2>1, <2>3 DEF IInv
  <2>5. \A k \in 1..(lastEvent + 1) : seen'[k] = log[k]
    BY <1>0, <2>2, <2>3, <2>4
  <2>6. QED
    BY <1>0, <2>1, <2>2, <2>4, <2>5 DEF IInv, Agreed
<1>5. QED
  BY <1>1, <1>2, <1>3, <1>4 DEF ServerNext, Received

LEMMA Steps == IInv /\ [SystemNext]_systemVars => IInv'
<1> SUFFICES ASSUME IInv, [SystemNext]_systemVars PROVE IInv'
  OBVIOUS
<1>1. CASE UNCHANGED systemVars
  BY <1>1 DEF systemVars, outputVars, streamVars, IInv, Agreed
<1>2. QED
  BY <1>1, ServerSteps, TestSteps DEF SystemNext

\* When the reader returns, it is the end of the log or of the connection.
LEMMA ReturnsAtEnd ==
    ASSUME IInv, [SystemNext]_systemVars, setting = "server", at = "reading", at' = "returned"
    PROVE  cut' \/ seen' = log
<1>1. ServerNext
  BY DEF SystemNext, TestNext, Arranges, Given, Asks, Gets, Closes, Closed, HelperCloses,
         HelperClosed, Records, Inspects, Faked, systemVars, outputVars
<1>2. ~(\E ev \in Events : Read(ev) /\ Deliver(ev))
  BY ReadKeeps
<1>3. Ended \/ CutShort
  BY <1>1, <1>2 DEF ServerNext, Refused, Opened, Received, Lost, Reconnected, Disappeared,
                    NoStream, OpenStream, outputVars
<1>4. CASE CutShort
  BY <1>4 DEF CutShort, Cut
<1>5. CASE Ended
  <2>1. lastEvent = Len(log) /\ seen' = seen
    BY <1>5 DEF Ended, End, ReturnText
  <2>2. Len(seen) = Len(log) /\ \A k \in 1..Len(log) : seen[k] = log[k]
    BY <2>1 DEF IInv, Agreed
  <2>3. seen = log
    BY <2>2, SeqEqual DEF IInv
  <2>4. QED
    BY <2>1, <2>3
<1>6. QED
  BY <1>3, <1>4, <1>5

\* However often the connection of NextEvent breaks, buildOutput returns on
\* the whole log of the build, every event once and in order, unless the
\* server closed the connection before the end (the loop until io.EOF, and the
\* Last-Event-ID of the vendored client).
THEOREM WholeLogRead == SystemSpec => WholeLog
<1>1. IInv /\ [SystemNext]_systemVars =>
        [setting = "server" /\ at = "reading" /\ at' = "returned" => cut' \/ seen' = log]_systemVars
  BY ReturnsAtEnd
<1>2. QED
  BY <1>1, Starts, Steps, PTL DEF SystemSpec, WholeLog


-----------------------------------------------------------------------------
(* The fake in the hands of buildOutput, its helper and the test is a fake *)
(* like any other.                                                         *)

LEMMA MethodsOfTheFake == "NextEvent" \in Methods /\ "Close" \in Methods
<1>1. Order = <<"NextEvent", "Close">>
  BY SystemAssumption DEF ConcourseEventsFake
<1>2. DOMAIN Order = {1, 2} /\ Order[1] = "NextEvent" /\ Order[2] = "Close"
  BY <1>1
<1>3. QED
  BY <1>2 DEF Methods

LEMMA SystemUsesFake == [SystemNext]_systemVars => [FakeNext]_fakeVars
<1> SUFFICES ASSUME [SystemNext]_systemVars PROVE [FakeNext]_fakeVars
  OBVIOUS
<1> USE MethodsOfTheFake
<1>1. Reader \in Callers /\ Helper \in Callers
  BY SystemAssumption
<1>2. CASE UNCHANGED systemVars
  BY <1>2 DEF systemVars
<1>3. CASE ServerNext
  BY <1>3 DEF ServerNext, Refused, Opened, Received, Ended, CutShort, Lost, Reconnected,
              Disappeared, Served
<1>4. CASE Arranges
  <2>1. PICK v \in Values :
           \/ \E i \in 0..(MaxCalls - 1) : ReturnsOnCall("NextEvent", i, v)
           \/ Returns("NextEvent", v)
           \/ SetStub("NextEvent", v)
    BY <1>4 DEF Arranges
  <2>2. QED
    BY <2>1 DEF FakeNext
<1>5. CASE Given
  BY <1>5 DEF Given
<1>6. CASE Asks \/ Closes \/ HelperCloses
  BY <1>1, <1>6 DEF Asks, Closes, HelperCloses, FakeNext
<1>7. CASE Gets \/ Closed \/ HelperClosed
  BY <1>1, <1>7 DEF Gets, Closed, HelperClosed, FakeNext
<1>8. CASE Records \/ Inspects
  BY <1>8 DEF Records, Inspects, FakeNext
<1>9. QED
  BY <1>2, <1>3, <1>4, <1>5, <1>6, <1>7, <1>8 DEF SystemNext, TestNext

LEMMA FakeInSystem == SystemSpec => []FakeInv
<1>1. SystemInit => FakeInv
  BY InitTyped DEF SystemInit
<1>2. FakeInv /\ [SystemNext]_systemVars => FakeInv'
  BY SystemUsesFake, FakeStep
<1>3. QED
  BY <1>1, <1>2, PTL DEF SystemSpec

\* In the hands of buildOutput and of a goroutine beside it, too, both records
\* of the calls agree, and each call gets the answer arranged for its place
\* (NextEvent and Close of the fake, and recordInvocation).
THEOREM ReaderGetsItsAnswers == SystemSpec => [](RecordsAgree /\ AnswersInOrder)
<1>1. FakeInv => RecordsAgree /\ AnswersInOrder
  BY DEF FakeInv
<1>2. QED
  BY <1>1, FakeInSystem, PTL

\* A test that asks the fake for its invocations while buildOutput reads from
\* it gets what was called up to one moment (Invocations of the fake).
THEOREM CollectedInSystem == SystemSpec => CollectedAtOnce
<1>1. FakeInv /\ [SystemNext]_systemVars =>
          [collected' # collected => collected' = argsForCall]_<<collected, argsForCall>>
  BY SystemUsesFake, CollectStep
<1>2. QED
  BY <1>1, FakeInSystem, PTL DEF SystemSpec, CollectedAtOnce

-----------------------------------------------------------------------------
(* Types.                                                                  *)

Place == [what : {"payload", "command", "message", "exit code"}, task : Tasks \cup {NoTask}]

LEMMA ReadTypes ==
    ASSUME OutputTypeOK, NEW ev \in Events, Read(ev)
    PROVE  OutputTypeOK'
<1>1. ev.task \in Tasks \cup {NoTask} /\ seen' = Append(seen, ev) /\ at' = at
  BY ReadKeeps DEF Events
<1>2. seen' \in Seq(Events)
  <2>1. seen \in Seq(Events)
    BY DEF OutputTypeOK
  <2>2. QED
    BY <1>1, <2>1
<1>3. output \in Seq(Place) /\ buildConfig \in Tasks \cup {NoTask}
  BY DEF OutputTypeOK, Place
<1>4. ASSUME NEW piece \in Place, output' = Append(output, piece)
      PROVE  output' \in Seq(Place)
  BY <1>3, <1>4
<1>5. /\ Piece("payload", NoTask) \in Place /\ Piece("command", buildConfig) \in Place
      /\ Piece("message", NoTask) \in Place /\ Piece("exit code", NoTask) \in Place
  BY <1>3 DEF Piece, Place
<1>6. CASE WriteLog(ev) \/ WriteCommand(ev) \/ WriteError(ev) \/ WriteExit(ev)
  <2>1. buildConfig' = buildConfig /\ \E piece \in Place : output' = Append(output, piece)
    BY <1>5, <1>6 DEF WriteLog, WriteCommand, WriteError, WriteExit, Write
  <2>2. QED
    BY <1>1, <1>2, <1>3, <1>4, <2>1 DEF OutputTypeOK, Place
<1>7. CASE KeepConfig(ev) \/ PassOver(ev)
  <2>1. buildConfig' \in {buildConfig, ev.task} /\ output' = output
    BY <1>7 DEF KeepConfig, PassOver
  <2>2. QED
    BY <1>1, <1>2, <1>3, <2>1 DEF OutputTypeOK, Place
<1>8. QED
  BY <1>6, <1>7 DEF Read

\* What the system does to buildOutput.
LEMMA OutputMoves ==
    ASSUME [SystemNext]_systemVars
    PROVE  \/ UNCHANGED outputVars
           \/ NoStream \/ OpenStream \/ ReturnText
           \/ \E ev \in Events : Read(ev)
<1>1. [kind |-> "other", task |-> NoTask] \in Events
  BY DEF Events
<1>2. QED
  BY <1>1 DEF SystemNext, ServerNext, TestNext, Refused, Opened, Received, Ended, CutShort, Lost,
       Reconnected, Disappeared, Arranges, Given, Asks, Gets, Closes, Closed,
       HelperCloses, HelperClosed, Records, Inspects, systemVars

LEMMA OutputTypes == SystemSpec => [](OutputTypeOK /\ setting \in {"server", "test"})
<1> DEFINE T == OutputTypeOK /\ setting \in {"server", "test"}
<1>1. SystemInit => T
  BY DEF SystemInit, OutputInit, OutputTypeOK
<1>2. T /\ [SystemNext]_systemVars => T'
  <2> SUFFICES ASSUME T, [SystemNext]_systemVars PROVE T'
    OBVIOUS
  <2>1. setting' = setting
    BY DEF SystemNext, ServerNext, TestNext, Refused, Opened, Received, Ended, CutShort, Lost,
           Reconnected, Disappeared, Served, Arranges, Given, Asks, Gets, Closes, Closed,
           HelperCloses, HelperClosed, Records, Inspects, Faked, systemVars
  <2>2. \/ UNCHANGED outputVars
        \/ NoStream \/ OpenStream \/ ReturnText
        \/ \E ev \in Events : Read(ev)
    BY OutputMoves
  <2>3. CASE UNCHANGED outputVars
    BY <2>1, <2>3 DEF outputVars, OutputTypeOK
  <2>4. CASE NoStream \/ OpenStream \/ ReturnText
    BY <2>1, <2>4 DEF NoStream, OpenStream, ReturnText, OutputTypeOK
  <2>5. QED
    BY <2>1, <2>2, <2>3, <2>4, ReadTypes
<1>3. QED
  BY <1>1, <1>2, PTL DEF SystemSpec

LEMMA StreamTypes == SystemSpec => []StreamTypeOK
<1>1. SystemInit => StreamTypeOK
  <2> SUFFICES ASSUME SystemInit PROVE StreamTypeOK
    OBVIOUS
  <2>1. log \in Seq(Entries)
    BY Starts, SystemAssumption DEF IInv
  <2>2. Len(log) \in Nat
    BY <2>1, LenProperties
  <2>3. lastEvent = 0 /\ link = "none" /\ gone = FALSE /\ cut = FALSE
    BY DEF SystemInit, StreamInit
  <2>4. lastEvent \in 0..Len(log)
    BY <2>2, <2>3
  <2>5. link \in {"none", "up", "down"} /\ gone \in BOOLEAN /\ cut \in BOOLEAN
    BY <2>3
  <2>6. QED
    BY <2>1, <2>4, <2>5 DEF StreamTypeOK
<1>2. StreamTypeOK /\ [SystemNext]_systemVars => StreamTypeOK'
  <2> SUFFICES ASSUME StreamTypeOK, [SystemNext]_systemVars PROVE StreamTypeOK'
    OBVIOUS
  <2>1. Len(log) \in Nat
    BY LenProperties DEF StreamTypeOK
  <2>2. \/ UNCHANGED streamVars
        \/ Connect \/ Lose \/ Reconnect \/ Disappear \/ End \/ Cut
        \/ \E ev \in Events : Deliver(ev)
    BY DEF SystemNext, ServerNext, TestNext, Refused, Opened, Received, Ended, CutShort, Lost,
           Reconnected, Disappeared, Arranges, Given, Asks, Gets, Closes, Closed,
           HelperCloses, HelperClosed, Records, Inspects, Faked, systemVars
  <2>3. CASE UNCHANGED streamVars
    BY <2>3 DEF streamVars, StreamTypeOK
  <2>4. CASE Connect \/ Lose \/ Reconnect \/ Disappear \/ End \/ Cut
    BY <2>4 DEF Connect, Lose, Reconnect, Disappear, End, Cut, StreamTypeOK
  <2>5. ASSUME NEW ev \in Events, Deliver(ev) PROVE StreamTypeOK'
    BY <2>1, <2>5 DEF Deliver, StreamTypeOK
  <2>6. QED
    BY <2>2, <2>3, <2>4, <2>5
<1>3. QED
  BY <1>1, <1>2, PTL DEF SystemSpec

\* Every variable of buildOutput, of the stream and of the fake has its type,
\* for logs of any length (buildOutput, NextEvent and the methods of the fake).
THEOREM SystemTypes == SystemSpec => []TypeOK
<1>1. FakeInv => FakeTypeOK
  BY DEF FakeInv
<1>2. OutputTypeOK /\ setting \in {"server", "test"} /\ StreamTypeOK /\ FakeTypeOK => TypeOK
  BY DEF TypeOK
<1>3. QED
  BY <1>1, <1>2, OutputTypes, StreamTypes, FakeInSystem, PTL

-----------------------------------------------------------------------------
(* The text.                                                               *)

\* The lines of the first events are finitely many, and are not changed by
\* the event that comes next, which has one line or none.
LEMMA LinesAppend ==
    ASSUME NEW evs \in Seq(Events), NEW ev \in Events
    PROVE  LET n == Len(evs)
               more == Append(evs, ev)
           IN  /\ IsFiniteSet(Lines(evs, n))
               /\ \A k \in 1..n : Lines(more, k) = Lines(evs, k)
               /\ Lines(more, n + 1) = Lines(evs, n) \cup {k \in {n + 1} : ev.kind \in DOMAIN Text}
               /\ n + 1 \notin Lines(evs, n)
<1> DEFINE n == Len(evs)
           more == Append(evs, ev)
<1>1. n \in Nat /\ more[n + 1] = ev /\ \A k \in 1..n : more[k] = evs[k]
  OBVIOUS
<1> HIDE DEF n, more
<1>2. Lines(evs, n) \subseteq 1..n
  BY DEF Lines
<1>3. IsFiniteSet(Lines(evs, n))
  BY <1>1, <1>2, FS_Interval, FS_Subset
<1>4. ASSUME NEW k \in 1..n PROVE Lines(more, k) = Lines(evs, k)
  <2>1. \A m \in 1..k : m \in 1..n
    BY <1>1
  <2>2. QED
    BY <1>1, <2>1 DEF Lines
<1>5. Lines(more, n + 1) = Lines(evs, n) \cup {k \in {n + 1} : ev.kind \in DOMAIN Text}
  <2>1. 1..(n + 1) = 1..n \cup {n + 1}
    BY <1>1
  <2>2. QED
    BY <1>1, <2>1 DEF Lines
<1>6. n + 1 \notin Lines(evs, n)
  BY <1>1, <1>2
<1>7. QED
  BY <1>3, <1>4, <1>5, <1>6 DEF n, more

\* The number of a line is one of the numbers of the lines there are.
LEMMA LineNumbers ==
    ASSUME NEW evs, NEW n \in Nat, IsFiniteSet(Lines(evs, n)), NEW k \in Lines(evs, n)
    PROVE  /\ Cardinality(Lines(evs, n)) \in Nat
           /\ Cardinality(Lines(evs, k)) \in 1..Cardinality(Lines(evs, n))
<1>1. k \in 1..n /\ k \in Lines(evs, k) /\ Lines(evs, k) \subseteq Lines(evs, n)
  <2>1. k \in 1..n
    BY DEF Lines
  <2>2. k \in 1..k /\ \A m \in 1..k : m \in 1..n
    BY <2>1
  <2>3. QED
    BY <2>1, <2>2 DEF Lines
<1>2. /\ IsFiniteSet(Lines(evs, k))
      /\ Cardinality(Lines(evs, k)) <= Cardinality(Lines(evs, n))
  BY <1>1, FS_Subset
<1>3. Cardinality(Lines(evs, k)) \in Nat /\ Cardinality(Lines(evs, n)) \in Nat
  BY <1>2, FS_CardinalityType
<1>4. Cardinality(Lines(evs, k)) # 0
  BY <1>1, <1>2, FS_EmptySet
<1>5. QED
  BY <1>2, <1>3, <1>4

\* The configuration at hand is the one of the task that was initialized last.
LastConfig ==
    \A i \in 1..Len(seen) :
        seen[i].kind = "initialize" /\ (\A m \in (i + 1)..Len(seen) : seen[m].kind # "initialize")
            => buildConfig = seen[i].task

\* The tasks of a part of the log are in turn if those of the log are, and one
\* that starts next is the one whose configuration is at hand.
LEMMA TurnsAppend ==
    ASSUME OutputTypeOK, LastConfig, NEW ev \in Events, TasksInTurn(Append(seen, ev))
    PROVE  /\ TasksInTurn(seen)
           /\ ev.kind = "start" => buildConfig = ev.task
<1> DEFINE n == Len(seen)
           more == Append(seen, ev)
<1>1. /\ n \in Nat /\ DOMAIN seen = 1..n /\ DOMAIN more = 1..(n + 1)
      /\ more[n + 1] = ev /\ \A k \in 1..n : more[k] = seen[k]
  <2>1. seen \in Seq(Events)
    BY DEF OutputTypeOK
  <2>2. QED
    BY <2>1
<1> HIDE DEF n, more
<1>2. TasksInTurn(more)
  BY DEF more
<1>3. ASSUME NEW k \in 1..n, seen[k].kind = "start"
      PROVE  \E i \in 1..(k - 1) :
                /\ seen[i] = [seen[k] EXCEPT !.kind = "initialize"]
                /\ \A m \in (i + 1)..(k - 1) : seen[m].kind # "initialize"
  <2>1. k \in 1..(n + 1) /\ more[k] = seen[k] /\ \A m \in 1..(k - 1) : more[m] = seen[m]
    BY <1>1
  <2>2. PICK i \in 1..(k - 1) :
           /\ more[i] = [more[k] EXCEPT !.kind = "initialize"]
           /\ \A m \in (i + 1)..(k - 1) : more[m].kind # "initialize"
    BY <1>1, <1>2, <1>3, <2>1 DEF TasksInTurn
  <2>3. \A m \in (i + 1)..(k - 1) : m \in 1..(k - 1)
    BY <2>2
  <2>4. QED
    BY <2>1, <2>2, <2>3
<1>4. ASSUME ev.kind = "start" PROVE buildConfig = ev.task
  <2>1. n + 1 \in 1..(n + 1) /\ (n + 1) - 1 = n
    BY <1>1
  <2>2. PICK i \in 1..n :
           /\ more[i] = [ev EXCEPT !.kind = "initialize"]
           /\ \A m \in (i + 1)..n : more[m].kind # "initialize"
    BY <1>1, <1>2, <1>4, <2>1 DEF TasksInTurn
  <2>3. ev \in [kind : {"initialize", "start"}, task : Tasks]
    BY <1>4 DEF Events
  <2>4. seen[i].kind = "initialize" /\ seen[i].task = ev.task
    BY <1>1, <2>2, <2>3
  <2>5. \A m \in (i + 1)..n : seen[m].kind # "initialize"
    BY <1>1, <2>2
  <2>6. QED
    BY <2>4, <2>5 DEF LastConfig, n
<1>5. QED
  BY <1>1, <1>3, <1>4 DEF TasksInTurn

LEMMA ConfigRead ==
    ASSUME OutputTypeOK, LastConfig, NEW ev \in Events, Read(ev)
    PROVE  LastConfig'
<1> DEFINE n == Len(seen)
<1>1. seen \in Seq(Events) /\ seen' = Append(seen, ev)
  BY ReadKeeps DEF OutputTypeOK
<1>2. /\ n \in Nat /\ Len(seen') = n + 1
      /\ seen'[n + 1] = ev /\ \A k \in 1..n : seen'[k] = seen[k]
  BY <1>1
<1> HIDE DEF n
<1>3. buildConfig' = IF ev.kind = "initialize" THEN ev.task ELSE buildConfig
  BY DEF Read, WriteLog, KeepConfig, WriteCommand, WriteError, WriteExit, PassOver, Got, Write
<1>4. SUFFICES ASSUME NEW i \in 1..(n + 1), seen'[i].kind = "initialize",
                      \A m \in (i + 1)..(n + 1) : seen'[m].kind # "initialize"
               PROVE  buildConfig' = seen'[i].task
  BY <1>2 DEF LastConfig
<1>5. CASE i = n + 1
  BY <1>2, <1>3, <1>4, <1>5
<1>6. CASE i \in 1..n
  <2>1. ev.kind # "initialize"
    BY <1>2, <1>4, <1>6
  <2>2. \A m \in (i + 1)..n : seen[m].kind # "initialize"
    BY <1>2, <1>4, <1>6
  <2>3. buildConfig = seen[i].task
    BY <1>2, <1>4, <1>6, <2>2 DEF LastConfig, n
  <2>4. QED
    BY <1>2, <1>3, <1>6, <2>1, <2>3
<1>7. QED
  BY <1>2, <1>5, <1>6

\* What a case of the loop writes for an event, if the tasks are in turn.
LEMMA ReadWrites ==
    ASSUME NEW ev \in Events, Read(ev), ev.kind = "start" => buildConfig = ev.task
    PROVE  output' = IF ev.kind \in DOMAIN Text
                     THEN Append(output, Piece(Text[ev.kind], ev.task)) ELSE output
<1>1. ev.kind \in {"log", "error", "finish"} => ev.task = NoTask
  BY DEF Events
<1>2. /\ DOMAIN Text = {"log", "start", "error", "finish"}
      /\ Text["log"] = "payload" /\ Text["start"] = "command"
      /\ Text["error"] = "message" /\ Text["finish"] = "exit code"
  BY DEF Text
<1>3. QED
  BY <1>1, <1>2
     DEF Read, WriteLog, KeepConfig, WriteCommand, WriteError, WriteExit, PassOver, Got, Write

LEMMA TextRead ==
    ASSUME OutputTypeOK, LastConfig, TextIsTheLog, NEW ev \in Events, Read(ev)
    PROVE  TextIsTheLog'
<1> DEFINE n == Len(seen)
           lines == Lines(seen, n)
<1>1. seen \in Seq(Events) /\ seen' = Append(seen, ev) /\ output \in Seq(Place)
  BY ReadKeeps DEF OutputTypeOK, Place
<1>2. /\ n \in Nat /\ Len(seen') = n + 1
      /\ seen'[n + 1] = ev /\ \A k \in 1..n : seen'[k] = seen[k]
  BY <1>1
<1>3. /\ IsFiniteSet(lines) /\ lines \subseteq 1..n /\ n + 1 \notin lines
      /\ \A k \in 1..n : Lines(seen', k) = Lines(seen, k)
      /\ Lines(seen', n + 1) = lines \cup {k \in {n + 1} : ev.kind \in DOMAIN Text}
  <2>1. lines \subseteq 1..n
    BY DEF Lines
  <2>2. QED
    BY <1>1, <2>1, LinesAppend
<1>4. SUFFICES ASSUME TasksInTurn(seen')
               PROVE  /\ Len(output') = Cardinality(Lines(seen', n + 1))
                      /\ \A k \in Lines(seen', n + 1) :
                            output'[Cardinality(Lines(seen', k))]
                                = Piece(Text[seen'[k].kind], seen'[k].task)
  BY <1>2 DEF TextIsTheLog
<1>5. TasksInTurn(seen) /\ (ev.kind = "start" => buildConfig = ev.task)
  BY <1>1, <1>4, TurnsAppend
<1>6. /\ Len(output) = Cardinality(lines)
      /\ \A k \in lines : /\ output[Cardinality(Lines(seen, k))]
                                = Piece(Text[seen[k].kind], seen[k].task)
                          /\ Cardinality(Lines(seen, k)) \in 1..Len(output)
  BY <1>2, <1>3, <1>5, LineNumbers DEF TextIsTheLog
<1>7. output' = IF ev.kind \in DOMAIN Text
                THEN Append(output, Piece(Text[ev.kind], ev.task)) ELSE output
  BY <1>5, ReadWrites
<1> HIDE DEF n, lines
<1>8. \A k \in lines : Lines(seen', k) = Lines(seen, k) /\ seen'[k] = seen[k]
  BY <1>2, <1>3
<1>9. CASE ev.kind \notin DOMAIN Text
  <2>1. Lines(seen', n + 1) = lines
    BY <1>3, <1>9
  <2>2. QED
    BY <1>6, <1>7, <1>8, <1>9, <2>1
<1>10. CASE ev.kind \in DOMAIN Text
  <2> DEFINE piece == Piece(Text[ev.kind], ev.task)
  <2>1. Lines(seen', n + 1) = lines \cup {n + 1}
    BY <1>3, <1>10
  <2>2. Cardinality(Lines(seen', n + 1)) = Cardinality(lines) + 1
    BY <1>3, <2>1, FS_AddElement
  <2>3. output' = Append(output, piece)
    BY <1>7, <1>10
  <2> HIDE DEF piece
  <2>4. /\ Len(output') = Len(output) + 1
        /\ output'[Len(output) + 1] = piece
        /\ \A c \in 1..Len(output) : output'[c] = output[c]
    BY <1>1, <2>3
  <2>5. \A k \in lines : output'[Cardinality(Lines(seen', k))]
                            = Piece(Text[seen'[k].kind], seen'[k].task)
    BY <1>6, <1>8, <2>4
  <2>6. output'[Cardinality(Lines(seen', n + 1))] = piece
    BY <1>6, <2>2, <2>4
  <2>7. QED
    BY <1>2, <1>6, <2>1, <2>2, <2>4, <2>5, <2>6 DEF piece
<1>11. QED
  BY <1>9, <1>10

LEMMA TextStarts == SystemInit => LastConfig /\ TextIsTheLog
<1> SUFFICES ASSUME OutputInit PROVE LastConfig /\ TextIsTheLog
  BY DEF SystemInit
<1>1. seen = <<>> /\ output = <<>> /\ Len(seen) = 0 /\ Len(output) = 0
  BY DEF OutputInit
<1>2. 1..0 = {} /\ Lines(seen, 0) = {}
  BY DEF Lines
<1>3. QED
  BY <1>1, <1>2, FS_EmptySet DEF LastConfig, TextIsTheLog

\* The text buildOutput makes is the log as far as it was read: a piece for
\* each event that has one, in the order of the events, and each command that
\* of the task that starts, if the tasks were initialized in turn (the switch
\* on the events and buildConfig).
THEOREM TextTellsTheLog == SystemSpec => []TextIsTheLog
<1>1. ASSUME LastConfig /\ TextIsTheLog, OutputTypeOK, [SystemNext]_systemVars
      PROVE  (LastConfig /\ TextIsTheLog)'
  <2>1. CASE UNCHANGED <<seen, buildConfig, output>>
    BY <1>1, <2>1 DEF LastConfig, TextIsTheLog
  <2>2. ASSUME NEW ev \in Events, Read(ev) PROVE (LastConfig /\ TextIsTheLog)'
    BY <1>1, <2>2, ConfigRead, TextRead
  <2>3. QED
    BY <1>1, <2>1, <2>2, OutputMoves DEF outputVars, NoStream, OpenStream, ReturnText
<1>2. QED
  BY <1>1, TextStarts, OutputTypes, PTL DEF SystemSpec

=============================================================================
