----------------------------- MODULE MonitorProofs -----------------------------
(***************************************************************************)
(* Theorems about the monitor behind the abstract feed, for any jobs,      *)
(* commands and builds, checked by TLAPS.                                  *)
(***************************************************************************)
EXTENDS MonitorSystem, FiniteSetTheorems, SequenceTheorems, TLAPS

-----------------------------------------------------------------------------
(* Counting failures.                                                      *)

Entries == [id : Ids, status : Statuses, how : Hows, count : Nat]

\* The failures that are counted.
Failures(log, n) ==
    {k \in 1..n : /\ log[k].status = "failed"
                  /\ \A m \in k..n : log[m].status # "succeeded"}

\* One more build ends the count, adds to it, or leaves it.
LEMMA FailuresAppend ==
    ASSUME NEW log \in Seq(Entries), NEW e \in Entries
    PROVE  /\ FailuresSince(log, Len(log)) \in Nat
           /\ FailuresSince(Append(log, e), Len(log) + 1) =
                CASE e.status = "succeeded" -> 0
                  [] e.status = "failed" -> FailuresSince(log, Len(log)) + 1
                  [] OTHER -> FailuresSince(log, Len(log))
<1> DEFINE n == Len(log)
           more == Append(log, e)
<1>1. n \in Nat
  OBVIOUS
<1>2. \A k \in 1..n : more[k] = log[k]
  OBVIOUS
<1>3. more[n + 1] = e
  OBVIOUS
<1> HIDE DEF n, more
<1>4. IsFiniteSet(Failures(log, n)) /\ Failures(log, n) \subseteq 1..n
  <2>1. IsFiniteSet(1..n)
    BY <1>1, FS_Interval
  <2>2. Failures(log, n) \subseteq 1..n
    BY DEF Failures
  <2>3. QED
    BY <2>1, <2>2, FS_Subset
<1>5. Cardinality(Failures(log, n)) \in Nat
  BY <1>4, FS_CardinalityType
<1>6. ASSUME e.status = "succeeded" PROVE Failures(more, n + 1) = {}
  <2>1. \A k \in 1..(n + 1) : n + 1 \in k..(n + 1)
    BY <1>1
  <2>2. QED
    BY <2>1, <1>3, <1>6 DEF Failures
<1>7. ASSUME e.status # "succeeded"
      PROVE  Failures(more, n + 1) = Failures(log, n)
                \cup {k \in {n + 1} : e.status = "failed"}
  <2>1. ASSUME NEW k \in 1..n
        PROVE  (\A m \in k..(n + 1) : more[m].status # "succeeded")
                   <=> (\A m \in k..n : log[m].status # "succeeded")
    <3>1. \A m \in k..(n + 1) : m \in k..n \/ m = n + 1
      BY <1>1
    <3>2. \A m \in k..n : m \in k..(n + 1) /\ m \in 1..n
      BY <1>1
    <3>3. QED
      BY <3>1, <3>2, <1>2, <1>3, <1>7
  <2>2. \A m \in (n + 1)..(n + 1) : m = n + 1
    BY <1>1
  <2>3. 1..(n + 1) = 1..n \cup {n + 1}
    BY <1>1
  <2>4. QED
    BY <2>1, <2>2, <2>3, <1>2, <1>3, <1>7 DEF Failures
<1>8. FailuresSince(log, n) = Cardinality(Failures(log, n))
      /\ FailuresSince(more, n + 1) = Cardinality(Failures(more, n + 1))
  BY DEF FailuresSince, Failures
<1>9. CASE e.status = "succeeded"
  BY <1>5, <1>6, <1>8, <1>9, FS_EmptySet DEF n, more
<1>10. CASE e.status = "failed"
  <2>1. Failures(more, n + 1) = Failures(log, n) \cup {n + 1}
    BY <1>7, <1>10
  <2>2. n + 1 \notin Failures(log, n)
    BY <1>1, <1>4
  <2>3. Cardinality(Failures(more, n + 1)) = Cardinality(Failures(log, n)) + 1
    BY <1>4, <2>1, <2>2, FS_AddElement
  <2>4. QED
    BY <1>5, <1>8, <1>10, <2>3 DEF n, more
<1>11. CASE e.status \notin {"succeeded", "failed"}
  <2>1. Failures(more, n + 1) = Failures(log, n)
    BY <1>7, <1>11
  <2>2. QED
    BY <1>5, <1>8, <1>11, <2>1 DEF n, more
<1>12. QED
  BY <1>9, <1>10, <1>11

-----------------------------------------------------------------------------
(* The table of builds.                                                    *)

\* A build has a status from its commit on, and had one it may be received
\* with only if it does not have one of those it starts with.
Tabled ==
    \A i \in Ids :
        /\ status[i] # "absent" \/ i \in creating => i < nextId
        /\ i \in creating => status[i] = "absent"
        /\ status[i] \in {"absent", "running"} => endings[i] = {}

\* What is said of a build stays said: it keeps its pipeline, and has had the
\* statuses it had.
Kept ==
    \A i \in Ids :
        /\ i < nextId => i < nextId'
        /\ status[i] # "absent" =>
              /\ pipeline'[i] = pipeline[i]
              /\ status'[i] # "absent"
              /\ endings[i] \subseteq endings'[i]

\* Every step of the system is one the table allows.
LEMMA NextMovesTable == Next => ConcourseNext \/ UNCHANGED concourseVars
<1> SUFFICES ASSUME Next PROVE ConcourseNext \/ UNCHANGED concourseVars
  OBVIOUS
<1>1. ASSUME NEW newest \in Ids, Begin(newest) PROVE UNCHANGED concourseVars
  BY <1>1 DEF Begin
<1>2. ASSUME NEW i \in Ids, NEW s \in Ended, Receive(i, s) PROVE UNCHANGED concourseVars
  BY <1>2 DEF Receive, Deliver
<1>3. ASSUME NEW c \in Commands, NEW j \in Jobs, Command(c, j)
      PROVE  ConcourseNext \/ UNCHANGED concourseVars
  <2>1. j \in Pipelines
    BY MonitorAssumption DEF Pipelines
  <2>2. BeginBuild(j) \/ UNCHANGED concourseVars
    BY <1>3 DEF Command, CommandRerun
  <2>3. QED
    BY <2>1, <2>2 DEF ConcourseNext
<1>4. QED
  BY <1>1, <1>2, <1>3 DEF Next

LEMMA TableInit == Init => ConcourseTypeOK /\ Tabled
<1> SUFFICES ASSUME ConcourseInit PROVE ConcourseTypeOK /\ Tabled
  BY DEF Init, FeedInit
<1> USE ConcourseAssumption
<1>1. PICK p \in [FirstId..(nextId - 1) -> Pipelines],
           s \in [FirstId..(nextId - 1) -> {"running"} \cup Ended] :
            /\ pipeline = [i \in Ids |-> IF i < nextId THEN p[i] ELSE NoPipeline]
            /\ status = [i \in Ids |-> IF i < nextId THEN s[i] ELSE "absent"]
  BY SMTT(60) DEF ConcourseInit
<1>2. ASSUME NEW i \in Ids, i < nextId
      PROVE  /\ pipeline[i] \in Pipelines
             /\ status[i] \in {"running"} \cup Ended
  <2>1. i \in FirstId..(nextId - 1)
    BY <1>2 DEF Ids, ConcourseInit
  <2>2. QED
    BY <1>1, <1>2, <2>1
<1>3. ASSUME NEW i \in Ids, ~(i < nextId)
      PROVE  pipeline[i] = NoPipeline /\ status[i] = "absent"
  BY <1>1, <1>3
<1>4. ConcourseTypeOK
  <2>1. nextId \in FirstId..(LastId + 1) /\ deleted = {}
    BY DEF ConcourseInit
  <2>2. \A i \in Ids : pipeline[i] \in Pipelines \cup {NoPipeline} /\ status[i] \in Status
    BY <1>2, <1>3 DEF Status
  <2>3. creating \subseteq Ids /\ completed \subseteq Ids
    BY DEF ConcourseInit
  <2>4. endings \in [Ids -> SUBSET Ended]
    BY <2>2 DEF ConcourseInit, Status
  <2>5. QED
    BY <1>1, <2>1, <2>2, <2>3, <2>4 DEF ConcourseTypeOK
<1>5. creating = {} /\ \A i \in Ids : endings[i] = {status[i]} \ {"absent", "running"}
  BY DEF ConcourseInit
<1>6. QED
  BY <1>2, <1>3, <1>4, <1>5 DEF Tabled

LEMMA TableStep ==
    ASSUME ConcourseTypeOK, Tabled, [Next]_vars
    PROVE  ConcourseTypeOK' /\ Tabled' /\ Kept
<1> USE ConcourseAssumption DEF ConcourseTypeOK
<1>0. "absent" \notin Ended /\ "running" \notin Ended /\ nextId \in Int /\ \A i \in Ids : i \in Int
  BY DEF Ended, Ids
<1>1. ASSUME NEW p \in Pipelines, BeginBuild(p) PROVE ConcourseTypeOK' /\ Tabled' /\ Kept
  BY <1>0, <1>1 DEF BeginBuild, Status, Ids, Tabled, Kept
<1>2. ASSUME NEW i \in Ids, CommitBuild(i) \/ RollBack(i)
      PROVE  ConcourseTypeOK' /\ Tabled' /\ Kept
  BY <1>0, <1>2 DEF CommitBuild, RollBack, Status, Tabled, Kept
<1>3. ASSUME NEW i \in Ids, NEW outcome \in Ended, Becomes(i, outcome), i \in ExistingIds,
             completed' \subseteq completed \cup {i}
      PROVE  ConcourseTypeOK' /\ Tabled' /\ Kept
  <2>1. status[i] # "absent" /\ i \notin creating
    BY <1>3 DEF ExistingIds, Tabled
  <2>2. ConcourseTypeOK'
    BY <1>3 DEF Becomes, Status
  <2>3. /\ \A k \in Ids : status'[k] = (IF k = i THEN outcome ELSE status[k])
        /\ \A k \in Ids : endings'[k] = (IF k = i THEN endings[k] \cup {outcome} ELSE endings[k])
        /\ UNCHANGED <<pipeline, creating, nextId>>
    BY <1>3 DEF Becomes
  <2>4. QED
    BY <1>0, <2>1, <2>2, <2>3 DEF Tabled, Kept
<1>4. ASSUME NEW p \in Destroyable, DestroyPipeline(p)
      PROVE  ConcourseTypeOK' /\ Tabled' /\ Kept
  BY <1>4 DEF DestroyPipeline, ExistingIds, Tabled, Kept
<1>5. CASE UNCHANGED concourseVars
  BY <1>5 DEF concourseVars, Tabled, Kept
<1>6. ConcourseNext \/ UNCHANGED concourseVars
  BY NextMovesTable DEF vars
<1>7. QED
  BY <1>1, <1>2, <1>3, <1>4, <1>5, <1>6
     DEF ConcourseNext, FinishBuild, MarkAsAborted, Ended

-----------------------------------------------------------------------------
(* What is done with a build.                                              *)

\* The build i of a job is handled with status s, in some way.
Handles(i, s, how) ==
    /\ i \in Ids
    /\ pipeline[i] \in Jobs
    /\ s \in Ended
    /\ s \in endings[i]
    /\ Len(handled[pipeline[i]]) < MaxHandled
    /\ starting = {}
    /\ how \in Hows
    /\ how = "answered" <=> manuallyStarted[i] # NoCommand
    /\ UpdateHistory(i, s, how)
    /\ UNCHANGED <<concourseVars, starting, stopped, now, startedBy, promised>>

LEMMA ReceiveHandles ==
    ASSUME TypeOK, NEW i \in Ids, NEW s \in Ended, Deliver(i, s),
           RespondToManual(i, s) \/ Announce(i, s) \/ KeepQuiet(i, s)
    PROVE  \E how : Handles(i, s, how)
<1> USE MonitorAssumption
<1>1. /\ s \in endings[i]
      /\ s \in Statuses
      /\ UNCHANGED concourseVars
  BY DEF Deliver, Deliverable
<1>2. /\ pipeline[i] \in Jobs
      /\ Len(handled[pipeline[i]]) < MaxHandled
      /\ starting = {}
      /\ UNCHANGED <<starting, stopped, now, startedBy, promised>>
  BY DEF RespondToManual, Announce, KeepQuiet, Received, Selecting
<1>3. CASE RespondToManual(i, s)
  <2>1. UpdateHistory(i, s, "answered") /\ manuallyStarted[i] # NoCommand
    BY <1>3 DEF RespondToManual
  <2>2. Handles(i, s, "answered")
    BY <1>1, <1>2, <2>1 DEF Handles, Hows
  <2>3. QED
    BY <2>2
<1>4. CASE Announce(i, s)
  <2> DEFINE old == history[pipeline[i]].last
  <2>1. /\ manuallyStarted[i] = NoCommand
        /\ <<old, s>> \in Transitions
    BY <1>4 DEF Announce, Listed
  <2>2. PICK how \in {Title(old, s), "refused"} : UpdateHistory(i, s, how)
    BY <1>4 DEF Announce
  <2>3. Title(old, s) \in Hows \ {"answered"}
    BY <2>1, <1>1 DEF Transitions, Title, Hows, Statuses
  <2>4. how \in Hows /\ how # "answered"
    BY <2>2, <2>3 DEF Hows
  <2>5. Handles(i, s, how)
    BY <1>1, <1>2, <2>1, <2>2, <2>4 DEF Handles
  <2>6. QED
    BY <2>5
<1>5. CASE KeepQuiet(i, s)
  <2>1. manuallyStarted[i] = NoCommand
    BY <1>5 DEF KeepQuiet
  <2>2. PICK how \in {"not listed", "muted"} : UpdateHistory(i, s, how)
    BY <1>5 DEF KeepQuiet
  <2>3. Handles(i, s, how)
    BY <1>1, <1>2, <2>1, <2>2 DEF Handles, Hows
  <2>4. QED
    BY <2>3
<1>6. QED
  BY <1>3, <1>4, <1>5

\* No other step touches the history.
LEMMA HandlesOrNot ==
    ASSUME TypeOK, [Next]_vars
    PROVE  \/ \E i \in Ids, s \in Ended, how \in Hows : Handles(i, s, how)
           \/ UNCHANGED <<history, handled>>
<1>1. CASE UNCHANGED vars
  BY <1>1 DEF vars, monitorVars, maps, observed
<1>2. ASSUME NEW newest \in Ids, Begin(newest) /\ UNCHANGED monitorVars
      PROVE  UNCHANGED <<history, handled>>
  BY <1>2 DEF monitorVars, maps, observed
<1>3. ASSUME NEW i \in Ids, NEW s \in Ended, Receive(i, s)
      PROVE  (\E k \in Ids, r \in Ended, how \in Hows : Handles(k, r, how)) \/ UNCHANGED <<history, handled>>
  <2>1. CASE SkipOneOff(i)
    BY <2>1 DEF SkipOneOff, monitorVars, maps, observed
  <2>2. CASE RespondToManual(i, s) \/ Announce(i, s) \/ KeepQuiet(i, s)
    <3>1. PICK how : Handles(i, s, how)
      BY <1>3, <2>2, ReceiveHandles DEF Receive
    <3>2. how \in Hows
      BY <3>1 DEF Handles
    <3>3. QED
      BY <3>1, <3>2
  <2>3. QED
    BY <1>3, <2>1, <2>2 DEF Receive, HandleBuild
<1>4. ASSUME NEW c \in Commands, NEW j \in Jobs, Command(c, j)
      PROVE  UNCHANGED <<history, handled>>
  BY <1>4 DEF Command, CommandRerun, HandleLocalCommand, CommandRerunFails, CommandMute,
              CommandMuteInvalid, CommandUnmute, maps, observed
<1>5. ASSUME NEW c \in Commands, NEW i \in Ids, RegisterRerun(c, i) \/ RerunFails(c, i)
      PROVE  UNCHANGED <<history, handled>>
  BY <1>5 DEF RegisterRerun, RerunFails, maps, observed
<1>6. CASE UNCHANGED monitorVars
  BY <1>6 DEF monitorVars, maps, observed
<1>7. CASE Tick \/ Stop
  BY <1>7 DEF Tick, Stop, maps, observed
<1>8. QED
  BY <1>1, <1>2, <1>3, <1>4, <1>5, <1>6, <1>7 DEF Next

-----------------------------------------------------------------------------
(* Types.                                                                  *)

\* The steps of the monitor, and what the table does meanwhile.
Handling(i, s) == RespondToManual(i, s) \/ Announce(i, s) \/ KeepQuiet(i, s)

LEMMA MonitorSteps ==
    ASSUME [Next]_vars
    PROVE  \/ UNCHANGED monitorVars
           \/ \E i \in Ids, s \in Ended : Deliver(i, s) /\ Handling(i, s)
           \/ \E c \in Commands, j \in Jobs :
                CommandRerun(c, j) \/ HandleLocalCommand(c, j)
           \/ \E c \in Commands, i \in Ids : RegisterRerun(c, i) \/ RerunFails(c, i)
           \/ Tick
           \/ Stop
<1>1. CASE UNCHANGED vars
  BY <1>1 DEF vars
<1>2. ASSUME NEW i \in Ids, NEW s \in Ended, Receive(i, s)
      PROVE  \/ UNCHANGED monitorVars
             \/ Deliver(i, s) /\ Handling(i, s)
  BY <1>2 DEF Receive, HandleBuild, SkipOneOff, Handling
<1>3. QED
  BY <1>1, <1>2 DEF Next, Command

LEMMA HandlesTypes ==
    ASSUME TypeOK, NEW i, NEW s, NEW how, Handles(i, s, how)
    PROVE  /\ history' \in [Jobs -> [last : {""} \cup Statuses, failures : Nat]]
           /\ handled' \in [Jobs -> Seq([id : Ids, status : Statuses, how : Hows, count : Nat])]
<1> DEFINE j == pipeline[i]
           h == history[j]
           e == [id |-> i, status |-> s, how |-> how, count |-> h.failures]
<1>1. j \in Jobs /\ i \in Ids /\ how \in Hows /\ s \in Statuses
  BY MonitorAssumption DEF Handles
<1>2. h \in [last : {""} \cup Statuses, failures : Nat]
  BY <1>1 DEF TypeOK, MonitorTypeOK
<1>3. e \in Entries
  BY <1>1, <1>2 DEF Entries
<1>4. handled[j] \in Seq(Entries)
  BY <1>1 DEF TypeOK, MonitorTypeOK, Entries
<1>5. Append(handled[j], e) \in Seq(Entries)
  BY <1>3, <1>4
<1>6. handled' = [handled EXCEPT ![j] = Append(@, e)]
  BY DEF Handles, UpdateHistory
<1>7. handled' \in [Jobs -> Seq(Entries)]
  BY <1>5, <1>6 DEF TypeOK, MonitorTypeOK, Entries
<1>8. history' \in [Jobs -> [last : {""} \cup Statuses, failures : Nat]]
  <2> DEFINE counted == CASE s = "succeeded" -> 0
                          [] s = "failed" -> h.failures + 1
                          [] OTHER -> h.failures
  <2>1. counted \in Nat
    <3>1. h.failures \in Nat
      BY <1>2
    <3> HIDE DEF h
    <3>2. QED
      BY <3>1
  <2>2. history' = [history EXCEPT ![j] = [last |-> s, failures |-> counted]]
    BY DEF Handles, UpdateHistory
  <2> HIDE DEF counted
  <2>3. [last |-> s, failures |-> counted] \in [last : {""} \cup Statuses, failures : Nat]
    BY <1>1, <2>1
  <2>4. QED
    BY <1>1, <2>2, <2>3 DEF TypeOK, MonitorTypeOK
<1>9. QED
  BY <1>7, <1>8 DEF Entries

LEMMA AnswerTypes ==
    ASSUME TypeOK, NEW c \in Commands, NEW reply \in Replies
    PROVE  [replies EXCEPT ![c] = Append(@, reply)] \in [Commands -> Seq(Replies)]
<1>1. replies[c] \in Seq(Replies)
  BY DEF TypeOK, MonitorTypeOK
<1>2. Append(replies[c], reply) \in Seq(Replies)
  BY <1>1
<1>3. QED
  BY <1>2 DEF TypeOK, MonitorTypeOK

LEMMA TypeInit == Init => TypeOK
<1> SUFFICES ASSUME Init PROVE MonitorTypeOK
  BY TableInit DEF TypeOK
<1>1. <<>> \in Seq(Replies)
      /\ <<>> \in Seq([id : Ids, status : Statuses, how : Hows, count : Nat])
  OBVIOUS
<1>2. QED
  BY <1>1 DEF Init, MonitorInit, MonitorTypeOK, NotMuted, NoHistory

LEMMA TypeStep == ASSUME TypeOK, Tabled, [Next]_vars PROVE TypeOK'
<1> USE DEF TypeOK
<1>1. ConcourseTypeOK'
  BY TableStep
<1>2. MonitorTypeOK'
  <2>1. CASE UNCHANGED monitorVars
    BY <2>1 DEF MonitorTypeOK, monitorVars, maps, channels, observed
  <2>2. ASSUME NEW i \in Ids, NEW s \in Ended, Deliver(i, s), Handling(i, s) PROVE MonitorTypeOK'
    <3>1. PICK how : Handles(i, s, how)
      BY <2>2, ReceiveHandles DEF Handling
    <3>2. /\ history' \in [Jobs -> [last : {""} \cup Statuses, failures : Nat]]
          /\ handled' \in [Jobs -> Seq([id : Ids, status : Statuses, how : Hows, count : Nat])]
      BY <3>1, HandlesTypes
    <3>3. /\ starting' \subseteq Commands \X Ids
          /\ stopped' \in BOOLEAN
          /\ now' \in Nat
          /\ startedBy' \in [Ids -> Commands \cup {NoCommand}]
          /\ promised' \in [Jobs -> Nat \cup {NotMuted}]
      BY <3>1 DEF Handles, MonitorTypeOK
    <3>4. /\ muted' \in [Jobs -> Nat \cup {NotMuted}]
          /\ manuallyStarted' \in [Ids -> Commands \cup {NoCommand}]
      BY <2>2 DEF Handling, RespondToManual, Announce, KeepQuiet, MonitorTypeOK
    <3>5. /\ channel' \in [Commands -> {"unsent", "open", "closed"}]
          /\ replies' \in [Commands -> Seq(Replies)]
      <4>1. CASE RespondToManual(i, s)
        <5>1. manuallyStarted[i] \in Commands
          BY <4>1 DEF RespondToManual, MonitorTypeOK
        <5>2. s \in Replies
          BY <3>1, MonitorAssumption DEF Handles, Replies
        <5>3. QED
          BY <4>1, <5>1, <5>2, AnswerTypes DEF RespondToManual, MonitorTypeOK
      <4>2. CASE Announce(i, s) \/ KeepQuiet(i, s)
        BY <4>2 DEF Announce, KeepQuiet, channels, MonitorTypeOK
      <4>3. QED
        BY <2>2, <4>1, <4>2 DEF Handling
    <3>6. QED
      BY <3>2, <3>3, <3>4, <3>5 DEF MonitorTypeOK
  <2>3. ASSUME NEW c \in Commands, NEW j \in Jobs, CommandRerun(c, j) PROVE MonitorTypeOK'
    <3>1. nextId \in Ids
      BY <2>3, ConcourseAssumption DEF CommandRerun, BeginBuild, ConcourseTypeOK, Ids
    <3>2. starting' \subseteq Commands \X Ids
      BY <2>3, <3>1 DEF CommandRerun
    <3>3. channel' \in [Commands -> {"unsent", "open", "closed"}]
      BY <2>3 DEF CommandRerun, MonitorTypeOK
    <3>4. UNCHANGED <<history, muted, manuallyStarted, stopped, now, replies,
                      handled, startedBy, promised>>
      BY <2>3 DEF CommandRerun, maps, observed
    <3>5. QED
      BY <3>2, <3>3, <3>4 DEF MonitorTypeOK
  <2>4. ASSUME NEW c \in Commands, NEW i \in Ids, RerunFails(c, i) PROVE MonitorTypeOK'
    <3>1. "failed" \in Replies
      BY DEF Replies
    <3>2. QED
      BY <2>4, <3>1, AnswerTypes DEF RerunFails, Answer, maps, observed, MonitorTypeOK
  <2>5. ASSUME NEW c \in Commands, NEW j \in Jobs, HandleLocalCommand(c, j)
        PROVE  MonitorTypeOK'
    <3>1. "failed" \in Replies /\ "muted" \in Replies /\ "invalid duration" \in Replies /\ "unmuted" \in Replies
      BY DEF Replies
    <3>2. ASSUME NEW duration \in Durations \cup {DefaultMute}, CommandMute(c, j, duration)
          PROVE  MonitorTypeOK'
      <4>1. now + duration \in Nat
        <5>1. duration \in Nat
          BY MonitorAssumption
        <5>2. now \in Nat
          BY DEF MonitorTypeOK
        <5>3. QED
          BY <5>1, <5>2
      <4>2. QED
        BY <3>1, <3>2, <4>1, AnswerTypes DEF CommandMute, Answer, MonitorTypeOK
    <3>3. CASE CommandMuteInvalid(c, j)
      BY <3>1, <3>3, AnswerTypes DEF CommandMuteInvalid, Answer, maps, observed, MonitorTypeOK
    <3>4. CASE CommandUnmute(c, j)
      BY <3>1, <3>4, AnswerTypes DEF CommandUnmute, Answer, MonitorTypeOK
    <3>5. CASE CommandRerunFails(c, j)
      BY <3>1, <3>5, AnswerTypes DEF CommandRerunFails, Answer, maps, observed, MonitorTypeOK
    <3>6. QED
      BY <2>5, <3>2, <3>3, <3>4, <3>5 DEF HandleLocalCommand
  <2>6. ASSUME NEW c \in Commands, NEW i \in Ids, RegisterRerun(c, i) PROVE MonitorTypeOK'
    <3>1. "rerunning" \in Replies
      BY DEF Replies
    <3>2. QED
      BY <2>6, <3>1, AnswerTypes DEF RegisterRerun, MonitorTypeOK
  <2>7. CASE Tick \/ Stop
    <3>1. now \in Nat /\ stopped \in BOOLEAN
      BY DEF MonitorTypeOK
    <3>2. now' \in Nat
      BY <2>7, <3>1 DEF Tick, Stop
    <3>3. stopped' \in BOOLEAN
      BY <2>7, <3>1, Zenon DEF Tick, Stop
    <3>4. UNCHANGED <<history, muted, manuallyStarted, starting, channel, replies,
                      handled, startedBy, promised>>
      BY <2>7 DEF Tick, Stop, maps, channels, observed
    <3>5. QED
      BY <3>2, <3>3, <3>4 DEF MonitorTypeOK
  <2>8. QED
    BY <2>1, <2>2, <2>3, <2>4, <2>5, <2>6, <2>7, MonitorSteps
<1>3. QED
  BY <1>1, <1>2

-----------------------------------------------------------------------------
(* The log of the builds handled for each job.                             *)

\* The entry a handling adds to the log of its job.
EntryOf(i, s, how) ==
    [id |-> i, status |-> s, how |-> how, count |-> history[pipeline[i]].failures]

LEMMA HandlesAppends ==
    ASSUME TypeOK, NEW i, NEW s, NEW how, Handles(i, s, how)
    PROVE  /\ i \in Ids
           /\ pipeline[i] \in Jobs
           /\ EntryOf(i, s, how) \in Entries
           /\ handled[pipeline[i]] \in Seq(Entries)
           /\ handled'[pipeline[i]] = Append(handled[pipeline[i]], EntryOf(i, s, how))
           /\ \A j \in Jobs : j # pipeline[i] =>
                handled'[j] = handled[j] /\ history'[j] = history[j]
<1>1. pipeline[i] \in Jobs /\ i \in Ids /\ how \in Hows /\ s \in Statuses
  BY MonitorAssumption DEF Handles
<1>2. history[pipeline[i]].failures \in Nat
  BY <1>1 DEF TypeOK, MonitorTypeOK
<1>3. EntryOf(i, s, how) \in Entries
  BY <1>1, <1>2 DEF EntryOf, Entries
<1>4. handled \in [Jobs -> Seq(Entries)] /\ history \in [Jobs -> [last : {""} \cup Statuses, failures : Nat]]
  BY DEF TypeOK, MonitorTypeOK, Entries
<1>5. handled' = [handled EXCEPT ![pipeline[i]] = Append(@, EntryOf(i, s, how))]
  BY DEF Handles, UpdateHistory, EntryOf
<1>6. \A j \in Jobs : j # pipeline[i] => history'[j] = history[j]
  BY <1>4 DEF Handles, UpdateHistory
<1>7. QED
  BY <1>1, <1>3, <1>4, <1>5, <1>6

\* The log grows at its end, and nowhere else.
LEMMA LogsGrow ==
    ASSUME TypeOK, [Next]_vars, NEW j \in Jobs
    PROVE  /\ Len(handled[j]) \in Nat
           /\ Len(handled[j]) <= Len(handled'[j])
           /\ \A k \in 1..Len(handled[j]) : handled'[j][k] = handled[j][k]
<1>1. handled[j] \in Seq(Entries)
  BY DEF TypeOK, MonitorTypeOK, Entries
<1>2. ASSUME NEW i \in Ids, NEW s \in Ended, NEW how \in Hows, Handles(i, s, how)
      PROVE  \/ handled'[j] = Append(handled[j], EntryOf(i, s, how))
             \/ handled'[j] = handled[j]
  BY <1>2, HandlesAppends
<1>3. handled'[j] = handled[j] \/ \E e : handled'[j] = Append(handled[j], e)
  BY <1>2, HandlesOrNot
<1>4. QED
  BY <1>1, <1>3

\* A build was received with a status it had.
Logs ==
    \A j \in Jobs : \A k \in 1..Len(handled[j]) :
        LET e == handled[j][k] IN
        /\ pipeline[e.id] = j
        /\ e.status \in endings[e.id]
        /\ status[e.id] # "absent"

Bounded == \A j \in Jobs : Len(handled[j]) <= MaxHandled

LEMMA LogsStep ==
    ASSUME TypeOK, Tabled, Logs, [Next]_vars
    PROVE  Logs'
<1> SUFFICES ASSUME NEW j \in Jobs, NEW k \in 1..Len(handled'[j])
             PROVE  /\ pipeline'[handled'[j][k].id] = j
                    /\ handled'[j][k].status \in endings'[handled'[j][k].id]
                    /\ status'[handled'[j][k].id] # "absent"
  BY DEF Logs
<1>1. handled[j] \in Seq(Entries)
  BY DEF TypeOK, MonitorTypeOK, Entries
<1>2. ASSUME k \in 1..Len(handled[j]), handled'[j][k] = handled[j][k]
      PROVE  /\ pipeline'[handled'[j][k].id] = j
             /\ handled'[j][k].status \in endings'[handled'[j][k].id]
             /\ status'[handled'[j][k].id] # "absent"
  <2> DEFINE e == handled[j][k]
  <2>1. e \in Entries
    BY <1>1, <1>2
  <2>2. /\ e.id \in Ids /\ pipeline[e.id] = j
        /\ e.status \in endings[e.id] /\ status[e.id] # "absent"
    BY <1>2, <2>1 DEF Logs, Entries
  <2>3. Kept
    BY TableStep DEF TypeOK
  <2>4. QED
    BY <1>2, <2>2, <2>3 DEF Kept
<1>3. CASE UNCHANGED handled
  BY <1>2, <1>3
<1>4. ASSUME NEW i \in Ids, NEW s \in Ended, NEW how \in Hows, Handles(i, s, how)
      PROVE  /\ pipeline'[handled'[j][k].id] = j
             /\ handled'[j][k].status \in endings'[handled'[j][k].id]
             /\ status'[handled'[j][k].id] # "absent"
  <2>1. CASE j # pipeline[i]
    BY <1>2, <1>4, <2>1, HandlesAppends
  <2>2. CASE j = pipeline[i]
    <3>1. handled'[j] = Append(handled[j], EntryOf(i, s, how))
      BY <1>4, <2>2, HandlesAppends
    <3>2. \/ k \in 1..Len(handled[j]) /\ handled'[j][k] = handled[j][k]
          \/ handled'[j][k] = EntryOf(i, s, how)
      BY <1>1, <3>1
    <3>3. ASSUME handled'[j][k] = EntryOf(i, s, how)
          PROVE  /\ pipeline'[handled'[j][k].id] = j
                 /\ handled'[j][k].status \in endings'[handled'[j][k].id]
                 /\ status'[handled'[j][k].id] # "absent"
      <4>1. handled'[j][k].id = i /\ handled'[j][k].status = s
        BY <3>3 DEF EntryOf
      <4>2. s \in endings[i] /\ status[i] # "absent" /\ UNCHANGED <<pipeline, status, endings>>
        BY <1>4 DEF Handles, Tabled, concourseVars
      <4>3. QED
        BY <2>2, <4>1, <4>2
    <3>4. QED
      BY <1>2, <3>2, <3>3
  <2>3. QED
    BY <2>1, <2>2
<1>5. QED
  BY <1>3, <1>4, HandlesOrNot

LEMMA BoundedStep ==
    ASSUME TypeOK, Bounded, [Next]_vars
    PROVE  Bounded'
<1> SUFFICES ASSUME NEW j \in Jobs PROVE Len(handled'[j]) <= MaxHandled
  BY DEF Bounded
<1>1. handled[j] \in Seq(Entries)
  BY DEF TypeOK, MonitorTypeOK, Entries
<1>2. ASSUME NEW i \in Ids, NEW s \in Ended, NEW how \in Hows, Handles(i, s, how)
      PROVE  Len(handled'[j]) <= MaxHandled
  <2>1. CASE j # pipeline[i]
    BY <1>2, <2>1, HandlesAppends DEF Bounded
  <2>2. CASE j = pipeline[i]
    <3>1. handled'[j] = Append(handled[j], EntryOf(i, s, how))
      BY <1>2, <2>2, HandlesAppends
    <3>2. Len(handled[j]) < MaxHandled
      BY <1>2, <2>2 DEF Handles
    <3>3. QED
      BY <1>1, <3>1, <3>2, MonitorAssumption
  <2>3. QED
    BY <2>1, <2>2
<1>3. CASE UNCHANGED handled
  BY <1>3 DEF Bounded
<1>4. QED
  BY <1>2, <1>3, HandlesOrNot

-----------------------------------------------------------------------------
(* The history.                                                           *)

\* What HistoryIsComplete says of one job.
Told(j) ==
    /\ history[j].last = IF handled[j] = <<>> THEN "" ELSE handled[j][Len(handled[j])].status
    /\ history[j].failures = FailuresSince(handled[j], Len(handled[j]))

LEMMA HistoryStep ==
    ASSUME TypeOK, HistoryIsComplete, [Next]_vars
    PROVE  HistoryIsComplete'
<1> SUFFICES ASSUME NEW j \in Jobs PROVE Told(j)'
  BY DEF HistoryIsComplete, Told
<1>1. Told(j)
  BY DEF HistoryIsComplete, Told
<1>2. ASSUME handled'[j] = handled[j], history'[j] = history[j] PROVE Told(j)'
  BY <1>1, <1>2 DEF Told, FailuresSince
<1>3. ASSUME NEW i \in Ids, NEW s \in Ended, NEW how \in Hows, Handles(i, s, how) PROVE Told(j)'
  <2>1. CASE j # pipeline[i]
    BY <1>2, <1>3, <2>1, HandlesAppends
  <2>2. CASE j = pipeline[i]
    <3> DEFINE log == handled[j]
               e == EntryOf(i, s, how)
               n == Len(log)
    <3>1. log \in Seq(Entries) /\ e \in Entries /\ handled'[j] = Append(log, e)
      BY <1>3, <2>2, HandlesAppends
    <3>2. e.status = s
      BY DEF EntryOf
    <3>3. history'[j] = [last |-> s,
                         failures |-> CASE s = "succeeded" -> 0
                                        [] s = "failed" -> history[j].failures + 1
                                        [] OTHER -> history[j].failures]
      BY <1>3, <2>2 DEF Handles, UpdateHistory, TypeOK, MonitorTypeOK
    <3>4. history[j].failures = FailuresSince(log, n)
      BY <1>1 DEF Told
    <3> HIDE DEF e, log
    <3>5. n \in Nat /\ Len(Append(log, e)) = n + 1
             /\ Append(log, e)[n + 1] = e /\ Append(log, e) # <<>>
      BY <3>1
    <3>6. FailuresSince(Append(log, e), n + 1) =
                CASE e.status = "succeeded" -> 0
                  [] e.status = "failed" -> FailuresSince(log, n) + 1
                  [] OTHER -> FailuresSince(log, n)
      BY <3>1, FailuresAppend
    <3> HIDE DEF n
    <3>7. history'[j].failures = FailuresSince(Append(log, e), n + 1)
      BY <3>2, <3>3, <3>4, <3>6
    <3>8. history'[j].last = e.status
      BY <3>2, <3>3
    <3>9. Told(j)' = (/\ history'[j].last = IF handled'[j] = <<>> THEN ""
                                            ELSE handled'[j][Len(handled'[j])].status
                      /\ history'[j].failures = FailuresSince(handled'[j], Len(handled'[j])))
      BY DEF Told, FailuresSince
    <3>10. QED
      BY <3>1, <3>5, <3>7, <3>8, <3>9
  <2>3. QED
    BY <2>1, <2>2
<1>4. CASE UNCHANGED <<history, handled>>
  BY <1>2, <1>4
<1>5. QED
  BY <1>3, <1>4, HandlesOrNot

-----------------------------------------------------------------------------
(* Reruns.                                                                 *)

\* A handling is one more of its build, the last of its log.
LEMMA HandlingsGrow ==
    ASSUME TypeOK, Bounded, NEW i, NEW s, NEW how, Handles(i, s, how)
    PROVE  /\ HandlingsOf(i)' = HandlingsOf(i) \cup {<<pipeline[i], Len(handled[pipeline[i]]) + 1>>}
           /\ handled'[pipeline[i]][Len(handled[pipeline[i]]) + 1].how = how
           /\ handled'[pipeline[i]][Len(handled[pipeline[i]]) + 1].status = s
           /\ \A k \in Ids : k # i => HandlingsOf(k)' = HandlingsOf(k)
<1> DEFINE j == pipeline[i]
           n == Len(handled[j])
<1>1. /\ i \in Ids
      /\ j \in Jobs
      /\ handled[j] \in Seq(Entries)
      /\ handled'[j] = Append(handled[j], EntryOf(i, s, how))
      /\ \A l \in Jobs : l # j => handled'[l] = handled[l]
  BY HandlesAppends
<1>2. n \in Nat /\ n < MaxHandled /\ MaxHandled \in Nat
  BY <1>1, MonitorAssumption DEF Handles
<1>3. /\ Len(handled'[j]) = n + 1
      /\ handled'[j][n + 1] = EntryOf(i, s, how)
      /\ \A m \in 1..n : handled'[j][m] = handled[j][m]
  BY <1>1
<1>4. EntryOf(i, s, how).id = i /\ EntryOf(i, s, how).how = how /\ EntryOf(i, s, how).status = s
  BY DEF EntryOf
<1> HIDE DEF j, n
<1>5. ASSUME NEW k \in Ids, NEW l \in Jobs, NEW m \in 1..MaxHandled
      PROVE  <<l, m>> \in HandlingsOf(k)'
                <=> \/ <<l, m>> \in HandlingsOf(k)
                    \/ k = i /\ l = j /\ m = n + 1
  <2>1. <<l, m>> \in HandlingsOf(k)' <=> m <= Len(handled'[l]) /\ handled'[l][m].id = k
    BY DEF HandlingsOf
  <2>2. <<l, m>> \in HandlingsOf(k) <=> m <= Len(handled[l]) /\ handled[l][m].id = k
    BY DEF HandlingsOf
  <2>3. CASE l # j
    BY <1>1, <2>1, <2>2, <2>3
  <2>4. CASE l = j /\ m \in 1..n
    BY <1>2, <1>3, <2>1, <2>2, <2>4 DEF n
  <2>5. CASE l = j /\ m = n + 1
    BY <1>2, <1>3, <1>4, <2>1, <2>2, <2>5 DEF n
  <2>6. CASE l = j /\ m > n + 1
    BY <1>2, <1>3, <2>1, <2>2, <2>6 DEF n
  <2>7. QED
    BY <1>2, <2>3, <2>4, <2>5, <2>6
<1>6. n + 1 \in 1..MaxHandled
  BY <1>2
<1>7. ASSUME NEW k \in Ids
      PROVE  /\ HandlingsOf(k) \subseteq Jobs \X (1..MaxHandled)
             /\ HandlingsOf(k)' \subseteq Jobs \X (1..MaxHandled)
  BY DEF HandlingsOf
<1>8. HandlingsOf(i)' = HandlingsOf(i) \cup {<<j, n + 1>>}
  <2>1. ASSUME NEW h, h \in HandlingsOf(i)' PROVE h \in HandlingsOf(i) \cup {<<j, n + 1>>}
    <3>1. PICK l \in Jobs, m \in 1..MaxHandled : h = <<l, m>>
      BY <1>1, <1>7, <2>1
    <3>2. QED
      BY <1>1, <1>5, <2>1, <3>1
  <2>2. ASSUME NEW h, h \in HandlingsOf(i) PROVE h \in HandlingsOf(i)'
    <3>1. PICK l \in Jobs, m \in 1..MaxHandled : h = <<l, m>>
      BY <1>1, <1>7, <2>2
    <3>2. QED
      BY <1>1, <1>5, <2>2, <3>1
  <2>3. <<j, n + 1>> \in HandlingsOf(i)'
    BY <1>1, <1>5, <1>6
  <2>4. QED
    BY <2>1, <2>2, <2>3
<1>9. ASSUME NEW k \in Ids, k # i PROVE HandlingsOf(k)' = HandlingsOf(k)
  <2>1. ASSUME NEW h, h \in HandlingsOf(k)' PROVE h \in HandlingsOf(k)
    <3>1. PICK l \in Jobs, m \in 1..MaxHandled : h = <<l, m>>
      BY <1>7, <2>1
    <3>2. QED
      BY <1>5, <1>9, <2>1, <3>1
  <2>2. ASSUME NEW h, h \in HandlingsOf(k) PROVE h \in HandlingsOf(k)'
    <3>1. PICK l \in Jobs, m \in 1..MaxHandled : h = <<l, m>>
      BY <1>7, <2>2
    <3>2. QED
      BY <1>5, <2>2, <3>1
  <2>3. QED
    BY <2>1, <2>2
<1>10. QED
  BY <1>3, <1>4, <1>8, <1>9 DEF j, n

\* A build is not handled before it has been created.
LEMMA HandlingsExist ==
    ASSUME TypeOK, Tabled, Logs, NEW i \in Ids, HandlingsOf(i) # {}
    PROVE  i < nextId /\ status[i] # "absent" /\ \A h \in HandlingsOf(i) : h[1] = pipeline[i]
<1>1. ASSUME NEW h \in HandlingsOf(i)
      PROVE  status[i] # "absent" /\ h[1] = pipeline[i]
  <2>1. /\ h[1] \in Jobs
        /\ h[2] \in 1..Len(handled[h[1]])
        /\ handled[h[1]][h[2]].id = i
    <3>1. h \in Jobs \X (1..MaxHandled) /\ h[2] <= Len(handled[h[1]]) /\ handled[h[1]][h[2]].id = i
      BY DEF HandlingsOf
    <3>2. h[1] \in Jobs /\ h[2] \in 1..MaxHandled
      BY <3>1
    <3>3. Len(handled[h[1]]) \in Nat
      <4>1. handled[h[1]] \in Seq(Entries)
        BY <3>2 DEF TypeOK, MonitorTypeOK, Entries
      <4>2. QED
        BY <4>1
    <3>4. QED
      BY <3>1, <3>2, <3>3
  <2>2. QED
    BY <2>1 DEF Logs
<1>2. QED
  BY <1>1, ConcourseAssumption DEF Tabled

\* A command is not used before it is written.
Unused ==
    \A c \in Commands : channel[c] = "unsent" =>
        /\ replies[c] = <<>>
        /\ \A i \in Ids : startedBy[i] # c

\* The build that a rerun has created but not yet put into the map.
Begun ==
    \A c \in Commands, i \in Ids : <<c, i>> \in starting =>
        /\ starting = {<<c, i>>}
        /\ i < nextId
        /\ startedBy[i] = NoCommand
        /\ manuallyStarted[i] = NoCommand
        /\ HandlingsOf(i) = {}
        /\ channel[c] = "open"
        /\ replies[c] = <<>>
        /\ \A k \in Ids : startedBy[k] # c

\* The map names the command that started the build.
Owned ==
    \A i \in Ids :
        /\ startedBy[i] # NoCommand => i < nextId
        /\ manuallyStarted[i] # NoCommand => startedBy[i] = manuallyStarted[i]

\* A command starts one build.
Single ==
    \A i, k \in Ids : startedBy[i] # NoCommand /\ startedBy[i] = startedBy[k] => i = k

Reruns == Unused /\ Begun /\ Owned /\ Single

LEMMA RerunsHandling ==
    ASSUME TypeOK, Bounded, Tabled, Logs, Reruns, NEW i \in Ids, NEW s \in Ended, Deliver(i, s), Handling(i, s)
    PROVE  Reruns'
<1> USE MonitorAssumption
<1>1. PICK how : Handles(i, s, how)
  BY ReceiveHandles DEF Handling
<1>2. UNCHANGED <<concourseVars, starting, startedBy>> /\ starting = {}
  BY <1>1 DEF Handles
<1>3. nextId' = nextId
  BY <1>2 DEF concourseVars
<1>4. CASE RespondToManual(i, s)
  <2> DEFINE c == manuallyStarted[i]
  <2>1. /\ c # NoCommand
        /\ c \in Commands
        /\ startedBy[i] = c
        /\ replies' = [replies EXCEPT ![c] = Append(@, s)]
        /\ channel' = [channel EXCEPT ![c] = "closed"]
        /\ manuallyStarted' = [manuallyStarted EXCEPT ![i] = NoCommand]
    BY <1>4 DEF RespondToManual, TypeOK, MonitorTypeOK, Reruns, Owned
  <2>2. Unused'
    BY <1>2, <2>1 DEF Reruns, Unused, TypeOK, MonitorTypeOK
  <2>3. Owned'
    BY <1>2, <1>3, <2>1 DEF Reruns, Owned, TypeOK, MonitorTypeOK
  <2>4. Begun' /\ Single'
    BY <1>2 DEF Reruns, Begun, Single
  <2>5. QED
    BY <2>2, <2>3, <2>4 DEF Reruns
<1>5. CASE Announce(i, s) \/ KeepQuiet(i, s)
  <2>1. UNCHANGED <<manuallyStarted, channel, replies>>
    BY <1>5 DEF Announce, KeepQuiet, channels
  <2>2. Unused' /\ Owned' /\ Begun' /\ Single'
    BY <1>2, <1>3, <2>1 DEF Reruns, Unused, Begun, Owned, Single
  <2>3. QED
    BY <2>2 DEF Reruns
<1>6. QED
  BY <1>4, <1>5 DEF Handling

\* A command that is answered at once.
AnsweredAtOnce(c) ==
    /\ c \in Commands
    /\ channel[c] = "unsent"
    /\ starting = {}
    /\ channel' = [channel EXCEPT ![c] = "closed"]
    /\ UNCHANGED <<history, handled, manuallyStarted, starting, startedBy>>
    /\ \A d \in Commands : d # c => replies'[d] = replies[d]

LEMMA AnsweredCommands ==
    ASSUME TypeOK, NEW c \in Commands, NEW j \in Jobs, HandleLocalCommand(c, j)
    PROVE  AnsweredAtOnce(c)
BY DEF HandleLocalCommand, CommandRerunFails, CommandMute, CommandMuteInvalid, CommandUnmute,
       Answer, Takes, Selecting, maps, observed, AnsweredAtOnce, TypeOK, MonitorTypeOK

LEMMA RerunsStep ==
    ASSUME TypeOK, Bounded, Tabled, Logs, Reruns, [Next]_vars
    PROVE  Reruns'
<1> USE MonitorAssumption
<1>0. Kept /\ nextId \in Int /\ nextId' \in Int /\ \A i \in Ids : i \in Int
  BY TableStep, ConcourseAssumption DEF TypeOK, ConcourseTypeOK, Ids
<1>1. ASSUME UNCHANGED <<manuallyStarted, handled, starting, channel, replies, startedBy>>
      PROVE  Reruns'
  <2>1. \A i \in Ids : HandlingsOf(i)' = HandlingsOf(i)
    BY <1>1 DEF HandlingsOf
  <2>2. QED
    BY <1>0, <1>1, <2>1 DEF Reruns, Unused, Begun, Owned, Single, Kept
<1>2. CASE UNCHANGED monitorVars
  BY <1>1, <1>2 DEF monitorVars, maps, channels, observed
<1>3. ASSUME NEW i \in Ids, NEW s \in Ended, Deliver(i, s), Handling(i, s) PROVE Reruns'
  BY <1>3, RerunsHandling
<1>4. ASSUME NEW c \in Commands, NEW j \in Jobs, CommandRerun(c, j) PROVE Reruns'
  <2>1. /\ channel[c] = "unsent"
        /\ nextId \in Ids
        /\ nextId' = nextId + 1
        /\ starting' = {<<c, nextId>>}
        /\ channel' = [channel EXCEPT ![c] = "open"]
        /\ UNCHANGED <<manuallyStarted, replies, handled, startedBy>>
    BY <1>4, ConcourseAssumption
       DEF CommandRerun, BeginBuild, Takes, maps, observed, TypeOK, ConcourseTypeOK, Ids
  <2>2. replies[c] = <<>> /\ \A i \in Ids : startedBy[i] # c
    BY <2>1 DEF Reruns, Unused
  <2>3. startedBy[nextId] = NoCommand /\ manuallyStarted[nextId] = NoCommand
    BY <1>0, <2>1 DEF Reruns, Owned
  <2>4. ASSUME NEW i \in Ids, i = nextId PROVE HandlingsOf(i)' = {}
    <3>1. HandlingsOf(i) = {}
      BY <1>0, <2>4, HandlingsExist
    <3>2. QED
      BY <2>1, <3>1 DEF HandlingsOf
  <2>5. Begun'
    <3>1. \A d \in Commands, i \in Ids : <<d, i>> \in starting' => d = c /\ i = nextId
      BY <2>1
    <3>2. channel'[c] = "open"
      BY <2>1 DEF TypeOK, MonitorTypeOK
    <3>3. QED
      BY <1>0, <2>1, <2>2, <2>3, <2>4, <3>1, <3>2 DEF Begun
  <2>6. Unused'
    BY <2>1 DEF Reruns, Unused, TypeOK, MonitorTypeOK
  <2>7. Owned'
    <3>1. \A i \in Ids : i < nextId => i < nextId'
      BY <1>0 DEF Kept
    <3>2. QED
      BY <2>1, <3>1 DEF Reruns, Owned
  <2>8. Single'
    BY <2>1 DEF Reruns, Single
  <2>9. QED
    BY <2>5, <2>6, <2>7, <2>8 DEF Reruns
<1>5. ASSUME NEW c \in Commands, NEW j \in Jobs, HandleLocalCommand(c, j)
      PROVE  Reruns'
  <2>1. AnsweredAtOnce(c)
    BY <1>5, AnsweredCommands
  <2>2. Unused' /\ Begun' /\ Single'
    BY <2>1 DEF AnsweredAtOnce, Reruns, Unused, Begun, Single, TypeOK, MonitorTypeOK
  <2>3. \A i \in Ids : i < nextId => i < nextId'
    BY <1>0 DEF Kept
  <2>4. Owned'
    BY <2>1, <2>3 DEF AnsweredAtOnce, Reruns, Owned
  <2>5. QED
    BY <2>2, <2>4 DEF Reruns
<1>6. ASSUME NEW c \in Commands, NEW i \in Ids, RegisterRerun(c, i) PROVE Reruns'
  <2>1. /\ <<c, i>> \in starting
        /\ starting' = {}
        /\ \A d \in Commands : d # c => replies'[d] = replies[d]
        /\ manuallyStarted' = [manuallyStarted EXCEPT ![i] = c]
        /\ startedBy' = [startedBy EXCEPT ![i] = c]
        /\ channel' = channel
    BY <1>6 DEF RegisterRerun, TypeOK, MonitorTypeOK
  <2>2. /\ i < nextId
        /\ channel[c] = "open"
        /\ \A k \in Ids : startedBy[k] # c
    BY <2>1 DEF Reruns, Begun
  <2>3. Unused'
    BY <2>1, <2>2 DEF Reruns, Unused, TypeOK, MonitorTypeOK
  <2>4. Owned'
    <3>1. i < nextId'
      BY <1>0, <2>2 DEF Kept
    <3>2. \A k \in Ids : k # i => manuallyStarted'[k] = manuallyStarted[k]
                               /\ startedBy'[k] = startedBy[k]
      BY <2>1 DEF TypeOK, MonitorTypeOK
    <3>3. manuallyStarted'[i] = c /\ startedBy'[i] = c
      BY <2>1 DEF TypeOK, MonitorTypeOK
    <3>4. QED
      BY <1>0, <3>1, <3>2, <3>3 DEF Reruns, Owned, Kept
  <2>5. Begun'
    BY <2>1 DEF Begun
  <2>6. Single'
    BY <2>1, <2>2 DEF Reruns, Single, TypeOK, MonitorTypeOK
  <2>7. QED
    BY <2>3, <2>4, <2>5, <2>6 DEF Reruns
<1>7. ASSUME NEW c \in Commands, NEW i \in Ids, RerunFails(c, i) PROVE Reruns'
  <2>1. /\ starting' = {}
        /\ \A d \in Commands : d # c => replies'[d] = replies[d]
        /\ channel' = [channel EXCEPT ![c] = "closed"]
        /\ UNCHANGED <<manuallyStarted, startedBy>>
    BY <1>7 DEF RerunFails, Answer, maps, observed, TypeOK, MonitorTypeOK
  <2>2. Unused'
    BY <2>1 DEF Reruns, Unused, TypeOK, MonitorTypeOK
  <2>3. Begun' /\ Single'
    BY <2>1 DEF Reruns, Begun, Single
  <2>4. \A k \in Ids : k < nextId => k < nextId'
    BY <1>0 DEF Kept
  <2>5. Owned'
    BY <2>1, <2>4 DEF Reruns, Owned
  <2>6. QED
    BY <2>2, <2>3, <2>5 DEF Reruns
<1>8. CASE Tick \/ Stop
  BY <1>1, <1>8 DEF Tick, Stop, maps, channels, observed
<1>9. QED
  BY <1>2, <1>3, <1>4, <1>5, <1>6, <1>7, <1>8, MonitorSteps

-----------------------------------------------------------------------------
(* What is owed to the user who asked for a rerun.                         *)

\* What RerunAnsweredOnce says of one build.
Owing(i) ==
    /\ manuallyStarted[i] = startedBy[i]
    /\ HandlingsOf(i) = {}
    /\ channel[startedBy[i]] = "open"
    /\ replies[startedBy[i]] = <<"rerunning">>

Paid(i) ==
    /\ manuallyStarted[i] = NoCommand
    /\ channel[startedBy[i]] = "closed"
    /\ \E first \in HandlingsOf(i) :
          /\ replies[startedBy[i]] = <<"rerunning", handled[first[1]][first[2]].status>>
          /\ \A h \in HandlingsOf(i) :
                /\ first[1] = h[1] /\ first[2] <= h[2]
                /\ handled[h[1]][h[2]].how = "answered" <=> h = first

LEMMA OwingOrPaid ==
    RerunAnsweredOnce <=> \A i \in Ids : startedBy[i] # NoCommand => Owing(i) \/ Paid(i)
BY DEF RerunAnsweredOnce, Owing, Paid

LEMMA OwingOrPaidNext ==
    RerunAnsweredOnce' <=> \A i \in Ids : startedBy'[i] # NoCommand => Owing(i)' \/ Paid(i)'
BY DEF RerunAnsweredOnce, Owing, Paid, HandlingsOf

\* Nothing that is about another build or command disturbs it.
LEMMA OthersOwed ==
    ASSUME TypeOK, Tabled, Logs, [Next]_vars, NEW i \in Ids,
           startedBy[i] \in Commands,
           Owing(i) \/ Paid(i),
           HandlingsOf(i)' = HandlingsOf(i),
           startedBy'[i] = startedBy[i],
           manuallyStarted'[i] = manuallyStarted[i],
           channel'[startedBy[i]] = channel[startedBy[i]],
           replies'[startedBy[i]] = replies[startedBy[i]]
    PROVE  Owing(i)' \/ Paid(i)'
<1>1. CASE Owing(i)
  BY <1>1 DEF Owing
<1>2. CASE Paid(i)
  <2>1. PICK first \in HandlingsOf(i) :
          /\ replies[startedBy[i]] = <<"rerunning", handled[first[1]][first[2]].status>>
          /\ \A h \in HandlingsOf(i) :
                /\ first[1] = h[1] /\ first[2] <= h[2]
                /\ handled[h[1]][h[2]].how = "answered" <=> h = first
    BY <1>2 DEF Paid
  <2>3. ASSUME NEW h \in HandlingsOf(i) PROVE handled'[h[1]][h[2]] = handled[h[1]][h[2]]
    <3>1. h \in Jobs \X (1..MaxHandled) /\ h[2] <= Len(handled[h[1]])
      BY DEF HandlingsOf
    <3>2. h[1] \in Jobs /\ h[2] \in 1..MaxHandled
      BY <3>1
    <3>3. Len(handled[h[1]]) \in Nat
      BY <3>2, LogsGrow
    <3>4. h[2] \in 1..Len(handled[h[1]])
      BY <3>1, <3>2, <3>3
    <3>5. QED
      BY <3>2, <3>4, LogsGrow
  <2>4. \A h \in HandlingsOf(i) :
          /\ first[1] = h[1] /\ first[2] <= h[2]
          /\ handled'[h[1]][h[2]].how = "answered" <=> h = first
    BY <2>1, <2>3
  <2>5. first \in HandlingsOf(i)' /\ \A h \in HandlingsOf(i)' :
          /\ first[1] = h[1] /\ first[2] <= h[2]
          /\ handled'[h[1]][h[2]].how = "answered" <=> h = first
    BY <2>1, <2>4
  <2>6. replies'[startedBy[i]] = <<"rerunning", handled'[first[1]][first[2]].status>>
    BY <2>1, <2>3
  <2>7. QED
    BY <1>2, <2>5, <2>6 DEF Paid
<1>3. QED
  BY <1>1, <1>2

\* The answers to a rerun.
LEMMA RerunReplies ==
    ASSUME NEW S, NEW a \in S, NEW b \in S
    PROVE  /\ Append(<<>>, a) = <<a>>
           /\ Append(<<a>>, b) = <<a, b>>
<1>1. Append(<<>>, a) = <<a>>
  OBVIOUS
<1>2. <<a>> \in Seq(S) /\ <<a, b>> \in Seq(S)
  OBVIOUS
<1>3. Append(<<a>>, b) \in Seq(S)
  BY <1>2
<1>4. Len(<<a, b>>) = 2 /\ Len(Append(<<a>>, b)) = 2
  OBVIOUS
<1>5. Append(<<a>>, b)[1] = a /\ Append(<<a>>, b)[2] = b
  OBVIOUS
<1>6. <<a, b>>[1] = a /\ <<a, b>>[2] = b
  OBVIOUS
<1>7. \A k \in 1..2 : Append(<<a>>, b)[k] = <<a, b>>[k]
  <2>1. \A k \in 1..2 : k = 1 \/ k = 2
    OBVIOUS
  <2>2. QED
    BY <1>5, <1>6, <2>1, Zenon
<1>8. Append(<<a>>, b) = <<a, b>>
  BY <1>2, <1>3, <1>4, <1>7, SeqEqual
<1>9. QED
  BY <1>1, <1>8

LEMMA OwedHandling ==
    ASSUME TypeOK, Bounded, Tabled, Logs, Reruns, RerunAnsweredOnce, [Next]_vars,
           NEW i \in Ids, NEW s \in Ended, Deliver(i, s), Handling(i, s)
    PROVE  RerunAnsweredOnce'
<1> USE MonitorAssumption
<1>1. PICK how : Handles(i, s, how)
  BY ReceiveHandles DEF Handling
<1>2. UNCHANGED startedBy
  BY <1>1 DEF Handles, concourseVars
<1> DEFINE j == pipeline[i]
           n == Len(handled[j])
           new == <<j, n + 1>>
<1>3. /\ HandlingsOf(i)' = HandlingsOf(i) \cup {new}
      /\ handled'[j][n + 1].how = how
      /\ handled'[j][n + 1].status = s
      /\ \A k \in Ids : k # i => HandlingsOf(k)' = HandlingsOf(k)
  BY <1>1, HandlingsGrow
<1>4. /\ \A k \in Ids : k # i => manuallyStarted'[k] = manuallyStarted[k]
      /\ \A c \in Commands : c # manuallyStarted[i] =>
            channel'[c] = channel[c] /\ replies'[c] = replies[c]
  BY DEF Handling, RespondToManual, Announce, KeepQuiet, channels, TypeOK, MonitorTypeOK
<1>5. n \in Nat /\ j \in Jobs
  <2>1. j \in Jobs
    BY <1>1 DEF Handles
  <2>2. QED
    BY <2>1, LogsGrow
<1>6. ASSUME NEW k \in Ids, k # i, startedBy[k] # NoCommand PROVE Owing(k)' \/ Paid(k)'
  <2>1. startedBy[k] \in Commands
    BY <1>6 DEF TypeOK, MonitorTypeOK
  <2>2. startedBy[k] # manuallyStarted[i]
    BY <1>6, <2>1 DEF Reruns, Owned, Single
  <2>3. Owing(k) \/ Paid(k)
    BY <1>6, OwingOrPaid
  <2>4. QED
    BY <1>2, <1>3, <1>4, <1>6, <2>1, <2>2, <2>3, OthersOwed
<1>7. ASSUME startedBy[i] # NoCommand, Owing(i) PROVE Paid(i)'
  <2> DEFINE c == startedBy[i]
  <2>1. /\ c \in Commands
        /\ manuallyStarted[i] = c
        /\ replies[c] = <<"rerunning">>
        /\ HandlingsOf(i) = {}
    BY <1>7 DEF Owing, TypeOK, MonitorTypeOK
  <2>2. RespondToManual(i, s) /\ how = "answered"
    BY <1>1, <1>7, <2>1 DEF Handling, Announce, KeepQuiet, Handles
  <2>3. /\ manuallyStarted'[i] = NoCommand
        /\ channel'[c] = "closed"
        /\ replies'[c] = Append(replies[c], s)
    BY <2>1, <2>2 DEF RespondToManual, TypeOK, MonitorTypeOK
  <2>4. replies'[c] = <<"rerunning", s>>
    <3>1. s \in Replies /\ "rerunning" \in Replies
      BY <1>1 DEF Handles, Replies
    <3>2. QED
      BY <2>1, <2>3, <3>1, RerunReplies
  <2>5. HandlingsOf(i)' = {new}
    BY <1>3, <2>1
  <2>6. /\ new \in HandlingsOf(i)'
        /\ \A h \in HandlingsOf(i)' :
            /\ new[1] = h[1] /\ new[2] <= h[2]
            /\ handled'[h[1]][h[2]].how = "answered" <=> h = new
    BY <1>3, <1>5, <2>2, <2>5
  <2>7. replies'[c] = <<"rerunning", handled'[new[1]][new[2]].status>>
    BY <1>3, <2>4
  <2>8. QED
    BY <1>2, <2>3, <2>6, <2>7 DEF Paid
<1>8. ASSUME startedBy[i] # NoCommand, Paid(i) PROVE Paid(i)'
  <2> DEFINE c == startedBy[i]
  <2>1. PICK first \in HandlingsOf(i) :
          /\ replies[c] = <<"rerunning", handled[first[1]][first[2]].status>>
          /\ \A h \in HandlingsOf(i) :
                /\ first[1] = h[1] /\ first[2] <= h[2]
                /\ handled[h[1]][h[2]].how = "answered" <=> h = first
    BY <1>8 DEF Paid
  <2>2. how # "answered" /\ manuallyStarted[i] = NoCommand /\ c \in Commands
    BY <1>1, <1>8 DEF Handles, Paid, TypeOK, MonitorTypeOK
  <2>3. manuallyStarted'[i] = NoCommand
    BY <2>2 DEF Handling, RespondToManual, Announce, KeepQuiet
  <2>4. channel'[c] = channel[c] /\ replies'[c] = replies[c]
    BY <1>4, <2>2
  <2>5. ASSUME NEW h \in HandlingsOf(i)
        PROVE  /\ h[1] = j /\ h[2] \in 1..n
               /\ handled'[h[1]][h[2]] = handled[h[1]][h[2]]
    <3>1. h \in Jobs \X (1..MaxHandled) /\ h[2] <= Len(handled[h[1]])
      BY DEF HandlingsOf
    <3>2. h[1] = j
      BY HandlingsExist
    <3>3. h[2] \in 1..n
      BY <1>5, <3>1, <3>2
    <3>4. QED
      BY <1>5, <3>2, <3>3, LogsGrow
  <2>6. new \notin HandlingsOf(i) /\ new[1] = j /\ new[2] = n + 1
    BY <1>5, <2>5
  <2>7. /\ first \in HandlingsOf(i)'
        /\ \A h \in HandlingsOf(i)' :
            /\ first[1] = h[1] /\ first[2] <= h[2]
            /\ handled'[h[1]][h[2]].how = "answered" <=> h = first
    <3>1. ASSUME NEW h \in HandlingsOf(i)
          PROVE  /\ first[1] = h[1] /\ first[2] <= h[2]
                 /\ handled'[h[1]][h[2]].how = "answered" <=> h = first
      BY <2>1, <2>5
    <3>2. first[1] = new[1] /\ first[2] <= new[2]
      BY <1>5, <2>5, <2>6
    <3>3. handled'[new[1]][new[2]].how # "answered" /\ new # first
      BY <1>3, <2>2, <2>6
    <3>4. QED
      BY <1>3, <3>1, <3>2, <3>3
  <2>8. replies'[c] = <<"rerunning", handled'[first[1]][first[2]].status>>
    BY <2>1, <2>4, <2>5
  <2>9. QED
    BY <1>2, <1>8, <2>3, <2>4, <2>7, <2>8 DEF Paid
<1>9. ASSUME NEW k \in Ids, startedBy'[k] # NoCommand PROVE Owing(k)' \/ Paid(k)'
  BY <1>2, <1>6, <1>7, <1>8, <1>9, OwingOrPaid
<1>10. QED
  BY <1>9, OwingOrPaidNext

LEMMA OwedStep ==
    ASSUME TypeOK, Bounded, Tabled, Logs, Reruns, RerunAnsweredOnce, [Next]_vars
    PROVE  RerunAnsweredOnce'
<1> USE MonitorAssumption
<1>1. ASSUME handled' = handled,
             NEW i \in Ids, startedBy[i] # NoCommand,
             startedBy'[i] = startedBy[i],
             manuallyStarted'[i] = manuallyStarted[i],
             channel'[startedBy[i]] = channel[startedBy[i]],
             replies'[startedBy[i]] = replies[startedBy[i]]
      PROVE  Owing(i)' \/ Paid(i)'
  <2>1. HandlingsOf(i)' = HandlingsOf(i)
    BY <1>1 DEF HandlingsOf
  <2>2. startedBy[i] \in Commands
    BY <1>1 DEF TypeOK, MonitorTypeOK
  <2>3. QED
    BY <1>1, <2>1, <2>2, OwingOrPaid, OthersOwed
<1>2. ASSUME UNCHANGED <<handled, startedBy, manuallyStarted, channel, replies>>
      PROVE  RerunAnsweredOnce'
  BY <1>1, <1>2, OwingOrPaidNext
<1>3. CASE UNCHANGED monitorVars
  BY <1>2, <1>3 DEF monitorVars, maps, channels, observed
<1>4. ASSUME NEW i \in Ids, NEW s \in Ended, Deliver(i, s), Handling(i, s) PROVE RerunAnsweredOnce'
  BY <1>4, OwedHandling
<1>5. ASSUME NEW c \in Commands, NEW j \in Jobs, CommandRerun(c, j) PROVE RerunAnsweredOnce'
  <2>1. /\ channel[c] = "unsent"
        /\ \A d \in Commands : d # c => channel'[d] = channel[d]
        /\ UNCHANGED <<manuallyStarted, replies, handled, startedBy>>
    BY <1>5 DEF CommandRerun, Takes, maps, observed, TypeOK, MonitorTypeOK
  <2>2. \A i \in Ids : startedBy[i] # c
    BY <2>1 DEF Reruns, Unused
  <2>3. \A i \in Ids : startedBy[i] # NoCommand => startedBy[i] \in Commands
    BY DEF TypeOK, MonitorTypeOK
  <2>4. QED
    BY <1>1, <2>1, <2>2, <2>3, OwingOrPaidNext
<1>6. ASSUME NEW c \in Commands, NEW j \in Jobs, HandleLocalCommand(c, j)
      PROVE  RerunAnsweredOnce'
  <2>1. AnsweredAtOnce(c)
    BY <1>6, AnsweredCommands
  <2>2. \A i \in Ids : startedBy[i] # c
    BY <2>1 DEF AnsweredAtOnce, Reruns, Unused
  <2>3. \A i \in Ids : startedBy[i] # NoCommand => startedBy[i] \in Commands
    BY DEF TypeOK, MonitorTypeOK
  <2>4. \A d \in Commands : d # c => channel'[d] = channel[d] /\ replies'[d] = replies[d]
    BY <2>1 DEF AnsweredAtOnce, TypeOK, MonitorTypeOK
  <2>5. UNCHANGED <<manuallyStarted, handled, startedBy>>
    BY <2>1 DEF AnsweredAtOnce
  <2>6. QED
    BY <1>1, <2>2, <2>3, <2>4, <2>5, OwingOrPaidNext
<1>7. ASSUME NEW c \in Commands, NEW i \in Ids, RegisterRerun(c, i) PROVE RerunAnsweredOnce'
  <2>1. /\ <<c, i>> \in starting
        /\ replies' = [replies EXCEPT ![c] = Append(@, "rerunning")]
        /\ manuallyStarted' = [manuallyStarted EXCEPT ![i] = c]
        /\ startedBy' = [startedBy EXCEPT ![i] = c]
        /\ UNCHANGED <<channel, handled>>
    BY <1>7 DEF RegisterRerun
  <2>2. /\ HandlingsOf(i) = {}
        /\ channel[c] = "open"
        /\ replies[c] = <<>>
        /\ \A k \in Ids : startedBy[k] # c
    BY <2>1 DEF Reruns, Begun
  <2>3. Owing(i)'
    <3>1. startedBy'[i] = c /\ manuallyStarted'[i] = c
      BY <2>1 DEF TypeOK, MonitorTypeOK
    <3>2. replies'[c] = <<"rerunning">>
      <4>1. replies'[c] = Append(replies[c], "rerunning")
        BY <2>1 DEF TypeOK, MonitorTypeOK
      <4>2. "rerunning" \in Replies
        BY DEF Replies
      <4>3. QED
        BY <2>2, <4>1, <4>2, RerunReplies
    <3>3. HandlingsOf(i)' = {}
      BY <2>1, <2>2 DEF HandlingsOf
    <3>4. QED
      BY <2>1, <2>2, <3>1, <3>2, <3>3 DEF Owing
  <2>4. ASSUME NEW k \in Ids, k # i, startedBy'[k] # NoCommand PROVE Owing(k)' \/ Paid(k)'
    <3>1. startedBy'[k] = startedBy[k] /\ manuallyStarted'[k] = manuallyStarted[k]
      BY <2>1, <2>4 DEF TypeOK, MonitorTypeOK
    <3>2. startedBy[k] \in Commands /\ startedBy[k] # c
      BY <2>2, <2>4, <3>1 DEF TypeOK, MonitorTypeOK
    <3>3. replies'[startedBy[k]] = replies[startedBy[k]]
      BY <2>1, <3>2 DEF TypeOK, MonitorTypeOK
    <3>4. QED
      BY <1>1, <2>1, <2>4, <3>1, <3>2, <3>3
  <2>5. QED
    BY <2>3, <2>4, OwingOrPaidNext
<1>8. ASSUME NEW c \in Commands, NEW i \in Ids, RerunFails(c, i) PROVE RerunAnsweredOnce'
  <2>1. /\ \A d \in Commands : d # c => channel'[d] = channel[d] /\ replies'[d] = replies[d]
        /\ UNCHANGED <<manuallyStarted, handled, startedBy>>
    BY <1>8 DEF RerunFails, Answer, maps, observed, TypeOK, MonitorTypeOK
  <2>2. \A k \in Ids : startedBy[k] # c
    BY <1>8 DEF RerunFails, Reruns, Begun
  <2>3. \A k \in Ids : startedBy[k] # NoCommand => startedBy[k] \in Commands
    BY DEF TypeOK, MonitorTypeOK
  <2>4. QED
    BY <1>1, <2>1, <2>2, <2>3, OwingOrPaidNext
<1>9. CASE Tick \/ Stop
  BY <1>2, <1>9 DEF Tick, Stop, maps, channels, observed
<1>10. QED
  BY <1>3, <1>4, <1>5, <1>6, <1>7, <1>8, <1>9, MonitorSteps

\* The only steps that leave a channel open are those of a rerun, and the
\* one that takes the command off the map closes its channel.
LEMMA OpenStep ==
    ASSUME TypeOK, Reruns, OpenMeansOwed, [Next]_vars
    PROVE  OpenMeansOwed'
<1> USE MonitorAssumption
<1>1. CASE UNCHANGED monitorVars
  BY <1>1 DEF monitorVars, maps, channels, OpenMeansOwed
<1>2. ASSUME NEW i \in Ids, NEW s \in Ended, Deliver(i, s), Handling(i, s) PROVE OpenMeansOwed'
  <2>1. CASE RespondToManual(i, s)
    <3>1. /\ channel' = [channel EXCEPT ![manuallyStarted[i]] = "closed"]
          /\ manuallyStarted' = [manuallyStarted EXCEPT ![i] = NoCommand]
          /\ starting' = starting
      BY <2>1 DEF RespondToManual
    <3>2. QED
      BY <3>1 DEF OpenMeansOwed, TypeOK, MonitorTypeOK
  <2>2. CASE Announce(i, s) \/ KeepQuiet(i, s)
    BY <2>2 DEF Announce, KeepQuiet, channels, OpenMeansOwed
  <2>3. QED
    BY <1>2, <2>1, <2>2 DEF Handling
<1>3. ASSUME NEW c \in Commands, NEW j \in Jobs, CommandRerun(c, j) PROVE OpenMeansOwed'
  <2>1. /\ starting = {}
        /\ starting' = {<<c, nextId>>}
        /\ \A d \in Commands : d # c => channel'[d] = channel[d]
        /\ manuallyStarted' = manuallyStarted
    BY <1>3 DEF CommandRerun, Takes, Selecting, maps, TypeOK, MonitorTypeOK
  <2>2. nextId \in Ids
    BY <1>3, ConcourseAssumption
       DEF CommandRerun, BeginBuild, TypeOK, ConcourseTypeOK, Ids
  <2>3. QED
    BY <2>1, <2>2 DEF OpenMeansOwed
<1>4. ASSUME NEW c \in Commands, NEW j \in Jobs, HandleLocalCommand(c, j)
      PROVE  OpenMeansOwed'
  <2>1. AnsweredAtOnce(c)
    BY <1>4, AnsweredCommands
  <2>2. QED
    BY <2>1 DEF AnsweredAtOnce, OpenMeansOwed, TypeOK, MonitorTypeOK
<1>5. ASSUME NEW c \in Commands, NEW i \in Ids, RegisterRerun(c, i) PROVE OpenMeansOwed'
  <2>1. /\ starting = {<<c, i>>}
        /\ manuallyStarted[i] = NoCommand
        /\ manuallyStarted' = [manuallyStarted EXCEPT ![i] = c]
        /\ channel' = channel
    BY <1>5 DEF RegisterRerun, Reruns, Begun
  <2>2. ASSUME NEW d \in Commands, channel[d] = "open"
        PROVE  \E k \in Ids : manuallyStarted'[k] = d
    <3>1. PICK k \in Ids : manuallyStarted[k] = d \/ <<d, k>> = <<c, i>>
      BY <2>1, <2>2 DEF OpenMeansOwed
    <3>2. manuallyStarted'[k] = d
      BY <2>1, <3>1 DEF TypeOK, MonitorTypeOK
    <3>3. QED
      BY <3>2
  <2>3. QED
    BY <2>1, <2>2 DEF OpenMeansOwed
<1>6. ASSUME NEW c \in Commands, NEW i \in Ids, RerunFails(c, i) PROVE OpenMeansOwed'
  <2>1. /\ starting = {<<c, i>>}
        /\ manuallyStarted' = manuallyStarted
        /\ channel' = [channel EXCEPT ![c] = "closed"]
    BY <1>6 DEF RerunFails, Answer, maps, Reruns, Begun
  <2>2. QED
    BY <2>1 DEF OpenMeansOwed, TypeOK, MonitorTypeOK
<1>7. CASE Tick \/ Stop
  BY <1>7 DEF Tick, Stop, maps, channels, OpenMeansOwed
<1>8. QED
  BY <1>1, <1>2, <1>3, <1>4, <1>5, <1>6, <1>7, MonitorSteps

-----------------------------------------------------------------------------
(* Mutes.                                                                  *)

\* Until its time has come, what a user was told is what the map says.
Promises == \A j \in Jobs : now < promised[j] => muted[j] = promised[j]

LEMMA PromisesStep ==
    ASSUME TypeOK, Promises, [Next]_vars
    PROVE  Promises'
<1> SUFFICES ASSUME NEW j \in Jobs, now' < promised'[j] PROVE muted'[j] = promised'[j]
  BY DEF Promises
<1>0. now \in Nat /\ muted \in [Jobs -> Nat \cup {NotMuted}] /\ promised \in [Jobs -> Nat \cup {NotMuted}]
  BY DEF TypeOK, MonitorTypeOK
<1>1. ASSUME UNCHANGED <<muted, promised, now>> PROVE muted'[j] = promised'[j]
  BY <1>1 DEF Promises
<1>2. CASE UNCHANGED monitorVars
  BY <1>1, <1>2 DEF monitorVars, maps, observed
<1>3. ASSUME NEW i \in Ids, NEW s \in Ended, Deliver(i, s), Handling(i, s) PROVE muted'[j] = promised'[j]
  <2>1. CASE RespondToManual(i, s) \/ KeepQuiet(i, s)
    BY <1>1, <2>1 DEF RespondToManual, KeepQuiet
  <2>2. CASE Announce(i, s)
    <3>1. /\ ~(now < muted[pipeline[i]])
          /\ muted' = [muted EXCEPT ![pipeline[i]] = NotMuted]
          /\ UNCHANGED <<now, promised>>
      BY <2>2 DEF Announce, Muted
    <3>2. CASE j = pipeline[i]
      BY <3>1, <3>2 DEF Promises
    <3>3. CASE j # pipeline[i]
      BY <1>0, <3>1, <3>3 DEF Promises
    <3>4. QED
      BY <3>2, <3>3
  <2>3. QED
    BY <1>3, <2>1, <2>2 DEF Handling
<1>4. ASSUME NEW c \in Commands, NEW k \in Jobs,
             CommandRerun(c, k) \/ HandleLocalCommand(c, k)
      PROVE  muted'[j] = promised'[j]
  <2>1. CASE CommandRerun(c, k) \/ CommandRerunFails(c, k) \/ CommandMuteInvalid(c, k)
    BY <1>1, <2>1 DEF CommandRerun, CommandRerunFails, CommandMuteInvalid, maps, observed
  <2>2. ASSUME NEW duration, CommandMute(c, k, duration) PROVE muted'[j] = promised'[j]
    BY <1>0, <2>2 DEF CommandMute, Promises
  <2>3. CASE CommandUnmute(c, k)
    BY <1>0, <2>3 DEF CommandUnmute, Promises
  <2>4. QED
    BY <1>4, <2>1, <2>2, <2>3 DEF HandleLocalCommand
<1>5. ASSUME NEW c \in Commands, NEW i \in Ids, RegisterRerun(c, i) \/ RerunFails(c, i)
      PROVE  muted'[j] = promised'[j]
  BY <1>1, <1>5 DEF RegisterRerun, RerunFails, maps, observed
<1>6. CASE Tick
  <2>1. UNCHANGED <<muted, promised>> /\ now' = now + 1
    BY <1>6 DEF Tick, maps, observed
  <2>2. promised[j] \in Nat \cup {-1}
    BY <1>0 DEF NotMuted
  <2>3. now < promised[j]
    BY <1>0, <2>1, <2>2
  <2>4. QED
    BY <2>1, <2>3 DEF Promises
<1>7. CASE Stop
  BY <1>1, <1>7 DEF Stop, maps, observed
<1>8. QED
  BY <1>2, <1>3, <1>4, <1>5, <1>6, <1>7, MonitorSteps

LEMMA SilentStep ==
    ASSUME TypeOK, Promises, [Next]_vars, NEW j \in Jobs,
           Len(handled'[j]) > Len(handled[j]), now < promised[j]
    PROVE  handled'[j][Len(handled'[j])].how \in {"answered", "not listed", "muted"}
<1>1. handled[j] \in Seq(Entries)
  BY DEF TypeOK, MonitorTypeOK, Entries
<1>2. muted[j] = promised[j]
  BY DEF Promises
<1>3. ASSUME NEW i \in Ids, NEW s \in Ended, Deliver(i, s), Handling(i, s)
      PROVE  handled'[j][Len(handled'[j])].how \in {"answered", "not listed", "muted"}
  <2>1. PICK how : Handles(i, s, how)
    BY <1>3, ReceiveHandles DEF Handling
  <2>2. j = pipeline[i] /\ handled'[j] = Append(handled[j], EntryOf(i, s, how))
    BY <1>1, <2>1, HandlesAppends
  <2>3. handled'[j][Len(handled'[j])].how = how
    BY <1>1, <2>2 DEF EntryOf
  <2>4. ~Announce(i, s)
    BY <1>2, <2>2 DEF Announce, Muted
  <2>5. ASSUME NEW other, UpdateHistory(i, s, other) PROVE other = how
    <3>1. handled' = [handled EXCEPT ![j] = Append(@, EntryOf(i, s, other))]
      BY <2>2, <2>5 DEF UpdateHistory, EntryOf
    <3>2. handled'[j] = Append(handled[j], EntryOf(i, s, other))
      BY <3>1 DEF TypeOK, MonitorTypeOK
    <3>3. handled'[j][Len(handled'[j])].how = other
      BY <1>1, <3>2 DEF EntryOf
    <3>4. QED
      BY <2>3, <3>3
  <2>6. \E other \in {"answered", "not listed", "muted"} : UpdateHistory(i, s, other)
    BY <1>3, <2>4 DEF Handling, RespondToManual, KeepQuiet
  <2>7. QED
    BY <2>3, <2>5, <2>6
<1>4. handled' # handled
  BY <1>1
<1>5. \E i \in Ids, s \in Ended : Deliver(i, s) /\ Handling(i, s)
  BY <1>4, MonitorSteps
     DEF monitorVars, CommandRerun, CommandRerunFails, HandleLocalCommand, CommandMute,
         CommandMuteInvalid, CommandUnmute, RegisterRerun, RerunFails, Tick, Stop, maps, observed
<1>6. QED
  BY <1>3, <1>5

-----------------------------------------------------------------------------
(* Theorems.                                                               *)

IInv ==
    /\ TypeOK
    /\ Tabled
    /\ Logs
    /\ Bounded
    /\ Reruns
    /\ Promises
    /\ HistoryIsComplete
    /\ RerunAnsweredOnce
    /\ OpenMeansOwed

LEMMA InitIInv == Init => IInv
<1> SUFFICES ASSUME Init PROVE IInv
  OBVIOUS
<1>1. TypeOK /\ Tabled
  BY TypeInit, TableInit
<1>2. MonitorInit
  BY DEF Init
<1>3. \A j \in Jobs : handled[j] = <<>> /\ Len(handled[j]) = 0
  BY <1>2 DEF MonitorInit
<1>4. Logs /\ Bounded
  BY <1>3, MonitorAssumption DEF Logs, Bounded
<1>5. Reruns
  <2>1. Unused
    BY <1>2, MonitorAssumption DEF MonitorInit, Unused
  <2>2. Begun /\ Owned /\ Single
    BY <1>2 DEF MonitorInit, Begun, Owned, Single
  <2>3. QED
    BY <2>1, <2>2 DEF Reruns
<1>6. Promises
  BY <1>2 DEF MonitorInit, Promises, NotMuted
<1>7. HistoryIsComplete
  <2>1. FailuresSince(<<>>, 0) = 0
    <3>1. {k \in 1..0 : /\ <<>>[k].status = "failed"
                        /\ \A m \in k..0 : <<>>[m].status # "succeeded"} = {}
      OBVIOUS
    <3>2. QED
      BY <3>1, FS_EmptySet DEF FailuresSince
  <2>2. QED
    BY <1>2, <1>3, <2>1 DEF MonitorInit, NoHistory, HistoryIsComplete
<1>8. RerunAnsweredOnce /\ OpenMeansOwed
  BY <1>2 DEF MonitorInit, RerunAnsweredOnce, OpenMeansOwed
<1>9. QED
  BY <1>1, <1>4, <1>5, <1>6, <1>7, <1>8 DEF IInv

LEMMA NextIInv == IInv /\ [Next]_vars => IInv'
<1> SUFFICES ASSUME IInv, [Next]_vars PROVE IInv'
  OBVIOUS
<1> USE DEF IInv
<1>1. TypeOK' /\ Tabled'
  BY TypeStep, TableStep DEF TypeOK
<1>2. Logs' /\ Bounded'
  BY LogsStep, BoundedStep
<1>3. HistoryIsComplete'
  BY HistoryStep
<1>4. Reruns' /\ RerunAnsweredOnce' /\ OpenMeansOwed'
  BY RerunsStep, OwedStep, OpenStep
<1>5. Promises'
  BY PromisesStep
<1>6. QED
  BY <1>1, <1>2, <1>3, <1>4, <1>5

\* What the later theorems follow from: the table of builds, the logs and the
\* maps of Monitor stay in step with one another (updateHistory, handleBuild
\* and the handlers of commands).
THEOREM Invariant == Spec => []IInv
BY InitIInv, NextIInv, PTL DEF Spec

\* The maps of Monitor hold values of their types, whatever is received
\* (handleBuild, commandRerun, commandMute, commandUnmute).
THEOREM MonitorTypes == Spec => []TypeOK
<1>1. IInv => TypeOK
  BY DEF IInv
<1>2. QED
  BY <1>1, Invariant, PTL

\* The history of each job tells of every build received for it, the ones
\* answered, muted or refused included (the deferred updateHistory).
THEOREM HistoriesComplete == Spec => []HistoryIsComplete
<1>1. IInv => HistoryIsComplete
  BY DEF IInv
<1>2. QED
  BY <1>1, Invariant, PTL

\* A rerun is answered once, with the status its build was received with first, and its
\* channel is closed then (commandRerun and the lookup in manuallyStarted).
THEOREM RerunsAnsweredOnce == Spec => []RerunAnsweredOnce
<1>1. IInv => RerunAnsweredOnce
  BY DEF IInv
<1>2. QED
  BY <1>1, Invariant, PTL

\* A responses channel that is open belongs to a rerun whose build has not
\* been handled (the deferred closes of the handlers of commands).
THEOREM OpenChannelsOwed == Spec => []OpenMeansOwed
<1>1. IInv => OpenMeansOwed
  BY DEF IInv
<1>2. QED
  BY <1>1, Invariant, PTL

\* While a mute lasts its job is not announced (the mute of commandMute, and
\* the check before the notification in handleBuild).
THEOREM MutesKept == Spec => MutedMeansSilent
<1>1. IInv /\ [Next]_vars =>
        [\A j \in Jobs : Len(handled'[j]) > Len(handled[j]) /\ now < promised[j] =>
            handled'[j][Len(handled'[j])].how \in {"answered", "not listed", "muted"}
        ]_handled
  BY SilentStep DEF IInv
<1>2. QED
  BY <1>1, Invariant, PTL DEF Spec, MutedMeansSilent

-----------------------------------------------------------------------------
(* The responses channels.                                                 *)

\* What Responses counts, and what it sees closed.
Counted == [c \in Commands |-> Len(replies[c])]
Closed == {c \in Commands : channel[c] = "closed"}

\* One more answer into a channel that is open and has had one at most.
LEMMA AnswerResponds ==
    ASSUME TypeOK, NEW c \in Commands, NEW reply \in Replies,
           channel[c] # "closed", Len(replies[c]) < 2,
           replies' = [replies EXCEPT ![c] = Append(@, reply)],
           channel' = channel \/ channel' = [channel EXCEPT ![c] = "closed"]
    PROVE  R!Respond(c)
<1>1. replies \in [Commands -> Seq(Replies)] /\ channel \in [Commands -> {"unsent", "open", "closed"}]
  BY DEF TypeOK, MonitorTypeOK
<1>2. Len(replies'[c]) = Len(replies[c]) + 1 /\ \A d \in Commands : d # c => replies'[d] = replies[d]
  BY <1>1
<1>3. Counted' = [Counted EXCEPT ![c] = @ + 1]
  <2>1. \A d \in Commands : Len(replies'[d]) = IF d = c THEN Len(replies[c]) + 1 ELSE Len(replies[d])
    BY <1>2
  <2>2. Counted' = [d \in Commands |-> IF d = c THEN Len(replies[c]) + 1 ELSE Len(replies[d])]
    BY <2>1 DEF Counted
  <2>3. QED
    BY <2>2 DEF Counted
<1>4. Closed' \in {Closed, Closed \cup {c}}
  BY <1>1 DEF Closed
<1>5. c \notin Closed /\ Counted[c] < 2
  BY DEF Closed, Counted
<1>6. QED
  BY <1>3, <1>4, <1>5 DEF R!Respond, Counted, Closed

\* A channel without answers has room for one.
LEMMA NoneYet == Len(<<>>) < 2
OBVIOUS

\* Every step sends one answer, or leaves the channels as they are; a channel
\* that opens is not a channel that closes.
LEMMA ResponsesStep ==
    IInv /\ [Next]_vars => [R!ResponsesNext]_<<Counted, Closed>>
<1> SUFFICES ASSUME IInv, [Next]_vars
             PROVE  R!ResponsesNext \/ UNCHANGED <<Counted, Closed>>
  OBVIOUS
<1> USE MonitorAssumption DEF IInv
<1>1. CASE UNCHANGED channels
  BY <1>1 DEF channels, Counted, Closed
<1>2. ASSUME NEW i \in Ids, NEW s \in Ended, Deliver(i, s), Handling(i, s)
      PROVE  R!ResponsesNext \/ UNCHANGED channels
  <2>1. CASE RespondToManual(i, s)
    <3>1. /\ startedBy[i] \in Commands
          /\ startedBy[i] # NoCommand
          /\ startedBy[i] = manuallyStarted[i]
          /\ s \in Replies
      BY <1>2, <2>1 DEF RespondToManual, Deliver, Deliverable, Replies, TypeOK, MonitorTypeOK,
                        Reruns, Owned
    <3>2. PICK c \in Commands, reply \in Replies : c = startedBy[i] /\ reply = s
      BY <3>1
    <3>3. channel[c] = "open" /\ replies[c] = <<"rerunning">>
      BY <3>1, <3>2 DEF RerunAnsweredOnce
    <3>4. channel[c] # "closed" /\ Len(replies[c]) < 2
      BY <3>3
    <3>5. /\ replies' = [replies EXCEPT ![c] = Append(@, reply)]
          /\ channel' = [channel EXCEPT ![c] = "closed"]
      BY <2>1, <3>1, <3>2 DEF RespondToManual
    <3>6. R!Respond(c)
      BY <3>4, <3>5, AnswerResponds
    <3>7. QED
      BY <3>6 DEF R!ResponsesNext
  <2>2. CASE Announce(i, s) \/ KeepQuiet(i, s)
    BY <2>2 DEF Announce, KeepQuiet
  <2>3. QED
    BY <1>2, <2>1, <2>2 DEF Handling
<1>3. ASSUME NEW c \in Commands, NEW j \in Jobs, CommandRerun(c, j)
      PROVE  UNCHANGED <<Counted, Closed>>
  BY <1>3 DEF CommandRerun, Takes, Counted, Closed, TypeOK, MonitorTypeOK
<1>4. ASSUME NEW c \in Commands, NEW j \in Jobs, HandleLocalCommand(c, j)
      PROVE  R!ResponsesNext
  <2>1. channel[c] = "unsent" /\ replies[c] = <<>>
    BY <1>4 DEF CommandRerunFails, HandleLocalCommand, CommandMute, CommandMuteInvalid,
                CommandUnmute, Takes, Reruns, Unused
  <2>2. PICK reply \in {"failed", "muted", "invalid duration", "unmuted"} : Answer(c, reply)
    BY <1>4 DEF CommandRerunFails, HandleLocalCommand, CommandMute, CommandMuteInvalid, CommandUnmute
  <2>3. reply \in Replies
    BY <2>2 DEF Replies
  <2>4. channel[c] # "closed" /\ Len(replies[c]) < 2
    BY <2>1, NoneYet
  <2>5. R!Respond(c)
    BY <2>2, <2>3, <2>4, AnswerResponds DEF Answer
  <2>6. QED
    BY <2>5 DEF R!ResponsesNext
<1>5. ASSUME NEW c \in Commands, NEW i \in Ids, RegisterRerun(c, i)
      PROVE  R!ResponsesNext
  <2>1. channel[c] = "open" /\ replies[c] = <<>>
    BY <1>5 DEF RegisterRerun, Reruns, Begun
  <2>2. channel[c] # "closed" /\ Len(replies[c]) < 2 /\ "rerunning" \in Replies
    BY <2>1 DEF Replies
  <2>3. R!Respond(c)
    BY <1>5, <2>2, AnswerResponds DEF RegisterRerun
  <2>4. QED
    BY <2>3 DEF R!ResponsesNext
<1>6. ASSUME NEW c \in Commands, NEW i \in Ids, RerunFails(c, i)
      PROVE  R!ResponsesNext
  <2>1. channel[c] = "open" /\ replies[c] = <<>>
    BY <1>6 DEF RerunFails, Reruns, Begun
  <2>2. channel[c] # "closed" /\ Len(replies[c]) < 2 /\ "failed" \in Replies
    BY <2>1, NoneYet DEF Replies
  <2>3. R!Respond(c)
    BY <1>6, <2>2, AnswerResponds DEF RerunFails, Answer
  <2>4. QED
    BY <2>3 DEF R!ResponsesNext
<1>7. CASE Tick \/ Stop
  BY <1>1, <1>7 DEF Tick, Stop
<1>8. CASE UNCHANGED monitorVars
  BY <1>1, <1>8 DEF monitorVars
<1>9. QED
  BY <1>1, <1>2, <1>3, <1>4, <1>5, <1>6, <1>7, <1>8, MonitorSteps

LEMMA ResponsesStart == Init => R!ResponsesInit
<1> SUFFICES ASSUME MonitorInit PROVE R!ResponsesInit
  BY DEF Init
<1>1. \A c \in Commands : Len(replies[c]) = 0 /\ channel[c] # "closed"
  BY DEF MonitorInit
<1>2. QED
  BY <1>1 DEF R!ResponsesInit

\* Nobody is answered more than twice, and nothing is sent into a channel that
\* is closed, nor is it closed again: in the handlers of commands and, long
\* after they have returned, in handleBuild (Command.Responses).
THEOREM MonitorKeepsResponses == Spec => ImplementsResponses
<1>1. IInv /\ [Next]_vars => [R!ResponsesNext]_<<[c \in Commands |-> Len(replies[c])],
                                 {c \in Commands : channel[c] = "closed"}>>
  BY ResponsesStep DEF Counted, Closed
<1>2. QED
  BY <1>1, ResponsesStart, Invariant, PTL DEF Spec, ImplementsResponses, R!ResponsesSpec
=============================================================================
