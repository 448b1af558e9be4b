---------------------------- MODULE FlyontimeProofs ----------------------------
(***************************************************************************)
(* The program implements the monitor behind the abstract feed, for any    *)
(* jobs, commands and builds, checked by TLAPS: what MonitorProofs proves  *)
(* there holds of the monitor behind the real poller.                      *)
(***************************************************************************)
EXTENDS Flyontime, AutoPilotProofs

-----------------------------------------------------------------------------
(* The poller inside the program is the poller of AutoPilot.               *)

LEMMA JobsArePipelines == Jobs \subseteq Pipelines
BY MonitorAssumption DEF Pipelines

LEMMA ProgramSteps == [FlyontimeNext]_allVars => [Next]_vars
<1> SUFFICES ASSUME [FlyontimeNext]_allVars PROVE [Next]_vars
  OBVIOUS
<1>1. CASE PollerAlone
  BY <1>1 DEF PollerAlone, Next, Poller
<1>2. ASSUME NEW b \in batch, Hand(b) PROVE Next
  BY <1>2 DEF Hand, Next, Poller
<1>3. ASSUME NEW c \in Commands, NEW j \in Jobs, HandleCommand(c, j), UNCHANGED pilotVars
      PROVE  [Next]_vars
  <2>1. BeginBuild(j) \/ UNCHANGED concourseVars
    BY <1>3 DEF HandleCommand, CommandRerun
  <2>2. CASE BeginBuild(j)
    BY <1>3, <2>2, JobsArePipelines DEF Next, ConcourseNext, pilotVars
  <2>3. CASE UNCHANGED concourseVars
    BY <1>3, <2>3 DEF pilotVars, vars
  <2>4. QED
    BY <2>1, <2>2, <2>3
<1>4. CASE ConcourseNext /\ UNCHANGED pilotVars
  BY <1>4 DEF Next, pilotVars
<1>5. CASE Cancel \/ Leave
  BY <1>5 DEF Next
<1>6. CASE UNCHANGED <<concourseVars, pilotVars>>
  BY <1>6 DEF pilotVars, vars
<1>7. CASE UNCHANGED allVars
  BY <1>7 DEF allVars, pilotVars, vars
<1>8. QED
  BY <1>1, <1>2, <1>3, <1>4, <1>5, <1>6, <1>7 DEF FlyontimeNext

LEMMA ProgramWatermark == FlyontimeSpec => []WatermarkInv
<1>1. FlyontimeInit => WatermarkInv
  BY WatermarkInit DEF FlyontimeInit
<1>2. WatermarkInv /\ [FlyontimeNext]_allVars => WatermarkInv'
  BY ProgramSteps, WatermarkStep
<1>3. QED
  BY <1>1, <1>2, PTL DEF FlyontimeSpec

-----------------------------------------------------------------------------
(* The actions of the monitor are those of MonitorSystem.                  *)

LEMMA SameTable ==
    /\ ConcourseNext <=> MS!ConcourseNext
    /\ \A j : BeginBuild(j) <=> MS!BeginBuild(j)
    /\ Ids = MS!Ids
    /\ Ended = MS!Ended
BY DEF ConcourseNext, BeginBuild, CommitBuild, RollBack, Becomes, FinishBuild, MarkAsAborted,
       DestroyPipeline, Ids, Ended, Pipelines, ExistingIds,
       MS!ConcourseNext, MS!BeginBuild, MS!CommitBuild, MS!RollBack, MS!Becomes,
       MS!FinishBuild, MS!MarkAsAborted, MS!DestroyPipeline, MS!Ids, MS!Ended,
       MS!Pipelines, MS!ExistingIds

LEMMA SameVariables ==
    /\ (UNCHANGED concourseVars) <=> (UNCHANGED MS!concourseVars)
    /\ (UNCHANGED monitorVars) <=> (UNCHANGED MS!monitorVars)
    /\ (UNCHANGED <<startedAt, reported>>) <=> (UNCHANGED MS!feedVars)
BY DEF concourseVars, monitorVars, maps, channels, observed,
       MS!concourseVars, MS!monitorVars, MS!maps, MS!channels, MS!observed, MS!feedVars

LEMMA SameHandling == \A i, s : HandleBuild(i, s) <=> MS!HandleBuild(i, s)
<1> SUFFICES ASSUME NEW i, NEW s PROVE HandleBuild(i, s) <=> MS!HandleBuild(i, s)
  OBVIOUS
<1>1. Received(i) <=> MS!Received(i)
  BY DEF Received, Selecting, MS!Received, MS!Selecting
<1>2. \A how : UpdateHistory(i, s, how) <=> MS!UpdateHistory(i, s, how)
  BY DEF UpdateHistory, MS!UpdateHistory
<1>3. Listed(i, s) <=> MS!Listed(i, s)
  BY DEF Listed, Transitions, MS!Listed, MS!Transitions
<1>4. RespondToManual(i, s) <=> MS!RespondToManual(i, s)
  BY <1>1, <1>2 DEF RespondToManual, MS!RespondToManual
<1>5. Announce(i, s) <=> MS!Announce(i, s)
  BY <1>1, <1>2, <1>3 DEF Announce, Muted, Title, NotMuted, channels,
                          MS!Announce, MS!Muted, MS!Title, MS!NotMuted, MS!channels
<1>6. KeepQuiet(i, s) <=> MS!KeepQuiet(i, s)
  BY <1>1, <1>2, <1>3 DEF KeepQuiet, Muted, channels, MS!KeepQuiet, MS!Muted, MS!channels
<1>7. SkipOneOff(i) <=> MS!SkipOneOff(i)
  BY SameVariables DEF SkipOneOff, Selecting, MS!SkipOneOff, MS!Selecting
<1>8. QED
  BY <1>4, <1>5, <1>6, <1>7 DEF HandleBuild, MS!HandleBuild

LEMMA SameCommands ==
    ASSUME NEW c \in Commands, NEW j \in Jobs, HandleCommand(c, j)
    PROVE  MS!Command(c, j)
<1>1. Takes(c, j) <=> MS!Takes(c, j)
  BY DEF Takes, Selecting, Announced, MS!Takes, MS!Selecting, MS!Announced
<1>2. \A reply : Answer(c, reply) <=> MS!Answer(c, reply)
  BY DEF Answer, MS!Answer
<1> USE DEF maps, observed, MS!maps, MS!observed
<1>3. CASE CommandRerun(c, j)
  BY <1>1, <1>3, SameTable DEF CommandRerun, MS!CommandRerun, MS!Command
<1>5. ASSUME HandleLocalCommand(c, j), UNCHANGED concourseVars
      PROVE  MS!Command(c, j)
  <2>1. ASSUME NEW duration, CommandMute(c, j, duration) PROVE MS!CommandMute(c, j, duration)
    BY <1>1, <1>2, <2>1 DEF CommandMute, MS!CommandMute
  <2>2. ASSUME CommandMuteInvalid(c, j) PROVE MS!CommandMuteInvalid(c, j)
    BY <1>1, <1>2, <2>2 DEF CommandMuteInvalid, MS!CommandMuteInvalid
  <2>3. ASSUME CommandUnmute(c, j) PROVE MS!CommandUnmute(c, j)
    BY <1>1, <1>2, <2>3 DEF CommandUnmute, NotMuted, MS!CommandUnmute, MS!NotMuted
  <2>4. ASSUME CommandRerunFails(c, j) PROVE MS!CommandRerunFails(c, j)
    BY <1>1, <1>2, <2>4 DEF CommandRerunFails, MS!CommandRerunFails
  <2>5. MS!HandleLocalCommand(c, j)
    BY <1>5, <2>1, <2>2, <2>3, <2>4 DEF HandleLocalCommand, MS!HandleLocalCommand
  <2>6. QED
    BY <1>5, <2>5, SameVariables DEF MS!Command
<1>6. QED
  BY <1>3, <1>5 DEF HandleCommand

-----------------------------------------------------------------------------
(* The refinement.                                                         *)

LEMMA SystemStarts == FlyontimeInit => MS!Init
<1> SUFFICES ASSUME FlyontimeInit PROVE MS!Init
  OBVIOUS
<1>1. MS!ConcourseInit
  BY DEF FlyontimeInit, Init, ConcourseInit, Ids, Ended, Pipelines,
         MS!ConcourseInit, MS!Ids, MS!Ended, MS!Pipelines
<1>2. MS!FeedInit
  BY <1>1 DEF FlyontimeInit, Init, Ids, MS!FeedInit, MS!Ids
<1>3. MS!MonitorInit
  BY DEF FlyontimeInit, MonitorInit, NotMuted, NoHistory, Ids,
         MS!MonitorInit, MS!NotMuted, MS!NoHistory, MS!Ids
<1>4. QED
  BY <1>2, <1>3 DEF MS!Init

LEMMA HandDelivers ==
    ASSUME WatermarkInv, NEW b \in batch, Hand(b)
    PROVE  /\ b.id \in Ids /\ b.status \in Ended
           /\ MS!Deliver(b.id, b.status)
           /\ HandleBuild(b.id, b.status)
<1>1. Current /\ Watermark /\ Typed /\ TypeOK
  BY DEF WatermarkInv, Current, Typed
<1>2. /\ b.id \in Ids /\ b.status \in Ended
      /\ pipeline[b.id] \in OwnPipelines /\ b.status \in endings[b.id]
  BY <1>1 DEF Hand, Send, Current, BatchCurrent, TypeOK, Build
<1>3. startedAt > 0 /\ b.id > startedAt
  BY <1>1, BatchBelowNext DEF Hand, Send, Reached, Watermark, TypeOK
<1>4. MS!Deliver(b.id, b.status)
  BY <1>2, <1>3 DEF Hand, Send, concourseVars, MS!Deliver, MS!Deliverable, MS!concourseVars
<1>5. QED
  BY <1>2, <1>4 DEF Hand

LEMMA SystemSteps ==
    WatermarkInv /\ [FlyontimeNext]_allVars => [MS!Next]_MS!vars
<1> SUFFICES ASSUME WatermarkInv, [FlyontimeNext]_allVars
             PROVE  MS!Next \/ UNCHANGED MS!vars
  OBVIOUS
<1> USE SameVariables DEF MS!vars
<1>1. ASSUME PollerAlone, UNCHANGED monitorVars PROVE MS!Next \/ UNCHANGED MS!vars
  <2>1. ASSUME NEW newest \in Ids, Start(newest) PROVE MS!Next
    <3>1. newest \in VisibleIds /\ startedAt = 0
      BY <2>1, StartsAtNewest DEF Start, WatermarkInv, Watermark, Current
    <3>2. newest \in MS!VisibleIds
      BY <3>1 DEF VisibleIds, ExistingIds, Ids, MS!VisibleIds, MS!ExistingIds, MS!Ids
    <3>3. MS!Begin(newest)
      BY <2>1, <3>1, <3>2 DEF Start, channelVars, concourseVars, MS!Begin, MS!concourseVars
    <3>4. QED
      BY <1>1, <3>3, SameTable DEF MS!Next
  <2>2. CASE StartFails \/ StartPanics \/ Exit
    BY <1>1, <2>2 DEF StartFails, StartPanics, Exit, channelVars
  <2>3. ASSUME NEW low \in Ids, Poll(low) PROVE UNCHANGED MS!vars
    BY <1>1, <2>3 DEF Poll, channelVars
  <2>4. ASSUME NEW b \in batch, SkipForeign(b) \/ SkipRunning(b) PROVE UNCHANGED MS!vars
    BY <1>1, <2>4 DEF SkipForeign, SkipRunning, channelVars
  <2>5. QED
    BY <1>1, <2>1, <2>2, <2>3, <2>4 DEF PollerAlone
<1>2. ASSUME NEW b \in batch, Hand(b) PROVE MS!Next
  <2>1. /\ b.id \in MS!Ids /\ b.status \in MS!Ended
        /\ MS!Deliver(b.id, b.status) /\ MS!HandleBuild(b.id, b.status)
    BY <1>2, HandDelivers, SameHandling, SameTable
  <2>2. QED
    BY <2>1 DEF MS!Next, MS!Receive
<1>3. ASSUME NEW c \in Commands, NEW j \in Jobs, HandleCommand(c, j), UNCHANGED pilotVars
      PROVE  MS!Next
  <2>1. MS!Command(c, j)
    BY <1>3, SameCommands
  <2>2. UNCHANGED MS!feedVars
    BY <1>3 DEF pilotVars, pollerVars, channelVars, MS!feedVars
  <2>3. QED
    BY <2>1, <2>2 DEF MS!Next
<1>4. ASSUME NEW c \in Commands, NEW i \in Ids, RegisterRerun(c, i) \/ RerunFails(c, i),
             UNCHANGED <<concourseVars, pilotVars>>
      PROVE  MS!Next
  <2>1. (MS!RegisterRerun(c, i) \/ MS!RerunFails(c, i)) /\ i \in MS!Ids
    BY <1>4, SameTable
       DEF RegisterRerun, RerunFails, Answer, maps, observed,
           MS!RegisterRerun, MS!RerunFails, MS!Answer, MS!maps, MS!observed
  <2>2. UNCHANGED <<MS!concourseVars, MS!feedVars>>
    BY <1>4 DEF pilotVars, pollerVars, channelVars, MS!feedVars
  <2>3. QED
    BY <2>1, <2>2 DEF MS!Next
<1>5. ASSUME ConcourseNext, UNCHANGED <<pilotVars, monitorVars>> PROVE MS!Next
  BY <1>5, SameTable DEF pilotVars, pollerVars, channelVars, MS!Next, MS!feedVars
<1>6. ASSUME Tick, UNCHANGED <<concourseVars, pilotVars>> PROVE MS!Next
  <2>1. MS!Tick
    BY <1>6 DEF Tick, maps, channels, observed, MS!Tick, MS!maps, MS!channels, MS!observed
  <2>2. QED
    BY <1>6, <2>1 DEF pilotVars, pollerVars, channelVars, MS!Next, MS!feedVars
<1>7. ASSUME Cancel, UNCHANGED monitorVars PROVE UNCHANGED MS!vars
  BY <1>7 DEF Cancel, pollerVars
<1>8. ASSUME Leave, Stop PROVE MS!Next
  <2>1. MS!Stop
    BY <1>8 DEF Stop, Selecting, maps, channels, observed,
                MS!Stop, MS!Selecting, MS!maps, MS!channels, MS!observed
  <2>2. QED
    BY <1>8, <2>1 DEF Leave, pollerVars, MS!Next, MS!feedVars
<1>9. CASE UNCHANGED allVars
  BY <1>9 DEF allVars, pilotVars, pollerVars, channelVars
<1>10. QED
  BY <1>1, <1>2, <1>3, <1>4, <1>5, <1>6, <1>7, <1>8, <1>9 DEF FlyontimeNext

\* The monitor behind the real poller implements the monitor behind the feed
\* it is specified against (NewMonitor wires FinishedBuilds into run).
THEOREM ProgramImplementsSystem == FlyontimeSpec => ImplementsMonitorSystem
BY SystemStarts, SystemSteps, ProgramWatermark, PTL
   DEF FlyontimeSpec, ImplementsMonitorSystem, MS!Spec

-----------------------------------------------------------------------------
(* What MonitorProofs proves holds of the program.                         *)

MP == INSTANCE MonitorProofs

LEMMA SameNext == MS!Next <=> MP!Next
BY
   DEF MS!Next, MP!Next, MS!Begin, MP!Begin, MS!Receive, MP!Receive, MS!Deliver,
       MP!Deliver, MS!Deliverable, MP!Deliverable, MS!VisibleIds, MP!VisibleIds,
       MS!ExistingIds, MP!ExistingIds, MS!HandleBuild, MP!HandleBuild,
       MS!RespondToManual, MP!RespondToManual, MS!Announce, MP!Announce,
       MS!KeepQuiet, MP!KeepQuiet, MS!SkipOneOff, MP!SkipOneOff, MS!Received,
       MP!Received, MS!Selecting, MP!Selecting, MS!Listed, MP!Listed, MS!Muted,
       MP!Muted, MS!Title, MP!Title, MS!Transitions, MP!Transitions,
       MS!UpdateHistory, MP!UpdateHistory, MS!NotMuted, MP!NotMuted, MS!Command,
       MP!Command, MS!CommandRerun, MP!CommandRerun, MS!CommandRerunFails,
       MP!CommandRerunFails, MS!HandleLocalCommand, MP!HandleLocalCommand,
       MS!CommandMute, MP!CommandMute, MS!CommandMuteInvalid, MP!CommandMuteInvalid,
       MS!CommandUnmute, MP!CommandUnmute, MS!Takes, MP!Takes, MS!Answer, MP!Answer,
       MS!Announced, MP!Announced, MS!BeginBuild, MP!BeginBuild, MS!CommitBuild,
       MP!CommitBuild, MS!RollBack, MP!RollBack, MS!Becomes, MP!Becomes,
       MS!MarkAsAborted, MP!MarkAsAborted, MS!RerunFails, MP!RerunFails,
       MS!Ended, MP!Ended, MS!FinishBuild, MP!FinishBuild, MS!DestroyPipeline, MP!DestroyPipeline, MS!ConcourseNext,
       MP!ConcourseNext, MS!RegisterRerun, MP!RegisterRerun, MS!Tick, MP!Tick,
       MS!Stop, MP!Stop, MS!Ids, MP!Ids, MS!Pipelines, MP!Pipelines,
       MS!concourseVars, MP!concourseVars, MS!feedVars, MP!feedVars, MS!monitorVars,
       MP!monitorVars, MS!maps, MP!maps, MS!channels, MP!channels, MS!observed,
       MP!observed

LEMMA SameInit == MS!Init <=> MP!Init
BY
   DEF MS!Init, MP!Init, MS!FeedInit, MP!FeedInit, MS!ConcourseInit,
       MP!ConcourseInit, MS!MonitorInit, MP!MonitorInit, MS!NoHistory, MP!NoHistory, MS!NotMuted, MP!NotMuted,
       MS!Ids, MP!Ids, MS!Ended, MP!Ended, MS!Pipelines, MP!Pipelines

LEMMA SystemAssumptions == MP!ConcourseAssumption /\ MP!MonitorAssumption
BY ConcourseAssumption, MonitorAssumption
   DEF Statuses, Ended, Pipelines, MP!ConcourseAssumption, MP!MonitorAssumption,
       MP!Statuses, MP!Ended, MP!Pipelines

LEMMA SameSteps == [MS!Next]_MS!vars => [MP!Next]_MP!vars
<1>1. UNCHANGED MS!vars => UNCHANGED MP!vars
  BY DEF MS!vars, MS!concourseVars, MS!feedVars, MS!monitorVars, MS!maps, MS!channels, MS!observed,
         MP!vars, MP!concourseVars, MP!feedVars, MP!monitorVars, MP!maps, MP!channels, MP!observed
<1>2. QED
  BY <1>1, SameNext

LEMMA SystemInvariant == MS!Spec => []MP!IInv
<1>1. MS!Init => MP!IInv
  BY SystemAssumptions, SameInit, MP!InitIInv
<1>2. MP!IInv /\ [MS!Next]_MS!vars => MP!IInv'
  BY SystemAssumptions, SameSteps, MP!NextIInv
<1>3. QED
  BY <1>1, <1>2, PTL DEF MS!Spec

LEMMA SameInvariants ==
    MP!IInv => /\ HistoryIsComplete
               /\ RerunAnsweredOnce
               /\ OpenMeansOwed
<1> SUFFICES ASSUME MP!IInv
             PROVE  /\ HistoryIsComplete
                         /\ RerunAnsweredOnce
                    /\ OpenMeansOwed
  OBVIOUS
<1>1. \A log, n : FailuresSince(log, n) = MP!FailuresSince(log, n)
  BY DEF FailuresSince, MP!FailuresSince, Cardinality, MP!Cardinality
<1>2. HistoryIsComplete
  BY <1>1 DEF HistoryIsComplete, MP!IInv, MP!HistoryIsComplete
<1>4. RerunAnsweredOnce
  BY DEF RerunAnsweredOnce, HandlingsOf, Ids,
         MP!IInv, MP!RerunAnsweredOnce, MP!HandlingsOf, MP!Ids
<1>5. OpenMeansOwed
  BY DEF OpenMeansOwed, Ids, MP!IInv, MP!OpenMeansOwed, MP!Ids
<1>6. QED
  BY <1>2, <1>4, <1>5

\* In the program, with the real poller and whatever it sends again or
\* misses, histories are complete, and a rerun is answered once, with the
\* status its build was first sent with, by a channel that stays open until
\* then (handleBuild and commandRerun behind FinishedBuilds).
THEOREM ProgramKeepsPromises ==
    FlyontimeSpec => [](/\ HistoryIsComplete
                        /\ RerunAnsweredOnce
                        /\ OpenMeansOwed)
BY ProgramImplementsSystem, SystemInvariant, SameInvariants, PTL
   DEF ImplementsMonitorSystem

\* While the mute of a job lasts the program does not announce it (commandMute
\* and handleBuild behind FinishedBuilds).
THEOREM ProgramKeepsMutes == FlyontimeSpec => MutedMeansSilent
<1>1. MP!IInv /\ [MS!Next]_MS!vars =>
        [\A j \in Jobs : Len(handled'[j]) > Len(handled[j]) /\ now < promised[j] =>
            handled'[j][Len(handled'[j])].how \in {"answered", "not listed", "muted"}
        ]_handled
  BY SystemAssumptions, SameSteps, MP!SilentStep DEF MP!IInv
<1>2. MS!Spec => MutedMeansSilent
  BY <1>1, SystemInvariant, PTL DEF MS!Spec, MutedMeansSilent
<1>3. QED
  BY <1>2, ProgramImplementsSystem DEF ImplementsMonitorSystem

\* In the program, too, the channel of a command carries one answer or two and
\* nothing after it is closed, whenever the poller finds the build of a rerun
\* (the handlers of commands and handleBuild behind FinishedBuilds).
THEOREM ProgramKeepsResponses == FlyontimeSpec => ImplementsResponses
<1>1. MP!IInv /\ [MS!Next]_MS!vars =>
        [R!ResponsesNext]_<<[c \in Commands |-> Len(replies[c])],
                            {c \in Commands : channel[c] = "closed"}>>
  BY SystemAssumptions, SameSteps, MP!ResponsesStep
     DEF R!ResponsesNext, R!Respond, R!Close, MP!R!ResponsesNext, MP!R!Respond, MP!R!Close,
         MP!Counted, MP!Closed
<1>2. FlyontimeInit => R!ResponsesInit
  <2> SUFFICES ASSUME MonitorInit PROVE R!ResponsesInit
    BY DEF FlyontimeInit
  <2>1. \A c \in Commands : replies[c] = <<>> /\ channel[c] # "closed"
    BY DEF MonitorInit
  <2>2. Len(<<>>) = 0
    OBVIOUS
  <2>3. QED
    BY <2>1, <2>2 DEF R!ResponsesInit
<1>3. MS!Spec /\ FlyontimeInit => ImplementsResponses
  BY <1>1, <1>2, SystemInvariant, PTL DEF MS!Spec, ImplementsResponses, R!ResponsesSpec
<1>4. QED
  BY <1>3, ProgramImplementsSystem, PTL DEF ImplementsMonitorSystem, FlyontimeSpec

-----------------------------------------------------------------------------
(* What AutoPilotProofs proves holds of the program, and of both together. *)

\* The poller that runs beside the monitor is the poller that AutoPilotProofs
\* is about: the commands of users and the monitor do to it what a server and
\* a receiver may do (FinishedBuilds).
THEOREM ProgramRunsThePoller == FlyontimeSpec => Spec
BY ProgramSteps, PTL DEF FlyontimeSpec, FlyontimeInit, Spec

\* Beside the monitor, too, what is sent is a status the build has had and, if
\* nobody aborted it, has still; polls do not fall back; nothing is skipped
\* while running builds stay together and none is overtaken, nor a page while
\* the build it started from is there (FinishedBuilds).
THEOREM ProgramPolls ==
    FlyontimeSpec => [](/\ ReportedHolds
                        /\ NoRegress
                        /\ NothingSkippedIfTogether
                        /\ NewBuildsAreSeen)
BY ProgramRunsThePoller, SentHolds, WatermarkNeverRegresses, NothingLost, NewBuildsSeen, PTL

\* A build of a job that was sent is in the log of the job: sending and
\* handling are one step of both goroutines.
Linked ==
    \A i \in Ids : reported[i] # "none" /\ pipeline[i] \in Jobs =>
        \E k \in 1..Len(handled[pipeline[i]]) : handled[pipeline[i]][k].id = i

\* Reruns are of builds that were created after the poller started: somebody
\* has to have seen a notification first.
StartedLater ==
    /\ startedAt < nextId
    /\ \A j \in Jobs : handled[j] # <<>> => startedAt > 0
    /\ \A i \in Ids : startedBy[i] # NoCommand =>
            startedAt > 0 /\ i > startedAt /\ status[i] # "absent" /\ pipeline[i] \in Jobs
    /\ \A i \in Ids : (\E c \in Commands : <<c, i>> \in starting) =>
            /\ startedAt > 0 /\ i > startedAt /\ i < nextId
            /\ status[i] # "absent" \/ i \in creating => pipeline[i] \in Jobs

ProgramInv == HeldInv /\ MP!IInv /\ Linked /\ StartedLater

LEMMA ProgramStepsMonitor ==
    ASSUME WatermarkInv, [FlyontimeNext]_allVars
    PROVE  [MP!Next]_MP!vars
BY SystemSteps, SameSteps

\* Only the rendezvous adds to what was sent.
LEMMA OnlyHandReports ==
    ASSUME [FlyontimeNext]_allVars
    PROVE  reported' = reported \/ \E b \in batch : Hand(b)
<1>1. CASE PollerAlone
  BY <1>1 DEF PollerAlone, StartFails, StartPanics, Start, Poll, SkipForeign, SkipRunning, Exit,
              channelVars
<1>2. CASE UNCHANGED channelVars \/ Cancel \/ Leave
  BY <1>2 DEF channelVars, Cancel, Leave
<1>3. QED
  BY <1>1, <1>2 DEF FlyontimeNext, allVars, pilotVars

\* A build that has been handed over is the last of the log of its job.
LEMMA HandLogs ==
    ASSUME WatermarkInv, MP!IInv, NEW b \in batch, Hand(b), pipeline[b.id] \in Jobs
    PROVE  LET log == handled'[pipeline[b.id]] IN
           Len(log) \in 1..Len(log) /\ log[Len(log)].id = b.id
<1>1. /\ b.id \in Ids /\ b.status \in MP!Ended
      /\ MP!Deliver(b.id, b.status)
      /\ \/ MP!RespondToManual(b.id, b.status)
         \/ MP!Announce(b.id, b.status)
         \/ MP!KeepQuiet(b.id, b.status)
  <2>1. /\ b.id \in Ids /\ b.status \in Ended
        /\ MS!Deliver(b.id, b.status) /\ HandleBuild(b.id, b.status)
    BY HandDelivers
  <2>2. MS!HandleBuild(b.id, b.status)
    BY <2>1, SameHandling
  <2>3. MP!Deliver(b.id, b.status)
    BY <2>1 DEF MS!Deliver, MS!Deliverable, MS!concourseVars,
                MP!Deliver, MP!Deliverable, MP!concourseVars
  <2>4. MP!HandleBuild(b.id, b.status)
    BY <2>2
       DEF MS!HandleBuild, MP!HandleBuild, MS!RespondToManual, MP!RespondToManual,
           MS!Announce, MP!Announce, MS!KeepQuiet, MP!KeepQuiet, MS!SkipOneOff, MP!SkipOneOff,
           MS!Received, MP!Received, MS!Selecting, MP!Selecting, MS!Listed, MP!Listed,
           MS!Muted, MP!Muted, MS!Title, MP!Title, MS!Transitions, MP!Transitions,
           MS!UpdateHistory, MP!UpdateHistory, MS!NotMuted, MP!NotMuted,
           MS!monitorVars, MP!monitorVars, MS!maps, MP!maps, MS!channels, MP!channels,
           MS!observed, MP!observed
  <2>5. ~MP!SkipOneOff(b.id)
    BY DEF MP!SkipOneOff
  <2>6. QED
    BY <2>1, <2>3, <2>4, <2>5 DEF MP!HandleBuild, Ended, MP!Ended
<1>2. PICK how : MP!Handles(b.id, b.status, how)
  <2>1. b.id \in MP!Ids /\ MP!TypeOK
    BY <1>1 DEF Ids, MP!Ids, MP!IInv
  <2>2. QED
    BY <1>1, <2>1, SystemAssumptions, MP!ReceiveHandles
<1>3. /\ handled[pipeline[b.id]] \in Seq(MP!Entries)
      /\ handled'[pipeline[b.id]] = Append(handled[pipeline[b.id]], MP!EntryOf(b.id, b.status, how))
  <2>1. MP!TypeOK
    BY DEF MP!IInv
  <2>2. QED
    BY ONLY <1>2, <2>1, SystemAssumptions, MP!HandlesAppends
<1>4. MP!EntryOf(b.id, b.status, how).id = b.id
  BY DEF MP!EntryOf
<1>5. QED
  BY <1>3, <1>4

LEMMA LinkedStep ==
    ASSUME WatermarkInv, MP!IInv, Linked, [FlyontimeNext]_allVars
    PROVE  Linked'
<1>1. [MP!Next]_MP!vars
  BY ProgramStepsMonitor
<1>2. ASSUME NEW i \in Ids, reported[i] # "none", pipeline'[i] \in Jobs
      PROVE  \E k \in 1..Len(handled'[pipeline'[i]]) : handled'[pipeline'[i]][k].id = i
  <2>1. status[i] \in Ended
    BY <1>2 DEF WatermarkInv, Current, ReportedHolds
  <2>2. status[i] # "absent"
    BY <2>1, ConcourseAssumption DEF Ended
  <2>3. MP!Kept
    BY <1>1, SystemAssumptions, MP!TableStep DEF MP!IInv, MP!TypeOK
  <2>4. pipeline'[i] = pipeline[i]
    BY <2>2, <2>3 DEF MP!Kept, Ids, MP!Ids
  <2>5. PICK k \in 1..Len(handled[pipeline[i]]) : handled[pipeline[i]][k].id = i
    BY <1>2, <2>4 DEF Linked
  <2>6. /\ Len(handled[pipeline[i]]) \in Nat
        /\ Len(handled[pipeline[i]]) <= Len(handled'[pipeline[i]])
        /\ handled'[pipeline[i]][k] = handled[pipeline[i]][k]
    <3>1. MP!TypeOK /\ pipeline[i] \in Jobs
      BY <1>2, <2>4 DEF MP!IInv
    <3>2. QED
      BY <1>1, <3>1, SystemAssumptions, MP!LogsGrow
  <2>7. Len(handled'[pipeline[i]]) \in Nat
    <3>1. MP!TypeOK'
      BY <1>1, SystemAssumptions, MP!NextIInv DEF MP!IInv
    <3>2. handled'[pipeline[i]] \in Seq(MP!Entries)
      BY <1>2, <2>4, <3>1 DEF MP!TypeOK, MP!MonitorTypeOK, MP!Entries
    <3>3. QED
      BY <3>2
  <2>8. QED
    BY <2>4, <2>5, <2>6, <2>7
<1>3. CASE reported' = reported
  BY <1>2, <1>3 DEF Linked
<1>4. ASSUME NEW b \in batch, Hand(b) PROVE Linked'
  <2>1. ASSUME NEW i \in Ids, i # b.id PROVE reported'[i] = reported[i]
    BY <1>4, <2>1 DEF Hand, Send, WatermarkInv, Current, Typed, TypeOK
  <2>2. UNCHANGED pipeline
    BY <1>4 DEF Hand, Send, concourseVars
  <2>3. QED
    BY <1>2, <1>4, <2>1, <2>2, HandLogs DEF Linked
<1>5. QED
  BY <1>3, <1>4, OnlyHandReports

\* An id that was handed out stays where it is, or is gone.
LEMMA DrawnKept ==
    ASSUME Typed, ConcourseNext, NEW i \in Ids, i < nextId,
           status'[i] # "absent" \/ i \in creating'
    PROVE  (status[i] # "absent" \/ i \in creating) /\ pipeline'[i] = pipeline[i]
<1> USE ConcourseAssumption DEF Typed, TypeOK, ConcourseTypeOK
<1>0. /\ i \in Int /\ nextId \in Int
      /\ \A j \in creating : status[j] = "absent"
  BY DEF Tabled, RowOK, Ids
<1>1. ASSUME NEW p \in Pipelines, BeginBuild(p)
      PROVE  /\ i \in creating' <=> i \in creating
             /\ pipeline'[i] = pipeline[i] /\ UNCHANGED status
  BY <1>0, <1>1 DEF BeginBuild
<1>2. ASSUME NEW j \in Ids, CommitBuild(j)
      PROVE  /\ UNCHANGED pipeline
             /\ status[i] # "absent" \/ i \in creating
  BY <1>0, <1>2 DEF CommitBuild
<1>3. ASSUME NEW j \in Ids, RollBack(j)
      PROVE  /\ i # j /\ pipeline'[i] = pipeline[i]
             /\ status[i] # "absent" \/ i \in creating
  BY <1>0, <1>3 DEF RollBack
<1>4. ASSUME NEW j \in ExistingIds, NEW outcome, Becomes(j, outcome)
      PROVE  /\ UNCHANGED pipeline
             /\ status[i] # "absent" \/ i \in creating
  BY <1>4 DEF Becomes, ExistingIds
<1>5. ASSUME NEW p \in Destroyable, DestroyPipeline(p)
      PROVE  UNCHANGED <<pipeline, status, creating>>
  BY <1>5 DEF DestroyPipeline
<1>6. QED
  BY <1>1, <1>2, <1>3, <1>4, <1>5 DEF ConcourseNext, FinishBuild, MarkAsAborted

LEMMA StartedLaterTable ==
    ASSUME WatermarkInv, StartedLater, ConcourseNext \/ UNCHANGED concourseVars,
           UNCHANGED <<startedAt, handled, startedBy, starting>>
    PROVE  StartedLater'
<1>1. Typed /\ nextId \in Int /\ startedAt \in Int /\ \A i \in Ids : i \in Int
  BY RowsBelowNext, ConcourseAssumption DEF WatermarkInv, Current, Typed, TypeOK, Ids
<1>2. nextId' \in Int /\ nextId' >= nextId
  BY <1>1 DEF ConcourseNext, BeginBuild, CommitBuild, RollBack, Becomes, FinishBuild,
              MarkAsAborted, DestroyPipeline, concourseVars
<1>3. ASSUME NEW i \in Ids, status[i] # "absent"
      PROVE  status'[i] # "absent" /\ pipeline'[i] = pipeline[i]
  BY <1>1, <1>3, RowsKept DEF concourseVars
<1>4. ASSUME NEW i \in Ids, i < nextId, status'[i] # "absent" \/ i \in creating'
      PROVE  (status[i] # "absent" \/ i \in creating) /\ pipeline'[i] = pipeline[i]
  BY <1>1, <1>4, DrawnKept DEF concourseVars
<1>5. QED
  BY <1>1, <1>2, <1>3, <1>4 DEF StartedLater

LEMMA StartedLaterStep ==
    ASSUME WatermarkInv, MP!IInv, StartedLater, [FlyontimeNext]_allVars
    PROVE  StartedLater'
<1>1. Typed /\ TypeOK /\ nextId \in Int /\ startedAt \in Int /\ \A i \in Ids : i \in Int
  BY RowsBelowNext, ConcourseAssumption DEF WatermarkInv, Current, Typed, TypeOK, Ids
<1> USE DEF maps, observed, monitorVars
<1>2. ASSUME NEW newest \in Ids, Start(newest), UNCHANGED monitorVars PROVE StartedLater'
  <2>1. startedAt = 0 /\ startedAt' = newest /\ UNCHANGED concourseVars
    BY <1>2 DEF Start, WatermarkInv, Watermark
  <2>2. newest > 0 /\ newest < nextId
    BY <1>1, <1>2, StartsAtNewest, RowsBelowNext DEF Start
  <2>3. /\ \A j \in Jobs : handled[j] = <<>>
        /\ \A i \in Ids : startedBy[i] = NoCommand /\ ~(\E c \in Commands : <<c, i>> \in starting)
    BY <2>1 DEF StartedLater
  <2>4. UNCHANGED <<nextId, handled, startedBy, starting>>
    BY <1>2, <2>1 DEF concourseVars
  <2>5. QED
    BY <1>1, <2>1, <2>2, <2>3, <2>4 DEF StartedLater
<1>3. CASE PollerAlone /\ UNCHANGED monitorVars
  <2>1. (\E newest \in Ids : Start(newest)) \/ UNCHANGED <<startedAt, concourseVars>>
    BY <1>3 DEF PollerAlone, StartFails, StartPanics, Poll, SkipForeign, SkipRunning, Exit
  <2>2. QED
    BY <1>2, <1>3, <2>1, StartedLaterTable
<1>4. ASSUME NEW b \in batch, Hand(b) PROVE StartedLater'
  <2>1. startedAt > 0
    BY <1>1, <1>4 DEF Hand, Send, Reached, WatermarkInv, Watermark
  <2>2. UNCHANGED <<startedBy, starting>>
    BY <1>4 DEF Hand, HandleBuild, RespondToManual, Announce, KeepQuiet, SkipOneOff
  <2>3. UNCHANGED <<startedAt, concourseVars>>
    BY <1>4 DEF Hand, Send
  <2>4. QED
    BY <2>1, <2>2, <2>3 DEF StartedLater, concourseVars
<1>5. ASSUME NEW c \in Commands, NEW j \in Jobs, HandleCommand(c, j), UNCHANGED pilotVars
      PROVE  StartedLater'
  <2>1. UNCHANGED <<startedAt, handled, startedBy>>
    BY <1>5 DEF pilotVars, pollerVars, HandleCommand, CommandRerun, HandleLocalCommand,
                CommandRerunFails, CommandMute, CommandMuteInvalid, CommandUnmute
  <2>2. CASE CommandRerun(c, j)
    <3>1. /\ starting' = {<<c, nextId>>}
          /\ nextId \in Ids /\ pipeline'[nextId] = j
          /\ nextId' = nextId + 1 /\ status' = status
          /\ \A i \in Ids : i # nextId => pipeline'[i] = pipeline[i]
      BY <1>1, <2>2, ConcourseAssumption
         DEF CommandRerun, BeginBuild, Ids, TypeOK, ConcourseTypeOK
    <3>2. \A i \in Ids : startedBy[i] # NoCommand => i # nextId
      BY <1>1 DEF StartedLater, Typed, Tabled, RowOK
    <3>3. startedAt > 0
      <4>1. \E k \in DOMAIN handled[j] :
              handled[j][k].how \notin {"answered", "refused", "not listed", "muted"}
        BY <2>2 DEF CommandRerun, Takes, Announced
      <4>2. DOMAIN <<>> = {}
        OBVIOUS
      <4>3. handled[j] # <<>>
        BY <4>1, <4>2
      <4>4. QED
        BY <4>3 DEF StartedLater
    <3>4. QED
      BY <1>1, <2>1, <3>1, <3>2, <3>3 DEF StartedLater
  <2>3. CASE ~CommandRerun(c, j)
    <3>1. starting' = starting
      BY <1>5, <2>3 DEF HandleCommand, HandleLocalCommand, CommandRerunFails,
                CommandMute, CommandMuteInvalid, CommandUnmute
    <3>2. ConcourseNext \/ UNCHANGED concourseVars
      BY <1>5, <2>3 DEF HandleCommand
    <3>3. QED
      BY <2>1, <3>1, <3>2, StartedLaterTable
  <2>4. QED
    BY <2>2, <2>3
<1>6. ASSUME NEW c \in Commands, NEW i \in Ids, RegisterRerun(c, i) \/ RerunFails(c, i),
             UNCHANGED <<concourseVars, pilotVars>>
      PROVE  StartedLater'
  <2>1. /\ UNCHANGED <<startedAt, handled, pipeline, nextId, status>>
        /\ starting' = {} /\ <<c, i>> \in starting
        /\ \/ status[i] # "absent" /\ \A k \in Ids : k # i => startedBy'[k] = startedBy[k]
           \/ startedBy' = startedBy
    BY <1>6 DEF RegisterRerun, RerunFails, pilotVars, pollerVars, concourseVars, MP!IInv,
                MP!TypeOK, MP!MonitorTypeOK, Ids, MP!Ids
  <2>2. QED
    BY <2>1 DEF StartedLater
<1>7. CASE UNCHANGED <<startedAt, handled, startedBy, starting>>
           /\ (ConcourseNext \/ UNCHANGED concourseVars)
  BY <1>7, StartedLaterTable
<1>8. ASSUME Tick \/ Stop, UNCHANGED <<concourseVars, startedAt>>
      PROVE  UNCHANGED <<handled, startedBy, starting>>
  BY <1>8 DEF Tick, Stop
<1>9. QED
  BY <1>3, <1>4, <1>5, <1>6, <1>7, <1>8
     DEF FlyontimeNext, allVars, pilotVars, pollerVars, Cancel, Leave

LEMMA ProgramInvInit == FlyontimeInit => ProgramInv
<1> SUFFICES ASSUME FlyontimeInit PROVE ProgramInv
  OBVIOUS
<1>1. HeldInv
  BY HeldInit DEF FlyontimeInit
<1>2. MP!IInv
  BY SystemStarts, SystemAssumptions, SameInit, MP!InitIInv
<1>3. Linked
  BY DEF FlyontimeInit, Init, Linked
<1>4. StartedLater
  <2>1. startedAt = 0 /\ nextId = FirstId + History
    BY DEF FlyontimeInit, Init, ConcourseInit
  <2>2. startedAt < nextId
    BY <2>1, ConcourseAssumption
  <2>3. /\ \A j \in Jobs : handled[j] = <<>>
        /\ \A i \in Ids : startedBy[i] = NoCommand
        /\ starting = {}
    BY DEF FlyontimeInit, MonitorInit
  <2>4. QED
    BY <2>2, <2>3 DEF StartedLater
<1>5. QED
  BY <1>1, <1>2, <1>3, <1>4 DEF ProgramInv

LEMMA ProgramInvStep == ProgramInv /\ [FlyontimeNext]_allVars => ProgramInv'
<1> SUFFICES ASSUME HeldInv, WatermarkInv, MP!IInv, Linked, StartedLater,
                    [FlyontimeNext]_allVars
             PROVE  ProgramInv'
  BY DEF ProgramInv, HeldInv
<1>1. HeldInv'
  BY ProgramSteps, HeldStep
<1>2. MP!IInv'
  BY ProgramStepsMonitor, SystemAssumptions, MP!NextIInv
<1>3. QED
  BY <1>1, <1>2, LinkedStep, StartedLaterStep DEF ProgramInv

LEMMA ProgramOverlooksNothing ==
    ASSUME ProgramInv
    PROVE  NothingOverlooked
<1> SUFFICES ASSUME ~apart, pc \in {"waiting", "scanning"}, NEW i \in ExistingIds,
                    pipeline[i] \in Jobs, i > startedAt
             PROVE  i > lastSeen \/ (\E b \in batch : b.id = i) \/ HandlingsOf(i) # {}
  BY DEF NothingOverlooked
<1>1. i \in Ids /\ pipeline[i] \in OwnPipelines
  BY MonitorAssumption DEF ExistingIds
<1>2. CASE reported[i] = "none"
  <2>1. i \in Due
    BY <1>1, <1>2 DEF Due
  <2>2. QED
    BY <2>1 DEF ProgramInv, HeldInv, Held, DueAhead
<1>3. CASE reported[i] # "none"
  <2> DEFINE log == handled[pipeline[i]]
  <2>1. PICK k \in 1..Len(log) : log[k].id = i
    BY <1>1, <1>3 DEF ProgramInv, Linked
  <2>2. Len(log) \in Nat
    <3>1. log \in Seq(MP!Entries)
      BY DEF ProgramInv, MP!IInv, MP!TypeOK, MP!MonitorTypeOK, MP!Entries
    <3>2. QED
      BY <3>1
  <2>3. k \in 1..MaxHandled /\ k <= Len(log)
    BY <2>1, <2>2, MonitorAssumption DEF ProgramInv, MP!IInv, MP!Bounded
  <2>4. <<pipeline[i], k>> \in HandlingsOf(i)
    BY <2>1, <2>3 DEF HandlingsOf
  <2>5. QED
    BY <2>4
<1>4. QED
  BY <1>2, <1>3

LEMMA ProgramFindsReruns ==
    ASSUME ProgramInv
    PROVE  RerunNotPassedBy
<1> SUFFICES ASSUME ~apart, pc \in {"waiting", "scanning"}, NEW i \in ExistingIds,
                    startedBy[i] # NoCommand, i <= lastSeen, \A b \in batch : b.id # i
             PROVE  /\ channel[startedBy[i]] = "closed"
                    /\ \E s \in endings[i] : replies[startedBy[i]] = <<"rerunning", s>>
  BY DEF RerunNotPassedBy
<1>1. i \in Ids /\ i \in Int /\ lastSeen \in Int
  BY ConcourseAssumption
     DEF ExistingIds, Ids, ProgramInv, HeldInv, WatermarkInv, Current, Typed, TypeOK
<1>2. pipeline[i] \in Jobs /\ i > startedAt
  BY <1>1 DEF ProgramInv, StartedLater
<1>3. HandlingsOf(i) # {}
  BY <1>1, <1>2, ProgramOverlooksNothing DEF NothingOverlooked
<1>4. RerunAnsweredOnce
  BY SameInvariants DEF ProgramInv
<1>5. /\ channel[startedBy[i]] = "closed"
      /\ \E first \in HandlingsOf(i) :
            replies[startedBy[i]] = <<"rerunning", handled[first[1]][first[2]].status>>
  BY <1>1, <1>3, <1>4 DEF RerunAnsweredOnce
<1>6. ASSUME NEW h \in HandlingsOf(i) PROVE handled[h[1]][h[2]].status \in endings[i]
  <2>1. /\ h[1] \in Jobs /\ h[2] \in 1..MaxHandled /\ h[2] <= Len(handled[h[1]])
        /\ handled[h[1]][h[2]].id = i
    BY DEF HandlingsOf
  <2>2. h[2] \in 1..Len(handled[h[1]])
    <3>1. handled[h[1]] \in Seq(MP!Entries)
      BY <2>1 DEF ProgramInv, MP!IInv, MP!TypeOK, MP!MonitorTypeOK, MP!Entries
    <3>2. QED
      BY <2>1, <3>1
  <2>3. QED
    BY <2>1, <2>2 DEF ProgramInv, MP!IInv, MP!Logs
<1>7. QED
  BY <1>5, <1>6

\* While running builds stay together, what reaches the history of a job is
\* all of its builds since the start, up to the watermark: neither goroutine
\* drops one (FinishedBuilds, run and handleBuild).
THEOREM ProgramLosesNothing == FlyontimeSpec => []NothingOverlooked
BY ProgramInvInit, ProgramInvStep, ProgramOverlooksNothing, PTL DEF FlyontimeSpec

\* A poller that has gone past the build of a rerun has had it answered: the
\* answer is not lost between CreateJobBuild and the entry in the map
\* (commandRerun).
THEOREM ProgramAnswersReruns == FlyontimeSpec => []RerunNotPassedBy
BY ProgramInvInit, ProgramInvStep, ProgramFindsReruns, PTL DEF FlyontimeSpec

=============================================================================
