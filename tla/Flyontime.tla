------------------------------ MODULE Flyontime ------------------------------
(***************************************************************************)
(* The program: the poller of AutoPilot, which sends builds, and the       *)
(* monitor, which receives them and handles the commands of users, beside  *)
(* the Concourse server that both of them talk to.  The two goroutines     *)
(* meet on the channel of builds and when the program is stopped.  From a  *)
(* closed channel the monitor receives builds without a job, which it      *)
(* skips: a step that changes nothing.                                     *)
(***************************************************************************)
EXTENDS AutoPilot, Monitor

pilotVars == <<pollerVars, channelVars>>
allVars == <<concourseVars, pilotVars, monitorVars>>

FlyontimeInit == Init /\ MonitorInit

\* The rendezvous on the channel of builds: the monitor handles the build
\* while the poller goes on with the rest of its page.
Hand(b) == Send(b) /\ HandleBuild(b.id, b.status)

\* What the poller does on its own.
PollerAlone ==
    \/ StartFails
    \/ StartPanics
    \/ \E newest \in Ids : Start(newest)
    \/ \E low \in Ids : Poll(low)
    \/ \E b \in batch : SkipForeign(b) \/ SkipRunning(b)
    \/ Exit

\* What a command does; the build of a rerun is one the poller will find.
HandleCommand(c, j) ==
    \/ CommandRerun(c, j)
    \/ HandleLocalCommand(c, j) /\ UNCHANGED concourseVars

\* A panic of the poller ends the whole program.
Alive == pc # "panicked"

FlyontimeNext ==
    \/ PollerAlone /\ UNCHANGED monitorVars
    \/ \E b \in batch : Hand(b)
    \/ \E c \in Commands, j \in Jobs :
          Alive /\ HandleCommand(c, j) /\ UNCHANGED pilotVars
    \/ \E c \in Commands, i \in Ids :
          /\ Alive
          /\ RegisterRerun(c, i) \/ RerunFails(c, i)
          /\ UNCHANGED <<concourseVars, pilotVars>>
    \/ ConcourseNext /\ UNCHANGED <<pilotVars, monitorVars>>
    \/ Tick /\ UNCHANGED <<concourseVars, pilotVars>>
    \* Monitor.Stop: cancel, then the closed stop channel.
    \/ Alive /\ Cancel /\ UNCHANGED monitorVars
    \/ Alive /\ Leave /\ Stop

FlyontimeSpec == FlyontimeInit /\ [][FlyontimeNext]_allVars

\* Both goroutines are scheduled, users read replies, requests come back and
\* do not fail for ever, and transactions and builds end.
FlyontimeFairness ==
    /\ WF_allVars((\E newest \in Ids : Start(newest)) /\ UNCHANGED monitorVars)
    /\ WF_allVars((\E low \in Ids : Poll(low)) /\ UNCHANGED monitorVars)
    /\ WF_allVars((\E b \in batch : SkipForeign(b) \/ SkipRunning(b))
                    /\ UNCHANGED monitorVars)
    /\ SF_allVars(\E b \in batch : Hand(b))
    /\ \A c \in Commands : WF_allVars((\E i \in Ids :
                        Alive /\ (RegisterRerun(c, i) \/ RerunFails(c, i)))
                    /\ UNCHANGED <<concourseVars, pilotVars>>)
    /\ \A i \in Ids : WF_allVars((CommitBuild(i) \/ RollBack(i))
                    /\ UNCHANGED <<pilotVars, monitorVars>>)
    /\ \A i \in Ids : WF_allVars((\E outcome \in Outcomes : FinishBuild(i, outcome))
                    /\ UNCHANGED <<pilotVars, monitorVars>>)

FlyontimeFairSpec == FlyontimeSpec /\ FlyontimeFairness

-----------------------------------------------------------------------------
(* Properties.                                                             *)

\* The behaviour has used up its bound on handled builds.
Full == \E j \in Jobs : Len(handled[j]) >= MaxHandled

\* A user who asked for a rerun gets its result, unless the program is being
\* stopped, or a page had running builds apart from one another or overtook a
\* build.
RerunAnswered ==
    []~apart => \A c \in Commands :
        channel[c] = "open" ~> (channel[c] = "closed" \/ cancelled \/ Full)

\* A build of a job, created since the start, that is the newest build of all.
Newest(i) ==
    /\ i \in ExistingIds
    /\ pipeline[i] \in Jobs
    /\ i > startedAt
    /\ \A k \in Ids : status[k] # "absent" => k <= i

\* Although builds arrive newest first and arrive again, the history of a job
\* comes to say how the newest build ended, be it with a status that an abort
\* or Finish has overwritten since.  The newest build is never overtaken, and
\* of running builds it is the one the watermark stays below.
HistoryCatchesUp ==
    \A i \in (FirstId + History)..LastId :
        (pc = "waiting" /\ Newest(i) /\ status[i] \in Ended)
            ~> \/ ~Newest(i) \/ cancelled \/ Full
               \/ history[pipeline[i]].last \in endings[i]

\* No build of a job gets lost between the two goroutines: one created since
\* the start is still ahead of the poller, or in the page it works on, or the
\* monitor has handled it.  As for the poller alone, running builds of a page
\* have to follow one another and no build may be overtaken.
NothingOverlooked ==
    ~apart /\ pc \in {"waiting", "scanning"} =>
        \A i \in ExistingIds : pipeline[i] \in Jobs /\ i > startedAt =>
            i > lastSeen \/ (\E b \in batch : b.id = i) \/ HandlingsOf(i) # {}

\* The poller does not pass by the build of a rerun: when it has left the
\* build behind, the user who asked for it has its result.  The build exists
\* and may be polled while commandRerun has not yet put it into the map.
RerunNotPassedBy ==
    ~apart /\ pc \in {"waiting", "scanning"} =>
        \A i \in ExistingIds :
            startedBy[i] # NoCommand /\ i <= lastSeen /\ (\A b \in batch : b.id # i) =>
                /\ channel[startedBy[i]] = "closed"
                /\ \E s \in endings[i] : replies[startedBy[i]] = <<"rerunning", s>>

MS == INSTANCE MonitorSystem WITH startedAt <- startedAt, reported <- reported

\* The monitor behind the real poller does nothing it could not do behind the
\* feed it is specified against: what is checked and proved of MonitorSystem
\* holds of the program.
ImplementsMonitorSystem == MS!Spec
=============================================================================
