---------------------------- MODULE MonitorSystem ----------------------------
(***************************************************************************)
(* The monitor with the feed it is specified against: every build of the   *)
(* team that has ended may be received, in any order and any number of     *)
(* times.                                                                  *)
(***************************************************************************)
EXTENDS Feed, Monitor

vars == <<concourseVars, feedVars, monitorVars>>

Init == FeedInit /\ MonitorInit

\* The rendezvous on the channel of builds.
Receive(i, s) == Deliver(i, s) /\ HandleBuild(i, s)

\* The handlers of commands.
Command(c, j) ==
    \/ CommandRerun(c, j)
    \/ HandleLocalCommand(c, j) /\ UNCHANGED concourseVars

Next ==
    \/ \E newest \in Ids : Begin(newest) /\ UNCHANGED monitorVars
    \/ \E i \in Ids, s \in Ended : Receive(i, s)
    \/ \E c \in Commands, j \in Jobs : Command(c, j) /\ UNCHANGED feedVars
    \/ \E c \in Commands, i \in Ids :
          /\ RegisterRerun(c, i) \/ RerunFails(c, i)
          /\ UNCHANGED <<concourseVars, feedVars>>
    \/ ConcourseNext /\ UNCHANGED <<feedVars, monitorVars>>
    \/ (Tick \/ Stop) /\ UNCHANGED <<concourseVars, feedVars>>

Spec == Init /\ [][Next]_vars

\* Every variable of the system holds a value of its type.
TypeOK == ConcourseTypeOK /\ MonitorTypeOK
=============================================================================
