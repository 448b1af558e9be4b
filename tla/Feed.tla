-------------------------------- MODULE Feed --------------------------------
(***************************************************************************)
(* What the receiver of FinishedBuilds may count on: after it has started, *)
(* the channel delivers builds of the team that were created since, each   *)
(* with a status it had when it did not run (any more).  Nothing more:     *)
(* builds may come in any order, may come again, also with another status  *)
(* when they were aborted, and may be missing.                             *)
(***************************************************************************)
EXTENDS Concourse

VARIABLES
    startedAt,  \* the newest build when the feed started, 0 before
    reported    \* the status each build was last delivered with

feedVars == <<startedAt, reported>>

FeedInit ==
    /\ ConcourseInit
    /\ startedAt = 0
    /\ reported = [i \in Ids |-> "none"]

Begin(newest) ==
    /\ startedAt = 0
    /\ newest \in VisibleIds
    /\ startedAt' = newest
    /\ UNCHANGED <<reported, concourseVars>>

\* A build whose row was deleted after a poll is delivered all the same.
\* So is one with a status that was overwritten since.
Deliverable(i, s) ==
    /\ startedAt > 0
    /\ i > startedAt
    /\ pipeline[i] \in OwnPipelines
    /\ s \in endings[i]

Deliver(i, s) ==
    /\ Deliverable(i, s)
    /\ reported' = [reported EXCEPT ![i] = s]
    /\ UNCHANGED <<startedAt, concourseVars>>

FeedNext ==
    \/ \E newest \in Ids : Begin(newest)
    \/ \E i \in Ids, s \in Ended : Deliver(i, s)
    \/ ConcourseNext /\ UNCHANGED feedVars

FeedSpec == FeedInit /\ [][FeedNext]_<<concourseVars, feedVars>>
=============================================================================
