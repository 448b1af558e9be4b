------------------------------ MODULE AutoPilot ------------------------------
(***************************************************************************)
(* The goroutine of AutoPilot.FinishedBuilds: it polls the list of builds, *)
(* keeps the watermark lastSeen and sends every finished build of its own  *)
(* team into an unbuffered channel.  It runs beside the Concourse server,  *)
(* which changes between two polls and between a poll and the sends of     *)
(* the builds it returned, and beside the receiver of the channel, which   *)
(* cancels the goroutine and goes away (Monitor.Stop).                     *)
(***************************************************************************)
EXTENDS Concourse

CONSTANT PageLimit      \* 100 in the code: the page size, and the largest
                        \* step of lastSeen in one poll

ASSUME PageLimitAssumption == PageLimit \in Nat \ {0}

VARIABLES
    pc,         \* where the goroutine is
    lastSeen,   \* the watermark: the id the next poll asks for builds above
    batch,      \* builds of the last page the loop has not reached yet
    cancelled,  \* the context was cancelled
    receiver,   \* somebody still receives from the channel
    reported,   \* history: the status each build was last sent with
    startedAt,  \* history: the watermark the goroutine started from
    asked,      \* history: the watermark of the last poll
    apart       \* history: see Poll

pollerVars == <<pc, lastSeen, batch, startedAt, asked, apart>>
channelVars == <<cancelled, receiver, reported>>
vars == <<concourseVars, pollerVars, channelVars>>

\* A build as the server returned it: the snapshot may be old when the loop
\* gets to it.
Snapshot(i) == [id |-> i, pipeline |-> pipeline[i], status |-> status[i]]

Build == [id : Ids, pipeline : Pipelines, status : {"running"} \cup Ended]

\* Mutant of min: the smaller of the two.
SmallerOfTwo(a, b) == IF a > b THEN b ELSE a

\* min of monitor.go: it returns the larger of the two.
min(a, b) == IF a > b THEN a ELSE b

Init ==
    /\ ConcourseInit
    /\ pc = "init"
    /\ lastSeen = 0
    /\ batch = {}
    /\ cancelled = FALSE
    /\ receiver = TRUE
    /\ reported = [i \in Ids |-> "none"]
    /\ startedAt = 0
    /\ asked = 0
    /\ apart = FALSE

-----------------------------------------------------------------------------
(* The first request asks for the newest build only.                       *)

\* The request fails: the goroutine returns and closes the channel.
StartFails ==
    /\ pc = "init"
    /\ pc' = "exited"
    /\ UNCHANGED <<lastSeen, batch, startedAt, asked, apart, channelVars, concourseVars>>

\* Mutant of StartPanics: the request asks for two builds.
StartPanicsOfTwo ==
    /\ pc = "init"
    /\ ~ \E low \in Ids : HasNext(ListBuilds(0, 2), low)
    /\ pc' = "panicked"
    /\ UNCHANGED <<lastSeen, batch, startedAt, asked, apart, channelVars, concourseVars>>

\* The newest visible build is the oldest one of the table, or there is no
\* build at all: pg.Next is nil and reading Since from it panics.
StartPanics ==
    /\ pc = "init"
    /\ ~ \E newest \in Ids : HasNext(ListBuilds(0, 1), newest)
    /\ pc' = "panicked"
    /\ UNCHANGED <<lastSeen, batch, startedAt, asked, apart, channelVars, concourseVars>>

Start(newest) ==
    /\ pc = "init"
    /\ HasNext(ListBuilds(0, 1), newest)
    /\ pc' = "waiting"
    /\ lastSeen' = newest
    /\ startedAt' = newest
    /\ asked' = newest
    /\ UNCHANGED <<batch, apart, channelVars, concourseVars>>

-----------------------------------------------------------------------------
(* The loop.  A tick whose request fails, returns nothing or returns a     *)
(* page without a next one changes no state.                               *)

\* The running builds of the team among bs: the ones the loop will skip.
RunningIn(bs) ==
    {b.id : b \in {c \in bs : c.pipeline \in OwnPipelines /\ c.status = "running"}}

\* The ids follow one another without a gap.
Together(ids) == \A i, j \in ids : i..j \subseteq ids

\* The page shows a build of a higher id than one of the team that is still
\* being created.
Overtakes(page) ==
    \E i \in creating, j \in page : pipeline[i] \in OwnPipelines /\ i < j

\* Mutant of Poll: the watermark moves only over a backlog.
PollInPlace(low) ==
    LET page == ListBuilds(lastSeen, PageLimit) IN
    /\ pc = "waiting"
    /\ HasNext(page, low)
    /\ pc' = "scanning"
    /\ lastSeen' = IF low - lastSeen > PageLimit THEN lastSeen + PageLimit
                                                 ELSE lastSeen
    /\ asked' = lastSeen
    /\ batch' = {Snapshot(i) : i \in page}
    /\ apart' = (apart \/ ~Together(RunningIn(batch')) \/ Overtakes(page))
    /\ UNCHANGED <<startedAt, channelVars, concourseVars>>

\* Mutant of Poll: the watermark always moves by a whole page.
PollWholePage(low) ==
    LET page == ListBuilds(lastSeen, PageLimit) IN
    /\ pc = "waiting"
    /\ HasNext(page, low)
    /\ pc' = "scanning"
    /\ lastSeen' = lastSeen + PageLimit
    /\ asked' = lastSeen
    /\ batch' = {Snapshot(i) : i \in page}
    /\ apart' = (apart \/ ~Together(RunningIn(batch')) \/ Overtakes(page))
    /\ UNCHANGED <<startedAt, channelVars, concourseVars>>

\* Mutant of Poll: the watermark moves to the newest build of the page.
PollToNewest(low) ==
    LET page == ListBuilds(lastSeen, PageLimit) IN
    /\ pc = "waiting"
    /\ HasNext(page, low)
    /\ pc' = "scanning"
    /\ \E newest \in page : (\A i \in page : i <= newest) /\ lastSeen' = newest
    /\ asked' = lastSeen
    /\ batch' = {Snapshot(i) : i \in page}
    /\ apart' = (apart \/ ~Together(RunningIn(batch')) \/ Overtakes(page))
    /\ UNCHANGED <<startedAt, channelVars, concourseVars>>

\* The history variable apart remembers that some page had two running builds
\* of the team with another id between them, or overtook a build of the team
\* that was not committed yet.
Poll(low) ==
    LET page == ListBuilds(lastSeen, PageLimit) IN
    /\ pc = "waiting"
    /\ HasNext(page, low)
    /\ pc' = "scanning"
    /\ lastSeen' = IF low - lastSeen > PageLimit THEN lastSeen + PageLimit
                                                 ELSE low
    /\ asked' = lastSeen
    /\ batch' = {Snapshot(i) : i \in page}
    /\ apart' = (apart \/ ~Together(RunningIn(batch')) \/ Overtakes(page))
    /\ UNCHANGED <<startedAt, channelVars, concourseVars>>

\* The loop body has reached b: rows come with descending ids.
Reached(b) ==
    /\ pc = "scanning"
    /\ b \in batch
    /\ \A c \in batch : c.id <= b.id

\* Mutant of Passed: the loop does not go back to the select.
PassedForGood(b) == batch' = batch \ {b} /\ pc' = "scanning"

\* The loop is done with b and goes back to the select after the last one.
Passed(b) ==
    /\ batch' = batch \ {b}
    /\ pc' = IF batch = {b} THEN "waiting" ELSE "scanning"

SkipForeign(b) ==
    /\ Reached(b)
    /\ b.pipeline \notin OwnPipelines
    /\ Passed(b)
    /\ UNCHANGED <<lastSeen, startedAt, asked, apart, channelVars, concourseVars>>

\* Mutant of SkipRunning: the watermark does not move.
SkipRunningInPlace(b) ==
    /\ Reached(b)
    /\ b.pipeline \in OwnPipelines
    /\ b.status = "running"
    /\ Passed(b)
    /\ UNCHANGED <<lastSeen, startedAt, asked, apart, channelVars, concourseVars>>

\* A build that was still running when the page was made.
SkipRunning(b) ==
    /\ Reached(b)
    /\ b.pipeline \in OwnPipelines
    /\ b.status = "running"
    /\ lastSeen' = min(b.id, lastSeen) - 1
    /\ Passed(b)
    /\ UNCHANGED <<startedAt, asked, apart, channelVars, concourseVars>>

\* Mutant of Send: running builds are sent as well.
SendAny(b) ==
    /\ Reached(b)
    /\ b.pipeline \in OwnPipelines
    /\ receiver
    /\ reported' = [reported EXCEPT ![b.id] = b.status]
    /\ Passed(b)
    /\ UNCHANGED <<lastSeen, startedAt, asked, apart, cancelled, receiver, concourseVars>>

\* The rendezvous on the channel; it does not look at the context.
Send(b) ==
    /\ Reached(b)
    /\ b.pipeline \in OwnPipelines
    /\ b.status # "running"
    /\ receiver
    /\ reported' = [reported EXCEPT ![b.id] = b.status]
    /\ Passed(b)
    /\ UNCHANGED <<lastSeen, startedAt, asked, apart, cancelled, receiver, concourseVars>>

\* ctx.Done() is only looked at between two polls; the channel is closed.
Exit ==
    /\ pc = "waiting"
    /\ cancelled
    /\ pc' = "exited"
    /\ UNCHANGED <<lastSeen, batch, startedAt, asked, apart, channelVars, concourseVars>>

-----------------------------------------------------------------------------
(* The receiver: Monitor.Stop cancels the context and then stops the loop  *)
(* that receives.                                                          *)

Cancel ==
    /\ ~cancelled
    /\ cancelled' = TRUE
    /\ UNCHANGED <<receiver, reported, pollerVars, concourseVars>>

Leave ==
    /\ cancelled
    /\ receiver
    /\ receiver' = FALSE
    /\ UNCHANGED <<cancelled, reported, pollerVars, concourseVars>>

Poller ==
    \/ StartFails
    \/ StartPanics
    \/ \E newest \in Ids : Start(newest)
    \/ \E low \in Ids : Poll(low)
    \/ \E b \in batch : SkipForeign(b) \/ SkipRunning(b) \/ Send(b)
    \/ Exit

Next ==
    \/ Poller
    \/ Cancel
    \/ Leave
    \/ ConcourseNext /\ UNCHANGED <<pollerVars, channelVars>>

Spec == Init /\ [][Next]_vars

\* The goroutine is scheduled, the receiver receives while it is there, every
\* transaction and every build comes to an end, and requests do not fail for
\* ever.  A select with both cases ready picks one at random, hence the strong
\* fairness of Exit, which a scan disables for a while.
Fairness ==
    /\ WF_vars(\E newest \in Ids : Start(newest))
    /\ WF_vars(\E low \in Ids : Poll(low))
    /\ WF_vars(\E b \in batch : SkipForeign(b) \/ SkipRunning(b) \/ Send(b))
    /\ SF_vars(Exit)
    /\ \A i \in Ids : WF_vars(/\ CommitBuild(i) \/ RollBack(i)
                              /\ UNCHANGED <<pollerVars, channelVars>>)
    /\ \A i \in Ids : WF_vars(/\ \E outcome \in Outcomes : FinishBuild(i, outcome)
                              /\ UNCHANGED <<pollerVars, channelVars>>)

FairSpec == Spec /\ Fairness

-----------------------------------------------------------------------------
(* Properties.                                                             *)

\* Every variable holds a value of its type, and the loop body runs exactly
\* while builds of a page are left.
TypeOK ==
    /\ ConcourseTypeOK
    /\ pc \in {"init", "waiting", "scanning", "exited", "panicked"}
    /\ lastSeen \in Int
    /\ batch \subseteq Build
    /\ (pc = "scanning") <=> (batch # {})
    /\ cancelled \in BOOLEAN
    /\ receiver \in BOOLEAN
    /\ reported \in [Ids -> {"none"} \cup Ended]
    /\ startedAt \in Int
    /\ asked \in Int
    /\ apart \in BOOLEAN

\* What went into the channel holds: although the loop works on a snapshot
\* that may be old, and Finish does not look at what an abort has written, a
\* build it sent is a build of its own team that had the status it was sent
\* with, does not run again, and has another status now only if somebody
\* aborted it.
ReportedHolds ==
    \A i \in Ids : reported[i] # "none" =>
        /\ pipeline[i] \in OwnPipelines
        /\ reported[i] \in endings[i]
        /\ status[i] \in Ended
        /\ status[i] = reported[i] \/ "aborted" \in {status[i], reported[i]}

\* The watermark goes up with a page and down with running builds, yet a
\* poll never asks for builds below what the poll before it asked for, and
\* so none goes back behind the start: what is sent was created after it.
NoRegress ==
    /\ pc \in {"waiting", "scanning"} => lastSeen >= asked /\ asked >= startedAt
    /\ \A i \in Ids : reported[i] # "none" => i > startedAt

\* The builds that are the goroutine's to report: of its own team, created
\* after it started, and not sent yet.
Due == {i \in ExistingIds : /\ pipeline[i] \in OwnPipelines
                            /\ i > startedAt
                            /\ reported[i] = "none"}

\* No build of the team gets lost below the watermark: it is above it, so
\* that the next poll asks for it, or the loop still has it in hand.
NothingSkipped ==
    pc \in {"waiting", "scanning"} =>
        \A i \in Due : i > lastSeen \/ \E b \in batch : b.id = i

\* This holds as long as the running builds of every page followed one
\* another without a gap, one running build at a time, for instance, and the
\* builds of the team became visible in the order of their ids.
NothingSkippedIfTogether == ~apart => NothingSkipped

\* A server that shows the bot two builds does not make it panic, whatever is
\* destroyed before its first request.
StartsOnTwoBuilds ==
    [][pc = "init" /\ pc' = "panicked" => Cardinality(VisibleIds) < 2]_vars

\* A page without a next one is taken for a page without new builds.  As long
\* as the build the goroutine started from is in the table, that is so: the
\* watermark has moved, and rows of any team have been deleted, but a poll
\* that returns builds is not passed over.
NewBuildsAreSeen ==
    LET page == ListBuilds(lastSeen, PageLimit) IN
    pc = "waiting" /\ startedAt \in ExistingIds /\ page # {} =>
        \E low \in Ids : HasNext(page, low)

\* A build of the team that has ended is sent at some point.
AllReported ==
    \A i \in Ids :
        (pc \in {"waiting", "scanning"} /\ i \in Due /\ status[i] # "running")
            ~> (i \notin Due \/ cancelled)

\* The same for behaviours in which running builds stay together and no build
\* is overtaken while it is created.
AllReportedIfTogether == []~apart => AllReported

\* A build that was sent is sent again by the polls that follow, but not for
\* ever: the watermark reaches it.
ResendingEnds ==
    \A i \in Ids :
        reported[i] # "none" ~> ((pc = "waiting" /\ lastSeen >= i) \/ cancelled)

\* A cancelled goroutine returns and closes the channel as long as somebody
\* receives.  One that is blocked in a send when its receiver leaves does not.
ClosesWhileReceived == cancelled ~> (pc \in {"exited", "panicked"} \/ ~receiver)

F == INSTANCE Feed WITH startedAt <- startedAt, reported <- reported

\* To its receiver the goroutine is the feed of Feed.tla: a channel of builds
\* of the team that were created after the start, each with a status it had.
ImplementsFeed == F!FeedSpec
=============================================================================
