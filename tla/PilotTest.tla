------------------------------ MODULE PilotTest ------------------------------
(***************************************************************************)
(* concourse_test.go: the poller of AutoPilot with fakes for the client    *)
(* and the team.  An example tells Builds what to return for its first     *)
(* calls, starts the poller and waits for builds, for calls, or for the    *)
(* channel to be closed; AfterEach cancels the context.  A call of a fake  *)
(* is one step, as in MonitorTest.  The builds of the examples have no     *)
(* ids, and no team, like the fake of the team.                            *)
(*                                                                         *)
(* An example may end while the poller is in a send: the receiver is gone, *)
(* and the goroutine stays behind.                                         *)
(***************************************************************************)
EXTENDS Integers, Sequences

CONSTANT MaxPolls   \* bound on the calls of Builds

ASSUME MaxPollsAssumption == MaxPolls \in Nat \ {0, 1}

VARIABLES
    test,       \* the example that runs
    verdict,    \* of it: "none" or "passed"
    pages,      \* the argument of each call of Builds
    names,      \* how often Name was called
    poller,     \* where the goroutine of the poller is
    lastSeen,
    batch,      \* what is left of the builds of the last page
    stopped,    \* the context was cancelled
    got         \* what the example received

pilotTestVars == <<test, verdict, pages, names, poller, lastSeen, batch, stopped, got>>

\* No builds on any page; cancelled at once; running builds only; finished
\* builds among them, where It waits for calls or for the builds.
Tests == {"fails", "cancel", "running", "calls", "builds"}

lastBuild == 41

-----------------------------------------------------------------------------
(* The fakes.                                                              *)

Result(bs, next) == [err |-> FALSE, builds |-> bs, next |-> next]

NoNext == 0

\* What ReturnsOnCall was told for the n-th call of Builds, or Returns.
BuildsResult(n) ==
    CASE test = "fails" -> [Result(<<>>, NoNext) EXCEPT !.err = TRUE]
      [] test # "fails" /\ n = 0 -> Result(<<>>, lastBuild)
      [] test = "running" /\ n = 1 -> Result(<<"pending", "started">>, NoNext)
      [] test \in {"calls", "builds"} /\ n = 1 ->
            Result(<<"errored", "pending", "succeeded", "started">>, lastBuild + 4)
      [] OTHER -> Result(<<>>, NoNext)

\* A new fake, which was not called yet.
NewFakeClient == pages = <<>>

NewFakeTeam == names = 0

Polled(page) == pages' = Append(pages, page)

FakeBuilds(page, result) ==
    /\ result = BuildsResult(Len(pages))
    /\ Polled(page)

\* Nothing was arranged: the name is empty, as the team of every build.
Name == names' = names + 1

-----------------------------------------------------------------------------
(* The goroutine of the poller.                                            *)

PilotTestInit ==
    /\ test \in Tests
    /\ verdict = "none"
    /\ NewFakeClient
    /\ NewFakeTeam
    /\ poller = "first"
    /\ lastSeen = 0
    /\ batch = <<>>
    /\ stopped = FALSE
    /\ got = <<>>

FirstPage ==
    /\ poller = "first"
    /\ \E r \in {BuildsResult(Len(pages))} :
          /\ FakeBuilds([until |-> 0, limit |-> 1], r)
          /\ poller' = IF r.err THEN "closed" ELSE "select"
          /\ lastSeen' = IF r.err THEN lastSeen ELSE r.next
    /\ UNCHANGED <<test, verdict, names, batch, stopped, got>>

NextPage ==
    /\ poller = "select"
    /\ Len(pages) < MaxPolls
    /\ \E r \in {BuildsResult(Len(pages))} :
          /\ FakeBuilds([until |-> lastSeen, limit |-> 100], r)
          /\ IF r.builds = <<>> \/ r.next = NoNext
             THEN UNCHANGED <<poller, lastSeen, batch>>
             ELSE /\ poller' = "scanning"
                  /\ lastSeen' = IF r.next - lastSeen > 100 THEN lastSeen + 100 ELSE r.next
                  /\ batch' = r.builds
    /\ UNCHANGED <<test, verdict, names, stopped, got>>

\* The next build of the page; a running one, whose id is zero, moves lastSeen
\* by one.
ScanBuild ==
    /\ poller = "scanning"
    /\ \/ batch = <<>> /\ poller' = "select" /\ UNCHANGED <<names, lastSeen, batch>>
       \/ /\ batch # <<>>
          /\ Name
          /\ IF Head(batch) \in {"pending", "started"}
             THEN lastSeen' = lastSeen - 1 /\ batch' = Tail(batch) /\ UNCHANGED poller
             ELSE poller' = "sending" /\ UNCHANGED <<lastSeen, batch>>
    /\ UNCHANGED <<test, verdict, pages, stopped, got>>

\* Mutant of SendToTest: the loop ends with the first build it sends.
SendToTestOnce ==
    /\ poller = "sending"
    /\ test = "builds" /\ Len(got) < 2
    /\ got' = Append(got, Head(batch))
    /\ batch' = <<>>
    /\ poller' = "scanning"
    /\ UNCHANGED <<test, verdict, pages, names, lastSeen, stopped>>

\* The example receives the build; only one of them does, and two.
SendToTest ==
    /\ poller = "sending"
    /\ test = "builds" /\ Len(got) < 2
    /\ got' = Append(got, Head(batch))
    /\ batch' = Tail(batch)
    /\ poller' = "scanning"
    /\ UNCHANGED <<test, verdict, pages, names, lastSeen, stopped>>

ClosePolling ==
    /\ poller = "select"
    /\ stopped
    /\ poller' = "closed"
    /\ UNCHANGED <<test, verdict, pages, names, lastSeen, batch, stopped, got>>

PollerRuns == FirstPage \/ NextPage \/ ScanBuild \/ SendToTest \/ ClosePolling

-----------------------------------------------------------------------------
(* The goroutine of the test.                                              *)

\* By It in one example, by AfterEach in all.
StopPolling ==
    /\ test = "cancel" \/ verdict = "passed"
    /\ ~stopped
    /\ stopped' = TRUE
    /\ UNCHANGED <<test, verdict, pages, names, poller, lastSeen, batch, got>>

\* What It waits for.
Satisfied ==
    CASE test \in {"fails", "cancel"} -> poller = "closed" /\ got = <<>>
      [] test = "running" -> Len(pages) >= 2
      [] test = "calls" ->
            /\ Len(pages) >= 2
            /\ pages[1].limit = 1
            /\ pages[2] = [until |-> lastBuild, limit |-> 100]
      [] test = "builds" -> got = <<"errored", "succeeded">>

PassTest ==
    /\ verdict = "none"
    /\ Satisfied
    /\ verdict' = "passed"
    /\ UNCHANGED <<test, pages, names, poller, lastSeen, batch, stopped, got>>

PilotTestRuns == StopPolling \/ PassTest

PilotTestNext == PollerRuns \/ PilotTestRuns
=============================================================================
