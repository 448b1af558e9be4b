# flyontime in TLA+

flyontime is a bot between Concourse CI and a chat (Slack or Mattermost).  It
polls Concourse for finished builds, announces the ones that change the state
of a job in a channel, and executes the commands people write back.  This
directory specifies it: TLA+ modules translated from the Go source, the TLC
configurations that check them on small instances, and theorems about them
that TLAPS checks for every value of the constants.

All paths below are relative to the root of the repository.

## 1. Inventory

### Components, their state and their operations

| component | code | state | operations |
|---|---|---|---|
| build list of the Concourse server | vendored `atc/db/build_factory.go`, `team.go` | the table of builds, its id sequence | list a page (`Until`, `Limit`); create in a transaction; finish; abort; delete with its pipeline |
| `AutoPilot.FinishedBuilds` | `pkg/flyontime/concourse.go:37-91` | a goroutine: the watermark `lastSeen`, the page in hand, its position | first request, poll, skip, send, exit |
| `Monitor`, builds | `pkg/flyontime/monitor.go:334-413` | `history`, `muted`, `manuallyStarted` | `handleBuild`: respond, announce or keep quiet, update the history |
| `Monitor`, commands | `pkg/flyontime/monitor.go:98-332` | the same maps; pause state on the server | rerun, mute, unmute, pause, play, pipelines, help, unknown |
| goroutines of commands | `pkg/mattermost/notifier.go:175-224`, `pkg/slacker/notifier.go:129-159` | one goroutine and one channel per command | send the command, post each answer, end when the channel is closed |
| Slack chat | `pkg/slacker/notifier.go` with the vendored client | `messages`, `callbacks`, the bot's id, the client's connection and its channel of events | handle an event, `Notify`, run a command, answer |
| Mattermost chat | `pkg/mattermost/notifier.go` | what `init` read, `posts`, the websocket | `init`, connect, retry, handle an event, `Notify`, run a command, answer |
| build output | `pkg/flyontime/monitor.go:422-466` with the vendored event stream | the text so far, the last configuration; the place in the log | open the stream, read an event, return; reconnect |
| fakes of the tests | `pkg/flyontime/flyontimefakes/` | per method: stub, answers, arguments and a lock; the record of all calls and its lock | arrange, call, count, collect |
| tests | `pkg/flyontime/monitor_test.go`, `concourse_test.go` | the example that runs, what its fakes were told and called with | arrange, make, run, stop |
| program | `cmd/flyontime/main.go` | none kept | choose the chat, wire the parts, stop on a signal |

### How they interact

The poller and the monitor meet on the unbuffered channel `builds`; each
goroutine of a command meets the monitor on the shared unbuffered channel
`commands` and on its own channel `Responses`.  `Monitor.run` is a single
goroutine: while it handles a build or a command (an HTTP request, the output of
a build, a post, an answer nobody has taken yet) nothing else is received.
Everybody else on the Concourse server acts in between: builds are created, end
and are aborted, and pipelines are destroyed, between a poll and the sends of its page.
`Monitor.Stop` cancels the context of the poller and closes the channel that
makes `run` return; nobody waits for either.

`Notify` is called by the goroutine of the monitor.  It posts a notification and
then writes it into a map (`callbacks` of Slack, `posts` of Mattermost), in which
the goroutine that handles messages looks up what a reply is about; neither takes
a lock.  That goroutine starts a goroutine for each command and never waits for
the monitor itself.  What the bot posts comes back to it as an event like any
other.  The connection of Slack is kept up by the vendored client, that of
Mattermost by the loop in `Commands`.

Before a failure is announced, `buildOutput` reads the event stream of the
build, which reconnects on its own from the last event it has.

### What is hard about it

* *The cursor.*  `lastSeen` moves forward by pages and is moved by every
  running build of a page, so that it is delivered when it has ended.  The same
  builds come again and again, newest first; receivers must cope.
* *The snapshot.*  A page gets old while the loop blocks in sends.  A status that
  was sent is not final either: a build is listed as aborted while the engine still
  tracks it, and `build.Finish` (`atc/db/build.go:281-302`), which looks at the id
  only, overwrites that when the build ends.
* *The ids.*  A transaction draws its id before it commits, so builds of different jobs
  may become visible in another order than that of their ids, and a cursor over
  ids may pass one that is not visible yet.
* *Ordering with reruns.*  The build of a rerun exists, and may be polled,
  before the monitor has put it into `manuallyStarted`.
* *Rendezvous.*  Sends in both directions block; shutting down one side
  can block the other for good.
* *Sequences of outcomes.*  What is announced depends on the last status
  through a table with gaps, and on a count that is updated after it is used.
* *Partial failure.*  A request that failed may have taken effect, a post may
  be refused, the handler of a failed pause goes on.
* *Replies.*  One may be seen before `Notify` has stored what it is about, while
  the map is written, or, in Slack, with its two events in the other order; the
  bot sees its own answers in the same threads.
* *Connections.*  They break while events wait, and while a log is read; a
  server that stops in the middle of a log looks like its end.
* *Two locks.*  A fake keeps two records of each call under different locks, and
  `Invocations` takes these in the other order.

### What makes each component correct

* poller: what it sends has the status it says, or had it before somebody aborted
  it; it never goes back behind the start; no build of the team is lost; re-sending comes to an end; it closes its channel;
* monitor: histories agree with what was received; a mute is kept; a rerun is answered once, with the right status, and the channel closed;
* commands: the monitor never blocks for good in an answer and never uses a
  closed channel; every command is answered to its end; what it is told is true;
* poller and monitor together: a rerun gets its result; a history comes to the
  newest build; the two behave as the monitor with the abstract feed does;
* chats: a command comes from a message of a user, at most one from each, and
  is about the job the reply is about; no reply is dropped that could be
  understood; nobody waits for ever; a broken connection is set up again;
* build output: the text is the log, every event once and in order, and the
  monitor gets out of it;
* fakes: both records agree, whoever calls, and every call gets the answer that
  was arranged for it;
* tests: every example gets what it waits for, in whatever order its goroutines run.

The hazards behind these, each at its line, are listed under `hazards` in
`PROJECT.json` with the properties that cover them.

## 2. Modules

```
Concourse <- Feed <- MonitorSystem <- MCMonitorSystem, MonitorProofs
    ^          ^          ^
    |          |      (implements)
    |     (implements)    |
    |          |          |
    +------ AutoPilot <- Flyontime <- MCFlyontime, FlyontimeProofs
               ^             |
               |          Monitor
               |
           MCAutoPilot, AutoPilotProofs

Commands <- MCCommands, CommandsProofs
Commands, Monitor  (implement Responses)

Messenger <- Slack      <--+-- Program <- MCProgram, ProgramProofs
          <- Mattermost <--+      |
                        (implements Chat)

BuildOutput, EventStream, Fake <- OutputSystem <- OutputProofs
                          Fake <- FakeProofs
OutputSystem, MonitorTest, PilotTest <- Suite <- MCOutput
```

**`Concourse`** - the table of builds as flyontime sees it, with the paging of the
vendored server.  A pipeline is of the own team, public, or private (which the
list does not show): the three kinds make the gaps in the ids.  A page is a
set, because rows are ordered by id.  `running` stands for pending and started.
`FirstId..LastId` bounds the ids of a behaviour.  `BeginBuild` draws the id of a build
and holds the row of its job, `CommitBuild` makes it visible and `RollBack` does not;
transactions of different jobs commit in any order.  `FinishBuild` has no guard on
the status, as `Finish` has none: it overwrites what `MarkAsAborted` has written.  That
it comes once (`completed`) is the events' sequence, which it drops.  `Abortable` are the
builds somebody may abort, at any time.  `endings` only observes: every status a build has
had but `running`.

**`AutoPilot`** - the goroutine of `FinishedBuilds`.  `pc` is `init` before the first
request, `waiting` in the select, `scanning` in the loop over a page, `exited`
after its deferred `close`, or `panicked`.  `StartFails`, `StartPanics` and
`Start` are the outcomes of the first request; `Poll` is a tick whose page
has a next one (the other ticks change nothing); `SkipForeign`, `SkipRunning`
and `Send` are the branches of the loop body; `Exit` is `ctx.Done()`.  `min` is
translated from its body: it returns the larger value.  The history variables
`reported`, `startedAt`, `asked` and `apart` only observe; `apart` remembers that a page
had two running builds of the team with another id between them, or that it showed a
build above one of the team that was not committed yet.

**`Feed`** - the abstract specification of the channel: builds of the team, created
after the start, each with a status it had when it did not run; in any order,
perhaps repeated, perhaps with another status after an abort, perhaps missing.  `AutoPilot` implements it (checked, and proved), and
`MonitorSystem` runs the monitor against it instead of the poller, so what is
shown of the monitor there does not depend on the cursor.

**`Monitor`** - the maps of the monitor and every action on them.  A pipeline
stands for its only job; pipelines of the team outside `Jobs` stand for its
one-off builds.  `HandleBuild` is `handleBuild` with the deferred
`updateHistory`; `commandRerun` takes two steps (`CommandRerun`, which creates
the build, and `RegisterRerun`, which fills in the map once the answer was
read, or `RerunFails`), because the server and the poller act in between.  A build the
monitor receives has the status it was sent with, not the one of the table.  `handled`,
`startedBy` and `promised` only observe.  Times are numbers; `-1` is no mute.

**`MonitorSystem`**, **`Flyontime`** - the monitor composed with `Feed`, and with
`AutoPilot`.  In `Flyontime` the rendezvous `Hand` is a step of both: the
poller sends and the monitor handles.  A panic of the poller ends the program.
`Flyontime` implements `MonitorSystem`: the mapping is that of `AutoPilot` to `Feed`,
and the identity on the monitor.

**`Commands`** - the exchange of commands and answers with each blocking send a
step of its own: `Write` starts the goroutine of a command (its responder),
`HandleCommand` is the rendezvous on `commands` with the request the handler makes of the server, `Say` the
rendezvous on `Responses`, `Post` the post of an answer, `Finish` the return of
the handler with its deferred `close`.  Pausing is modelled with what the
vendored client makes of the answer: *done*, *not known* (false without an
error), *failed* (before or after it took effect).  `mute` and `unmute` answer
as `help` does; what they change is in `Monitor`.

**`Responses`** - the abstract specification of `Command.Responses`, as a chat that
sent a command may rely on it: one answer or two, at most one close and not before
the first, nothing after it (a send on a closed channel or a second close panics).
`Commands` implements it, where each answer is a step, and so does `Monitor`, where
the result of a rerun may come long after its handler returned.

**`Chat`** - the abstract specification of a chat, as the monitor may rely on it:
a command comes from a message of a user, from each at most one; it is about a
job only if the message is a reply to a notification of that job users could see.
Messages may be missed.

**`Messenger`** - what both chats share.  `Notify` is three steps:
`PostNotification`, and the write of the map as `BeginStore` and `EndStore`, so
that a look at the map in between is a race: `Lookup` gives its outcomes, which are
the entry, no entry, or a runtime that notices and ends the process.  `Take` is the
rendezvous of a command with the monitor, which cannot happen while the monitor
is in `Notify`; `Answer` is its post.  `PostUnanswered` is a post the users see although
`Notify` got an error and stores nothing: replies to it are not understood.  The notification a reply is about stands for
its callback id or post id, and one answer for all answers.

**`Slack`** - `messages` and `callbacks` of `slacker.Notifier`, the client's connection
and the events that wait in its channel.  A reply in a thread makes two
events, in either order (`Tell`).  `Handle` has one disjunct per branch of
`handleMessageEvent`, `handleReplyMessage` and the connected event.  `Kept` is the
key of the map, made of author and time.  An event of a reply that has no replies
(`"empty"`) panics, as indexing them does (`slacker/notifier.go:98-100`).

**`Mattermost`** - `init`, whose error nobody looks at (`setUp`), the loop of `Commands`
over connections (`Connect`, `Retry`, `Leave`), and `handlePost` with what may stand
in the place of a post (`Garbage`).

**`Program`** - `main`: `Start` chooses the chat from the tokens, `Exit` is the signal at any
time, which loses what the process had in memory.  It composes both chats through
`INSTANCE`, only one of which moves in a behaviour, and implements `Chat` by
`said <- written` and `obeyed <-` the message and the job of each command.

**`BuildOutput`**, **`EventStream`**, **`Fake`**, **`OutputSystem`** - the loop of `buildOutput`
with a case for each kind of event; the stream between the server and `NextEvent`,
with its reconnection from `Last-Event-ID`; and a fake as counterfeiter generates
it, for methods named by `Order`, of which `ConcourseEventsFake` is run.  A call is
three steps (`Enter` under the lock of its method, `Record` under that of the
record, `Answer` without a lock), `Invocations` one for each lock it takes.
`OutputSystem` puts `buildOutput` in front of the stream (`setting` is `"server"`) or
of the fake in the hands of two goroutines and of an inspector (`"test"`).  The second
goroutine (`HelperCloses`) and the inspector (`Inspects`) are what the locks of the
fake allow; nothing in the repository makes use of either, so the properties
hold for more than the tests do.

**`MonitorTest`**, **`PilotTest`**, **`Suite`** - the examples of `monitor_test.go` (commands, the
table of transitions, one-off builds) and of `concourse_test.go`, with the goroutine
under test, that of the test, the timers of the stubs, and the fakes between
them.  Here a fake is called by one goroutine, and a call is one step.  The monitor and the
poller are those of the source once more, with what the examples tell apart:
the calls they make.  In a behaviour of `Suite`, `subject` says which
example runs, or `buildOutput`.  Examples that measure time are left out.

The modules are parameterised by CONSTANTS with named assumptions, which TLC
evaluates on every run.

## 3. Runs

| run | question | bounds |
|---|---|---|
| `pilot_safety` | does what is sent hold, with aborted builds among it, is the watermark monotone from poll to poll, nothing lost while running builds stay together, no page passed over while the build it started from exists, `Feed` implemented; does the poller start if it is shown two builds? | 4 ids, page of 2, one pipeline of each kind, the own one destroyable, the two new builds abortable |
| `pilot_live` | is every build sent, does re-sending end, is the channel closed? | 6 ids, page of 2, own pipeline, no aborts |
| `pilot_skip` (violated) | does a running build come back once it has finished, as `concourse.go:78` says? | 6 ids, page of 3 |
| `monitor` | histories, reruns, channels, mutes | 3 ids, 3 handlings, 2 commands, 2 outcomes and an abort, clock 0..1 |
| `monitor_transitions` (violated) | are the transitions of README.md:6-8 announced? | 3 ids, 4 outcomes, 3 handlings |
| `monitor_streak` (violated) | is "still failing (%d times in a row)" right? | 3 ids, 4 outcomes, 3 handlings |
| `commands` | is everybody answered, is anybody left behind, is `Responses` implemented? | 2 commands, every pair of requests |
| `commands_already` (violated) | is what is "already paused" paused? | 2 commands |
| `fly` | do reruns and histories work with the real poller, is a build lost between the two; are `MonitorSystem` and `Responses` implemented? | 4 ids, page of 3, 1 command, 3 handlings, one build abortable, clock 0..1 |
| `chats` | do both chats keep `Chat`, is a reply that is due run, does anybody wait, is a connection kept? | 2 notifications, 2 messages, garbage of all kinds |
| `chat_badpost` (violated) | is a posted event without a post reported and skipped, as `mattermost/notifier.go:110-111` says? | 1 notification, 1 message |
| `output` | is the text the log, does `buildOutput` return, do the records of a fake agree, do the examples of the tests pass? | logs of up to 4 events, 2 tasks, 2 calls of each method, 3 polls |

Why the bounds are enough.  The poller has no memory but the watermark and one
page, so what can go wrong needs at most a page of running builds, one build
beyond it, and a gap wider than a page.  `pilot_safety` has every kind of pipeline, with
a page of 2, two builds at the start and two created since, in transactions that
overtake one another; `pilot_live` and `pilot_skip` have one pipeline and four
builds created since, more than a page.  What more builds of all kinds would add is
in the proofs, which have no bound.  In `monitor` three ids and three handlings give
repeated and reordered deliveries of a build, also of the build of a rerun and of one
with another status than before; the outcomes have an announced, an ignored (aborted)
and a resetting one among them.  In `commands` two commands are one that is
served and one that waits.  In `chats` two notifications are one that is in the
map and one that is being written, and two messages are one whose command waits
and one whose event does, or a reply and the bot's answer in its thread.  In
`output` a log of four events has the two events of each of two tasks, in every
order, and every place where a connection can break; a fake with two goroutines
and two calls of each method has a call in each of its steps beside another, with
the inspector between two locks.  `MaxPolls` ends the ticks of
an example of `concourse_test.go`, which stands for a select that takes `ctx.Done()` at
some time; the examples need two.  `Ids`, `MaxNow`, `MaxHandled`, `MaxNotified`,
`MaxWritten`, `MaxEvents`, `MaxCalls` and `MaxPolls` are the only bounds on behaviours, with
one more: a chat connects, and gets garbage, only when no event is
waiting.  Deadlock is not checked, because bounds or a stopped program end
behaviours.  The liveness properties of `Flyontime` except behaviours that
ran into `MaxHandled` (`Full`).

### What the violated runs show

* `pilot_skip`: a page with two running builds and the id of another build
  between them leaves the watermark above the older one, which is never listed
  again, because `min` (`monitor.go:415`) returns the larger value.  As long as
  the running builds of a page follow one another nothing is lost
  (`NothingSkippedIfTogether`; proved).
* `monitor_transitions`: `defaultNotifiers` has no entry for a failure after an
  errored or aborted build, and none for a success after failures with an errored
  or aborted build behind them.
* `monitor_streak`: the text is made before the failure it is about is counted,
  and errored or aborted builds do not end the count.
* `commands_already`: "already paused" is the answer about jobs that do not
  exist, and the second answer after every failure.
* `chat_badpost`: what is logged is a nil `*model.AppError` in an `error`, which the
  logger asks for its text; the process ends.

### What the passing runs allow for

* The poller stays blocked in `c <- b` once its receiver has gone, so its channel is
  closed only while somebody receives (`ClosesWhileReceived`).
* A build that is sent again is announced again, as one more failure: the count of a
  history is one of deliveries, not of builds.
* A build that was sent as aborted while the engine still tracked it may end as succeeded,
  failed or errored.  It is not sent again with that status unless the watermark still is
  below it.  `ReportedHolds` says what remains: the status is one the build had, and another
  one now means that it was aborted.  A rerun may be answered with such a status
  (`RerunNotPassedBy`), and a history may keep it (`HistoryCatchesUp`).
* A build whose transaction commits after one with a higher id may be below the watermark when
  it becomes visible, and is lost.  Like running builds that are apart, this is
  excluded (`~apart`) from `NothingSkippedIfTogether`, `AllReportedIfTogether`,
  `NothingOverlooked`, `RerunNotPassedBy` and `RerunAnswered`.
* The stream of a build that was deleted fails for ever, and `buildOutput` never returns
  (`Disappear`; excluded from `ReturnsUnlessGone` by name).  The monitor then takes neither
  builds nor commands.  The liveness properties of `Program` are about a monitor this does not
  happen to: they assume that it comes back to its select (`WF(Take)`).
* A server that closes a connection in the middle of a log (`CutShort`), tasks side by
  side, a look at the map of a chat during its write, a reply in Slack whose events
  come in the other order, and a process that ended: the models have them, and
  `WholeLog`, `TextIsTheLog`, `RepliesAreRun` and `NobodyWaits` exclude them, each by name.
  Under `hazards` in `PROJECT.json` these are listed without a property.
* `KeepsListening` takes a refused connect for an end, as the code does.
* The builds of the example about running builds in `concourse_test.go` come on a page
  without a next one, so the poller passes that page over and never looks at them; the
  example passes all the same.  An example that does not receive its builds leaves the
  goroutine of the poller behind in its send.

### Fairness

* Weak fairness of each goroutine's steps (`Start`, `Poll`, the loop body, `Post`,
  `Say`, `Finish`, `RegisterRerun`): the Go scheduler runs goroutines that can
  run, requests and posts come to an end, and requests do not fail for ever.
* Strong fairness of `Exit`, `Hand`, `HandleCommand` and `HandleBuild`, steps that
  wait for a select: others disable them for a while, a select with several
  cases ready picks one at random, and senders on a channel are served in turn.
* Weak fairness of `FinishBuild` (or of the build of a rerun coming, in
  `Commands`): Concourse builds end; and of `CommitBuild` or `RollBack`: so do
  transactions.  None of `MarkAsAborted`.
* In `Program`, weak fairness of the goroutines of a chat: `Notify` once it has posted,
  the monitor taking a command, the goroutine that handles events (which connects in
  Mattermost), and the client of Slack.  That an attempt to connect succeeds is not
  assumed, only that it comes to an end.
* In `OutputSystem`, strong fairness of what an open connection brings (an event,
  the end, or an early close), because a connection is not lost each time before
  something came through, and weak fairness of `Reconnected`.
* In `Suite`, that of `OutputSystem`, and weak fairness of the goroutines of the example that runs
  and of its timers (the fairness of each names `subject`).
* None for users, for `Stop` and `Exit`, for new builds, destroyed pipelines, or
  connections that break.  The live runs of the poller keep pipelines: once all
  older rows of the table are deleted, a page has no next one and is passed over
  (`concourse.go:62`), so a build may never be sent.

## 4. Proofs

TLAPS checks seven modules: `AutoPilotProofs`, `MonitorProofs`, `FlyontimeProofs`,
`CommandsProofs`, `ProgramProofs`, `FakeProofs` and `OutputProofs`.  Every invariant
and every action property of a passing run is proved for all values of the
constants, and so are the refinements.

`AutoPilotProofs` assumes `ConcourseAssumption` (ids are a bounded range of positive
numbers, the kinds of pipelines are disjoint, outcomes are not among the other
statuses) and `PageLimitAssumption` (the page size is positive).  It proves, for every
table, page size and set of pipelines:

* `TypeCorrect`, the type invariant;
* `SentHolds`: what is sent from a page that may be old is a build of the team with a status
  it had, which runs no more, and has another status now only if it was aborted.
  `BatchCurrent`, the invariant behind it, says of each snapshot in hand that its build
  belongs to the pipeline it says, and that a status it shows is one the build has
  had; `RowOK`, about the table, that two such statuses of a build differ only if one of
  them is an abort, because a build is finished once;
* `WatermarkNeverRegresses`: although running builds move the watermark back, a
  poll never asks for less than the one before.  `Watermark`, the invariant, says
  that all builds of the page in hand are above what was asked for.  It needs
  that the page of `ListBuilds` is above `until`, hence that `until` is
  positive, which is `PollsCarryUntil`: with any other value the client leaves
  `until` out and the newest builds come instead;
* `NothingLost`: while the running builds of each page stay together and no build is
  overtaken, every build the poller still owes is above the watermark or in hand.  This is not inductive: what
  happens in the loop depends on where the watermark is relative to the running
  builds the loop has not reached.  `Held` strengthens it: `DueAhead` says that a
  build still to be sent is in hand, or above the watermark and above everything
  in hand, so that a jump to a running build cannot pass it; `ComingAhead` says the
  same of a build of the team that is not committed yet; `RunningAhead` says
  that the running builds in hand have no gap and that the watermark has not
  passed the newest of them.  `PageIsOldest`, about `ListBuilds`, says that a build a
  page leaves out is newer than all in it;
* `StartsIfTwoShown`: the first request brings the poller to its loop, not to a panic,
  whenever the list shows two builds;
* `NewBuildsSeen`: while the build it started from is in the table, a page with builds
  above the watermark has a next one and is not passed over.  A page is a
  finite set without an order of its own, so that it has an oldest build needs
  the least element of a set of numbers (`LeastElement`, from the well-foundedness
  of `<` in the library);
* `PilotImplementsFeed`: initial states and steps map to those of `Feed`.

`MonitorProofs` assumes in addition `MonitorAssumption` (jobs are pipelines of the
team, `NoCommand` is no command, mutes have a length) and proves of `MonitorSystem`
`MonitorTypes`, `HistoriesComplete`, `RerunsAnsweredOnce`, `OpenChannelsOwed` and
`MutesKept`.  The parts of `IInv`:

* `Tabled`: a build that is in the table or is being created has an id that was given
  out, and has had no status to be delivered with before it is committed; with it
  the build of a rerun is a new one;
* `Logs`: each delivery in the log of a job is of a build of that job with a status
  it has had;
* `FailuresAppend`, the lemma about counts: one more delivery ends the count of
  failures, adds one, or leaves it.  It makes the count of a history that of the log;
* `Reruns`: a command that was not sent has no answers (`Unused`); between the two
  steps of `commandRerun` its build belongs to nobody and has not been delivered
  (`Begun`, because the monitor, which would receive it, is in the handler); an entry
  of `manuallyStarted` is that of who started the build (`Owned`), and nobody
  started two (`Single`).  That a rerun is answered once needs all four, since
  the feed may deliver its build at any time and repeatedly;
* `Promises`: while a mute that was promised lasts, it is in the map.

`MonitorKeepsResponses` shows that the monitor implements `Responses`; it rests on
`Unused`, `Begun` and on `RerunAnsweredOnce`, which say how many answers a command
has had when the next one is sent.

`FlyontimeProofs` proves `ProgramImplementsSystem`, that every step of poller,
monitor and server is one of `MonitorSystem`, from `BatchCurrent` (what is in hand is
what the feed may deliver), and with it `ProgramKeepsPromises`, `ProgramKeepsMutes`
and `ProgramKeepsResponses`: the properties of the monitor hold with the real poller.
`ProgramRunsThePoller` is the other half: every step of the program is one of
`AutoPilot`, or none of its variables changes, so that the theorems about the poller hold
beside the monitor (`ProgramPolls`).  What neither half can say alone follows from both:

* `ProgramLosesNothing`: while running builds of a page follow one another and none is
  overtaken, each
  build of a job created since the start is ahead of the poller, in its page, or
  was handled.  `Held` says so of `reported`; `Linked` that the monitor has handled
  each build of a job that was reported, since `Hand` is one step of both;
* `ProgramAnswersReruns`: when the poller has left the build of a rerun behind, its
  user has the result, a status the build had.  `StartedLater` says that the build of a rerun was created
  after the poller started, so that it is one the poller owes; that it was
  handled then makes it `Paid` by `RerunAnsweredOnce`.

`CommandsProofs` assumes `CommandsAssumption` (`NoTarget` and `Nobody` are no
targets and no commands) and proves for any number of commands and targets
`TypeCorrect`, `AnswersHeard` and `LeftOpenIsUnknown`.  The inductive invariant `IInv` adds
that a channel nobody has taken is open, that the command being served is not
owed a rerun as well (else its `close` would make the later answer panic), and that
only the handler of an unknown command leaves its channel as it is.
`HandlersKeepResponses`, that `Commands` implements `Responses`, adds `Answering`: what a command was
told and what its handler has still to say are one or two answers, and one as long as
the result of a rerun is owed beside it.

`ProgramProofs` assumes `ProgramAssumption` and proves `ProgramTypes`,
`ProgramImplementsChat` and `NoReplyLost`, for both chats at once where they agree
(`SameMessenger`).  `IInv`, beyond the types: no event waits twice (`Once`); a message
an event tells of has not become a command, except that a reply in Slack has two
events, and one that was not kept has nothing to fear from its second (`Fresh`);
the bot mentions nobody (`Modest`), so that Slack, which does not look at the author
of a mention, runs no command of its own; until Slack has told the bot its id, no
message has been handled and the event that tells it comes first (`Reached`), so
that a mention is not taken for something to keep; without a chosen chat nothing
has happened (`Untouched`).  `NoReplyLost` goes through every action and shows that a
reply that is due stays due, or becomes a command, or is looked up during a write.

`FakeProofs` assumes `FakeAssumption` (there are methods, none is locked twice, and nothing
that is arranged is the zero value) and proves of a fake
of any methods `FakeRecords` and `FakeCollects`.  `FakeInv`: who is recording holds the
lock of its method (`LockHeld`); the methods whose read lock `Invocations` has are
held by nobody (`ReadLocksHeld`); a call's place is below the number of
calls and its answer was arranged for it (`Placed`), and places differ
(`PlacesDiffer`).  `OutputProofs` carries this to the fake in the hands of `buildOutput`
(`ReaderGetsItsAnswers`, `CollectedInSystem`), and proves `SystemTypes` and, with `Agreed` (what was seen is
what the connections brought, each from where the one before broke),
`WholeLogRead` for a log of any length.  `TextTellsTheLog` says of the text what
`WholeLogRead` says of the events: it has one piece for each event that makes one, in the order
of the events, and a command is that of the task which starts, if the tasks were
initialized in turn.  The place of a piece is the number of such events so far, a cardinality
(`Lines`) and not a recursive function, so that one more event can be reasoned about
(`LinesAppend`); `LastConfig`, the invariant, says that `buildConfig` is that of the
last task initialized.

Only model-checked: all liveness (`AllReportedIfTogether`, `ResendingEnds`,
`ClosesWhileReceived`, `EveryCommandEnds`, `RerunAnswered`, `HistoryCatchesUp`,
`NobodyWaits`, `KeepsListening`, `ReturnsUnlessGone`, `ExamplesPass`), because liveness under fairness is
out of the prover's reach.

## 5. Not modelled

* Setting up HTTP clients and credentials (`concourse.go:93-171`): a token is
  fetched for each client and nothing is kept.
* Logos, flags, logging, user profiles, the layout of messages: no state the
  properties are about.  What a message says matters only as far as it makes
  commands: its author, its place, what it replies to, whether it mentions the bot.
* The rest of the atc and of the vendored clients.  What is modelled of them is
  translated from the vendored code: the list of builds, the answers to pausing, the
  event stream, the connection of Slack's client.  What no code in the
  repository says is assumed: the event of a reply in a Slack thread names the
  author of that reply, and what the bot posts itself comes back as a message
  without an author.
* The arguments of the calls of a fake that goroutines share, which are copied only; a
  caller stands for them.
* The locks of the generated fakes other than `FakeConcourseEvents`: in the tests each of
  these is called by one goroutine, and what the examples arrange, call and count is in
  `MonitorTest` and `PilotTest`.
* The examples of mute and unmute, which measure time.
* A property about the order of a fake's locks.  A call takes the lock of its
  method and then that of the record, `Invocations` takes them the other way
  round; the model has the state in which both wait.  Nothing in the repository
  promises otherwise, and no test calls `Invocations` beside the code under test.
* What a server should make the poller do that is younger than its oldest build
  needs (`concourse.go:51`): `StartPanics` models what happens, and nothing says what
  should.  What is stated is when it does not happen (`StartsOnTwoBuilds`).

## 6. Plan

1. `Concourse`, `AutoPilot`, `Feed`, `AutoPilotProofs`: the cursor first, because every
   announcement depends on it.  Done.
2. `Monitor`, `MonitorSystem`, `Flyontime`, and that `Flyontime` implements
   `MonitorSystem`.  Done, with `MonitorProofs` and `FlyontimeProofs`.
3. `Commands`, `CommandsProofs`.  Done.
4. `Messenger`, `Slack`, `Mattermost`, `Program` against `Chat`.  Done, with
   `ProgramProofs`.
5. `BuildOutput`, `EventStream`, `Fake`, `OutputSystem`.  Done, with `FakeProofs` and
   `OutputProofs`.
6. `Responses`, implemented by `Commands` and by `Monitor`.  Done.
7. `MonitorTest`, `PilotTest`, `Suite`: the tests as behaviours.  Done.
8. Left: `Commands` composed with `Program`, so that the answers to one command are
   posts of their own.
