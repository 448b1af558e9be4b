----------------------------- MODULE MonitorTest -----------------------------
(***************************************************************************)
(* monitor_test.go: the monitor with fakes for the pilot, the notifier and *)
(* the commander.  BeforeEach tells the fakes what to return and fills the *)
(* channels, which are buffered here; the monitor is made and started; It  *)
(* waits for replies, or for a count of calls; AfterEach stops the         *)
(* monitor.  Only the goroutine of the monitor calls the methods below,    *)
(* and what they return was arranged before, so a call is one step: it is  *)
(* recorded and answered, by the stub or with what Returns was told.       *)
(*                                                                         *)
(* The examples are those of commands, the table of transitions, and one-  *)
(* off builds.  Those of mute and unmute measure time; the one about the   *)
(* output of a build is in OutputSystem.                                   *)
(***************************************************************************)
EXTENDS Naturals, Sequences

VARIABLES
    example,    \* the example that runs
    stage,      \* of it: "arranging", "making", "running" or "passed"
    told,       \* what Returns was told, for the methods that pause and unpause
    calls,      \* the arguments of the calls of each method
    commands,   \* in the channel of the commander
    builds,     \* in the channel of the pilot
    timer,      \* the builds that AfterFunc is going to send
    responses,  \* the channel of the command, which holds one
    received,   \* what It took from there
    monitor,    \* where the goroutine of the monitor is
    started,    \* manuallyStarted
    lastStatus  \* of the job

monitorTestVars ==
    <<example, stage, told, calls, commands, builds, timer, responses, received,
      monitor, started, lastStatus>>

-----------------------------------------------------------------------------
(* The examples: what comes in, what the pilot is told, and what It waits  *)
(* for: replies, and the calls of a method.                                *)

Switch == [pause |-> [job |-> "PauseJob", pipeline |-> "PausePipeline"],
           play |-> [job |-> "UnpauseJob", pipeline |-> "UnpausePipeline"]]

Switches == {"PauseJob", "PausePipeline", "UnpauseJob", "UnpausePipeline"}

TestJob == <<"p1", "j1">>

Target(on) == IF on = "job" THEN TestJob ELSE <<"p1">>

TestBuild(id, job, status) == [id |-> id, job |-> job, status |-> status]

OfCommand(c, on, answer, replies, method, args) ==
    [commands |-> <<[name |-> c, on |-> on]>>, builds |-> <<>>, answer |-> answer,
     replies |-> replies, method |-> method, calls |-> args]

CommandExamples ==
    {OfCommand(c, on, "already", <<>>, Switch[c][on], <<Target(on)>>) :
        c \in {"pause", "play"}, on \in {"job", "pipeline"}}
    \cup {OfCommand(c, on, answer, <<answer>>, "Notify", <<>>) :
        c \in {"pause", "play"}, on \in {"job", "pipeline"},
        answer \in {"already", "changed", "failed"}}
    \cup {OfCommand("oho-boho", "job", "zero", <<"unknown command">>, "Notify", <<>>),
          OfCommand("rerun", "job", "zero", <<>>, "CreateJobBuild", <<TestJob>>),
          OfCommand("rerun", "job", "zero", <<"rerunning">>, "Notify", <<>>),
          OfCommand("rerun", "job", "stub", <<"rerunning", "succeeded">>, "Notify", <<>>)}

\* The entries of the table: two states, and the number of notifications.
StateChanges ==
    {<<"", "succeeded", 0>>, <<"succeeded", "succeeded", 0>>, <<"errored", "aborted", 2>>}
    \cup {<<s, t, 1>> : s \in {"", "succeeded"}, t \in {"aborted", "errored", "failed"}}
    \cup {<<s, "succeeded", 1>> : s \in {"aborted", "errored"}}
    \cup {<<"failed", s, 2>> : s \in {"failed", "succeeded", "aborted"}}

OfBuilds(bs, n) ==
    [commands |-> <<>>, builds |-> bs, answer |-> "zero", replies |-> <<>>,
     method |-> "Notify", calls |-> [i \in 1..n |-> <<"job">>]]

BuildExamples ==
    {OfBuilds(<<TestBuild(0, "job", e[1]), TestBuild(0, "job", e[2])>>, e[3]) : e \in StateChanges}
    \cup {OfBuilds(<<TestBuild(0, "", "failed")>>, 0)}

-----------------------------------------------------------------------------
(* The fakes.                                                              *)

\* Pilot, Commander and Notifier, but ListPipelines, which no example calls.
FakeMethods ==
    Switches \cup {"CreateJobBuild", "BuildEvents", "FinishedBuilds", "URL", "Commands", "Notify"}

\* A new fake: no answer was arranged, which is the zero value, and no call
\* made.
NewFakePilot ==
    /\ told = [m \in Switches |-> "already"]
    /\ calls = [m \in FakeMethods |-> <<>>]

Called(m, args) == calls' = [calls EXCEPT ![m] = Append(@, args)]

PauseJob(answer) == Called("PauseJob", TestJob) /\ answer = told["PauseJob"]

UnpauseJob(answer) == Called("UnpauseJob", TestJob) /\ answer = told["UnpauseJob"]

PausePipeline(answer) == Called("PausePipeline", <<"p1">>) /\ answer = told["PausePipeline"]

UnpausePipeline(answer) == Called("UnpausePipeline", <<"p1">>) /\ answer = told["UnpausePipeline"]

\* The stub starts a timer that sends the build the stub returns.
CreateJobBuild(id) ==
    /\ Called("CreateJobBuild", TestJob)
    /\ id = IF example.answer = "stub" THEN 42 ELSE 0
    /\ timer' = IF example.answer = "stub" THEN {TestBuild(42, "j1", "succeeded")} ELSE {}

\* Nothing was arranged: the events are nil, the URL is empty, the error of
\* Notify is nil.
BuildEvents(id) == Called("BuildEvents", <<id>>)

URL == Called("URL", <<>>)

Notify(job) == Called("Notify", <<job>>)

\* The channels that were arranged.
FinishedBuilds == Called("FinishedBuilds", <<>>) /\ builds' = example.builds

CommanderCommands == Called("Commands", <<>>) /\ commands' = example.commands

-----------------------------------------------------------------------------
(* The goroutine of the test.                                              *)

Idling == [at |-> "select", left |-> <<>>, next |-> "close", build |-> TestBuild(0, "", "")]

MonitorTestInit ==
    /\ example \in CommandExamples \cup BuildExamples
    /\ stage = "arranging"
    /\ NewFakePilot
    /\ commands = <<>>
    /\ builds = <<>>
    /\ timer = {}
    /\ responses = [buffer |-> <<>>, open |-> TRUE]
    /\ received = <<>>
    /\ monitor = [Idling EXCEPT !.at = "new"]
    /\ started = {}
    /\ lastStatus = ""

\* BeforeEach.
Tell ==
    /\ stage = "arranging"
    /\ stage' = "making"
    /\ \/ /\ example.answer \in {"already", "changed", "failed"}
          /\ LET c == example.commands[1] IN
             told' = [told EXCEPT ![Switch[c.name][c.on]] = example.answer]
       \/ example.answer \in {"zero", "stub"} /\ UNCHANGED told
    /\ UNCHANGED <<example, calls, commands, builds, timer, responses, received,
                   monitor, started, lastStatus>>

\* JustBeforeEach: NewMonitor, and a goroutine for Start.
NewMonitor ==
    /\ stage = "making"
    /\ \/ monitor.at = "new" /\ FinishedBuilds /\ monitor' = [monitor EXCEPT !.at = "made"]
          /\ UNCHANGED <<stage, commands>>
       \/ monitor.at = "made" /\ CommanderCommands /\ monitor' = Idling
          /\ stage' = "running" /\ UNCHANGED builds
    /\ UNCHANGED <<example, told, timer, responses, received, started, lastStatus>>

Receive ==
    /\ stage = "running"
    /\ Len(received) < Len(example.replies)
    /\ responses.buffer # <<>>
    /\ received' = Append(received, Head(responses.buffer))
    /\ responses' = [responses EXCEPT !.buffer = Tail(@)]
    /\ UNCHANGED <<example, stage, told, calls, commands, builds, timer,
                   monitor, started, lastStatus>>

\* It has what it waits for; AfterEach closes the monitor's channel stop.
Pass ==
    /\ stage = "running"
    /\ received = example.replies
    /\ calls[example.method] = example.calls
    /\ stage' = "passed"
    /\ UNCHANGED <<example, told, calls, commands, builds, timer, responses, received,
                   monitor, started, lastStatus>>

\* The goroutine of AfterFunc.
TimerFires ==
    /\ timer # {}
    /\ Len(builds) < 2
    /\ \E b \in timer : builds' = Append(builds, b)
    /\ timer' = {}
    /\ UNCHANGED <<example, stage, told, calls, commands, responses, received,
                   monitor, started, lastStatus>>

-----------------------------------------------------------------------------
(* The goroutine of the monitor.                                           *)

Taken(c) ==
    /\ monitor.at = "select"
    /\ commands # <<>>
    /\ c = Head(commands)
    /\ commands' = Tail(commands)
    /\ UNCHANGED <<example, stage, told, builds, responses, received, started, lastStatus>>

Reply(replies, next, b) ==
    monitor' = [at |-> "replying", left |-> replies, next |-> next, build |-> b]

\* After an error the handler goes on as if the server had said no.
SwitchReplies(answer) == IF answer = "failed" THEN <<"failed", "already">> ELSE <<answer>>

HandlePause(answer) ==
    \E on \in {"job", "pipeline"} :
       /\ Taken([name |-> "pause", on |-> on])
       /\ IF on = "pipeline" THEN PausePipeline(answer) ELSE PauseJob(answer)
       /\ Reply(SwitchReplies(answer), "close", monitor.build)
       /\ UNCHANGED timer

HandlePlay(answer) ==
    \E on \in {"job", "pipeline"} :
       /\ Taken([name |-> "play", on |-> on])
       /\ IF on = "pipeline" THEN UnpausePipeline(answer) ELSE UnpauseJob(answer)
       /\ Reply(SwitchReplies(answer), "close", monitor.build)
       /\ UNCHANGED timer

\* Mutant of HandleRerun: the channel is closed at the end, as in the others.
HandleRerunClosing(id) ==
    /\ Taken([name |-> "rerun", on |-> "job"])
    /\ CreateJobBuild(id)
    /\ Reply(<<"rerunning">>, "close", TestBuild(id, "", ""))

HandleRerun(id) ==
    /\ Taken([name |-> "rerun", on |-> "job"])
    /\ CreateJobBuild(id)
    /\ Reply(<<"rerunning">>, "register", TestBuild(id, "", ""))

\* The channel stays open.
HandleUnknown ==
    /\ Taken([name |-> "oho-boho", on |-> "job"])
    /\ Reply(<<"unknown command">>, "leave", monitor.build)
    /\ UNCHANGED <<calls, timer>>

\* The channel takes one reply before it is received.
SendReply ==
    /\ monitor.at = "replying"
    /\ monitor.left # <<>>
    /\ responses.open
    /\ responses.buffer = <<>>
    /\ responses' = [responses EXCEPT !.buffer = <<Head(monitor.left)>>]
    /\ monitor' = [monitor EXCEPT !.left = Tail(@)]
    /\ UNCHANGED <<example, stage, told, calls, commands, builds, timer, received,
                   started, lastStatus>>

EndReplies ==
    /\ monitor.at = "replying"
    /\ monitor.left = <<>>
    /\ monitor' = Idling
    /\ \/ /\ monitor.next = "close"
          /\ responses' = [responses EXCEPT !.open = FALSE]
          /\ started' = started \ {monitor.build.id}
       \/ /\ monitor.next = "register"
          /\ started' = started \cup {monitor.build.id}
          /\ UNCHANGED responses
       \/ monitor.next = "leave" /\ UNCHANGED <<started, responses>>
    /\ UNCHANGED <<example, stage, told, calls, commands, builds, timer, received, lastStatus>>

\* The pairs of defaultNotifiers.
Announced(old, new) ==
    \/ old \in {"", "succeeded"} /\ new = "failed"
    \/ old = "failed" /\ new \in {"failed", "succeeded"}
    \/ old \in {"", "succeeded", "failed", "errored"} /\ new \in {"errored", "aborted"}

TakeBuild ==
    LET b == Head(builds) IN
    /\ monitor.at = "select"
    /\ builds # <<>>
    /\ builds' = Tail(builds)
    /\ \/ b.job = "" /\ UNCHANGED <<monitor, lastStatus>>
       \/ b.job # "" /\ b.id \in started /\ Reply(<<b.status>>, "close", b) /\ lastStatus' = b.status
       \/ /\ b.job # "" /\ b.id \notin started
          /\ IF Announced(lastStatus, b.status)
             THEN /\ monitor' = [monitor EXCEPT !.at = IF b.status = "failed" THEN "reading" ELSE "linking",
                                                !.build = b]
                  /\ UNCHANGED lastStatus
             ELSE lastStatus' = b.status /\ UNCHANGED monitor
    /\ UNCHANGED <<example, stage, told, calls, commands, timer, responses, received, started>>

\* The notification of a failure has the output of the build, every one has a
\* link to it; then it is sent.
Announce ==
    /\ \/ /\ monitor.at = "reading"
          /\ BuildEvents(monitor.build.id)
          /\ monitor' = [monitor EXCEPT !.at = "linking"]
          /\ UNCHANGED lastStatus
       \/ /\ monitor.at = "linking"
          /\ URL
          /\ monitor' = [monitor EXCEPT !.at = "notifying"]
          /\ UNCHANGED lastStatus
       \/ /\ monitor.at = "notifying"
          /\ Notify(monitor.build.job)
          /\ monitor' = Idling
          /\ lastStatus' = monitor.build.status
    /\ UNCHANGED <<example, stage, told, commands, builds, timer, responses, received, started>>

Stop ==
    /\ stage = "passed"
    /\ monitor.at = "select"
    /\ monitor' = [monitor EXCEPT !.at = "ended"]
    /\ UNCHANGED <<example, stage, told, calls, commands, builds, timer, responses, received,
                   started, lastStatus>>

MonitorRuns ==
    \/ \E answer \in {"already", "changed", "failed"} : HandlePause(answer) \/ HandlePlay(answer)
    \/ \E id \in {0, 42} : HandleRerun(id)
    \/ HandleUnknown
    \/ SendReply \/ EndReplies
    \/ TakeBuild \/ Announce
    \/ Stop

TestRuns == Tell \/ NewMonitor \/ Receive \/ Pass

MonitorTestNext == TestRuns \/ MonitorRuns \/ TimerFires

-----------------------------------------------------------------------------
(* Properties.                                                             *)

\* The example has what it waits for, and the monitor's goroutine has ended.
MonitorExamplePassed == stage = "passed" /\ monitor.at = "ended"
=============================================================================
