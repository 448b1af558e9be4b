------------------------------- MODULE Monitor -------------------------------
(***************************************************************************)
(* The goroutine of Monitor.run and the maps only it touches: the history  *)
(* of each job, the mutes, and the reruns whose result is still owed to    *)
(* the user who asked for them.  It handles one build or one command at a  *)
(* time.  A command that creates a build reaches out to the server before  *)
(* it is over, so it takes two steps; the other handlers take one.         *)
(*                                                                         *)
(* Where the builds come from is left to the modules that extend this one. *)
(* A pipeline stands for its only job; the pipelines of the team outside   *)
(* Jobs stand for its one-off builds.                                      *)
(***************************************************************************)
EXTENDS Concourse, Sequences

CONSTANTS
    Jobs,           \* the jobs of the team
    Commands,       \* the replies users write to notifications
    NoCommand,
    Durations,      \* arguments of mute; 0 is one that is over at once
    DefaultMute,    \* how long mute without an argument lasts
    MaxNow,         \* bound on the clock
    MaxHandled      \* bound on the builds handled for each job

Statuses == {"succeeded", "failed", "errored", "aborted"}

ASSUME MonitorAssumption ==
    /\ Jobs \subseteq OwnPipelines
    /\ Ended \subseteq Statuses
    /\ NoCommand \notin Commands
    /\ Durations \subseteq Nat
    /\ DefaultMute \in Nat
    /\ MaxNow \in Nat
    /\ MaxHandled \in Nat

VARIABLES
    history,         \* of each job: its last status and its failures
    muted,           \* when the mute of each job ends
    manuallyStarted, \* the command that waits for the result of a build
    starting,        \* a rerun that created its build, until it is in the map
    stopped,         \* Start has returned
    now,             \* the clock
    channel,         \* the responses channel of each command
    replies,         \* what was sent into it
    handled,         \* history: the builds handled for each job, and how
    startedBy,       \* history: the command that started each build
    promised         \* history: until when a user was told the job is mute

maps == <<history, muted, manuallyStarted>>
channels == <<channel, replies>>
observed == <<handled, startedBy, promised>>
monitorVars == <<maps, starting, stopped, now, channels, observed>>

NotMuted == -1

\* A job that is not in the map has a history too.
NoHistory == [last |-> "", failures |-> 0]

MonitorInit ==
    /\ history = [j \in Jobs |-> NoHistory]
    /\ muted = [j \in Jobs |-> NotMuted]
    /\ manuallyStarted = [i \in Ids |-> NoCommand]
    /\ starting = {}
    /\ stopped = FALSE
    /\ now = 0
    /\ channel = [c \in Commands |-> "unsent"]
    /\ replies = [c \in Commands |-> <<>>]
    /\ handled = [j \in Jobs |-> <<>>]
    /\ startedBy = [i \in Ids |-> NoCommand]
    /\ promised = [j \in Jobs |-> NotMuted]

\* Mutant of Selecting: commands run beside the loop.
SelectingAlways == ~stopped

\* The goroutine is at its select.
Selecting == ~stopped /\ starting = {}

-----------------------------------------------------------------------------
(* Builds.                                                                 *)

\* defaultNotifiers: the pairs of the last status of a job and its new one
\* that have a notification, and what it says.
Transitions ==
    ({"", "succeeded"} \X {"failed"})
        \cup ({"failed"} \X {"failed", "succeeded"})
        \cup ({"", "succeeded", "failed", "errored"} \X {"errored", "aborted"})

Title(old, new) ==
    CASE old = "failed" /\ new = "failed" -> "still failing"
      [] old = "failed" /\ new = "succeeded" -> "recovered"
      [] OTHER -> new

\* Mutant of UpdateHistory: a failure counts down.
UpdateHistoryDown(i, s, how) ==
    LET j == pipeline[i]
        h == history[j]
    IN  /\ history' = [history EXCEPT ![j] =
                [last |-> s,
                 failures |-> CASE s = "succeeded" -> 0
                                [] s = "failed" -> h.failures - 1
                                [] OTHER -> h.failures]]
        /\ handled' = [handled EXCEPT ![j] = Append(@,
                [id |-> i, status |-> s, how |-> how, count |-> h.failures])]

\* Mutant of UpdateHistory: only builds that are announced enter the history.
UpdateHistoryAnnounced(i, s, how) ==
    LET j == pipeline[i]
        h == history[j]
    IN  /\ history' = IF how \in {"answered", "not listed", "muted"} THEN history
                      ELSE [history EXCEPT ![j] =
                [last |-> s,
                 failures |-> CASE s = "succeeded" -> 0
                                [] s = "failed" -> h.failures + 1
                                [] OTHER -> h.failures]]
        /\ handled' = [handled EXCEPT ![j] = Append(@,
                [id |-> i, status |-> s, how |-> how, count |-> h.failures])]

\* The build i is received with status s; how says what became of it and
\* count is the number of failures a notification about it gives.  The history
\* is updated last, whatever was done with the build.
UpdateHistory(i, s, how) ==
    LET j == pipeline[i]
        h == history[j]
    IN  /\ history' = [history EXCEPT ![j] =
                [last |-> s,
                 failures |-> CASE s = "succeeded" -> 0
                                [] s = "failed" -> h.failures + 1
                                [] OTHER -> h.failures]]
        /\ handled' = [handled EXCEPT ![j] = Append(@,
                [id |-> i, status |-> s, how |-> how, count |-> h.failures])]

\* The build i of a job is received.
Received(i) ==
    /\ Selecting
    /\ pipeline[i] \in Jobs
    /\ Len(handled[pipeline[i]]) < MaxHandled

Listed(i, s) == <<history[pipeline[i]].last, s>> \in Transitions

\* Mutant of Muted: the comparison is the other way round.
MutedBefore(j) == muted[j] # NotMuted /\ muted[j] <= now

\* The mute of the job has not ended.
Muted(j) == now < muted[j]

\* Mutant of RespondToManual: the entry stays in the map.
RespondAndKeep(i, s) ==
    LET c == manuallyStarted[i] IN
    /\ Received(i)
    /\ c # NoCommand
    /\ replies' = [replies EXCEPT ![c] = Append(@, s)]
    /\ channel' = [channel EXCEPT ![c] = "closed"]
    /\ UpdateHistory(i, s, "answered")
    /\ UNCHANGED <<muted, manuallyStarted, starting, stopped, now, startedBy, promised>>

\* Mutant of RespondToManual: the channel is not closed.
RespondAndLeaveOpen(i, s) ==
    LET c == manuallyStarted[i] IN
    /\ Received(i)
    /\ c # NoCommand
    /\ replies' = [replies EXCEPT ![c] = Append(@, s)]
    /\ manuallyStarted' = [manuallyStarted EXCEPT ![i] = NoCommand]
    /\ UpdateHistory(i, s, "answered")
    /\ UNCHANGED <<muted, starting, stopped, now, channel, startedBy, promised>>

\* The build of a rerun: its status goes to the user who asked for it.
RespondToManual(i, s) ==
    LET c == manuallyStarted[i] IN
    /\ Received(i)
    /\ c # NoCommand
    /\ replies' = [replies EXCEPT ![c] = Append(@, s)]
    /\ channel' = [channel EXCEPT ![c] = "closed"]
    /\ manuallyStarted' = [manuallyStarted EXCEPT ![i] = NoCommand]
    /\ UpdateHistory(i, s, "answered")
    /\ UNCHANGED <<muted, starting, stopped, now, startedBy, promised>>

\* A mute that has ended is deleted by the first notification after it.  If
\* the chat refuses the notification, it is only logged.
Announce(i, s) ==
    LET j == pipeline[i] IN
    /\ Received(i)
    /\ manuallyStarted[i] = NoCommand
    /\ Listed(i, s)
    /\ ~Muted(j)
    /\ muted' = [muted EXCEPT ![j] = NotMuted]
    /\ \E how \in {Title(history[j].last, s), "refused"} : UpdateHistory(i, s, how)
    /\ UNCHANGED <<manuallyStarted, starting, stopped, now, channels, startedBy, promised>>

KeepQuiet(i, s) ==
    /\ Received(i)
    /\ manuallyStarted[i] = NoCommand
    /\ \/ ~Listed(i, s) /\ UpdateHistory(i, s, "not listed")
       \/ Listed(i, s) /\ Muted(pipeline[i]) /\ UpdateHistory(i, s, "muted")
    /\ UNCHANGED <<muted, manuallyStarted, starting, stopped, now, channels,
                   startedBy, promised>>

SkipOneOff(i) ==
    /\ Selecting
    /\ pipeline[i] \notin Jobs
    /\ UNCHANGED monitorVars

\* The status is the one the build was sent with; the table may say something
\* else by now.
HandleBuild(i, s) ==
    RespondToManual(i, s) \/ Announce(i, s) \/ KeepQuiet(i, s) \/ SkipOneOff(i)

-----------------------------------------------------------------------------
(* Commands for a job: replies to a notification about it.                 *)

\* Somebody saw a notification about the job.
Announced(j) ==
    \E k \in DOMAIN handled[j] :
        handled[j][k].how \notin {"answered", "refused", "not listed", "muted"}

Takes(c, j) ==
    /\ Selecting
    /\ channel[c] = "unsent"
    /\ Announced(j)

Answer(c, reply) ==
    /\ replies' = [replies EXCEPT ![c] = Append(@, reply)]
    /\ channel' = [channel EXCEPT ![c] = "closed"]

\* CreateJobBuild: the server begins to create the build nextId.
CommandRerun(c, j) ==
    /\ Takes(c, j)
    /\ BeginBuild(j)
    /\ starting' = {<<c, nextId>>}
    /\ channel' = [channel EXCEPT ![c] = "open"]
    /\ UNCHANGED <<maps, stopped, now, replies, observed>>

\* Mutant of RegisterRerun: the build does not get into the map.
RegisterNothing(c, i) ==
    /\ <<c, i>> \in starting
    /\ status[i] # "absent"
    /\ starting' = {}
    /\ replies' = [replies EXCEPT ![c] = Append(@, "rerunning")]
    /\ startedBy' = [startedBy EXCEPT ![i] = c]
    /\ UNCHANGED <<maps, stopped, now, channel, handled, promised>>

\* Mutant of RegisterRerun: the channel is closed at the return, as the other
\* handlers do.
RegisterAndClose(c, i) ==
    /\ <<c, i>> \in starting
    /\ status[i] # "absent"
    /\ starting' = {}
    /\ replies' = [replies EXCEPT ![c] = Append(@, "rerunning")]
    /\ channel' = [channel EXCEPT ![c] = "closed"]
    /\ manuallyStarted' = [manuallyStarted EXCEPT ![i] = c]
    /\ startedBy' = [startedBy EXCEPT ![i] = c]
    /\ UNCHANGED <<history, muted, stopped, now, handled, promised>>

\* The request comes back with the build, which is in the table by then, the
\* reply is read and the rest of commandRerun runs.
RegisterRerun(c, i) ==
    /\ <<c, i>> \in starting
    /\ status[i] # "absent"
    /\ starting' = {}
    /\ replies' = [replies EXCEPT ![c] = Append(@, "rerunning")]
    /\ manuallyStarted' = [manuallyStarted EXCEPT ![i] = c]
    /\ startedBy' = [startedBy EXCEPT ![i] = c]
    /\ UNCHANGED <<history, muted, stopped, now, channel, handled, promised>>

\* CreateJobBuild fails after the server began: the build may be there, may
\* still appear, or was rolled back.
RerunFails(c, i) ==
    /\ <<c, i>> \in starting
    /\ starting' = {}
    /\ Answer(c, "failed")
    /\ UNCHANGED <<maps, stopped, now, observed>>

\* CreateJobBuild fails before the server does anything.
CommandRerunFails(c, j) ==
    /\ Takes(c, j)
    /\ Answer(c, "failed")
    /\ UNCHANGED <<maps, starting, stopped, now, observed>>

CommandMute(c, j, duration) ==
    /\ Takes(c, j)
    /\ muted' = [muted EXCEPT ![j] = now + duration]
    /\ promised' = [promised EXCEPT ![j] = now + duration]
    /\ Answer(c, "muted")
    /\ UNCHANGED <<history, manuallyStarted, starting, stopped, now, handled, startedBy>>

CommandMuteInvalid(c, j) ==
    /\ Takes(c, j)
    /\ Answer(c, "invalid duration")
    /\ UNCHANGED <<maps, starting, stopped, now, observed>>

CommandUnmute(c, j) ==
    /\ Takes(c, j)
    /\ muted' = [muted EXCEPT ![j] = NotMuted]
    /\ promised' = [promised EXCEPT ![j] = NotMuted]
    /\ Answer(c, "unmuted")
    /\ UNCHANGED <<history, manuallyStarted, starting, stopped, now, handled, startedBy>>

\* The commands that leave the server as it is.
HandleLocalCommand(c, j) ==
    \/ CommandRerunFails(c, j)
    \/ \E duration \in Durations \cup {DefaultMute} : CommandMute(c, j, duration)
    \/ CommandMuteInvalid(c, j)
    \/ CommandUnmute(c, j)

-----------------------------------------------------------------------------

Tick ==
    /\ now < MaxNow
    /\ now' = now + 1
    /\ UNCHANGED <<maps, starting, stopped, channels, observed>>

\* run finds the stop channel closed.
Stop ==
    /\ Selecting
    /\ stopped' = TRUE
    /\ UNCHANGED <<maps, starting, now, channels, observed>>

-----------------------------------------------------------------------------
(* Properties.                                                             *)

Hows == {"answered", "refused", "not listed", "muted",
         "failed", "errored", "aborted", "still failing", "recovered"}

Replies == {"rerunning", "failed", "muted", "invalid duration", "unmuted"} \cup Statuses

\* Every variable holds a value of its type.
MonitorTypeOK ==
    /\ history \in [Jobs -> [last : {""} \cup Statuses, failures : Nat]]
    /\ muted \in [Jobs -> Nat \cup {NotMuted}]
    /\ manuallyStarted \in [Ids -> Commands \cup {NoCommand}]
    /\ starting \subseteq Commands \X Ids
    /\ stopped \in BOOLEAN
    /\ now \in Nat
    /\ channel \in [Commands -> {"unsent", "open", "closed"}]
    /\ replies \in [Commands -> Seq(Replies)]
    /\ handled \in [Jobs -> Seq([id : Ids, status : Statuses, how : Hows, count : Nat])]
    /\ startedBy \in [Ids -> Commands \cup {NoCommand}]
    /\ promised \in [Jobs -> Nat \cup {NotMuted}]

\* The failures among the first n builds of a log since the last success.
FailuresSince(log, n) ==
    Cardinality({k \in 1..n : /\ log[k].status = "failed"
                              /\ \A m \in k..n : log[m].status # "succeeded"})

\* The history of a job tells of every build that was received for it, the
\* ones that were answered, muted or refused included: a notification is
\* judged against what really came before.
HistoryIsComplete ==
    \A j \in Jobs :
        LET log == handled[j] IN
        /\ history[j].last = IF log = <<>> THEN "" ELSE log[Len(log)].status
        /\ history[j].failures = FailuresSince(log, Len(log))

\* The handlings of build i.
HandlingsOf(i) ==
    {h \in Jobs \X (1..MaxHandled) :
        h[2] <= Len(handled[h[1]]) /\ handled[h[1]][h[2]].id = i}

\* A rerun is answered once: by the first delivery of the build it created,
\* with the status that delivery had, and its channel is closed then and not
\* before; a build that is delivered again, be it with another status, finds
\* nobody to answer.  The build cannot slip through before it is in the map.
RerunAnsweredOnce ==
    \A i \in Ids : startedBy[i] # NoCommand =>
        LET c == startedBy[i] IN
        \/ /\ manuallyStarted[i] = c
           /\ HandlingsOf(i) = {}
           /\ channel[c] = "open"
           /\ replies[c] = <<"rerunning">>
        \/ /\ manuallyStarted[i] = NoCommand
           /\ channel[c] = "closed"
           /\ \E first \in HandlingsOf(i) :
                 /\ replies[c] = <<"rerunning", handled[first[1]][first[2]].status>>
                 /\ \A h \in HandlingsOf(i) :
                       /\ first[1] = h[1] /\ first[2] <= h[2]
                       /\ handled[h[1]][h[2]].how = "answered" <=> h = first

\* A responses channel stays open only for a rerun whose result is owed.
OpenMeansOwed ==
    \A c \in Commands : channel[c] = "open" =>
        \E i \in Ids : manuallyStarted[i] = c \/ <<c, i>> \in starting

R == INSTANCE Responses WITH
        Channels <- Commands,
        received <- [c \in Commands |-> Len(replies[c])],
        closed <- {c \in Commands : channel[c] = "closed"}

\* Also when the result of a rerun comes long after the handler of its command
\* has returned, and with the builds of others in between, the channel of a
\* command carries one answer or two, is closed once at most, and nothing is
\* sent into it after that.
ImplementsResponses == R!ResponsesSpec

\* Until the time its user was told, or until an unmute, a job that was muted
\* is not announced.
MutedMeansSilent ==
    [][\A j \in Jobs : Len(handled'[j]) > Len(handled[j]) /\ now < promised[j] =>
            handled'[j][Len(handled'[j])].how \in {"answered", "not listed", "muted"}
      ]_handled

\* A build that failed is announced, unless the job is muted or the build is
\* the answer to a rerun; so is the success of a job that failed at least once
\* since the last one (the transitions README.md lists, against the table of
\* defaultNotifiers).
TransitionsAnnounced ==
    \A j \in Jobs : \A k \in DOMAIN handled[j] :
        \/ handled[j][k].status = "failed"
        \/ handled[j][k].status = "succeeded" /\ FailuresSince(handled[j], k - 1) > 0
        => handled[j][k].how # "not listed"

\* A job that is still failing has failed as many times in a row as the
\* announcement says.
StillFailingCountsRun ==
    \A j \in Jobs : \A k \in DOMAIN handled[j] :
        LET log == handled[j] IN
        log[k].how = "still failing" =>
            log[k].count = Cardinality({m \in 1..k : \A l \in m..k : log[l].status = "failed"})
=============================================================================
