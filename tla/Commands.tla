------------------------------ MODULE Commands ------------------------------
(***************************************************************************)
(* The talk between the goroutine of Monitor.run and the goroutines that   *)
(* the chats start for commands (run of either Notifier), one per command: *)
(* it sends the command into the channel all of them share, and posts each *)
(* answer it receives from a channel of its own until that is closed.      *)
(*                                                                         *)
(* Both channels are unbuffered.  The monitor takes one command at a time, *)
(* and a handler blocks in each answer until the responder has posted the  *)
(* one before; what it asks of the Concourse server may fail, and others   *)
(* pause, unpause, create and destroy pipelines beside it.                 *)
(***************************************************************************)
EXTENDS Naturals, Sequences

CONSTANTS
    Ids,        \* the commands users write
    Targets,    \* jobs and pipelines
    NoTarget,   \* the name of a pipeline is missing
    Nobody

ASSUME CommandsAssumption == NoTarget \notin Targets /\ Nobody \notin Ids

\* What a command asks for, whether it is a reply, a mention or a direct
\* message.  The answers to mute and unmute come as the one to help does; what
\* they change is part of Monitor.
Requests ==
    [name : {"pause", "play"}, target : Targets \cup {NoTarget}]
        \cup [name : {"pipelines", "help", "rerun", "unknown"}, target : {NoTarget}]

VARIABLES
    request,    \* the request of each command
    responder,  \* where the responder of each command is
    closed,     \* commands whose responses channel is closed
    serving,    \* the command the monitor is in a handler for
    left,       \* the answers the handler has still to send
    then,       \* what it does after the last of them
    owed,       \* reruns whose build has not come yet (manuallyStarted)
    stopped,    \* run has returned
    state,      \* the state of each target on the server
    told        \* history: of each command, the answers its responder received,
                \* each with the state the server had when it was worked out

responders == <<request, responder>>
monitor == <<serving, left, then, owed, stopped>>
vars == <<responders, closed, monitor, state, told>>

States == {"paused", "unpaused", "missing"}

Init ==
    /\ request \in [Ids -> Requests]
    /\ responder = [c \in Ids |-> "idle"]
    /\ closed = {}
    /\ serving = Nobody
    /\ left = <<>>
    /\ then = "close"
    /\ owed = {}
    /\ stopped = FALSE
    /\ state \in [Targets -> States]
    /\ told = [c \in Ids |-> <<>>]

-----------------------------------------------------------------------------
(* Responders.                                                             *)

\* Somebody writes a command; a goroutine is started for it.
Write(c) ==
    /\ responder[c] = "idle"
    /\ responder' = [responder EXCEPT ![c] = "sending"]
    /\ UNCHANGED <<request, closed, monitor, state, told>>

\* The answer is posted; if the chat refuses it, that is only logged.
Post(c) ==
    /\ responder[c] = "posting"
    /\ responder' = [responder EXCEPT ![c] = "listening"]
    /\ UNCHANGED <<request, closed, monitor, state, told>>

\* The range over the responses ends.
End(c) ==
    /\ responder[c] = "listening"
    /\ c \in closed
    /\ responder' = [responder EXCEPT ![c] = "done"]
    /\ UNCHANGED <<request, closed, monitor, state, told>>

-----------------------------------------------------------------------------
(* The monitor.                                                            *)

Selecting == serving = Nobody /\ ~stopped

\* The select receives command c, whose handler sends the answers and then
\* closes the channel, or does not.
Handle(c, answers, next) ==
    /\ Selecting
    /\ responder[c] = "sending"
    /\ responder' = [responder EXCEPT ![c] = "listening"]
    /\ serving' = c
    /\ left' = answers
    /\ then' = next
    /\ UNCHANGED <<request, closed, owed, stopped, told>>

Answer(text) == [text |-> text, was |-> "none"]

\* An answer about t, with the state of t the server was left in.
AnswerOn(text, t) == [text |-> text, was |-> state'[t]]

\* What the server makes of a request to put t into a state: it answers that
\* it did so, also when t was in it already; or that there is no t; or the
\* request fails, before or after it took effect.
Accepts(t, s) == state[t] # "missing" /\ state' = [state EXCEPT ![t] = s]

\* The client of newConcourseClient asks for a token of the team first, with the
\* user's password, whenever it makes a request; without one it makes none.
NoToken == UNCHANGED state

Fails(t, s) == NoToken \/ Accepts(t, s)

\* Handle a pause or a play that puts t into state s.  After a failure the
\* handler goes on, and ok is false.
Set(c, t, s) ==
    \/ Accepts(t, s) /\ Handle(c, <<AnswerOn("now", t)>>, "close")
    \/ /\ state[t] = "missing"
       /\ UNCHANGED state
       /\ Handle(c, <<AnswerOn("already", t)>>, "close")
    \/ /\ Fails(t, s)
       /\ Handle(c, <<AnswerOn("failed", t), AnswerOn("already", t)>>, "close")

CommandPause(c) ==
    /\ request[c].name = "pause"
    /\ request[c].target \in Targets
    /\ Set(c, request[c].target, "paused")

CommandPlay(c) ==
    /\ request[c].name = "play"
    /\ request[c].target \in Targets
    /\ Set(c, request[c].target, "unpaused")

CommandMissingName(c) ==
    /\ request[c].name \in {"pause", "play"}
    /\ request[c].target = NoTarget
    /\ Handle(c, <<Answer("missing name")>>, "close")
    /\ UNCHANGED state

\* The pipelines of the pilot's team, if the server lists them.
ListPipelines == {"listing failed", "list"}

CommandPipelines(c) ==
    /\ request[c].name = "pipelines"
    /\ \E text \in ListPipelines : Handle(c, <<Answer(text)>>, "close")
    /\ UNCHANGED state

CommandHelp(c) ==
    /\ request[c].name = "help"
    /\ Handle(c, <<Answer("usage")>>, "close")
    /\ UNCHANGED state

CommandRerun(c) ==
    /\ request[c].name = "rerun"
    /\ \/ Handle(c, <<Answer("rerunning")>>, "owe")
       \/ Handle(c, <<Answer("running failed")>>, "close")
    /\ UNCHANGED state

\* The channel is not closed.
CommandUnknown(c) ==
    /\ request[c].name = "unknown"
    /\ Handle(c, <<Answer("unknown command")>>, "leave")
    /\ UNCHANGED state

HandleCommand(c) ==
    \/ CommandPause(c)
    \/ CommandPlay(c)
    \/ CommandMissingName(c)
    \/ CommandPipelines(c)
    \/ CommandHelp(c)
    \/ CommandRerun(c)
    \/ CommandUnknown(c)

\* Mutant of HandleBuild: the entry stays in the map.
HandleBuildKept(c) ==
    /\ Selecting
    /\ c \in owed
    /\ serving' = c
    /\ left' = <<Answer("status")>>
    /\ then' = "close"
    /\ UNCHANGED <<responders, closed, owed, stopped, state, told>>

\* The build of a rerun comes: its status is one more answer.  The entry is
\* deleted after it; nobody looks at the map in between.
HandleBuild(c) ==
    /\ Selecting
    /\ c \in owed
    /\ serving' = c
    /\ left' = <<Answer("status")>>
    /\ then' = "close"
    /\ owed' = owed \ {c}
    /\ UNCHANGED <<responders, closed, stopped, state, told>>

\* The rendezvous on the responses channel.
Say(c) ==
    /\ serving = c
    /\ left # <<>>
    /\ responder[c] = "listening"
    /\ responder' = [responder EXCEPT ![c] = "posting"]
    /\ told' = [told EXCEPT ![c] = Append(@, Head(left))]
    /\ left' = Tail(left)
    /\ UNCHANGED <<request, closed, serving, then, owed, stopped, state>>

\* Mutant of Finish: the handler returns before it has sent everything.
FinishEarly(c) ==
    /\ serving = c
    /\ serving' = Nobody
    /\ closed' = IF then = "close" THEN closed \cup {c} ELSE closed
    /\ owed' = IF then = "owe" THEN owed \cup {c} ELSE owed
    /\ UNCHANGED <<responders, left, then, stopped, state, told>>

\* Mutant of Finish: the channel is never closed.
FinishOpen(c) ==
    /\ serving = c
    /\ left = <<>>
    /\ serving' = Nobody
    /\ owed' = IF then = "owe" THEN owed \cup {c} ELSE owed
    /\ UNCHANGED <<responders, closed, left, then, stopped, state, told>>

\* The handler returns.
Finish(c) ==
    /\ serving = c
    /\ left = <<>>
    /\ serving' = Nobody
    /\ closed' = IF then = "close" THEN closed \cup {c} ELSE closed
    /\ owed' = IF then = "owe" THEN owed \cup {c} ELSE owed
    /\ UNCHANGED <<responders, left, then, stopped, state, told>>

Stop ==
    /\ Selecting
    /\ stopped' = TRUE
    /\ UNCHANGED <<responders, closed, serving, left, then, owed, state, told>>

\* Other people: t is paused, unpaused, created or destroyed.
SomebodyElse(t) ==
    /\ \E s \in States \ {state[t]} : state' = [state EXCEPT ![t] = s]
    /\ UNCHANGED <<responders, closed, monitor, told>>

Next ==
    \/ \E c \in Ids : Write(c) \/ Post(c) \/ End(c)
    \/ \E c \in Ids : HandleCommand(c) \/ HandleBuild(c) \/ Say(c) \/ Finish(c)
    \/ Stop
    \/ \E t \in Targets : SomebodyElse(t)

Spec == Init /\ [][Next]_vars

\* The goroutines are scheduled, posts and requests come to an end, builds of
\* reruns come, and a goroutine that waits for a select is not passed over
\* for ever: senders on a channel wait in line, and a select picks at random.
Fairness ==
    \A c \in Ids :
        /\ WF_vars(Post(c))
        /\ WF_vars(End(c))
        /\ WF_vars(Say(c))
        /\ WF_vars(Finish(c))
        /\ SF_vars(HandleCommand(c))
        /\ SF_vars(HandleBuild(c))

FairSpec == Spec /\ Fairness

-----------------------------------------------------------------------------
(* Properties.                                                             *)

R == INSTANCE Responses WITH Channels <- Ids, received <- [c \in Ids |-> Len(told[c])]

\* Whatever is asked, in whatever order, and whatever the server makes of it:
\* the channel of each command carries one answer or two and is closed once at
\* most, after the last of them.
ImplementsResponses == R!ResponsesSpec

Texts == {"now", "already", "failed", "missing name", "listing failed", "list",
          "usage", "rerunning", "running failed", "unknown command", "status"}

Answers == [text : Texts, was : States \cup {"none"}]

\* Every variable holds a value of its type, and between two handlers no
\* answer is left to be sent.
TypeOK ==
    /\ request \in [Ids -> Requests]
    /\ responder \in [Ids -> {"idle", "sending", "listening", "posting", "done"}]
    /\ closed \subseteq Ids
    /\ serving \in Ids \cup {Nobody}
    /\ left \in Seq(Answers)
    /\ serving = Nobody => left = <<>>
    /\ then \in {"close", "owe", "leave"}
    /\ owed \subseteq Ids
    /\ stopped \in BOOLEAN
    /\ state \in [Targets -> States]
    /\ told \in [Ids -> Seq(Answers)]

\* The responder of c waits for answers or posts one.
Hears(c) == responder[c] \in {"listening", "posting"}

\* The monitor never blocks in an answer nobody will take, and never sends on
\* or closes a closed channel, which would panic: whoever it is in a handler
\* for, and every rerun it still owes a result, has an open channel and a
\* responder at the other end.
AnswersAreHeard ==
    \A c \in Ids : serving = c \/ c \in owed => Hears(c) /\ c \notin closed

\* A responder that waits on an open channel is being served, is owed the
\* result of a rerun, or its command was unknown: no other one is left behind.
OnlyUnknownLeftOpen ==
    \A c \in Ids : Hears(c) /\ c \notin closed =>
        serving = c \/ c \in owed \/ request[c].name = "unknown"

\* Every command is answered to its end unless the monitor is stopped or the
\* command is unknown: the monitor, which blocks in each answer, always comes
\* back to its select, and no command is kept waiting by the others for ever.
EveryCommandEnds ==
    \A c \in Ids :
        responder[c] = "sending"
            ~> (responder[c] = "done" \/ stopped \/ (request[c].name = "unknown" /\ Hears(c)))

\* Who is told that a job or a pipeline is already paused, or already
\* unpaused, is told so of one that is.
AlreadyMeansState ==
    \A c \in Ids : \A k \in DOMAIN told[c] :
        told[c][k].text = "already" =>
            told[c][k].was = (IF request[c].name = "pause" THEN "paused" ELSE "unpaused")
=============================================================================
