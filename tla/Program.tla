------------------------------- MODULE Program -------------------------------
(***************************************************************************)
(* main: the flags choose a chat, the monitor is made with it and started, *)
(* and a signal ends the program, whatever its goroutines do.  Of the      *)
(* monitor this module has what the chat sees: it notifies, it takes       *)
(* commands, and it answers them.                                          *)
(***************************************************************************)
EXTENDS Naturals, Sequences

CONSTANTS MaxNotified, MaxWritten, Garbage

ASSUME ProgramAssumption ==
    /\ MaxNotified \in Nat
    /\ MaxWritten \in Nat
    /\ Garbage \subseteq {"other", "data", "json", "empty"}

VARIABLES
    \* of both chats
    written, posted, known, notifying, commands, crashed, link, events,
    \* of Slack
    selfID, messages,
    \* of Mattermost
    setUp, renamed,
    \* of main
    chat,       \* "slack" or "mattermost", or "none" at first
    phase       \* "starting", "running", "panicked" or "exited"

S == INSTANCE Slack
M == INSTANCE Mattermost

slackOnly == <<selfID, messages>>
mattermostOnly == <<setUp, renamed>>
bothChats == <<written, posted, known, notifying, commands, crashed, link, events>>
programVars == <<bothChats, slackOnly, mattermostOnly, chat, phase>>

Init ==
    /\ chat = "none"
    /\ phase = "starting"
    /\ S!SlackInit
    /\ M!MattermostInit

\* chatFromFlags, with the chats that have a token: the last one in the code.
ChatFromFlags(tokens) ==
    IF "mattermost" \in tokens THEN "mattermost"
    ELSE IF "slack" \in tokens THEN "slack"
    ELSE "none"

\* NewMonitor asks the chat for its commands; without a chat that is a panic.
Start ==
    /\ phase = "starting"
    /\ \E tokens \in SUBSET {"slack", "mattermost"} : chat' = ChatFromFlags(tokens)
    /\ phase' = IF chat' = "none" THEN "panicked" ELSE "running"
    /\ UNCHANGED <<bothChats, slackOnly, mattermostOnly>>

\* A signal: Stop, and the end of main.  What the process had in memory is lost.
Exit ==
    /\ phase = "running"
    /\ crashed = "no"
    /\ phase' = "exited"
    /\ known' = {}
    /\ notifying' = S!Idle
    /\ link' = "off"
    /\ events' = <<>>
    /\ messages' = {}
    /\ UNCHANGED <<written, posted, commands, crashed, selfID, mattermostOnly, chat>>

Alive == phase = "running" /\ crashed = "no"

Slack == Alive /\ chat = "slack" /\ UNCHANGED <<mattermostOnly, chat, phase>>
Mattermost == Alive /\ chat = "mattermost" /\ UNCHANGED <<slackOnly, chat, phase>>

\* What the monitor, or a goroutine of a command, does with the chat.
Shared == Alive /\ UNCHANGED <<link, events, slackOnly, mattermostOnly, chat, phase>>

BeginStore == Shared /\ S!BeginStore
EndStore == Shared /\ S!EndStore
Take == Shared /\ \E k \in DOMAIN commands : S!Take(k)

SlackNotify == Slack /\ \E n \in S!Notifications : S!Notify(n)
SlackConnect == Slack /\ S!Connect
SlackRefuse == Slack /\ S!Refuse
SlackLose == Slack /\ S!Lose
SlackDisturb == Slack /\ S!Disturb
SlackWrites == Slack /\ \E m \in S!UserMessage : S!UserWrites(m)
SlackAnswer == Slack /\ \E k \in DOMAIN commands : S!AnswerInPlace(k)
SlackHandle == Slack /\ S!Handle

MattermostNotify == Mattermost /\ \E n \in M!Notifications : M!Notify(n)
MattermostConnect == Mattermost /\ (M!Connect \/ M!ConnectFails)
MattermostLose == Mattermost /\ M!Lose
MattermostRetry == Mattermost /\ M!Retry
MattermostLeave == Mattermost /\ M!Leave
MattermostWrites == Mattermost /\ \E m \in M!UserMessage : M!UserWrites(m)
MattermostDisturb == Mattermost /\ \E kind \in Garbage : M!Disturb(kind)
MattermostAnswer == Mattermost /\ \E k \in DOMAIN commands : M!AnswerInPlace(k)
MattermostHandle == Mattermost /\ M!Handle

ProgramNext ==
    \/ Start \/ Exit
    \/ BeginStore \/ EndStore \/ Take
    \/ SlackNotify \/ SlackConnect \/ SlackRefuse \/ SlackLose
    \/ SlackWrites \/ SlackDisturb \/ SlackAnswer \/ SlackHandle
    \/ MattermostNotify \/ MattermostConnect \/ MattermostLose
    \/ MattermostRetry \/ MattermostLeave
    \/ MattermostWrites \/ MattermostDisturb \/ MattermostAnswer \/ MattermostHandle

ProgramSpec == Init /\ [][ProgramNext]_programVars

\* Every goroutine runs, and an attempt to connect succeeds or fails at some
\* time: Notify in the monitor, the goroutines of the commands, the one of
\* Commands (in Mattermost it also connects), and the client of Slack.
ProgramFairness ==
    /\ WF_programVars(BeginStore \/ EndStore)
    /\ WF_programVars(Take)
    /\ WF_programVars(\/ SlackHandle
                      \/ MattermostHandle \/ MattermostConnect
                      \/ MattermostRetry \/ MattermostLeave)
    /\ WF_programVars(SlackConnect \/ SlackRefuse)

ProgramFairSpec == ProgramSpec /\ ProgramFairness

-----------------------------------------------------------------------------
(* Properties.                                                             *)

\* Every variable has its type, and the variables of the chat that was not
\* chosen stay as they were.
TypeOK ==
    /\ chat \in {"slack", "mattermost", "none"}
    /\ phase \in {"starting", "running", "panicked", "exited"}
    /\ chat = "slack" => S!SlackTypeOK
    /\ chat = "mattermost" => M!MattermostTypeOK /\ ~selfID /\ messages = {}
    /\ chat = "none" => phase \in {"starting", "panicked"}

C == INSTANCE Chat WITH
        Notifications <- S!Notifications,
        NoParent <- S!NoParent,
        said <- written,
        obeyed <- [k \in DOMAIN commands |-> [msg |-> commands[k].msg, job |-> commands[k].job]]

\* Both chats keep the promise of Chat: handleMessageEvent and handlePost make
\* a command of a message of a user at most once, whatever the order, the loss
\* and the echo of events, and never mistake the job a reply is about.
ImplementsChat == C!ChatSpec

ReplyIsDue(i) ==
    \/ chat = "slack" /\ S!ReplyIsDue(i)
    \/ chat = "mattermost" /\ setUp /\ M!ReplyIsDue(i)

\* A reply to a notification that Notify has stored, whose events are with the
\* bot in the right order, becomes a command, unless it is looked up during a
\* write of the map, or the process ends: handleReplyMessage and handlePost
\* lose no other.
RepliesAreRun ==
    [][\A i \in DOMAIN written :
          ReplyIsDue(i) =>
              ReplyIsDue(i)' \/ S!IsCommand(i)' \/ notifying.at = "storing" \/ ~Alive']_programVars

\* No reply waits for ever to be looked up, and no command to be taken.
NobodyWaits ==
    []<>(\/ ~Alive
         \/ /\ \A i \in DOMAIN written : ~ReplyIsDue(i)
            /\ \A k \in DOMAIN commands : commands[k].at # "waiting")

\* A connection that breaks is set up again, or an attempt to do so is refused:
\* the bot does not go deaf on its own.
KeepsListening == link = "lost" ~> (~Alive \/ link \in {"up", "refused"})

\* An event without a post is reported and skipped: it does not end the process
\* (the branch of Commands that logs get-post-data.fail and continues).
BadPostIsSkipped == crashed # "data"
=============================================================================
