-------------------------------- MODULE Slack --------------------------------
(***************************************************************************)
(* slacker.Notifier.  The client of the vendored library keeps a           *)
(* connection to Slack, sets it up again when it is lost, and gives up     *)
(* only when the token is refused.  Its events wait in a channel for the   *)
(* goroutine that Commands starts.  A reply in a thread is announced       *)
(* twice: as a message, and as a message_replied of the thread that names  *)
(* the reply by its author and time; no order of the two is promised.      *)
(***************************************************************************)
EXTENDS Messenger

CONSTANT
    Garbage     \* what else may come: "empty", a thread without replies

VARIABLES
    link,       \* to the server: "off", "up", "lost" or "refused"
    events,     \* what waits for the goroutine
    selfID,     \* whether the bot's own id is known
    messages    \* the messages kept because a message_replied may follow

slackVars == <<messengerVars, link, events, selfID, messages>>

SlackInit ==
    /\ MessengerInit
    /\ link = "off"
    /\ events = <<>>
    /\ selfID = FALSE
    /\ messages = {}

Event(kind, i) == [kind |-> kind, msg |-> i]

-----------------------------------------------------------------------------
(* The connection.                                                         *)

\* For a bound, when no event is waiting.
Connect ==
    /\ link \in {"off", "lost"}
    /\ events = <<>>
    /\ link' = "up"
    /\ events' = <<Event("connected", 0)>>
    /\ UNCHANGED <<messengerVars, selfID, messages>>

Refuse ==
    /\ link \in {"off", "lost"}
    /\ link' = "refused"
    /\ UNCHANGED <<messengerVars, events, selfID, messages>>

Lose ==
    /\ link = "up"
    /\ link' = "lost"
    /\ UNCHANGED <<messengerVars, events, selfID, messages>>

\* The events of a message that is written now; without a connection they
\* are lost.
Tell(m) ==
    LET i == Len(written) + 1
        plain == Event("message", i)
        replied == Event("message_replied", i)
    IN  events' \in {events \o told : told \in
            IF link # "up" THEN {<<>>}
            ELSE IF m.parent = NoParent THEN {<<plain>>}
            ELSE {<<plain, replied>>, <<replied, plain>>}}

UserWrites(m) ==
    /\ m \in UserMessage
    /\ Speak(m)
    /\ Tell(m)
    /\ UNCHANGED <<commands, link, selfID, messages>>

\* replyToIM, replyToThread: the thread of a reply, also of one that mentions
\* the bot, is that of the notification.
AnswerInPlace(k) ==
    LET m == written[commands[k].msg]
        answer == [m EXCEPT !.author = "bot", !.mention = FALSE]
    IN  /\ Answer(k, answer)
        /\ Tell(answer)
        /\ UNCHANGED <<link, selfID, messages>>

\* For a bound, when no event is waiting.
Disturb ==
    /\ "empty" \in Garbage
    /\ link = "up"
    /\ events = <<>>
    /\ events' = <<Event("empty", 0)>>
    /\ UNCHANGED <<messengerVars, link, selfID, messages>>

Notify(n) ==
    /\ PostNotification(n) \/ PostUnanswered(n)
    /\ UNCHANGED <<link, events, selfID, messages>>

-----------------------------------------------------------------------------
(* The goroutine of Commands: one event after the other.                   *)

Next(kind) ==
    /\ events # <<>>
    /\ Head(events).kind = kind
    /\ events' = Tail(events)
    /\ UNCHANGED link

HandleConnected ==
    /\ Next("connected")
    /\ selfID' = TRUE
    /\ Nothing
    /\ UNCHANGED messages

Mentions(m) == m.place = "channel" /\ m.mention /\ selfID

\* The list of conversations, if it can be read, has the channel of m.
IsIM(m) == m.place = "direct"

HandleDirectMessage ==
    LET i == Head(events).msg IN
    /\ Next("message")
    /\ IsIM(written[i])
    /\ written[i].author = "user"
    /\ Run(i, NoParent)
    /\ UNCHANGED <<selfID, messages>>

\* Messages of other channels, the bot's own words to a user, and messages to
\* the bot for which the list of conversations could not be read.
Ignore ==
    /\ Next("message")
    /\ written[Head(events).msg].place # "channel"
    /\ Nothing
    /\ UNCHANGED <<selfID, messages>>

\* A mention may have no command after it.
HandleMention ==
    LET i == Head(events).msg IN
    /\ Next("message")
    /\ Mentions(written[i])
    /\ Run(i, NoParent) \/ Nothing
    /\ UNCHANGED <<selfID, messages>>

Keep ==
    LET i == Head(events).msg IN
    /\ Next("message")
    /\ written[i].place = "channel"
    /\ ~Mentions(written[i])
    /\ messages' = messages \cup {i}
    /\ Nothing
    /\ UNCHANGED selfID

\* Mutant of Kept: the key is the time only.
KeptAtThatTime(i) == i \in messages

\* The key is author and time.  What the bot posts is kept without an author,
\* while the thread names the bot.
Kept(i) == i \in messages /\ written[i].author = "user"

HandleReply ==
    LET i == Head(events).msg IN
    /\ Next("message_replied")
    /\ Kept(i)
    /\ \/ "found" \in Lookup(written[i].parent) /\ Run(i, written[i].parent)
       \/ "missing" \in Lookup(written[i].parent) /\ Nothing
       \/ "fatal" \in Lookup(written[i].parent) /\ Crash("race")
    /\ UNCHANGED <<selfID, messages>>

IgnoreReply ==
    /\ Next("message_replied")
    /\ ~Kept(Head(events).msg)
    /\ Nothing
    /\ UNCHANGED <<selfID, messages>>

\* The last reply of a message_replied that has none is read all the same.
HandleNoReply ==
    /\ Next("empty")
    /\ Crash("empty")
    /\ UNCHANGED <<selfID, messages>>

Handle ==
    \/ HandleConnected
    \/ HandleDirectMessage
    \/ Ignore
    \/ HandleMention
    \/ Keep
    \/ HandleReply
    \/ IgnoreReply
    \/ HandleNoReply

-----------------------------------------------------------------------------

SlackTypeOK ==
    /\ MessengerTypeOK
    /\ link \in {"off", "up", "lost", "refused"}
    /\ events \in Seq([kind : {"connected", "message", "message_replied", "empty"},
                       msg : {0} \cup DOMAIN written])
    /\ selfID \in BOOLEAN
    /\ messages \subseteq DOMAIN written

\* The events of a reply are on their way, in the order that is understood, and
\* its notification is in the map.
ReplyIsDue(i) ==
    /\ i \in DOMAIN written
    /\ written[i].author = "user"
    /\ ~(written[i].mention /\ selfID)
    /\ written[i].parent \in known
    /\ i \in messages
    /\ \E e \in DOMAIN events : events[e] = Event("message_replied", i)
=============================================================================
