------------------------------ MODULE Messenger ------------------------------
(***************************************************************************)
(* What the two chats have in common.  Notify, called by the monitor,      *)
(* posts a notification and then writes it into a map; the goroutine that  *)
(* handles the messages of users looks replies up in that map, and neither *)
(* of them takes a lock.  Each command gets a goroutine of its own, which  *)
(* hands it to the monitor and posts the answers.  The monitor is one      *)
(* goroutine: it takes no command while it is in Notify.                   *)
(*                                                                         *)
(* The notification a reply is about stands for its callback id or post id *)
(* too, and one answer for all answers to a command.                       *)
(***************************************************************************)
EXTENDS Naturals, Sequences

CONSTANTS
    MaxNotified,    \* bound on the notifications
    MaxWritten      \* bound on the messages

\* The notifications the server took, by their order.
Notifications == 1..MaxNotified

NoParent == 0       \* of a message that is no reply to a notification

VARIABLES
    written,    \* all messages but the notifications, oldest first
    posted,     \* the notifications the server of the chat has
    known,      \* the map: callbacks of one chat, posts of the other
    notifying,  \* where Notify is, and with what
    commands,   \* the commands made so far and where their goroutines are
    crashed     \* what brought the process down, if anything did

messengerVars == <<written, posted, known, notifying, commands, crashed>>

Idle == [at |-> "idle", n |-> NoParent]

Message ==
    [author : {"user", "bot"}, place : {"channel", "direct", "elsewhere"},
     parent : Notifications \cup {NoParent}, mention : BOOLEAN]

\* What users write: replies to what they can see, in the bot's channel, and
\* elsewhere only what mentions the bot.  A mention may be all there is to say
\* to the bot in its channel; a user alone with it needs none.
UserMessage ==
    {m \in Message :
        /\ m.author = "user"
        /\ m.parent # NoParent => m.parent \in posted /\ m.place = "channel"
        /\ m.place # "channel" => (m.mention <=> m.place = "elsewhere")}

MessengerInit ==
    /\ written = <<>>
    /\ posted = {}
    /\ known = {}
    /\ notifying = Idle
    /\ commands = <<>>
    /\ crashed = "no"

Speak(m) ==
    /\ Len(written) < MaxWritten
    /\ written' = Append(written, m)
    /\ UNCHANGED <<posted, known, notifying, crashed>>

-----------------------------------------------------------------------------
(* Notify.                                                                 *)

\* Mutant of PostNotification: what the server refuses is stored as well.
PostOrRefuse(n) ==
    /\ notifying.at = "idle"
    /\ posted = 1..(n - 1)
    /\ posted' \in {posted, posted \cup {n}}
    /\ notifying' = [at |-> "posted", n |-> n]
    /\ UNCHANGED <<written, known, commands, crashed>>

\* The server takes the notification and says so.  One that it refuses changes
\* nothing.
PostNotification(n) ==
    /\ notifying.at = "idle"
    /\ posted = 1..(n - 1)
    /\ posted' = posted \cup {n}
    /\ notifying' = [at |-> "posted", n |-> n]
    /\ UNCHANGED <<written, known, commands, crashed>>

\* The server takes it, but what it answers is lost: Notify returns the error
\* and stores nothing.
PostUnanswered(n) ==
    /\ notifying.at = "idle"
    /\ posted = 1..(n - 1)
    /\ posted' = posted \cup {n}
    /\ UNCHANGED <<written, known, notifying, commands, crashed>>

BeginStore ==
    /\ notifying.at = "posted"
    /\ notifying' = [notifying EXCEPT !.at = "storing"]
    /\ UNCHANGED <<written, posted, known, commands, crashed>>

EndStore ==
    /\ notifying.at = "storing"
    /\ known' = known \cup {notifying.n}
    /\ notifying' = Idle
    /\ UNCHANGED <<written, posted, commands, crashed>>

-----------------------------------------------------------------------------
(* Steps of the goroutine that handles messages.                           *)

Nothing == UNCHANGED messengerVars

\* run: the i-th message is a command about job.
Run(i, job) ==
    /\ commands' = Append(commands, [msg |-> i, job |-> job, at |-> "waiting"])
    /\ UNCHANGED <<written, posted, known, notifying, crashed>>

Crash(why) ==
    /\ crashed' = why
    /\ UNCHANGED <<written, posted, known, notifying, commands>>

\* Mutant of Lookup: only the last notification is kept.
LookupLast(n) == IF n \in known /\ n + 1 \notin known THEN {"found"} ELSE {"missing"}

\* What may come out when the map is asked for n.  If it is written at that
\* moment, the runtime may notice and end the process, or the entry is found
\* or is not.
Lookup(n) ==
    IF notifying.at = "storing"
    THEN {"missing", "fatal"} \cup {o \in {"found"} : n \in known \cup {notifying.n}}
    ELSE IF n \in known THEN {"found"} ELSE {"missing"}

-----------------------------------------------------------------------------
(* The goroutine of the k-th command.                                      *)

\* Mutant of Take: one command after the other has been answered.
TakeWhenAnswered(k) ==
    /\ notifying.at = "idle"
    /\ commands[k].at = "waiting"
    /\ \A j \in DOMAIN commands : commands[j].at # "taken"
    /\ commands' = [commands EXCEPT ![k].at = "taken"]
    /\ UNCHANGED <<written, posted, known, notifying, crashed>>

\* The monitor takes it.
Take(k) ==
    /\ notifying.at = "idle"
    /\ commands[k].at = "waiting"
    /\ commands' = [commands EXCEPT ![k].at = "taken"]
    /\ UNCHANGED <<written, posted, known, notifying, crashed>>

\* It posts the monitor's answer, a message like any other.
Answer(k, m) ==
    /\ commands[k].at = "taken"
    /\ commands' = [commands EXCEPT ![k].at = "answered"]
    /\ Speak(m)

-----------------------------------------------------------------------------

MessengerTypeOK ==
    /\ written \in Seq(Message)
    /\ posted \subseteq Notifications
    /\ known \subseteq posted
    /\ notifying \in [at : {"posted", "storing"}, n : posted] \cup {Idle}
    /\ commands \in Seq([msg : DOMAIN written, job : posted \cup {NoParent},
                         at : {"waiting", "taken", "answered"}])
    /\ crashed \in {"no", "race", "self", "data", "json", "empty"}

\* The i-th message has become a command.
IsCommand(i) == \E k \in DOMAIN commands : commands[k].msg = i
=============================================================================
