-------------------------------- MODULE Chat --------------------------------
(***************************************************************************)
(* What a chat promises to the monitor, whichever it is: commands come     *)
(* from messages of users, at most one from each, never from what the bot  *)
(* says itself; a command about a job comes from a reply to a notification *)
(* of that job that was posted, and every other one from a message that    *)
(* was meant for the bot.  Messages may be missed.                         *)
(***************************************************************************)
EXTENDS Naturals, Sequences

CONSTANTS
    Notifications,
    NoParent        \* of a message that is no reply to a notification

VARIABLES
    said,           \* all messages but the notifications, oldest first
    posted,         \* the notifications users can see
    obeyed          \* the commands made of messages, in the order of making

chatVars == <<said, posted, obeyed>>

\* A message mentions the bot or not, and is written in the bot's channel, in
\* a conversation with the bot alone, or elsewhere.
Message ==
    [author : {"user", "bot"}, place : {"channel", "direct", "elsewhere"},
     parent : Notifications \cup {NoParent}, mention : BOOLEAN]

ChatInit == said = <<>> /\ posted = {} /\ obeyed = <<>>

Say(m) == said' = Append(said, m) /\ UNCHANGED <<posted, obeyed>>

Post(n) == posted' = posted \cup {n} /\ UNCHANGED <<said, obeyed>>

\* The i-th message becomes a command about job, or about none.
Obey(i, job) ==
    /\ said[i].author = "user"
    /\ \A k \in DOMAIN obeyed : obeyed[k].msg # i
    /\ IF job = NoParent
       THEN said[i].mention \/ said[i].place = "direct"
       ELSE job = said[i].parent /\ job \in posted
    /\ obeyed' = Append(obeyed, [msg |-> i, job |-> job])
    /\ UNCHANGED <<said, posted>>

ChatNext ==
    \/ \E m \in Message : Say(m)
    \/ \E n \in Notifications : Post(n)
    \/ \E i \in DOMAIN said, job \in Notifications \cup {NoParent} : Obey(i, job)

ChatSpec == ChatInit /\ [][ChatNext]_chatVars
=============================================================================
