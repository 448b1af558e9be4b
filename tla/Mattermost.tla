------------------------------ MODULE Mattermost ------------------------------
(***************************************************************************)
(* mattermost.Notifier.  init runs once and keeps its error; Commands      *)
(* takes no notice of it.  The goroutine that Commands starts connects,    *)
(* handles the events of that connection one by one, and when the          *)
(* connection ends with an error connects again; a connect that fails, or  *)
(* a connection that is closed in good order, ends it.                     *)
(***************************************************************************)
EXTENDS Messenger

CONSTANT
    Garbage     \* what may come in the place of a post: "other", "data", "json"

VARIABLES
    link,       \* "off", "up", "lost", "closed", "refused" or "ended"
    events,     \* the events of the connection that were not handled yet
    setUp,      \* whether init succeeded
    renamed     \* whether users know the bot by the name it gave itself

mattermostVars == <<messengerVars, link, events, setUp, renamed>>

\* The bot asks for a new name, at the end of init; the server may refuse it.
UpdateBotUser == renamed \in {FALSE, setUp}

\* Whatever init got from the server.
MattermostInit ==
    /\ MessengerInit
    /\ link = "off"
    /\ events = <<>>
    /\ setUp \in BOOLEAN
    /\ UpdateBotUser

Event(kind, i) == [kind |-> kind, msg |-> i]

-----------------------------------------------------------------------------
(* The connection.                                                         *)

Connect ==
    /\ link = "off"
    /\ link' = "up"
    /\ UNCHANGED <<messengerVars, events, setUp, renamed>>

\* Or Commands could not parse the URL, and started no goroutine.
ConnectFails ==
    /\ link = "off"
    /\ link' = "refused"
    /\ UNCHANGED <<messengerVars, events, setUp, renamed>>

\* The listener closes the channel of the events; what is in it is handled.
Lose ==
    /\ link = "up"
    /\ link' \in {"lost", "closed"}
    /\ UNCHANGED <<messengerVars, events, setUp, renamed>>

\* Mutant of Retry: the loop ends with the first connection.
RetryNever ==
    /\ link = "lost"
    /\ events = <<>>
    /\ link' = "ended"
    /\ UNCHANGED <<messengerVars, events, setUp, renamed>>

Retry ==
    /\ link = "lost"
    /\ events = <<>>
    /\ link' = "off"
    /\ UNCHANGED <<messengerVars, events, setUp, renamed>>

Leave ==
    /\ link = "closed"
    /\ events = <<>>
    /\ link' = "ended"
    /\ UNCHANGED <<messengerVars, events, setUp, renamed>>

Tell ==
    events' = IF link = "up" THEN Append(events, Event("posted", Len(written) + 1))
              ELSE events

UserWrites(m) ==
    /\ m \in UserMessage
    /\ Speak(m)
    /\ Tell
    /\ UNCHANGED <<commands, link, setUp, renamed>>

\* Events that are no posts, and, if Garbage has them, posted events without a
\* post or with one that is not JSON; for a bound, only when none is waiting.
Disturb(kind) ==
    /\ kind \in Garbage \cap {"other", "data", "json"}
    /\ link = "up"
    /\ events = <<>>
    /\ events' = <<Event(kind, 0)>>
    /\ UNCHANGED <<messengerVars, link, setUp, renamed>>

\* replyToThread makes the answer a reply to the reply, replyToChannel none.
AnswerInPlace(k) ==
    LET m == written[commands[k].msg]
    IN  /\ Answer(k, [m EXCEPT !.author = "bot", !.parent = NoParent, !.mention = FALSE])
        /\ Tell
        /\ UNCHANGED <<link, setUp, renamed>>

Notify(n) ==
    /\ setUp
    /\ PostNotification(n) \/ PostUnanswered(n)
    /\ UNCHANGED <<link, events, setUp, renamed>>

-----------------------------------------------------------------------------
(* The goroutine of Commands.                                              *)

Next(kind) ==
    /\ events # <<>>
    /\ Head(events).kind = kind
    /\ events' = Tail(events)
    /\ UNCHANGED <<link, setUp, renamed>>

SkipOther == Next("other") /\ Nothing

\* The error that is logged is a nil of a concrete type, which the logger asks
\* for its text.
NoPost == Next("data") /\ Crash("data")

\* PostFromJson returns nil.
BadPost == Next("json") /\ Crash("json")

\* Without a successful init the bot does not know itself: a nil is read.
PostWithoutSelf == Next("posted") /\ ~setUp /\ Crash("self")

\* Mutant of FromUser: the bot's own posts are handled as well.
FromAnybody(i) == TRUE

FromUser(i) == written[i].author = "user"

SkipOwn ==
    /\ Next("posted")
    /\ setUp
    /\ ~FromUser(Head(events).msg)
    /\ Nothing

\* The name to look for was set before the server was asked for it.
Mentions(m) == m.mention /\ renamed

\* The server, if it answers, says what channel m is from.
IsDirectMessage(m) == m.place = "direct"

HandlePost ==
    LET i == Head(events).msg
        m == written[i]
    IN
    /\ Next("posted")
    /\ setUp
    /\ FromUser(i)
    /\ \/ "found" \in Lookup(m.parent) /\ Run(i, m.parent)
       \/ "fatal" \in Lookup(m.parent) /\ Crash("race")
       \/ /\ "missing" \in Lookup(m.parent)
          /\ Mentions(m) \/ IsDirectMessage(m)
          /\ Run(i, NoParent)
       \* No message to the bot, a mention without a command, or the server
       \* did not say what channel it is from.
       \/ "missing" \in Lookup(m.parent) /\ Nothing

Handle ==
    \/ SkipOther
    \/ NoPost
    \/ BadPost
    \/ PostWithoutSelf
    \/ SkipOwn
    \/ HandlePost

-----------------------------------------------------------------------------

MattermostTypeOK ==
    /\ MessengerTypeOK
    /\ link \in {"off", "up", "lost", "closed", "refused", "ended"}
    /\ events \in Seq([kind : {"posted", "other", "data", "json"},
                       msg : {0} \cup DOMAIN written])
    /\ setUp \in BOOLEAN
    /\ renamed \in BOOLEAN

\* The event of a reply to a notification in the map is on its way.
ReplyIsDue(i) ==
    /\ i \in DOMAIN written
    /\ written[i].author = "user"
    /\ written[i].parent \in known
    /\ \E e \in DOMAIN events : events[e] = Event("posted", i)
=============================================================================
