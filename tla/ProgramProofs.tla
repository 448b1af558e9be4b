---------------------------- MODULE ProgramProofs ----------------------------
(***************************************************************************)
(* Both chats keep what Chat promises, for any number of notifications and *)
(* messages and whatever comes in their place, checked by TLAPS.           *)
(***************************************************************************)
EXTENDS Program, SequenceTheorems, TLAPS

-----------------------------------------------------------------------------
(* What the two chats have in common is the same for both.                 *)

LEMMA SameMessenger ==
    /\ M!MessengerTypeOK <=> S!MessengerTypeOK
    /\ M!MessengerTypeOK' <=> S!MessengerTypeOK'
    /\ \A n : M!PostNotification(n) <=> S!PostNotification(n)
    /\ \A n : M!PostUnanswered(n) <=> S!PostUnanswered(n)
    /\ \A i, job : M!Run(i, job) <=> S!Run(i, job)
    /\ \A k, m : M!Answer(k, m) <=> S!Answer(k, m)
    /\ \A m : M!Speak(m) <=> S!Speak(m)
    /\ \A why : M!Crash(why) <=> S!Crash(why)
    /\ M!Nothing <=> S!Nothing
    /\ M!UserMessage = S!UserMessage
    /\ M!Message = S!Message
    /\ M!Notifications = S!Notifications
    /\ M!NoParent = S!NoParent
    /\ \A n : M!Lookup(n) = S!Lookup(n)
BY DEF M!MessengerTypeOK, S!MessengerTypeOK, M!PostNotification, S!PostNotification,
       M!PostUnanswered, S!PostUnanswered, M!Run, S!Run,
       M!Answer, S!Answer, M!Speak, S!Speak, M!Crash, S!Crash, M!Nothing, S!Nothing,
       M!messengerVars, S!messengerVars, M!UserMessage, S!UserMessage, M!Message, S!Message,
       M!Notifications, S!Notifications, M!NoParent, S!NoParent, M!Idle, S!Idle,
       M!Lookup, S!Lookup

-----------------------------------------------------------------------------
(* Sequences.                                                              *)

LEMMA Appended ==
    ASSUME NEW T, NEW s \in Seq(T), NEW x \in T
    PROVE  /\ Append(s, x) \in Seq(T)
           /\ Len(Append(s, x)) = Len(s) + 1
           /\ DOMAIN Append(s, x) = DOMAIN s \cup {Len(s) + 1}
           /\ \A k \in DOMAIN s : Append(s, x)[k] = s[k]
           /\ Append(s, x)[Len(s) + 1] = x
           /\ Append(s, x) = s \o <<x>>
           /\ DOMAIN s = 1..Len(s)
           /\ Len(s) \in Nat
<1>1. Len(s) \in Nat /\ DOMAIN s = 1..Len(s)
  BY LenProperties
<1>2. Append(s, x) \in Seq(T) /\ Len(Append(s, x)) = Len(s) + 1
  OBVIOUS
<1>3. DOMAIN Append(s, x) = 1..(Len(s) + 1)
  BY <1>2, LenProperties
<1>4. Append(s, x) = s \o <<x>>
  OBVIOUS
<1>5. QED
  BY <1>1, <1>2, <1>3, <1>4

LEMMA Shortened ==
    ASSUME NEW T, NEW s \in Seq(T), s # <<>>
    PROVE  /\ Tail(s) \in Seq(T)
           /\ Head(s) = s[1]
           /\ 1 \in DOMAIN s
           /\ s[1] \in T
           /\ \A e \in DOMAIN Tail(s) : e \in Nat /\ e + 1 \in DOMAIN s /\ Tail(s)[e] = s[e + 1]
           /\ \A e \in DOMAIN s : e # 1 => e - 1 \in DOMAIN Tail(s) /\ Tail(s)[e - 1] = s[e]
<1>1. Len(s) \in Nat \ {0} /\ DOMAIN s = 1..Len(s)
  BY EmptySeq, LenProperties
<1>2. /\ Tail(s) \in Seq(T)
      /\ Len(Tail(s)) = Len(s) - 1
      /\ \A e \in 1..Len(Tail(s)) : Tail(s)[e] = s[e + 1]
  BY HeadTailProperties
<1>3. DOMAIN Tail(s) = 1..(Len(s) - 1)
  BY <1>2, LenProperties
<1>4. s[1] \in T
  BY <1>1, ElementOfSeq
<1>5. QED
  BY <1>1, <1>2, <1>3, <1>4

LEMMA Extended ==
    ASSUME NEW T, NEW s \in Seq(T), NEW t \in Seq(T)
    PROVE  /\ s \o t \in Seq(T)
           /\ \A e \in DOMAIN s : e \in DOMAIN (s \o t) /\ (s \o t)[e] = s[e]
           /\ \A e \in DOMAIN (s \o t) :
                 \/ e \in DOMAIN s /\ (s \o t)[e] = s[e]
                 \/ e - Len(s) \in DOMAIN t /\ (s \o t)[e] = t[e - Len(s)]
           /\ DOMAIN (s \o t) = 1..(Len(s) + Len(t))
           /\ Len(s) \in Nat
           /\ DOMAIN s = 1..Len(s)
<1>1. /\ Len(s) \in Nat /\ DOMAIN s = 1..Len(s)
      /\ Len(t) \in Nat /\ DOMAIN t = 1..Len(t)
  BY LenProperties
<1>2. /\ s \o t \in Seq(T)
      /\ Len(s \o t) = Len(s) + Len(t)
      /\ \A e \in 1..(Len(s) + Len(t)) :
            (s \o t)[e] = IF e <= Len(s) THEN s[e] ELSE t[e - Len(s)]
  BY ConcatProperties
<1>3. DOMAIN (s \o t) = 1..(Len(s) + Len(t))
  BY <1>2, LenProperties
<1>4. QED
  BY <1>1, <1>2, <1>3

\* What is a sequence is one of whatever all its elements are.
LEMMA Narrowed ==
    ASSUME NEW T, NEW U, NEW s \in Seq(T), \A e \in DOMAIN s : s[e] \in U
    PROVE  s \in Seq(U)
<1>1. Len(s) \in Nat /\ DOMAIN s = 1..Len(s) /\ s \in [1..Len(s) -> T]
  BY LenProperties
<1>2. s \in [1..Len(s) -> U]
  BY <1>1
<1>3. QED
  BY <1>1, <1>2

-----------------------------------------------------------------------------
(* The invariant.  TypeOK is part of it; the rest says why a message is    *)
(* never obeyed twice: the events that are still to be handled tell of     *)
(* messages that are no commands yet.                                      *)

\* The events that may make a command of a message.
Telling == {"message", "message_replied", "posted"}

\* The announcement of a reply in its thread, beside the one of the message.
Second(e) == events[e].kind = "message_replied"

\* No event is there twice.
Once ==
    \A e, f \in DOMAIN events :
        /\ events[e].kind \in Telling
        /\ events[f].kind \in Telling
        /\ events[e].msg = events[f].msg
        /\ Second(e) <=> Second(f)
        => e = f

\* The messages that became commands.
Commanded == {commands[k].msg : k \in DOMAIN commands}

\* A message is kept, and becomes a command, only when its event is handled;
\* one that was kept has only its second event left to make it one.
Fresh ==
    \A e \in DOMAIN events : events[e].kind \in Telling =>
        /\ events[e].msg \in DOMAIN written
        /\ ~Second(e) => events[e].msg \notin messages
        /\ (Second(e) => events[e].msg \in messages) => events[e].msg \notin Commanded

\* The bot mentions nobody, itself least of all.
Modest == \A i \in DOMAIN written : written[i].author = "bot" => ~written[i].mention

\* Until the first connection has told the bot its id, it handles nothing.
Reached ==
    chat = "slack" /\ ~selfID =>
        /\ messages = {}
        /\ events = <<>> => link # "up"
        /\ events # <<>> => events[1].kind = "connected"

\* As long as no chat is chosen nothing happens.
Untouched ==
    /\ phase = "starting" => chat = "none"
    /\ chat = "none" => S!SlackInit /\ M!MattermostInit

IInv == TypeOK /\ Once /\ Fresh /\ Modest /\ Reached /\ Untouched

-----------------------------------------------------------------------------
(* How the steps of a chat act on the events.                              *)

AnyEvent == [kind : Telling \cup {"connected", "other", "data", "json", "empty"}, msg : Nat]

Pending == events \in Seq(AnyEvent) /\ Once /\ Fresh

\* The goroutine of Commands takes the first event.
LEMMA TakenEvent ==
    ASSUME Pending, events # <<>>, events' = Tail(events), written' = written,
           \/ messages' = messages
           \/ /\ Head(events).kind = "message"
              /\ messages' = messages \cup {Head(events).msg},
           \/ commands' = commands
           \/ /\ Commanded' \subseteq Commanded \cup {Head(events).msg}
              /\ messages' = messages
              /\ Head(events).kind \in Telling
              /\ Head(events).kind = "message_replied" => Head(events).msg \in messages
    PROVE  Once' /\ Fresh'
<1> DEFINE h == events[1]
<1>1. /\ Head(events) = h /\ 1 \in DOMAIN events
      /\ \A e \in DOMAIN events' : e \in Nat /\ e + 1 \in DOMAIN events /\ events'[e] = events[e + 1]
  BY Shortened DEF Pending
<1>2. Once'
  BY <1>1 DEF Pending, Once, Second
<1>3. ASSUME NEW e \in DOMAIN events', events'[e].kind \in Telling
      PROVE  /\ events'[e].msg \in DOMAIN written'
             /\ ~Second(e)' => events'[e].msg \notin messages'
             /\ (Second(e)' => events'[e].msg \in messages') => events'[e].msg \notin Commanded'
  <2>0. PICK f : f = e + 1
    OBVIOUS
  <2>1. f \in DOMAIN events /\ f # 1 /\ events'[e] = events[f] /\ (Second(e)' <=> Second(f))
    BY <2>0, <1>1, <1>3 DEF Second
  <2>2. /\ events[f].msg \in DOMAIN written
        /\ ~Second(f) => events[f].msg \notin messages
        /\ (Second(f) => events[f].msg \in messages) => events[f].msg \notin Commanded
    BY <2>1, <1>3 DEF Pending, Fresh
  <2>3. h.kind \in Telling /\ h.msg = events[f].msg => ~(Second(1) <=> Second(f))
    BY <2>1, <1>1, <1>3 DEF Pending, Once
  <2>4. events[f].msg \in DOMAIN written' /\ (~Second(f) => events[f].msg \notin messages')
    BY <2>2, <2>3, <1>1 DEF Telling, Second
  <2>5. (Second(f) => events[f].msg \in messages') => events[f].msg \notin Commanded'
    <3>1. CASE commands' = commands /\ messages' = messages
      BY <3>1, <2>2 DEF Commanded
    <3>2. CASE /\ commands' = commands
               /\ h.kind = "message"
               /\ messages' = messages \cup {h.msg}
      <4>1. h.msg \notin Commanded
        BY <3>2, <1>1 DEF Pending, Fresh, Telling, Second
      <4>2. QED
        BY <3>2, <4>1, <2>2 DEF Commanded
    <3>3. CASE /\ Commanded' \subseteq Commanded \cup {h.msg}
               /\ messages' = messages
               /\ h.kind \in Telling
               /\ h.kind = "message_replied" => h.msg \in messages
      <4>1. Second(1) => h.msg \in messages
        BY <3>3 DEF Second
      <4>2. ~Second(1) => h.msg \notin messages
        BY <3>3, <1>1 DEF Pending, Fresh
      <4>3. ASSUME Second(f) => events[f].msg \in messages, events[f].msg = h.msg
            PROVE  FALSE
        BY <3>3, <4>1, <4>2, <4>3, <2>2, <2>3
      <4>4. QED
        BY <3>3, <4>3, <2>2
    <3>4. QED
      BY <3>1, <3>2, <3>3, <1>1
  <2>6. QED
    BY <2>1, <2>4, <2>5
<1>4. QED
  BY <1>2, <1>3 DEF Fresh

\* Somebody writes a message, which the bot hears of or not.
LEMMA ToldEvents ==
    ASSUME Pending, NEW m \in S!Message, written \in Seq(S!Message), written' = Append(written, m),
           messages' = messages, messages \subseteq DOMAIN written,
           Commanded' = Commanded, Commanded \subseteq DOMAIN written,
           NEW told \in Seq(AnyEvent), events' = events \o told,
           \A e \in DOMAIN told : told[e].msg = Len(written) + 1,
           \A e, f \in DOMAIN told :
               (told[e].kind = "message_replied" <=> told[f].kind = "message_replied") => e = f
    PROVE  Once' /\ Fresh'
<1> DEFINE i == Len(written) + 1
<1>1. /\ DOMAIN written' = DOMAIN written \cup {i}
      /\ i \notin DOMAIN written
  BY Appended
<1>2. /\ \A e \in DOMAIN events' :
            \/ e \in DOMAIN events /\ events'[e] = events[e]
            \/ e - Len(events) \in DOMAIN told /\ events'[e] = told[e - Len(events)]
      /\ Len(events) \in Nat
      /\ DOMAIN events' \subseteq Nat
  <2>1. DOMAIN (events \o told) \subseteq Nat
    <3>1. DOMAIN (events \o told) = 1..(Len(events) + Len(told)) /\ Len(told) \in Nat /\ Len(events) \in Nat
      BY Extended, LenProperties DEF Pending
    <3>2. QED
      BY <3>1
  <2>2. QED
    BY <2>1, Extended DEF Pending
<1>3. \A e \in DOMAIN events : events[e].kind \in Telling => events[e].msg \in DOMAIN written
  BY DEF Pending, Fresh
<1>4. Once'
  <2> SUFFICES ASSUME NEW e \in DOMAIN events', NEW f \in DOMAIN events',
                      events'[e].kind \in Telling, events'[f].kind \in Telling,
                      events'[e].msg = events'[f].msg, Second(e)' <=> Second(f)'
               PROVE  e = f
    BY DEF Once
  <2>1. CASE e \in DOMAIN events /\ events'[e] = events[e] /\ f \in DOMAIN events /\ events'[f] = events[f]
    BY <2>1 DEF Pending, Once, Second
  <2>2. CASE /\ e - Len(events) \in DOMAIN told /\ events'[e] = told[e - Len(events)]
             /\ f - Len(events) \in DOMAIN told /\ events'[f] = told[f - Len(events)]
    BY <2>2, <1>2 DEF Second
  <2>3. CASE /\ e \in DOMAIN events /\ events'[e] = events[e]
             /\ f - Len(events) \in DOMAIN told /\ events'[f] = told[f - Len(events)]
    BY <2>3, <1>1, <1>3
  <2>4. CASE /\ f \in DOMAIN events /\ events'[f] = events[f]
             /\ e - Len(events) \in DOMAIN told /\ events'[e] = told[e - Len(events)]
    BY <2>4, <1>1, <1>3
  <2>5. QED
    BY <2>1, <2>2, <2>3, <2>4, <1>2
<1>5. Fresh'
  <2> SUFFICES ASSUME NEW e \in DOMAIN events', events'[e].kind \in Telling
               PROVE  /\ events'[e].msg \in DOMAIN written'
                      /\ ~Second(e)' => events'[e].msg \notin messages
                      /\ (Second(e)' => events'[e].msg \in messages) => events'[e].msg \notin Commanded
    BY DEF Fresh
  <2>1. CASE e \in DOMAIN events /\ events'[e] = events[e]
    BY <2>1, <1>1 DEF Pending, Fresh, Second
  <2>2. CASE e - Len(events) \in DOMAIN told /\ events'[e] = told[e - Len(events)]
    BY <2>2, <1>1
  <2>3. QED
    BY <2>1, <2>2, <1>2
<1>6. QED
  BY <1>4, <1>5

\* No event is handled and none of a message comes.
LEMMA SameEvents ==
    ASSUME Once, Fresh, written' = written, Commanded' = Commanded,
           \/ messages' = messages /\ events' = events
           \/ \A e \in DOMAIN events' : events'[e].kind \notin Telling
    PROVE  Once' /\ Fresh'
<1>1. CASE messages' = messages /\ events' = events
  <2>1. Once'
    BY <1>1 DEF Once, Second
  <2>2. Fresh'
    BY <1>1 DEF Fresh, Second
  <2>3. QED
    BY <2>1, <2>2
<1>2. CASE \A e \in DOMAIN events' : events'[e].kind \notin Telling
  BY <1>2 DEF Once, Fresh
<1>3. QED
  BY <1>1, <1>2

-----------------------------------------------------------------------------
(* What Notify and the goroutines of the commands do keeps the types, and  *)
(* makes no command of a message.                                          *)

Stages == {"waiting", "taken", "answered"}
Command == [msg : DOMAIN written, job : posted \cup {S!NoParent}, at : Stages]

LEMMA CommandFacts ==
    ASSUME S!MessengerTypeOK
    PROVE  /\ commands \in Seq(Command)
           /\ \A k \in DOMAIN commands : commands[k] \in Command
           /\ DOMAIN commands = 1..Len(commands)
           /\ Len(commands) \in Nat
           /\ Commanded \subseteq DOMAIN written
<1>1. commands \in Seq(Command)
  BY DEF S!MessengerTypeOK, Command, Stages
<1>2. DOMAIN commands = 1..Len(commands) /\ Len(commands) \in Nat
  BY <1>1, LenProperties
<1>3. \A k \in DOMAIN commands : commands[k] \in Command
  BY <1>1, <1>2, ElementOfSeq
<1>4. QED
  BY <1>1, <1>2, <1>3 DEF Commanded, Command

\* A command gets on: it stays the command it was.
LEMMA CommandMoves ==
    ASSUME S!MessengerTypeOK, NEW k \in DOMAIN commands, NEW stage \in Stages,
           commands' = [commands EXCEPT ![k].at = stage]
    PROVE  /\ commands' \in Seq(Command)
           /\ Len(commands') = Len(commands)
           /\ DOMAIN commands' = DOMAIN commands
           /\ \A j \in DOMAIN commands :
                 commands'[j].msg = commands[j].msg /\ commands'[j].job = commands[j].job
           /\ Commanded' = Commanded
<1> DEFINE c == [commands[k] EXCEPT !.at = stage]
<1>1. commands' = [commands EXCEPT ![k] = c]
  BY Zenon
<1>2. commands[k] \in Command
  BY CommandFacts
<1>3. c \in Command /\ c.msg = commands[k].msg /\ c.job = commands[k].job
  BY <1>2 DEF Command
<1>4. /\ commands' \in Seq(Command)
      /\ Len(commands') = Len(commands)
      /\ \A j \in 1..Len(commands) : commands'[j] = IF j = k THEN c ELSE commands[j]
  <2> HIDE DEF c
  <2>1. commands \in Seq(Command) /\ k \in 1..Len(commands)
    BY CommandFacts
  <2>2. QED
    BY <2>1, <1>1, <1>3, ExceptSeq
<1>5. DOMAIN commands' = DOMAIN commands
  BY <1>4, CommandFacts, LenProperties
<1>6. \A j \in DOMAIN commands :
          commands'[j].msg = commands[j].msg /\ commands'[j].job = commands[j].job
  BY <1>4, <1>3, CommandFacts
<1>7. Commanded' = Commanded
  BY <1>5, <1>6 DEF Commanded
<1>8. QED
  BY <1>4, <1>5, <1>6, <1>7

\* Notify posts, and writes the map.
LEMMA NotifyTypes ==
    ASSUME S!MessengerTypeOK, NEW n \in S!Notifications,
           S!PostNotification(n) \/ S!PostUnanswered(n) \/ S!BeginStore \/ S!EndStore
    PROVE  S!MessengerTypeOK' /\ written' = written /\ commands' = commands
<1>1. commands \in Seq([msg : DOMAIN written, job : posted \cup {n} \cup {S!NoParent},
                        at : {"waiting", "taken", "answered"}])
  <2>1. Command \subseteq [msg : DOMAIN written, job : posted \cup {n} \cup {S!NoParent},
                           at : {"waiting", "taken", "answered"}]
    BY DEF Command, Stages
  <2>2. QED
    BY <2>1, CommandFacts, SeqMonotonic
<1>2. CASE S!PostNotification(n) \/ S!PostUnanswered(n)
  <2>1. /\ posted' = posted \cup {n}
        /\ notifying' = [at |-> "posted", n |-> n] \/ notifying' = notifying
        /\ written' = written /\ known' = known /\ commands' = commands /\ crashed' = crashed
    BY <1>2 DEF S!PostNotification, S!PostUnanswered
  <2>2. commands' \in Seq([msg : DOMAIN written', job : posted' \cup {S!NoParent},
                           at : {"waiting", "taken", "answered"}])
    BY <1>1, <2>1
  <2>3. notifying' \in [at : {"posted", "storing"}, n : posted'] \cup {S!Idle}
    BY <2>1 DEF S!MessengerTypeOK
  <2>4. posted' \subseteq S!Notifications /\ known' \subseteq posted'
    BY <2>1 DEF S!MessengerTypeOK
  <2>5. QED
    BY <2>1, <2>2, <2>3, <2>4 DEF S!MessengerTypeOK
<1>3. CASE S!BeginStore \/ S!EndStore
  <2>1. notifying \in [at : {"posted", "storing"}, n : posted]
    BY <1>3 DEF S!MessengerTypeOK, S!BeginStore, S!EndStore, S!Idle
  <2>2. UNCHANGED <<written, posted, commands, crashed>>
    BY <1>3 DEF S!BeginStore, S!EndStore
  <2>3. /\ notifying' \in [at : {"posted", "storing"}, n : posted] \cup {S!Idle}
        /\ known' \subseteq posted
    BY <1>3, <2>1 DEF S!MessengerTypeOK, S!BeginStore, S!EndStore
  <2>4. QED
    BY <2>2, <2>3 DEF S!MessengerTypeOK
<1>4. QED
  BY <1>2, <1>3

LEMMA TakeTypes ==
    ASSUME S!MessengerTypeOK, NEW k \in DOMAIN commands, S!Take(k)
    PROVE  S!MessengerTypeOK' /\ written' = written /\ Commanded' = Commanded
<1>1. commands' = [commands EXCEPT ![k].at = "taken"] /\ "taken" \in Stages
  BY Zenon DEF S!Take, Stages
<1>2. commands' \in Seq(Command) /\ Commanded' = Commanded
  BY <1>1, CommandMoves
<1>3. UNCHANGED <<written, posted, known, notifying, crashed>>
  BY Zenon DEF S!Take
<1>4. QED
  BY <1>2, <1>3 DEF S!MessengerTypeOK, Command, Stages

LEMMA RunTypes ==
    ASSUME S!MessengerTypeOK, NEW i \in DOMAIN written, NEW job \in posted \cup {S!NoParent},
           S!Run(i, job)
    PROVE  /\ S!MessengerTypeOK'
           /\ UNCHANGED <<written, posted>>
           /\ Commanded' = Commanded \cup {i}
           /\ i \in Commanded'
           /\ DOMAIN commands' = DOMAIN commands \cup {Len(commands) + 1}
           /\ \A k \in DOMAIN commands : commands'[k] = commands[k]
           /\ commands'[Len(commands) + 1].msg = i
           /\ commands'[Len(commands) + 1].job = job
<1> DEFINE c == [msg |-> i, job |-> job, at |-> "waiting"]
<1>1. c \in Command /\ c.msg = i /\ c.job = job
  BY DEF Command, Stages
<1>2. /\ commands' = Append(commands, c)
      /\ UNCHANGED <<written, posted, known, notifying, crashed>>
  BY DEF S!Run
<1> HIDE DEF c
<1>3. /\ commands' \in Seq(Command)
      /\ DOMAIN commands' = DOMAIN commands \cup {Len(commands) + 1}
      /\ \A k \in DOMAIN commands : commands'[k] = commands[k]
      /\ commands'[Len(commands) + 1] = c
  BY <1>1, <1>2, CommandFacts, Appended
<1>4. Commanded' = Commanded \cup {i} /\ i \in Commanded'
  BY <1>1, <1>3 DEF Commanded
<1>5. S!MessengerTypeOK'
  BY <1>2, <1>3 DEF S!MessengerTypeOK, Command, Stages
<1>6. QED
  BY <1>1, <1>2, <1>3, <1>4, <1>5

LEMMA SpeakTypes ==
    ASSUME S!MessengerTypeOK, NEW m \in S!Message, S!Speak(m),
           commands' = commands \/ \E k \in DOMAIN commands : S!Answer(k, m)
    PROVE  /\ S!MessengerTypeOK'
           /\ written \in Seq(S!Message)
           /\ written' = Append(written, m)
           /\ posted' = posted
           /\ Commanded' = Commanded
           /\ Len(written) \in Nat
           /\ DOMAIN written' = DOMAIN written \cup {Len(written) + 1}
           /\ \A j \in DOMAIN written : written'[j] = written[j]
           /\ written'[Len(written) + 1] = m
           /\ DOMAIN commands' = DOMAIN commands
           /\ \A j \in DOMAIN commands :
                 commands'[j].msg = commands[j].msg /\ commands'[j].job = commands[j].job
<1>1. /\ written' = Append(written, m)
      /\ UNCHANGED <<posted, known, notifying, crashed>>
  BY DEF S!Speak
<1>2. written \in Seq(S!Message)
  BY DEF S!MessengerTypeOK
<1>3. /\ written' \in Seq(S!Message)
      /\ DOMAIN written' = DOMAIN written \cup {Len(written) + 1}
      /\ \A j \in DOMAIN written : written'[j] = written[j]
      /\ written'[Len(written) + 1] = m
      /\ Len(written) \in Nat
  BY <1>1, <1>2, Appended
<1>4. /\ commands' \in Seq(Command)
      /\ DOMAIN commands' = DOMAIN commands
      /\ \A j \in DOMAIN commands :
            commands'[j].msg = commands[j].msg /\ commands'[j].job = commands[j].job
      /\ Commanded' = Commanded
  <2>1. CASE commands' = commands
    BY <2>1, CommandFacts DEF Commanded
  <2>2. ASSUME NEW k \in DOMAIN commands, S!Answer(k, m)
        PROVE  commands' = [commands EXCEPT ![k].at = "answered"] /\ "answered" \in Stages
    BY <2>2, Zenon DEF S!Answer, Stages
  <2>3. QED
    BY <2>1, <2>2, CommandMoves
<1>5. commands' \in Seq([msg : DOMAIN written', job : posted \cup {S!NoParent},
                         at : {"waiting", "taken", "answered"}])
  <2>1. Command \subseteq [msg : DOMAIN written', job : posted \cup {S!NoParent},
                           at : {"waiting", "taken", "answered"}]
    BY <1>3 DEF Command, Stages
  <2>2. QED
    BY <1>4, <2>1, SeqMonotonic
<1>6. S!MessengerTypeOK'
  BY <1>1, <1>3, <1>5 DEF S!MessengerTypeOK
<1>7. QED
  BY <1>1, <1>2, <1>3, <1>4, <1>6

-----------------------------------------------------------------------------
(* How those steps look to Chat.                                           *)

bar == [k \in DOMAIN commands |-> [msg |-> commands[k].msg, job |-> commands[k].job]]

Deed == [msg : Nat, job : Nat]

LEMMA ObeyedIsASequence ==
    ASSUME S!MessengerTypeOK, MaxNotified \in Nat
    PROVE  /\ bar \in Seq(Deed)
           /\ Len(bar) = Len(commands)
           /\ DOMAIN bar = DOMAIN commands
<1>1. \A k \in DOMAIN commands : commands[k] \in Command
  BY CommandFacts
<1>2. DOMAIN written \subseteq Nat
  <2>1. written \in Seq(S!Message)
    BY DEF S!MessengerTypeOK
  <2>2. QED
    BY <2>1, LenProperties
<1>3. posted \cup {S!NoParent} \subseteq Nat
  BY DEF S!MessengerTypeOK, S!Notifications, S!NoParent
<1>4. DOMAIN commands = 1..Len(commands) /\ Len(commands) \in Nat
  BY CommandFacts
<1>5. bar \in [1..Len(commands) -> Deed]
  BY <1>1, <1>2, <1>3, <1>4 DEF bar, Deed, Command
<1>6. QED
  BY <1>4, <1>5 DEF bar

\* Nothing but the progress of commands.
LEMMA BarStays ==
    ASSUME DOMAIN commands' = DOMAIN commands,
           \A j \in DOMAIN commands :
               commands'[j].msg = commands[j].msg /\ commands'[j].job = commands[j].job
    PROVE  bar' = bar
BY DEF bar

LEMMA BarGrows ==
    ASSUME S!MessengerTypeOK, MaxNotified \in Nat, NEW i \in DOMAIN written,
           NEW job \in posted \cup {S!NoParent}, S!Run(i, job)
    PROVE  bar' = Append(bar, [msg |-> i, job |-> job])
<1>1. /\ S!MessengerTypeOK'
      /\ UNCHANGED <<written, posted>>
      /\ DOMAIN commands' = DOMAIN commands \cup {Len(commands) + 1}
      /\ \A k \in DOMAIN commands : commands'[k] = commands[k]
      /\ commands'[Len(commands) + 1].msg = i
      /\ commands'[Len(commands) + 1].job = job
  BY RunTypes
<1>2. /\ bar \in Seq(Deed) /\ Len(bar) = Len(commands) /\ DOMAIN bar = DOMAIN commands
  BY ObeyedIsASequence
<1>3. bar' = [k \in DOMAIN commands' |-> [msg |-> commands'[k].msg, job |-> commands'[k].job]]
  BY DEF bar
<1>4. [msg |-> i, job |-> job] \in Deed
  <2>1. written \in Seq(S!Message)
    BY DEF S!MessengerTypeOK
  <2>2. i \in Nat
    BY <2>1, LenProperties
  <2>3. job \in Nat
    BY DEF S!MessengerTypeOK, S!Notifications, S!NoParent
  <2>4. QED
    BY <2>2, <2>3 DEF Deed
<1>5. DOMAIN commands = 1..Len(commands) /\ Len(commands) \in Nat
  BY CommandFacts
<1>6. /\ DOMAIN Append(bar, [msg |-> i, job |-> job]) = DOMAIN commands'
      /\ \A k \in DOMAIN commands : Append(bar, [msg |-> i, job |-> job])[k] = bar[k]
      /\ Append(bar, [msg |-> i, job |-> job])[Len(commands) + 1] = [msg |-> i, job |-> job]
      /\ Append(bar, [msg |-> i, job |-> job]) \in Seq(Deed)
  BY <1>1, <1>2, <1>4, Appended
<1>7. \A k \in DOMAIN commands' : bar'[k] = Append(bar, [msg |-> i, job |-> job])[k]
  <2>1. \A k \in DOMAIN commands : bar'[k] = bar[k]
    BY <1>1, <1>3 DEF bar
  <2>2. bar'[Len(commands) + 1] = [msg |-> i, job |-> job]
    BY <1>1, <1>3
  <2>3. QED
    BY <2>1, <2>2, <1>1, <1>6
<1>8. bar' \in Seq(Deed)
  <2>1. posted' = posted
    BY <1>1
  <2>2. bar' \in [1..(Len(commands) + 1) -> Deed]
    <3>1. DOMAIN commands' = 1..(Len(commands) + 1)
      BY <1>1, <1>5
    <3>2. \A k \in DOMAIN commands : bar[k] \in Deed
      BY <1>2, <1>5, ElementOfSeq
    <3>3. \A k \in DOMAIN commands' : bar'[k] \in Deed
      BY <1>1, <1>4, <1>6, <1>7, <3>2
    <3>4. QED
      BY <1>3, <3>1, <3>3
  <2>3. QED
    BY <2>2, <1>5
<1>9. DOMAIN bar' = DOMAIN commands'
  BY <1>3
<1>10. QED
  BY <1>6, <1>7, <1>8, <1>9, LenProperties, SeqEqual

-----------------------------------------------------------------------------
(* A command that Chat allows.                                             *)

Worthy(i, job) ==
    /\ i \in DOMAIN written
    /\ job \in posted \cup {S!NoParent}
    /\ i \notin Commanded
    /\ written[i].author = "user"
    /\ IF job = S!NoParent
       THEN written[i].mention \/ written[i].place = "direct"
       ELSE job = written[i].parent

\* What the look-up finds is the job of a notification that was posted.
LEMMA FoundIsPosted ==
    ASSUME S!MessengerTypeOK, MaxNotified \in Nat, NEW n, "found" \in S!Lookup(n)
    PROVE  n \in posted /\ n # S!NoParent
<1>1. n \in known \/ (notifying.at = "storing" /\ n = notifying.n)
  BY DEF S!Lookup
<1>2. known \subseteq posted /\ posted \subseteq S!Notifications
  BY DEF S!MessengerTypeOK
<1>3. notifying.at = "storing" => notifying.n \in posted
  BY DEF S!MessengerTypeOK, S!Idle
<1>4. S!NoParent \notin S!Notifications
  BY DEF S!NoParent, S!Notifications
<1>5. QED
  BY <1>1, <1>2, <1>3, <1>4

LEMMA QuietTypes ==
    ASSUME S!MessengerTypeOK,
           S!Nothing \/ \E why \in {"race", "self", "data", "json", "empty"} : S!Crash(why)
    PROVE  /\ S!MessengerTypeOK'
           /\ UNCHANGED <<written, posted, known, notifying, commands>>
           /\ Commanded' = Commanded
<1>1. /\ UNCHANGED <<written, posted, known, notifying, commands>>
      /\ crashed' \in {crashed, "race", "self", "data", "json", "empty"}
  BY DEF S!Nothing, S!Crash, S!messengerVars
<1>2. QED
  BY <1>1 DEF S!MessengerTypeOK, Commanded

-----------------------------------------------------------------------------
(* Slack.                                                                  *)

LEMMA SlackFacts ==
    ASSUME IInv, Slack
    PROVE  /\ chat = "slack" /\ phase = "running" /\ crashed = "no"
           /\ chat' = chat /\ phase' = phase /\ setUp' = setUp /\ renamed' = renamed
           /\ S!SlackTypeOK
           /\ S!MessengerTypeOK
           /\ Pending
           /\ events # <<>> => events[1] = Head(events) /\ 1 \in DOMAIN events
           /\ DOMAIN written \subseteq Nat
           /\ messages \subseteq DOMAIN written
<1>1. /\ chat = "slack" /\ phase = "running" /\ crashed = "no"
      /\ chat' = chat /\ phase' = phase /\ setUp' = setUp /\ renamed' = renamed
  BY DEF Slack, Alive, mattermostOnly
<1>2. S!SlackTypeOK /\ S!MessengerTypeOK /\ messages \subseteq DOMAIN written
  BY <1>1 DEF IInv, TypeOK, S!SlackTypeOK
<1>3. DOMAIN written \subseteq Nat
  <2>1. written \in Seq(S!Message)
    BY <1>2 DEF S!MessengerTypeOK
  <2>2. QED
    BY <2>1, LenProperties
<1>4. events \in Seq(AnyEvent)
  <2>1. [kind : {"connected", "message", "message_replied", "empty"}, msg : {0} \cup DOMAIN written]
           \subseteq AnyEvent
    BY <1>3 DEF AnyEvent, Telling
  <2>2. events \in Seq([kind : {"connected", "message", "message_replied", "empty"},
                        msg : {0} \cup DOMAIN written])
    BY <1>2 DEF S!SlackTypeOK
  <2>3. QED
    BY <2>1, <2>2, SeqMonotonic
<1>5. events # <<>> => events[1] = Head(events) /\ 1 \in DOMAIN events
  BY <1>4, Shortened
<1>6. QED
  BY <1>1, <1>2, <1>3, <1>4, <1>5 DEF IInv, Pending

\* What the goroutine of Commands does with an event.
LEMMA SlackHandled ==
    ASSUME IInv, Slack, S!Handle, ProgramAssumption
    PROVE  /\ events # <<>>
           /\ events' = Tail(events)
           /\ link' = link
           /\ \/ /\ S!Nothing \/ S!Crash("race") \/ S!Crash("empty")
                 /\ messages' = messages
              \/ /\ S!Nothing
                 /\ Head(events).kind = "message"
                 /\ messages' = messages \cup {Head(events).msg}
              \/ \E job : /\ S!Run(Head(events).msg, job)
                          /\ Worthy(Head(events).msg, job)
                          /\ messages' = messages
                          /\ Head(events).kind \in {"message", "message_replied"}
                          /\ Head(events).kind = "message_replied" => Head(events).msg \in messages
           /\ \/ Head(events).kind = "connected" /\ selfID'
              \/ Head(events).kind # "connected" /\ selfID' = selfID
<1> DEFINE i == Head(events).msg
<1>1. /\ events # <<>> /\ events' = Tail(events) /\ link' = link
  BY DEF S!Handle, S!HandleConnected, S!HandleDirectMessage, S!IsIM, S!Ignore, S!HandleMention, S!Keep,
         S!HandleReply, S!IgnoreReply, S!HandleNoReply, S!Next
<1>2. /\ Head(events).kind = "message" =>
            i \in DOMAIN written /\ i \notin Commanded
      /\ Head(events).kind = "message_replied" /\ i \in messages =>
            i \in DOMAIN written /\ i \notin Commanded
  BY <1>1, SlackFacts DEF Pending, Fresh, Telling, Second
<1>3. \A k \in DOMAIN written :
          written[k].author \in {"user", "bot"} /\ (written[k].author = "bot" => ~written[k].mention)
  <2>1. written \in Seq(S!Message)
    BY SlackFacts DEF S!MessengerTypeOK
  <2>2. \A k \in DOMAIN written : written[k] \in S!Message
    BY <2>1, LenProperties, ElementOfSeq
  <2>3. QED
    BY <2>2 DEF S!Message, IInv, Modest
<1>4. CASE S!HandleConnected
  BY <1>4, <1>1 DEF S!HandleConnected, S!Next
<1>5. CASE S!HandleDirectMessage
  BY <1>5, <1>1, <1>2 DEF S!HandleDirectMessage, S!IsIM, S!Next, Worthy
<1>6. CASE S!Ignore \/ S!IgnoreReply
  BY <1>6, <1>1 DEF S!Ignore, S!IgnoreReply, S!Next
<1>7. CASE S!HandleMention
  <2>1. /\ Head(events).kind = "message" /\ written[i].mention
        /\ S!Run(i, S!NoParent) \/ S!Nothing
        /\ selfID' = selfID /\ messages' = messages
    BY <1>7 DEF S!HandleMention, S!Next, S!Mentions
  <2>2. Worthy(i, S!NoParent)
    BY <2>1, <1>2, <1>3 DEF Worthy
  <2>3. QED
    BY <2>1, <2>2, <1>1
<1>8. CASE S!Keep
  BY <1>8, <1>1 DEF S!Keep, S!Next
<1>9. CASE S!HandleReply
  <2>1. /\ Head(events).kind = "message_replied"
        /\ i \in messages /\ written[i].author = "user"
        /\ \/ "found" \in S!Lookup(written[i].parent) /\ S!Run(i, written[i].parent)
           \/ S!Nothing
           \/ S!Crash("race")
        /\ selfID' = selfID /\ messages' = messages
    BY <1>9 DEF S!HandleReply, S!Next, S!Kept
  <2>2. ASSUME "found" \in S!Lookup(written[i].parent)
        PROVE  Worthy(i, written[i].parent)
    <3>1. written[i].parent \in posted /\ written[i].parent # S!NoParent
      BY <2>2, SlackFacts, FoundIsPosted DEF ProgramAssumption
    <3>2. QED
      BY <3>1, <2>1, <1>2 DEF Worthy
  <2>3. QED
    BY <2>1, <2>2, <1>1
<1>10. CASE S!HandleNoReply
  BY <1>10, <1>1 DEF S!HandleNoReply, S!Next
<1>11. QED
  BY <1>4, <1>5, <1>6, <1>7, <1>8, <1>9, <1>10 DEF S!Handle

SlackEvent == [kind : {"connected", "message", "message_replied", "empty"}, msg : {0} \cup DOMAIN written]

LEMMA SlackKeepsIInv ==
    ASSUME IInv, Slack, S!SlackTypeOK', Once', Fresh', Modest', Reached'
    PROVE  IInv'
<1>1. /\ chat = "slack" /\ phase = "running" /\ chat' = chat /\ phase' = phase
  BY SlackFacts
<1>2. TypeOK'
  BY <1>1 DEF TypeOK
<1>3. Untouched'
  BY <1>1 DEF Untouched
<1>4. QED
  BY <1>2, <1>3 DEF IInv

LEMMA SlackHandleStep ==
    ASSUME IInv, SlackHandle, ProgramAssumption
    PROVE  IInv'
<1>1. Slack /\ S!Handle
  BY DEF SlackHandle
<1> DEFINE i == Head(events).msg
           Result ==
              /\ S!MessengerTypeOK'
              /\ written' = written
              /\ messages' \subseteq DOMAIN written
              /\ \/ messages' = messages
                 \/ /\ Head(events).kind = "message"
                    /\ messages' = messages \cup {i}
              /\ \/ commands' = commands
                 \/ /\ Commanded' \subseteq Commanded \cup {i}
                    /\ messages' = messages
                    /\ Head(events).kind \in Telling
                    /\ Head(events).kind = "message_replied" => i \in messages
<1>2. /\ events # <<>> /\ events' = Tail(events) /\ link' = link
      /\ Head(events) = events[1] /\ 1 \in DOMAIN events
      /\ \/ Head(events).kind = "connected" /\ selfID'
         \/ Head(events).kind # "connected" /\ selfID' = selfID
  BY <1>1, SlackFacts, SlackHandled
<1>3. Result
  <2>1. CASE (S!Nothing \/ S!Crash("race") \/ S!Crash("empty")) /\ messages' = messages
    BY <2>1, <1>1, SlackFacts, QuietTypes
  <2>2. CASE S!Nothing /\ Head(events).kind = "message" /\ messages' = messages \cup {i}
    <3>1. i \in DOMAIN written
      BY <1>1, <1>2, <2>2, SlackFacts DEF Pending, Fresh, Telling
    <3>2. QED
      BY <2>2, <3>1, <1>1, SlackFacts, QuietTypes
  <2>3. ASSUME NEW job, S!Run(i, job), Worthy(i, job), messages' = messages,
               Head(events).kind \in {"message", "message_replied"},
               Head(events).kind = "message_replied" => i \in messages
        PROVE  Result
    BY <2>3, <1>1, SlackFacts, RunTypes DEF Worthy, Telling
  <2>4. QED
    BY <2>1, <2>2, <2>3, <1>1, SlackHandled
<1>4. Once' /\ Fresh'
  BY <1>1, <1>2, <1>3, SlackFacts, TakenEvent
<1>5. S!SlackTypeOK'
  <2>1. events \in Seq(SlackEvent)
    BY <1>1, SlackFacts DEF S!SlackTypeOK, SlackEvent
  <2>2. events' \in Seq(SlackEvent)
    BY <2>1, <1>2, Shortened
  <2>3. QED
    BY <2>2, <1>1, <1>2, <1>3, SlackFacts DEF S!SlackTypeOK, SlackEvent
<1>6. Modest'
  BY <1>3 DEF IInv, Modest
<1>7. Reached'
  <2>1. selfID'
    <3>1. ~selfID => Head(events).kind = "connected"
      BY <1>1, <1>2, SlackFacts DEF IInv, Reached
    <3>2. QED
      BY <3>1, <1>2
  <2>2. QED
    BY <2>1 DEF Reached
<1>8. QED
  BY <1>1, <1>4, <1>5, <1>6, <1>7, SlackKeepsIInv

\* A message, of a user or of the bot, and the events that tell of it.
LEMMA SlackSpeakStep ==
    ASSUME IInv, Slack, ProgramAssumption, NEW m \in S!Message, S!Speak(m), S!Tell(m),
           m.author = "bot" => ~m.mention,
           commands' = commands \/ \E k \in DOMAIN commands : S!Answer(k, m),
           UNCHANGED <<link, selfID, messages>>
    PROVE  IInv'
<1> DEFINE i == Len(written) + 1
           plain == S!Event("message", i)
           replied == S!Event("message_replied", i)
<1>1. /\ S!MessengerTypeOK'
      /\ written \in Seq(S!Message)
      /\ written' = Append(written, m)
      /\ Commanded' = Commanded
      /\ Len(written) \in Nat
      /\ DOMAIN written' = DOMAIN written \cup {i}
      /\ \A j \in DOMAIN written : written'[j] = written[j]
      /\ written'[i] = m
  BY SlackFacts, SpeakTypes
<1>2. PICK told \in {<<>>, <<plain>>, <<plain, replied>>, <<replied, plain>>} :
          events' = events \o told /\ (link # "up" => told = <<>>)
  BY DEF S!Tell
<1>3. /\ plain = [kind |-> "message", msg |-> i]
      /\ replied = [kind |-> "message_replied", msg |-> i]
  BY DEF S!Event
<1>4. /\ told \in Seq(AnyEvent) /\ told \in Seq(SlackEvent')
      /\ \A e \in DOMAIN told : told[e].msg = i
      /\ \A e, f \in DOMAIN told :
            (told[e].kind = "message_replied" <=> told[f].kind = "message_replied") => e = f
  <2>1. plain \in AnyEvent /\ replied \in AnyEvent /\ plain \in SlackEvent' /\ replied \in SlackEvent'
    BY <1>1, <1>3 DEF AnyEvent, Telling, SlackEvent
  <2> HIDE DEF plain, replied
  <2>2. CASE told = <<>>
    BY <2>2
  <2>3. CASE told = <<plain>>
    BY <2>1, <2>3, <1>3
  <2>4. CASE told = <<plain, replied>>
    BY <2>1, <2>4, <1>3
  <2>5. CASE told = <<replied, plain>>
    BY <2>1, <2>5, <1>3
  <2>6. QED
    BY <2>2, <2>3, <2>4, <2>5
<1>5. Once' /\ Fresh'
  <2>1. Commanded \subseteq DOMAIN written
    BY SlackFacts, CommandFacts
  <2>2. QED
    BY <2>1, <1>1, <1>2, <1>4, SlackFacts, ToldEvents
<1>6. events \in Seq(SlackEvent')
  <2>1. events \in Seq(SlackEvent)
    BY SlackFacts DEF S!SlackTypeOK, SlackEvent
  <2>2. SlackEvent \subseteq SlackEvent'
    BY <1>1 DEF SlackEvent
  <2>3. QED
    BY <2>1, <2>2, SeqMonotonic
<1>7. S!SlackTypeOK'
  <2>1. events' \in Seq(SlackEvent')
    BY <1>2, <1>4, <1>6, Extended
  <2>2. QED
    BY <2>1, <1>1, SlackFacts DEF S!SlackTypeOK, SlackEvent
<1>8. Modest'
  BY <1>1 DEF IInv, Modest
<1>9. Reached'
  <2>1. CASE events = <<>> /\ link # "up"
    BY <2>1, <1>2, SlackFacts DEF IInv, Reached
  <2>2. CASE events # <<>>
    <3>1. 1 \in DOMAIN events' /\ events'[1] = events[1]
      BY <2>2, <1>2, <1>4, <1>6, SlackFacts, Extended
    <3>2. events' # <<>>
      BY <3>1
    <3>3. QED
      BY <2>2, <3>1, <3>2, SlackFacts DEF IInv, Reached
  <2>3. CASE events = <<>> /\ link = "up"
    BY <2>3, SlackFacts DEF IInv, Reached
  <2>4. QED
    BY <2>1, <2>2, <2>3
<1>10. QED
  BY <1>5, <1>7, <1>8, <1>9, SlackKeepsIInv

\* The answer to a command.
LEMMA AnswerIsAMessage ==
    ASSUME S!MessengerTypeOK, NEW k \in DOMAIN commands, ProgramAssumption
    PROVE  /\ written[commands[k].msg] \in S!Message
           /\ [written[commands[k].msg] EXCEPT !.author = "bot", !.mention = FALSE] \in S!Message
           /\ [written[commands[k].msg] EXCEPT !.author = "bot", !.parent = S!NoParent,
                                              !.mention = FALSE] \in S!Message
<1>1. written \in Seq(S!Message)
  BY DEF S!MessengerTypeOK
<1>2. commands[k] \in Command
  BY CommandFacts
<1>3. commands[k].msg \in DOMAIN written
  BY <1>2 DEF Command
<1>4. written[commands[k].msg] \in S!Message
  BY <1>1, <1>3, LenProperties, ElementOfSeq
<1>5. QED
  BY <1>4 DEF S!Message

LEMMA SlackStep ==
    ASSUME IInv, ProgramAssumption,
           \/ SlackNotify \/ SlackConnect \/ SlackRefuse \/ SlackLose
           \/ SlackWrites \/ SlackDisturb \/ SlackAnswer \/ SlackHandle
    PROVE  IInv'
<1>1. ASSUME NEW n \in S!Notifications, Slack, S!Notify(n)
      PROVE  IInv'
  <2>1. /\ S!PostNotification(n) \/ S!PostUnanswered(n)
        /\ UNCHANGED <<link, events, selfID, messages>>
    BY <1>1 DEF S!Notify
  <2>2. S!MessengerTypeOK' /\ written' = written /\ commands' = commands
    BY <1>1, <2>1, SlackFacts, NotifyTypes
  <2>3. S!SlackTypeOK'
    BY <1>1, <2>1, <2>2, SlackFacts DEF S!SlackTypeOK
  <2>4. Once' /\ Fresh'
    BY <1>1, <2>1, <2>2, SlackFacts, SameEvents DEF Pending, Commanded
  <2>5. Modest' /\ Reached'
    BY <1>1, <2>1, <2>2, SlackFacts DEF IInv, Modest, Reached
  <2>6. QED
    BY <1>1, <2>3, <2>4, <2>5, SlackKeepsIInv
<1>2. CASE SlackConnect \/ SlackDisturb
  <2>1. /\ Slack /\ S!messengerVars' = S!messengerVars /\ selfID' = selfID /\ messages' = messages
        /\ \/ events' = <<[kind |-> "connected", msg |-> 0]>>
           \/ events' = <<[kind |-> "empty", msg |-> 0]>>
        /\ link' = "up"
    BY <1>2 DEF SlackConnect, SlackDisturb, S!Connect, S!Disturb, S!Event
  <2>2. /\ written' = written /\ commands' = commands /\ S!MessengerTypeOK'
    BY <2>1, SlackFacts DEF S!messengerVars, S!MessengerTypeOK
  <2>3. events' \in Seq(SlackEvent)
    <3>1. /\ [kind |-> "connected", msg |-> 0] \in SlackEvent
          /\ [kind |-> "empty", msg |-> 0] \in SlackEvent
      BY DEF SlackEvent
    <3>2. CASE events' = <<[kind |-> "connected", msg |-> 0]>>
      BY <3>1, <3>2
    <3>3. CASE events' = <<[kind |-> "empty", msg |-> 0]>>
      BY <3>1, <3>3
    <3>4. QED
      BY <2>1, <3>2, <3>3
  <2>4. S!SlackTypeOK'
    BY <2>1, <2>2, <2>3, SlackFacts DEF S!SlackTypeOK, SlackEvent
  <2>5. Once' /\ Fresh'
    <3>1. \A e \in DOMAIN events' : events'[e].kind \notin Telling
      BY <2>1 DEF Telling
    <3>2. QED
      BY <2>1, <2>2, <3>1, SlackFacts, SameEvents DEF Pending, Commanded
  <2>6. Modest' /\ Reached'
    <3>1. CASE SlackConnect
      <4>1. events' # <<>> /\ events'[1].kind = "connected"
        BY <3>1 DEF SlackConnect, S!Connect, S!Event
      <4>2. QED
        BY <4>1, <2>1, <2>2, SlackFacts DEF IInv, Modest, Reached
    <3>2. CASE SlackDisturb
      <4>1. link = "up" /\ events = <<>>
        BY <3>2 DEF SlackDisturb, S!Disturb
      <4>2. selfID
        BY <4>1, <2>1, SlackFacts DEF IInv, Reached
      <4>3. QED
        BY <4>2, <2>1, <2>2, SlackFacts DEF IInv, Modest, Reached
    <3>3. QED
      BY <1>2, <3>1, <3>2
  <2>7. QED
    BY <2>1, <2>4, <2>5, <2>6, SlackKeepsIInv
<1>3. CASE SlackRefuse \/ SlackLose
  <2>1. /\ Slack /\ S!messengerVars' = S!messengerVars /\ selfID' = selfID /\ messages' = messages
        /\ events' = events /\ link' \in {"refused", "lost"}
    BY <1>3 DEF SlackRefuse, SlackLose, S!Refuse, S!Lose
  <2>2. /\ written' = written /\ commands' = commands /\ S!MessengerTypeOK'
    BY <2>1, SlackFacts DEF S!messengerVars, S!MessengerTypeOK
  <2>3. S!SlackTypeOK'
    BY <2>1, <2>2, SlackFacts DEF S!SlackTypeOK
  <2>4. Once' /\ Fresh'
    BY <2>1, <2>2, SlackFacts, SameEvents DEF Pending, Commanded
  <2>5. Modest' /\ Reached'
    BY <2>1, <2>2, SlackFacts DEF IInv, Modest, Reached
  <2>6. QED
    BY <2>1, <2>3, <2>4, <2>5, SlackKeepsIInv
<1>4. ASSUME NEW m \in S!UserMessage, Slack, S!UserWrites(m)
      PROVE  IInv'
  <2>1. m \in S!Message /\ m.author = "user"
    BY DEF S!UserMessage
  <2>2. S!Speak(m) /\ S!Tell(m) /\ UNCHANGED <<commands, link, selfID, messages>>
    BY <1>4 DEF S!UserWrites
  <2>3. QED
    BY <1>4, <2>1, <2>2, SlackSpeakStep
<1>5. ASSUME NEW k \in DOMAIN commands, Slack, S!AnswerInPlace(k)
      PROVE  IInv'
  <2> DEFINE m == [written[commands[k].msg] EXCEPT !.author = "bot", !.mention = FALSE]
  <2>1. S!Answer(k, m) /\ S!Tell(m) /\ UNCHANGED <<link, selfID, messages>>
    BY <1>5 DEF S!AnswerInPlace
  <2>2. m \in S!Message /\ ~m.mention
    <3>1. m \in S!Message /\ written[commands[k].msg] \in S!Message
      BY <1>5, SlackFacts, AnswerIsAMessage
    <3>2. QED
      BY <3>1 DEF S!Message
  <2> HIDE DEF m
  <2>3. S!Speak(m)
    BY <2>1 DEF S!Answer
  <2>4. QED
    BY <1>5, <2>1, <2>2, <2>3, SlackSpeakStep
<1>6. CASE SlackHandle
  BY <1>6, SlackHandleStep
<1>7. QED
  BY <1>1, <1>2, <1>3, <1>4, <1>5, <1>6 DEF SlackNotify, SlackWrites, SlackAnswer

-----------------------------------------------------------------------------
(* Mattermost.                                                             *)

MattermostEvent == [kind : {"posted", "other", "data", "json"}, msg : {0} \cup DOMAIN written]

LEMMA MattermostFacts ==
    ASSUME IInv, Mattermost
    PROVE  /\ chat = "mattermost" /\ phase = "running" /\ crashed = "no"
           /\ chat' = chat /\ phase' = phase /\ selfID' = selfID /\ messages' = messages
           /\ M!MattermostTypeOK /\ ~selfID /\ messages = {}
           /\ S!MessengerTypeOK
           /\ Pending
           /\ events # <<>> => events[1] = Head(events) /\ 1 \in DOMAIN events
<1>1. /\ chat = "mattermost" /\ phase = "running" /\ crashed = "no"
      /\ chat' = chat /\ phase' = phase /\ selfID' = selfID /\ messages' = messages
  BY DEF Mattermost, Alive, slackOnly
<1>2. M!MattermostTypeOK /\ S!MessengerTypeOK /\ ~selfID /\ messages = {}
  BY <1>1, SameMessenger DEF IInv, TypeOK, M!MattermostTypeOK
<1>3. DOMAIN written \subseteq Nat
  <2>1. written \in Seq(S!Message)
    BY <1>2 DEF S!MessengerTypeOK
  <2>2. QED
    BY <2>1, LenProperties
<1>4. events \in Seq(AnyEvent)
  <2>1. MattermostEvent \subseteq AnyEvent
    BY <1>3 DEF AnyEvent, Telling, MattermostEvent
  <2>2. events \in Seq(MattermostEvent)
    BY <1>2 DEF M!MattermostTypeOK, MattermostEvent
  <2>3. QED
    BY <2>1, <2>2, SeqMonotonic
<1>5. events # <<>> => events[1] = Head(events) /\ 1 \in DOMAIN events
  BY <1>4, Shortened
<1>6. QED
  BY <1>1, <1>2, <1>4, <1>5 DEF IInv, Pending

LEMMA MattermostKeepsIInv ==
    ASSUME IInv, Mattermost, M!MattermostTypeOK', Once', Fresh', Modest'
    PROVE  IInv'
<1>1. /\ chat = "mattermost" /\ phase = "running" /\ chat' = chat /\ phase' = phase
      /\ ~selfID' /\ messages' = {}
  BY MattermostFacts
<1>2. TypeOK'
  BY <1>1 DEF TypeOK
<1>3. Untouched' /\ Reached'
  BY <1>1 DEF Untouched, Reached
<1>4. QED
  BY <1>2, <1>3 DEF IInv

\* What the goroutine of Commands does with an event.
LEMMA MattermostHandled ==
    ASSUME IInv, Mattermost, M!Handle, ProgramAssumption
    PROVE  /\ events # <<>>
           /\ events' = Tail(events)
           /\ UNCHANGED <<link, setUp, renamed>>
           /\ \/ S!Nothing
              \/ \E why \in {"race", "self", "data", "json", "empty"} : S!Crash(why)
              \/ \E job : /\ S!Run(Head(events).msg, job)
                          /\ Worthy(Head(events).msg, job)
                          /\ Head(events).kind = "posted"
<1> DEFINE i == Head(events).msg
<1>1. /\ events # <<>> /\ events' = Tail(events) /\ UNCHANGED <<link, setUp, renamed>>
  BY DEF M!Handle, M!SkipOther, M!NoPost, M!BadPost, M!PostWithoutSelf, M!SkipOwn, M!HandlePost, M!IsDirectMessage, M!Next
<1>2. Head(events).kind = "posted" => i \in DOMAIN written /\ i \notin Commanded
  BY <1>1, MattermostFacts DEF Pending, Fresh, Telling, Second
<1>3. CASE M!SkipOther \/ M!SkipOwn
  BY <1>1, <1>3, SameMessenger DEF M!SkipOther, M!SkipOwn
<1>4. CASE M!NoPost \/ M!BadPost \/ M!PostWithoutSelf
  BY <1>1, <1>4, SameMessenger DEF M!NoPost, M!BadPost, M!PostWithoutSelf
<1>5. CASE M!HandlePost
  <2>1. /\ Head(events).kind = "posted" /\ written[i].author = "user"
        /\ \/ "found" \in S!Lookup(written[i].parent) /\ S!Run(i, written[i].parent)
           \/ S!Crash("race")
           \/ /\ written[i].mention \/ written[i].place = "direct"
              /\ S!Run(i, S!NoParent)
           \/ S!Nothing
    BY <1>5, SameMessenger DEF M!HandlePost, M!IsDirectMessage, M!Next, M!FromUser, M!Mentions
  <2>2. ASSUME "found" \in S!Lookup(written[i].parent)
        PROVE  Worthy(i, written[i].parent)
    <3>1. written[i].parent \in posted /\ written[i].parent # S!NoParent
      BY <2>2, MattermostFacts, FoundIsPosted DEF ProgramAssumption
    <3>2. QED
      BY <3>1, <2>1, <1>2 DEF Worthy
  <2>3. ASSUME written[i].mention \/ written[i].place = "direct"
        PROVE  Worthy(i, S!NoParent)
    BY <2>1, <2>3, <1>2 DEF Worthy
  <2>4. QED
    BY <2>1, <2>2, <2>3, <1>1
<1>6. QED
  BY <1>3, <1>4, <1>5 DEF M!Handle

LEMMA MattermostHandleStep ==
    ASSUME IInv, MattermostHandle, ProgramAssumption
    PROVE  IInv'
<1>1. Mattermost /\ M!Handle
  BY DEF MattermostHandle
<1> DEFINE i == Head(events).msg
           Result ==
              /\ S!MessengerTypeOK'
              /\ written' = written
              /\ \/ commands' = commands
                 \/ /\ Commanded' \subseteq Commanded \cup {i}
                    /\ Head(events).kind = "posted"
<1>2. /\ events # <<>> /\ events' = Tail(events) /\ UNCHANGED <<link, setUp, renamed>>
      /\ messages' = messages
  BY <1>1, MattermostFacts, MattermostHandled
<1>3. Result
  <2>1. CASE S!Nothing \/ \E why \in {"race", "self", "data", "json", "empty"} : S!Crash(why)
    BY <2>1, <1>1, MattermostFacts, QuietTypes
  <2>2. ASSUME NEW job, S!Run(i, job), Worthy(i, job), Head(events).kind = "posted"
        PROVE  Result
    BY <2>2, <1>1, MattermostFacts, RunTypes DEF Worthy
  <2>3. QED
    BY <2>1, <2>2, <1>1, MattermostHandled
<1>4. Once' /\ Fresh'
  BY <1>1, <1>2, <1>3, MattermostFacts, TakenEvent DEF Telling
<1>5. M!MattermostTypeOK'
  <2>1. events \in Seq(MattermostEvent)
    BY <1>1, MattermostFacts DEF M!MattermostTypeOK, MattermostEvent
  <2>2. events' \in Seq(MattermostEvent)
    BY <2>1, <1>2, Shortened
  <2>3. M!MessengerTypeOK'
    BY <1>3, SameMessenger
  <2>4. QED
    BY <2>2, <2>3, <1>1, <1>2, <1>3, MattermostFacts DEF M!MattermostTypeOK, MattermostEvent
<1>6. Modest'
  BY <1>3 DEF IInv, Modest
<1>7. QED
  BY <1>1, <1>4, <1>5, <1>6, MattermostKeepsIInv

\* A message, of a user or of the bot, and the event that tells of it.
LEMMA MattermostSpeakStep ==
    ASSUME IInv, Mattermost, ProgramAssumption, NEW m \in S!Message, S!Speak(m), M!Tell,
           m.author = "bot" => ~m.mention,
           commands' = commands \/ \E k \in DOMAIN commands : S!Answer(k, m),
           UNCHANGED <<link, setUp, renamed>>
    PROVE  IInv'
<1> DEFINE i == Len(written) + 1
           posting == M!Event("posted", i)
<1>1. /\ S!MessengerTypeOK'
      /\ written \in Seq(S!Message)
      /\ written' = Append(written, m)
      /\ Commanded' = Commanded
      /\ Len(written) \in Nat
      /\ DOMAIN written' = DOMAIN written \cup {i}
      /\ \A j \in DOMAIN written : written'[j] = written[j]
      /\ written'[i] = m
  BY MattermostFacts, SpeakTypes
<1>2. posting = [kind |-> "posted", msg |-> i]
  BY DEF M!Event
<1>3. posting \in AnyEvent /\ posting \in MattermostEvent'
  BY <1>1, <1>2 DEF AnyEvent, Telling, MattermostEvent
<1>4. PICK told \in {<<>>, <<posting>>} : events' = events \o told
  <2>1. events' = Append(events, posting) \/ events' = events
    BY DEF M!Tell
  <2>2. events \in Seq(AnyEvent)
    BY MattermostFacts DEF Pending
  <2> HIDE DEF posting
  <2>3. Append(events, posting) = events \o <<posting>> /\ events = events \o <<>>
    BY <2>2, <1>3, Appended, ConcatEmptySeq
  <2>4. QED
    BY <2>1, <2>3
<1>5. /\ told \in Seq(AnyEvent) /\ told \in Seq(MattermostEvent')
      /\ \A e \in DOMAIN told : told[e].msg = i
      /\ \A e, f \in DOMAIN told :
            (told[e].kind = "message_replied" <=> told[f].kind = "message_replied") => e = f
  <2> HIDE DEF posting
  <2>1. CASE told = <<>>
    BY <2>1
  <2>2. CASE told = <<posting>>
    BY <2>2, <1>2, <1>3
  <2>3. QED
    BY <2>1, <2>2
<1>6. Once' /\ Fresh'
  <2>1. Commanded \subseteq DOMAIN written
    BY MattermostFacts, CommandFacts
  <2>2. messages' = messages /\ messages \subseteq DOMAIN written
    BY MattermostFacts
  <2>3. QED
    BY <2>1, <2>2, <1>1, <1>4, <1>5, MattermostFacts, ToldEvents
<1>7. events \in Seq(MattermostEvent')
  <2>1. events \in Seq(MattermostEvent)
    BY MattermostFacts DEF M!MattermostTypeOK, MattermostEvent
  <2>2. MattermostEvent \subseteq MattermostEvent'
    BY <1>1 DEF MattermostEvent
  <2>3. QED
    BY <2>1, <2>2, SeqMonotonic
<1>8. M!MattermostTypeOK'
  <2>1. events' \in Seq(MattermostEvent')
    BY <1>4, <1>5, <1>7, Extended
  <2>2. M!MessengerTypeOK'
    BY <1>1, SameMessenger
  <2>3. QED
    BY <2>1, <2>2, MattermostFacts DEF M!MattermostTypeOK, MattermostEvent
<1>9. Modest'
  BY <1>1 DEF IInv, Modest
<1>10. QED
  BY <1>6, <1>8, <1>9, MattermostKeepsIInv

LEMMA MattermostStep ==
    ASSUME IInv, ProgramAssumption,
           \/ MattermostNotify \/ MattermostConnect \/ MattermostLose \/ MattermostRetry
           \/ MattermostLeave \/ MattermostWrites \/ MattermostDisturb
           \/ MattermostAnswer \/ MattermostHandle
    PROVE  IInv'
<1>1. ASSUME NEW n \in M!Notifications, Mattermost, M!Notify(n)
      PROVE  IInv'
  <2>1. /\ n \in S!Notifications
        /\ S!PostNotification(n) \/ S!PostUnanswered(n)
        /\ UNCHANGED <<link, events, setUp, renamed>>
    BY <1>1, SameMessenger DEF M!Notify
  <2>2. S!MessengerTypeOK' /\ written' = written /\ commands' = commands
    BY <1>1, <2>1, MattermostFacts, NotifyTypes
  <2>3. M!MattermostTypeOK'
    BY <1>1, <2>1, <2>2, MattermostFacts, SameMessenger DEF M!MattermostTypeOK
  <2>4. Once' /\ Fresh'
    BY <1>1, <2>1, <2>2, MattermostFacts, SameEvents DEF Pending, Commanded
  <2>5. Modest'
    BY <2>2 DEF IInv, Modest
  <2>6. QED
    BY <1>1, <2>3, <2>4, <2>5, MattermostKeepsIInv
<1>2. ASSUME Mattermost, M!messengerVars' = M!messengerVars,
             setUp' = setUp, renamed' = renamed,
             link' \in {"off", "up", "lost", "closed", "refused", "ended"},
             \/ events' = events
             \/ \E kind \in {"other", "data", "json"} : events' = <<[kind |-> kind, msg |-> 0]>>
      PROVE  IInv'
  <2>1. /\ written' = written /\ commands' = commands /\ S!MessengerTypeOK'
    BY <1>2, MattermostFacts DEF M!messengerVars, S!MessengerTypeOK
  <2>2. events \in Seq(MattermostEvent)
    BY <1>2, MattermostFacts DEF M!MattermostTypeOK, MattermostEvent
  <2>3. ASSUME NEW kind \in {"other", "data", "json"}, events' = <<[kind |-> kind, msg |-> 0]>>
        PROVE  events' \in Seq(MattermostEvent) /\ \A e \in DOMAIN events' : events'[e].kind \notin Telling
    <3>1. [kind |-> kind, msg |-> 0] \in MattermostEvent
      BY DEF MattermostEvent
    <3>2. QED
      BY <2>3, <3>1 DEF Telling
  <2>4. M!MattermostTypeOK'
    <3>1. events' \in Seq(MattermostEvent)
      BY <1>2, <2>2, <2>3
    <3>2. QED
      BY <3>1, <1>2, <2>1, MattermostFacts, SameMessenger DEF M!MattermostTypeOK, MattermostEvent
  <2>5. Once' /\ Fresh'
    BY <1>2, <2>1, <2>3, MattermostFacts, SameEvents DEF Pending, Commanded
  <2>6. Modest'
    BY <2>1 DEF IInv, Modest
  <2>7. QED
    BY <1>2, <2>4, <2>5, <2>6, MattermostKeepsIInv
<1>3. CASE MattermostConnect \/ MattermostLose \/ MattermostRetry \/ MattermostLeave
  <2>1. /\ Mattermost /\ M!messengerVars' = M!messengerVars /\ events' = events
        /\ setUp' = setUp /\ renamed' = renamed
        /\ link' \in {"off", "up", "lost", "closed", "refused", "ended"}
    BY <1>3 DEF MattermostConnect, MattermostLose, MattermostRetry, MattermostLeave,
                M!Connect, M!ConnectFails, M!Lose, M!Retry, M!Leave
  <2>2. QED
    BY <2>1, <1>2
<1>4. ASSUME NEW kind \in Garbage, Mattermost, M!Disturb(kind)
      PROVE  IInv'
  <2>1. kind \in {"other", "data", "json"}
    BY <1>4 DEF M!Disturb
  <2>2. /\ M!messengerVars' = M!messengerVars /\ setUp' = setUp /\ renamed' = renamed
        /\ link' = "up" /\ events' = <<[kind |-> kind, msg |-> 0]>>
    BY <1>4 DEF M!Disturb, M!Event
  <2>3. QED
    BY <1>4, <2>1, <2>2, <1>2
<1>5. ASSUME NEW m \in M!UserMessage, Mattermost, M!UserWrites(m)
      PROVE  IInv'
  <2>1. m \in S!Message /\ m.author = "user"
    BY SameMessenger DEF S!UserMessage
  <2>2. S!Speak(m) /\ M!Tell /\ UNCHANGED <<commands, link, setUp, renamed>>
    BY <1>5, SameMessenger DEF M!UserWrites
  <2>3. QED
    BY <1>5, <2>1, <2>2, MattermostSpeakStep
<1>6. ASSUME NEW k \in DOMAIN commands, Mattermost, M!AnswerInPlace(k)
      PROVE  IInv'
  <2> DEFINE m == [written[commands[k].msg] EXCEPT !.author = "bot", !.parent = S!NoParent,
                                                   !.mention = FALSE]
  <2>1. S!Answer(k, m) /\ M!Tell /\ UNCHANGED <<link, setUp, renamed>>
    BY <1>6, SameMessenger DEF M!AnswerInPlace
  <2>2. m \in S!Message /\ ~m.mention
    <3>1. m \in S!Message /\ written[commands[k].msg] \in S!Message
      BY <1>6, MattermostFacts, AnswerIsAMessage
    <3>2. QED
      BY <3>1 DEF S!Message
  <2> HIDE DEF m
  <2>3. S!Speak(m)
    BY <2>1 DEF S!Answer
  <2>4. QED
    BY <1>6, <2>1, <2>2, <2>3, MattermostSpeakStep
<1>7. CASE MattermostHandle
  BY <1>7, MattermostHandleStep
<1>8. QED
  BY <1>1, <1>3, <1>4, <1>5, <1>6, <1>7
     DEF MattermostNotify, MattermostWrites, MattermostDisturb, MattermostAnswer

-----------------------------------------------------------------------------
(* The steps of the monitor, and of main.                                  *)

LEMMA ChosenFacts ==
    ASSUME IInv, phase = "running"
    PROVE  /\ chat \in {"slack", "mattermost"}
           /\ S!MessengerTypeOK
<1>1. chat \in {"slack", "mattermost"}
  BY DEF IInv, TypeOK
<1>2. QED
  BY <1>1, SameMessenger DEF IInv, TypeOK, S!SlackTypeOK, M!MattermostTypeOK

LEMMA SharedStep ==
    ASSUME IInv, ProgramAssumption, BeginStore \/ EndStore \/ Take
    PROVE  IInv'
<1>1. /\ phase = "running"
      /\ UNCHANGED <<link, events, selfID, messages, setUp, renamed, chat, phase>>
  BY DEF BeginStore, EndStore, Take, Shared, Alive, slackOnly, mattermostOnly
<1>2. chat \in {"slack", "mattermost"} /\ S!MessengerTypeOK
  BY <1>1, ChosenFacts
<1>3. S!MessengerTypeOK' /\ written' = written /\ Commanded' = Commanded
  <2>1. CASE BeginStore \/ EndStore
    <3>1. S!BeginStore \/ S!EndStore
      BY <2>1 DEF BeginStore, EndStore
    <3>2. PICK n \in S!Notifications : TRUE
      BY <3>1, <1>2 DEF S!BeginStore, S!EndStore, S!MessengerTypeOK, S!Idle
    <3>3. QED
      BY <3>1, <3>2, <1>2, NotifyTypes DEF Commanded
  <2>2. CASE Take
    BY <2>2, <1>2, TakeTypes DEF Take
  <2>3. QED
    BY <2>1, <2>2
<1>4. TypeOK'
  <2>1. CASE chat = "slack"
    BY <2>1, <1>1, <1>3 DEF IInv, TypeOK, S!SlackTypeOK
  <2>2. CASE chat = "mattermost"
    BY <2>2, <1>1, <1>3, SameMessenger DEF IInv, TypeOK, M!MattermostTypeOK
  <2>3. QED
    BY <2>1, <2>2, <1>2
<1>5. Once' /\ Fresh'
  BY <1>1, <1>3, SameEvents DEF IInv
<1>6. Modest' /\ Reached' /\ Untouched'
  BY <1>1, <1>2, <1>3 DEF IInv, Modest, Reached, Untouched
<1>7. QED
  BY <1>4, <1>5, <1>6 DEF IInv

LEMMA ExitStep ==
    ASSUME IInv, Exit
    PROVE  IInv'
<1>1. /\ phase = "running" /\ phase' = "exited" /\ chat' = chat
      /\ known' = {} /\ notifying' = S!Idle /\ link' = "off" /\ events' = <<>> /\ messages' = {}
      /\ UNCHANGED <<written, posted, commands, crashed, selfID, setUp, renamed>>
  BY DEF Exit, mattermostOnly
<1>2. chat \in {"slack", "mattermost"} /\ S!MessengerTypeOK
  BY <1>1, ChosenFacts
<1>3. S!MessengerTypeOK'
  BY <1>1, <1>2 DEF S!MessengerTypeOK
<1>4. TypeOK'
  <2>1. CASE chat = "slack"
    BY <2>1, <1>1, <1>3 DEF IInv, TypeOK, S!SlackTypeOK
  <2>2. CASE chat = "mattermost"
    BY <2>2, <1>1, <1>3, SameMessenger DEF IInv, TypeOK, M!MattermostTypeOK
  <2>3. QED
    BY <2>1, <2>2, <1>2
<1>5. Once' /\ Fresh' /\ Reached'
  BY <1>1 DEF Once, Fresh, Reached
<1>6. Modest' /\ Untouched'
  BY <1>1, <1>2 DEF IInv, Modest, Untouched
<1>7. QED
  BY <1>4, <1>5, <1>6 DEF IInv

LEMMA InitialTypes ==
    ASSUME S!SlackInit, M!MattermostInit
    PROVE  S!SlackTypeOK /\ M!MattermostTypeOK /\ ~selfID /\ messages = {}
<1>1. S!MessengerTypeOK
  <2>1. /\ written = <<>> /\ posted = {} /\ known = {} /\ notifying = S!Idle
        /\ commands = <<>> /\ crashed = "no"
    BY DEF S!SlackInit, S!MessengerInit
  <2>2. QED
    BY <2>1 DEF S!MessengerTypeOK
<1>2. /\ link = "off" /\ events = <<>> /\ ~selfID /\ selfID \in BOOLEAN /\ messages = {}
      /\ setUp \in BOOLEAN /\ renamed \in BOOLEAN
  BY DEF S!SlackInit, M!MattermostInit, M!UpdateBotUser
<1>3. S!SlackTypeOK
  BY <1>1, <1>2 DEF S!SlackTypeOK
<1>4. M!MattermostTypeOK
  BY <1>1, <1>2, SameMessenger DEF M!MattermostTypeOK
<1>5. QED
  BY <1>2, <1>3, <1>4

LEMMA StartStep ==
    ASSUME IInv, Start
    PROVE  IInv'
<1>1. /\ phase = "starting" /\ chat' \in {"slack", "mattermost", "none"}
      /\ phase' = IF chat' = "none" THEN "panicked" ELSE "running"
      /\ UNCHANGED <<written, posted, known, notifying, commands, crashed, link, events,
                     selfID, messages, setUp, renamed>>
  BY DEF Start, ChatFromFlags, bothChats, slackOnly, mattermostOnly
<1>2. S!SlackInit /\ M!MattermostInit
  BY <1>1 DEF IInv, Untouched
<1>3. S!SlackInit' /\ M!MattermostInit'
  BY <1>1, <1>2 DEF S!SlackInit, M!MattermostInit, M!UpdateBotUser, S!MessengerInit, M!MessengerInit, S!Idle, M!Idle
<1>4. (S!SlackTypeOK /\ M!MattermostTypeOK /\ ~selfID /\ messages = {})'
  <2>1. S!SlackTypeOK /\ M!MattermostTypeOK /\ ~selfID /\ messages = {}
    BY <1>2, InitialTypes
  <2>2. QED
    BY <2>1, <1>1 DEF S!SlackTypeOK, M!MattermostTypeOK, S!MessengerTypeOK, M!MessengerTypeOK
<1>5. TypeOK'
  BY <1>1, <1>4 DEF TypeOK
<1>6. Once' /\ Fresh' /\ Modest' /\ Reached'
  BY <1>3 DEF Once, Fresh, Modest, Reached, S!SlackInit, S!MessengerInit
<1>7. Untouched'
  BY <1>1, <1>3 DEF Untouched
<1>8. QED
  BY <1>5, <1>6, <1>7 DEF IInv

LEMMA InitIInv == Init => IInv
<1> SUFFICES ASSUME Init PROVE IInv
  OBVIOUS
<1>1. S!SlackInit /\ M!MattermostInit /\ chat = "none" /\ phase = "starting"
  BY DEF Init
<1>2. TypeOK /\ Untouched
  BY <1>1 DEF TypeOK, Untouched
<1>3. Once /\ Fresh /\ Modest /\ Reached
  BY <1>1 DEF Once, Fresh, Modest, Reached, S!SlackInit, S!MessengerInit
<1>4. QED
  BY <1>2, <1>3 DEF IInv

LEMMA StutterStep ==
    ASSUME IInv, UNCHANGED programVars
    PROVE  IInv'
<1>1. UNCHANGED <<written, posted, known, notifying, commands, crashed, link, events,
                  selfID, messages, setUp, renamed, chat, phase>>
  BY DEF programVars, bothChats, slackOnly, mattermostOnly
<1>2. TypeOK'
  BY <1>1 DEF IInv, TypeOK, S!SlackTypeOK, M!MattermostTypeOK, S!MessengerTypeOK, M!MessengerTypeOK
<1>3. Once' /\ Fresh'
  BY <1>1, SameEvents DEF IInv, Commanded
<1>4. Modest' /\ Reached' /\ Untouched'
  BY <1>1 DEF IInv, Modest, Reached, Untouched, S!SlackInit, M!MattermostInit, M!UpdateBotUser,
              S!MessengerInit, M!MessengerInit, S!Idle, M!Idle
<1>5. QED
  BY <1>2, <1>3, <1>4 DEF IInv

LEMMA NextIInv == IInv /\ [ProgramNext]_programVars => IInv'
<1> SUFFICES ASSUME IInv, [ProgramNext]_programVars PROVE IInv'
  OBVIOUS
<1>1. ProgramAssumption
  BY ProgramAssumption
<1>2. QED
  BY <1>1, StartStep, ExitStep, SharedStep, SlackStep, MattermostStep, StutterStep DEF ProgramNext

LEMMA Invariant == ProgramSpec => []IInv
BY InitIInv, NextIInv, PTL DEF ProgramSpec

\* Every variable has its type, whichever chat was chosen, and the variables of
\* the other one stay as they were (the maps, the connection and the events of
\* both Notifiers).
THEOREM ProgramTypes == ProgramSpec => []TypeOK
<1>1. IInv => TypeOK
  BY DEF IInv
<1>2. QED
  BY <1>1, Invariant, PTL

-----------------------------------------------------------------------------
(* The steps of the program are steps of Chat.                             *)

LEMMA ObeyStep ==
    ASSUME S!MessengerTypeOK, ProgramAssumption, NEW i, NEW job, Worthy(i, job), S!Run(i, job)
    PROVE  C!ChatNext
<1>1. /\ i \in DOMAIN written /\ job \in posted \cup {S!NoParent} /\ i \notin Commanded
      /\ written[i].author = "user"
      /\ IF job = S!NoParent
         THEN written[i].mention \/ written[i].place = "direct"
         ELSE job = written[i].parent /\ job \in posted
  BY DEF Worthy
<1>2. bar' = Append(bar, [msg |-> i, job |-> job])
  BY <1>1, BarGrows DEF ProgramAssumption
<1>3. written' = written /\ posted' = posted
  BY DEF S!Run
<1>4. \A k \in DOMAIN bar : bar[k].msg # i
  BY <1>1 DEF bar, Commanded
<1>5. C!Obey(i, job)
  BY <1>1, <1>2, <1>3, <1>4 DEF C!Obey, bar
<1>6. job \in S!Notifications \cup {S!NoParent}
  BY <1>1 DEF S!MessengerTypeOK
<1>7. QED
  BY <1>1, <1>5, <1>6 DEF C!ChatNext

LEMMA SayStep ==
    ASSUME S!MessengerTypeOK, NEW m \in S!Message, S!Speak(m),
           commands' = commands \/ \E k \in DOMAIN commands : S!Answer(k, m)
    PROVE  C!ChatNext
<1>1. written' = Append(written, m) /\ posted' = posted /\ bar' = bar
  BY SpeakTypes, BarStays
<1>2. m \in C!Message
  BY DEF C!Message, S!Message
<1>3. C!Say(m)
  BY <1>1 DEF C!Say, bar
<1>4. QED
  BY <1>2, <1>3 DEF C!ChatNext

LEMMA PostStep ==
    ASSUME NEW n \in S!Notifications, S!PostNotification(n) \/ S!PostUnanswered(n)
    PROVE  C!ChatNext
<1>1. posted' = posted \cup {n} /\ written' = written /\ commands' = commands
  BY DEF S!PostNotification, S!PostUnanswered
<1>2. C!Post(n)
  BY <1>1 DEF C!Post
<1>3. QED
  BY <1>2 DEF C!ChatNext

LEMMA UnseenStep ==
    ASSUME written' = written, posted' = posted, bar' = bar
    PROVE  UNCHANGED C!chatVars
BY DEF C!chatVars, bar

LEMMA SlackRefines ==
    ASSUME IInv, ProgramAssumption,
           \/ SlackNotify \/ SlackConnect \/ SlackRefuse \/ SlackLose
           \/ SlackWrites \/ SlackDisturb \/ SlackAnswer \/ SlackHandle
    PROVE  [C!ChatNext]_C!chatVars
<1>1. Slack /\ S!MessengerTypeOK
  <2>1. Slack
    BY DEF SlackNotify, SlackConnect, SlackRefuse, SlackLose, SlackWrites, SlackDisturb,
           SlackAnswer, SlackHandle
  <2>2. QED
    BY <2>1, SlackFacts
<1>2. CASE SlackNotify
  BY <1>2, PostStep DEF SlackNotify, S!Notify
<1>3. CASE SlackConnect \/ SlackRefuse \/ SlackLose \/ SlackDisturb
  <2>1. S!messengerVars' = S!messengerVars
    BY <1>3 DEF SlackConnect, SlackRefuse, SlackLose, SlackDisturb,
                S!Connect, S!Refuse, S!Lose, S!Disturb
  <2>2. written' = written /\ posted' = posted /\ bar' = bar
    BY <2>1 DEF S!messengerVars, bar
  <2>3. QED
    BY <2>2, UnseenStep
<1>4. ASSUME NEW m \in S!UserMessage, S!UserWrites(m)
      PROVE  C!ChatNext
  <2>1. m \in S!Message /\ S!Speak(m) /\ commands' = commands
    BY <1>4 DEF S!UserMessage, S!UserWrites
  <2>2. QED
    BY <2>1, <1>1, SayStep
<1>5. ASSUME NEW k \in DOMAIN commands, S!AnswerInPlace(k)
      PROVE  C!ChatNext
  <2> DEFINE m == [written[commands[k].msg] EXCEPT !.author = "bot", !.mention = FALSE]
  <2>1. S!Answer(k, m)
    BY <1>5 DEF S!AnswerInPlace
  <2>2. m \in S!Message
    BY <1>1, AnswerIsAMessage
  <2> HIDE DEF m
  <2>3. S!Speak(m)
    BY <2>1 DEF S!Answer
  <2>4. QED
    BY <2>1, <2>2, <2>3, <1>1, SayStep
<1>6. CASE SlackHandle
  <2>1. \/ S!Nothing \/ S!Crash("race") \/ S!Crash("empty")
        \/ \E job : S!Run(Head(events).msg, job) /\ Worthy(Head(events).msg, job)
    BY <1>1, <1>6, SlackHandled DEF SlackHandle
  <2>2. CASE S!Nothing \/ S!Crash("race") \/ S!Crash("empty")
    <3>1. written' = written /\ posted' = posted /\ commands' = commands
      BY <2>2, <1>1, QuietTypes
    <3>2. QED
      BY <3>1, UnseenStep DEF bar
  <2>3. QED
    BY <2>1, <2>2, <1>1, ObeyStep
<1>7. QED
  BY <1>2, <1>3, <1>4, <1>5, <1>6 DEF SlackWrites, SlackAnswer

LEMMA MattermostRefines ==
    ASSUME IInv, ProgramAssumption,
           \/ MattermostNotify \/ MattermostConnect \/ MattermostLose \/ MattermostRetry
           \/ MattermostLeave \/ MattermostWrites \/ MattermostDisturb
           \/ MattermostAnswer \/ MattermostHandle
    PROVE  [C!ChatNext]_C!chatVars
<1>1. Mattermost /\ S!MessengerTypeOK
  <2>1. Mattermost
    BY DEF MattermostNotify, MattermostConnect, MattermostLose, MattermostRetry, MattermostLeave,
           MattermostWrites, MattermostDisturb, MattermostAnswer, MattermostHandle
  <2>2. QED
    BY <2>1, MattermostFacts
<1>2. CASE MattermostNotify
  BY <1>2, PostStep, SameMessenger DEF MattermostNotify, M!Notify
<1>3. CASE \/ MattermostConnect \/ MattermostLose \/ MattermostRetry
           \/ MattermostLeave \/ MattermostDisturb
  <2>1. M!messengerVars' = M!messengerVars
    BY <1>3 DEF MattermostConnect, MattermostLose, MattermostRetry, MattermostLeave,
                MattermostDisturb, M!Connect, M!ConnectFails, M!Lose, M!Retry, M!Leave, M!Disturb
  <2>2. written' = written /\ posted' = posted /\ bar' = bar
    BY <2>1 DEF M!messengerVars, bar
  <2>3. QED
    BY <2>2, UnseenStep
<1>4. ASSUME NEW m \in M!UserMessage, M!UserWrites(m)
      PROVE  C!ChatNext
  <2>1. m \in S!Message /\ S!Speak(m) /\ commands' = commands
    BY <1>4, SameMessenger DEF S!UserMessage, M!UserWrites
  <2>2. QED
    BY <2>1, <1>1, SayStep
<1>5. ASSUME NEW k \in DOMAIN commands, M!AnswerInPlace(k)
      PROVE  C!ChatNext
  <2> DEFINE m == [written[commands[k].msg] EXCEPT !.author = "bot", !.parent = S!NoParent,
                                                   !.mention = FALSE]
  <2>1. S!Answer(k, m)
    BY <1>5, SameMessenger DEF M!AnswerInPlace
  <2>2. m \in S!Message
    BY <1>1, AnswerIsAMessage
  <2> HIDE DEF m
  <2>3. S!Speak(m)
    BY <2>1 DEF S!Answer
  <2>4. QED
    BY <2>1, <2>2, <2>3, <1>1, SayStep
<1>6. CASE MattermostHandle
  <2>1. \/ S!Nothing \/ \E why \in {"race", "self", "data", "json", "empty"} : S!Crash(why)
        \/ \E job : S!Run(Head(events).msg, job) /\ Worthy(Head(events).msg, job)
    BY <1>1, <1>6, MattermostHandled DEF MattermostHandle
  <2>2. CASE S!Nothing \/ \E why \in {"race", "self", "data", "json", "empty"} : S!Crash(why)
    <3>1. written' = written /\ posted' = posted /\ commands' = commands
      BY <2>2, <1>1, QuietTypes
    <3>2. QED
      BY <3>1, UnseenStep DEF bar
  <2>3. QED
    BY <2>1, <2>2, <1>1, ObeyStep
<1>7. QED
  BY <1>2, <1>3, <1>4, <1>5, <1>6 DEF MattermostWrites, MattermostDisturb, MattermostAnswer

LEMMA OtherStepsRefine ==
    ASSUME IInv, Start \/ Exit \/ BeginStore \/ EndStore \/ Take \/ UNCHANGED programVars
    PROVE  UNCHANGED C!chatVars
<1>1. CASE Start \/ Exit \/ UNCHANGED programVars
  <2>1. written' = written /\ posted' = posted /\ commands' = commands
    BY <1>1 DEF Start, Exit, programVars, bothChats
  <2>2. QED
    BY <2>1, UnseenStep DEF bar
<1>2. CASE BeginStore \/ EndStore
  <2>1. written' = written /\ posted' = posted /\ commands' = commands
    BY <1>2 DEF BeginStore, EndStore, S!BeginStore, S!EndStore
  <2>2. QED
    BY <2>1, UnseenStep DEF bar
<1>3. ASSUME NEW k \in DOMAIN commands, S!Take(k), phase = "running"
      PROVE  UNCHANGED C!chatVars
  <2>1. S!MessengerTypeOK
    BY <1>3, ChosenFacts
  <2>2. commands' = [commands EXCEPT ![k].at = "taken"] /\ "taken" \in Stages
    BY <1>3, Zenon DEF S!Take, Stages
  <2>3. bar' = bar
    BY <2>1, <2>2, CommandMoves, BarStays
  <2>4. written' = written /\ posted' = posted
    BY <1>3, Zenon DEF S!Take
  <2>5. QED
    BY <2>3, <2>4, UnseenStep
<1>4. QED
  BY <1>1, <1>2, <1>3 DEF Take, Shared, Alive

\* Both chats keep the promise of Chat, however many notifications and messages
\* there are (handleMessageEvent, handleReplyMessage and handlePost): the steps
\* of the program are steps of the abstract chat, or change nothing it has.
THEOREM ProgramImplementsChat == ProgramSpec => ImplementsChat
<1>1. Init => C!ChatInit
  BY DEF Init, S!SlackInit, S!MessengerInit, C!ChatInit
<1>2. IInv /\ [ProgramNext]_programVars => [C!ChatNext]_C!chatVars
  <2> SUFFICES ASSUME IInv, [ProgramNext]_programVars PROVE [C!ChatNext]_C!chatVars
    OBVIOUS
  <2>1. ProgramAssumption
    BY ProgramAssumption
  <2>2. QED
    BY <2>1, SlackRefines, MattermostRefines, OtherStepsRefine DEF ProgramNext
<1>3. QED
  BY <1>1, <1>2, Invariant, PTL DEF ProgramSpec, ImplementsChat, C!ChatSpec

-----------------------------------------------------------------------------
(* No reply is lost.                                                       *)

\* What the chats do beside the handling of events leaves the events there.
LEMMA EventsStay ==
    ASSUME Pending, NEW e \in DOMAIN events,
           \/ events' = events
           \/ \E told \in Seq(AnyEvent) : events' = events \o told
    PROVE  e \in DOMAIN events' /\ events'[e] = events[e]
<1>1. events \in Seq(AnyEvent)
  BY DEF Pending
<1>2. \A told \in Seq(AnyEvent) :
          e \in DOMAIN (events \o told) /\ (events \o told)[e] = events[e]
  BY <1>1, Extended
<1>3. QED
  BY <1>2

LEMMA SlackAddsEvents ==
    ASSUME IInv, Slack, NEW m, S!Speak(m), S!Tell(m)
    PROVE  \E told \in Seq(AnyEvent) : events' = events \o told
<1> DEFINE plain == S!Event("message", Len(written) + 1)
           replied == S!Event("message_replied", Len(written) + 1)
<1>1. PICK told \in {<<>>, <<plain>>, <<plain, replied>>, <<replied, plain>>} :
          events' = events \o told
  BY DEF S!Tell
<1>2. Len(written) \in Nat
  <2>1. written \in Seq(S!Message)
    BY SlackFacts DEF S!MessengerTypeOK
  <2>2. QED
    BY <2>1, LenProperties
<1>3. plain \in AnyEvent /\ replied \in AnyEvent
  BY <1>2 DEF S!Event, AnyEvent, Telling
<1> HIDE DEF plain, replied
<1>4. told \in Seq(AnyEvent)
  <2>1. <<plain>> \in Seq(AnyEvent)
    BY <1>3
  <2>2. <<plain, replied>> \in Seq(AnyEvent)
    BY <1>3
  <2>3. <<replied, plain>> \in Seq(AnyEvent)
    BY <1>3
  <2>4. <<>> \in Seq(AnyEvent)
    BY EmptySeq
  <2>5. QED
    BY <1>1, <2>1, <2>2, <2>3, <2>4
<1>5. QED
  BY <1>1, <1>4

LEMMA MattermostAddsEvents ==
    ASSUME IInv, Mattermost, M!Tell
    PROVE  events' = events \/ \E told \in Seq(AnyEvent) : events' = events \o told
<1> DEFINE posting == M!Event("posted", Len(written) + 1)
<1>1. events' = Append(events, posting) \/ events' = events
  BY DEF M!Tell
<1>2. Len(written) \in Nat
  <2>1. written \in Seq(S!Message)
    BY MattermostFacts DEF S!MessengerTypeOK
  <2>2. QED
    BY <2>1, LenProperties
<1>3. posting \in AnyEvent /\ <<posting>> \in Seq(AnyEvent)
  BY <1>2 DEF M!Event, AnyEvent, Telling
<1> HIDE DEF posting
<1>4. Append(events, posting) = events \o <<posting>>
  BY <1>3, MattermostFacts, Appended DEF Pending
<1>5. QED
  BY <1>1, <1>3, <1>4

\* Everything else a due reply rests on stays as it is when nobody writes the
\* map: the reply itself, its author, its parent and the entry of the parent.
LEMMA ReplyStays ==
    ASSUME S!MessengerTypeOK, NEW i \in DOMAIN written,
           \/ written' = written
           \/ \E m \in S!Message : written' = Append(written, m),
           known \subseteq known'
    PROVE  /\ i \in DOMAIN written' /\ written'[i] = written[i]
           /\ written[i].parent \in known => written'[i].parent \in known'
<1>1. written \in Seq(S!Message)
  BY DEF S!MessengerTypeOK
<1>2. QED
  BY <1>1, Appended

LEMMA SlackKeepsReplies ==
    ASSUME IInv, NEW i \in DOMAIN written, S!ReplyIsDue(i),
           \/ SlackNotify \/ SlackConnect \/ SlackRefuse \/ SlackLose
           \/ SlackWrites \/ SlackDisturb \/ SlackAnswer
    PROVE  S!ReplyIsDue(i)'
<1>1. /\ Slack /\ S!MessengerTypeOK /\ Pending
  <2>1. Slack
    BY DEF SlackNotify, SlackConnect, SlackRefuse, SlackLose, SlackWrites, SlackDisturb, SlackAnswer
  <2>2. QED
    BY <2>1, SlackFacts
<1>2. PICK e \in DOMAIN events : events[e] = S!Event("message_replied", i)
  BY DEF S!ReplyIsDue
<1> DEFINE Keeps ==
             /\ known' = known /\ selfID' = selfID /\ messages' = messages
             /\ written' = written \/ \E m \in S!Message : written' = Append(written, m)
             /\ events' = events \/ \E told \in Seq(AnyEvent) : events' = events \o told
<1>3. Keeps
  <2>1. CASE SlackNotify
    BY <2>1 DEF SlackNotify, S!Notify, S!PostNotification, S!PostUnanswered
  <2>2. CASE SlackConnect \/ SlackDisturb
    <3>1. events # <<>>
      BY <1>2
    <3>2. QED
      BY <2>2, <3>1 DEF SlackConnect, S!Connect, SlackDisturb, S!Disturb
  <2>3. CASE SlackRefuse \/ SlackLose
    BY <2>3 DEF SlackRefuse, SlackLose, S!Refuse, S!Lose, S!messengerVars
  <2>4. ASSUME NEW m \in S!UserMessage, S!UserWrites(m)
        PROVE  Keeps
    <3>1. /\ m \in S!Message /\ S!Speak(m) /\ S!Tell(m) /\ selfID' = selfID /\ messages' = messages
      BY <2>4 DEF S!UserMessage, S!UserWrites
    <3>2. known' = known /\ written' = Append(written, m)
      BY <3>1 DEF S!Speak
    <3>3. QED
      BY <3>1, <3>2, <1>1, SlackAddsEvents
  <2>5. ASSUME NEW k \in DOMAIN commands, S!AnswerInPlace(k)
        PROVE  Keeps
    <3> DEFINE m == [written[commands[k].msg] EXCEPT !.author = "bot", !.mention = FALSE]
    <3>1. S!Answer(k, m) /\ S!Tell(m) /\ selfID' = selfID /\ messages' = messages
      BY <2>5 DEF S!AnswerInPlace
    <3>2. m \in S!Message
      BY <1>1, ProgramAssumption, AnswerIsAMessage
    <3> HIDE DEF m
    <3>3. S!Speak(m)
      BY <3>1 DEF S!Answer
    <3>4. known' = known /\ written' = Append(written, m)
      BY <3>3 DEF S!Speak
    <3>5. QED
      BY <3>1, <3>2, <3>3, <3>4, <1>1, SlackAddsEvents
  <2>6. QED
    BY <2>1, <2>2, <2>3, <2>4, <2>5 DEF SlackWrites, SlackAnswer
<1>4. e \in DOMAIN events' /\ events'[e] = events[e]
  BY <1>1, <1>3, EventsStay
<1>5. /\ i \in DOMAIN written' /\ written'[i] = written[i]
  BY <1>1, <1>3, ReplyStays
<1>6. QED
  BY <1>2, <1>3, <1>4, <1>5 DEF S!ReplyIsDue, S!Event

\* The goroutine of Commands: the reply whose turn it is becomes a command, and
\* the others move up.
LEMMA SlackRunsReply ==
    ASSUME IInv, NEW i \in DOMAIN written, S!ReplyIsDue(i), SlackHandle, ProgramAssumption,
           notifying.at # "storing", crashed' = "no"
    PROVE  S!ReplyIsDue(i)' \/ S!IsCommand(i)'
<1>1. Slack /\ S!Handle
  BY DEF SlackHandle
<1>2. /\ Pending /\ S!MessengerTypeOK /\ chat = "slack" /\ crashed = "no"
      /\ events' = Tail(events) /\ events # <<>>
      /\ Head(events) = events[1]
  BY <1>1, SlackFacts, SlackHandled
<1>3. PICK e \in DOMAIN events : events[e] = S!Event("message_replied", i)
  BY DEF S!ReplyIsDue
<1>4. i \in messages /\ selfID /\ written[i].parent \in known /\ written[i].author = "user"
  BY <1>2 DEF S!ReplyIsDue, IInv, Reached
<1>5. CASE e = 1
  <2>1. Head(events).kind = "message_replied" /\ Head(events).msg = i
    BY <1>2, <1>3, <1>5 DEF S!Event
  <2>2. S!Lookup(written[i].parent) = {"found"}
    BY <1>4 DEF S!Lookup
  <2>3. S!HandleReply
    BY <1>1, <1>4, <2>1
       DEF S!Handle, S!HandleConnected, S!HandleDirectMessage, S!IsIM, S!Ignore, S!HandleMention, S!Keep,
           S!IgnoreReply, S!HandleNoReply, S!Next, S!Kept
  <2>4. S!Run(i, written[i].parent)
    BY <2>1, <2>2, <2>3 DEF S!HandleReply
  <2>5. i \in Commanded'
    <3>1. written[i].parent \in posted
      BY <1>2, <1>4 DEF S!MessengerTypeOK
    <3>2. QED
      BY <1>2, <2>4, <3>1, RunTypes
  <2>6. QED
    BY <2>5 DEF S!IsCommand, Commanded
<1>6. CASE e # 1
  <2>1. e - 1 \in DOMAIN events' /\ events'[e - 1] = events[e]
    BY <1>2, <1>6, Shortened DEF Pending
  <2>2. messages \subseteq messages' /\ selfID' = selfID
    <3>1. selfID \in BOOLEAN
      BY <1>1, SlackFacts DEF S!SlackTypeOK
    <3>2. \/ selfID' = selfID /\ messages \subseteq messages'
          \/ S!HandleConnected
      BY <1>1
         DEF S!Handle, S!HandleDirectMessage, S!IsIM, S!Ignore, S!HandleMention, S!Keep,
             S!HandleReply, S!IgnoreReply, S!HandleNoReply
    <3>3. QED
      BY <3>1, <3>2, <1>4 DEF S!HandleConnected
  <2>3. written' = written /\ known' = known
    BY <1>1
       DEF S!Handle, S!HandleConnected, S!HandleDirectMessage, S!IsIM, S!Ignore, S!HandleMention, S!Keep,
           S!HandleReply, S!IgnoreReply, S!HandleNoReply, S!Run, S!Nothing, S!Crash, S!messengerVars
  <2>4. QED
    BY <1>3, <1>4, <2>1, <2>2, <2>3 DEF S!ReplyIsDue, S!Event
<1>7. QED
  BY <1>5, <1>6

LEMMA MattermostKeepsReplies ==
    ASSUME IInv, NEW i \in DOMAIN written, M!ReplyIsDue(i),
           \/ MattermostNotify \/ MattermostConnect \/ MattermostLose \/ MattermostRetry
           \/ MattermostLeave \/ MattermostWrites \/ MattermostDisturb \/ MattermostAnswer
    PROVE  M!ReplyIsDue(i)' /\ setUp' = setUp
<1>1. /\ Mattermost /\ S!MessengerTypeOK /\ Pending
  <2>1. Mattermost
    BY DEF MattermostNotify, MattermostConnect, MattermostLose, MattermostRetry, MattermostLeave,
           MattermostWrites, MattermostDisturb, MattermostAnswer
  <2>2. QED
    BY <2>1, MattermostFacts
<1>2. PICK e \in DOMAIN events : events[e] = M!Event("posted", i)
  BY DEF M!ReplyIsDue
<1> DEFINE Keeps ==
             /\ known' = known /\ setUp' = setUp
             /\ written' = written \/ \E m \in S!Message : written' = Append(written, m)
             /\ events' = events \/ \E told \in Seq(AnyEvent) : events' = events \o told
<1>3. Keeps
  <2>1. CASE MattermostNotify
    BY <2>1 DEF MattermostNotify, M!Notify, M!PostNotification, M!PostUnanswered
  <2>2. CASE MattermostDisturb
    <3>1. events # <<>>
      BY <1>2
    <3>2. QED
      BY <2>2, <3>1 DEF MattermostDisturb, M!Disturb
  <2>3. CASE MattermostConnect \/ MattermostLose \/ MattermostRetry \/ MattermostLeave
    BY <2>3 DEF MattermostConnect, MattermostLose, MattermostRetry, MattermostLeave,
                M!Connect, M!ConnectFails, M!Lose, M!Retry, M!Leave, M!messengerVars
  <2>4. ASSUME NEW m \in M!UserMessage, M!UserWrites(m)
        PROVE  Keeps
    <3>1. /\ m \in S!Message /\ S!Speak(m) /\ M!Tell /\ setUp' = setUp
      BY <2>4, SameMessenger DEF S!UserMessage, M!UserWrites
    <3>2. known' = known /\ written' = Append(written, m)
      BY <3>1 DEF S!Speak
    <3>3. QED
      BY <3>1, <3>2, <1>1, MattermostAddsEvents
  <2>5. ASSUME NEW k \in DOMAIN commands, M!AnswerInPlace(k)
        PROVE  Keeps
    <3> DEFINE m == [written[commands[k].msg] EXCEPT !.author = "bot", !.parent = S!NoParent,
                                                     !.mention = FALSE]
    <3>1. S!Answer(k, m) /\ M!Tell /\ setUp' = setUp
      BY <2>5, SameMessenger DEF M!AnswerInPlace
    <3>2. m \in S!Message
      BY <1>1, ProgramAssumption, AnswerIsAMessage
    <3> HIDE DEF m
    <3>3. S!Speak(m)
      BY <3>1 DEF S!Answer
    <3>4. known' = known /\ written' = Append(written, m)
      BY <3>3 DEF S!Speak
    <3>5. QED
      BY <3>1, <3>2, <3>4, <1>1, MattermostAddsEvents
  <2>6. QED
    BY <2>1, <2>2, <2>3, <2>4, <2>5 DEF MattermostWrites, MattermostAnswer
<1>4. e \in DOMAIN events' /\ events'[e] = events[e]
  BY <1>1, <1>3, EventsStay
<1>5. /\ i \in DOMAIN written' /\ written'[i] = written[i]
  BY <1>1, <1>3, ReplyStays
<1>6. QED
  BY <1>2, <1>3, <1>4, <1>5 DEF M!ReplyIsDue, M!Event

LEMMA MattermostRunsReply ==
    ASSUME IInv, NEW i \in DOMAIN written, M!ReplyIsDue(i), setUp, MattermostHandle,
           ProgramAssumption, notifying.at # "storing", crashed' = "no"
    PROVE  (M!ReplyIsDue(i)' /\ setUp') \/ S!IsCommand(i)'
<1>1. Mattermost /\ M!Handle
  BY DEF MattermostHandle
<1>2. /\ Pending /\ S!MessengerTypeOK /\ crashed = "no"
      /\ events' = Tail(events) /\ events # <<>> /\ setUp' = setUp
      /\ Head(events) = events[1]
  BY <1>1, MattermostFacts, MattermostHandled
<1>3. PICK e \in DOMAIN events : events[e] = M!Event("posted", i)
  BY DEF M!ReplyIsDue
<1>4. written[i].parent \in known /\ written[i].author = "user"
  BY DEF M!ReplyIsDue
<1>5. CASE e = 1
  <2>1. Head(events).kind = "posted" /\ Head(events).msg = i
    BY <1>2, <1>3, <1>5 DEF M!Event
  <2>2. S!Lookup(written[i].parent) = {"found"} /\ M!Lookup(written[i].parent) = {"found"}
    BY <1>4, SameMessenger DEF S!Lookup
  <2>3. M!HandlePost
    BY <1>1, <1>4, <2>1
       DEF M!Handle, M!SkipOther, M!NoPost, M!BadPost, M!PostWithoutSelf, M!SkipOwn, M!Next, M!FromUser
  <2>4. S!Run(i, written[i].parent)
    BY <2>1, <2>2, <2>3, SameMessenger DEF M!HandlePost, M!IsDirectMessage
  <2>5. i \in Commanded'
    <3>1. written[i].parent \in posted
      BY <1>2, <1>4 DEF S!MessengerTypeOK
    <3>2. QED
      BY <1>2, <2>4, <3>1, RunTypes
  <2>6. QED
    BY <2>5 DEF S!IsCommand, Commanded
<1>6. CASE e # 1
  <2>1. e - 1 \in DOMAIN events' /\ events'[e - 1] = events[e]
    BY <1>2, <1>6, Shortened DEF Pending
  <2>2. written' = written /\ known' = known
    BY <1>1
       DEF M!Handle, M!SkipOther, M!NoPost, M!BadPost, M!PostWithoutSelf, M!SkipOwn, M!HandlePost, M!IsDirectMessage,
           M!Run, M!Nothing, M!Crash, M!messengerVars
  <2>3. QED
    BY <1>2, <1>3, <1>4, <2>1, <2>2 DEF M!ReplyIsDue, M!Event
<1>7. QED
  BY <1>5, <1>6

\* What the monitor does to the map and to the commands, and main, loses none.
LEMMA OthersKeepReplies ==
    ASSUME IInv, NEW i \in DOMAIN written, ReplyIsDue(i), notifying.at # "storing",
           \/ Start \/ BeginStore \/ EndStore \/ Take \/ UNCHANGED programVars
    PROVE  ReplyIsDue(i)'
<1>1. ~Start
  BY DEF Start, ReplyIsDue, IInv, Untouched
<1>2. ~EndStore
  BY DEF EndStore, S!EndStore
<1>3. UNCHANGED <<written, known, link, events, selfID, messages, setUp, chat>>
  <2>1. CASE BeginStore
    BY <2>1 DEF BeginStore, Shared, S!BeginStore, slackOnly, mattermostOnly
  <2>2. CASE Take
    BY <2>2, Zenon DEF Take, Shared, S!Take, slackOnly, mattermostOnly
  <2>3. CASE UNCHANGED programVars
    BY <2>3 DEF programVars, bothChats, slackOnly, mattermostOnly
  <2>4. QED
    BY <1>1, <1>2, <2>1, <2>2, <2>3
<1>4. QED
  BY <1>3 DEF ReplyIsDue, S!ReplyIsDue, M!ReplyIsDue, S!Event, M!Event

\* A reply that was stored and announced in the order the chat understands
\* becomes a command, for any number of notifications and messages
\* (handleReplyMessage and handlePost), unless the map is written at that
\* moment or the process ends.
THEOREM NoReplyLost == ProgramSpec => RepliesAreRun
<1>1. IInv /\ [ProgramNext]_programVars =>
        [\A i \in DOMAIN written :
            ReplyIsDue(i) =>
                ReplyIsDue(i)' \/ S!IsCommand(i)' \/ notifying.at = "storing" \/ ~Alive']_programVars
  <2> SUFFICES ASSUME IInv, [ProgramNext]_programVars, NEW i \in DOMAIN written, ReplyIsDue(i),
                      notifying.at # "storing", Alive'
               PROVE  ReplyIsDue(i)' \/ S!IsCommand(i)'
    OBVIOUS
  <2>1. ProgramAssumption
    BY ProgramAssumption
  <2>2. ~Exit /\ crashed' = "no"
    BY DEF Exit, Alive
  <2>3. CASE \/ SlackNotify \/ SlackConnect \/ SlackRefuse \/ SlackLose
             \/ SlackWrites \/ SlackDisturb \/ SlackAnswer \/ SlackHandle
    <3>1. chat = "slack" /\ chat' = "slack"
      BY <2>3 DEF SlackNotify, SlackConnect, SlackRefuse, SlackLose, SlackWrites, SlackDisturb,
                  SlackAnswer, SlackHandle, Slack
    <3>2. S!ReplyIsDue(i)
      BY <3>1 DEF ReplyIsDue
    <3>3. S!ReplyIsDue(i)' \/ S!IsCommand(i)'
      BY <2>1, <2>2, <2>3, <3>2, SlackKeepsReplies, SlackRunsReply
    <3>4. QED
      BY <3>1, <3>3 DEF ReplyIsDue
  <2>4. CASE \/ MattermostNotify \/ MattermostConnect \/ MattermostLose \/ MattermostRetry
             \/ MattermostLeave \/ MattermostWrites \/ MattermostDisturb
             \/ MattermostAnswer \/ MattermostHandle
    <3>1. chat = "mattermost" /\ chat' = "mattermost"
      BY <2>4 DEF MattermostNotify, MattermostConnect, MattermostLose, MattermostRetry,
                  MattermostLeave, MattermostWrites, MattermostDisturb, MattermostAnswer,
                  MattermostHandle, Mattermost
    <3>2. M!ReplyIsDue(i) /\ setUp
      BY <3>1 DEF ReplyIsDue
    <3>3. (M!ReplyIsDue(i)' /\ setUp') \/ S!IsCommand(i)'
      BY <2>1, <2>2, <2>4, <3>2, MattermostKeepsReplies, MattermostRunsReply
    <3>4. QED
      BY <3>1, <3>3 DEF ReplyIsDue
  <2>5. CASE Start \/ BeginStore \/ EndStore \/ Take \/ UNCHANGED programVars
    BY <2>5, OthersKeepReplies
  <2>6. QED
    BY <2>2, <2>3, <2>4, <2>5 DEF ProgramNext
<1>2. QED
  BY <1>1, Invariant, PTL DEF ProgramSpec, RepliesAreRun
=============================================================================
