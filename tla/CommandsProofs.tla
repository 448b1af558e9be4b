--------------------------- MODULE CommandsProofs ---------------------------
(***************************************************************************)
(* Theorems about Commands, for any number of commands and targets.        *)
(***************************************************************************)
EXTENDS Commands, TLAPS

-----------------------------------------------------------------------------
(* Type correctness.                                                       *)

\* Short sequences of answers.
LEMMA AnswersInSeq ==
    ASSUME NEW a \in Answers, NEW b \in Answers
    PROVE  <<>> \in Seq(Answers) /\ <<a>> \in Seq(Answers) /\ <<a, b>> \in Seq(Answers)
OBVIOUS

\* What a handler that takes c is left with, as far as the types go.
LEMMA HandleTyped ==
    ASSUME TypeOK, NEW c \in Ids, NEW answers \in Seq(Answers),
           NEW next \in {"close", "owe", "leave"}, Handle(c, answers, next),
           state' \in [Targets -> States]
    PROVE  TypeOK'
<1>1. serving' # Nobody
  BY CommandsAssumption DEF Handle
<1> QED
  BY <1>1 DEF Handle, TypeOK

\* The server stays well typed, and the answers about it are answers.
LEMMA SetTyped ==
    ASSUME TypeOK, NEW c \in Ids, NEW t \in Targets,
           NEW s \in {"paused", "unpaused"}, Set(c, t, s)
    PROVE  TypeOK'
<1>1. state' \in [Targets -> States]
  BY DEF Set, Accepts, Fails, NoToken, TypeOK, States
<1>2. \A text \in Texts : AnswerOn(text, t) \in Answers
  BY <1>1 DEF AnswerOn, Answers
<1>3. /\ <<AnswerOn("now", t)>> \in Seq(Answers)
      /\ <<AnswerOn("already", t)>> \in Seq(Answers)
      /\ <<AnswerOn("failed", t), AnswerOn("already", t)>> \in Seq(Answers)
  <2>1. /\ AnswerOn("now", t) \in Answers
        /\ AnswerOn("already", t) \in Answers
        /\ AnswerOn("failed", t) \in Answers
    BY <1>2 DEF Texts
  <2> QED
    BY <2>1, AnswersInSeq
<1> QED
  BY <1>1, <1>3, HandleTyped DEF Set

LEMMA HandleCommandTyped ==
    ASSUME TypeOK, NEW c \in Ids, HandleCommand(c)
    PROVE  TypeOK'
<1>1. \A text \in Texts : <<Answer(text)>> \in Seq(Answers)
  BY DEF Answer, Answers
<1>2. CASE CommandPause(c)
  BY <1>2, SetTyped DEF CommandPause
<1>3. CASE CommandPlay(c)
  BY <1>3, SetTyped DEF CommandPlay
<1>4. CASE UNCHANGED state
  <2>1. state' \in [Targets -> States]
    BY <1>4 DEF TypeOK
  <2>2. PICK text \in Texts, next \in {"close", "owe", "leave"} :
            Handle(c, <<Answer(text)>>, next) \/ CommandPause(c) \/ CommandPlay(c)
    BY DEF HandleCommand, CommandMissingName, CommandPipelines, ListPipelines, CommandHelp,
           CommandRerun, CommandUnknown, Texts
  <2> QED
    BY <1>1, <1>2, <1>3, <2>1, <2>2, HandleTyped
<1> QED
  BY <1>2, <1>3, <1>4 DEF HandleCommand, CommandMissingName, CommandPipelines, ListPipelines,
                         CommandHelp, CommandRerun, CommandUnknown

LEMMA TypeStep == TypeOK /\ [Next]_vars => TypeOK'
<1> SUFFICES ASSUME TypeOK, [Next]_vars PROVE TypeOK'
  OBVIOUS
<1>1. CASE \E c \in Ids : Write(c) \/ Post(c) \/ End(c)
  BY <1>1 DEF Write, Post, End, TypeOK, monitor
<1>2. ASSUME NEW c \in Ids, HandleCommand(c) PROVE TypeOK'
  BY <1>2, HandleCommandTyped
<1>3. ASSUME NEW c \in Ids, HandleBuild(c) PROVE TypeOK'
  <2>1. <<Answer("status")>> \in Seq(Answers)
    BY DEF Answer, Answers, Texts
  <2>2. serving' # Nobody
    BY <1>3, CommandsAssumption DEF HandleBuild
  <2> QED
    BY <1>3, <2>1, <2>2 DEF HandleBuild, TypeOK, responders
<1>4. ASSUME NEW c \in Ids, Say(c) PROVE TypeOK'
  <2>1. Head(left) \in Answers /\ Tail(left) \in Seq(Answers)
    BY <1>4 DEF Say, TypeOK
  <2>2. told' \in [Ids -> Seq(Answers)]
    BY <1>4, <2>1 DEF Say, TypeOK
  <2>3. serving' # Nobody
    BY <1>4, CommandsAssumption DEF Say
  <2> QED
    BY <1>4, <2>1, <2>2, <2>3 DEF Say, TypeOK
<1>5. ASSUME NEW c \in Ids, Finish(c) PROVE TypeOK'
  BY <1>5 DEF Finish, TypeOK, responders
<1>6. CASE Stop
  BY <1>6 DEF Stop, TypeOK, responders
<1>7. CASE \E t \in Targets : SomebodyElse(t)
  BY <1>7 DEF SomebodyElse, TypeOK, responders, monitor
<1>8. CASE UNCHANGED vars
  BY <1>8 DEF vars, responders, monitor, TypeOK
<1> QED
  BY <1>1, <1>2, <1>3, <1>4, <1>5, <1>6, <1>7, <1>8 DEF Next

LEMMA TypeInit == Init => TypeOK
<1>1. <<>> \in Seq(Answers)
  OBVIOUS
<1>2. [c \in Ids |-> <<>>] \in [Ids -> Seq(Answers)]
  BY <1>1
<1> QED
  BY <1>1, <1>2 DEF Init, TypeOK

\* Every variable keeps its type, and no answer is left between two handlers.
THEOREM TypeCorrect == Spec => []TypeOK
<1> QED
  BY TypeInit, TypeStep, PTL DEF Spec

-----------------------------------------------------------------------------
(* Nobody is left behind, and nobody is answered who does not listen.      *)

\* A command nobody has taken, or whose responder has ended, is neither
\* served nor owed anything; a channel nobody has taken is open; the command
\* being served is not owed the result of a rerun as well; and only the
\* handler of an unknown command leaves its channel as it is.
IInv ==
    /\ TypeOK
    /\ AnswersAreHeard
    /\ OnlyUnknownLeftOpen
    /\ \A c \in Ids : responder[c] \in {"idle", "sending"} => c \notin closed
    /\ serving \notin owed
    /\ serving # Nobody /\ then = "leave" => request[serving].name = "unknown"

LEMMA IInvStep == IInv /\ [Next]_vars => IInv'
<1> SUFFICES ASSUME IInv, [Next]_vars PROVE IInv'
  OBVIOUS
<1>0. TypeOK'
  BY TypeStep DEF IInv
<1>1. ASSUME NEW c \in Ids, Write(c) \/ Post(c) \/ End(c) PROVE IInv'
  BY <1>0, <1>1 DEF Write, Post, End, TypeOK, monitor, IInv, AnswersAreHeard, OnlyUnknownLeftOpen, Hears
<1>2. ASSUME NEW c \in Ids, HandleCommand(c) PROVE IInv'
  <2>1. ASSUME NEW answers, NEW next, Handle(c, answers, next),
               next = "leave" => request[c].name = "unknown"
        PROVE  IInv'
    BY <1>0, <2>1, CommandsAssumption DEF Handle, Selecting, TypeOK,
      IInv, AnswersAreHeard, OnlyUnknownLeftOpen, Hears
  <2>2. CASE CommandPause(c) \/ CommandPlay(c)
    BY <2>1, <2>2 DEF CommandPause, CommandPlay, Set
  <2>3. CASE CommandMissingName(c)
    BY <2>1, <2>3 DEF CommandMissingName
  <2>4. CASE CommandPipelines(c)
    BY <2>1, <2>4 DEF CommandPipelines, ListPipelines
  <2>5. CASE CommandHelp(c)
    BY <2>1, <2>5 DEF CommandHelp
  <2>6. CASE CommandRerun(c)
    BY <2>1, <2>6 DEF CommandRerun
  <2>7. CASE CommandUnknown(c)
    BY <2>1, <2>7 DEF CommandUnknown
  <2> QED
    BY <1>2, <2>2, <2>3, <2>4, <2>5, <2>6, <2>7 DEF HandleCommand
<1>3. ASSUME NEW c \in Ids, HandleBuild(c) PROVE IInv'
  BY <1>0, <1>3, CommandsAssumption DEF HandleBuild, Selecting, TypeOK, responders,
      IInv, AnswersAreHeard, OnlyUnknownLeftOpen, Hears
<1>4. ASSUME NEW c \in Ids, Say(c) PROVE IInv'
  BY <1>0, <1>4 DEF Say, TypeOK,
      IInv, AnswersAreHeard, OnlyUnknownLeftOpen, Hears
<1>5. ASSUME NEW c \in Ids, Finish(c) PROVE IInv'
  BY <1>0, <1>5, CommandsAssumption DEF Finish, TypeOK, responders,
      IInv, AnswersAreHeard, OnlyUnknownLeftOpen, Hears
<1>6. CASE Stop
  BY <1>0, <1>6 DEF Stop, responders,
      IInv, AnswersAreHeard, OnlyUnknownLeftOpen, Hears
<1>7. CASE \E t \in Targets : SomebodyElse(t)
  BY <1>0, <1>7 DEF SomebodyElse, responders, monitor,
      IInv, AnswersAreHeard, OnlyUnknownLeftOpen, Hears
<1>8. CASE UNCHANGED vars
  BY <1>0, <1>8 DEF vars, responders, monitor,
      IInv, AnswersAreHeard, OnlyUnknownLeftOpen, Hears
<1> QED
  BY <1>1, <1>2, <1>3, <1>4, <1>5, <1>6, <1>7, <1>8 DEF Next

LEMMA IInvHolds == Spec => []IInv
<1>1. Init => IInv
  BY TypeInit, CommandsAssumption
  DEF Init, IInv, AnswersAreHeard, OnlyUnknownLeftOpen, Hears
<1> QED
  BY <1>1, IInvStep, PTL DEF Spec

\* The monitor never blocks for good in an answer and never sends on a closed
\* channel, however many commands come at once.
THEOREM AnswersHeard == Spec => []AnswersAreHeard
<1>1. IInv => AnswersAreHeard
  BY DEF IInv
<1> QED
  BY <1>1, IInvHolds, PTL

\* Only the responder of an unknown command is left behind on an open channel.
THEOREM LeftOpenIsUnknown == Spec => []OnlyUnknownLeftOpen
<1>1. IInv => OnlyUnknownLeftOpen
  BY DEF IInv
<1> QED
  BY <1>1, IInvHolds, PTL
-----------------------------------------------------------------------------
(* The responses channels.                                                 *)

\* The answers a command has had and those its handler has still to send are
\* one or two; a rerun that is owed its result, or will be when its handler
\* returns, gets along with one until then.
Answering ==
    /\ \A c \in Ids : responder[c] \in {"idle", "sending"} => told[c] = <<>>
    /\ \A c \in owed : Len(told[c]) = 1
    /\ serving # Nobody =>
          /\ Len(told[serving]) + Len(left) \in 1..2
          /\ then = "owe" => Len(told[serving]) + Len(left) = 1

\* A handler takes c and sends one answer or two, and one if it owes another.
TakesUp(c) ==
    \E answers, next :
        /\ Handle(c, answers, next)
        /\ Len(answers) \in 1..2
        /\ next = "owe" => Len(answers) = 1

LEMMA HandlersTakeUp == ASSUME NEW c \in Ids, HandleCommand(c) PROVE TakesUp(c)
<1>1. ASSUME NEW a, NEW next, Handle(c, <<a>>, next) PROVE TakesUp(c)
  <2>1. Len(<<a>>) \in 1..2 /\ Len(<<a>>) = 1
    OBVIOUS
  <2>2. QED
    BY <1>1, <2>1 DEF TakesUp
<1>2. ASSUME NEW a, NEW b, Handle(c, <<a, b>>, "close") PROVE TakesUp(c)
  <2>1. Len(<<a, b>>) \in 1..2 /\ "close" # "owe"
    OBVIOUS
  <2>2. QED
    BY <1>2, <2>1 DEF TakesUp
<1>3. CASE CommandPause(c) \/ CommandPlay(c)
  BY <1>1, <1>2, <1>3 DEF CommandPause, CommandPlay, Set
<1>4. CASE CommandMissingName(c) \/ CommandPipelines(c) \/ CommandHelp(c)
  BY <1>1, <1>4 DEF CommandMissingName, CommandPipelines, ListPipelines, CommandHelp
<1>5. CASE CommandRerun(c) \/ CommandUnknown(c)
  BY <1>1, <1>5 DEF CommandRerun, CommandUnknown
<1>6. QED
  BY <1>3, <1>4, <1>5 DEF HandleCommand

LEMMA AnsweringStep == IInv /\ Answering /\ [Next]_vars => Answering'
<1> SUFFICES ASSUME IInv, Answering, [Next]_vars PROVE Answering'
  OBVIOUS
<1>0. TypeOK /\ \A c \in Ids : Len(told[c]) \in Nat
  BY DEF IInv, TypeOK
<1>1. ASSUME NEW c \in Ids, Write(c) \/ Post(c) \/ End(c) PROVE Answering'
  BY <1>0, <1>1 DEF Write, Post, End, TypeOK, monitor, Answering
<1>2. ASSUME NEW c \in Ids, HandleCommand(c) PROVE Answering'
  <2>1. PICK answers, next : /\ Handle(c, answers, next)
                             /\ Len(answers) \in 1..2
                             /\ next = "owe" => Len(answers) = 1
    BY <1>2, HandlersTakeUp DEF TakesUp
  <2>2. /\ told[c] = <<>>
        /\ \A d \in Ids : responder'[d] \in {"idle", "sending"} => responder[d] \in {"idle", "sending"}
        /\ serving' = c /\ left' = answers /\ then' = next
        /\ UNCHANGED <<told, owed>>
    BY <1>0, <2>1 DEF Handle, Answering, TypeOK
  <2>3. Len(told[c]) = 0
    BY <2>2
  <2>4. Len(told'[serving']) + Len(left') = Len(answers)
    BY <2>1, <2>2, <2>3
  <2>5. \A d \in Ids : responder'[d] \in {"idle", "sending"} => told'[d] = <<>>
    BY <2>2 DEF Answering
  <2>6. \A d \in owed' : Len(told'[d]) = 1
    BY <2>2 DEF Answering
  <2>7. QED
    BY <2>1, <2>2, <2>4, <2>5, <2>6 DEF Answering
<1>3. ASSUME NEW c \in Ids, HandleBuild(c) PROVE Answering'
  <2>1. Len(left') = 1
    BY <1>3 DEF HandleBuild
  <2>2. /\ Len(told[c]) = 1
        /\ serving' = c /\ then' = "close"
        /\ owed' = owed \ {c}
        /\ UNCHANGED <<told, responder>>
    BY <1>3 DEF HandleBuild, responders, Answering
  <2>3. told'[serving'] = told[c] /\ then' # "owe"
    BY <2>2
  <2>4. Len(told'[serving']) = 1
    BY <2>2, <2>3, Zenon
  <2>5. Len(told'[serving']) + Len(left') = 2
    BY <2>1, <2>4
  <2>6. QED
    BY <2>2, <2>3, <2>5 DEF Answering
<1>4. ASSUME NEW c \in Ids, Say(c) PROVE Answering'
  <2>1. /\ left \in Seq(Answers) /\ left # <<>> /\ told[c] \in Seq(Answers)
        /\ serving = c /\ c \notin owed
        /\ told' = [told EXCEPT ![c] = Append(@, Head(left))]
        /\ left' = Tail(left)
        /\ responder' = [responder EXCEPT ![c] = "posting"]
        /\ UNCHANGED <<serving, then, owed>>
    BY <1>0, <1>4 DEF Say, TypeOK, IInv
  <2>2. Len(told'[c]) = Len(told[c]) + 1 /\ Len(left') = Len(left) - 1
    BY <1>0, <2>1 DEF TypeOK
  <2>3. Len(told'[serving']) + Len(left') = Len(told[serving]) + Len(left)
    BY <1>0, <2>1, <2>2
  <2>4. \A d \in Ids : d # c => told'[d] = told[d] /\ responder'[d] = responder[d]
    BY <1>0, <2>1 DEF TypeOK
  <2>5. responder'[c] = "posting"
    BY <1>0, <2>1 DEF TypeOK
  <2>6. QED
    BY <1>0, <2>1, <2>3, <2>4, <2>5 DEF Answering, TypeOK
<1>5. ASSUME NEW c \in Ids, Finish(c) PROVE Answering'
  <2>1. c # Nobody /\ Len(left) = 0 /\ serving = c
    BY <1>5, CommandsAssumption DEF Finish
  <2>2. then = "owe" => Len(told[c]) = 1
    BY <1>0, <2>1 DEF Answering
  <2>3. QED
    BY <1>5, <2>2 DEF Finish, Answering, responders
<1>6. CASE Stop
  BY <1>6 DEF Stop, Answering, responders
<1>7. CASE \E t \in Targets : SomebodyElse(t)
  BY <1>7 DEF SomebodyElse, responders, monitor, Answering
<1>8. CASE UNCHANGED vars
  BY <1>8 DEF vars, responders, monitor, Answering
<1>9. QED
  BY <1>1, <1>2, <1>3, <1>4, <1>5, <1>6, <1>7, <1>8 DEF Next

\* What Responses counts.
Counted == [c \in Ids |-> Len(told[c])]

LEMMA ResponsesStep ==
    IInv /\ Answering /\ [Next]_vars => [R!ResponsesNext]_<<Counted, closed>>
<1> SUFFICES ASSUME IInv, Answering, [Next]_vars
             PROVE  R!ResponsesNext \/ UNCHANGED <<Counted, closed>>
  OBVIOUS
<1>0. TypeOK /\ \A c \in Ids : Len(told[c]) \in Nat
  BY DEF IInv, TypeOK
<1>1. CASE UNCHANGED <<told, closed>>
  BY <1>1 DEF Counted
<1>2. ASSUME NEW c \in Ids, Say(c) PROVE R!ResponsesNext
  <2>1. /\ left \in Seq(Answers) /\ left # <<>> /\ told[c] \in Seq(Answers)
        /\ serving = c /\ c \notin closed /\ c # Nobody
        /\ told' = [told EXCEPT ![c] = Append(@, Head(left))]
        /\ closed' = closed
    BY <1>0, <1>2, CommandsAssumption DEF Say, TypeOK, IInv, AnswersAreHeard
  <2>2. Len(told[c]) < 2
    <3>1. Len(left) \in Nat /\ Len(left) > 0
      BY <2>1
    <3>2. Len(told[c]) + Len(left) \in 1..2
      BY <2>1 DEF Answering
    <3>3. QED
      BY <1>0, <3>1, <3>2
  <2>3. \A d \in Ids : Len(told'[d]) = IF d = c THEN Len(told[c]) + 1 ELSE Len(told[d])
    BY <1>0, <2>1 DEF TypeOK
  <2>4. Counted' = [Counted EXCEPT ![c] = @ + 1]
    <3>1. Counted' = [d \in Ids |-> IF d = c THEN Len(told[c]) + 1 ELSE Len(told[d])]
      BY <2>3 DEF Counted
    <3>2. QED
      BY <3>1 DEF Counted
  <2>5. Counted[c] < 2
    BY <2>2 DEF Counted
  <2>6. R!Respond(c)
    BY <2>1, <2>4, <2>5 DEF R!Respond, Counted
  <2>7. QED
    BY <2>6 DEF R!ResponsesNext
<1>3. ASSUME NEW c \in Ids, Finish(c), closed' # closed PROVE R!ResponsesNext
  <2>1. /\ serving = c /\ c # Nobody /\ Len(left) = 0 /\ c \notin closed
        /\ closed' = closed \cup {c}
        /\ told' = told
    BY <1>3, CommandsAssumption DEF Finish, IInv, AnswersAreHeard
  <2>2. Len(told[c]) > 0
    BY <1>0, <2>1 DEF Answering
  <2>3. Counted[c] > 0 /\ Counted' = Counted
    BY <2>1, <2>2 DEF Counted
  <2>4. R!Close(c)
    BY <2>1, <2>3 DEF R!Close, Counted
  <2>5. QED
    BY <2>4 DEF R!ResponsesNext
<1>4. ASSUME NEW c \in Ids, HandleCommand(c) PROVE UNCHANGED <<told, closed>>
  BY <1>4 DEF HandleCommand, CommandPause, CommandPlay, Set, CommandMissingName, CommandPipelines, ListPipelines,
              CommandHelp, CommandRerun, CommandUnknown, Handle
<1>5. ASSUME NEW c \in Ids, Write(c) \/ Post(c) \/ End(c) \/ HandleBuild(c)
      PROVE  UNCHANGED <<told, closed>>
  BY <1>5 DEF Write, Post, End, HandleBuild
<1>6. ASSUME NEW c \in Ids, Finish(c), closed' = closed PROVE UNCHANGED <<told, closed>>
  BY <1>6 DEF Finish
<1>7. CASE Stop \/ (\E t \in Targets : SomebodyElse(t)) \/ UNCHANGED vars
  BY <1>1, <1>7 DEF Stop, SomebodyElse, vars
<1>8. QED
  BY <1>1, <1>2, <1>3, <1>4, <1>5, <1>6, <1>7 DEF Next

LEMMA ResponsesStart == Init => Answering /\ R!ResponsesInit
<1> SUFFICES ASSUME Init PROVE Answering /\ R!ResponsesInit
  OBVIOUS
<1>1. /\ told = [c \in Ids |-> <<>>] /\ owed = {} /\ closed = {} /\ serving = Nobody
      /\ \A c \in Ids : Len(told[c]) = 0
  BY DEF Init
<1>2. QED
  BY <1>1 DEF Answering, R!ResponsesInit

\* Whatever is asked and however the server answers, the channel of a command
\* carries one answer or two, is not closed before the first of them, and
\* carries none after that: a send on a closed channel, or a second close, in
\* a handler or in handleBuild would end the program (Command.Responses).
THEOREM HandlersKeepResponses == Spec => ImplementsResponses
<1>1. IInv /\ Answering /\ [Next]_vars =>
          [R!ResponsesNext]_<<[c \in Ids |-> Len(told[c])], closed>>
  BY ResponsesStep DEF Counted
<1>2. QED
  BY <1>1, ResponsesStart, AnsweringStep, IInvHolds, PTL
     DEF Spec, ImplementsResponses, R!ResponsesSpec
=============================================================================
