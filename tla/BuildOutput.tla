----------------------------- MODULE BuildOutput -----------------------------
(***************************************************************************)
(* buildOutput, which the monitor calls before it announces a failure: it  *)
(* reads the events of the build one by one and makes from them the text   *)
(* that is posted with the announcement.  An event it cannot read is       *)
(* skipped; the end of the stream makes it return.  Where the events come  *)
(* from is left to the modules that extend this one.                       *)
(***************************************************************************)
EXTENDS Naturals, Sequences, FiniteSets

CONSTANTS
    Tasks,      \* the tasks of a build; each has a command of its own
    NoTask

ASSUME OutputAssumption == NoTask \notin Tasks

\* An event as the stream delivers it.  "bad" stands for everything NextEvent
\* returns an error for and can still get past: data that is no JSON, an
\* unknown event; "other" for the events the switch has no case for.
Events ==
    [kind : {"initialize", "start"}, task : Tasks]
        \cup [kind : {"log", "error", "finish", "other", "bad"}, task : {NoTask}]

VARIABLES
    at,             \* "asking" for the stream, "reading" it, or "returned"
    buildConfig,    \* the task whose configuration was read last
    output,         \* the text so far: its pieces
    seen            \* history: what NextEvent returned, in this order

outputVars == <<at, buildConfig, output, seen>>

OutputInit ==
    /\ at = "asking"
    /\ buildConfig = NoTask
    /\ output = <<>>
    /\ seen = <<>>

\* BuildEvents fails, or there are no events: the text is empty.
NoStream ==
    /\ at = "asking"
    /\ at' = "returned"
    /\ UNCHANGED <<buildConfig, output, seen>>

OpenStream ==
    /\ at = "asking"
    /\ at' = "reading"
    /\ UNCHANGED <<buildConfig, output, seen>>

Piece(what, task) == [what |-> what, task |-> task]

\* The loop gets ev from NextEvent.
Got(ev, kind) ==
    /\ at = "reading"
    /\ ev.kind = kind
    /\ seen' = Append(seen, ev)
    /\ UNCHANGED at

Write(piece) == output' = Append(output, piece) /\ UNCHANGED buildConfig

WriteLog(ev) == Got(ev, "log") /\ Write(Piece("payload", NoTask))

\* Mutant of KeepConfig: the configuration read first stays.
KeepFirstConfig(ev) ==
    /\ Got(ev, "initialize")
    /\ buildConfig' = IF buildConfig = NoTask THEN ev.task ELSE buildConfig
    /\ UNCHANGED output

KeepConfig(ev) ==
    /\ Got(ev, "initialize")
    /\ buildConfig' = ev.task
    /\ UNCHANGED output

\* The command comes from the configuration, not from the event.
WriteCommand(ev) == Got(ev, "start") /\ Write(Piece("command", buildConfig))

WriteError(ev) == Got(ev, "error") /\ Write(Piece("message", NoTask))

WriteExit(ev) == Got(ev, "finish") /\ Write(Piece("exit code", NoTask))

PassOver(ev) ==
    /\ Got(ev, "other") \/ Got(ev, "bad")
    /\ UNCHANGED <<buildConfig, output>>

Read(ev) ==
    \/ WriteLog(ev)
    \/ KeepConfig(ev)
    \/ WriteCommand(ev)
    \/ WriteError(ev)
    \/ WriteExit(ev)
    \/ PassOver(ev)

\* NextEvent returns io.EOF: the stream is closed and the text returned.
ReturnText ==
    /\ at = "reading"
    /\ at' = "returned"
    /\ UNCHANGED <<buildConfig, output, seen>>

-----------------------------------------------------------------------------
(* Properties.                                                             *)

OutputTypeOK ==
    /\ at \in {"asking", "reading", "returned"}
    /\ buildConfig \in Tasks \cup {NoTask}
    /\ output \in Seq([what : {"payload", "command", "message", "exit code"},
                       task : Tasks \cup {NoTask}])
    /\ seen \in Seq(Events)

\* Every task that starts was the last to be initialized.
TasksInTurn(evs) ==
    \A k \in DOMAIN evs : evs[k].kind = "start" =>
        \E i \in 1..(k - 1) :
            /\ evs[i] = [evs[k] EXCEPT !.kind = "initialize"]
            /\ \A m \in (i + 1)..(k - 1) : evs[m].kind # "initialize"

\* What the text says of an event, by its kind.
Text == [log |-> "payload", start |-> "command", error |-> "message", finish |-> "exit code"]

\* Those of the first n events that have a line in the text.
Lines(evs, n) == {k \in 1..n : evs[k].kind \in DOMAIN Text}

\* The text says what the events say, in their order and no more, each command
\* being the one of the task that starts, for builds whose tasks start one
\* after the other.  Tasks that run side by side get each other's commands.
TextIsTheLog ==
    TasksInTurn(seen) =>
        /\ Len(output) = Cardinality(Lines(seen, Len(seen)))
        /\ \A k \in Lines(seen, Len(seen)) :
              output[Cardinality(Lines(seen, k))] = Piece(Text[seen[k].kind], seen[k].task)
=============================================================================
