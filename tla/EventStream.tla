----------------------------- MODULE EventStream -----------------------------
(***************************************************************************)
(* The stream of events of one build, between the endpoint of the vendored *)
(* server and NextEvent of the vendored client.  The build has ended, so   *)
(* its log does not grow.  A connection that breaks is set up again from   *)
(* the last event that was received; a server that refuses, because the    *)
(* build is gone, makes every further NextEvent fail.  When the server     *)
(* gives up in the middle it closes the connection as if all was said.     *)
(***************************************************************************)
EXTENDS Naturals, Sequences

CONSTANTS
    Entries,    \* what a log is made of
    MaxEvents   \* bound on the length of a log

VARIABLES
    log,        \* the events the server keeps
    lastEvent,  \* how many of them were received
    link,       \* "none", "up", or "down"
    gone,       \* the server has deleted the build
    cut         \* history: the server closed the connection early

streamVars == <<log, lastEvent, link, gone, cut>>

StreamInit ==
    /\ log \in UNION {[1..n -> Entries] : n \in 0..MaxEvents}
    /\ lastEvent = 0
    /\ link = "none"
    /\ gone = FALSE
    /\ cut = FALSE

Connect ==
    /\ link = "none"
    /\ ~gone
    /\ link' = "up"
    /\ UNCHANGED <<log, lastEvent, gone, cut>>

Lose ==
    /\ link = "up"
    /\ link' = "down"
    /\ UNCHANGED <<log, lastEvent, gone, cut>>

\* Mutant of Reconnect: without Last-Event-ID.
ReconnectFromStart ==
    /\ link = "down"
    /\ ~gone
    /\ link' = "up"
    /\ lastEvent' = 0
    /\ UNCHANGED <<log, gone, cut>>

\* Mutant of Reconnect: Last-Event-ID is taken for the event that comes next.
ReconnectPastNext ==
    /\ link = "down"
    /\ ~gone
    /\ link' = "up"
    /\ lastEvent' = lastEvent + 1
    /\ UNCHANGED <<log, gone, cut>>

\* Mutant of Reconnect: only a connection that brought nothing is tried again.
ReconnectIfNothing ==
    /\ link = "down"
    /\ ~gone
    /\ lastEvent = 0
    /\ link' = "up"
    /\ UNCHANGED <<log, lastEvent, gone, cut>>

Reconnect ==
    /\ link = "down"
    /\ ~gone
    /\ link' = "up"
    /\ UNCHANGED <<log, lastEvent, gone, cut>>

\* The pipeline of the build is destroyed.
Disappear ==
    /\ ~gone
    /\ gone' = TRUE
    /\ UNCHANGED <<log, lastEvent, link, cut>>

\* NextEvent returns ev, or an error that is about ev only.
Deliver(ev) ==
    /\ link = "up"
    /\ lastEvent < Len(log)
    /\ ev = log[lastEvent + 1]
    /\ lastEvent' = lastEvent + 1
    /\ UNCHANGED <<log, link, gone, cut>>

\* NextEvent returns io.EOF for the end event.
End ==
    /\ link = "up"
    /\ lastEvent = Len(log)
    /\ link' = "none"
    /\ UNCHANGED <<log, lastEvent, gone, cut>>

\* NextEvent returns io.EOF because the connection was closed.
Cut ==
    /\ link = "up"
    /\ lastEvent < Len(log)
    /\ link' = "none"
    /\ cut' = TRUE
    /\ UNCHANGED <<log, lastEvent, gone>>

StreamTypeOK ==
    /\ log \in Seq(Entries)
    /\ lastEvent \in 0..Len(log)
    /\ link \in {"none", "up", "down"}
    /\ gone \in BOOLEAN
    /\ cut \in BOOLEAN
=============================================================================
