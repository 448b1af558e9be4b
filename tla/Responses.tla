------------------------------ MODULE Responses ------------------------------
(***************************************************************************)
(* What a chat that sends a command may count on of the responses channel  *)
(* it sent with it: one answer or two, after the first of them at most one *)
(* close, and nothing after that.  A send on a closed channel and a second *)
(* close would each end the program.                                       *)
(***************************************************************************)
EXTENDS Naturals

CONSTANT Channels   \* the responses channels of the commands

VARIABLES
    received,   \* how many answers came out of each channel
    closed      \* the channels that are closed

ResponsesInit ==
    /\ received = [c \in Channels |-> 0]
    /\ closed = {}

\* An answer is sent; a handler may close the channel behind it.
Respond(c) ==
    /\ c \notin closed
    /\ received[c] < 2
    /\ received' = [received EXCEPT ![c] = @ + 1]
    /\ closed' \in {closed, closed \cup {c}}

\* The range over the channel ends; no handler leaves a user without an answer.
Close(c) ==
    /\ c \notin closed
    /\ received[c] > 0
    /\ closed' = closed \cup {c}
    /\ UNCHANGED received

ResponsesNext == \E c \in Channels : Respond(c) \/ Close(c)

ResponsesSpec == ResponsesInit /\ [][ResponsesNext]_<<received, closed>>
=============================================================================
