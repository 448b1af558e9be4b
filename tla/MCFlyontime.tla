----------------------------- MODULE MCFlyontime -----------------------------
(* Flyontime for TLC: one job and, in some runs, one-off builds.           *)
EXTENDS Flyontime

CONSTANTS unit, oneoff, c1, c2
=============================================================================
