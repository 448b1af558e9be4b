--------------------------- MODULE MCMonitorSystem ---------------------------
(* MonitorSystem for TLC: one or two jobs and one-off builds.              *)
EXTENDS MonitorSystem, TLC

CONSTANTS unit, deploy, oneoff, c1, c2

CommandSymmetry == Permutations({c1, c2})
=============================================================================
