----------------------------- MODULE MCCommands -----------------------------
(* Commands for TLC: two or three commands and one job or pipeline.        *)
EXTENDS Commands, TLC

CONSTANTS c1, c2, c3, p1, p2

CommandSymmetry == Permutations({c1, c2, c3})
=============================================================================
