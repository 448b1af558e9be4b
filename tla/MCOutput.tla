------------------------------- MODULE MCOutput -------------------------------
EXTENDS Suite

CONSTANTS t1, t2

\* What a test tells the fake to return.
MCValues == {[kind |-> "start", task |-> t1], [kind |-> "log", task |-> NoTask], EOF}
=============================================================================
