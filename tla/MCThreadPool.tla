---------------------------- MODULE MCThreadPool ----------------------------
(***************************************************************************)
(* Small pools for TLC: the main thread and one member of the portfolio as *)
(* callers, two workers; the bodies that main executes call loops.         *)
(***************************************************************************)
EXTENDS ThreadPool

CONSTANTS main, member, w1, w2

TwoCallers == {main, member}
TwoWorkers == {w1, w2}
MainNests == {main}
=============================================================================
