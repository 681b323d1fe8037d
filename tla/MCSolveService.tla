--------------------------- MODULE MCSolveService ---------------------------
(* Three concurrent requests against a channel of one: while the worker     *)
(* solves the first and the second is buffered, the third is turned away.   *)
EXTENDS SolveService, TLC

CONSTANTS a, b, c

MCV1 == {a, b}
MCNova == {c}

\* The two waiting requests are interchangeable; only safety is checked with it.
WaitingSymmetry == Permutations(MCV1)
=============================================================================
