------------------------- MODULE MCSolveServiceLive -------------------------
(* One waiting and one polling request against a channel of one: enough for *)
(* the channel to be full, the worker to die with a task buffered, and each *)
(* client to give up before its job is decided.                             *)
EXTENDS SolveService

CONSTANTS a, b

MCV1 == {a}
MCNova == {b}
=============================================================================
