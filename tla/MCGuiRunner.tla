----------------------------- MODULE MCGuiRunner -----------------------------
(* Two starts among two engines and two addresses, and a request to solve: an *)
(* engine is kept and serves at another address than it was built for, or is  *)
(* replaced while a request drains, and a restart at the same address meets   *)
(* the socket of the listener before it.                                      *)
EXTENDS GuiRunner

MCEngines == {"small", "large"}
MCPorts == {"p", "q"}
=============================================================================
