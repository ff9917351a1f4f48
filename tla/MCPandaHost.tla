---------------------------- MODULE MCPandaHost ----------------------------
(* PandaHost with a short alphabet of frames and short timeouts. *)
EXTENDS PandaHost

Acc(on) == [id |-> "ACC", bus |-> 0, fits |-> TRUE, ok |-> TRUE, on |-> on, gas |-> FALSE]
IgnitionFrames == [id: {"IGNITION"}, bus: {0}, fits: {TRUE}, ok: {TRUE}, on: BOOLEAN, gas: {FALSE}]
MCRxFrames == {Acc(TRUE), Acc(FALSE)} \cup IgnitionFrames
MCChecks == {"ACC"}
MCTxFrames == {"actuate"}
=============================================================================
