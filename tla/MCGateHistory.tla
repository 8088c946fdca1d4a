--------------------------- MODULE MCGateHistory ---------------------------
(* The instances of MCGate, with the history variables. *)
EXTENDS GateHistory, MCGate
=============================================================================
