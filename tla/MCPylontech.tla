---------------------------- MODULE MCPylontech -----------------------------
(* An instance of Pylontech for TLC: the frames PylontechState knows, in   *)
(* the order of their ids.                                                 *)
EXTENDS Pylontech

MCRound == <<"limits", "soc", "volts", "alarms", "enable">>
=============================================================================
