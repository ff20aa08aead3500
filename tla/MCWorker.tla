------------------------------ MODULE MCWorker ------------------------------
(* Instances of Worker for TLC: a battery that pushes and wants pairing    *)
(* (Anker), one that is polled and does not (JBD), and their combinations. *)
EXTENDS Worker, TLC

CONSTANTS anker, jbd, none

MCDevices == {anker, jbd}
MCPushed == {anker}
MCPaired == {anker}
=============================================================================
