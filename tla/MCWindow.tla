------------------------------ MODULE MCWindow ------------------------------
(* Instances of Window for TLC, with the batteries of MCWorker.            *)
EXTENDS Window, TLC

CONSTANTS anker, jbd, none

MCDevices == {anker, jbd}
MCPushed == {anker}
MCPaired == {anker}
=============================================================================
