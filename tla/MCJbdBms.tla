------------------------------ MODULE MCJbdBms ------------------------------
(* Instances of JbdBms for TLC: its constants are numbers and flags.       *)
EXTENDS JbdBms, TLC
=============================================================================
