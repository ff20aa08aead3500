----------------------------- MODULE MCEcoFlow ------------------------------
(* Instances of EcoFlow for TLC.                                           *)
EXTENDS EcoFlow, TLC
=============================================================================
