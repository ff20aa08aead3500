----------------------------- MODULE MCMasters ------------------------------
(* Instances of Masters and Adapters for TLC.                              *)
EXTENDS Adapters

AllFamilies == BleFamilies \cup SerialFamilies
=============================================================================
