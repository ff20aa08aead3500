---------------------------- MODULE MCJkBattery ----------------------------
(* Instances of JkBattery for TLC: two values of the settings, and three   *)
(* settings: a main switch, one whose register in JK02_24S is another's in *)
(* JK02_32S, and that other one, which JK02_24S has not.                   *)
EXTENDS JkBattery

CONSTANTS low, high, none, wrong

MCValues == {low, high}

MCNames == {"charging", "scp_delay", "discharge_precharge_time"}
=============================================================================
