--------------------------- MODULE MCStatusStream ---------------------------
(* Instances of StatusStream for TLC: two elements (a power reading that   *)
(* may vanish and a switch), two values, one alarm.                        *)
EXTENDS StatusStream, TLC

CONSTANTS power, charging, low, high, absent, overheat

MCIds == {power, charging}
MCValues == {low, high}
MCAlarms == {overheat}
=============================================================================
