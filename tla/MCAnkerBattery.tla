--------------------------- MODULE MCAnkerBattery ---------------------------
(* Instances of AnkerBattery for TLC.                                      *)
EXTENDS AnkerBattery, TLC

(* The two values of a limit may be exchanged.                             *)
Alike == Permutations(Levels)

(* What the properties and the guards look at: no guard reads the saved    *)
(* userId, nor the serial number that names it.                            *)
Seen ==
    <<stationVars, requests, line, pc, task, authed, cache, resubscribe,
      frags, historyVars, stray, skipped>>
=============================================================================
