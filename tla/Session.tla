------------------------------ MODULE Session -------------------------------
(***************************************************************************)
(* What the background task of the window promises about a connection,     *)
(* whatever happens inside it: at most one battery at a time is opened or  *)
(* live; nothing is begun or ended but on the window's request, by a       *)
(* connection that is refused or by silence; one goes live only after it   *)
(* was announced; and a live one that nobody asked to leave is given up    *)
(* exactly when Limit reads in a row have failed, never earlier and never  *)
(* later.  Worker.tla implements it.                                       *)
(***************************************************************************)
EXTENDS Naturals

CONSTANTS Devices, NoDevice, Limit

VARIABLES
    phase,   \* "idle", "connecting" or "live"
    device,  \* the battery it is about
    misses,  \* reads in a row that failed, on the last battery that was live
    leave    \* the window has asked to leave what is there: for another
             \* battery, for none, or for the end of the task

vars == <<phase, device, misses, leave>>

Init == phase = "idle" /\ device = NoDevice /\ misses = 0 /\ leave = FALSE

Ask ==
    /\ leave' = TRUE
    /\ UNCHANGED <<phase, device, misses>>

GoIdle == phase' = "idle" /\ device' = NoDevice

(* A request to leave is taken up while nothing is being opened; another   *)
(* may wait behind it.                                                     *)
TakeUp == leave /\ phase # "connecting" /\ leave' \in BOOLEAN

Begin(d) ==
    /\ TakeUp
    /\ phase' = "connecting"
    /\ device' = d
    /\ UNCHANGED misses

(* A request to disconnect, one for a battery that is not there, the end   *)
(* of the task.                                                            *)
Close ==
    /\ TakeUp
    /\ GoIdle
    /\ misses' \in {misses, 0}

Open ==
    /\ phase = "connecting"
    /\ phase' = "live"
    /\ misses' = 0
    /\ UNCHANGED <<device, leave>>

Refuse ==
    /\ phase = "connecting"
    /\ GoIdle
    /\ misses' = 0
    /\ UNCHANGED leave

Answer ==
    /\ phase = "live"
    /\ misses' = 0
    /\ UNCHANGED <<phase, device, leave>>

Miss ==
    /\ phase = "live"
    /\ misses + 1 < Limit
    /\ misses' = misses + 1
    /\ UNCHANGED <<phase, device, leave>>

Lose ==
    /\ phase = "live"
    /\ misses + 1 >= Limit
    /\ misses' >= Limit
    /\ GoIdle
    /\ UNCHANGED leave

Next ==
    \/ Ask
    \/ \E d \in Devices : Begin(d)
    \/ Open \/ Refuse \/ Close \/ Answer \/ Miss \/ Lose

Spec == Init /\ [][Next]_vars
=============================================================================
