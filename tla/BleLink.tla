------------------------------ MODULE BleLink -------------------------------
(***************************************************************************)
(* How a client gets hold of its battery: `open` and `close` of the        *)
(* transports (crates/*/src/transport/bluetooth.rs, serial.rs).  A BLE     *)
(* transport scans, connects, discovers the services and subscribes; the   *)
(* peripheral is kept only when all of it succeeded, and the future may be *)
(* dropped at every await (the worker's CONNECT_LIMIT).  The operating     *)
(* system keeps a link that nobody takes down.                             *)
(***************************************************************************)
VARIABLES
    family,  \* the backend; it never changes
    stage,   \* how far the open of the client at hand has come
    radio    \* the operating system holds a link to the battery

linkVars == <<family, stage, radio>>

BleFamilies == {"renogy", "bluetti", "sok_abc", "sok_ee", "jackery"}
SerialFamilies == {"seplos", "pace", "pylontech_rs485"}

Stages == {"closed", "scanning", "connecting", "preparing", "open"}

Ble == family \in BleFamilies

LinkInit ==
    /\ family \in BleFamilies \cup SerialFamilies
    /\ stage = "closed"
    /\ radio = FALSE

(* with_transport: a new transport, its scan of three seconds begun.       *)
StartOpen ==
    /\ Ble
    /\ stage = "closed"
    /\ stage' = "scanning"
    /\ UNCHANGED <<family, radio>>

(* The target is among the peripherals; connect() is awaited.              *)
FoundTarget ==
    /\ stage = "scanning"
    /\ stage' = "connecting"
    /\ UNCHANGED <<family, radio>>

(* connect() is done in the radio before it returns to the client.         *)
RadioUp ==
    /\ stage = "connecting"
    /\ ~radio
    /\ radio' = TRUE
    /\ UNCHANGED <<family, stage>>

Connected ==
    /\ stage = "connecting"
    /\ radio
    /\ stage' = "preparing"
    /\ UNCHANGED <<family, radio>>

(* Discovered, subscribed, identity read: the handles are stored.          *)
Opened ==
    /\ stage = "preparing"
    /\ radio
    /\ stage' = "open"
    /\ UNCHANGED <<family, radio>>

(* An error of any await of open, or its future dropped: the transport is  *)
(* dropped with it, and with no peripheral stored there is nothing to      *)
(* disconnect.                                                             *)
OpenGivenUp ==
    /\ stage \in {"scanning", "connecting", "preparing"}
    /\ stage' = "closed"
    /\ UNCHANGED <<family, radio>>

(* A serial port opens at once.                                            *)
OpenPort ==
    /\ ~Ble
    /\ stage = "closed"
    /\ stage' = "open"
    /\ UNCHANGED <<family, radio>>

(* The battery goes out of range: an open client sees its stream end.      *)
PeerLost ==
    /\ radio
    /\ radio' = FALSE
    /\ UNCHANGED <<family, stage>>

(* close: whether the disconnect it asks for succeeds is not looked at.     *)
Close ==
    /\ stage = "open"
    /\ stage' = "closed"
    /\ radio' \in {FALSE, radio}
    /\ UNCHANGED family

LinkTypeOK ==
    /\ family \in BleFamilies \cup SerialFamilies
    /\ stage \in Stages
    /\ radio \in BOOLEAN
    /\ radio => Ble

(* Without a client that is open or being opened, the radio is released:   *)
(* battery.rs:134-139 asks to disconnect before dropping because the       *)
(* operating system keeps the peripheral connected until then.             *)
RadioReleased == stage = "closed" => ~radio
=============================================================================
