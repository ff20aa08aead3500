------------------------------ MODULE Adapters ------------------------------
(***************************************************************************)
(* The adapters that show the batteries of Masters to the program          *)
(* (src/backends/renogy.rs, bluetti.rs, sok.rs, jackery.rs, seplos.rs,     *)
(* pace.rs, pylontech_rs485.rs): what each answer is decoded into, what is *)
(* computed from that, which readings a status shows, and the name the     *)
(* battery gets with the first status.  A value is abstracted to the       *)
(* answers it comes from.                                                  *)
(***************************************************************************)
EXTENDS Masters, Functions, TLC

VARIABLES
    identity, \* what open read of the device: its name, its radio module
    model     \* info.model: where it comes from, and in what circumstances

vars == <<mastersVars, identity, model>>

-----------------------------------------------------------------------------
(* The decoders: what is read out of the answer to each request.           *)

RenogyDecodes ==
    [cells |-> {"cells"},
     temps |-> {"temps"},
     info  |-> {"current", "voltage", "remaining", "capacity"},
     model |-> {"model"}]

BluettiDecodes ==
    [core    |-> {"model", "dc_in", "ac_in", "ac_out", "dc_out", "soc", "ac_on", "dc_on"},
     battery |-> {"voltage", "cells"}]

SeplosDecodes ==
    [pia |-> {"voltage", "current", "remaining", "capacity", "soc", "soh", "cycles"},
     pib |-> {"cells", "temps", "ambient", "power_temp"}]

PaceDecodes ==
    [pack |-> {"voltage", "current", "soc", "soh", "remaining", "capacity", "cycles",
               "cells", "temps", "mosfet", "environment", "charging", "discharging",
               "balancing", "warnings", "protections"}]

SokAbcDecodes ==
    [telemetry |-> {"voltage", "current", "soc", "temps", "capacity", "remaining",
                    "cells", "model"}]

SokEeDecodes ==
    [info  |-> {"current", "cycles", "soc"},
     temp  |-> {"temps"},
     cap   |-> {"capacity"},
     cells |-> {"cells"}]

(* JSON: a key that is missing counts as zero.                             *)
JackeryDecodes ==
    [status |-> {"soc", "temps", "power_in", "power_out", "ac_on", "dc_on", "usb_on",
                 "car_on", "error"}]

(* Every module of the chain, or an error.                                 *)
PylontechDecodes ==
    [analog |-> {"voltages", "currents", "remainings", "capacities", "cells", "temps"}]

Decodes ==
    [renogy |-> RenogyDecodes, bluetti |-> BluettiDecodes, seplos |-> SeplosDecodes,
     pace |-> PaceDecodes, sok_abc |-> SokAbcDecodes, sok_ee |-> SokEeDecodes,
     jackery |-> JackeryDecodes, pylontech_rs485 |-> PylontechDecodes]

-----------------------------------------------------------------------------
(* What is computed from what was decoded.                                 *)

Power == [power |-> {"voltage", "current"}]

RenogyComputes == Power @@ [soc |-> {"remaining", "capacity"}]

(* Sums of two registers of 16 bits, in 16 bits.                           *)
BluettiComputes ==
    [power_in |-> {"dc_in", "ac_in"}, power_out |-> {"ac_out", "dc_out"}]

(* No voltage is sent: it is four times the mean of the cells.             *)
SokEeComputes == [voltage |-> {"cells"}, power |-> {"cells", "current"}]

(* Over the chain: the mean voltage, sums, and the charge left of the sum. *)
PylontechComputes ==
    [voltage   |-> {"voltages"},
     current   |-> {"currents"},
     power     |-> {"voltages", "currents"},
     remaining |-> {"remainings"},
     capacity  |-> {"capacities"},
     soc       |-> {"remainings", "capacities"}]

Computes ==
    [renogy |-> RenogyComputes, bluetti |-> BluettiComputes, seplos |-> Power,
     pace |-> Power, sok_abc |-> Power, sok_ee |-> SokEeComputes,
     jackery |-> <<>>, pylontech_rs485 |-> PylontechComputes]

-----------------------------------------------------------------------------
(* to_status: the readings of a status, each with the value it shows.      *)

Flows == {"charging", "discharging", "none"}

(* Power is shown on the side it flows, and on neither when there is none. *)
BySign(flow) ==
    CASE flow = "charging"    -> [PowerIn |-> "power"]
      [] flow = "discharging" -> [PowerOut |-> "power"]
      [] OTHER                -> <<>>

Same(values) == [v \in values |-> v]

RenogyShows(flow) ==
    Same({"soc", "voltage", "current", "remaining", "capacity", "temps", "cells"})
    @@ BySign(flow)

(* Both powers always; an input port only while it takes power.            *)
BluettiShows(flow) ==
    [PowerIn |-> "power_in", PowerOut |-> "power_out", ac |-> "ac_on", dc |-> "dc_on"]
    @@ Same({"soc", "voltage", "cells"})
    @@ (IF flow = "charging" THEN [ac_input |-> "ac_in", solar |-> "dc_in"] ELSE <<>>)

SeplosShows(flow) ==
    Same({"soc", "soh", "voltage", "current", "remaining", "capacity", "cycles",
          "temps", "ambient", "power_temp", "cells"})
    @@ BySign(flow)

PaceShows(flow) ==
    Same({"soc", "soh", "voltage", "current", "remaining", "capacity", "cycles",
          "temps", "mosfet", "environment", "charging", "discharging", "balancing",
          "warnings", "protections", "cells"})
    @@ BySign(flow)

(* The EE sends no charge left, the ABC no cycles.                         *)
SokShows(flow) ==
    Same({"soc", "voltage", "current", "capacity", "temps", "cells"})
    @@ Same({IF family = "sok_abc" THEN "remaining" ELSE "cycles"})
    @@ BySign(flow)

(* The DC output of a model that splits it is shown as USB and car.        *)
JackeryShows(split) ==
    [PowerIn |-> "power_in", PowerOut |-> "power_out", ac |-> "ac_on"]
    @@ Same({"soc", "temps", "error"})
    @@ (IF split THEN [usb |-> "usb_on", car |-> "car_on"] ELSE [dc |-> "dc_on"])

PylontechShows(flow) ==
    Same({"soc", "voltage", "current", "remaining", "capacity", "temps", "cells"})
    @@ BySign(flow)

Shows(flow, split) ==
    CASE family = "renogy"              -> RenogyShows(flow)
      [] family = "bluetti"             -> BluettiShows(flow)
      [] family = "seplos"              -> SeplosShows(flow)
      [] family = "pace"                -> PaceShows(flow)
      [] family \in {"sok_abc", "sok_ee"} -> SokShows(flow)
      [] family = "jackery"             -> JackeryShows(split)
      [] family = "pylontech_rs485"     -> PylontechShows(flow)

(* The blocks a value comes from.                                          *)
BlocksOf(value) ==
    LET computes == Computes[family]
        inputs == IF value \in DOMAIN computes THEN computes[value] ELSE {value}
    IN {k \in DOMAIN Decodes[family] : Decodes[family][k] \cap inputs # {}}

(* The snapshot is whole: only an optional block may be missing.           *)
Mandatory == UNION {Asks[i] : i \in DOMAIN Asks \ Optional}
Whole(blocks) == Mandatory \subseteq DOMAIN blocks

(* What status returned with the snapshot: each reading with the answers   *)
(* it comes from.  A reading whose block is missing is left out.           *)
Status(flow, split) ==
    LET shows == Shows(flow, split)
    IN [r \in {r \in DOMAIN shows : BlocksOf(shows[r]) \subseteq DOMAIN got} |->
          Restrict(got, BlocksOf(shows[r]))]

-----------------------------------------------------------------------------
(* The name: where each adapter looks, the best place first.               *)

Nameless == [from |-> "nowhere", part |-> Part("echo", "whole"), clean |-> TRUE]

RenogyNames == <<"model", "name", "default">>
BluettiNames == <<"core", "name">>
SokNames == <<"telemetry", "name", "module", "default">>

Names ==
    CASE family = "renogy"              -> RenogyNames
      [] family = "bluetti"             -> BluettiNames
      [] family \in {"sok_abc", "sok_ee"} -> SokNames
      [] family = "seplos"              -> <<"pib">>
      [] family = "pace"                -> <<"pack">>
      [] family = "pylontech_rs485"     -> <<"analog">>
      [] OTHER                          -> <<>>

(* The number of cells, or of modules, is always known.                    *)
Certain == {"pib", "pack", "analog", "default"} \cup identity

(* What read_identity finds: strings that cannot be read are left out.     *)
Identities ==
    IF Ble /\ Names # <<>> THEN SUBSET ({"name", "module"} \cap Range(Names)) ELSE {{}}

(* wrap: a Jackery is named by its advertisement.                          *)
Wrapped ==
    IF family = "jackery" THEN [Nameless EXCEPT !.from = "advertised"] ELSE Nameless

(* refresh_info: the best place that is known names the battery.           *)
Named(known) ==
    \/ known \cap Range(Names) = {} /\ UNCHANGED model
    \/ \E i \in DOMAIN Names :
         /\ Names[i] \in known
         /\ \A j \in 1 .. i - 1 : Names[j] \notin known
         /\ model' = IF Names[i] \in Kinds
                       THEN [from |-> Names[i], part |-> got'[Names[i]], clean |-> missed' = 0]
                       ELSE [Nameless EXCEPT !.from = Names[i]]

StatusReturned == call = "read" /\ call' = "idle" /\ Whole(got')

(* With the first snapshot that yields a name; it stays until the adapter  *)
(* is dropped.  The model string of a block may be empty.                  *)
Refresh ==
    /\ IF StatusReturned /\ model.from = "nowhere"
         THEN \E strings \in SUBSET (Range(Names) \cap Kinds) : Named(Certain \cup strings)
         ELSE UNCHANGED model
    /\ UNCHANGED identity

-----------------------------------------------------------------------------
Init == MastersInit /\ identity = {} /\ model = Nameless

(* connect_bluetooth, open_serial: the adapter is there when its transport *)
(* is open.                                                                *)
Connect ==
    /\ Opening
    /\ IF stage' = "open"
         THEN identity' \in Identities /\ model' = Wrapped
         ELSE UNCHANGED <<identity, model>>

(* execute: a toggle of an output the adapter names; anything else is      *)
(* refused before a request is written.                                    *)
Execute == BeginSwitch /\ UNCHANGED <<identity, model>>

CallStatus == BeginRead /\ UNCHANGED <<identity, model>>

Answered == Listen /\ Refresh

DropAdapter == Disconnect /\ identity' = {} /\ model' = Nameless

Around == (Arrive \/ Lose \/ Garble \/ GivenUp \/ BatteryLost) /\ UNCHANGED <<identity, model>>

Next ==
    CallStatus \/ Execute \/ Answered \/ Connect \/ DropAdapter \/ Around

Spec ==
    Init /\ [][Next]_vars /\ WF_vars(Answered)
-----------------------------------------------------------------------------
AdapterTypeOK ==
    /\ TypeOK
    /\ identity \subseteq {"name", "module"}
    /\ model.from \in {"nowhere", "advertised"} \cup Range(Names)
    /\ DOMAIN Decodes[family] = Kinds
    /\ \A flow \in Flows, split \in BOOLEAN :
         LET shows == Shows(flow, split)
         IN \A r \in DOMAIN shows : BlocksOf(shows[r]) # {}

Own(blocks) == \A k \in DOMAIN blocks : blocks[k].kind = k /\ blocks[k].age = 0

(* As long as every request got an answer that was accepted, every reading *)
(* of a status comes from the answers to the requests of that very call,   *)
(* each block from its own (renogy_bms/src/bms.rs:58-72 decodes by the     *)
(* place in the loop, and no answer says which block it is); and a name    *)
(* taken then, which is never looked up again (backends/renogy.rs:52), is  *)
(* that of the battery.                                                    *)
StatusOwn ==
    /\ missed = 0 =>
         \A flow \in Flows, split \in BOOLEAN :
           LET status == Status(flow, split)
           IN \A r \in DOMAIN status : Own(status[r])
    /\ model.clean /\ model.from \in Kinds =>
         Own([k \in {model.from} |-> model.part])
=============================================================================
