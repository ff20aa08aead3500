----------------------------- MODULE AnkerModel -----------------------------
(***************************************************************************)
(* The tables of the Anker Solix backend: which parameter of a telemetry   *)
(* message holds each field (crates/anker_solix/src/model.rs), which       *)
(* fields are shown as settings and ports (src/backends/anker.rs), and the *)
(* command that writes each (device.rs, model.rs).                         *)
(***************************************************************************)
EXTENDS Naturals

Models == {"C1000Gen2", "Gen1"}

(* Several fields to a parameter; the settings are in a4, d9 and da.       *)
LayoutGen2 ==
    [temperature_c |-> "a5", battery_percentage |-> "a5", battery_health |-> "a5",
     max_battery_percentage |-> "d9", min_battery_percentage |-> "d9",
     power_out |-> "a6", ac_power_in |-> "a6",
     ac |-> "a7", solar |-> "a8", dc |-> "b2",
     usb_c1 |-> "aa", usb_c2 |-> "ab", usb_c3 |-> "ac", usb_a1 |-> "ae",
     serial_number |-> "a2", part_number |-> "a2",
     ac_charge_power_w |-> "a4", ac_frequency_hz |-> "a4", smart_ac |-> "a4",
     car_saving |-> "a4", standby_timeout_min |-> "a4",
     screen_timeout_min |-> "a4", display_brightness |-> "a4",
     port_memory |-> "a4", screensaver |-> "da"]

(* One field to a parameter, and no settings; a port by its status if it   *)
(* has one, else by its watts.                                             *)
LayoutGen1 ==
    [battery_percentage |-> "c1", battery_percentage_expansion |-> "c2",
     battery_health |-> "c3", num_expansion |-> "c5",
     power_in |-> "af", power_out |-> "b0", ac_power_in |-> "a5",
     ac |-> "bb", dc |-> "b2", solar |-> "ae",
     usb_c1 |-> "a7", usb_c2 |-> "a8", usb_a1 |-> "a9", usb_a2 |-> "aa",
     time_remaining_hours |-> "a4", temperature_c |-> "bd",
     software_version |-> "b3", serial_number |-> "d0"]

Layout(model) == IF model = "C1000Gen2" THEN LayoutGen2 ELSE LayoutGen1

Params(model) == {Layout(model)[f] : f \in DOMAIN Layout(model)}

(* from_params: the fields that a message with these parameters fills in.  *)
Filled(model, params) ==
    {f \in DOMAIN Layout(model) : Layout(model)[f] \in params}

(* settings: the field that each writable setting shows.                   *)
FieldOf ==
    [soc_limit_max |-> "max_battery_percentage",
     soc_limit_min |-> "min_battery_percentage",
     ac_charge_power |-> "ac_charge_power_w", ac_frequency |-> "ac_frequency_hz",
     standby_timeout |-> "standby_timeout_min",
     screen_timeout |-> "screen_timeout_min",
     display_brightness |-> "display_brightness",
     smart_ac |-> "smart_ac", car_saving |-> "car_saving",
     port_memory |-> "port_memory", screensaver |-> "screensaver"]

Shown(model, params) ==
    {s \in DOMAIN FieldOf : FieldOf[s] \in Filled(model, params)}

LimitSettings == {"soc_limit_max", "soc_limit_min"}

(* to_status: the ports, and which of them can be switched.                *)
Settable ==
    [ac |-> TRUE, dc |-> TRUE, solar |-> FALSE, usb_c1 |-> FALSE,
     usb_c2 |-> FALSE, usb_c3 |-> FALSE, usb_a1 |-> FALSE]

(* What is written alone: every setting but the limits, and the outputs.   *)
Singles ==
    (DOMAIN FieldOf \ LimitSettings) \cup {p \in DOMAIN Settable : Settable[p]}

(* Settings whose value is a number, which may make no sense.              *)
Valued ==
    {"ac_charge_power", "ac_frequency", "standby_timeout", "screen_timeout",
     "display_brightness"}

(* The command of each setter on the secure channel; an output is a        *)
(* setting of its command there.                                           *)
Opcode ==
    [soc_limit_max |-> "4103", soc_limit_min |-> "4103",
     standby_timeout |-> "4103", screen_timeout |-> "4103",
     display_brightness |-> "4103", port_memory |-> "4103",
     ac_charge_power |-> "4101", ac_frequency |-> "4101", smart_ac |-> "4101",
     ac |-> "4101", dc |-> "4102", car_saving |-> "4102",
     screensaver |-> "4091"]

(* The commands sent without waiting for anything.  The display has one on *)
(* either generation, the light bar on the first only.                     *)
Unacknowledged(model) ==
    IF model = "Gen1"
      THEN [ac |-> "404a", dc |-> "404b", light |-> "404f", display |-> "4052"]
      ELSE [display |-> "4103"]
=============================================================================
