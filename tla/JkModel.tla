------------------------------- MODULE JkModel -------------------------------
(***************************************************************************)
(* What the JK client makes of the model it talks to: the protocol a model *)
(* speaks, the version the client takes it for, and the register of each   *)
(* setting by version (crates/jk_bms/src/pack.rs, protocol.rs).            *)
(***************************************************************************)
EXTENDS Naturals, TLC

Protocols == {"JK02_24S", "JK02_32S", "JK04"}

(* Until an info frame has come (ProtocolVersion::default).                *)
DefaultVersion == "JK02_24S"

(* from_model: JK_PB2, JK-BD and JK_HY speak JK02_32S; every other model,  *)
(* those that speak JK04 among them, is taken for JK02_24S.                *)
FromModel(protocol) ==
    IF protocol = "JK02_32S" THEN "JK02_32S" ELSE "JK02_24S"

(* SETTINGS.  The registers the JK02 versions have in common.              *)
Common ==
    [smart_sleep_voltage |-> 1, cell_uvp |-> 2, cell_uvpr |-> 3, cell_ovp |-> 4,
     cell_ovpr |-> 5, balance_trigger_voltage |-> 6, cell_soc100_voltage |-> 7,
     cell_soc0_voltage |-> 8, cell_request_charge_voltage |-> 9,
     cell_request_float_voltage |-> 10, power_off_voltage |-> 11,
     max_charge_current |-> 12, charge_ocp_delay |-> 13,
     charge_ocp_recovery |-> 14, max_discharge_current |-> 15,
     discharge_ocp_delay |-> 16, discharge_ocp_recovery |-> 17,
     scp_recovery |-> 18, max_balance_current |-> 19, charge_otp |-> 20,
     charge_otp_recovery |-> 21, discharge_otp |-> 22,
     discharge_otp_recovery |-> 23, charge_utp |-> 24,
     charge_utp_recovery |-> 25, power_tube_otp |-> 26,
     power_tube_otp_recovery |-> 27, cell_count |-> 28, charging |-> 29,
     discharging |-> 30, balancer |-> 31, total_battery_capacity |-> 32]

(* Those that moved between the versions, and those of JK02_32S alone.     *)
Moved24 ==
    [balance_starting_voltage |-> 38, scp_delay |-> 37,
     voltage_calibration |-> 33, current_calibration |-> 36]

Moved32 ==
    [balance_starting_voltage |-> 34, scp_delay |-> 33,
     voltage_calibration |-> 100, current_calibration |-> 103]

Only32 ==
    [discharge_utp |-> 58, discharge_utp_recovery |-> 59,
     heating_start_temperature |-> 55, heating_stop_temperature |-> 56,
     discharge_precharge_time |-> 37, cell_request_charge_voltage_time |-> 179,
     cell_request_float_voltage_time |-> 180, re_bulk_soc |-> 183,
     emergency |-> 107, heating |-> 39, disable_temperature_sensors |-> 40,
     display_always_on |-> 43, smart_sleep |-> 45, disable_pcl_module |-> 46,
     timed_stored_data |-> 47, charging_float_mode |-> 48]

Registers(version) ==
    CASE version = "JK02_24S" -> Common @@ Moved24
      [] version = "JK02_32S" -> Common @@ Moved32 @@ Only32
      [] OTHER                -> [balancer |-> 108]

Settable == DOMAIN Registers("JK02_32S")

(* Where a setting is, 0 where the version has none of it.                 *)
Register(version, setting) ==
    IF setting \in DOMAIN Registers(version) THEN Registers(version)[setting] ELSE 0

(* What a device of this protocol keeps at a register.                     *)
SettingsAt(protocol, register) ==
    {s \in DOMAIN Registers(protocol) : Registers(protocol)[s] = register}

(* The main switches of a pack, which its live frames show.                *)
MainSwitches == {"charging", "discharging", "balancer"}

(* A device keeps one setting at a register.                               *)
ASSUME RegistersApart ==
    \A p \in Protocols : \A s, t \in DOMAIN Registers(p) :
        s # t => Registers(p)[s] # Registers(p)[t]
=============================================================================
