-------------------------- MODULE MCThermalControl --------------------------
(***************************************************************************)
(* The factory settings (kp 4.0, ki 0.1, kd 0, sp1 45, sp2 55, manual 30)  *)
(* in the module's fixed point, with the integral's limit cut from 1000 to *)
(* a few units and ki raised to keep some reach.                           *)
(***************************************************************************)
EXTENDS ThermalControl

MCStoredSettings ==
  {[pid_enabled |-> TRUE, setpoint1_c |-> 45, setpoint2_c |-> 55,
    fan_manual_pct |-> 30, pid_kp |-> 40, pid_ki |-> 50, pid_kd |-> 0]}

\* The same with a percentage below the start duty, with and without a
\* derivative gain.
MCFanSettings ==
  {[s EXCEPT !.fan_manual_pct = 10, !.pid_kd = kd] : s \in MCStoredSettings, kd \in {0, 10}}

\* A boot that finds everything in order, and one after a brownout that finds no Wi-Fi.
MCBoots ==
  {[littlefs_ready |-> TRUE, wifiInitOk |-> TRUE, reason |-> "power"],
   [littlefs_ready |-> TRUE, wifiInitOk |-> FALSE, reason |-> "brownout"]}
=============================================================================
