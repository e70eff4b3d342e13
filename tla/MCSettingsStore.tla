-------------------------- MODULE MCSettingsStore --------------------------
(***************************************************************************)
(* Three NVS keys: one that set_settings writes and the first two of a     *)
(* calibration.  Two values per key tell every stale value from the fresh. *)
(***************************************************************************)
EXTENDS SettingsStore

CONSTANTS v1, v2

MCValues == {v1, v2}
MCOperatorKeys == {1}
MCCalibrationKeys == {{2, 3}}
MCFactory == [k \in 1..3 |-> v1]
=============================================================================
