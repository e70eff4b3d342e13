----------------------------- MODULE MCThermCal -----------------------------
(* Values for TLC: two probes, two baths; a fit and the curve of config.h. *)
EXTENDS ThermCal, TLC
=============================================================================
