----------------------------- MODULE MCDspStore -----------------------------
(***************************************************************************)
(* Two controls, so that a preset can be half applied and a document half  *)
(* copied, and two values for each.                                        *)
(***************************************************************************)
EXTENDS DspStore

CONSTANTS v1, v2

MCValues == {v1, v2}
MCDefault == [i \in 1..2 |-> v1]
=============================================================================
