----------------------------- MODULE MCWebForm -----------------------------
(* Values for TLC: one page, two positions of the slider, two numbers. *)
EXTENDS WebForm

CONSTANT none

MCPercents == {20, 30}
MCNumerals == {0, 1}
MCSettings == [pid : BOOLEAN, man : MCPercents, sp : MCNumerals \cup {none}]
============================================================================
