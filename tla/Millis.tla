------------------------------- MODULE Millis -------------------------------
(***************************************************************************)
(* millis() and the unsigned differences the firmware takes of it: a clock *)
(* that wraps (at 2^32 on the chip).                                       *)
(***************************************************************************)
EXTENDS Integers

CONSTANT ClockRange

ASSUME ClockAssumption == ClockRange \in Nat \ {0}

Clock == 0..(ClockRange - 1)

NextTick(t) == IF t = ClockRange - 1 THEN 0 ELSE t + 1

\* Mutant: the difference is signed, and never reaches a delay once millis()
\* has wrapped between the two readings.
SignedElapsed(t, t0) == t - t0

\* Unsigned subtraction of two readings of millis().
Elapsed(t, t0) == IF t >= t0 THEN t - t0 ELSE (t - t0) + ClockRange
=============================================================================
