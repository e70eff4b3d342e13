---------------------------- MODULE MCDspManager ----------------------------
(***************************************************************************)
(* Two bundles and controls whose range differs from one schema to the     *)
(* next, so that values outlive the schema they were set under.            *)
(***************************************************************************)
EXTENDS DspManager, TLC

CONSTANTS b1, b2, image, big, p1

\* No action tells one bundle from the other.
MCSymmetry == Permutations({b1, b2})

\* One control: a schema that does not parse, one that does.
MCPlain == {[i \in {} |-> 0], [i \in {1} |-> 1]}

\* No action reads the reply, and of the properties of the runs with presets
\* only an action property does: states that differ in it alone are one.
MCView == <<fsVars, ramVars, nvs, linkVars, chipVars>>

\* Nor does any action or state property of the run of two bundles depend on
\* what the EEPROM holds and the chip runs.
MCBundlesView == <<fsVars, ramVars, nvs, linkVars, registers>>

\* Two controls: schemas that share the first.
MCShared == {[i \in {1} |-> 1], [i \in {1, 2} |-> IF i = 1 THEN 2 ELSE 1]}

\* Two controls: schemas with nothing in common.
MCDisjoint == {[i \in {1} |-> 1], [i \in {2} |-> 1]}
=============================================================================
