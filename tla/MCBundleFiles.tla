---------------------------- MODULE MCBundleFiles ----------------------------
(* Values for TLC: two bundles, three uploads of which one finds no handle, four contents. *)
EXTENDS BundleFiles, TLC

Symmetry == Permutations(Bundles) \cup Permutations(Requests) \cup Permutations(Contents)
=============================================================================
