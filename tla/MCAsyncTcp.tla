----------------------------- MODULE MCAsyncTcp -----------------------------
(* A small instance of AsyncTcp.                                             *)
EXTENDS AsyncTcp, TLC
Symmetry == Permutations(Clients) \cup Permutations(Pcbs)
=============================================================================
