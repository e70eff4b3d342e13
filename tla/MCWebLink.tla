----------------------------- MODULE MCWebLink -----------------------------
(* Values for TLC: two pages, two settings. *)
EXTENDS WebLink, TLC

(* Pages and settings are interchangeable, and a page by itself does not     *)
(* look at what a broadcast says.                                            *)
Symmetry == Permutations(Clients) \cup Permutations(Settings)
Kinds(q) == [i \in DOMAIN q |-> IF "pong" \in DOMAIN q[i] THEN q[i].pong ELSE 0]
LinkView == <<open, seq, timers, joined, msg_seq, applied, snap = <<>>, history, up,
              [c \in Clients |-> Kinds(down[c])], drops>>
============================================================================
