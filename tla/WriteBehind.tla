---------------------------- MODULE WriteBehind ----------------------------
(***************************************************************************)
(* What the firmware promises of a value it keeps in RAM and writes to    *)
(* NVS behind the operator's back: RAM is what the operator reads, NVS is  *)
(* what a power loss falls back to, and a key that is no longer owed to    *)
(* NVS is on NVS.                                                          *)
(*                                                                         *)
(* A value reaches NVS through a carrier: the argument of a Preferences    *)
(* put, or the JSON text of a whole map.  It was in RAM when the carrier   *)
(* was filled, and RAM may have moved on since.                            *)
(***************************************************************************)
CONSTANTS Keys, Values

VARIABLES
  mem,      \* the value of every key in RAM
  durable,  \* the value of every key a boot would load
  carried,  \* for every key, the set of (at most one) values on their way
  owed      \* the keys whose RAM value NVS may still miss

vars == <<mem, durable, carried, owed>>

Init ==
  /\ mem \in [Keys -> Values]
  /\ durable = mem
  /\ carried = [k \in Keys |-> {}]
  /\ owed \in SUBSET Keys

\* A writer takes up work on some keys before it touches them.
Owe ==
  /\ owed' \in SUBSET Keys
  /\ owed \subseteq owed'
  /\ UNCHANGED <<mem, durable, carried>>

\* Only a key that is owed changes in RAM.
Write ==
  /\ mem' \in [Keys -> Values]
  /\ \A k \in Keys \ owed : mem'[k] = mem[k]
  /\ UNCHANGED <<durable, carried, owed>>

\* The carrier of a key is filled from RAM, or dropped.
Carry ==
  /\ carried' \in [Keys -> SUBSET Values]
  /\ \A k \in Keys : carried'[k] \in {carried[k], {mem[k]}, {}}
  /\ UNCHANGED <<mem, durable, owed>>

\* What is carried reaches NVS.  A key stops being owed only when NVS has
\* what RAM has, and nothing stale reaches a key that is not owed.
Persist ==
  /\ durable' \in [Keys -> Values]
  /\ \A k \in Keys : durable'[k] \in carried[k] \cup {durable[k]}
  /\ carried' \in [Keys -> SUBSET Values]
  /\ \A k \in Keys : carried'[k] \in {carried[k], {}}
  /\ owed' \in SUBSET owed
  /\ \A k \in Keys \ owed' : durable'[k] = mem[k]
  /\ UNCHANGED mem

\* RAM is gone: the next boot loads NVS.
PowerLoss ==
  /\ mem' = durable
  /\ carried' = [k \in Keys |-> {}]
  /\ owed' \in SUBSET Keys
  /\ UNCHANGED durable

Next == Owe \/ Write \/ Carry \/ Persist \/ PowerLoss

Spec == Init /\ [][Next]_vars

(***************************************************************************)
(* What follows from the promise: a key that is not owed survives a power  *)
(* loss.                                                                   *)
(***************************************************************************)
SettledIsDurable == \A k \in Keys \ owed : durable[k] = mem[k]
=============================================================================
