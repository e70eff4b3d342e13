--------------------------- MODULE AsyncTcpProofs ---------------------------
(***************************************************************************)
(* For every number of connections, control blocks, slots and queue        *)
(* places: the types hold, slots are never shared, a callback meets a null *)
(* pointer only within a close, a call reaches its own connection, and     *)
(* events are handled in order and for objects that are there, each but    *)
(* for the cases that its property names.                                  *)
(***************************************************************************)
EXTENDS AsyncTcp, FiniteSetTheorems, WellFoundedInduction, TLAPS

----------------------------------------------------------------------------
(* Slots *)

\* A set of numbers has a least one.
LEMMA LeastNumber ==
  ASSUME NEW T \in SUBSET Nat, T # {}
  PROVE  \E x \in T : \A y \in T : x <= y
<1>1. PICK x \in T : \A y \in T : ~(<<y, x>> \in OpToRel(<, Nat))
  BY NatLessThanWellFounded, WFMin
<1>2. \A y \in T : ~(y < x)
  BY <1>1 DEF OpToRel
<1> QED
  BY <1>2

\* The slot that is allocated is a free one, and none has been free for longer.
LEMMA AllocatedIsFirst ==
  ASSUME closed_slots \in [Slots -> Nat], FreeSlots # {}
  PROVE  /\ Allocated \in FreeSlots
         /\ \A t \in FreeSlots \ {Allocated} :
              \/ closed_slots[Allocated] < closed_slots[t]
              \/ closed_slots[Allocated] = closed_slots[t] /\ t < Allocated
<1>1. FreeSlots \subseteq Slots /\ \A s \in Slots : s \in Nat /\ NSlots - s \in Nat
  BY TcpAssumption DEF FreeSlots, Slots
<1> DEFINE Times == {closed_slots[s] : s \in FreeSlots}
<1>2. PICK time \in Times : \A t \in Times : time <= t
  <2>1. Times \in SUBSET Nat /\ Times # {}
    BY <1>1
  <2> QED
    BY <2>1, LeastNumber
<1> DEFINE Oldest == {s \in FreeSlots : closed_slots[s] = time}
           Rests == {NSlots - s : s \in Oldest}
<1>3. PICK rest \in Rests : \A r \in Rests : rest <= r
  <2>1. Rests \in SUBSET Nat /\ Rests # {}
    BY <1>1, <1>2
  <2> QED
    BY <2>1, LeastNumber
<1>4. PICK s \in Oldest : rest = NSlots - s
  BY <1>3
<1>5. ASSUME NEW t \in FreeSlots \ {s}
      PROVE  closed_slots[s] < closed_slots[t] \/ (closed_slots[s] = closed_slots[t] /\ t < s)
  <2>1. closed_slots[s] \in Nat /\ closed_slots[t] \in Nat /\ s \in Nat /\ t \in Nat /\ t # s
    BY <1>1
  <2>2. closed_slots[s] <= closed_slots[t]
    BY <1>2
  <2>3. CASE closed_slots[t] = closed_slots[s]
    <3>1. NSlots - s <= NSlots - t
      BY <1>3, <1>4, <2>3
    <3> QED
      BY <2>1, <2>3, <3>1, TcpAssumption
  <2> QED
    BY <2>1, <2>2, <2>3
<1>6. \E f \in FreeSlots : \A t \in FreeSlots \ {f} :
        closed_slots[f] < closed_slots[t] \/ (closed_slots[f] = closed_slots[t] /\ t < f)
  BY <1>5
<1> QED
  BY <1>6 DEF Allocated

----------------------------------------------------------------------------
(* The queue *)

Events == [kind : Kinds, to : Clients, n : Nat]
InQueue(q) == {q[i] : i \in 1..Len(q)}

LEMMA EventType ==
  ASSUME NEW kind \in Kinds, NEW c \in Clients, NEW n \in Nat
  PROVE  Event(kind, c, n) \in Events /\ Event(kind, c, n).kind = kind /\ Event(kind, c, n).to = c
BY DEF Event, Events

LEMMA NullIsNoEvent == Null \notin Events
BY TcpAssumption DEF Events

\* An event at the end of the queue ...
LEMMA Appended ==
  ASSUME NEW q \in Seq(Events), NEW e \in Events
  PROVE  /\ Append(q, e) \in Seq(Events) /\ Len(Append(q, e)) = Len(q) + 1
         /\ InQueue(Append(q, e)) \subseteq InQueue(q) \cup {e}
BY DEF InQueue

\* ... one at its front ...
LEMMA Prepended ==
  ASSUME NEW q \in Seq(Events), NEW e \in Events
  PROVE  /\ <<e>> \o q \in Seq(Events) /\ Len(<<e>> \o q) = Len(q) + 1
         /\ InQueue(<<e>> \o q) \subseteq InQueue(q) \cup {e}
<1>1. <<e>> \o q \in Seq(Events) /\ Len(<<e>> \o q) = Len(q) + 1
  OBVIOUS
<1>2. ASSUME NEW i \in 1..Len(<<e>> \o q)
      PROVE  (<<e>> \o q)[i] \in InQueue(q) \cup {e}
  <2>1. CASE i = 1
    BY <2>1
  <2>2. CASE i # 1
    <3>1. (<<e>> \o q)[i] = q[i - 1] /\ i - 1 \in 1..Len(q)
      BY <1>1, <2>2
    <3> QED
      BY <3>1 DEF InQueue
  <2> QED
    BY <2>1, <2>2
<1> QED
  BY <1>1, <1>2 DEF InQueue

\* ... and one taken from its front.
LEMMA TakenOff ==
  ASSUME NEW q \in Seq(Events), q # <<>>
  PROVE  /\ Tail(q) \in Seq(Events) /\ Len(Tail(q)) = Len(q) - 1 /\ Head(q) \in Events
         /\ InQueue(Tail(q)) \subseteq InQueue(q) /\ Head(q) \in InQueue(q)
BY DEF InQueue

----------------------------------------------------------------------------
(* Types *)

Labels == {"idle", "handler", "reading", "calling", "fin", "error", "unhook", "unhook_rest",
           "clear", "close", "rotate"}

Typed ==
  /\ TypeOK
  /\ at \in Labels /\ raised \in [Clients -> Nat]
  /\ queue \in Seq(Events) /\ {net, hand} \subseteq Events \cup {Null}

\* Giving a slot back.
LEMMA SlotGivenBack ==
  ASSUME Typed, NEW c \in Clients, FreeClosedSlot(c)
  PROVE  /\ slot' \in [Clients -> Slots \cup {NoSlot}] /\ closed_slots' \in [Slots -> Nat]
         /\ closed_index' \in Nat \ {0}
         /\ slot'[c] = NoSlot /\ \A d \in Clients \ {c} : slot'[d] = slot[d]
         /\ \A s \in Slots : closed_slots[s] = 0 /\ s # slot[c] => closed_slots'[s] = 0
<1>1. slot \in [Clients -> Slots \cup {NoSlot}] /\ closed_slots \in [Slots -> Nat]
      /\ closed_index \in Nat \ {0}
  BY DEF Typed, TypeOK
<1> QED
  BY <1>1 DEF FreeClosedSlot

LEMMA Destroyed ==
  ASSUME Typed, NEW c \in Clients, Destroy(c)
  PROVE  /\ obj' \in [Clients -> {"fresh", "live", "deleted"}]
         /\ pcb' \in [Clients -> Pcbs \cup {Null}]
         /\ slot' \in [Clients -> Slots \cup {NoSlot}] /\ closed_slots' \in [Slots -> Nat]
         /\ closed_index' \in Nat \ {0}
         /\ \A d \in Clients \ {c} : obj'[d] = obj[d]
         /\ obj'[c] = "deleted"
<1>1. obj \in [Clients -> {"fresh", "live", "deleted"}] /\ pcb \in [Clients -> Pcbs \cup {Null}]
  BY DEF Typed, TypeOK
<1> QED
  BY <1>1, SlotGivenBack DEF Destroy

\* The kinds of events lead to places of the task.
LEMMA EntryType ==
  ASSUME NEW e \in Events
  PROVE  /\ Entry(e) \in Labels
         /\ Entry(e) \in {"idle", "handler", "fin", "error", "rotate"}
         /\ e.kind = "clear" <=> Entry(e) = "rotate"
         /\ Entry(e) \notin {"idle", "rotate"} => obj[e.to] # "deleted"
         /\ Entry(e) \in {"fin", "error"} => Entry(e) = e.kind
<1>1. e.kind \in Kinds
  BY DEF Events
<1>2. CASE e.kind = "clear"
  <2>1. Entry(e) = "rotate"
    BY <1>2 DEF Entry
  <2> QED
    BY <1>2, <2>1 DEF Labels
<1>3. CASE e.kind # "clear" /\ Ignored(e)
  <2>1. Entry(e) = "idle"
    BY <1>3 DEF Entry
  <2> QED
    BY <1>3, <2>1 DEF Labels
<1>4. CASE e.kind \in {"data", "poll"} /\ ~Ignored(e)
  <2>1. Entry(e) = "handler"
    BY <1>4 DEF Entry
  <2> QED
    BY <1>4, <2>1 DEF Labels, Ignored
<1>5. CASE e.kind \in {"fin", "error"} /\ ~Ignored(e)
  <2>1. Entry(e) = e.kind
    BY <1>5 DEF Entry
  <2> QED
    BY <1>5, <2>1 DEF Labels, Ignored
<1> QED
  BY <1>1, <1>2, <1>3, <1>4, <1>5 DEF Kinds, Ignored

\* What the lwIP thread does.
LEMMA RaisedType ==
  ASSUME Typed, NEW kind \in Kinds, NEW c \in Clients, Raise(kind, c)
  PROVE  raised' \in [Clients -> Nat] /\ net' \in Events /\ net'.kind = kind /\ net'.to = c
<1>1. raised \in [Clients -> Nat] /\ raised[c] + 1 \in Nat
  BY DEF Typed
<1> QED
  BY <1>1, EventType DEF Raise

LEMMA LwipType ==
  ASSUME Typed, Lwip
  PROVE  Typed'
<1>1. ASSUME NEW c \in Clients, NEW p \in Pcbs, Accept(c, p) PROVE Typed'
  <2>1. raised' \in [Clients -> Nat] /\ net' \in Events
    BY <1>1, RaisedType DEF Accept, Kinds
  <2>2. of' \in [Pcbs -> Clients \cup {Null}] /\ arg' \in [Pcbs -> Clients \cup {Null}]
        /\ hooked' \in [Pcbs -> BOOLEAN]
        /\ obj' \in [Clients -> {"fresh", "live", "deleted"}]
        /\ pcb' \in [Clients -> Pcbs \cup {Null}]
    BY <1>1 DEF Accept, Typed, TypeOK
  <2>3. slot' \in [Clients -> Slots \cup {NoSlot}] /\ closed_slots' \in [Slots -> Nat]
    <3>1. closed_slots \in [Slots -> Nat] /\ slot \in [Clients -> Slots \cup {NoSlot}]
      BY DEF Typed, TypeOK
    <3>2. CASE FreeSlots = {}
      BY <1>1, <3>1, <3>2 DEF Accept
    <3>3. CASE FreeSlots # {}
      <4>1. Allocated \in Slots
        BY <3>1, <3>3, AllocatedIsFirst DEF FreeSlots
      <4> QED
        BY <1>1, <3>1, <3>3, <4>1 DEF Accept
    <3> QED
      BY <3>2, <3>3
  <2> QED
    BY <1>1, <2>1, <2>2, <2>3 DEF Accept, Typed, TypeOK, task
<1>2. ASSUME NEW p \in Pcbs, NEW kind \in {"data", "poll"}, Called(p, kind) PROVE Typed'
  <2>1. arg[p] \in Clients
    BY <1>2 DEF Called, Typed, TypeOK
  <2>2. raised' \in [Clients -> Nat] /\ net' \in Events
    BY <1>2, <2>1, RaisedType DEF Called, Kinds
  <2> QED
    BY <1>2, <2>2 DEF Called, Typed, TypeOK, lwip, objects, task
<1>3. ASSUME NEW p \in Pcbs, Fin(p) PROVE Typed'
  <2>1. CASE arg[p] = Null
    BY <1>3, <2>1 DEF Fin, Typed, TypeOK, lwip, objects, task
  <2>2. CASE arg[p] # Null
    <3> DEFINE c == arg[p]
    <3>1. c \in Clients
      BY <2>2 DEF Typed, TypeOK
    <3> HIDE DEF c
    <3>2. Raise("fin", c)
      BY <1>3, <2>2 DEF Fin, c
    <3>3. raised' \in [Clients -> Nat] /\ net' \in Events
      BY <3>1, <3>2, RaisedType DEF Kinds
    <3>4. CASE pcb[c] # p
      BY <1>3, <2>2, <3>3, <3>4 DEF Fin, Typed, TypeOK, lwip, objects, task, c
    <3>5. CASE pcb[c] = p
      <4>1. FreeClosedSlot(c) /\ of' = [of EXCEPT ![p] = Null] /\ arg' = [arg EXCEPT ![p] = Null]
            /\ pcb' = [pcb EXCEPT ![c] = Null] /\ UNCHANGED <<hooked, obj>>
        BY <1>3, <2>2, <3>5 DEF Fin, c
      <4>2. slot' \in [Clients -> Slots \cup {NoSlot}] /\ closed_slots' \in [Slots -> Nat]
            /\ closed_index' \in Nat \ {0}
        BY <3>1, <4>1, SlotGivenBack
      <4>3. of' \in [Pcbs -> Clients \cup {Null}] /\ arg' \in [Pcbs -> Clients \cup {Null}]
            /\ pcb' \in [Clients -> Pcbs \cup {Null}]
        BY <4>1 DEF Typed, TypeOK
      <4> QED
        BY <1>3, <3>3, <4>1, <4>2, <4>3 DEF Fin, Typed, TypeOK, task
    <3> QED
      BY <3>4, <3>5
  <2> QED
    BY <2>1, <2>2
<1>4. ASSUME NEW p \in Pcbs, Error(p) PROVE Typed'
  <2>1. of' \in [Pcbs -> Clients \cup {Null}]
    BY <1>4 DEF Error, Typed, TypeOK
  <2>2. raised' \in [Clients -> Nat] /\ net' \in Events \cup {Null}
    <3>1. CASE hooked[p] /\ arg[p] # Null
      <4>1. arg[p] \in Clients
        BY <3>1 DEF Typed, TypeOK
      <4> QED
        BY <1>4, <3>1, <4>1, RaisedType DEF Error, Kinds
    <3>2. CASE ~(hooked[p] /\ arg[p] # Null)
      BY <1>4, <3>2 DEF Error, Typed
    <3> QED
      BY <3>1, <3>2
  <2> QED
    BY <1>4, <2>1, <2>2 DEF Error, Typed, TypeOK, objects, task
<1>5. CASE Send
  <2>1. net \in Events /\ queue \in Seq(Events) /\ Len(queue) < QueueLen
    BY <1>5 DEF Send, Typed, HasRoom
  <2>2. queue' \in Seq(Events) /\ Len(queue') = Len(queue) + 1
    BY <1>5, <2>1, Appended, Prepended DEF Send
  <2>3. Len(queue') <= QueueLen
    BY <2>1, <2>2, TcpAssumption
  <2> QED
    BY <1>5, <2>2, <2>3 DEF Send, Typed, TypeOK, lwip, objects, task
<1> QED
  BY <1>1, <1>2, <1>3, <1>4, <1>5 DEF Lwip

\* What async_tcp does, when it takes an event, ...
LEMMA TakeType ==
  ASSUME Typed, Take
  PROVE  Typed'
<1>1. Head(queue) \in Events /\ Tail(queue) \in Seq(Events) /\ Len(Tail(queue)) = Len(queue) - 1
  BY TakenOff DEF Take, Typed
<1>2. Head(queue).to \in Clients /\ Entry(Head(queue)) \in Labels
  BY <1>1, EntryType DEF Events
<1>3. queue' = Tail(queue) /\ hand' = Null /\ UNCHANGED <<lwip, objects, raised, net>>
      /\ at' = Entry(Head(queue))
      /\ cur' = IF Entry(Head(queue)) = "idle" THEN Null ELSE Head(queue).to
  BY DEF Take, lwipThread
<1>4. Len(queue') <= QueueLen
  BY <1>1, <1>3, TcpAssumption DEF Typed, TypeOK
<1>5. (at' = "idle") = (cur' = Null) /\ cur' \in Clients \cup {Null}
  BY <1>2, <1>3, TcpAssumption
<1> QED
  BY <1>1, <1>2, <1>3, <1>4, <1>5 DEF Typed, TypeOK, lwip, objects

\* ... in its handlers, and ...
LEMMA HandlerType ==
  ASSUME Typed, Return \/ HandleError \/ HandleFin \/ ReadPcb \/ ReadSlot \/ Call
  PROVE  Typed'
<1>0. at # "idle" => cur \in Clients
  BY DEF Typed, TypeOK
<1>1. CASE Return
  BY <1>1 DEF Return, Typed, TypeOK, lwip, objects, lwipThread, Labels
<1>2. CASE HandleError
  <2>1. cur \in Clients /\ Destroy(cur)
    BY <1>0, <1>2 DEF HandleError
  <2>2. arg' \in [Pcbs -> Clients \cup {Null}]
    BY <1>2 DEF HandleError, Typed, TypeOK
  <2> QED
    BY <1>2, <2>1, <2>2, Destroyed DEF HandleError, Typed, TypeOK, lwipThread, Labels
<1>3. CASE HandleFin
  <2>1. cur \in Clients /\ Destroy(cur)
    BY <1>0, <1>3 DEF HandleFin
  <2>2. queue' \in Seq(Events) /\ Len(queue') <= QueueLen
    <3>1. Clear(cur) \in Events
      BY <2>1, EventType DEF Clear, Kinds
    <3>2. queue \in Seq(Events) /\ Len(queue) < QueueLen /\ Len(queue) \in Nat
      BY <1>3 DEF HandleFin, HasRoom, Typed
    <3> QED
      BY <1>3, <3>1, <3>2, Prepended, TcpAssumption DEF HandleFin
  <2> QED
    BY <1>3, <2>1, <2>2, Destroyed DEF HandleFin, Typed, TypeOK, lwip, lwipThread, Labels
<1>4. CASE ReadPcb
  BY <1>4 DEF ReadPcb, Typed, TypeOK, lwip, objects, lwipThread, Labels
<1>5. CASE ReadSlot
  BY <1>5 DEF ReadSlot, Typed, TypeOK, lwip, objects, lwipThread, Labels
<1>6. CASE Call
  BY <1>6 DEF Call, Goto, Typed, TypeOK, lwip, objects, lwipThread, Labels
<1> QED
  BY <1>1, <1>2, <1>3, <1>4, <1>5, <1>6

\* ... when it closes, and ...
LEMMA ClosingType ==
  ASSUME Typed, StartClose \/ ClearArg \/ ClearHooks \/ ClearEvents \/ Close
  PROVE  Typed'
<1>0. at # "idle" => cur \in Clients
  BY DEF Typed, TypeOK
<1>1. CASE StartClose
  BY <1>1 DEF StartClose, Goto, Typed, TypeOK, lwip, objects, lwipThread, Labels
<1>2. CASE ClearArg
  <2>1. arg' \in [Pcbs -> Clients \cup {Null}]
    BY <1>2 DEF ClearArg, Typed, TypeOK
  <2> QED
    BY <1>2, <2>1 DEF ClearArg, Goto, Typed, TypeOK, objects, lwipThread, Labels
<1>3. CASE ClearHooks
  <2>1. hooked' \in [Pcbs -> BOOLEAN]
    BY <1>3 DEF ClearHooks, Typed, TypeOK
  <2> QED
    BY <1>3, <2>1 DEF ClearHooks, Goto, Typed, TypeOK, objects, lwipThread, Labels
<1>4. CASE ClearEvents
  <2>1. queue' \in Seq(Events) /\ Len(queue') <= QueueLen
    <3>1. Clear(cur) \in Events
      BY <1>0, <1>4, EventType DEF ClearEvents, Clear, Kinds
    <3>2. queue \in Seq(Events) /\ Len(queue) < QueueLen /\ Len(queue) \in Nat
      BY <1>4 DEF ClearEvents, HasRoom, Typed
    <3> QED
      BY <1>4, <3>1, <3>2, Prepended, TcpAssumption DEF ClearEvents
  <2> QED
    BY <1>4, <2>1 DEF ClearEvents, Goto, Typed, TypeOK, lwip, objects, lwipThread, Labels
<1>5. CASE Close
  <2>1. cur \in Clients /\ Destroy(cur)
    BY <1>0, <1>5 DEF Close
  <2>2. of' \in [Pcbs -> Clients \cup {Null}]
    BY <1>5 DEF Close, Typed, TypeOK
  <2> QED
    BY <1>5, <2>1, <2>2, Destroyed DEF Close, Typed, TypeOK, lwipThread, Labels
<1> QED
  BY <1>1, <1>2, <1>3, <1>4, <1>5

\* ... when it removes the events of a closed connection.
LEMMA RotationType ==
  ASSUME Typed, TakePacket \/ PutPacket \/ EndRotation
  PROVE  Typed'
<1>1. CASE TakePacket
  <2>1. queue # <<>>
    BY <1>1 DEF TakePacket, Rotated
  <2>2. Head(queue) \in Events /\ Tail(queue) \in Seq(Events) /\ Len(Tail(queue)) = Len(queue) - 1
    BY <2>1, TakenOff DEF Typed
  <2>3. queue' = Tail(queue) /\ hand' \in Events \cup {Null}
    BY <1>1, <2>2 DEF TakePacket
  <2>4. Len(queue') <= QueueLen
    BY <2>2, <2>3, TcpAssumption DEF Typed, TypeOK
  <2> QED
    BY <1>1, <2>2, <2>3, <2>4 DEF TakePacket, Typed, TypeOK, lwip, objects, lwipThread
<1>2. CASE PutPacket
  <2>1. hand \in Events /\ queue \in Seq(Events) /\ Len(queue) < QueueLen /\ Len(queue) \in Nat
    BY <1>2 DEF PutPacket, Typed, HasRoom
  <2>2. queue' \in Seq(Events) /\ Len(queue') <= QueueLen /\ hand' = Null
    BY <1>2, <2>1, Appended, TcpAssumption DEF PutPacket
  <2> QED
    BY <1>2, <2>2 DEF PutPacket, Typed, TypeOK, lwip, objects, lwipThread
<1>3. CASE EndRotation
  BY <1>3 DEF EndRotation, Typed, TypeOK, lwip, objects, lwipThread, Labels
<1> QED
  BY <1>1, <1>2, <1>3

LEMMA AlwaysTyped == Spec => []Typed
<1>1. Init => Typed
  <2> SUFFICES ASSUME Init PROVE Typed
    OBVIOUS
  <2>1. queue \in Seq(Events) /\ Len(queue) = 0
    BY DEF Init
  <2> QED
    BY <2>1, TcpAssumption DEF Init, Typed, TypeOK, Labels
<1>2. Typed /\ [Next]_vars => Typed'
  <2>1. ASSUME Typed, UNCHANGED vars PROVE Typed'
    BY <2>1 DEF vars, lwip, objects, task, Typed, TypeOK
  <2> QED
    BY <2>1, LwipType, TakeType, HandlerType, ClosingType, RotationType DEF Next, AsyncTask
<1> QED
  BY <1>1, <1>2, PTL DEF Spec

\* The types; the queue never has more events than it was made for
\* (_async_queue).
THEOREM TypeCorrect == Spec => []TypeOK
BY AlwaysTyped, PTL DEF Typed

----------------------------------------------------------------------------
(* Slots are not shared *)

\* A slot that is given back, or an object that goes, leaves the others.
LEMMA SharedByNone ==
  ASSUME Typed, SlotsAgree, NEW c \in Clients, FreeClosedSlot(c),
         \A d \in Clients \ {c} : obj'[d] = obj[d]
  PROVE  SlotsAgree'
<1>1. slot'[c] = NoSlot /\ \A d \in Clients \ {c} : slot'[d] = slot[d]
  BY SlotGivenBack
<1>2. \A s \in Slots : closed_slots[s] = 0 /\ s # slot[c] => closed_slots'[s] = 0
  BY SlotGivenBack
<1>3. ASSUME NEW d \in Clients, slot'[d] # NoSlot
      PROVE  /\ obj'[d] = "live" /\ closed_slots'[slot'[d]] = 0
             /\ \A e \in Clients \ {d} : slot'[e] # slot'[d]
  <2>1. d # c /\ slot'[d] = slot[d] /\ slot[d] \in Slots
    BY <1>1, <1>3 DEF Typed, TypeOK
  <2>2. obj[d] = "live" /\ closed_slots[slot[d]] = 0 /\ \A e \in Clients \ {d} : slot[e] # slot[d]
    BY <1>3, <2>1 DEF SlotsAgree
  <2>3. closed_slots'[slot'[d]] = 0
    BY <1>2, <2>1, <2>2
  <2> QED
    BY <1>1, <1>3, <2>1, <2>2, <2>3
<1> QED
  BY <1>3 DEF SlotsAgree

\* A slot that an object has is open and its own, although both threads give
\* slots back (_allocate_closed_slot, _free_closed_slot).
THEOREM SlotsAlwaysAgree == Spec => []SlotsAgree
<1>1. Init => SlotsAgree
  BY DEF Init, SlotsAgree
<1>2. Typed /\ SlotsAgree /\ [Next]_vars => SlotsAgree'
  <2> SUFFICES ASSUME Typed, SlotsAgree, [Next]_vars PROVE SlotsAgree'
    OBVIOUS
  <2>0. at # "idle" => cur \in Clients
    BY DEF Typed, TypeOK
  <2>1. ASSUME NEW c \in Clients, NEW p \in Pcbs, Accept(c, p) PROVE SlotsAgree'
    <3>1. obj[c] = "fresh" /\ obj' = [obj EXCEPT ![c] = "live"]
      BY <2>1 DEF Accept
    <3>2. slot[c] = NoSlot
      BY <3>1 DEF SlotsAgree
    <3>3. obj \in [Clients -> {"fresh", "live", "deleted"}] /\ closed_slots \in [Slots -> Nat]
          /\ slot \in [Clients -> Slots \cup {NoSlot}]
      BY DEF Typed, TypeOK
    <3>4. CASE FreeSlots = {}
      BY <2>1, <3>1, <3>2, <3>3, <3>4 DEF Accept, SlotsAgree
    <3>5. CASE FreeSlots # {}
      <4> DEFINE s == Allocated
      <4>1. s \in Slots /\ closed_slots[s] # 0
        BY <3>3, <3>5, AllocatedIsFirst DEF FreeSlots
      <4>2. slot' = [slot EXCEPT ![c] = s] /\ closed_slots' = [closed_slots EXCEPT ![s] = 0]
        BY <2>1, <3>5 DEF Accept
      <4>3. \A d \in Clients : slot[d] # s
        BY <3>3, <4>1, TcpAssumption DEF SlotsAgree, Slots, NoSlot
      <4> HIDE DEF s
      <4>4. slot'[c] = s /\ closed_slots'[s] = 0 /\ obj'[c] = "live"
        BY <3>1, <3>3, <4>1, <4>2
      <4>5. ASSUME NEW d \in Clients \ {c}, slot'[d] # NoSlot
            PROVE  /\ obj'[d] = "live" /\ closed_slots'[slot'[d]] = 0 /\ slot'[d] # s
                   /\ \A e \in Clients \ {d} : slot'[e] # slot'[d]
        <5>1. slot'[d] = slot[d] /\ obj'[d] = obj[d] /\ slot[d] \in Slots
          BY <3>1, <3>3, <4>2, <4>5
        <5>2. obj[d] = "live" /\ closed_slots[slot[d]] = 0 /\ \A e \in Clients \ {d} : slot[e] # slot[d]
          BY <4>5, <5>1 DEF SlotsAgree
        <5> QED
          BY <3>3, <4>1, <4>2, <4>3, <4>4, <5>1, <5>2
      <4> QED
        BY <4>4, <4>5 DEF SlotsAgree
    <3> QED
      BY <3>4, <3>5
  <2>2. ASSUME NEW p \in Pcbs, Fin(p) PROVE SlotsAgree'
    <3>1. CASE UNCHANGED <<slot, closed_slots, obj>>
      BY <3>1 DEF SlotsAgree
    <3>2. CASE arg[p] # Null /\ pcb[arg[p]] = p
      <4>1. arg[p] \in Clients
        BY <3>2 DEF Typed, TypeOK
      <4>2. FreeClosedSlot(arg[p]) /\ obj' = obj
        BY <2>2, <3>2 DEF Fin
      <4> QED
        BY <4>1, <4>2, SharedByNone
    <3> QED
      BY <2>2, <3>1, <3>2 DEF Fin, objects
  <2>3. CASE HandleError \/ HandleFin \/ Close
    <3>1. cur \in Clients /\ Destroy(cur)
      BY <2>0, <2>3 DEF HandleError, HandleFin, Close
    <3>2. FreeClosedSlot(cur) /\ \A d \in Clients \ {cur} : obj'[d] = obj[d]
      BY <3>1, Destroyed DEF Destroy
    <3> QED
      BY <3>1, <3>2, SharedByNone
  <2>4. CASE \/ \E p \in Pcbs : Called(p, "data") \/ Called(p, "poll") \/ Error(p)
             \/ Send \/ Take \/ Return \/ ReadPcb \/ ReadSlot \/ Call
             \/ StartClose \/ ClearArg \/ ClearHooks \/ ClearEvents
             \/ TakePacket \/ PutPacket \/ EndRotation \/ UNCHANGED vars
    <3>1. UNCHANGED <<slot, closed_slots, obj>>
      BY <2>4 DEF Called, Error, Send, Take, Return, ReadPcb, ReadSlot, Call, StartClose, ClearArg,
                  ClearHooks, ClearEvents, TakePacket, PutPacket, EndRotation, objects, vars
    <3> QED
      BY <3>1 DEF SlotsAgree
  <2> QED
    BY <2>1, <2>2, <2>3, <2>4 DEF Next, Lwip, AsyncTask
<1> QED
  BY <1>1, <1>2, AlwaysTyped, PTL DEF Spec

----------------------------------------------------------------------------
(* Null pointers *)

\* Of the objects and events that are on their way, none is for a connection
\* that is still to come, and an error is for one that lwIP has forgotten.
Ended(c) == \A p \in Pcbs : of[p] # c
Sound(e) == obj[e.to] # "fresh" /\ (e.kind = "error" => Ended(e.to))
OnTheirWay == InQueue(queue) \cup ({net, hand} \ {Null})

Ownership ==
  /\ \A p \in Pcbs : of[p] # Null => arg[p] \in {of[p], Null} /\ obj[of[p]] # "fresh"
  /\ \A p, q \in Pcbs : of[p] # Null /\ of[p] = of[q] => p = q
  /\ \A e \in OnTheirWay : Sound(e)
  /\ cur # Null => obj[cur] # "fresh" /\ (at = "error" => Ended(cur))

\* A pcb that calls back has an argument, but for those steps.
HooksHaveArg ==
  \A p \in Pcbs : of[p] # Null /\ hooked[p] /\ arg[p] = Null =>
    (at = "unhook_rest" /\ pcb[cur] = p) \/ robbed

\* What lwIP forgets, and objects that get older, leave an event sound.
LEMMA StaysSound ==
  ASSUME NEW e \in Events, Sound(e),
         \A p \in Pcbs : of'[p] \in {of[p], Null},
         \A c \in Clients : obj'[c] = "fresh" => obj[c] = "fresh"
  PROVE  Sound(e)'
<1>1. e.to \in Clients /\ e.to # Null
  BY TcpAssumption DEF Events
<1> QED
  BY <1>1 DEF Sound, Ended

\* What the lwIP thread does.
LEMMA LwipOwnership ==
  ASSUME Typed, Ownership, Lwip
  PROVE  Ownership'
<1>0. /\ of \in [Pcbs -> Clients \cup {Null}] /\ arg \in [Pcbs -> Clients \cup {Null}]
      /\ obj \in [Clients -> {"fresh", "live", "deleted"}] /\ cur \in Clients \cup {Null}
  BY DEF Typed, TypeOK
<1>e. OnTheirWay \subseteq Events
  BY DEF Typed, InQueue, OnTheirWay
<1>1. ASSUME NEW c \in Clients, NEW p \in Pcbs, Accept(c, p) PROVE Ownership'
  <2>1. /\ obj[c] = "fresh" /\ of[p] = Null /\ net = Null /\ Raise("accept", c)
        /\ of' = [of EXCEPT ![p] = c] /\ arg' = [arg EXCEPT ![p] = c]
        /\ obj' = [obj EXCEPT ![c] = "live"] /\ UNCHANGED <<queue, hand, at, cur>>
    BY <1>1 DEF Accept, Lockable, task
  <2>2. Ended(c)
    BY <2>1, TcpAssumption DEF Ownership, Ended
  <2>3. ASSUME NEW e \in OnTheirWay PROVE Sound(e)'
    <3>1. Sound(e) /\ e \in Events
      BY <1>e DEF Ownership
    <3> QED
      BY <1>0, <2>1, <3>1 DEF Sound, Ended, Events
  <2>4. \A e \in {net'} : Sound(e)'
    <3>1. net'.to = c /\ net'.kind = "accept"
      BY <2>1, RaisedType DEF Kinds
    <3> QED
      BY <1>0, <2>1, <3>1 DEF Sound
  <2>5. \A q \in Pcbs : of'[q] # Null => arg'[q] \in {of'[q], Null} /\ obj'[of'[q]] # "fresh"
    BY <1>0, <2>1 DEF Ownership
  <2>6. \A q, r \in Pcbs : of'[q] # Null /\ of'[q] = of'[r] => q = r
    BY <1>0, <2>1, <2>2 DEF Ownership, Ended
  <2>7. cur' # Null => obj'[cur'] # "fresh" /\ (at' = "error" => Ended(cur)')
    BY <1>0, <2>1 DEF Ownership, Ended
  <2>8. OnTheirWay' \subseteq OnTheirWay \cup {net'}
    BY <2>1 DEF OnTheirWay, InQueue
  <2> QED
    BY <2>3, <2>4, <2>5, <2>6, <2>7, <2>8 DEF Ownership
<1>2. ASSUME NEW p \in Pcbs, NEW kind \in Kinds, of[p] # Null, UNCHANGED <<obj, queue, hand, at, cur>>,
             \A q \in Pcbs : of'[q] \in {of[q], Null} /\ (of'[q] # Null => arg'[q] = arg[q]),
             net' = net \/ (arg[p] # Null /\ Raise(kind, arg[p])),
             kind = "error" => of'[p] = Null
      PROVE  Ownership'
  <2>1. ASSUME NEW e \in OnTheirWay PROVE Sound(e)'
    <3>1. Sound(e) /\ e \in Events
      BY <1>e DEF Ownership
    <3>2. \A c \in Clients : obj'[c] = "fresh" => obj[c] = "fresh"
      BY <1>2
    <3> QED
      BY <1>2, <3>1, <3>2, StaysSound
  <2>2. ASSUME arg[p] # Null, Raise(kind, arg[p]), NEW e, e = net' PROVE Sound(e)'
    <3>1. arg[p] = of[p] /\ arg[p] \in Clients /\ obj[arg[p]] # "fresh"
      BY <1>0, <1>2, <2>2 DEF Ownership
    <3>2. net'.to = arg[p] /\ net'.kind = kind
      BY <2>2, <3>1, RaisedType
    <3>3. kind = "error" => \A q \in Pcbs : of'[q] # arg[p]
      BY <1>0, <1>2, <3>1, TcpAssumption DEF Ownership
    <3>4. obj'[arg[p]] # "fresh"
      BY <1>2, <3>1
    <3> QED
      BY <2>2, <3>2, <3>3, <3>4 DEF Sound, Ended
  <2>3. cur' # Null => obj'[cur'] # "fresh" /\ (at' = "error" => Ended(cur)')
    BY <1>0, <1>2 DEF Ownership, Ended
  <2>4. \A q \in Pcbs : of'[q] # Null => arg'[q] \in {of'[q], Null} /\ obj'[of'[q]] # "fresh"
    BY <1>0, <1>2 DEF Ownership
  <2>5. \A q, r \in Pcbs : of'[q] # Null /\ of'[q] = of'[r] => q = r
    BY <1>2 DEF Ownership
  <2>6. OnTheirWay' \subseteq OnTheirWay \cup {net'} /\ (net' = net => OnTheirWay' = OnTheirWay)
    BY <1>2 DEF OnTheirWay, InQueue
  <2>7. \A e \in OnTheirWay' : Sound(e)'
    BY <1>2, <2>1, <2>2, <2>6
  <2> QED
    BY <1>2, <2>3, <2>4, <2>5, <2>7 DEF Ownership
<1>3. ASSUME NEW p \in Pcbs, NEW kind \in {"data", "poll"}, Called(p, kind) PROVE Ownership'
  BY <1>2, <1>3 DEF Called, lwip, objects, task, Kinds
<1>4. ASSUME NEW p \in Pcbs, Fin(p) PROVE Ownership'
  <2>1. of[p] # Null /\ UNCHANGED <<obj, queue, hand, at, cur>>
    BY <1>4 DEF Fin, objects, task
  <2>2. net' = net \/ (arg[p] # Null /\ Raise("fin", arg[p]))
    BY <1>4 DEF Fin
  <2>3. \A q \in Pcbs : of'[q] \in {of[q], Null} /\ (of'[q] # Null => arg'[q] = arg[q])
    BY <1>0, <1>4 DEF Fin, lwip
  <2> QED
    BY <1>2, <2>1, <2>2, <2>3 DEF Kinds
<1>5. ASSUME NEW p \in Pcbs, Error(p) PROVE Ownership'
  <2>1. of[p] # Null /\ UNCHANGED <<obj, queue, hand, at, cur>> /\ of'[p] = Null
    BY <1>0, <1>5 DEF Error, objects, task
  <2>2. net' = net \/ (arg[p] # Null /\ Raise("error", arg[p]))
    BY <1>5 DEF Error
  <2>3. \A q \in Pcbs : of'[q] \in {of[q], Null} /\ (of'[q] # Null => arg'[q] = arg[q])
    BY <1>0, <1>5 DEF Error
  <2> QED
    BY <1>2, <2>1, <2>2, <2>3 DEF Kinds
<1>6. CASE Send
  <2>1. net \in Events /\ queue \in Seq(Events)
    BY <1>6 DEF Send, Typed
  <2>2. InQueue(queue') \subseteq InQueue(queue) \cup {net} /\ net' = Null
    BY <1>6, <2>1, Appended, Prepended DEF Send
  <2>3. UNCHANGED <<of, arg, obj, hand, at, cur>>
    BY <1>6 DEF Send, lwip, objects, task
  <2>4. OnTheirWay' \subseteq OnTheirWay
    BY <1>6, <2>2, <2>3 DEF OnTheirWay, Send
  <2> QED
    BY <2>3, <2>4 DEF Ownership, Ended, Sound
<1> QED
  BY <1>1, <1>3, <1>4, <1>5, <1>6 DEF Lwip

\* What async_tcp does: it forgets, it makes nothing new but the event that
\* starts a removal, and it enters _error with an event of that kind.
LEMMA TaskKeepsOwnership ==
  ASSUME Typed, Ownership,
         \A p \in Pcbs : of'[p] \in {of[p], Null} /\ arg'[p] \in {arg[p], Null},
         \A c \in Clients : obj'[c] = "fresh" => obj[c] = "fresh",
         \A e \in OnTheirWay' : e \in OnTheirWay \/ (cur # Null /\ e = Clear(cur)),
         \/ cur' = Null
         \/ cur' = cur /\ at' # "error"
         \/ \E e \in InQueue(queue) : cur' = e.to /\ (at' = "error" => e.kind = "error")
  PROVE  Ownership'
<1>0. /\ of \in [Pcbs -> Clients \cup {Null}] /\ cur \in Clients \cup {Null}
      /\ InQueue(queue) \subseteq Events /\ OnTheirWay \subseteq Events
  BY DEF Typed, TypeOK, InQueue, OnTheirWay
<1>1. \A p \in Pcbs : of'[p] # Null => arg'[p] \in {of'[p], Null} /\ obj'[of'[p]] # "fresh"
  BY <1>0 DEF Ownership
<1>2. \A p, q \in Pcbs : of'[p] # Null /\ of'[p] = of'[q] => p = q
  BY DEF Ownership
<1>3. ASSUME NEW e \in OnTheirWay' PROVE Sound(e)'
  <2>1. CASE e \in OnTheirWay
    <3>1. Sound(e) /\ e \in Events
      BY <1>0, <2>1 DEF Ownership
    <3> QED
      BY <3>1, StaysSound
  <2>2. CASE cur # Null /\ e = Clear(cur)
    <3>1. e.to = cur /\ e.kind = "clear" /\ obj[cur] # "fresh" /\ cur \in Clients
      BY <1>0, <2>2 DEF Clear, Event, Ownership
    <3> QED
      BY <3>1 DEF Sound
  <2> QED
    BY <1>3, <2>1, <2>2
<1>4. cur' # Null => obj'[cur'] # "fresh" /\ (at' = "error" => \A p \in Pcbs : of'[p] # cur')
  <2>1. CASE cur' = cur /\ at' # "error"
    BY <1>0, <2>1 DEF Ownership
  <2>2. ASSUME NEW e \in InQueue(queue), cur' = e.to, at' = "error" => e.kind = "error"
        PROVE  obj'[cur'] # "fresh" /\ (at' = "error" => \A p \in Pcbs : of'[p] # cur')
    <3>1. e \in Events /\ Sound(e)
      BY <1>0 DEF Ownership, OnTheirWay
    <3>2. e.to \in Clients /\ e.to # Null
      BY <3>1, TcpAssumption DEF Events
    <3> QED
      BY <2>2, <3>1, <3>2 DEF Sound, Ended
  <2> QED
    BY <2>1, <2>2
<1> QED
  BY <1>1, <1>2, <1>3, <1>4 DEF Ownership, Ended

LEMMA TaskOwnership ==
  ASSUME Typed, Ownership, AsyncTask
  PROVE  Ownership'
<1>0. /\ obj \in [Clients -> {"fresh", "live", "deleted"}] /\ queue \in Seq(Events)
      /\ arg \in [Pcbs -> Clients \cup {Null}] /\ of \in [Pcbs -> Clients \cup {Null}]
      /\ (at # "idle" => cur \in Clients /\ cur # Null)
  BY TcpAssumption DEF Typed, TypeOK
<1>1. CASE Take
  <2>1. Head(queue) \in InQueue(queue) /\ InQueue(Tail(queue)) \subseteq InQueue(queue)
        /\ Head(queue) \in Events
    BY <1>0, <1>1, TakenOff DEF Take
  <2>2. UNCHANGED <<of, arg, obj, net>> /\ queue' = Tail(queue) /\ hand' = Null
    BY <1>1 DEF Take, lwip, objects, lwipThread
  <2>3. cur' = Null \/ (cur' = Head(queue).to /\ (at' = "error" => Head(queue).kind = "error"))
    BY <1>1, <2>1, EntryType DEF Take
  <2>4. OnTheirWay' \subseteq OnTheirWay
    BY <2>1, <2>2 DEF OnTheirWay
  <2> QED
    BY <2>1, <2>2, <2>3, <2>4, TaskKeepsOwnership
<1>2. CASE HandleError \/ Close
  <2>1. UNCHANGED <<queue, net, hand>> /\ cur' = Null /\ cur \in Clients /\ Destroy(cur)
    BY <1>0, <1>2 DEF HandleError, Close, lwipThread
  <2>2. \A p \in Pcbs : of'[p] \in {of[p], Null} /\ arg'[p] \in {arg[p], Null}
    BY <1>0, <1>2 DEF HandleError, Close
  <2>3. \A c \in Clients : obj'[c] = "fresh" => obj[c] = "fresh"
    BY <1>0, <2>1 DEF Destroy
  <2>4. OnTheirWay' = OnTheirWay
    BY <2>1 DEF OnTheirWay, InQueue
  <2> QED
    BY <2>1, <2>2, <2>3, <2>4, TaskKeepsOwnership
<1>3. CASE HandleFin \/ ClearEvents
  <2>1. /\ queue' = <<Clear(cur)>> \o queue /\ UNCHANGED <<of, arg, net, hand>>
        /\ cur' = Null \/ (cur' = cur /\ at' # "error")
        /\ cur \in Clients /\ cur # Null
    BY <1>0, <1>3 DEF HandleFin, ClearEvents, Goto, lwip, lwipThread
  <2>2. Clear(cur) \in Events
    BY <2>1, EventType DEF Clear, Kinds
  <2>3. OnTheirWay' \subseteq OnTheirWay \cup {Clear(cur)}
    BY <1>0, <2>1, <2>2, Prepended DEF OnTheirWay
  <2>4. \A c \in Clients : obj'[c] = "fresh" => obj[c] = "fresh"
    BY <1>0, <1>3 DEF HandleFin, ClearEvents, objects, Destroy
  <2> QED
    BY <2>1, <2>3, <2>4, TaskKeepsOwnership
<1>4. CASE Return \/ ReadPcb \/ ReadSlot \/ Call \/ StartClose \/ ClearArg \/ ClearHooks \/ EndRotation
  <2>1. UNCHANGED <<of, obj, queue, net, hand>> /\ (cur' = Null \/ (cur' = cur /\ at' # "error"))
    BY <1>4 DEF Return, ReadPcb, ReadSlot, Call, StartClose, ClearArg, ClearHooks, EndRotation,
                Goto, lwip, objects, lwipThread
  <2>2. \A p \in Pcbs : of'[p] \in {of[p], Null} /\ arg'[p] \in {arg[p], Null}
    BY <1>0, <1>4 DEF Return, ReadPcb, ReadSlot, Call, StartClose, ClearArg, ClearHooks, EndRotation,
                      lwip
  <2>3. OnTheirWay' = OnTheirWay
    BY <2>1 DEF OnTheirWay, InQueue
  <2> QED
    BY <2>1, <2>2, <2>3, TaskKeepsOwnership
<1>5. CASE TakePacket
  <2>1. queue # <<>> /\ UNCHANGED <<of, arg, obj, net, at, cur>> /\ at = "rotate"
        /\ queue' = Tail(queue) /\ hand' \in {Null, Head(queue)}
    BY <1>5 DEF TakePacket, Rotated, lwip, objects, lwipThread
  <2>2. OnTheirWay' \subseteq OnTheirWay
    BY <1>0, <2>1, TakenOff DEF OnTheirWay
  <2> QED
    BY <2>1, <2>2, TaskKeepsOwnership
<1>6. CASE PutPacket
  <2>1. hand # Null /\ UNCHANGED <<of, arg, obj, net, at, cur>> /\ at = "rotate"
        /\ queue' = Append(queue, hand) /\ hand' = Null
    BY <1>6 DEF PutPacket, lwip, objects, lwipThread
  <2>2. hand \in Events
    BY <2>1 DEF Typed
  <2>3. OnTheirWay' \subseteq OnTheirWay
    BY <1>0, <2>1, <2>2, Appended DEF OnTheirWay
  <2> QED
    BY <2>1, <2>3, TaskKeepsOwnership
<1> QED
  BY <1>1, <1>2, <1>3, <1>4, <1>5, <1>6 DEF AsyncTask

LEMMA AlwaysOwned == Spec => []Ownership
<1>1. Init => Ownership
  <2> SUFFICES ASSUME Init PROVE Ownership
    OBVIOUS
  <2>1. InQueue(queue) = {} /\ OnTheirWay = {}
    BY DEF Init, InQueue, OnTheirWay
  <2> QED
    BY <2>1 DEF Init, Ownership
<1>2. Typed /\ Ownership /\ [Next]_vars => Ownership'
  <2>1. ASSUME Ownership, UNCHANGED vars PROVE Ownership'
    BY <2>1 DEF vars, lwip, objects, task, Ownership, OnTheirWay, InQueue, Sound, Ended
  <2> QED
    BY <2>1, LwipOwnership, TaskOwnership DEF Next
<1> QED
  BY <1>1, <1>2, AlwaysTyped, PTL DEF Spec

\* Whatever is cleared by mistake counts as such.
LEMMA HooksKept ==
  ASSUME Typed, Ownership, HooksHaveArg, [Next]_vars
  PROVE  HooksHaveArg'
<1>0. /\ of \in [Pcbs -> Clients \cup {Null}] /\ arg \in [Pcbs -> Clients \cup {Null}]
      /\ hooked \in [Pcbs -> BOOLEAN] /\ pcb \in [Clients -> Pcbs \cup {Null}]
      /\ obj \in [Clients -> {"fresh", "live", "deleted"}] /\ cur \in Clients \cup {Null}
      /\ (at # "idle" => cur \in Clients)
  BY DEF Typed, TypeOK
<1>1. ASSUME NEW c \in Clients, NEW p \in Pcbs, Accept(c, p) PROVE HooksHaveArg'
  <2>1. /\ of' = [of EXCEPT ![p] = c] /\ arg' = [arg EXCEPT ![p] = c]
        /\ hooked' = [hooked EXCEPT ![p] = TRUE] /\ pcb' = [pcb EXCEPT ![c] = p]
        /\ UNCHANGED <<at, cur, robbed>> /\ obj[c] = "fresh"
    BY <1>1 DEF Accept, task
  <2>2. at = "unhook_rest" => cur # c /\ pcb'[cur] = pcb[cur]
    BY <1>0, <2>1, TcpAssumption DEF Ownership
  <2>3. ASSUME NEW q \in Pcbs, of'[q] # Null, hooked'[q], arg'[q] = Null
        PROVE  (at' = "unhook_rest" /\ pcb'[cur'] = q) \/ robbed'
    <3>1. q # p
      BY <1>0, <2>1, <2>3, TcpAssumption
    <3>2. of[q] # Null /\ hooked[q] /\ arg[q] = Null
      BY <1>0, <2>1, <2>3, <3>1
    <3> QED
      BY <2>1, <2>2, <3>2 DEF HooksHaveArg
  <2> QED
    BY <2>3 DEF HooksHaveArg
<1>2. ASSUME NEW p \in Pcbs, Fin(p) PROVE HooksHaveArg'
  <2>1. CASE UNCHANGED <<lwip, objects>>
    BY <1>2, <2>1 DEF Fin, HooksHaveArg, lwip, objects, task
  <2>2. CASE arg[p] # Null /\ pcb[arg[p]] = p
    <3>1. /\ of' = [of EXCEPT ![p] = Null] /\ arg' = [arg EXCEPT ![p] = Null]
          /\ pcb' = [pcb EXCEPT ![arg[p]] = Null] /\ UNCHANGED <<hooked, at, cur, robbed>>
      BY <1>2, <2>2 DEF Fin, task
    <3>2. ASSUME NEW q \in Pcbs, of'[q] # Null, hooked'[q], arg'[q] = Null
          PROVE  (at' = "unhook_rest" /\ pcb'[cur'] = q) \/ robbed'
      <4>1. q # p /\ of[q] # Null /\ hooked[q] /\ arg[q] = Null
        BY <1>0, <3>1, <3>2
      <4>2. CASE robbed
        BY <3>1, <4>2
      <4>3. CASE at = "unhook_rest" /\ pcb[cur] = q
        <5>1. cur # arg[p]
          BY <2>2, <4>1, <4>3
        <5> QED
          BY <1>0, <3>1, <4>3, <5>1
      <4> QED
        BY <4>1, <4>2, <4>3 DEF HooksHaveArg
    <3> QED
      BY <3>2 DEF HooksHaveArg
  <2> QED
    BY <1>2, <2>1, <2>2 DEF Fin, lwip, objects
<1>3. ASSUME NEW p \in Pcbs, Error(p) PROVE HooksHaveArg'
  BY <1>0, <1>3 DEF Error, HooksHaveArg, objects, task
<1>4. ASSUME UNCHANGED <<lwip, robbed, cur, pcb>>, at' = at \/ at # "unhook_rest" PROVE HooksHaveArg'
  BY <1>4 DEF HooksHaveArg, lwip
<1>5. CASE HandleError
  <2>1. cur \in Clients /\ Ended(cur) /\ UNCHANGED <<of, hooked>> /\ at = "error"
    BY <1>0, <1>5, TcpAssumption DEF HandleError, Ownership
  <2>2. CASE pcb[cur] = Null
    BY <1>5, <2>1, <2>2 DEF HandleError, HooksHaveArg
  <2>3. CASE pcb[cur] # Null
    <3>1. arg' = [arg EXCEPT ![pcb[cur]] = Null] /\ robbed' = (robbed \/ of[pcb[cur]] \notin {cur, Null})
      BY <1>5, <2>3 DEF HandleError, Rob
    <3>2. of[pcb[cur]] # cur
      BY <1>0, <2>1, <2>3 DEF Ended
    <3> QED
      BY <1>0, <2>1, <3>1, <3>2 DEF HooksHaveArg
  <2> QED
    BY <2>2, <2>3
<1>6. CASE ClearArg
  <2>1. cur \in Clients /\ UNCHANGED <<of, hooked, cur, pcb>> /\ at = "unhook" /\ at' = "unhook_rest"
    BY <1>0, <1>6 DEF ClearArg, Goto, objects
  <2>2. CASE pcb[cur] = Null
    BY <1>6, <2>1, <2>2 DEF ClearArg, HooksHaveArg
  <2>3. CASE pcb[cur] # Null
    <3>1. arg' = [arg EXCEPT ![pcb[cur]] = Null] /\ (robbed => robbed')
      BY <1>6, <2>3 DEF ClearArg, Rob
    <3> QED
      BY <1>0, <2>1, <3>1 DEF HooksHaveArg
  <2> QED
    BY <2>2, <2>3
<1>7. CASE ClearHooks
  <2>1. cur \in Clients /\ UNCHANGED <<of, arg, cur, pcb>> /\ at = "unhook_rest"
    BY <1>0, <1>7 DEF ClearHooks, Goto, objects
  <2>2. CASE pcb[cur] = Null
    <3>1. UNCHANGED <<hooked, robbed>>
      BY <1>7, <2>2 DEF ClearHooks
    <3>2. \A p \in Pcbs : of[p] # Null /\ hooked[p] /\ arg[p] = Null => p = Null \/ robbed
      BY <2>1, <2>2 DEF HooksHaveArg
    <3> QED
      BY <2>1, <3>1, <3>2, TcpAssumption DEF HooksHaveArg
  <2>3. CASE pcb[cur] # Null
    <3>1. hooked' = [hooked EXCEPT ![pcb[cur]] = FALSE] /\ (robbed => robbed')
      BY <1>7, <2>3 DEF ClearHooks, Rob
    <3> QED
      BY <1>0, <2>1, <3>1 DEF HooksHaveArg
  <2> QED
    BY <2>2, <2>3
<1>8. CASE Close
  <2>1. UNCHANGED <<arg, hooked, robbed>> /\ at = "close" /\ \A p \in Pcbs : of'[p] \in {of[p], Null}
    BY <1>0, <1>8 DEF Close
  <2> QED
    BY <2>1 DEF HooksHaveArg
<1>9. CASE Take \/ Return \/ HandleFin
  <2>1. UNCHANGED <<lwip, robbed>> /\ at # "unhook_rest"
    BY <1>9 DEF Take, Return, HandleFin
  <2> QED
    BY <2>1 DEF HooksHaveArg, lwip
<1>10. ASSUME NEW p \in Pcbs, NEW kind \in {"data", "poll"}, Called(p, kind) PROVE HooksHaveArg'
  BY <1>4, <1>10 DEF Called, objects, task
<1>11. CASE Send \/ UNCHANGED vars
  BY <1>4, <1>11 DEF Send, objects, task, vars
<1>12. CASE ReadPcb \/ ReadSlot \/ Call \/ StartClose \/ ClearEvents
            \/ TakePacket \/ PutPacket
  BY <1>4, <1>12 DEF ReadPcb, ReadSlot, Call, StartClose, ClearEvents, TakePacket, PutPacket,
                     Goto, objects
<1>13. CASE EndRotation
  BY <1>13 DEF EndRotation, HooksHaveArg, lwip
<1> QED
  BY <1>1, <1>2, <1>3, <1>5, <1>6, <1>7, <1>8, <1>9, <1>10, <1>11, <1>12, <1>13
  DEF Next, Lwip, AsyncTask

\* lwIP calls back with a null pointer only between the first two steps of a
\* close (_close), or for a connection whose hooks were cleared by mistake.
THEOREM NullsOnlyWhileClosing == Spec => []NullOnlyWhileClosing
<1> DEFINE Inv == HooksHaveArg /\ NullOnlyWhileClosing
<1>1. Init => Inv
  BY DEF Init, HooksHaveArg, NullOnlyWhileClosing
<1>2. Typed /\ Ownership /\ Inv /\ [Next]_vars => Inv'
  <2> SUFFICES ASSUME Typed, Ownership, Inv, [Next]_vars PROVE Inv'
    OBVIOUS
  <2>1. HooksHaveArg'
    BY HooksKept
  <2>2. NullOnlyWhileClosing'
    <3>1. ASSUME NEW p \in Pcbs, Fin(p), arg[p] = Null PROVE NullOnlyWhileClosing'
      <4>1. of[p] # Null /\ hooked[p] /\ UNCHANGED <<at, robbed>>
        BY <3>1 DEF Fin, task
      <4> QED
        BY <3>1, <4>1 DEF HooksHaveArg, NullOnlyWhileClosing
    <3>2. CASE Send \/ UNCHANGED vars
      BY <3>2 DEF Send, vars, task, NullOnlyWhileClosing
    <3>3. ASSUME NEW p \in Pcbs,
                 (\E c \in Clients : Accept(c, p)) \/ Called(p, "data") \/ Called(p, "poll")
                 \/ (Fin(p) /\ arg[p] # Null) \/ Error(p)
          PROVE  ~down'
      BY <3>3 DEF Accept, Called, Fin, Error, Lockable, task
    <3>4. CASE AsyncTask
      <4>1. ~down'
        BY <3>4 DEF AsyncTask, Take, Return, HandleError, HandleFin, ReadPcb, ReadSlot, Call, StartClose,
                    ClearArg, ClearHooks, ClearEvents, Close, TakePacket, PutPacket, EndRotation,
                    Lockable
      <4> QED
        BY <4>1 DEF NullOnlyWhileClosing
    <3> QED
      BY <3>1, <3>2, <3>3, <3>4 DEF Next, Lwip, NullOnlyWhileClosing
  <2> QED
    BY <2>1, <2>2
<1> QED
  BY <1>1, <1>2, AlwaysTyped, AlwaysOwned, PTL DEF Spec

----------------------------------------------------------------------------
(* Calls for connections that are gone *)

\* The slots that have been free for longer than one of them.
Older(s) == {t \in FreeSlots : closed_slots[t] < closed_slots[s]}

\* Until a call went wrong, an object's pcb is its own unless an error took it.
PcbsRight == wrong = Null => \A c \in Clients : pcb[c] # Null => of[pcb[c]] = c \/ c \in reset

SlotTimes ==
  /\ \A c \in Clients : slot[c] # NoSlot => slot[c] \in used
  /\ \A t \in Slots : closed_slots[t] < closed_index \/ closed_slots[t] = 1
  /\ spare \in Nat /\ hasty \in BOOLEAN

\* What was read for a call still holds, or a FIN has taken pcb and slot away.
Trusted == wrong = Null /\ cur \notin reset

PcbRead ==
  at \in {"reading", "calling"} /\ Trusted =>
    of[call.pcb] = cur \/ (pcb[cur] = Null /\ slot[cur] = NoSlot)

\* The slot is still the object's, and enough others are free; or it is free
\* itself and enough others will be taken before it.
StillOurs == of[call.pcb] = cur /\ slot[cur] = call.slot /\ spare <= Cardinality(FreeSlots)

InLine(s) == s \in FreeSlots \cap used /\ (closed_slots[s] = 1 \/ spare <= Cardinality(Older(s)))

SlotRead ==
  at = "calling" /\ Trusted /\ ~hasty /\ call.slot # NoSlot => StillOurs \/ InLine(call.slot)

CallTyped == call \in [pcb : Pcbs \cup {Null}, slot : Slots \cup {NoSlot}]

CallSafe == PcbsRight /\ SlotTimes /\ PcbRead /\ SlotRead /\ CallTyped

\* There are only so many slots.
LEMMA SlotsAreFinite ==
  ASSUME NEW T \in SUBSET Slots
  PROVE  IsFiniteSet(T) /\ Cardinality(T) \in Nat
<1>1. IsFiniteSet(Slots)
  <2>1. 0 \in Int /\ NSlots - 1 \in Int
    BY TcpAssumption
  <2> QED
    BY <2>1, FS_Interval DEF Slots
<1>2. IsFiniteSet(T)
  BY <1>1, FS_Subset
<1> QED
  BY <1>2, FS_CardinalityType

\* A slot that is given back is free, and all others have been so for longer,
\* or it counts as unused; they keep their times.
LEMMA GivenBackLast ==
  ASSUME Typed, SlotsAgree, SlotTimes, NEW c \in Clients, FreeClosedSlot(c)
  PROVE  /\ FreeSlots \subseteq FreeSlots'
         /\ \A t \in FreeSlots : closed_slots'[t] = closed_slots[t]
         /\ \A t \in Slots : closed_slots'[t] < closed_index' \/ closed_slots'[t] = 1
         /\ slot[c] # NoSlot =>
              /\ slot[c] \in FreeSlots'
              /\ closed_slots'[slot[c]] = 1 \/ \A t \in FreeSlots : closed_slots[t] < closed_slots'[slot[c]]
<1>1. slot \in [Clients -> Slots \cup {NoSlot}] /\ closed_slots \in [Slots -> Nat]
      /\ closed_index \in Nat \ {0}
  BY DEF Typed, TypeOK
<1>2. CASE slot[c] = NoSlot
  BY <1>1, <1>2 DEF FreeClosedSlot, FreeSlots, SlotTimes
<1>3. CASE slot[c] # NoSlot
  <2> DEFINE s == slot[c]
  <2>1. s \in Slots /\ closed_slots[s] = 0
    BY <1>1, <1>3 DEF SlotsAgree
  <2>2. closed_slots' = [closed_slots EXCEPT ![s] = closed_index] /\ closed_index' = closed_index + 1
    BY <1>3 DEF FreeClosedSlot
  <2> HIDE DEF s
  <2>3. closed_slots'[s] = closed_index /\ \A t \in Slots \ {s} : closed_slots'[t] = closed_slots[t]
    BY <1>1, <2>1, <2>2
  <2>4. s \notin FreeSlots /\ FreeSlots \subseteq Slots
    BY <2>1 DEF FreeSlots
  <2>5. FreeSlots \subseteq FreeSlots' /\ \A t \in FreeSlots : closed_slots'[t] = closed_slots[t]
    BY <2>3, <2>4 DEF FreeSlots
  <2>6. s \in FreeSlots'
    BY <1>1, <2>1, <2>3 DEF FreeSlots
  <2>7. closed_slots'[s] = 1 \/ \A t \in FreeSlots : closed_slots[t] < closed_slots'[s]
    <3>1. CASE closed_index = 1
      BY <2>3, <3>1
    <3>2. CASE closed_index # 1
      BY <1>1, <2>3, <2>4, <3>2 DEF SlotTimes
    <3> QED
      BY <3>1, <3>2
  <2>8. \A t \in Slots : closed_slots'[t] < closed_index' \/ closed_slots'[t] = 1
    BY <1>1, <2>1, <2>2, <2>3 DEF SlotTimes
  <2> QED
    BY <2>5, <2>6, <2>7, <2>8 DEF s
<1> QED
  BY <1>2, <1>3

\* Slots that become free, or get a later turn, leave one its place in line.
LEMMA StaysInLine ==
  ASSUME NEW s, InLine(s), FreeSlots \subseteq FreeSlots', used' = used, spare' = spare,
         \A t \in FreeSlots : closed_slots'[t] = closed_slots[t], spare \in Nat
  PROVE  InLine(s)'
<1>1. s \in FreeSlots' /\ s \in used'
  BY DEF InLine
<1>2. CASE closed_slots[s] = 1
  BY <1>1, <1>2 DEF InLine
<1>3. CASE spare <= Cardinality(Older(s))
  <2>1. Older(s) \in SUBSET (Older(s)')
    BY DEF Older, InLine
  <2>2. IsFiniteSet(Older(s)') /\ Cardinality(Older(s)') \in Nat
    <3>1. Older(s)' \in SUBSET Slots
      BY DEF Older, FreeSlots
    <3> QED
      BY <3>1, SlotsAreFinite DEF Older, FreeSlots
  <2>3. Cardinality(Older(s)) <= Cardinality(Older(s)') /\ Cardinality(Older(s)) \in Nat
    BY <2>1, <2>2, FS_Subset, FS_CardinalityType
  <2> QED
    BY <1>1, <1>3, <2>2, <2>3 DEF InLine
<1> QED
  BY <1>2, <1>3 DEF InLine

\* A connection comes.
LEMMA AcceptIsSafe ==
  ASSUME Typed, Ownership, SlotsAgree, CallSafe, NEW c \in Clients, NEW p \in Pcbs, Accept(c, p)
  PROVE  CallSafe'
<1>0. /\ of \in [Pcbs -> Clients \cup {Null}] /\ pcb \in [Clients -> Pcbs \cup {Null}]
      /\ slot \in [Clients -> Slots \cup {NoSlot}] /\ closed_slots \in [Slots -> Nat]
      /\ obj \in [Clients -> {"fresh", "live", "deleted"}] /\ (at # "idle" => cur \in Clients /\ cur # c)
  BY TcpAssumption DEF Typed, TypeOK, Ownership, Accept
<1>1. /\ of[p] = Null /\ of' = [of EXCEPT ![p] = c] /\ pcb' = [pcb EXCEPT ![c] = p]
      /\ spare' = (IF spare = 0 THEN 0 ELSE spare - 1)
      /\ UNCHANGED <<closed_index, at, cur, call, reset, wrong>>
  BY DEF Accept, task
<1>2. hasty' = (hasty \/ spare = 0 \/ \E s \in used \cap FreeSlots : closed_slots[s] = 1)
  BY DEF Accept
<1>3. SlotTimes => spare \in Nat /\ spare' \in Nat /\ hasty' \in BOOLEAN
  BY <1>1, <1>2 DEF SlotTimes
<1>4. PcbsRight'
  BY <1>0, <1>1, TcpAssumption DEF CallSafe, PcbsRight
<1>5. CallTyped'
  BY <1>1 DEF CallSafe, CallTyped
<1>6. (slot'[cur] = slot[cur] /\ pcb'[cur] = pcb[cur]) \/ at = "idle"
  <2>1. slot' = slot \/ slot' = [slot EXCEPT ![c] = Allocated]
    BY DEF Accept
  <2> QED
    BY <1>0, <1>1, <2>1
<1>7. of[call.pcb] = cur => of'[call.pcb] = cur \/ at = "idle"
  BY <1>0, <1>1, TcpAssumption
<1>8. PcbRead'
  <2> SUFFICES ASSUME at' \in {"reading", "calling"}, Trusted'
               PROVE  of'[call'.pcb] = cur' \/ (pcb'[cur'] = Null /\ slot'[cur'] = NoSlot)
    BY DEF PcbRead
  <2>1. of[call.pcb] = cur \/ (pcb[cur] = Null /\ slot[cur] = NoSlot)
    BY <1>1 DEF CallSafe, PcbRead, Trusted
  <2> QED
    BY <1>1, <1>6, <1>7, <2>1
<1>9. CASE FreeSlots = {}
  <2>1. UNCHANGED <<slot, closed_slots, used>>
    BY <1>9 DEF Accept
  <2>2. Cardinality(FreeSlots) = 0 /\ \A s : ~InLine(s)
    BY <1>9, FS_EmptySet DEF InLine
  <2>3. SlotRead'
    <3> SUFFICES ASSUME at' = "calling", Trusted', ~hasty', call'.slot # NoSlot PROVE FALSE
      BY DEF SlotRead
    <3>1. at = "calling" /\ Trusted /\ ~hasty /\ spare # 0 /\ call.slot # NoSlot
      BY <1>1, <1>2 DEF Trusted
    <3>2. StillOurs
      BY <2>2, <3>1 DEF CallSafe, SlotRead
    <3> QED
      BY <1>3, <2>2, <3>1, <3>2 DEF CallSafe, StillOurs
  <2>4. SlotTimes'
    BY <1>1, <1>3, <2>1 DEF CallSafe, SlotTimes
  <2> QED
    BY <1>4, <1>5, <1>8, <2>3, <2>4 DEF CallSafe
<1>10. CASE FreeSlots # {}
  <2> DEFINE s == Allocated
  <2>1. s \in FreeSlots /\ \A t \in FreeSlots \ {s} :
          closed_slots[s] < closed_slots[t] \/ (closed_slots[s] = closed_slots[t] /\ t < s)
    BY <1>0, <1>10, AllocatedIsFirst
  <2>2. /\ slot' = [slot EXCEPT ![c] = s] /\ closed_slots' = [closed_slots EXCEPT ![s] = 0]
        /\ used' = used \cup {s}
    BY <1>10 DEF Accept
  <2> HIDE DEF s
  <2>3. s \in Slots /\ FreeSlots \subseteq Slots
    BY <2>1 DEF FreeSlots
  <2>4. FreeSlots' = FreeSlots \ {s} /\ \A t \in FreeSlots' : closed_slots'[t] = closed_slots[t]
    BY <1>0, <2>2, <2>3 DEF FreeSlots
  <2>5. SlotTimes'
    <3>1. \A d \in Clients : slot'[d] # NoSlot => slot'[d] \in used'
      BY <1>0, <2>2 DEF CallSafe, SlotTimes
    <3>2. \A t \in Slots : closed_slots'[t] < closed_index' \/ closed_slots'[t] = 1
      BY <1>0, <1>1, <2>2, <2>3 DEF CallSafe, SlotTimes, Typed, TypeOK
    <3> QED
      BY <1>3, <3>1, <3>2 DEF CallSafe, SlotTimes
  <2>6. SlotRead'
    <3> SUFFICES ASSUME at' = "calling", Trusted', ~hasty', call'.slot # NoSlot
                 PROVE  StillOurs' \/ InLine(call.slot)'
      BY <1>1 DEF SlotRead
    <3>1. /\ at = "calling" /\ Trusted /\ ~hasty /\ spare \in Nat /\ spare # 0 /\ spare' = spare - 1
          /\ call.slot # NoSlot /\ \A t \in used \cap FreeSlots : closed_slots[t] # 1
      BY <1>1, <1>2, <1>3 DEF Trusted, CallSafe
    <3>2. CASE StillOurs
      <4>1. Cardinality(FreeSlots') = Cardinality(FreeSlots) - 1 /\ Cardinality(FreeSlots) \in Nat
        BY <2>1, <2>3, <2>4, SlotsAreFinite, FS_RemoveElement
      <4>2. spare' <= Cardinality(FreeSlots')
        BY <3>1, <3>2, <4>1 DEF StillOurs
      <4>3. of'[call'.pcb] = cur' /\ slot'[cur'] = call'.slot
        BY <1>1, <1>6, <1>7, <3>1, <3>2 DEF StillOurs
      <4> QED
        BY <4>2, <4>3 DEF StillOurs
    <3>3. CASE InLine(call.slot)
      <4> DEFINE k == call.slot
      <4>0. /\ k \in FreeSlots \cap used /\ k' = k
            /\ closed_slots[k] = 1 \/ spare <= Cardinality(Older(k))
        BY <1>1, <3>3 DEF InLine
      <4> HIDE DEF k
      <4>1. k \in FreeSlots /\ k \in used /\ spare <= Cardinality(Older(k)) /\ k' = k
        BY <3>1, <4>0, Zenon
      <4>2. Older(k) \subseteq FreeSlots /\ Older(k) \in SUBSET Slots
        BY <2>3 DEF Older
      <4>3. Older(k) # {}
        BY <3>1, <4>1, FS_EmptySet
      <4>4. k # s /\ s \in Older(k)
        <5>1. PICK t \in Older(k) : TRUE
          BY <4>3
        <5>2. closed_slots[t] < closed_slots[k] /\ t \in FreeSlots
          BY <5>1 DEF Older
        <5>3. closed_slots[s] <= closed_slots[t]
          BY <1>0, <2>1, <2>3, <5>2
        <5>4. closed_slots[s] < closed_slots[k]
          BY <1>0, <2>3, <4>1, <5>2, <5>3
        <5> QED
          BY <1>0, <2>1, <2>3, <4>1, <5>4 DEF Older
      <4>5. Older(k)' = Older(k) \ {s}
        BY <2>4, <4>1, <4>4 DEF Older
      <4>6. Cardinality(Older(k) \ {s}) = Cardinality(Older(k)) - 1 /\ Cardinality(Older(k)) \in Nat
        BY <4>2, <4>4, SlotsAreFinite, FS_RemoveElement
      <4>7. spare' <= Cardinality(Older(k)')
        BY <3>1, <4>1, <4>5, <4>6
      <4>8. k' \in FreeSlots' /\ k' \in used'
        BY <2>2, <2>4, <4>1, <4>4
      <4>9. InLine(k)'
        BY <4>7, <4>8 DEF InLine
      <4> QED
        BY <4>9 DEF k
    <3> QED
      BY <3>1, <3>2, <3>3 DEF CallSafe, SlotRead
  <2> QED
    BY <1>4, <1>5, <1>8, <2>5, <2>6 DEF CallSafe
<1> QED
  BY <1>9, <1>10

\* A FIN gives a slot back, perhaps that of the call.
LEMMA FinIsSafe ==
  ASSUME Typed, Ownership, SlotsAgree, CallSafe, NEW p \in Pcbs, Fin(p)
  PROVE  CallSafe'
<1>0. /\ of \in [Pcbs -> Clients \cup {Null}] /\ pcb \in [Clients -> Pcbs \cup {Null}]
      /\ slot \in [Clients -> Slots \cup {NoSlot}] /\ arg \in [Pcbs -> Clients \cup {Null}]
      /\ (at # "idle" => cur \in Clients)
  BY DEF Typed, TypeOK
<1>1. of[p] # Null /\ UNCHANGED <<at, cur, call, reset, used, spare, hasty, wrong>>
  BY DEF Fin, task, haste
<1>2. CASE UNCHANGED <<lwip, objects>>
  BY <1>1, <1>2 DEF lwip, objects, CallSafe, PcbsRight, SlotTimes, PcbRead, SlotRead, CallTyped,
                    Trusted, StillOurs, InLine, Older, FreeSlots
<1>3. CASE arg[p] # Null /\ pcb[arg[p]] = p
  <2> DEFINE c == arg[p]
  <2>1. c \in Clients /\ of[p] = c /\ pcb[c] = p
    BY <1>0, <1>1, <1>3 DEF Ownership
  <2>2. of' = [of EXCEPT ![p] = Null] /\ pcb' = [pcb EXCEPT ![c] = Null] /\ FreeClosedSlot(c)
    BY <1>3 DEF Fin
  <2> HIDE DEF c
  <2>3. slot'[c] = NoSlot /\ \A d \in Clients \ {c} : slot'[d] = slot[d]
    BY <2>1, <2>2, SlotGivenBack
  <2>4. SlotTimes
    BY DEF CallSafe
  <2>5. /\ FreeSlots \subseteq FreeSlots'
        /\ \A t \in FreeSlots : closed_slots'[t] = closed_slots[t]
        /\ \A t \in Slots : closed_slots'[t] < closed_index' \/ closed_slots'[t] = 1
        /\ slot[c] # NoSlot =>
             /\ slot[c] \in FreeSlots'
             /\ closed_slots'[slot[c]] = 1 \/ \A t \in FreeSlots : closed_slots[t] < closed_slots'[slot[c]]
    BY <2>1, <2>2, <2>4, GivenBackLast
  <2>6. PcbsRight' /\ CallTyped'
    BY <1>0, <1>1, <2>1, <2>2, TcpAssumption DEF CallSafe, PcbsRight, CallTyped
  <2>7. SlotTimes'
    BY <1>0, <1>1, <2>1, <2>3, <2>4, <2>5 DEF SlotTimes
  <2>8. cur = c => pcb'[cur] = Null /\ slot'[cur] = NoSlot
    BY <1>0, <2>1, <2>2, <2>3
  <2>9. at # "idle" /\ cur # c => /\ pcb[cur] = Null => pcb'[cur] = Null
                                  /\ slot'[cur] = slot[cur]
                                  /\ of[call.pcb] = cur => of'[call.pcb] = cur
    BY <1>0, <2>1, <2>2, <2>3
  <2>10. PcbRead'
    <3> SUFFICES ASSUME at' \in {"reading", "calling"}, Trusted'
                 PROVE  of'[call'.pcb] = cur' \/ (pcb'[cur'] = Null /\ slot'[cur'] = NoSlot)
      BY DEF PcbRead
    <3>1. of[call.pcb] = cur \/ (pcb[cur] = Null /\ slot[cur] = NoSlot)
      BY <1>1 DEF CallSafe, PcbRead, Trusted
    <3> QED
      BY <1>1, <2>8, <2>9, <3>1
  <2>11. SlotRead'
    <3> SUFFICES ASSUME at' = "calling", Trusted', ~hasty', call'.slot # NoSlot
                 PROVE  StillOurs' \/ InLine(call.slot)'
      BY <1>1 DEF SlotRead
    <3>1. at = "calling" /\ Trusted /\ ~hasty /\ spare \in Nat /\ call.slot # NoSlot
      BY <1>1, <2>4 DEF Trusted, SlotTimes
    <3>2. CASE InLine(call.slot)
      <4> DEFINE k == call.slot
      <4>1. k' = k /\ InLine(k)
        BY <1>1, <3>2
      <4> HIDE DEF k
      <4>2. InLine(k)'
        BY <1>1, <2>5, <3>1, <4>1, StaysInLine
      <4> QED
        BY <4>2 DEF k
    <3>3. CASE StillOurs /\ cur # c
      <4>1. Cardinality(FreeSlots) <= Cardinality(FreeSlots') /\ Cardinality(FreeSlots) \in Nat
            /\ Cardinality(FreeSlots') \in Nat
        <5>1. FreeSlots \in SUBSET Slots /\ FreeSlots' \in SUBSET Slots
          BY DEF FreeSlots
        <5> QED
          BY <2>5, <5>1, SlotsAreFinite, FS_Subset
      <4>2. of'[call'.pcb] = cur' /\ slot'[cur'] = call'.slot
        BY <1>1, <2>9, <3>1, <3>3 DEF StillOurs
      <4> QED
        BY <1>1, <3>1, <3>3, <4>1, <4>2 DEF StillOurs
    <3>4. CASE StillOurs /\ cur = c
      <4> DEFINE k == call.slot
      <4>1. k = slot[c] /\ k \in Slots /\ k' = k /\ k # NoSlot /\ spare <= Cardinality(FreeSlots)
        BY <1>0, <1>1, <2>1, <3>1, <3>4 DEF StillOurs
      <4> HIDE DEF k
      <4>2. k \in FreeSlots' /\ k \in used'
        BY <1>1, <2>1, <2>4, <2>5, <4>1 DEF SlotTimes
      <4>3. CASE closed_slots'[k] = 1
        <5>1. InLine(k)'
          BY <4>1, <4>2, <4>3 DEF InLine
        <5> QED
          BY <5>1 DEF k
      <4>4. CASE \A t \in FreeSlots : closed_slots[t] < closed_slots'[k]
        <5>1. FreeSlots \in SUBSET (Older(k)') /\ Older(k)' \in SUBSET Slots /\ FreeSlots \in SUBSET Slots
          BY <2>5, <4>1, <4>4 DEF Older, FreeSlots
        <5>2. Cardinality(FreeSlots) <= Cardinality(Older(k)') /\ Cardinality(FreeSlots) \in Nat
              /\ Cardinality(Older(k)') \in Nat
          BY <5>1, SlotsAreFinite, FS_Subset
        <5>3. InLine(k)'
          BY <1>1, <3>1, <4>1, <4>2, <5>2 DEF InLine
        <5> QED
          BY <5>3 DEF k
      <4> QED
        BY <2>1, <2>5, <4>1, <4>3, <4>4
    <3> QED
      BY <3>1, <3>2, <3>3, <3>4 DEF CallSafe, SlotRead
  <2> QED
    BY <2>6, <2>7, <2>10, <2>11 DEF CallSafe
<1> QED
  BY <1>2, <1>3 DEF Fin, lwip, objects

\* An error marks no slot, but the connection is known for it.
LEMMA ErrorIsSafe ==
  ASSUME Typed, Ownership, CallSafe, NEW p \in Pcbs, Error(p)
  PROVE  CallSafe'
<1>0. of \in [Pcbs -> Clients \cup {Null}] /\ (at # "idle" => cur \in Clients)
  BY DEF Typed, TypeOK
<1>1. /\ of' = [of EXCEPT ![p] = Null] /\ reset' = reset \cup {of[p]}
      /\ UNCHANGED <<pcb, slot, closed_slots, closed_index, at, cur, call, used, spare, hasty, wrong>>
  BY DEF Error, objects, task, haste
<1>2. \A c \in Clients, q \in Pcbs \cup {Null} : of[q] = c => of'[q] = c \/ c \in reset'
  BY <1>0, <1>1
<1>3. PcbsRight' /\ SlotTimes' /\ CallTyped'
  BY <1>0, <1>1, <1>2 DEF CallSafe, PcbsRight, SlotTimes, CallTyped, Typed, TypeOK
<1>4. Trusted' => Trusted /\ (at # "idle" /\ of[call.pcb] = cur => of'[call.pcb] = cur)
  BY <1>0, <1>1, <1>2 DEF Trusted, CallSafe, CallTyped
<1>5. PcbRead'
  BY <1>1, <1>4 DEF CallSafe, PcbRead
<1>6. UNCHANGED FreeSlots /\ \A s \in Slots : InLine(s) => InLine(s)'
  BY <1>1 DEF FreeSlots, InLine, Older
<1>7. SlotRead'
  <2> SUFFICES ASSUME at' = "calling", Trusted', ~hasty', call'.slot # NoSlot
               PROVE  StillOurs' \/ InLine(call.slot)'
    BY <1>1 DEF SlotRead
  <2>1. StillOurs \/ InLine(call.slot)
    BY <1>1, <1>4 DEF CallSafe, SlotRead
  <2>2. StillOurs => StillOurs'
    BY <1>1, <1>4, <1>6 DEF StillOurs
  <2>3. InLine(call.slot) => InLine(call.slot)'
    BY <1>1, <1>6 DEF FreeSlots, InLine, Older
  <2> QED
    BY <2>1, <2>2, <2>3
<1> QED
  BY <1>3, <1>5, <1>7 DEF CallSafe

\* async_tcp destroys an object: it is at no call then.
LEMMA DestroyIsSafe ==
  ASSUME Typed, SlotsAgree, CallSafe, HandleError \/ HandleFin \/ Close
  PROVE  CallSafe'
<1>0. /\ of \in [Pcbs -> Clients \cup {Null}] /\ pcb \in [Clients -> Pcbs \cup {Null}]
      /\ slot \in [Clients -> Slots \cup {NoSlot}] /\ cur \in Clients
  BY DEF Typed, TypeOK, HandleError, HandleFin, Close
<1>1. Destroy(cur) /\ at' = "idle" /\ UNCHANGED <<call, reset, used, spare, hasty>>
  BY DEF HandleError, HandleFin, Close, lwipThread, haste
<1>2. PcbsRight'
  <2> SUFFICES ASSUME wrong' = Null, NEW c \in Clients, pcb'[c] # Null
               PROVE  of'[pcb'[c]] = c \/ c \in reset'
    BY DEF PcbsRight
  <2>1. c # cur /\ pcb'[c] = pcb[c]
    BY <1>0, <1>1 DEF Destroy
  <2>2. CASE of' = of /\ wrong' = wrong
    BY <1>1, <2>1, <2>2 DEF CallSafe, PcbsRight
  <2>3. CASE of' = [of EXCEPT ![pcb[cur]] = Null] /\ Reach(pcb[cur], slot[cur])
    <3>1. wrong = Null /\ of[pcb[cur]] = cur
      <4>1. ASSUME wrong' = [of |-> cur, slot |-> slot[cur], hasty |-> hasty] PROVE FALSE
        <5>1. wrong' \in [of : Clients, slot : Int, hasty : BOOLEAN]
          BY <1>0, <4>1, TcpAssumption DEF CallSafe, SlotTimes, Slots, NoSlot
        <5> QED
          BY <5>1, TcpAssumption
      <4> QED
        BY <2>3, <4>1 DEF Reach
    <3>2. of[pcb[c]] = c \/ c \in reset
      BY <2>1, <3>1 DEF CallSafe, PcbsRight
    <3> QED
      BY <1>0, <1>1, <2>1, <2>3, <3>1, <3>2
  <2> QED
    BY <2>2, <2>3 DEF HandleError, HandleFin, Close, lwip
<1>3. CallTyped' /\ PcbRead' /\ SlotRead'
  BY <1>1 DEF CallSafe, CallTyped, PcbRead, SlotRead
<1>4. SlotTimes'
  <2>1. FreeClosedSlot(cur) /\ SlotTimes
    BY <1>1 DEF Destroy, CallSafe
  <2>2. slot'[cur] = NoSlot /\ \A d \in Clients \ {cur} : slot'[d] = slot[d]
    BY <1>0, <2>1, SlotGivenBack
  <2>3. \A t \in Slots : closed_slots'[t] < closed_index' \/ closed_slots'[t] = 1
    BY <1>0, <2>1, GivenBackLast
  <2> QED
    BY <1>0, <1>1, <2>1, <2>2, <2>3 DEF SlotTimes
<1> QED
  BY <1>2, <1>3, <1>4 DEF CallSafe

\* async_tcp reads pcb and slot ...
LEMMA ReadIsSafe ==
  ASSUME Typed, CallSafe, ReadPcb \/ ReadSlot
  PROVE  CallSafe'
<1>0. /\ pcb \in [Clients -> Pcbs \cup {Null}] /\ slot \in [Clients -> Slots \cup {NoSlot}]
      /\ cur \in Clients
  BY DEF Typed, TypeOK, ReadPcb, ReadSlot
<1>1. UNCHANGED <<lwip, objects, cur, reset, used, wrong>>
  BY DEF ReadPcb, ReadSlot, lwipThread
<1>2. PcbsRight'
  BY <1>1 DEF CallSafe, PcbsRight, lwip, objects
<1>3. CASE ReadPcb
  <2>1. /\ pcb[cur] # Null /\ at' = "reading" /\ call' = [call EXCEPT !.pcb = pcb[cur]]
        /\ UNCHANGED <<spare, hasty>>
    BY <1>3 DEF ReadPcb, haste
  <2>2. CallTyped' /\ call'.pcb = pcb[cur]
    BY <1>0, <2>1 DEF CallSafe, CallTyped
  <2>3. PcbRead'
    BY <1>0, <1>1, <2>1, <2>2 DEF CallSafe, PcbsRight, PcbRead, Trusted, lwip
  <2>4. SlotTimes' /\ SlotRead'
    BY <1>1, <2>1 DEF CallSafe, SlotTimes, SlotRead, objects
  <2> QED
    BY <1>2, <2>2, <2>3, <2>4 DEF CallSafe
<1>4. CASE ReadSlot
  <2>1. /\ at = "reading" /\ at' = "calling" /\ call' = [call EXCEPT !.slot = slot[cur]]
        /\ spare' = Cardinality(FreeSlots) /\ hasty' = FALSE
    BY <1>4 DEF ReadSlot
  <2>2. CallTyped' /\ call'.slot = slot[cur] /\ call'.pcb = call.pcb
    BY <1>0, <2>1 DEF CallSafe, CallTyped
  <2>3. FreeSlots' = FreeSlots /\ Cardinality(FreeSlots) \in Nat
    <3>1. FreeSlots \in SUBSET Slots
      BY DEF FreeSlots
    <3> QED
      BY <1>1, <3>1, SlotsAreFinite DEF FreeSlots, objects
  <2>4. SlotTimes'
    BY <1>1, <2>1, <2>3 DEF CallSafe, SlotTimes, objects
  <2>5. PcbRead'
    BY <1>1, <2>1, <2>2 DEF CallSafe, PcbRead, Trusted, lwip, objects
  <2>6. SlotRead'
    <3> SUFFICES ASSUME Trusted', call'.slot # NoSlot PROVE StillOurs'
      BY DEF SlotRead
    <3>1. of[call.pcb] = cur
      BY <1>1, <2>1, <2>2 DEF CallSafe, PcbRead, Trusted
    <3> QED
      BY <1>1, <2>1, <2>2, <2>3, <3>1 DEF StillOurs, lwip, objects
  <2> QED
    BY <1>2, <2>2, <2>4, <2>5, <2>6 DEF CallSafe
<1> QED
  BY <1>3, <1>4

\* ... and does other things, which touch neither.
LEMMA RestIsSafe ==
  ASSUME CallSafe, UNCHANGED <<of, objects, reset, used, spare, hasty>>,
         \/ UNCHANGED <<at, cur, call, wrong>>
         \/ /\ at' \notin {"reading", "calling"} /\ call' \in {call, NoCall}
            /\ wrong' = Null => wrong = Null
  PROVE  CallSafe'
<1>1. PcbsRight' /\ SlotTimes'
  BY DEF CallSafe, PcbsRight, SlotTimes, objects
<1>2. CallTyped'
  BY DEF CallSafe, CallTyped, NoCall
<1>3. CASE UNCHANGED <<at, cur, call, wrong>>
  <2>1. PcbRead'
    BY <1>3 DEF CallSafe, PcbRead, Trusted, objects
  <2>2. SlotRead'
    BY <1>3 DEF CallSafe, SlotRead, Trusted, StillOurs, InLine, Older, FreeSlots, objects
  <2> QED
    BY <1>1, <1>2, <2>1, <2>2 DEF CallSafe
<1>4. CASE at' \notin {"reading", "calling"}
  BY <1>1, <1>2, <1>4 DEF CallSafe, PcbRead, SlotRead
<1> QED
  BY <1>3, <1>4

LEMMA StepIsSafe ==
  ASSUME Typed, Ownership, SlotsAgree, CallSafe, [Next]_vars
  PROVE  CallSafe'
<1>1. CASE Lwip
  <2>1. ASSUME NEW p \in Pcbs, NEW kind \in {"data", "poll"}, Called(p, kind) PROVE CallSafe'
    BY <2>1, RestIsSafe DEF Called, lwip, task, haste
  <2>2. CASE Send
    BY <2>2, RestIsSafe DEF Send, lwip, task, haste
  <2> QED
    BY <1>1, <2>1, <2>2, AcceptIsSafe, FinIsSafe, ErrorIsSafe DEF Lwip
<1>2. CASE Take
  <2>1. queue # <<>> /\ at' = Entry(Head(queue)) /\ call' = NoCall
        /\ UNCHANGED <<of, objects, reset, used, spare, hasty, wrong>>
    BY <1>2 DEF Take, lwip, lwipThread, haste
  <2>2. Head(queue) \in Events
    BY <2>1, TakenOff DEF Typed
  <2>3. at' \notin {"reading", "calling"}
    BY <2>1, <2>2, EntryType
  <2> QED
    BY <2>1, <2>3, RestIsSafe
<1>3. CASE Call
  <2>1. at' = "handler" /\ UNCHANGED <<of, objects, reset, used, spare, hasty, call>>
    BY <1>3 DEF Call, Goto, lwip, lwipThread, haste
  <2>2. wrong' = Null => wrong = Null
    BY <1>3 DEF Call, Reach
  <2> QED
    BY <2>1, <2>2, RestIsSafe
<1>4. CASE Return \/ StartClose \/ ClearArg \/ ClearHooks \/ ClearEvents \/ EndRotation
           \/ TakePacket \/ PutPacket
  BY <1>4, RestIsSafe DEF Return, StartClose, ClearArg, ClearHooks, ClearEvents, EndRotation,
                          TakePacket, PutPacket, Goto, lwip, lwipThread, haste
<1>5. CASE UNCHANGED vars
  BY <1>5, RestIsSafe DEF vars, lwip, task, haste
<1> QED
  BY <1>1, <1>2, <1>3, <1>4, <1>5, ReadIsSafe, DestroyIsSafe DEF Next, AsyncTask

\* A call for a connection reaches its pcb or none (_tcp_write_api,
\* _tcp_close_api and the rest look at the slot), but for the exceptions: the
\* slot was read too late, an error took the pcb, or more connections came
\* since than slots were free.
THEOREM ClosedAlwaysRefused == Spec => []ClosedIsRefused
<1> DEFINE Inv == CallSafe /\ ClosedIsRefused
<1>1. Init => Inv
  <2> SUFFICES ASSUME Init PROVE Inv
    OBVIOUS
  <2>1. PcbsRight /\ PcbRead /\ SlotRead /\ CallTyped /\ ClosedIsRefused
    BY DEF Init, PcbsRight, PcbRead, SlotRead, CallTyped, NoCall, ClosedIsRefused
  <2>2. SlotTimes
    BY DEF Init, SlotTimes
  <2> QED
    BY <2>1, <2>2 DEF CallSafe
<1>2. Typed /\ Ownership /\ SlotsAgree /\ Inv /\ [Next]_vars => Inv'
  <2> SUFFICES ASSUME Typed, Ownership, SlotsAgree, Inv, [Next]_vars PROVE Inv'
    OBVIOUS
  <2>1. CASE wrong' = wrong /\ reset \subseteq reset'
    BY <2>1, StepIsSafe DEF ClosedIsRefused
  <2>2. CASE Call
    <3>1. reset' = reset /\ (wrong' = wrong \/ (Admitted(call.slot) /\ Reach(call.pcb, call.slot)))
      BY <2>2 DEF Call, lwipThread
    <3>2. CASE wrong' # wrong
      <4>1. /\ wrong = Null /\ of[call.pcb] # cur /\ at = "calling" /\ Admitted(call.slot)
            /\ wrong' = [of |-> cur, slot |-> call.slot, hasty |-> hasty]
        BY <2>2, <3>1, <3>2 DEF Call, Reach
      <4>2. call.slot # NoSlot => ~(call.slot \in FreeSlots)
        BY <4>1 DEF Admitted, FreeSlots
      <4>3. call.slot = NoSlot \/ cur \in reset \/ hasty
        BY <4>1, <4>2 DEF CallSafe, SlotRead, Trusted, StillOurs, InLine
      <4> QED
        BY <3>1, <4>1, <4>3, StepIsSafe DEF ClosedIsRefused
    <3> QED
      BY <2>1, <3>1, <3>2
  <2>3. CASE Close
    <3>1. reset' = reset /\ (wrong' = wrong \/ (pcb[cur] # Null /\ Reach(pcb[cur], slot[cur])))
      BY <2>3 DEF Close, lwipThread
    <3>2. CASE wrong' # wrong
      <4>1. /\ wrong = Null /\ pcb[cur] # Null /\ of[pcb[cur]] # cur
            /\ wrong' = [of |-> cur, slot |-> slot[cur], hasty |-> hasty]
        BY <3>1, <3>2 DEF Reach
      <4>2. cur \in Clients
        BY <2>3 DEF Close, Typed, TypeOK
      <4>3. cur \in reset
        BY <4>1, <4>2 DEF CallSafe, PcbsRight
      <4> QED
        BY <3>1, <4>1, <4>3, StepIsSafe DEF ClosedIsRefused
    <3> QED
      BY <2>1, <3>1, <3>2
  <2>4. CASE Lwip
    BY <2>1, <2>4 DEF Lwip, Accept, Called, Fin, Error, Send
  <2>5. CASE UNCHANGED vars
    BY <2>1, <2>5 DEF vars
  <2>6. CASE \/ Take \/ Return \/ HandleError \/ HandleFin \/ ReadPcb \/ ReadSlot \/ StartClose \/ ClearArg
             \/ ClearHooks \/ ClearEvents \/ TakePacket \/ PutPacket \/ EndRotation
    BY <2>1, <2>6 DEF Take, Return, HandleError, HandleFin, ReadPcb, ReadSlot, StartClose, ClearArg,
                      ClearHooks, ClearEvents, TakePacket, PutPacket, EndRotation, lwipThread
  <2> QED
    BY <2>2, <2>3, <2>4, <2>5, <2>6 DEF Next, AsyncTask
<1> QED
  BY <1>1, <1>2, AlwaysTyped, AlwaysOwned, SlotsAlwaysAgree, PTL DEF Spec

----------------------------------------------------------------------------
(* Numbers of events *)

Plain(e) == e.kind # "clear"

\* The events of a connection are numbered; a FIN or an error is its last.
\* Events are cleared for an object that is closed or about to be.
Counted(e) ==
  /\ Plain(e) => 1 <= e.n /\ e.n <= raised[e.to]
  /\ e.kind = "accept" => e.n = 1
  /\ e.kind \in {"fin", "error"} => Ended(e.to) /\ e.n = raised[e.to]
  /\ ~Plain(e) => obj[e.to] = "deleted" \/ (cur = e.to /\ at = "close")

Counts ==
  /\ handled \in [Clients -> Nat]
  /\ \A c \in Clients : /\ handled[c] <= raised[c]
                        /\ obj[c] = "fresh" => raised[c] = 0
                        /\ obj[c] = "deleted" => handled[c] >= 1
  /\ \A e \in OnTheirWay : Counted(e)
  /\ net # Null => Plain(net)
  /\ at \notin {"idle", "rotate"} => obj[cur] = "live" /\ handled[cur] >= 1
  /\ at \in {"fin", "error"} => Ended(cur) /\ handled[cur] = raised[cur]

\* A connection that lwIP knows has its object, which knows it.
Owned == \A p \in Pcbs : of[p] # Null => pcb[of[p]] = p /\ obj[of[p]] = "live"

LEMMA StaysCounted ==
  ASSUME NEW e \in Events, Counted(e), raised[e.to] \in Nat, raised'[e.to] \in Nat,
         raised[e.to] <= raised'[e.to],
         Ended(e.to) => Ended(e.to)' /\ raised'[e.to] = raised[e.to],
         obj[e.to] = "deleted" \/ (cur = e.to /\ at = "close") =>
           obj'[e.to] = "deleted" \/ (cur' = e.to /\ at' = "close")
  PROVE  Counted(e)'
<1>1. e.n \in Nat
  BY DEF Events
<1> QED
  BY <1>1 DEF Counted, Plain

\* The lwIP thread raises an event.
LEMMA RaiseKeepsCounts ==
  ASSUME Typed, Ownership, Counts, NEW kind \in Kinds, NEW c \in Clients, Raise(kind, c),
         UNCHANGED <<queue, hand, at, cur, handled>>,
         \A d \in Clients \ {c} : obj'[d] = obj[d] /\ (Ended(d) => Ended(d)'),
         obj'[c] = "live", (obj[c] = "live" /\ ~Ended(c)) \/ (obj[c] = "fresh" /\ kind = "accept"),
         kind # "clear", kind = "accept" => obj[c] = "fresh",
         kind \in {"fin", "error"} => Ended(c)'
  PROVE  Counts'
<1>0. /\ raised \in [Clients -> Nat] /\ handled \in [Clients -> Nat] /\ OnTheirWay \subseteq Events
      /\ (at # "idle" => cur \in Clients)
  BY DEF Typed, TypeOK, Counts, OnTheirWay, InQueue
<1>1. /\ raised' = [raised EXCEPT ![c] = @ + 1] /\ net' = Event(kind, c, raised[c] + 1)
      /\ raised'[c] = raised[c] + 1 /\ \A d \in Clients \ {c} : raised'[d] = raised[d]
  BY <1>0 DEF Raise
<1>2. net' \in Events /\ net'.kind = kind /\ net'.to = c /\ net'.n = raised[c] + 1
  BY <1>0, <1>1, EventType DEF Event
<1>3. \A d \in Clients : /\ handled'[d] <= raised'[d]
                         /\ obj'[d] = "fresh" => raised'[d] = 0
                         /\ obj'[d] = "deleted" => handled'[d] >= 1
  BY <1>0, <1>1 DEF Counts
<1>4. ASSUME NEW e \in OnTheirWay PROVE Counted(e)'
  <2>1. Counted(e) /\ e \in Events /\ Sound(e) /\ e.to \in Clients
    BY <1>0 DEF Counts, Ownership, Events
  <2>2. raised[e.to] \in Nat /\ raised'[e.to] \in Nat /\ raised[e.to] <= raised'[e.to]
    BY <1>0, <1>1, <2>1
  <2>3. e.to = c => obj[c] = "live" /\ ~Ended(c)
    BY <2>1 DEF Sound
  <2>4. Ended(e.to) => Ended(e.to)' /\ raised'[e.to] = raised[e.to]
    BY <1>1, <2>1, <2>3
  <2> QED
    BY <2>1, <2>2, <2>3, <2>4, StaysCounted
<1>5. ASSUME NEW e \in Events, e = net' PROVE Counted(e)'
  <2>1. kind = "accept" => raised[c] = 0
    BY DEF Counts
  <2>2. e.kind = kind /\ e.to = c /\ e.n = raised[c] + 1
    BY <1>2, <1>5
  <2>3. kind = "accept" => e.n = 1
    BY <1>0, <2>1, <2>2
  <2>4. Plain(e) /\ 1 <= e.n /\ e.n = raised'[e.to]
    BY <1>0, <1>1, <2>2 DEF Plain
  <2> QED
    BY <1>0, <1>1, <2>2, <2>3, <2>4 DEF Counted
<1>6. OnTheirWay' \subseteq OnTheirWay \cup {net'}
  BY DEF OnTheirWay, InQueue
<1>7. Plain(net)'
  BY <1>2 DEF Plain
<1>8. \A e \in OnTheirWay' : Counted(e)'
  BY <1>2, <1>4, <1>5, <1>6
<1>9. at # "idle" => obj[cur] # "fresh"
  BY <1>0, TcpAssumption DEF Ownership
<1>10. at' \notin {"idle", "rotate"} => obj'[cur'] = "live" /\ handled'[cur'] >= 1
  BY <1>0, <1>9 DEF Counts
<1>11. at' \in {"fin", "error"} => Ended(cur)' /\ handled'[cur'] = raised'[cur']
  BY <1>0, <1>1, <1>9 DEF Counts
<1> QED
  BY <1>0, <1>3, <1>7, <1>10, <1>11, <1>8 DEF Counts

\* Nothing is raised, and what is on its way was so before.
LEMMA StillCounts ==
  ASSUME Typed, Counts, UNCHANGED <<raised, obj, at, cur, handled>>,
         \A d \in Clients : Ended(d) => Ended(d)',
         OnTheirWay' \subseteq OnTheirWay, net' \in {net, Null}
  PROVE  Counts'
<1>0. /\ raised \in [Clients -> Nat] /\ OnTheirWay \subseteq Events /\ (at # "idle" => cur \in Clients)
  BY DEF Typed, TypeOK, OnTheirWay, InQueue
<1>1. ASSUME NEW e \in OnTheirWay' PROVE Counted(e)'
  <2>1. Counted(e) /\ e \in Events /\ e.to \in Clients
    BY <1>0 DEF Counts, Events
  <2> QED
    BY <1>0, <2>1, StaysCounted
<1>2. at' \in {"fin", "error"} => Ended(cur)'
  BY <1>0 DEF Counts, Ended
<1> QED
  BY <1>1, <1>2 DEF Counts

LEMMA LwipCounts ==
  ASSUME Typed, Ownership, SlotsAgree, Owned, Counts, Lwip
  PROVE  Owned' /\ Counts'
<1>0. /\ of \in [Pcbs -> Clients \cup {Null}] /\ arg \in [Pcbs -> Clients \cup {Null}]
      /\ obj \in [Clients -> {"fresh", "live", "deleted"}] /\ pcb \in [Clients -> Pcbs \cup {Null}]
  BY DEF Typed, TypeOK
<1>1. ASSUME NEW c \in Clients, NEW p \in Pcbs, Accept(c, p) PROVE Owned' /\ Counts'
  <2>1. /\ obj[c] = "fresh" /\ of[p] = Null /\ Raise("accept", c) /\ of' = [of EXCEPT ![p] = c]
        /\ pcb' = [pcb EXCEPT ![c] = p] /\ obj' = [obj EXCEPT ![c] = "live"]
        /\ UNCHANGED <<queue, hand, at, cur, handled>>
    BY <1>1 DEF Accept, task, order
  <2>2. \A d \in Clients \ {c} : obj'[d] = obj[d] /\ (Ended(d) => Ended(d)')
    BY <1>0, <2>1 DEF Ended
  <2>3. Counts'
    BY <1>0, <2>1, <2>2, RaiseKeepsCounts DEF Kinds
  <2>4. Owned'
    BY <1>0, <2>1 DEF Owned
  <2> QED
    BY <2>3, <2>4
<1>2. ASSUME NEW p \in Pcbs, NEW kind \in Kinds, kind \notin {"accept", "clear"}, of[p] # Null,
             arg[p] # Null, Raise(kind, arg[p]), UNCHANGED <<obj, queue, hand, at, cur, handled>>,
             \A q \in Pcbs : of'[q] \in {of[q], Null},
             kind \in {"fin", "error"} => of'[p] = Null
      PROVE  Counts'
  <2>1. arg[p] = of[p] /\ arg[p] \in Clients /\ obj[arg[p]] = "live" /\ ~Ended(arg[p])
    BY <1>0, <1>2 DEF Ownership, Owned, Ended
  <2>2. \A d \in Clients : Ended(d) => Ended(d)'
    BY <1>2, TcpAssumption DEF Ended
  <2>3. kind \in {"fin", "error"} => \A q \in Pcbs : of'[q] # arg[p]
    BY <1>0, <1>2, <2>1, TcpAssumption DEF Ownership
  <2> DEFINE c == arg[p]
  <2>4. PICK d \in Clients : d = c
    BY <2>1
  <2>5. kind \in {"fin", "error"} => Ended(d)'
    BY <2>3, <2>4 DEF Ended
  <2> QED
    BY <1>2, <2>1, <2>2, <2>4, <2>5, RaiseKeepsCounts
<1>3. ASSUME NEW p \in Pcbs, NEW kind \in {"data", "poll"}, Called(p, kind) PROVE Owned' /\ Counts'
  <2>1. UNCHANGED <<of, pcb, obj>>
    BY <1>3 DEF Called, lwip, objects
  <2>2. Counts'
    BY <1>2, <1>3 DEF Called, lwip, objects, task, order, Kinds
  <2> QED
    BY <2>1, <2>2 DEF Owned
<1>4. ASSUME NEW p \in Pcbs, Fin(p) PROVE Owned' /\ Counts'
  <2>1. UNCHANGED <<obj, queue, hand, at, cur, handled>>
    BY <1>4 DEF Fin, objects, task, order
  <2>2. CASE arg[p] = Null
    <3>1. UNCHANGED <<of, pcb, obj, raised, net>>
      BY <1>4, <2>2 DEF Fin, lwip, objects
    <3>2. OnTheirWay' = OnTheirWay
      BY <2>1, <3>1 DEF OnTheirWay, InQueue
    <3>3. Counts'
      BY <2>1, <3>1, <3>2, StillCounts DEF Ended
    <3> QED
      BY <3>1, <3>3 DEF Owned
  <2>3. CASE arg[p] # Null
    <3>1. of[p] = arg[p] /\ pcb[arg[p]] = p
      BY <1>0, <1>4, <2>3 DEF Fin, Ownership, Owned
    <3>2. /\ Raise("fin", arg[p]) /\ of' = [of EXCEPT ![p] = Null]
          /\ pcb' = [pcb EXCEPT ![arg[p]] = Null]
      BY <1>4, <2>3, <3>1 DEF Fin
    <3>3. \A q \in Pcbs : of'[q] \in {of[q], Null}
      BY <1>0, <3>2
    <3>4. Counts'
      BY <1>0, <1>2, <1>4, <2>1, <2>3, <3>2, <3>3 DEF Fin, Kinds
    <3>5. Owned'
      BY <1>0, <2>1, <3>1, <3>2 DEF Owned, Ownership
    <3> QED
      BY <3>4, <3>5
  <2> QED
    BY <2>2, <2>3
<1>5. ASSUME NEW p \in Pcbs, Error(p) PROVE Owned' /\ Counts'
  <2>1. UNCHANGED <<obj, pcb, queue, hand, at, cur, handled>> /\ of' = [of EXCEPT ![p] = Null]
        /\ of[p] # Null
    BY <1>5 DEF Error, objects, task, order
  <2>2. \A q \in Pcbs : of'[q] \in {of[q], Null}
    BY <1>0, <2>1
  <2>3. Owned'
    BY <2>1, <2>2 DEF Owned
  <2>4. CASE hooked[p] /\ arg[p] # Null
    <3>1. Counts'
      BY <1>0, <1>2, <1>5, <2>1, <2>2, <2>4 DEF Error, Kinds
    <3> QED
      BY <2>3, <3>1
  <2>5. CASE ~(hooked[p] /\ arg[p] # Null)
    <3>1. UNCHANGED <<raised, net>>
      BY <1>5, <2>5 DEF Error
    <3>2. OnTheirWay' = OnTheirWay /\ \A d \in Clients : Ended(d) => Ended(d)'
      BY <2>1, <2>2, <3>1, TcpAssumption DEF OnTheirWay, InQueue, Ended
    <3>3. Counts'
      BY <2>1, <3>1, <3>2, StillCounts
    <3> QED
      BY <2>3, <3>3
  <2> QED
    BY <2>4, <2>5
<1>6. CASE Send
  <2>1. net \in Events /\ queue \in Seq(Events)
    BY <1>6 DEF Send, Typed
  <2>2. InQueue(queue') \subseteq InQueue(queue) \cup {net} /\ net' = Null
    BY <1>6, <2>1, Appended, Prepended DEF Send
  <2>3. UNCHANGED <<of, pcb, raised, obj, hand, at, cur, handled>>
    BY <1>6 DEF Send, lwip, objects, task, order
  <2>4. OnTheirWay' \subseteq OnTheirWay
    BY <1>6, <2>2, <2>3 DEF OnTheirWay, Send
  <2>5. Counts'
    BY <2>2, <2>3, <2>4, StillCounts DEF Ended
  <2> QED
    BY <2>3, <2>5 DEF Owned
<1> QED
  BY <1>1, <1>3, <1>4, <1>5, <1>6 DEF Lwip

\* What async_tcp does but for taking an event.
LEMMA TaskKeepsCounts ==
  ASSUME Typed, Counts, UNCHANGED <<raised, handled, net>>,
         \A d \in Clients : /\ Ended(d) => Ended(d)'
                            /\ obj'[d] = obj[d] \/ (d = cur /\ obj'[d] = "deleted" /\ at \notin {"idle", "rotate"}),
         \A e \in OnTheirWay' : \/ e \in OnTheirWay
                                \/ /\ cur # Null /\ e = Clear(cur)
                                   /\ obj'[cur] = "deleted" \/ (cur' = cur /\ at' = "close"),
         at = "close" => obj'[cur] = "deleted",
         \/ at' = "idle"
         \/ UNCHANGED <<at, cur, obj>>
         \/ /\ at \notin {"idle", "rotate"} /\ at' \notin {"idle", "rotate", "fin", "error"}
            /\ cur' = cur /\ obj' = obj
  PROVE  Counts'
<1>0. /\ raised \in [Clients -> Nat] /\ OnTheirWay \subseteq Events /\ cur \in Clients \cup {Null}
      /\ (at # "idle" => cur \in Clients)
  BY DEF Typed, TypeOK, OnTheirWay, InQueue
<1>1. ASSUME NEW e \in OnTheirWay' PROVE Counted(e)'
  <2>1. CASE e \in OnTheirWay
    <3>1. Counted(e) /\ e \in Events /\ e.to \in Clients
      BY <1>0, <2>1 DEF Counts, Events
    <3> QED
      BY <1>0, <3>1, StaysCounted
  <2>2. CASE e \notin OnTheirWay
    <3>1. e.kind = "clear" /\ e.to = cur
      BY <1>1, <2>2 DEF Clear, Event
    <3>2. obj'[e.to] = "deleted" \/ (cur' = e.to /\ at' = "close")
      BY <1>1, <2>2, <3>1
    <3> QED
      BY <3>1, <3>2 DEF Counted, Plain
  <2> QED
    BY <2>1, <2>2
<1>2. \A c \in Clients : obj'[c] = "deleted" => handled[c] >= 1
  BY <1>0 DEF Counts
<1>3. at' \in {"fin", "error"} => Ended(cur)' /\ handled'[cur'] = raised'[cur']
  BY <1>0 DEF Counts, Ended
<1>4. at' \notin {"idle", "rotate"} => obj'[cur'] = "live" /\ handled'[cur'] >= 1
  BY <1>0 DEF Counts
<1>5. \A c \in Clients : obj'[c] = "fresh" => obj[c] = "fresh"
  OBVIOUS
<1> QED
  BY <1>1, <1>2, <1>3, <1>4, <1>5 DEF Counts

\* It takes one.
LEMMA TakeCounts ==
  ASSUME Typed, Ownership, Counts, Take
  PROVE  Counts'
<1> DEFINE e == Head(queue)
<1>1. queue # <<>> /\ queue \in Seq(Events)
  BY DEF Take, Typed
<1>2. /\ e \in Events /\ e \in InQueue(queue) /\ InQueue(Tail(queue)) \subseteq InQueue(queue)
  BY <1>1, TakenOff
<1>3. /\ at = "idle" /\ queue' = Tail(queue) /\ Noted(e) /\ at' = Entry(e)
      /\ cur' = (IF Entry(e) = "idle" THEN Null ELSE e.to) /\ hand' = Null
      /\ UNCHANGED <<of, obj, raised, net>>
  BY DEF Take, lwip, objects, lwipThread
<1> HIDE DEF e
<1>0. /\ raised \in [Clients -> Nat] /\ handled \in [Clients -> Nat] /\ OnTheirWay \subseteq Events
      /\ obj \in [Clients -> {"fresh", "live", "deleted"}]
  BY DEF Typed, TypeOK, Counts, OnTheirWay, InQueue
<1>4. OnTheirWay' \subseteq OnTheirWay /\ e \in OnTheirWay
  BY <1>2, <1>3, TcpAssumption DEF OnTheirWay
<1>5. Counted(e) /\ Sound(e) /\ e.to \in Clients /\ e.n \in Nat /\ e.kind \in Kinds
  BY <1>2, <1>4 DEF Counts, Ownership, Events
<1>6. \/ handled' = handled /\ ~Plain(e)
      \/ Plain(e) /\ handled' = [handled EXCEPT ![e.to] = e.n]
  BY <1>3 DEF Noted, Plain, order
<1>7. handled' \in [Clients -> Nat] /\ \A c \in Clients : /\ handled'[c] <= raised[c]
                                                          /\ handled'[c] = handled[c] \/ handled'[c] >= 1
  BY <1>0, <1>5, <1>6 DEF Counts, Counted
<1>8. ASSUME NEW f \in OnTheirWay' PROVE Counted(f)'
  <2>1. Counted(f) /\ f \in Events /\ f.to \in Clients
    BY <1>0, <1>4 DEF Counts, Events
  <2> QED
    BY <1>0, <1>3, <2>1, StaysCounted DEF Ended
<1>9. Entry(e) \notin {"idle", "rotate"} =>
        obj[e.to] # "deleted" /\ Plain(e) /\ (Entry(e) \in {"fin", "error"} => e.kind = Entry(e))
  BY <1>2, EntryType DEF Plain
<1>10. at' \notin {"idle", "rotate"} => obj'[cur'] = "live" /\ handled'[cur'] >= 1
  <2> SUFFICES ASSUME at' \notin {"idle", "rotate"} PROVE obj[e.to] = "live" /\ handled'[e.to] >= 1
    BY <1>3
  <2> QED
    BY <1>0, <1>3, <1>5, <1>6, <1>9 DEF Sound, Counted
<1>11. at' \in {"fin", "error"} => Ended(cur)' /\ handled'[cur'] = raised'[cur']
  <2> SUFFICES ASSUME at' \in {"fin", "error"} PROVE Ended(e.to) /\ handled'[e.to] = raised[e.to]
    BY <1>3 DEF Ended
  <2> QED
    BY <1>0, <1>3, <1>5, <1>6, <1>9 DEF Counted
<1> QED
  BY <1>0, <1>3, <1>7, <1>8, <1>10, <1>11 DEF Counts

LEMMA TaskCounts ==
  ASSUME Typed, Ownership, SlotsAgree, Owned, Counts, AsyncTask
  PROVE  Owned' /\ Counts'
<1>0. /\ of \in [Pcbs -> Clients \cup {Null}] /\ obj \in [Clients -> {"fresh", "live", "deleted"}]
      /\ pcb \in [Clients -> Pcbs \cup {Null}] /\ slot \in [Clients -> Slots \cup {NoSlot}]
      /\ queue \in Seq(Events) /\ (at # "idle" => cur \in Clients /\ cur # Null)
  BY TcpAssumption DEF Typed, TypeOK
<1>1. CASE Take
  <2>1. UNCHANGED <<of, pcb, obj>>
    BY <1>1 DEF Take, lwip, objects
  <2> QED
    BY <1>1, <2>1, TakeCounts DEF Owned
<1>2. CASE HandleError \/ HandleFin \/ Close
  <2>1. /\ at \in {"error", "fin", "close"} /\ at' = "idle" /\ cur' = Null /\ cur \in Clients /\ Destroy(cur)
        /\ UNCHANGED <<raised, handled, net, hand>>
    BY <1>0, <1>2 DEF HandleError, HandleFin, Close, lwipThread, order
  <2>2. obj' = [obj EXCEPT ![cur] = "deleted"] /\ pcb' = [pcb EXCEPT ![cur] = Null]
    BY <2>1 DEF Destroy
  <2>3. \A p \in Pcbs : of'[p] \in {of[p], Null} /\ of'[p] # cur
    <3>1. CASE HandleError \/ HandleFin
      <4>1. Ended(cur) /\ of' = of
        BY <3>1 DEF HandleError, HandleFin, Counts, lwip
      <4> QED
        BY <4>1 DEF Ended
    <3>2. CASE Close /\ pcb[cur] = Null
      <4>1. of' = of
        BY <3>2 DEF Close
      <4>2. \A p \in Pcbs : of[p] # cur
        BY <1>0, <2>1, <3>2, TcpAssumption DEF Owned
      <4> QED
        BY <4>1, <4>2
    <3>3. CASE Close /\ pcb[cur] # Null
      <4>1. Admitted(slot[cur])
        BY <2>1 DEF Admitted, SlotsAgree
      <4>2. of' = [of EXCEPT ![pcb[cur]] = Null]
        BY <3>3, <4>1 DEF Close
      <4>3. \A p \in Pcbs : of[p] = cur => p = pcb[cur]
        BY <1>0, <2>1 DEF Owned
      <4> QED
        BY <1>0, <2>1, <4>2, <4>3
    <3> QED
      BY <1>2, <3>1, <3>2, <3>3
  <2>4. Owned'
    BY <1>0, <2>1, <2>2, <2>3 DEF Owned
  <2>5. ASSUME NEW e \in OnTheirWay' PROVE e \in OnTheirWay \/ e = Clear(cur)
    <3>1. CASE queue' = queue
      BY <2>1, <2>5, <3>1 DEF OnTheirWay, InQueue
    <3>2. CASE queue' = <<Clear(cur)>> \o queue
      <4>1. Clear(cur) \in Events
        BY <2>1, EventType DEF Clear, Kinds
      <4>2. OnTheirWay' \subseteq OnTheirWay \cup {Clear(cur)}
        BY <1>0, <2>1, <3>2, <4>1, Prepended DEF OnTheirWay
      <4> QED
        BY <2>5, <4>2
    <3> QED
      BY <1>2, <3>1, <3>2 DEF HandleError, HandleFin, Close
  <2>6. \A d \in Clients : Ended(d) => Ended(d)'
    BY <2>3, TcpAssumption DEF Ended
  <2>7. Counts'
    BY <1>0, <2>1, <2>2, <2>5, <2>6, TaskKeepsCounts
  <2> QED
    BY <2>4, <2>7
<1>3. ASSUME UNCHANGED <<of, pcb, obj, raised, handled, net>>,
             \A e \in OnTheirWay' : \/ e \in OnTheirWay
                                    \/ cur # Null /\ e = Clear(cur) /\ cur' = cur /\ at' = "close",
             at # "close",
             \/ at' = "idle"
             \/ UNCHANGED <<at, cur>>
             \/ /\ at \notin {"idle", "rotate"} /\ at' \notin {"idle", "rotate", "fin", "error"}
                /\ cur' = cur
      PROVE  Owned' /\ Counts'
  <2>1. Counts'
    BY <1>3, TaskKeepsCounts DEF Ended
  <2> QED
    BY <1>3, <2>1 DEF Owned
<1>4. CASE ClearEvents
  <2>1. /\ UNCHANGED <<of, pcb, obj, raised, handled, net, hand, cur>> /\ at = "clear" /\ at' = "close"
        /\ queue' = <<Clear(cur)>> \o queue /\ cur \in Clients /\ cur # Null
    BY <1>0, <1>4 DEF ClearEvents, Goto, lwip, objects, lwipThread, order
  <2>2. Clear(cur) \in Events
    BY <2>1, EventType DEF Clear, Kinds
  <2>3. OnTheirWay' \subseteq OnTheirWay \cup {Clear(cur)}
    BY <1>0, <2>1, <2>2, Prepended DEF OnTheirWay
  <2> QED
    BY <1>3, <2>1, <2>3
<1>5. CASE Return \/ ReadPcb \/ ReadSlot \/ Call \/ StartClose \/ ClearArg \/ ClearHooks \/ EndRotation
  <2>1. /\ UNCHANGED <<of, pcb, obj, raised, handled, net, hand, queue>>
        /\ at \in {"handler", "reading", "calling", "unhook", "unhook_rest", "rotate"}
    BY <1>5 DEF Return, ReadPcb, ReadSlot, Call, StartClose, ClearArg, ClearHooks, EndRotation,
                Goto, lwip, objects, lwipThread, order
  <2>2. at' = "idle" \/ (/\ at \notin {"idle", "rotate"} /\ at' \notin {"idle", "rotate", "fin", "error"}
                         /\ cur' = cur)
    BY <1>5 DEF Return, ReadPcb, ReadSlot, Call, StartClose, ClearArg, ClearHooks, EndRotation, Goto
  <2>3. OnTheirWay' = OnTheirWay
    BY <2>1 DEF OnTheirWay, InQueue
  <2> QED
    BY <1>3, <2>1, <2>2, <2>3
<1>6. CASE TakePacket
  <2>1. queue # <<>> /\ UNCHANGED <<of, pcb, obj, raised, handled, net, at, cur>> /\ at = "rotate"
        /\ queue' = Tail(queue) /\ hand' \in {Null, Head(queue)}
    BY <1>6 DEF TakePacket, Rotated, lwip, objects, lwipThread, order
  <2>2. OnTheirWay' \subseteq OnTheirWay
    BY <1>0, <2>1, TakenOff DEF OnTheirWay
  <2> QED
    BY <1>3, <2>1, <2>2
<1>7. CASE PutPacket
  <2>1. /\ hand # Null /\ UNCHANGED <<of, pcb, obj, raised, handled, net, at, cur>> /\ at = "rotate"
        /\ queue' = Append(queue, hand) /\ hand' = Null
    BY <1>7 DEF PutPacket, lwip, objects, lwipThread, order
  <2>2. hand \in Events
    BY <2>1 DEF Typed
  <2>3. OnTheirWay' \subseteq OnTheirWay
    BY <1>0, <2>1, <2>2, Appended DEF OnTheirWay
  <2> QED
    BY <1>3, <2>1, <2>3
<1> QED
  BY <1>1, <1>2, <1>4, <1>5, <1>6, <1>7 DEF AsyncTask

LEMMA AlwaysCounted == Spec => [](Owned /\ Counts)
<1>1. Init => Owned /\ Counts
  <2> SUFFICES ASSUME Init PROVE Owned /\ Counts
    OBVIOUS
  <2>1. InQueue(queue) = {} /\ OnTheirWay = {}
    BY DEF Init, InQueue, OnTheirWay
  <2> QED
    BY <2>1 DEF Init, Owned, Counts
<1>2. Typed /\ Ownership /\ SlotsAgree /\ Owned /\ Counts /\ [Next]_vars => Owned' /\ Counts'
  <2>1. ASSUME Typed, Owned, Counts, UNCHANGED vars PROVE Owned' /\ Counts'
    <3>1. UNCHANGED <<of, pcb, obj, raised, handled, queue, net, hand, at, cur>>
      BY <2>1 DEF vars, lwip, objects, task, order
    <3>2. OnTheirWay' = OnTheirWay
      BY <3>1 DEF OnTheirWay, InQueue
    <3>3. Counts'
      BY <2>1, <3>1, <3>2, StillCounts DEF Ended
    <3> QED
      BY <2>1, <3>1, <3>3 DEF Owned
  <2> QED
    BY <2>1, LwipCounts, TaskCounts DEF Next
<1> QED
  BY <1>1, <1>2, AlwaysTyped, AlwaysOwned, SlotsAlwaysAgree, PTL DEF Spec

----------------------------------------------------------------------------
(* The order of the queue.  While it is turned round, the packets that were  *)
(* put back, behind place m, come before the others, and the one in hand     *)
(* comes between.                                                            *)

Same(e, f) == e.to = f.to /\ (Plain(e) <=> Plain(f))

Before(i, j, m) == (i > m /\ j <= m) \/ (i < j /\ (i > m \/ j <= m))

QueueOrdered(q, m) ==
  \A i, j \in 1..Len(q) : Before(i, j, m) /\ Same(q[i], q[j]) => q[i].n < q[j].n

HandPlaced(q, m, h) ==
  \A i \in 1..Len(q) : Same(h, q[i]) => IF i > m THEN q[i].n < h.n ELSE h.n < q[i].n

\* The first packet is taken, ...
LEMMA TailOrdered ==
  ASSUME NEW q \in Seq(Events), q # <<>>, NEW m \in 1..Len(q), QueueOrdered(q, m)
  PROVE  QueueOrdered(Tail(q), m - 1) /\ HandPlaced(Tail(q), m - 1, Head(q))
<1>1. /\ Len(q) \in Nat /\ Len(q) >= 1 /\ Len(Tail(q)) = Len(q) - 1 /\ Head(q) = q[1]
      /\ \A i \in 1..Len(q) - 1 : Tail(q)[i] = q[i + 1]
  OBVIOUS
<1>2. ASSUME NEW i \in 1..Len(Tail(q)), NEW j \in 1..Len(Tail(q)), Before(i, j, m - 1),
             Same(Tail(q)[i], Tail(q)[j])
      PROVE  Tail(q)[i].n < Tail(q)[j].n
  <2>1. i + 1 \in 1..Len(q) /\ j + 1 \in 1..Len(q) /\ Before(i + 1, j + 1, m)
    BY <1>1, <1>2 DEF Before
  <2> QED
    BY <1>1, <1>2, <2>1 DEF QueueOrdered
<1>3. ASSUME NEW i \in 1..Len(Tail(q)), Same(Head(q), Tail(q)[i])
      PROVE  IF i > m - 1 THEN Tail(q)[i].n < Head(q).n ELSE Head(q).n < Tail(q)[i].n
  <2>1. i + 1 \in 1..Len(q) /\ Tail(q)[i] = q[i + 1] /\ Same(q[1], q[i + 1]) /\ Same(q[i + 1], q[1])
    BY <1>1, <1>3 DEF Same
  <2>2. IF i > m - 1 THEN Before(i + 1, 1, m) ELSE Before(1, i + 1, m)
    BY <1>1, <2>1 DEF Before
  <2> QED
    BY <1>1, <2>1, <2>2 DEF QueueOrdered
<1> QED
  BY <1>2, <1>3 DEF QueueOrdered, HandPlaced

\* ... put back behind the others, ...
LEMMA AppendOrdered ==
  ASSUME NEW q \in Seq(Events), NEW m \in 0..Len(q), QueueOrdered(q, m), NEW h \in Events,
         HandPlaced(q, m, h)
  PROVE  QueueOrdered(Append(q, h), m)
<1> DEFINE r == Append(q, h)
<1>1. /\ Len(q) \in Nat /\ Len(r) = Len(q) + 1 /\ r[Len(q) + 1] = h
      /\ \A i \in 1..Len(q) : r[i] = q[i]
  OBVIOUS
<1> HIDE DEF r
<1>2. ASSUME NEW i \in 1..Len(r), NEW j \in 1..Len(r), Before(i, j, m), Same(r[i], r[j])
      PROVE  r[i].n < r[j].n
  <2>1. CASE i \in 1..Len(q) /\ j \in 1..Len(q)
    BY <1>1, <1>2, <2>1 DEF QueueOrdered
  <2>2. CASE i = Len(q) + 1 /\ j \in 1..Len(q)
    <3>1. j <= m /\ Same(h, q[j])
      BY <1>1, <1>2, <2>2 DEF Before
    <3> QED
      BY <1>1, <2>2, <3>1 DEF HandPlaced
  <2>3. CASE i \in 1..Len(q) /\ j = Len(q) + 1
    <3>1. i > m /\ Same(h, q[i])
      BY <1>1, <1>2, <2>3 DEF Before, Same
    <3> QED
      BY <1>1, <2>3, <3>1 DEF HandPlaced
  <2>4. CASE i = Len(q) + 1 /\ j = Len(q) + 1
    BY <1>1, <1>2, <2>4 DEF Before
  <2> QED
    BY <1>1, <2>1, <2>2, <2>3, <2>4
<1> QED
  BY <1>2 DEF QueueOrdered, r

\* ... or sent, when the queue is not being turned round, to its end ...
LEMMA AppendLast ==
  ASSUME NEW q \in Seq(Events), QueueOrdered(q, Len(q)), NEW e \in Events,
         \A f \in InQueue(q) : Same(f, e) => f.n < e.n
  PROVE  QueueOrdered(Append(q, e), Len(q) + 1)
<1> DEFINE r == Append(q, e)
<1>1. /\ Len(q) \in Nat /\ Len(r) = Len(q) + 1 /\ r[Len(q) + 1] = e
      /\ \A i \in 1..Len(q) : r[i] = q[i]
  OBVIOUS
<1> HIDE DEF r
<1>2. ASSUME NEW i \in 1..Len(r), NEW j \in 1..Len(r), Before(i, j, Len(q) + 1), Same(r[i], r[j])
      PROVE  r[i].n < r[j].n
  <2>1. i < j
    BY <1>1, <1>2 DEF Before
  <2>2. CASE j \in 1..Len(q)
    <3>1. i \in 1..Len(q) /\ Before(i, j, Len(q))
      BY <1>1, <2>1, <2>2 DEF Before
    <3> QED
      BY <1>1, <1>2, <2>2, <3>1 DEF QueueOrdered
  <2>3. CASE j = Len(q) + 1
    <3>1. i \in 1..Len(q) /\ q[i] \in InQueue(q)
      BY <1>1, <2>1, <2>3 DEF InQueue
    <3> QED
      BY <1>1, <1>2, <2>3, <3>1
  <2> QED
    BY <1>1, <2>2, <2>3
<1> QED
  BY <1>2 DEF QueueOrdered, r

\* ... or its front.
LEMMA PrependFirst ==
  ASSUME NEW q \in Seq(Events), QueueOrdered(q, Len(q)), NEW e \in Events,
         \A f \in InQueue(q) : Same(e, f) => e.n < f.n
  PROVE  QueueOrdered(<<e>> \o q, Len(q) + 1)
<1> DEFINE r == <<e>> \o q
<1>1. /\ Len(q) \in Nat /\ Len(r) = Len(q) + 1 /\ r[1] = e
      /\ \A i \in 2..Len(r) : r[i] = q[i - 1]
  OBVIOUS
<1> HIDE DEF r
<1>2. ASSUME NEW i \in 1..Len(r), NEW j \in 1..Len(r), Before(i, j, Len(q) + 1), Same(r[i], r[j])
      PROVE  r[i].n < r[j].n
  <2>1. i < j
    BY <1>1, <1>2 DEF Before
  <2>2. j - 1 \in 1..Len(q) /\ r[j] = q[j - 1] /\ q[j - 1] \in InQueue(q)
    BY <1>1, <2>1 DEF InQueue
  <2>3. CASE i = 1
    BY <1>1, <1>2, <2>2, <2>3
  <2>4. CASE i # 1
    <3>1. i - 1 \in 1..Len(q) /\ r[i] = q[i - 1] /\ Before(i - 1, j - 1, Len(q))
      BY <1>1, <2>1, <2>4 DEF Before
    <3> QED
      BY <1>2, <2>2, <3>1 DEF QueueOrdered
  <2> QED
    BY <2>3, <2>4
<1> QED
  BY <1>2 DEF QueueOrdered, r

\* When all have been put back, they are in order again.
LEMMA AllPutBack ==
  ASSUME NEW q \in Seq(Events), QueueOrdered(q, 0)
  PROVE  QueueOrdered(q, Len(q))
<1>1. \A i, j \in 1..Len(q) : Before(i, j, Len(q)) => Before(i, j, 0)
  BY DEF Before
<1> QED
  BY <1>1 DEF QueueOrdered

\* Packets up to m have not been taken yet; the next is the first put back.
Split(m) ==
  /\ m \in 0..Len(queue)
  /\ at # "rotate" \/ first = Null => m = Len(queue) /\ hand = Null
  /\ at = "rotate" /\ first # Null => IF m < Len(queue) THEN queue[m + 1] = first ELSE hand = first

Waiting == InQueue(queue) \cup ({hand} \ {Null})

Order(m) ==
  /\ Split(m) /\ QueueOrdered(queue, m)
  /\ hand # Null => HandPlaced(queue, m, hand)
  /\ \A e \in OnTheirWay : Plain(e) => handled[e.to] < e.n
  /\ net # Null => \A e \in Waiting : Same(e, net) => e.n < net.n

\* The lwIP thread raises an event, or none.
LEMMA RaiseKeepsOrder ==
  ASSUME Typed, Counts, NEW m, Order(m), UNCHANGED <<queue, hand, at, first, handled>>,
         net' = net \/ \E kind \in Kinds \ {"clear"}, c \in Clients : Raise(kind, c)
  PROVE  Order(m)'
<1>0. OnTheirWay \subseteq Events /\ raised \in [Clients -> Nat] /\ handled \in [Clients -> Nat]
      /\ Waiting \subseteq OnTheirWay /\ OnTheirWay' \subseteq OnTheirWay \cup {net'}
  BY DEF Typed, Counts, OnTheirWay, InQueue, Waiting
<1>1. Split(m)' /\ QueueOrdered(queue, m)' /\ (hand' # Null => HandPlaced(queue, m, hand)')
  BY DEF Order, Split, QueueOrdered, HandPlaced
<1>2. UNCHANGED Waiting
  BY DEF Waiting, InQueue
<1>3. CASE net' = net
  <2>1. OnTheirWay' = OnTheirWay
    BY <1>3 DEF OnTheirWay, InQueue
  <2>2. \A e \in OnTheirWay' : Plain(e) => handled'[e.to] < e.n
    BY <2>1 DEF Order
  <2>3. net' # Null => \A e \in Waiting' : Same(e, net') => e.n < net'.n
    BY <1>2, <1>3 DEF Order
  <2> QED
    BY <1>1, <2>2, <2>3 DEF Order
<1>4. ASSUME NEW kind \in Kinds \ {"clear"}, NEW c \in Clients, Raise(kind, c) PROVE Order(m)'
  <2>1. net' = Event(kind, c, raised[c] + 1) /\ raised[c] + 1 \in Nat
    BY <1>0, <1>4 DEF Raise
  <2>2. net' \in Events /\ net'.kind # "clear" /\ net'.to = c /\ net'.n = raised[c] + 1
    BY <2>1, EventType DEF Event
  <2>3. ASSUME NEW e \in OnTheirWay' PROVE Plain(e) => handled'[e.to] < e.n
    <3>1. CASE e \in OnTheirWay
      BY <3>1 DEF Order
    <3>2. CASE e = net'
      <4>1. handled[c] <= raised[c] /\ handled[c] \in Nat /\ raised[c] \in Nat
        BY <1>0 DEF Counts
      <4> QED
        BY <2>2, <3>2, <4>1
    <3> QED
      BY <1>0, <2>3, <3>1, <3>2
  <2>4. ASSUME NEW e \in Waiting, Same(e, net') PROVE e.n < net'.n
    <3>1. e \in OnTheirWay /\ e \in Events /\ Counted(e)
      BY <1>0 DEF Counts
    <3>2. Plain(e) /\ e.to = c /\ e.n \in Nat
      BY <2>2, <2>4, <3>1 DEF Same, Plain, Events
    <3>3. e.n <= raised[c] /\ raised[c] \in Nat
      BY <1>0, <3>1, <3>2 DEF Counted
    <3> QED
      BY <2>2, <3>2, <3>3
  <2> QED
    BY <1>1, <1>2, <2>3, <2>4 DEF Order
<1> QED
  BY <1>3, <1>4

LEMMA SendKeepsOrder ==
  ASSUME Typed, Counts, NEW m, Order(m), Send, at # "rotate"
  PROVE  Order(m + 1)'
<1>1. /\ queue \in Seq(Events) /\ net \in Events /\ net # Null /\ Plain(net) /\ Counted(net)
  BY DEF Send, Typed, Counts, OnTheirWay
<1>2. m = Len(queue) /\ hand = Null /\ Len(queue) \in Nat
  BY <1>1 DEF Order, Split
<1>3. /\ net' = Null /\ UNCHANGED <<hand, at, first, handled>>
      /\ queue' = (IF net.kind = "accept" THEN <<net>> \o queue ELSE Append(queue, net))
  BY DEF Send, task, order
<1>4. \A f \in InQueue(queue) : Same(f, net) => f.n < net.n
  BY DEF Order, Waiting, Send
<1>5. queue' \in Seq(Events) /\ Len(queue') = m + 1 /\ InQueue(queue') \subseteq InQueue(queue) \cup {net}
  BY <1>1, <1>2, <1>3, Appended, Prepended
<1>6. Split(m + 1)'
  BY <1>2, <1>3, <1>5 DEF Split
<1>7. QueueOrdered(queue', m + 1)
  <2>1. CASE net.kind # "accept"
    BY <1>1, <1>2, <1>3, <1>4, <2>1, AppendLast DEF Order
  <2>2. CASE net.kind = "accept"
    <3>1. ASSUME NEW f \in InQueue(queue), Same(net, f) PROVE FALSE
      <4>1. f \in OnTheirWay /\ f \in Events /\ Counted(f)
        BY <1>1, TcpAssumption DEF OnTheirWay, Counts, InQueue
      <4>2. Plain(f) /\ f.n \in Nat /\ 1 <= f.n
        BY <1>1, <3>1, <4>1 DEF Same, Counted, Events
      <4>3. f.n < net.n /\ net.n = 1
        BY <1>1, <1>4, <2>2, <3>1 DEF Same, Counted
      <4> QED
        BY <4>2, <4>3
    <3> QED
      BY <1>1, <1>2, <1>3, <2>2, <3>1, PrependFirst DEF Order
  <2> QED
    BY <2>1, <2>2
<1>8. OnTheirWay' \subseteq OnTheirWay
  BY <1>1, <1>3, <1>5 DEF OnTheirWay
<1> QED
  BY <1>2, <1>3, <1>6, <1>7, <1>8 DEF Order

\* async_tcp takes an event: none that was raised later has been handled.
LEMMA TakeKeepsOrder ==
  ASSUME Typed, Counts, NEW m, Order(m), Take
  PROVE  Order(m - 1)' /\ (disordered' => disordered)
<1> DEFINE e == Head(queue)
<1>1. queue # <<>> /\ queue \in Seq(Events) /\ at = "idle"
  BY DEF Take, Typed
<1>2. /\ e \in Events /\ e \in InQueue(queue) /\ InQueue(Tail(queue)) \subseteq InQueue(queue)
      /\ Tail(queue) \in Seq(Events) /\ Len(Tail(queue)) = Len(queue) - 1
  BY <1>1, TakenOff
<1>3. /\ queue' = Tail(queue) /\ Noted(e) /\ hand' = Null /\ first' = Null /\ net' = net
  BY DEF Take, lwipThread
<1>4. m = Len(queue) /\ m \in 1..Len(queue) /\ hand = Null /\ QueueOrdered(queue, m)
  BY <1>1 DEF Order, Split
<1>5. QueueOrdered(queue', m - 1) /\ HandPlaced(queue', m - 1, e)
  BY <1>1, <1>3, <1>4, TailOrdered
<1>6. ASSUME NEW f \in InQueue(queue'), Same(e, f) PROVE e.n < f.n
  <2>1. PICK i \in 1..Len(queue') : f = queue'[i]
    BY DEF InQueue
  <2>2. ~(i > m - 1)
    BY <1>2, <1>3, <1>4
  <2> QED
    BY <1>5, <1>6, <2>1, <2>2 DEF HandPlaced
<1>7. net # Null => Plain(net) /\ (Same(e, net) => e.n < net.n)
  BY <1>2 DEF Order, Waiting, Counts
<1> HIDE DEF e
<1>0. OnTheirWay \subseteq Events /\ OnTheirWay' \subseteq OnTheirWay /\ e \in OnTheirWay
      /\ OnTheirWay' \subseteq InQueue(queue') \cup ({net} \ {Null})
      /\ handled \in [Clients -> Nat]
  BY <1>2, <1>3, TcpAssumption DEF Typed, Counts, OnTheirWay, InQueue
<1>8. ASSUME NEW f \in OnTheirWay', Plain(f) PROVE handled'[f.to] < f.n
  <2>1. handled[f.to] < f.n /\ f.to \in Clients /\ e.to \in Clients
    BY <1>0, <1>2, <1>8 DEF Order, Events
  <2>2. CASE e.to = f.to /\ Plain(e)
    <3>1. Same(e, f)
      BY <1>8, <2>2 DEF Same
    <3>2. e.n < f.n
      BY <1>0, <1>6, <1>7, <3>1, <1>8
    <3>3. handled'[f.to] = e.n
      BY <1>0, <1>3, <2>1, <2>2 DEF Noted, Plain
    <3> QED
      BY <3>2, <3>3
  <2>3. CASE ~(e.to = f.to /\ Plain(e))
    <3>1. handled'[f.to] = handled[f.to]
      BY <1>0, <1>3, <2>1, <2>3 DEF Noted, Plain, order
    <3> QED
      BY <2>1, <3>1
  <2> QED
    BY <2>2, <2>3
<1>9. disordered' => disordered
  <2>1. CASE Plain(e)
    <3>1. handled[e.to] < e.n /\ e.n \in Nat /\ handled[e.to] \in Nat
      BY <1>0, <1>2, <2>1 DEF Order, Events
    <3>2. ~(e.n < handled[e.to])
      BY <3>1
    <3>3. disordered' = (disordered \/ e.n < handled[e.to])
      BY <1>3, <2>1 DEF Noted, Plain
    <3> QED
      BY <3>2, <3>3, Zenon
  <2>2. CASE ~Plain(e)
    BY <1>3, <2>2 DEF Noted, Plain, order
  <2> QED
    BY <2>1, <2>2
<1>10. Split(m - 1)'
  BY <1>2, <1>3, <1>4 DEF Split
<1>11. net' # Null => \A f \in Waiting' : Same(f, net') => f.n < net'.n
  <2>1. Waiting' \subseteq Waiting
    BY <1>2, <1>3 DEF Waiting
  <2> QED
    BY <1>3, <2>1 DEF Order
<1> QED
  BY <1>3, <1>5, <1>8, <1>9, <1>10, <1>11 DEF Order

\* It puts the event that clears others in front.
LEMMA ClearKeepsOrder ==
  ASSUME Typed, Counts, NEW m, Order(m), HandleFin \/ ClearEvents
  PROVE  Order(m + 1)'
<1>1. /\ queue' = <<Clear(cur)>> \o queue /\ UNCHANGED <<net, hand, first, handled>>
      /\ at \in {"fin", "clear"} /\ at' # "rotate" /\ cur \in Clients /\ queue \in Seq(Events)
      /\ obj[cur] = "live"
  BY DEF HandleFin, ClearEvents, Goto, lwipThread, order, Typed, TypeOK, Counts
<1>2. Clear(cur) \in Events /\ Clear(cur).kind = "clear" /\ Clear(cur).to = cur
  BY <1>1, EventType DEF Clear, Kinds
<1>3. m = Len(queue) /\ hand = Null /\ Len(queue) \in Nat /\ QueueOrdered(queue, Len(queue))
  BY <1>1 DEF Order, Split
<1>4. queue' \in Seq(Events) /\ Len(queue') = m + 1 /\ InQueue(queue') \subseteq InQueue(queue) \cup {Clear(cur)}
  BY <1>1, <1>2, <1>3, Prepended
<1>5. Split(m + 1)'
  BY <1>1, <1>3, <1>4 DEF Split
<1>6. ASSUME NEW f \in InQueue(queue), Same(Clear(cur), f) PROVE FALSE
  <2>1. f \in OnTheirWay /\ Counted(f)
    BY DEF OnTheirWay, Counts
  <2>2. ~Plain(f) /\ f.to = cur
    BY <1>2, <1>6 DEF Same, Plain
  <2> QED
    BY <1>1, <2>1, <2>2 DEF Counted
<1>7. QueueOrdered(queue', m + 1)
  BY <1>1, <1>2, <1>3, <1>6, PrependFirst
<1>8. OnTheirWay' \subseteq OnTheirWay \cup {Clear(cur)} /\ Waiting' \subseteq Waiting \cup {Clear(cur)}
  BY <1>1, <1>4 DEF OnTheirWay, Waiting
<1>9. ~Plain(Clear(cur))
  BY <1>2 DEF Plain
<1>10. \A e \in OnTheirWay' : Plain(e) => handled'[e.to] < e.n
  BY <1>1, <1>8, <1>9 DEF Order
<1>11. net' # Null => \A e \in Waiting' : Same(e, net') => e.n < net'.n
  BY <1>1, <1>8, <1>9 DEF Order, Counts, Same
<1> QED
  BY <1>1, <1>3, <1>5, <1>7, <1>10, <1>11 DEF Order

\* It turns the queue round: it takes a packet, ...
LEMMA TakePacketKeepsOrder ==
  ASSUME Typed, NEW m, Order(m), TakePacket
  PROVE  Order(m - 1)' /\ m \in 1..Len(queue)
<1> DEFINE e == Head(queue)
<1>1. /\ at = "rotate" /\ at' = at /\ queue # <<>> /\ queue \in Seq(Events) /\ hand = Null
      /\ first = Null \/ e # first
      /\ UNCHANGED <<net, handled>> /\ queue' = Tail(queue)
      /\ hand' = (IF Matches(e) THEN Null ELSE e)
      /\ first' = (IF Matches(e) \/ first # Null THEN first ELSE e)
  BY DEF TakePacket, Rotated, Typed, lwipThread, order
<1>2. /\ e \in Events /\ e \in InQueue(queue) /\ InQueue(Tail(queue)) \subseteq InQueue(queue)
      /\ Tail(queue) \in Seq(Events) /\ Len(Tail(queue)) = Len(queue) - 1 /\ Len(queue) \in Nat
      /\ e = queue[1]
  BY <1>1, TakenOff
<1>3. m \in 1..Len(queue) /\ QueueOrdered(queue, m)
  <2>1. Split(m) /\ QueueOrdered(queue, m) /\ m \in 0..Len(queue) /\ Len(queue) # 0
    BY <1>1 DEF Order, Split
  <2>2. CASE first = Null
    BY <1>2, <2>1, <2>2 DEF Split
  <2>3. CASE first # Null
    <3>1. m < Len(queue) /\ queue[m + 1] = first
      BY <1>1, <2>1, <2>3 DEF Split
    <3>2. m # 0
      BY <1>1, <1>2, <2>3, <3>1
    <3> QED
      BY <2>1, <3>2
  <2> QED
    BY <2>2, <2>3
<1>4. QueueOrdered(queue', m - 1) /\ HandPlaced(queue', m - 1, e)
  BY <1>1, <1>3, TailOrdered
<1>5. Split(m - 1)'
  <2>1. m - 1 \in 0..Len(queue') /\ Len(queue') = Len(queue) - 1
    BY <1>1, <1>2, <1>3
  <2>2. CASE first = Null
    <3>1. m - 1 = Len(queue')
      BY <2>1, <2>2 DEF Order, Split
    <3>2. hand' = first' /\ at' = "rotate"
      BY <1>1, <2>2
    <3>3. m - 1 \in 0..Len(queue') /\ ~(m - 1 < Len(queue'))
      BY <2>1, <3>1
    <3> QED
      BY <3>1, <3>2, <3>3 DEF Split
  <2>3. CASE first # Null
    <3>1. m < Len(queue) /\ queue[m + 1] = first
      BY <1>1, <2>3 DEF Order, Split
    <3>2. queue'[m] = queue[m + 1]
      BY <1>1, <1>3, <3>1
    <3>3. m - 1 < Len(queue') /\ (m - 1) + 1 = m /\ first' = first
      BY <1>1, <1>3, <2>1, <2>3, <3>1
    <3> QED
      BY <1>1, <2>1, <2>3, <3>1, <3>2, <3>3 DEF Split
  <2> QED
    BY <2>2, <2>3
<1> HIDE DEF e
<1>6. OnTheirWay' \subseteq OnTheirWay /\ Waiting' \subseteq Waiting
  BY <1>1, <1>2, TcpAssumption DEF OnTheirWay, Waiting
<1>7. hand' # Null => HandPlaced(queue', m - 1, hand')
  BY <1>1, <1>4
<1> QED
  BY <1>1, <1>3, <1>4, <1>5, <1>6, <1>7 DEF Order

\* ... puts it back, ...
LEMMA PutPacketKeepsOrder ==
  ASSUME Typed, NEW m, Order(m), PutPacket
  PROVE  Order(m)'
<1>1. /\ at = "rotate" /\ hand # Null /\ queue' = Append(queue, hand) /\ hand' = Null
      /\ UNCHANGED <<at, first, net, handled>> /\ queue \in Seq(Events) /\ hand \in Events
  BY DEF PutPacket, Typed, lwipThread, order
<1>2. m \in 0..Len(queue) /\ first # Null /\ Len(queue) \in Nat
      /\ Len(queue') = Len(queue) + 1 /\ queue'[Len(queue) + 1] = hand
      /\ \A i \in 1..Len(queue) : queue'[i] = queue[i]
  BY <1>1 DEF Order, Split
<1>3. Split(m)'
  <2>1. m \in 0..Len(queue') /\ m < Len(queue')
    BY <1>2
  <2>2. queue'[m + 1] = first
    <3>1. CASE m < Len(queue)
      BY <1>1, <1>2, <3>1 DEF Order, Split
    <3>2. CASE m = Len(queue)
      BY <1>1, <1>2, <3>2 DEF Order, Split
    <3> QED
      BY <1>2, <3>1, <3>2
  <2> QED
    BY <1>1, <1>2, <2>1, <2>2 DEF Split
<1>4. QueueOrdered(queue', m)
  BY <1>1, <1>2, AppendOrdered DEF Order
<1>5. InQueue(queue') \subseteq InQueue(queue) \cup {hand}
  BY <1>1, Appended
<1>6. OnTheirWay' \subseteq OnTheirWay /\ Waiting' \subseteq Waiting
  BY <1>1, <1>5 DEF OnTheirWay, Waiting
<1> QED
  BY <1>1, <1>3, <1>4, <1>6 DEF Order

\* ... and stops when the first that it put back is in front again: no other
\* packet is like it.
LEMMA EndKeepsOrder ==
  ASSUME Typed, NEW m, Order(m), EndRotation
  PROVE  Order(Len(queue))' /\ (m = 0 \/ first = Null)
<1>1. /\ at = "rotate" /\ at' = "idle" /\ hand = Null /\ UNCHANGED <<queue, net, hand, first, handled>>
      /\ queue \in Seq(Events) /\ (queue = <<>> \/ (first # Null /\ Head(queue) = first))
  BY DEF EndRotation, Rotated, Typed, lwipThread, order
<1>2. m \in 0..Len(queue) /\ QueueOrdered(queue, m) /\ Len(queue) \in Nat
  BY <1>1 DEF Order, Split
<1>3. m = 0 \/ first = Null
  <2> SUFFICES ASSUME m # 0, first # Null PROVE FALSE
    OBVIOUS
  <2>1. queue # <<>> /\ queue[1] = first /\ m < Len(queue) /\ queue[m + 1] = first
    BY <1>1, <1>2 DEF Order, Split
  <2> DEFINE n == queue[1].n
  <2>2. Before(m + 1, 1, m) /\ Same(queue[m + 1], queue[1]) /\ m + 1 \in 1..Len(queue) /\ 1 \in 1..Len(queue)
    BY <1>2, <2>1 DEF Before, Same
  <2>3. queue[m + 1].n < n
    BY <1>2, <2>2 DEF QueueOrdered
  <2>4. n \in Nat /\ queue[m + 1].n = n
    <3>1. queue[1] \in Events /\ queue[m + 1] = queue[1]
      BY <1>1, <2>1, <2>2
    <3> QED
      BY <3>1 DEF Events
  <2> HIDE DEF n
  <2> QED
    BY <2>3, <2>4
<1>4. QueueOrdered(queue, Len(queue))
  BY <1>1, <1>2, <1>3, AllPutBack DEF Order, Split
<1>5. Split(Len(queue))'
  BY <1>1, <1>2 DEF Split
<1>6. OnTheirWay' = OnTheirWay /\ Waiting' = Waiting
  BY <1>1 DEF OnTheirWay, Waiting, InQueue
<1>7. QueueOrdered(queue, Len(queue))'
  BY <1>1, <1>4 DEF QueueOrdered
<1> QED
  BY <1>1, <1>3, <1>5, <1>6, <1>7 DEF Order

\* Whatever else it does.
LEMMA RestKeepsOrder ==
  ASSUME NEW m, Order(m), UNCHANGED <<queue, net, hand, handled>>,
         UNCHANGED <<at, first>> \/ (at # "rotate" /\ at' # "rotate")
  PROVE  Order(m)'
<1>1. OnTheirWay' = OnTheirWay /\ Waiting' = Waiting
  BY DEF OnTheirWay, Waiting, InQueue
<1>2. Split(m)'
  BY DEF Order, Split
<1> QED
  BY <1>1, <1>2 DEF Order, QueueOrdered, HandPlaced

\* Where the split is after a step.
LEMMA StepKeepsOrder ==
  ASSUME Typed, Counts, NEW m \in Nat, Order(m), [Next]_vars, Send => at # "rotate"
  PROVE  (\E k \in Nat : Order(k)') /\ (disordered' => disordered)
<1>0. queue \in Seq(Events) /\ Len(queue) \in Nat /\ m + 1 \in Nat
  BY DEF Typed
<1>1. CASE Take
  <2>1. queue # <<>> /\ Len(queue) # 0 /\ m = Len(queue)
    BY <1>0, <1>1 DEF Take, Order, Split
  <2>2. m - 1 \in Nat
    BY <1>0, <2>1
  <2> QED
    BY <1>1, <2>2, TakeKeepsOrder
<1>2. CASE TakePacket
  <2>1. m - 1 \in Nat /\ disordered' = disordered
    BY <1>2, TakePacketKeepsOrder DEF TakePacket, order
  <2> QED
    BY <1>2, <2>1, TakePacketKeepsOrder
<1>3. CASE Send \/ HandleFin \/ ClearEvents
  <2>1. disordered' = disordered
    BY <1>3 DEF Send, HandleFin, ClearEvents, order
  <2> QED
    BY <1>0, <1>3, <2>1, SendKeepsOrder, ClearKeepsOrder
<1>4. CASE PutPacket
  BY <1>4, PutPacketKeepsOrder DEF PutPacket, order
<1>5. CASE EndRotation
  BY <1>0, <1>5, EndKeepsOrder DEF EndRotation, order
<1>6. ASSUME NEW c \in Clients, NEW p \in Pcbs, Accept(c, p) PROVE Order(m)' /\ disordered' = disordered
  <2>1. UNCHANGED <<queue, hand, at, first, handled, disordered>> /\ Raise("accept", c)
    BY <1>6 DEF Accept, task, order
  <2> QED
    BY <2>1, RaiseKeepsOrder DEF Kinds
<1>7. ASSUME NEW p \in Pcbs, Called(p, "data") \/ Called(p, "poll") \/ Fin(p) \/ Error(p)
      PROVE  Order(m)' /\ disordered' = disordered
  <2>1. UNCHANGED <<queue, hand, at, first, handled, disordered>>
    BY <1>7 DEF Called, Fin, Error, task, order
  <2>2. net' = net \/ (arg[p] # Null /\ \E kind \in {"data", "poll", "fin", "error"} : Raise(kind, arg[p]))
    BY <1>7 DEF Called, Fin, Error
  <2>3. arg[p] # Null => arg[p] \in Clients
    BY DEF Typed, TypeOK
  <2>4. {"data", "poll", "fin", "error"} \subseteq Kinds \ {"clear"}
    BY DEF Kinds
  <2>5. net' = net \/ \E kind \in Kinds \ {"clear"}, c \in Clients : Raise(kind, c)
    BY <2>2, <2>3, <2>4, Zenon
  <2> QED
    BY <2>1, <2>5, RaiseKeepsOrder
<1>8. CASE \/ Return \/ HandleError \/ ReadPcb \/ ReadSlot \/ Call \/ StartClose \/ ClearArg \/ ClearHooks
           \/ Close
  <2>1. UNCHANGED <<queue, net, hand, handled, disordered>> /\ at # "rotate" /\ at' # "rotate"
    BY <1>8 DEF Return, HandleError, ReadPcb, ReadSlot, Call, StartClose, ClearArg, ClearHooks, Close,
                Goto, lwipThread, order
  <2> QED
    BY <2>1, RestKeepsOrder
<1>9. CASE UNCHANGED vars
  BY <1>9, RestKeepsOrder DEF vars, task, order
<1> QED
  BY <1>1, <1>2, <1>3, <1>4, <1>5, <1>6, <1>7, <1>8, <1>9 DEF Next, Lwip, AsyncTask

\* A step that leaves the queue unmixed started with it so.
LEMMA OverlappedStays ==
  ASSUME [Next]_vars, ~overlapped'
  PROVE  ~overlapped /\ (Send => at # "rotate")
<1>1. Send => (overlapped \/ at = "rotate" => overlapped')
  BY DEF Send
<1>2. Lwip => (overlapped => overlapped')
  BY DEF Lwip, Accept, Called, Fin, Error, Send
<1>3. AsyncTask => (overlapped => overlapped')
  <2>1. AsyncTask => UNCHANGED lwipThread
    BY DEF AsyncTask, Take, Return, HandleError, HandleFin, ReadPcb, ReadSlot, Call, StartClose,
           ClearArg, ClearHooks, ClearEvents, Close, TakePacket, PutPacket, EndRotation
  <2> QED
    BY <2>1 DEF lwipThread
<1>4. UNCHANGED vars => (overlapped => overlapped')
  BY DEF vars
<1> QED
  BY <1>1, <1>2, <1>3, <1>4, Zenon DEF Next

\* Events are handled in the order in which they were raised, unless one was
\* sent during a removal (_remove_events_with_arg).
THEOREM OrderAlwaysKept == Spec => []OrderIsKept
<1> DEFINE Inv == ~overlapped => ~disordered /\ \E m \in Nat : Order(m)
<1>1. Init => Inv
  <2> SUFFICES ASSUME Init PROVE Order(0) /\ ~disordered
    OBVIOUS
  <2>1. queue = <<>> /\ Len(queue) = 0 /\ InQueue(queue) = {} /\ OnTheirWay = {} /\ net = Null /\ hand = Null
    BY DEF Init, InQueue, OnTheirWay
  <2> QED
    BY <2>1 DEF Init, Order, Split, QueueOrdered
<1>2. Typed /\ Counts /\ Inv /\ [Next]_vars => Inv'
  <2> SUFFICES ASSUME Typed, Counts, Inv, [Next]_vars, ~overlapped'
               PROVE  ~disordered' /\ \E k \in Nat : Order(k)'
    OBVIOUS
  <2>1. ~overlapped /\ (Send => at # "rotate")
    BY OverlappedStays
  <2>2. PICK m \in Nat : Order(m)
    BY <2>1
  <2>3. ~disordered
    BY <2>1
  <2>4. (\E k \in Nat : Order(k)') /\ (disordered' => disordered)
    BY <2>1, <2>2, StepKeepsOrder
  <2> QED
    BY <2>3, <2>4
<1>3. Inv => OrderIsKept
  BY DEF OrderIsKept
<1> QED
  BY <1>1, <1>2, <1>3, AlwaysTyped, AlwaysCounted, PTL DEF Spec

----------------------------------------------------------------------------
(* Events of deleted objects *)

\* An event of an object comes after the one that clears them, or is among
\* the first k packets.
Covered(q, m, c, k) ==
  \A i \in 1..Len(q) : q[i].to = c /\ Plain(q[i]) =>
    i <= k \/ \E j \in 1..Len(q) : q[j] = Clear(c) /\ Before(j, i, m)

\* One that clears them has been put back.
Behind(q, m, c) == \E j \in 1..Len(q) : j > m /\ q[j] = Clear(c)

LEMMA CoveredTail ==
  ASSUME NEW q \in Seq(Events), q # <<>>, NEW m \in 1..Len(q), NEW c \in Clients, NEW k \in {0, m},
         Covered(q, m, c, k)
  PROVE  /\ Covered(Tail(q), m - 1, c, IF k = m \/ Head(q) = Clear(c) THEN m - 1 ELSE 0)
         /\ Head(q).to = c /\ Plain(Head(q)) => k = m \/ Behind(Tail(q), m - 1, c)
<1>1. /\ Len(q) \in Nat /\ Len(q) >= 1 /\ Len(Tail(q)) = Len(q) - 1 /\ Head(q) = q[1]
      /\ \A i \in 1..Len(q) - 1 : Tail(q)[i] = q[i + 1]
  OBVIOUS
<1> DEFINE l == IF k = m \/ Head(q) = Clear(c) THEN m - 1 ELSE 0
<1>2. ASSUME NEW i \in 1..Len(Tail(q)), Tail(q)[i].to = c, Plain(Tail(q)[i])
      PROVE  i <= l \/ \E j \in 1..Len(Tail(q)) : Tail(q)[j] = Clear(c) /\ Before(j, i, m - 1)
  <2>1. i + 1 \in 1..Len(q) /\ q[i + 1] = Tail(q)[i]
    BY <1>1
  <2>2. CASE i + 1 <= k
    BY <1>1, <2>1, <2>2
  <2>3. ASSUME NEW j \in 1..Len(q), q[j] = Clear(c), Before(j, i + 1, m)
        PROVE  i <= l \/ \E h \in 1..Len(Tail(q)) : Tail(q)[h] = Clear(c) /\ Before(h, i, m - 1)
    <3>1. CASE j = 1
      <4>1. i <= m - 1 /\ Head(q) = Clear(c)
        BY <1>1, <2>1, <2>3, <3>1 DEF Before
      <4> QED
        BY <4>1
    <3>2. CASE j # 1
      <4>1. j - 1 \in 1..Len(Tail(q)) /\ Tail(q)[j - 1] = Clear(c) /\ Before(j - 1, i, m - 1)
        BY <1>1, <2>1, <2>3, <3>2 DEF Before
      <4> QED
        BY <4>1
    <3> QED
      BY <3>1, <3>2
  <2> QED
    BY <1>2, <2>1, <2>2, <2>3 DEF Covered
<1>3. ASSUME Head(q).to = c, Plain(Head(q)) PROVE k = m \/ Behind(Tail(q), m - 1, c)
  <2>1. CASE 1 <= k
    BY <1>1, <2>1
  <2>2. ASSUME NEW j \in 1..Len(q), q[j] = Clear(c), Before(j, 1, m) PROVE Behind(Tail(q), m - 1, c)
    <3>1. j - 1 \in 1..Len(Tail(q)) /\ j - 1 > m - 1 /\ Tail(q)[j - 1] = Clear(c)
      BY <1>1, <2>2 DEF Before
    <3> QED
      BY <3>1 DEF Behind
  <2> QED
    BY <1>1, <1>3, <2>1, <2>2 DEF Covered
<1> QED
  BY <1>2, <1>3 DEF Covered

LEMMA CoveredAppend ==
  ASSUME NEW q \in Seq(Events), NEW m \in 0..Len(q), NEW c \in Clients, NEW k \in {0, m}, NEW h \in Events,
         Covered(q, m, c, IF k = m \/ h = Clear(c) THEN m ELSE 0),
         h.to = c /\ Plain(h) => Behind(q, m, c)
  PROVE  Covered(Append(q, h), m, c, k)
<1> DEFINE r == Append(q, h)
<1>1. /\ Len(q) \in Nat /\ Len(r) = Len(q) + 1 /\ r[Len(q) + 1] = h
      /\ \A i \in 1..Len(q) : r[i] = q[i]
  OBVIOUS
<1> HIDE DEF r
<1>2. ASSUME NEW i \in 1..Len(r), r[i].to = c, Plain(r[i])
      PROVE  i <= k \/ \E j \in 1..Len(r) : r[j] = Clear(c) /\ Before(j, i, m)
  <2>1. CASE i = Len(q) + 1
    <3>1. PICK j \in 1..Len(q) : j > m /\ q[j] = Clear(c)
      BY <1>1, <1>2, <2>1 DEF Behind
    <3>2. j \in 1..Len(r) /\ r[j] = Clear(c) /\ Before(j, i, m)
      BY <1>1, <2>1, <3>1 DEF Before
    <3> QED
      BY <3>2
  <2>2. ASSUME NEW j \in 1..Len(q), q[j] = Clear(c), Before(j, i, m), i \in 1..Len(q)
        PROVE  \E g \in 1..Len(r) : r[g] = Clear(c) /\ Before(g, i, m)
    <3>1. j \in 1..Len(r) /\ r[j] = Clear(c)
      BY <1>1, <2>2
    <3> QED
      BY <2>2, <3>1
  <2>3. CASE i \in 1..Len(q) /\ i <= m /\ k # m /\ h = Clear(c)
    <3>1. Len(q) + 1 \in 1..Len(r) /\ r[Len(q) + 1] = Clear(c) /\ Before(Len(q) + 1, i, m)
      BY <1>1, <2>3 DEF Before
    <3> QED
      BY <3>1
  <2>4. CASE i \in 1..Len(q)
    <3>1. q[i].to = c /\ Plain(q[i])
      BY <1>1, <1>2, <2>4
    <3>2. \/ i <= (IF k = m \/ h = Clear(c) THEN m ELSE 0)
          \/ \E j \in 1..Len(q) : q[j] = Clear(c) /\ Before(j, i, m)
      BY <2>4, <3>1 DEF Covered
    <3> QED
      BY <2>2, <2>3, <2>4, <3>2
  <2> QED
    BY <1>1, <2>1, <2>4
<1> QED
  BY <1>2 DEF Covered, r

LEMMA CoveredLast ==
  ASSUME NEW q \in Seq(Events), NEW c \in Clients, Covered(q, Len(q), c, 0), NEW e \in Events, e.to # c
  PROVE  Covered(Append(q, e), Len(q) + 1, c, 0)
<1> DEFINE r == Append(q, e)
<1>1. /\ Len(q) \in Nat /\ Len(r) = Len(q) + 1 /\ r[Len(q) + 1] = e
      /\ \A i \in 1..Len(q) : r[i] = q[i]
  OBVIOUS
<1> HIDE DEF r
<1>2. ASSUME NEW i \in 1..Len(r), r[i].to = c, Plain(r[i])
      PROVE  \E j \in 1..Len(r) : r[j] = Clear(c) /\ Before(j, i, Len(q) + 1)
  <2>1. i \in 1..Len(q) /\ q[i] = r[i] /\ ~(i <= 0)
    BY <1>1, <1>2
  <2>2. PICK j \in 1..Len(q) : q[j] = Clear(c) /\ Before(j, i, Len(q))
    BY <1>2, <2>1 DEF Covered
  <2>3. j \in 1..Len(r) /\ r[j] = Clear(c) /\ Before(j, i, Len(q) + 1)
    BY <1>1, <2>1, <2>2 DEF Before
  <2> QED
    BY <2>3
<1> QED
  BY <1>2 DEF Covered, r

LEMMA CoveredFirst ==
  ASSUME NEW q \in Seq(Events), NEW c \in Clients, NEW e \in Events,
         e = Clear(c) \/ (Covered(q, Len(q), c, 0) /\ ~(e.to = c /\ Plain(e)))
  PROVE  Covered(<<e>> \o q, Len(q) + 1, c, 0)
<1> DEFINE r == <<e>> \o q
<1>1. /\ Len(q) \in Nat /\ Len(r) = Len(q) + 1 /\ r[1] = e
      /\ \A i \in 1..Len(q) : r[i + 1] = q[i]
      /\ \A i \in 2..Len(r) : r[i] = q[i - 1]
  OBVIOUS
<1> HIDE DEF r
<1>2. ASSUME NEW i \in 1..Len(r), r[i].to = c, Plain(r[i])
      PROVE  \E j \in 1..Len(r) : r[j] = Clear(c) /\ Before(j, i, Len(q) + 1)
  <2>1. Clear(c).kind = "clear"
    BY DEF Clear, Event
  <2>2. i \in 2..Len(r)
    BY <1>1, <1>2, <2>1 DEF Plain
  <2>3. CASE e = Clear(c)
    <3>1. 1 \in 1..Len(r) /\ r[1] = Clear(c) /\ Before(1, i, Len(q) + 1)
      BY <1>1, <2>2, <2>3 DEF Before
    <3> QED
      BY <3>1
  <2>4. CASE Covered(q, Len(q), c, 0)
    <3>1. i - 1 \in 1..Len(q) /\ q[i - 1] = r[i] /\ ~(i - 1 <= 0)
      BY <1>1, <2>2
    <3>2. PICK j \in 1..Len(q) : q[j] = Clear(c) /\ Before(j, i - 1, Len(q))
      BY <1>2, <2>4, <3>1 DEF Covered
    <3>3. j + 1 \in 1..Len(r) /\ r[j + 1] = Clear(c) /\ Before(j + 1, i, Len(q) + 1)
      BY <1>1, <3>1, <3>2 DEF Before
    <3> QED
      BY <3>3
  <2> QED
    BY <2>3, <2>4
<1> QED
  BY <1>2 DEF Covered, r

LEMMA CoveredAll ==
  ASSUME NEW q \in Seq(Events), NEW c \in Clients, q = <<>> \/ Covered(q, 0, c, 0)
  PROVE  Covered(q, Len(q), c, 0)
<1>1. CASE q = <<>>
  BY <1>1 DEF Covered
<1>2. CASE Covered(q, 0, c, 0)
  <2>1. \A i, j \in 1..Len(q) : Before(j, i, 0) => Before(j, i, Len(q))
    BY DEF Before
  <2> QED
    BY <1>2, <2>1 DEF Covered
<1> QED
  BY <1>1, <1>2

\* No more events come for an object that is gone, and those that are there
\* will be removed before they are handled.
Gone(c) == obj[c] = "deleted" \/ (at = "close" /\ cur = c)

Passing(c) == (at = "rotate" /\ cur = c) \/ (hand # Null /\ hand = Clear(c))

Tombed(c, m) ==
  /\ net # Null => net.to # c
  /\ Covered(queue, m, c, IF Passing(c) THEN m ELSE 0)
  /\ hand # Null /\ hand.to = c /\ Plain(hand) => Behind(queue, m, c)

Tombs(m) == \A c \in Clients : Gone(c) => Tombed(c, m)

\* While an object closes, lwIP has nothing to say about it.
Quiet ==
  /\ at = "unhook" => pcb[cur] # Null
  /\ at \in {"unhook_rest", "clear", "close"} =>
       (net # Null => net.to # cur) /\ \A p \in Pcbs : of[p] = cur => arg[p] = Null

\* The lwIP thread raises an event for an object that is there.
LEMMA RaiseKeepsTombs ==
  ASSUME NEW m, Tombs(m), UNCHANGED <<queue, hand, at, cur>>,
         \A c \in Clients : Gone(c)' => Gone(c) /\ (net' = net \/ net'.to # c)
  PROVE  Tombs(m)'
<1> SUFFICES ASSUME NEW c \in Clients, Gone(c)' PROVE Tombed(c, m)'
  BY DEF Tombs
<1>1. Tombed(c, m) /\ (net' = net \/ net'.to # c)
  BY DEF Tombs
<1> QED
  BY <1>1 DEF Tombed, Covered, Passing, Behind

LEMMA SendKeepsTombs ==
  ASSUME Typed, NEW m, Order(m), Tombs(m), Send, at # "rotate"
  PROVE  Tombs(m + 1)'
<1> SUFFICES ASSUME NEW c \in Clients, Gone(c)' PROVE Tombed(c, m + 1)'
  BY DEF Tombs
<1>1. /\ queue \in Seq(Events) /\ net \in Events /\ net' = Null /\ UNCHANGED <<obj, hand, at, cur>>
      /\ queue' = (IF net.kind = "accept" THEN <<net>> \o queue ELSE Append(queue, net))
  BY DEF Send, Typed, objects, task
<1>2. m = Len(queue) /\ hand = Null
  BY DEF Order, Split
<1>3. net.to # c /\ Covered(queue, Len(queue), c, 0)
  BY <1>1, <1>2 DEF Tombs, Tombed, Gone, Passing, Send
<1>4. Covered(queue', m + 1, c, 0)
  BY <1>1, <1>2, <1>3, CoveredLast, CoveredFirst
<1>5. ~Passing(c)'
  BY <1>1, <1>2 DEF Passing
<1> QED
  BY <1>1, <1>2, <1>4, <1>5 DEF Tombed

\* async_tcp takes an event: none of a deleted object.
LEMMA TakeKeepsTombs ==
  ASSUME Typed, Counts, NEW m, Order(m), Tombs(m), Take
  PROVE  Tombs(m - 1)' /\ (stray' => stray)
<1> DEFINE e == Head(queue)
<1>1. queue # <<>> /\ queue \in Seq(Events) /\ at = "idle"
  BY DEF Take, Typed
<1>2. e \in Events /\ Tail(queue) \in Seq(Events)
  BY <1>1, TakenOff
<1>3. /\ queue' = Tail(queue) /\ Noted(e) /\ hand' = Null /\ UNCHANGED <<net, obj>> /\ at' = Entry(e)
      /\ cur' = (IF Entry(e) = "idle" THEN Null ELSE e.to)
  BY DEF Take, lwipThread, objects
<1>4. m = Len(queue) /\ m \in 1..Len(queue) /\ hand = Null
  BY <1>1 DEF Order, Split
<1>5. ASSUME NEW c \in Clients, obj[c] = "deleted"
      PROVE  /\ Covered(queue', m - 1, c, IF e = Clear(c) THEN m - 1 ELSE 0)
             /\ ~(e.to = c /\ Plain(e)) /\ (net # Null => net.to # c)
  <2>1. Covered(queue, m, c, 0) /\ (net # Null => net.to # c)
    BY <1>1, <1>4, <1>5 DEF Tombs, Tombed, Gone, Passing
  <2>2. m # 0
    BY <1>4
  <2>3. /\ Covered(queue', m - 1, c, IF 0 = m \/ e = Clear(c) THEN m - 1 ELSE 0)
        /\ e.to = c /\ Plain(e) => 0 = m \/ Behind(queue', m - 1, c)
    BY <1>1, <1>3, <1>4, <2>1, CoveredTail
  <2>4. ~Behind(queue', m - 1, c)
    BY <1>1, <1>3, <1>4 DEF Behind
  <2> QED
    BY <2>1, <2>2, <2>3, <2>4
<1> HIDE DEF e
<1>6. ASSUME NEW c \in Clients, Gone(c)' PROVE Tombed(c, m - 1)'
  <2>1. obj[c] = "deleted"
    BY <1>2, <1>3, <1>6, EntryType DEF Gone
  <2>2. e = Clear(c) => Passing(c)'
    <3>1. e = Clear(c) => e.kind = "clear" /\ e.to = c
      BY DEF Clear, Event
    <3>2. e.kind = "clear" => at' = "rotate"
      BY <1>2, <1>3, EntryType
    <3> QED
      BY <1>3, <3>1, <3>2 DEF Passing
  <2>3. Covered(queue', m - 1, c, IF Passing(c)' THEN m - 1 ELSE 0)
    BY <1>4, <1>5, <2>1, <2>2 DEF Covered
  <2> QED
    BY <1>3, <1>5, <2>1, <2>3 DEF Tombed
<1>7. stray' => stray
  <2>1. e.to \in Clients
    BY <1>2 DEF Events
  <2>2. Plain(e) => obj[e.to] # "deleted"
    BY <1>5, <2>1
  <2>3. CASE Plain(e)
    <3>1. stray' = (stray \/ obj[e.to] = "deleted")
      BY <1>3, <2>3 DEF Noted, Plain
    <3> QED
      BY <2>2, <2>3, <3>1
  <2>4. CASE ~Plain(e)
    BY <1>3, <2>4 DEF Noted, Plain, order
  <2> QED
    BY <2>3, <2>4
<1> QED
  BY <1>6, <1>7 DEF Tombs

\* After a FIN or an error nothing of the object is on its way.
LEMMA NothingAfterTheLast ==
  ASSUME Typed, Counts, NEW m, Order(m), at \in {"fin", "error"}, NEW e \in OnTheirWay, e.to = cur
  PROVE  ~Plain(e)
<1> SUFFICES ASSUME Plain(e) PROVE FALSE
  OBVIOUS
<1>1. e \in Events /\ cur \in Clients
  BY DEF Typed, TypeOK, OnTheirWay, InQueue
<1>2. handled[cur] < e.n /\ e.n <= raised[cur] /\ handled[cur] = raised[cur]
  BY DEF Order, Counts, Counted
<1>3. handled[cur] \in Nat /\ e.n \in Nat
  BY <1>1 DEF Counts, Events
<1> QED
  BY <1>2, <1>3

\* async_tcp deletes an object, or puts the event in front that clears the
\* others.
LEMMA DestroyKeepsTombs ==
  ASSUME Typed, Counts, NEW m, Order(m), Tombs(m), HandleError \/ Close
  PROVE  Tombs(m)'
<1>1. /\ at \in {"error", "close"} /\ at' = "idle" /\ cur \in Clients /\ UNCHANGED <<queue, net, hand>>
      /\ \A c \in Clients \ {cur} : obj'[c] = obj[c]
  BY Destroyed DEF HandleError, Close, lwipThread, Typed, TypeOK
<1>2. m = Len(queue) /\ hand = Null
  BY <1>1 DEF Order, Split
<1> SUFFICES ASSUME NEW c \in Clients, Gone(c)' PROVE Tombed(c, m)'
  BY DEF Tombs
<1>3. ~Passing(c) /\ ~Passing(c)'
  BY <1>1, <1>2 DEF Passing
<1>4. CASE Gone(c)
  <2>1. Tombed(c, m)
    BY <1>4 DEF Tombs
  <2> QED
    BY <1>1, <1>3, <2>1 DEF Tombed, Covered, Behind
<1>5. CASE ~Gone(c)
  <2>1. c = cur /\ at = "error"
    BY <1>1, <1>5 DEF Gone
  <2>2. net # Null => net.to # c
    BY <2>1, NothingAfterTheLast DEF Counts, OnTheirWay
  <2>3. Covered(queue, m, c, 0)
    <3>1. \A i \in 1..Len(queue) : queue[i] \in OnTheirWay
      BY DEF OnTheirWay, InQueue
    <3> QED
      BY <2>1, <3>1, NothingAfterTheLast DEF Covered
  <2> QED
    BY <1>1, <1>2, <1>3, <2>2, <2>3 DEF Tombed
<1> QED
  BY <1>4, <1>5

LEMMA ClearKeepsTombs ==
  ASSUME Typed, Counts, Quiet, NEW m, Order(m), Tombs(m), HandleFin \/ ClearEvents
  PROVE  Tombs(m + 1)'
<1>1. /\ at \in {"fin", "clear"} /\ at' \in {"idle", "close"} /\ cur \in Clients
      /\ queue' = <<Clear(cur)>> \o queue /\ UNCHANGED <<net, hand>> /\ queue \in Seq(Events)
      /\ at' = "close" => cur' = cur /\ obj' = obj
  BY DEF HandleFin, ClearEvents, Goto, lwipThread, objects, Typed, TypeOK
<1>2. m = Len(queue) /\ hand = Null
  BY <1>1 DEF Order, Split
<1>3. \A c \in Clients \ {cur} : obj'[c] = obj[c]
  BY <1>1, Destroyed DEF HandleFin, ClearEvents, objects
<1>4. Clear(cur) \in Events /\ ~Plain(Clear(cur))
  BY <1>1, EventType DEF Clear, Kinds, Plain
<1> SUFFICES ASSUME NEW c \in Clients, Gone(c)' PROVE Tombed(c, m + 1)'
  BY DEF Tombs
<1>5. ~Passing(c) /\ ~Passing(c)'
  BY <1>1, <1>2 DEF Passing
<1>6. net # Null => net.to # c
  <2>1. CASE c = cur /\ at = "fin"
    BY <2>1, NothingAfterTheLast DEF Counts, OnTheirWay
  <2>2. CASE c = cur /\ at = "clear"
    BY <2>2 DEF Quiet
  <2>3. CASE c # cur
    <3>1. Gone(c)
      BY <1>1, <1>3, <2>3 DEF Gone
    <3> QED
      BY <3>1 DEF Tombs, Tombed
  <2> QED
    BY <1>1, <2>1, <2>2, <2>3
<1>7. Covered(queue', m + 1, c, 0)
  <2>1. CASE c = cur
    BY <1>1, <1>2, <1>4, <2>1, CoveredFirst
  <2>2. CASE c # cur
    <3>1. Gone(c)
      BY <1>1, <1>3, <2>2 DEF Gone
    <3>2. Covered(queue, Len(queue), c, 0)
      BY <1>2, <1>5, <3>1 DEF Tombs, Tombed
    <3> QED
      BY <1>1, <1>2, <1>4, <3>2, CoveredFirst
  <2> QED
    BY <2>1, <2>2
<1> QED
  BY <1>1, <1>2, <1>5, <1>6, <1>7 DEF Tombed

\* It turns the queue round: the packets of the object that it meets are
\* removed, but for the accepted, which a deleted object has behind it.
LEMMA TakePacketKeepsTombs ==
  ASSUME Typed, Counts, NEW m, Order(m), Tombs(m), TakePacket
  PROVE  Tombs(m - 1)'
<1> DEFINE e == Head(queue)
<1>1. /\ at = "rotate" /\ UNCHANGED <<at, cur, net, obj>> /\ queue # <<>> /\ queue \in Seq(Events)
      /\ hand = Null /\ queue' = Tail(queue) /\ hand' = (IF Matches(e) THEN Null ELSE e)
  BY DEF TakePacket, Rotated, Typed, objects, lwipThread
<1>2. e \in Events /\ e \in InQueue(queue) /\ e # Null
  BY <1>1, TakenOff, NullIsNoEvent
<1>3. m \in 1..Len(queue)
  BY TakePacketKeepsOrder
<1> SUFFICES ASSUME NEW c \in Clients, Gone(c)' PROVE Tombed(c, m - 1)'
  BY DEF Tombs
<1> DEFINE k == IF Passing(c) THEN m ELSE 0
<1>4. Gone(c) /\ Tombed(c, m) /\ obj[c] = "deleted"
  BY <1>1 DEF Tombs, Gone
<1>5. /\ Covered(queue', m - 1, c, IF k = m \/ e = Clear(c) THEN m - 1 ELSE 0)
      /\ e.to = c /\ Plain(e) => k = m \/ Behind(queue', m - 1, c)
  <2>1. k \in {0, m} /\ Covered(queue, m, c, k)
    BY <1>4 DEF Tombed
  <2> HIDE DEF k
  <2> QED
    BY <1>1, <1>3, <2>1, CoveredTail
<1> HIDE DEF e
<1>6. m # 0 /\ (k = m <=> Passing(c)) /\ (Passing(c) <=> cur = c)
  BY <1>1, <1>3 DEF Passing
<1>7. k = m \/ e = Clear(c) => Passing(c)'
  <2>1. CASE cur = c
    BY <1>1, <2>1 DEF Passing
  <2>2. CASE cur # c /\ e = Clear(c)
    <3>1. e.to = c
      BY <2>2 DEF Clear, Event
    <3>2. hand' = Clear(c) /\ hand' # Null
      BY <1>1, <1>2, <2>2, <3>1 DEF Matches
    <3> QED
      BY <3>2 DEF Passing
  <2> QED
    BY <1>6, <2>1, <2>2
<1>8. Covered(queue', m - 1, c, IF Passing(c)' THEN m - 1 ELSE 0)
  BY <1>3, <1>5, <1>7 DEF Covered
<1>9. hand' # Null /\ hand'.to = c /\ Plain(hand') => Behind(queue', m - 1, c)
  <2> SUFFICES ASSUME hand' # Null, e.to = c, Plain(e) PROVE Behind(queue', m - 1, c)
    BY <1>1
  <2>1. cur # c
    <3> SUFFICES ASSUME cur = c PROVE FALSE
      OBVIOUS
    <3>1. e.kind = "accept" /\ e \in OnTheirWay
      BY <1>1, <1>2 DEF Matches, OnTheirWay
    <3>2. handled[c] < e.n /\ e.n = 1 /\ handled[c] >= 1 /\ handled[c] \in Nat
      BY <1>4, <3>1 DEF Order, Counts, Counted
    <3> QED
      BY <3>2
  <2> QED
    BY <1>5, <1>6, <2>1
<1>10. net' # Null => net'.to # c
  BY <1>1, <1>4 DEF Tombed
<1> QED
  BY <1>8, <1>9, <1>10 DEF Tombed

LEMMA PutPacketKeepsTombs ==
  ASSUME Typed, NEW m, Order(m), Tombs(m), PutPacket
  PROVE  Tombs(m)'
<1>1. /\ at = "rotate" /\ hand # Null /\ queue' = Append(queue, hand) /\ hand' = Null
      /\ UNCHANGED <<at, cur, net, obj>> /\ queue \in Seq(Events) /\ hand \in Events
  BY DEF PutPacket, Typed, objects, lwipThread
<1>2. m \in 0..Len(queue)
  BY DEF Order, Split
<1> SUFFICES ASSUME NEW c \in Clients, Gone(c)' PROVE Tombed(c, m)'
  BY DEF Tombs
<1>3. Tombed(c, m)
  BY <1>1 DEF Tombs, Gone
<1> DEFINE k == IF cur = c THEN m ELSE 0
<1>4. k \in {0, m} /\ (IF k = m \/ hand = Clear(c) THEN m ELSE 0) = (IF Passing(c) THEN m ELSE 0)
  BY <1>1, <1>2 DEF Passing
<1> HIDE DEF k
<1>5. Covered(queue', m, c, k)
  BY <1>1, <1>2, <1>3, <1>4, CoveredAppend DEF Tombed
<1>6. Passing(c)' <=> cur = c
  BY <1>1 DEF Passing
<1>7. Covered(queue', m, c, IF Passing(c)' THEN m ELSE 0)
  BY <1>5, <1>6 DEF k
<1> QED
  BY <1>1, <1>3, <1>7 DEF Tombed

LEMMA EndKeepsTombs ==
  ASSUME Typed, NEW m, Order(m), Tombs(m), EndRotation
  PROVE  Tombs(Len(queue))'
<1>1. /\ at = "rotate" /\ at' = "idle" /\ hand = Null /\ UNCHANGED <<queue, net, hand, obj>>
      /\ queue \in Seq(Events) /\ (queue = <<>> \/ first # Null)
  BY DEF EndRotation, Rotated, Typed, lwipThread, objects
<1>2. queue = <<>> \/ m = 0
  BY <1>1, EndKeepsOrder
<1> SUFFICES ASSUME NEW c \in Clients, Gone(c)' PROVE Tombed(c, Len(queue))'
  BY DEF Tombs
<1>3. Tombed(c, m)
  BY <1>1 DEF Tombs, Gone
<1>4. Covered(queue, Len(queue), c, 0)
  BY <1>1, <1>2, <1>3, CoveredAll DEF Tombed
<1>5. ~Passing(c)'
  BY <1>1 DEF Passing
<1>6. Covered(queue', Len(queue'), c, 0)
  BY <1>1, <1>4
<1> QED
  BY <1>1, <1>3, <1>5, <1>6 DEF Tombed

\* Whatever else it does.
LEMMA RestKeepsTombs ==
  ASSUME NEW m, Tombs(m), Order(m), UNCHANGED <<queue, net, hand, obj>>,
         UNCHANGED <<at, cur>> \/ (at # "rotate" /\ at' \notin {"rotate", "close"})
  PROVE  Tombs(m)'
<1> SUFFICES ASSUME NEW c \in Clients, Gone(c)' PROVE Tombed(c, m)'
  BY DEF Tombs
<1>1. Gone(c) /\ Tombed(c, m)
  BY DEF Gone, Tombs
<1>2. Passing(c)' <=> Passing(c)
  BY DEF Passing
<1> QED
  BY <1>1, <1>2 DEF Tombed, Covered, Behind

\* A connection that closes is not heard of again, unless a FIN came first.
LEMMA StaysQuiet ==
  ASSUME Typed, Ownership, Owned, Quiet, [Next]_vars, ~met'
  PROVE  Quiet'
<1>0. /\ of \in [Pcbs -> Clients \cup {Null}] /\ arg \in [Pcbs -> Clients \cup {Null}]
      /\ pcb \in [Clients -> Pcbs \cup {Null}] /\ (at # "idle" => cur \in Clients /\ obj[cur] # "fresh")
  BY TcpAssumption DEF Typed, TypeOK, Ownership
<1>1. ASSUME NEW c \in Clients, NEW p \in Pcbs, Accept(c, p) PROVE Quiet'
  <2>1. /\ obj[c] = "fresh" /\ of' = [of EXCEPT ![p] = c] /\ arg' = [arg EXCEPT ![p] = c]
        /\ pcb' = [pcb EXCEPT ![c] = p] /\ Raise("accept", c) /\ UNCHANGED <<at, cur>>
    BY <1>1 DEF Accept, task
  <2>2. net'.to = c
    BY <2>1, RaisedType DEF Kinds
  <2> QED
    BY <1>0, <2>1, <2>2 DEF Quiet
<1>2. ASSUME NEW p \in Pcbs, Called(p, "data") \/ Called(p, "poll") \/ Fin(p) \/ Error(p) PROVE Quiet'
  <2>1. of[p] # Null /\ UNCHANGED <<at, cur>>
    BY <1>2 DEF Called, Fin, Error, task
  <2>2. \A q \in Pcbs : of'[q] \in {of[q], Null} /\ arg'[q] \in {arg[q], Null}
    BY <1>0, <1>2 DEF Called, Fin, Error, lwip
  <2>3. ASSUME net' # net PROVE net'.to = of[p] /\ arg[p] = of[p]
    <3>1. arg[p] # Null /\ \E kind \in {"data", "poll", "fin", "error"} : Raise(kind, arg[p])
      BY <1>2, <2>3 DEF Called, Fin, Error
    <3>2. arg[p] = of[p] /\ arg[p] \in Clients
      BY <1>0, <2>1, <3>1 DEF Ownership
    <3> QED
      BY <3>1, <3>2, RaisedType DEF Kinds
  <2>4. at = "unhook" => pcb'[cur] = pcb[cur]
    <3>1. CASE pcb' = pcb
      BY <3>1
    <3>2. CASE Fin(p) /\ arg[p] # Null /\ pcb' # pcb
      <4>1. pcb' = [pcb EXCEPT ![arg[p]] = Null] /\ met' = (met \/ (cur = arg[p] /\ at = "unhook"))
        BY <3>2 DEF Fin, objects
      <4> QED
        BY <1>0, <4>1
    <3> QED
      BY <1>2, <3>1, <3>2 DEF Called, Fin, Error, objects
  <2>5. at \in {"unhook_rest", "clear", "close"} => (net' # Null => net'.to # cur)
    <3>1. CASE net' = net
      BY <3>1 DEF Quiet
    <3>2. CASE net' # net
      BY <1>0, <2>1, <2>3, <3>2 DEF Quiet
    <3> QED
      BY <3>1, <3>2
  <2>6. at \in {"unhook_rest", "clear", "close"} => \A q \in Pcbs : of'[q] = cur => arg'[q] = Null
    BY <1>0, <2>2, TcpAssumption DEF Quiet
  <2> QED
    BY <2>1, <2>4, <2>5, <2>6 DEF Quiet
<1>3. CASE Send
  BY <1>3 DEF Send, Quiet, lwip, objects, task
<1>4. CASE StartClose
  BY <1>4 DEF StartClose, Goto, Quiet, objects
<1>5. CASE ClearArg
  <2>1. pcb[cur] # Null /\ net = Null /\ arg' = [arg EXCEPT ![pcb[cur]] = Null]
    BY <1>5 DEF ClearArg, Quiet, Lockable
  <2>2. at' = "unhook_rest" /\ UNCHANGED <<cur, of, pcb, net>> /\ cur \in Clients /\ cur # Null
    BY <1>0, <1>5, TcpAssumption DEF ClearArg, Goto, objects, lwipThread
  <2>3. net' = Null
    BY <2>1, <2>2
  <2>4. \A p \in Pcbs : of[p] = cur => arg'[p] = Null
    BY <1>0, <2>1, <2>2 DEF Owned
  <2> QED
    BY <2>2, <2>3, <2>4 DEF Quiet
<1>6. CASE ClearHooks \/ ClearEvents
  <2>1. /\ at \in {"unhook_rest", "clear"} /\ at' \in {"clear", "close"} /\ UNCHANGED <<cur, of, arg, net>>
    BY <1>6 DEF ClearHooks, ClearEvents, Goto, lwip, lwipThread
  <2> QED
    BY <2>1 DEF Quiet
<1>7. CASE Take
  <2>1. queue # <<>> /\ at' = Entry(Head(queue))
    BY <1>7 DEF Take
  <2>2. at' \in {"idle", "handler", "fin", "error", "rotate"}
    BY <2>1, TakenOff, EntryType DEF Typed
  <2> QED
    BY <2>2 DEF Quiet
<1>8. CASE \/ Return \/ HandleError \/ HandleFin \/ ReadPcb \/ ReadSlot \/ Call \/ Close
           \/ TakePacket \/ PutPacket \/ EndRotation
  <2>1. at' \in {"idle", "handler", "reading", "calling", "rotate"}
    BY <1>8 DEF Return, HandleError, HandleFin, ReadPcb, ReadSlot, Call, Close, TakePacket, PutPacket,
                EndRotation, Goto
  <2> QED
    BY <2>1 DEF Quiet
<1>9. CASE UNCHANGED vars
  BY <1>9 DEF vars, lwip, objects, task, Quiet
<1> QED
  BY <1>1, <1>2, <1>3, <1>4, <1>5, <1>6, <1>7, <1>8, <1>9 DEF Next, Lwip, AsyncTask

\* Where the split is after a step, and what async_tcp has handled then.
LEMMA StepKeepsTombs ==
  ASSUME Typed, Ownership, Owned, Counts, Quiet, NEW m \in Nat, Order(m), Tombs(m), [Next]_vars,
         Send => at # "rotate"
  PROVE  (\E k \in Nat : Order(k)' /\ Tombs(k)') /\ (stray' => stray)
<1>0. queue \in Seq(Events) /\ Len(queue) \in Nat /\ m + 1 \in Nat
  BY DEF Typed
<1>1. CASE Take
  <2>1. queue # <<>> /\ Len(queue) # 0 /\ m = Len(queue)
    BY <1>0, <1>1 DEF Take, Order, Split
  <2>2. m - 1 \in Nat
    BY <1>0, <2>1
  <2> QED
    BY <1>1, <2>2, TakeKeepsOrder, TakeKeepsTombs
<1>2. CASE TakePacket
  <2>1. m - 1 \in Nat /\ stray' = stray
    BY <1>2, TakePacketKeepsOrder DEF TakePacket, order
  <2> QED
    BY <1>2, <2>1, TakePacketKeepsOrder, TakePacketKeepsTombs
<1>3. CASE Send
  <2>1. stray' = stray
    BY <1>3 DEF Send, order
  <2> QED
    BY <1>0, <1>3, <2>1, SendKeepsOrder, SendKeepsTombs
<1>4. CASE HandleFin \/ ClearEvents
  <2>1. stray' = stray
    BY <1>4 DEF HandleFin, ClearEvents, order
  <2> QED
    BY <1>0, <1>4, <2>1, ClearKeepsOrder, ClearKeepsTombs
<1>5. CASE PutPacket
  BY <1>5, PutPacketKeepsOrder, PutPacketKeepsTombs DEF PutPacket, order
<1>6. CASE EndRotation
  BY <1>0, <1>6, EndKeepsOrder, EndKeepsTombs DEF EndRotation, order
<1>7. ASSUME NEW c \in Clients, NEW p \in Pcbs, Accept(c, p)
      PROVE  Order(m)' /\ Tombs(m)' /\ stray' = stray
  <2>1. /\ UNCHANGED <<queue, hand, at, cur, first, handled, stray>> /\ Raise("accept", c)
        /\ obj[c] = "fresh" /\ obj' = [obj EXCEPT ![c] = "live"]
    BY <1>7 DEF Accept, task, order
  <2>2. Order(m)'
    BY <2>1, RaiseKeepsOrder DEF Kinds
  <2>3. net'.to = c
    BY <2>1, RaisedType DEF Kinds
  <2>4. at = "close" => cur # c
    BY <2>1, TcpAssumption DEF Ownership, Typed, TypeOK
  <2>5. ASSUME NEW d \in Clients, Gone(d)' PROVE Gone(d) /\ net'.to # d
    <3>1. obj \in [Clients -> {"fresh", "live", "deleted"}]
      BY DEF Typed, TypeOK
    <3> QED
      BY <2>1, <2>3, <2>4, <2>5, <3>1 DEF Gone
  <2>6. Tombs(m)'
    BY <2>1, <2>5, RaiseKeepsTombs
  <2> QED
    BY <2>1, <2>2, <2>6
<1>8. ASSUME NEW p \in Pcbs, Called(p, "data") \/ Called(p, "poll") \/ Fin(p) \/ Error(p)
      PROVE  Order(m)' /\ Tombs(m)' /\ stray' = stray
  <2>1. UNCHANGED <<queue, hand, at, cur, first, handled, stray, obj>> /\ of[p] # Null
    BY <1>8 DEF Called, Fin, Error, task, order, objects
  <2>2. net' = net \/ (arg[p] # Null /\ \E kind \in {"data", "poll", "fin", "error"} : Raise(kind, arg[p]))
    BY <1>8 DEF Called, Fin, Error
  <2>3. arg[p] # Null => arg[p] \in Clients /\ arg[p] = of[p]
    BY <2>1 DEF Typed, TypeOK, Ownership
  <2>4. {"data", "poll", "fin", "error"} \subseteq Kinds \ {"clear"}
    BY DEF Kinds
  <2>5. net' = net \/ \E kind \in Kinds \ {"clear"}, c \in Clients : Raise(kind, c)
    BY <2>2, <2>3, <2>4, Zenon
  <2>6. Order(m)'
    BY <2>1, <2>5, RaiseKeepsOrder
  <2>7. ASSUME NEW d \in Clients, Gone(d)' PROVE Gone(d) /\ (net' = net \/ net'.to # d)
    <3>1. Gone(d)
      BY <2>1, <2>7 DEF Gone
    <3>2. CASE arg[p] # Null /\ \E kind \in {"data", "poll", "fin", "error"} : Raise(kind, arg[p])
      <4>1. net'.to = of[p] /\ arg[p] = of[p] /\ obj[of[p]] = "live"
        BY <2>1, <2>3, <2>4, <3>2, RaisedType DEF Owned
      <4>2. at = "close" => cur # of[p]
        BY <2>1, <3>2, <4>1 DEF Quiet
      <4> QED
        BY <3>1, <4>1, <4>2 DEF Gone
    <3> QED
      BY <2>2, <3>1, <3>2
  <2>8. Tombs(m)'
    BY <2>1, <2>7, RaiseKeepsTombs
  <2> QED
    BY <2>1, <2>6, <2>8
<1>9. CASE HandleError \/ Close
  <2>1. UNCHANGED <<queue, net, hand, handled, stray>> /\ at # "rotate" /\ at' # "rotate"
    BY <1>9 DEF HandleError, Close, lwipThread, order
  <2> QED
    BY <1>9, <2>1, RestKeepsOrder, DestroyKeepsTombs
<1>10. CASE Return \/ ReadPcb \/ ReadSlot \/ Call \/ StartClose \/ ClearArg \/ ClearHooks
  <2>1. /\ UNCHANGED <<queue, net, hand, handled, stray, obj>>
        /\ at # "rotate" /\ at' \notin {"rotate", "close"}
    BY <1>10 DEF Return, ReadPcb, ReadSlot, Call, StartClose, ClearArg, ClearHooks, Goto, lwipThread,
                 order, objects
  <2> QED
    BY <2>1, RestKeepsOrder, RestKeepsTombs
<1>11. CASE UNCHANGED vars
  BY <1>11, RestKeepsOrder, RestKeepsTombs DEF vars, task, order, objects
<1> QED
  BY <1>1, <1>2, <1>3, <1>4, <1>5, <1>6, <1>7, <1>8, <1>9, <1>10, <1>11 DEF Next, Lwip, AsyncTask

\* A step that leaves no FIN to have met a close started without one.
LEMMA MetStays ==
  ASSUME [Next]_vars, ~met'
  PROVE  ~met
<1>1. Lwip => (met => met')
  BY DEF Lwip, Accept, Called, Fin, Error, Send
<1>2. AsyncTask => (met => met')
  <2>1. AsyncTask => UNCHANGED lwipThread
    BY DEF AsyncTask, Take, Return, HandleError, HandleFin, ReadPcb, ReadSlot, Call, StartClose,
           ClearArg, ClearHooks, ClearEvents, Close, TakePacket, PutPacket, EndRotation
  <2> QED
    BY <2>1 DEF lwipThread
<1>3. UNCHANGED vars => (met => met')
  BY DEF vars
<1> QED
  BY <1>1, <1>2, <1>3, Zenon DEF Next

\* No event is handled for an object that has been deleted, unless one was sent
\* during a removal, or a FIN met the first step of a close (_close).
THEOREM HandledAlwaysLive == Spec => []HandledIsLive
<1> DEFINE Inv == /\ ~met => Quiet
                  /\ ~met /\ ~overlapped => ~stray /\ \E m \in Nat : Order(m) /\ Tombs(m)
<1>1. Init => Inv
  <2> SUFFICES ASSUME Init PROVE Order(0) /\ Tombs(0) /\ Quiet /\ ~stray
    OBVIOUS
  <2>1. queue = <<>> /\ Len(queue) = 0 /\ InQueue(queue) = {} /\ OnTheirWay = {} /\ net = Null /\ hand = Null
    BY DEF Init, InQueue, OnTheirWay
  <2>2. Order(0)
    BY <2>1 DEF Init, Order, Split, QueueOrdered
  <2> QED
    BY <2>2 DEF Init, Quiet, Tombs, Gone
<1>2. Typed /\ Ownership /\ Owned /\ Counts /\ Inv /\ [Next]_vars => Inv'
  <2> SUFFICES ASSUME Typed, Ownership, Owned, Counts, Inv, [Next]_vars, ~met'
               PROVE  Quiet' /\ (~overlapped' => ~stray' /\ \E k \in Nat : Order(k)' /\ Tombs(k)')
    BY Zenon
  <2>1. ~met /\ Quiet
    BY MetStays
  <2>2. Quiet'
    BY <2>1, StaysQuiet
  <2>3. ASSUME ~overlapped' PROVE ~stray' /\ \E k \in Nat : Order(k)' /\ Tombs(k)'
    <3>1. ~overlapped /\ (Send => at # "rotate")
      BY <2>3, OverlappedStays
    <3>2. PICK m \in Nat : Order(m) /\ Tombs(m)
      BY <2>1, <3>1
    <3>3. ~stray
      BY <2>1, <3>1
    <3>4. (\E k \in Nat : Order(k)' /\ Tombs(k)') /\ (stray' => stray)
      BY <2>1, <3>1, <3>2, StepKeepsTombs
    <3> QED
      BY <3>3, <3>4
  <2> QED
    BY <2>2, <2>3
<1>3. Inv => HandledIsLive
  BY DEF HandledIsLive
<1> QED
  BY <1>1, <1>2, <1>3, AlwaysTyped, AlwaysOwned, AlwaysCounted, PTL DEF Spec

=============================================================================
