------------------------------ MODULE AsyncTcp ------------------------------
(* The library under the web server, as the project patched it: the lwIP     *)
(* thread calls back with the core lock held and queues events; async_tcp    *)
(* handles them, takes the lock for each call into lwIP and for nothing else.*)
(* A connection is named by the AsyncClient object made for it.              *)
EXTENDS Integers, FiniteSets, Sequences

CONSTANTS
  Clients,     \* AsyncClient objects, each made once
  Pcbs,        \* lwIP's control blocks, which it uses again
  Null,
  NSlots,      \* CONFIG_LWIP_MAX_ACTIVE_TCP
  QueueLen,    \* 32
  MaxRaised    \* bound: events of a client other than its last

Kinds == {"accept", "data", "poll", "fin", "error", "clear"}

ASSUME TcpAssumption ==
  /\ NSlots \in Nat \ {0} /\ QueueLen \in Nat \ {0} /\ MaxRaised \in Nat
  /\ Null \notin Clients \cup Pcbs
  /\ Null \notin [kind : Kinds, to : Clients, n : Nat]           \* an event
  /\ Null \notin [of : Clients, slot : Int, hasty : BOOLEAN]    \* a value of "wrong"

Slots == 0..NSlots - 1
NoSlot == -1

VARIABLES
  of,            \* lwIP: the connection a pcb is in use for, or Null
  arg, hooked,   \* lwIP: per pcb, what it passes to callbacks, whether it has any
  obj,           \* per object: "fresh", "live", "deleted"
  pcb, slot,     \* per object: _pcb, _closed_slot
  closed_slots, closed_index,
  raised,        \* per object: events raised for it
  queue,         \* _async_queue
  net,           \* the event that the lwIP thread is about to send, or Null
  at, cur,       \* where async_tcp is, and for which object
  hand, first,   \* _remove_events_with_arg: packet, first_packet
  call,          \* arguments of a call into lwIP as they were read
  down,          \* a callback went through a null pointer
  handled,       \* history: per object, the number of its latest event handled
  disordered,    \* history: an event was handled after a later one
  overlapped,    \* history: an event was sent while the queue was rotated
  met,           \* history: a FIN met a close that was under way
  stray,         \* history: an event was handled for a deleted object
  reset,         \* history: connections that ended by an error
  used,          \* history: slots that some connection has had
  spare,         \* history: slots that were free when the slot of the call was read, less the
                 \* connections that came since
  hasty,         \* history: since then, more connections came than slots were free, or one came
                 \* while the first slot given back still counted as unused
  robbed,        \* history: the hooks of another connection were cleared
  wrong          \* history: the first call that reached a pcb of another connection or of none

lwip == <<of, arg, hooked>>
objects == <<obj, pcb, slot, closed_slots, closed_index>>
task == <<at, cur, hand, first, call>>
order == <<handled, disordered, stray>>
haste == <<spare, hasty>>
vars == <<lwip, objects, raised, queue, net, task, down, order, overlapped, met, reset, used, haste,
          robbed, wrong>>

NoCall == [pcb |-> Null, slot |-> NoSlot]
Event(kind, c, n) == [kind |-> kind, to |-> c, n |-> n]
Clear(c) == Event("clear", c, 0)
HasRoom == Len(queue) < QueueLen

Init ==
  /\ of = [p \in Pcbs |-> Null] /\ arg = of /\ hooked = [p \in Pcbs |-> FALSE]
  /\ obj = [c \in Clients |-> "fresh"] /\ pcb = [c \in Clients |-> Null]
  /\ slot = [c \in Clients |-> NoSlot]
  /\ closed_slots = [s \in Slots |-> 1] /\ closed_index = 1
  /\ raised = [c \in Clients |-> 0] /\ queue = <<>> /\ net = Null
  /\ at = "idle" /\ cur = Null /\ hand = Null /\ first = Null /\ call = NoCall
  /\ down = FALSE /\ handled = raised
  /\ disordered = FALSE /\ overlapped = FALSE /\ met = FALSE /\ stray = FALSE /\ spare = 0 /\ hasty = FALSE
  /\ reset = {} /\ used = {} /\ robbed = FALSE /\ wrong = Null

----------------------------------------------------------------------------
(* Slots *)

FreeSlots == {s \in Slots : closed_slots[s] # 0}

(* Mutant: the first free slot.                                              *)
AllocatedFirst == CHOOSE s \in FreeSlots : \A t \in FreeSlots : s <= t

(* The free slot whose connection closed longest ago; the last of several.   *)
Allocated ==
  CHOOSE s \in FreeSlots : \A t \in FreeSlots \ {s} :
    closed_slots[s] < closed_slots[t] \/ (closed_slots[s] = closed_slots[t] /\ t < s)

(* Mutant: the object keeps the number of the slot it gave back.             *)
FreeClosedSlotKeepsIt(c) ==
  IF slot[c] = NoSlot THEN UNCHANGED <<slot, closed_slots, closed_index>>
  ELSE /\ closed_slots' = [closed_slots EXCEPT ![slot[c]] = closed_index]
       /\ closed_index' = closed_index + 1 /\ UNCHANGED slot

FreeClosedSlot(c) ==
  IF slot[c] = NoSlot THEN UNCHANGED <<slot, closed_slots, closed_index>>
  ELSE /\ closed_slots' = [closed_slots EXCEPT ![slot[c]] = closed_index]
       /\ closed_index' = closed_index + 1
       /\ slot' = [slot EXCEPT ![c] = NoSlot]

(* ~AsyncClient, from the disconnect handler that every user of an object    *)
(* has; its pcb is gone by then.                                             *)
Destroy(c) ==
  /\ obj' = [obj EXCEPT ![c] = "deleted"]
  /\ pcb' = [pcb EXCEPT ![c] = Null]
  /\ FreeClosedSlot(c)

----------------------------------------------------------------------------
(* The lwIP thread: what a callback does, and then the sending of its event, *)
(* which waits while the queue is full and keeps the lock.                   *)

Lockable == net = Null /\ ~down

Raise(kind, c) ==
  /\ net' = Event(kind, c, raised[c] + 1)
  /\ raised' = [raised EXCEPT ![c] = @ + 1]

(* AsyncServer::_accept makes the object.                                    *)
Accept(c, p) ==
  /\ Lockable /\ obj[c] = "fresh" /\ of[p] = Null
  /\ of' = [of EXCEPT ![p] = c] /\ arg' = [arg EXCEPT ![p] = c]
  /\ hooked' = [hooked EXCEPT ![p] = TRUE]
  /\ obj' = [obj EXCEPT ![c] = "live"] /\ pcb' = [pcb EXCEPT ![c] = p]
  /\ IF FreeSlots = {} THEN UNCHANGED <<slot, closed_slots>>
     ELSE slot' = [slot EXCEPT ![c] = Allocated]
          /\ closed_slots' = [closed_slots EXCEPT ![Allocated] = 0]
  /\ hasty' = (hasty \/ spare = 0 \/ \E s \in used \cap FreeSlots : closed_slots[s] = 1)
  /\ spare' = IF spare = 0 THEN 0 ELSE spare - 1
  /\ used' = IF FreeSlots = {} THEN used ELSE used \cup {Allocated}
  /\ Raise("accept", c)
  /\ UNCHANGED <<closed_index, queue, task, down, order, overlapped, met, reset, robbed, wrong>>

(* _tcp_recv with data, _tcp_sent and _tcp_poll change nothing themselves.   *)
(* With a null argument the event is queued and ignored.                     *)
Called(p, kind) ==
  /\ Lockable /\ of[p] # Null /\ hooked[p] /\ arg[p] # Null /\ raised[arg[p]] < MaxRaised
  /\ Raise(kind, arg[p])
  /\ UNCHANGED <<lwip, objects, queue, task, down, order, overlapped, met, reset, used, haste,
                 robbed, wrong>>

(* _tcp_recv without data: _lwip_fin closes the pcb at once, for whatever    *)
(* object the argument says.                                                 *)
Fin(p) ==
  /\ Lockable /\ of[p] # Null /\ hooked[p]
  /\ IF arg[p] = Null THEN down' = TRUE /\ UNCHANGED <<lwip, objects, raised, net, met>>
     ELSE LET c == arg[p] IN
       /\ Raise("fin", c)
       /\ IF pcb[c] # p THEN UNCHANGED <<lwip, objects, met>>
          ELSE /\ of' = [of EXCEPT ![p] = Null] /\ arg' = [arg EXCEPT ![p] = Null]
               /\ FreeClosedSlot(c) /\ pcb' = [pcb EXCEPT ![c] = Null]
               /\ met' = (met \/ (cur = c /\ at = "unhook")) /\ UNCHANGED <<hooked, obj>>
       /\ UNCHANGED down
  /\ UNCHANGED <<queue, task, order, overlapped, reset, used, haste, robbed, wrong>>

(* A reset or a lasting loss: lwIP frees the pcb, then calls _tcp_error,     *)
(* which leaves _pcb and the slot as they are.                               *)
Error(p) ==
  /\ Lockable /\ of[p] # Null
  /\ of' = [of EXCEPT ![p] = Null] /\ reset' = reset \cup {of[p]}
  /\ IF hooked[p] /\ arg[p] # Null THEN Raise("error", arg[p]) ELSE UNCHANGED <<net, raised>>
  /\ UNCHANGED <<arg, hooked, objects, queue, task, down, order, overlapped, met, used, haste,
                 robbed, wrong>>

(* Accepted connections go to the front.                                     *)
Send ==
  /\ net # Null /\ HasRoom
  /\ queue' = IF net.kind = "accept" THEN <<net>> \o queue ELSE Append(queue, net)
  /\ net' = Null
  /\ overlapped' = (overlapped \/ at = "rotate")
  /\ UNCHANGED <<lwip, objects, raised, task, down, order, met, reset, used, haste, robbed, wrong>>

----------------------------------------------------------------------------
(* async_tcp: _handle_async_event *)

lwipThread == <<raised, net, overlapped, met, reset, used>>
Goto(label) == at' = label /\ UNCHANGED <<cur, hand, first, call>>

Noted(e) ==
  IF e.kind = "clear" THEN UNCHANGED order
  ELSE /\ handled' = [handled EXCEPT ![e.to] = e.n]
       /\ disordered' = (disordered \/ e.n < handled[e.to])
       /\ stray' = (stray \/ obj[e.to] = "deleted")

Ignored(e) ==
  e.kind = "accept" \/ obj[e.to] = "deleted" \/ (e.kind = "poll" /\ pcb[e.to] = Null)

Entry(e) ==
  IF e.kind = "clear" THEN "rotate"
  ELSE IF Ignored(e) THEN "idle"
  ELSE IF e.kind \in {"data", "poll"} THEN "handler" ELSE e.kind

Take ==
  /\ at = "idle" /\ ~down /\ queue # <<>>
  /\ LET e == Head(queue) IN
       /\ queue' = Tail(queue) /\ Noted(e)
       /\ at' = Entry(e) /\ cur' = IF Entry(e) = "idle" THEN Null ELSE e.to
  /\ hand' = Null /\ first' = Null /\ call' = NoCall
  /\ UNCHANGED <<lwip, objects, lwipThread, haste, robbed, down, wrong>>

(* A handler of the web server returns, calls into lwIP or closes.           *)
Return ==
  /\ at = "handler" /\ ~down
  /\ at' = "idle" /\ cur' = Null /\ UNCHANGED <<hand, first, call>>
  /\ UNCHANGED <<lwip, objects, queue, lwipThread, haste, robbed, down, order, wrong>>

Rob(p) == robbed' = (robbed \/ of[p] \notin {cur, Null})

(* _error: the argument of the pcb is cleared, whoever has it by now.        *)
HandleError ==
  /\ at = "error" /\ (pcb[cur] = Null \/ Lockable) /\ ~down
  /\ IF pcb[cur] = Null THEN UNCHANGED <<arg, robbed>>
     ELSE arg' = [arg EXCEPT ![pcb[cur]] = Null] /\ Rob(pcb[cur])
  /\ Destroy(cur)
  /\ at' = "idle" /\ cur' = Null /\ UNCHANGED <<hand, first, call>>
  /\ UNCHANGED <<of, hooked, queue, lwipThread, haste, down, order, wrong>>

HandleFin ==
  /\ at = "fin" /\ HasRoom /\ ~down
  /\ queue' = <<Clear(cur)>> \o queue
  /\ Destroy(cur)
  /\ at' = "idle" /\ cur' = Null /\ UNCHANGED <<hand, first, call>>
  /\ UNCHANGED <<lwip, lwipThread, haste, robbed, down, order, wrong>>

----------------------------------------------------------------------------
(* Calls into lwIP: write, output, recved.  _pcb and _closed_slot are read   *)
(* one after the other, and looked at when the lock is taken.                *)

ReadPcb ==
  /\ at = "handler" /\ pcb[cur] # Null /\ ~down
  /\ at' = "reading" /\ call' = [call EXCEPT !.pcb = pcb[cur]]
  /\ UNCHANGED <<cur, hand, first>>
  /\ UNCHANGED <<lwip, objects, queue, lwipThread, haste, robbed, down, order, wrong>>

ReadSlot ==
  /\ at = "reading" /\ ~down
  /\ at' = "calling" /\ call' = [call EXCEPT !.slot = slot[cur]]
  /\ spare' = Cardinality(FreeSlots) /\ hasty' = FALSE
  /\ UNCHANGED <<cur, hand, first>>
  /\ UNCHANGED <<lwip, objects, queue, lwipThread, robbed, down, order, wrong>>

Admitted(s) == s = NoSlot \/ closed_slots[s] = 0

(* What reaches a pcb that is not the one of the object any more.            *)
Reach(p, s) == wrong' = IF of[p] = cur \/ wrong # Null THEN wrong
               ELSE [of |-> cur, slot |-> s, hasty |-> hasty]

Call ==
  /\ at = "calling" /\ Lockable
  /\ IF Admitted(call.slot) THEN Reach(call.pcb, call.slot) ELSE UNCHANGED wrong
  /\ Goto("handler")
  /\ UNCHANGED <<lwip, objects, queue, lwipThread, haste, robbed, down, order>>

----------------------------------------------------------------------------
(* _close: five hooks, each under the lock, the events that are queued, the  *)
(* pcb, the object.                                                          *)

StartClose ==
  /\ at = "handler" /\ pcb[cur] # Null /\ ~down
  /\ Goto("unhook")
  /\ UNCHANGED <<lwip, objects, queue, lwipThread, haste, robbed, down, order, wrong>>

ClearArg ==
  /\ at = "unhook" /\ ~down
  /\ IF pcb[cur] = Null THEN UNCHANGED <<arg, robbed>>
     ELSE Lockable /\ arg' = [arg EXCEPT ![pcb[cur]] = Null] /\ Rob(pcb[cur])
  /\ Goto("unhook_rest")
  /\ UNCHANGED <<of, hooked, objects, queue, lwipThread, haste, down, order, wrong>>

(* Mutant: only the argument is cleared.                                     *)
ClearHooksForgotten ==
  /\ at = "unhook_rest" /\ ~down
  /\ Goto("clear")
  /\ UNCHANGED <<lwip, objects, queue, lwipThread, haste, robbed, down, order, wrong>>

ClearHooks ==
  /\ at = "unhook_rest" /\ ~down
  /\ IF pcb[cur] = Null THEN UNCHANGED <<hooked, robbed>>
     ELSE Lockable /\ hooked' = [hooked EXCEPT ![pcb[cur]] = FALSE] /\ Rob(pcb[cur])
  /\ Goto("clear")
  /\ UNCHANGED <<of, arg, objects, queue, lwipThread, haste, down, order, wrong>>

(* Mutant: the event is put in front of a full queue.                        *)
ClearEventsAnyway ==
  /\ at = "clear" /\ ~down
  /\ queue' = <<Clear(cur)>> \o queue
  /\ Goto("close")
  /\ UNCHANGED <<lwip, objects, lwipThread, haste, robbed, down, order, wrong>>

ClearEvents ==
  /\ at = "clear" /\ HasRoom /\ ~down
  /\ queue' = <<Clear(cur)>> \o queue
  /\ Goto("close")
  /\ UNCHANGED <<lwip, objects, lwipThread, haste, robbed, down, order, wrong>>

(* tcp_close, or nothing if _pcb or the slot says that it is closed; then    *)
(* the disconnect handler.                                                   *)
Close ==
  /\ at = "close" /\ ~down
  /\ LET p == pcb[cur] IN
       IF p = Null THEN UNCHANGED <<of, wrong>>
       ELSE /\ Lockable
            /\ IF Admitted(slot[cur]) THEN of' = [of EXCEPT ![p] = Null] /\ Reach(p, slot[cur])
                                      ELSE UNCHANGED <<of, wrong>>
  /\ Destroy(cur)
  /\ at' = "idle" /\ cur' = Null /\ UNCHANGED <<hand, first, call>>
  /\ UNCHANGED <<arg, hooked, queue, lwipThread, haste, robbed, down, order>>

----------------------------------------------------------------------------
(* _remove_events_with_arg: the queue is turned round once, each packet that *)
(* stays taken and sent again.                                               *)

(* Mutant: only data is removed.                                             *)
MatchesData(e) == e.to = cur /\ e.kind = "data"

Matches(e) == e.to = cur /\ e.kind # "accept"

(* Mutant: the first packet is taken for the only one.                       *)
RotatedOnce == queue = <<>> \/ first # Null

Rotated == queue = <<>> \/ (first # Null /\ Head(queue) = first)

TakePacket ==
  /\ at = "rotate" /\ hand = Null /\ ~Rotated /\ ~down
  /\ LET e == Head(queue) IN
       /\ queue' = Tail(queue)
       /\ hand' = IF Matches(e) THEN Null ELSE e
       /\ first' = IF Matches(e) \/ first # Null THEN first ELSE e
  /\ UNCHANGED <<at, cur, call, lwip, objects, lwipThread, haste, robbed, down, order, wrong>>

PutPacket ==
  /\ at = "rotate" /\ hand # Null /\ HasRoom /\ ~down
  /\ queue' = Append(queue, hand) /\ hand' = Null
  /\ UNCHANGED <<at, cur, first, call, lwip, objects, lwipThread, haste, robbed, down, order, wrong>>

EndRotation ==
  /\ at = "rotate" /\ hand = Null /\ Rotated /\ ~down
  /\ at' = "idle" /\ cur' = Null /\ UNCHANGED <<hand, first, call>>
  /\ UNCHANGED <<lwip, objects, queue, lwipThread, haste, robbed, down, order, wrong>>

Lwip ==
  \/ \E c \in Clients, p \in Pcbs : Accept(c, p)
  \/ \E p \in Pcbs : Called(p, "data") \/ Called(p, "poll") \/ Fin(p) \/ Error(p)
  \/ Send

AsyncTask ==
  \/ Take \/ Return \/ HandleError \/ HandleFin
  \/ ReadPcb \/ ReadSlot \/ Call
  \/ StartClose \/ ClearArg \/ ClearHooks \/ ClearEvents \/ Close
  \/ TakePacket \/ PutPacket \/ EndRotation

Next == Lwip \/ AsyncTask

Spec == Init /\ [][Next]_vars

----------------------------------------------------------------------------
(* Properties *)

(* Types; the queue never has more events than it was made for.              *)
TypeOK ==
  /\ of \in [Pcbs -> Clients \cup {Null}] /\ arg \in [Pcbs -> Clients \cup {Null}]
  /\ hooked \in [Pcbs -> BOOLEAN]
  /\ obj \in [Clients -> {"fresh", "live", "deleted"}]
  /\ pcb \in [Clients -> Pcbs \cup {Null}] /\ slot \in [Clients -> Slots \cup {NoSlot}]
  /\ closed_slots \in [Slots -> Nat] /\ closed_index \in Nat \ {0}
  /\ Len(queue) <= QueueLen
  /\ (at = "idle") = (cur = Null) /\ cur \in Clients \cup {Null}

(* A slot that an object has is marked open and no other object has it,      *)
(* although the lwIP thread and async_tcp both give slots back.              *)
SlotsAgree ==
  \A c \in Clients : slot[c] # NoSlot =>
    /\ obj[c] = "live" /\ closed_slots[slot[c]] = 0
    /\ \A d \in Clients \ {c} : slot[d] # slot[c]

(* A call that async_tcp makes for a connection does not reach another one,  *)
(* or a pcb that is free, although the peer may close at any moment.  The    *)
(* exceptions: the slot was read after the FIN had taken it away, the        *)
(* connection ended by an error, which marks no slot, or since then more     *)
(* connections came than slots were free, so that the slot may be out again; *)
(* the first slot given back counts as unused, and may be out sooner.        *)
ClosedIsRefused == wrong # Null => (wrong.slot = NoSlot \/ wrong.of \in reset \/ wrong.hasty)

(* Events of an object are handled in the order in which they were raised,   *)
(* as long as none is sent while events of a closed one are being removed.   *)
OrderIsKept == disordered => overlapped

(* lwIP calls back with a null pointer only between the first two steps of a *)
(* close, or for a connection whose hooks were cleared by mistake.           *)
NullOnlyWhileClosing == down => (at = "unhook_rest" \/ robbed)

(* No event is handled for an object that has been deleted, unless it was    *)
(* sent during a removal or was the FIN that met the close.                  *)
HandledIsLive == stray => (overlapped \/ met)
=============================================================================
