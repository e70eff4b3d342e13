------------------------------ MODULE WebLink ------------------------------
(* The WebSocket between the pages (app.js) and the firmware (onWsEvent,     *)
(* wsBroadcastState, loop).  A page numbers what it sends and sends it once  *)
(* more two seconds later, unless a message with that number has come back.  *)
(* A broadcast carries no number and a pong carries one of the firmware's    *)
(* own, so that nothing acknowledges a setting on purpose.                   *)
EXTENDS Naturals, SequencesExt

CONSTANTS
  Clients,    \* pages
  Settings,   \* what a set_settings can carry
  NoData,     \* the data of every other message
  MaxSends,   \* bound: numbers the pages use, together
  MaxDrops,   \* bound: connections lost
  MaxQueued   \* WS_MAX_QUEUED_MESSAGES: what the firmware keeps for a client

ASSUME LinkAssumption ==
  /\ MaxSends \in Nat /\ MaxDrops \in Nat /\ MaxQueued \in Nat \ {0}
  /\ NoData \notin Settings

VARIABLES
  open,      \* per page: its socket is open
  up,        \* per page: what the firmware has yet to handle, in order
  down,      \* per page: what the firmware has queued for it, in order
  joined,    \* per page: the firmware broadcasts to its connection
  seq,       \* per page: the next number
  sends,     \* numbers the pages have used, together
  timers,    \* per page: its running timers, the first to end first
  msg_seq,   \* the firmware's own numbers
  applied,   \* settings of the firmware
  snap,      \* what the loop has put into the broadcast it is preparing
  drops,
  handled,   \* history, per page and number: how often its message was handled
  last,      \* history, per page: the settings it sent last, if any
  disturbed  \* history: a setting lost its connection or its timer

pageVars == <<open, seq, sends, timers>>
deviceVars == <<joined, msg_seq, applied, snap>>
history == <<handled, last, disturbed>>
linkVars == <<pageVars, deviceVars, history, up, down, drops>>

Numbers == 1..MaxSends
Message == [type : {"set_settings", "get_state", "ping", "connect"},
            id : 0..MaxSends, data : Settings \cup {NoData}]

LinkInit(init) ==
  /\ open = [c \in Clients |-> FALSE] /\ joined = [c \in Clients |-> FALSE]
  /\ up = [c \in Clients |-> <<>>] /\ down = [c \in Clients |-> <<>>]
  /\ seq = [c \in Clients |-> 1] /\ sends = 0 /\ timers = [c \in Clients |-> <<>>]
  /\ msg_seq = 1 /\ applied = init /\ snap = <<>> /\ drops = 0
  /\ handled = [c \in Clients |-> [i \in Numbers |-> 0]]
  /\ last = [c \in Clients |-> <<>>]
  /\ disturbed = FALSE

----------------------------------------------------------------------------
(* The firmware's side of the queues.  What exceeds a client's queue is      *)
(* dropped, the newest first.                                                *)

(* Mutant: one too many.                                                     *)
QueuedBeyond(q, m) == IF Len(q) <= MaxQueued THEN Append(q, m) ELSE q

Queued(q, m) == IF Len(q) < MaxQueued THEN Append(q, m) ELSE q

Broadcast(dest, report) ==
  down' = [c \in Clients |-> IF dest[c] THEN Queued(down[c], [state |-> report]) ELSE down[c]]

----------------------------------------------------------------------------
(* The page *)

IsSetting(m) == m.type = "set_settings"

MaySend == sends < MaxSends

(* A page takes its next number.                                             *)
Number(c) == seq' = [seq EXCEPT ![c] = @ + 1] /\ sends' = sends + 1

(* Mutant: the timer of the newest message ends first.                       *)
SendNewestFirst(c, type, data) ==
  /\ MaySend
  /\ IF open[c]
     THEN LET m == [type |-> type, id |-> seq[c], data |-> data]
          IN /\ up' = [up EXCEPT ![c] = Append(@, m)]
             /\ timers' = [timers EXCEPT ![c] = <<m>> \o @]
             /\ Number(c)
             /\ last' = IF IsSetting(m) THEN [last EXCEPT ![c] = <<data>>] ELSE last
     ELSE UNCHANGED <<up, timers, seq, sends, last>>
  /\ UNCHANGED <<open, down, deviceVars, drops, handled, disturbed>>

Send(c, type, data) ==
  /\ MaySend
  /\ IF open[c]
     THEN LET m == [type |-> type, id |-> seq[c], data |-> data]
          IN /\ up' = [up EXCEPT ![c] = Append(@, m)]
             /\ timers' = [timers EXCEPT ![c] = Append(@, m)]
             /\ Number(c)
             /\ last' = IF IsSetting(m) THEN [last EXCEPT ![c] = <<data>>] ELSE last
     ELSE UNCHANGED <<up, timers, seq, sends, last>>
  /\ UNCHANGED <<open, down, deviceVars, drops, handled, disturbed>>

SendSettings(c, s) == Send(c, "set_settings", s)

AskState(c) == Send(c, "get_state", NoData)

SendPing(c) == Send(c, "ping", NoData)

(* Mutant: the timer starts again until it is stopped (if all is handled).   *)
TimerEndsAndRepeats(c) ==
  /\ timers[c] # <<>> /\ open[c] /\ up[c] = <<>>
  /\ timers' = [timers EXCEPT ![c] = Append(Tail(@), Head(@))]
  /\ up' = [up EXCEPT ![c] = Append(@, Head(timers[c]))]
  /\ UNCHANGED <<open, seq, sends, down, deviceVars, drops, history>>

(* Two seconds after a send: the same text once more, if the socket, by now  *)
(* perhaps another one, is open.                                             *)
TimerEnds(c) ==
  /\ timers[c] # <<>>
  /\ timers' = [timers EXCEPT ![c] = Tail(@)]
  /\ up' = IF open[c] THEN [up EXCEPT ![c] = Append(@, Head(timers[c]))] ELSE up
  /\ UNCHANGED <<open, seq, sends, down, deviceVars, drops, history>>

(* onopen asks for the state; the firmware has the connection first.         *)
Connect(c) ==
  /\ ~open[c] /\ MaySend
  /\ open' = [open EXCEPT ![c] = TRUE]
  /\ LET get == [type |-> "get_state", id |-> seq[c], data |-> NoData]
         new == [type |-> "connect", id |-> 0, data |-> NoData]
     IN /\ up' = [up EXCEPT ![c] = @ \o <<new, get>>]
        /\ timers' = [timers EXCEPT ![c] = Append(@, get)]
  /\ Number(c)
  /\ UNCHANGED <<down, deviceVars, drops, history>>

(* What the firmware had received it still handles, an unfinished join as no *)
(* more than its broadcast.  What it had queued is lost.                     *)
Stale(m) == IF m.type = "connect" THEN [m EXCEPT !.type = "get_state"] ELSE m

Drop(c) ==
  /\ open[c] /\ drops < MaxDrops
  /\ \E n \in 0..Len(up[c]) :
       up' = [up EXCEPT ![c] = [i \in 1..n |-> Stale(up[c][i])]]
  /\ open' = [open EXCEPT ![c] = FALSE]
  /\ joined' = [joined EXCEPT ![c] = FALSE]
  /\ down' = [down EXCEPT ![c] = <<>>]
  /\ drops' = drops + 1
  /\ disturbed' = (disturbed \/ \E m \in ToSet(up[c] \o timers[c]) : IsSetting(m))
  /\ UNCHANGED <<seq, sends, timers, msg_seq, applied, snap, handled, last>>

(* A pong stops the timer of the page's own message of that number.          *)
ReceivePong(c) ==
  /\ down[c] # <<>> /\ "pong" \in DOMAIN Head(down[c])
  /\ IF \E i \in DOMAIN timers[c] : timers[c][i].id = Head(down[c]).pong
     THEN \E i \in DOMAIN timers[c] :
            /\ timers[c][i].id = Head(down[c]).pong
            /\ timers' = [timers EXCEPT ![c] = RemoveAt(@, i)]
            /\ disturbed' = (disturbed \/ IsSetting(timers[c][i]))
     ELSE UNCHANGED <<timers, disturbed>>
  /\ down' = [down EXCEPT ![c] = Tail(@)]
  /\ UNCHANGED <<open, seq, sends, up, deviceVars, drops, handled, last>>

ReceiveState(c) ==
  /\ down[c] # <<>> /\ "state" \in DOMAIN Head(down[c])
  /\ down' = [down EXCEPT ![c] = Tail(@)]
  /\ UNCHANGED <<pageVars, deviceVars, up, drops, history>>

----------------------------------------------------------------------------
(* The firmware: report is what a broadcast says of the settings that are    *)
(* applied then, kept what it keeps of the settings it is sent.              *)

Taken(c, type) == /\ up[c] # <<>> /\ Head(up[c]).type = type
                  /\ up' = [up EXCEPT ![c] = Tail(@)]

HandleConnect(c, report) ==
  /\ Taken(c, "connect")
  /\ joined' = [joined EXCEPT ![c] = TRUE]
  /\ Broadcast(joined', report)
  /\ UNCHANGED <<pageVars, msg_seq, applied, snap, drops, history>>

HandleGetState(c, report) ==
  /\ Taken(c, "get_state")
  /\ Broadcast(joined, report)
  /\ UNCHANGED <<pageVars, deviceVars, drops, history>>

HandlePing(c) ==
  /\ Taken(c, "ping")
  /\ msg_seq' = msg_seq + 1
  /\ down' = IF joined[c] THEN [down EXCEPT ![c] = Queued(@, [pong |-> msg_seq])] ELSE down
  /\ UNCHANGED <<pageVars, joined, applied, snap, drops, history>>

HandleSettings(c, kept, report) ==
  /\ Taken(c, "set_settings")
  /\ applied' = kept
  /\ handled' = [handled EXCEPT ![c][Head(up[c]).id] = @ + 1]
  /\ Broadcast(joined, report)
  /\ UNCHANGED <<pageVars, joined, msg_seq, snap, drops, last, disturbed>>

(* The loop builds its broadcast, and sends it once it is built; the handler *)
(* may run in between.                                                       *)
BuildBroadcast(report) ==
  /\ snap = <<>> /\ snap' = <<report>>
  /\ UNCHANGED <<pageVars, joined, msg_seq, applied, up, down, drops, history>>

SendBroadcast ==
  /\ snap # <<>> /\ snap' = <<>>
  /\ Broadcast(joined, snap[1])
  /\ UNCHANGED <<pageVars, joined, msg_seq, applied, up, drops, history>>

----------------------------------------------------------------------------
(* The link by itself: a page sends any settings, a report is the settings.  *)

Init == \E s \in Settings : LinkInit(s)

Operate(c) == \/ \E s \in Settings : SendSettings(c, s)
              \/ AskState(c)
              \/ SendPing(c)

Sent(c) == Head(up[c]).data

Handle(c) == \/ HandleConnect(c, applied) \/ HandleGetState(c, applied)
             \/ HandlePing(c) \/ HandleSettings(c, Sent(c), Sent(c))

Receive(c) == ReceivePong(c) \/ ReceiveState(c)

Loop == BuildBroadcast(applied) \/ SendBroadcast

Next == \/ \E c \in Clients : Operate(c) \/ TimerEnds(c) \/ Connect(c) \/ Drop(c)
                              \/ Handle(c) \/ Receive(c)
        \/ Loop

Spec == Init /\ [][Next]_linkVars

----------------------------------------------------------------------------
(* Properties *)

LinkTypeOK(Reports) ==
  /\ open \in [Clients -> BOOLEAN] /\ joined \in [Clients -> BOOLEAN]
  /\ sends \in 0..MaxSends /\ msg_seq \in Nat \ {0} /\ snap \in Seq(Reports)
  /\ up \in [Clients -> Seq(Message)] /\ timers \in [Clients -> Seq(Message)]
  /\ down \in [Clients -> Seq([pong : 1..msg_seq] \cup [state : Reports])]
  /\ seq \in [Clients -> 1..sends + 1]
  /\ handled \in [Clients -> [Numbers -> Nat]] /\ disturbed \in BOOLEAN
  /\ \A c \in Clients :
       /\ Len(down[c]) <= MaxQueued
       /\ joined[c] => open[c]
       /\ ~open[c] => down[c] = <<>>

(* Types; a connection the firmware broadcasts to is one the page has open;  *)
(* a queue never exceeds its limit.                                          *)
TypeOK == applied \in Settings /\ LinkTypeOK(Settings)

(* Sent and sent again is all: however the connection comes and goes, no     *)
(* set_settings takes effect a third time.                                   *)
NeverThreeTimes == \A c \in Clients : \A i \in Numbers : handled[c][i] <= 2

Quiet == \A c \in Clients : \A m \in ToSet(up[c] \o timers[c]) : ~IsSetting(m)

(* The settings a page sends again may be older than what another message    *)
(* has set since.  Once nothing is under way or due to be sent again, the    *)
(* firmware has the last settings of a page that sent some: the newer        *)
(* settings are sent again too, and later.  (Unless a connection was lost,   *)
(* or a pong stopped a timer, in between: then old settings may stay.)       *)
LastSettingsStay ==
  Quiet /\ ~disturbed /\ (\E c \in Clients : last[c] # <<>>)
    => \E c \in Clients : last[c] = <<applied>>
=============================================================================
