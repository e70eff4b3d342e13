--------------------------- MODULE WebSocketClient ---------------------------
(* One AsyncWebSocketClient: its queues, the frames it makes of them and     *)
(* what it makes of the acknowledgements.  The loop broadcasts into it while *)
(* async_tcp answers, handles what TCP reports, and runs the same queue; no  *)
(* lock protects it.  Payloads are counted, not kept.                        *)
EXTENDS Integers, FiniteSets, SequencesExt

CONSTANTS
  Lengths,      \* of messages; below 126, so that a header has two bytes
  SndBuf,       \* TCP_SND_BUF
  Word,         \* 2^32: what size_t wraps at
  MaxQueued,    \* WS_MAX_QUEUED_MESSAGES
  Parts,        \* bound: bytes of a write acknowledged before its others
  MaxInputs     \* bound: messages, control frames of the page and failing writes, together

ASSUME ClientAssumption ==
  /\ Lengths \subseteq 1..125
  /\ SndBuf \in Nat /\ SndBuf >= 12  \* a control frame fits besides another
  /\ Word \in Nat \ {0} /\ \A n \in Lengths : 3 * n + 4 < Word  \* a byte and its header a frame, and two that fail
  /\ {MaxQueued, MaxInputs} \cup Parts \subseteq Nat

VARIABLES
  status,     \* _status: "connected", "disconnecting", "disconnected"
  msgs,       \* _messageQueue
  ctl,        \* _controlQueue
  made,       \* messages made so far, which are numbered
  controls,   \* control frames the page has sent
  msg,        \* per message: what it is, _len, _status, _sent, _ack, _acked
  obj,        \* per message: "none", "alive", "deleted"
  buf,        \* per message of a broadcast, its buffer: "none", "made", "freed"
  locked,     \* per message: its buffer is locked
  at, job,    \* per task: where it is, the message that it broadcasts or 0
  piece,      \* per task: the frame it is sending
  flight,     \* lwIP: what is written and not acknowledged, in order: per segment, whether it is a
              \* control frame and the bytes up to its end
  busy,       \* _pcb_busy
  stamp,      \* _pcb_sent_at: "new", "old" (five seconds)
  ahead,      \* the stamp is newer than the clock reading that a poll uses
  rx,         \* what the page's WebSocket makes of the bytes
  received,   \* history: messages the page has had whole
  broken,     \* history: bytes came that are no frame, or no frame in its place
  crossed,    \* history: a task chose what to send while the other was sending
  resent,     \* history: a control frame was sent again before its acknowledgement
  failed,     \* history: the writes that failed
  slow,       \* history: five seconds have passed without an acknowledgement
  late,       \* history: the timer was started for bytes already acknowledged
  early       \* history: a buffer was freed before its maker had locked it

queues == <<status, msgs, ctl>>
messages == <<made, msg, obj>>
buffers == <<buf, locked>>
timer == <<busy, stamp, ahead>>
stream == <<flight, rx, received, broken>>
excuses == <<crossed, resent, failed, slow, late, early>>
vars == <<queues, messages, buffers, at, job, piece, timer, stream, excuses, controls>>

Tasks == {"loop", "async_tcp"}
Ids == 1..MaxInputs
Other(t) == CHOOSE u \in Tasks : u # t

NoMessage == [kind |-> "basic", len |-> 0, status |-> "sending", sent |-> 0, ack |-> 0, acked |-> 0]
NoPiece == [of |-> 0, from |-> 0, n |-> 0, final |-> FALSE, wrote |-> 0]
NoFrame == [need |-> 0, final |-> FALSE, of |-> 0, got |-> 0]

Init ==
  /\ status = "connected" /\ msgs = <<>> /\ ctl = <<>>
  /\ made = 0 /\ controls = 0 /\ msg = [i \in Ids |-> NoMessage] /\ obj = [i \in Ids |-> "none"]
  /\ buf = obj /\ locked = [i \in Ids |-> FALSE]
  /\ at = [t \in Tasks |-> "idle"] /\ job = [t \in Tasks |-> 0] /\ piece = [t \in Tasks |-> NoPiece]
  /\ flight = <<>> /\ rx = NoFrame /\ received = {}
  /\ busy = FALSE /\ stamp = "new" /\ ahead = FALSE
  /\ broken = FALSE /\ crossed = FALSE /\ resent = FALSE /\ failed = {} /\ slow = FALSE
  /\ late = FALSE /\ early = FALSE

\* Followed until it is closed, two tasks send at once, or a buffer is freed too early:
\* what then becomes of the counts, the bytes and the memory is undefined.
Open == status # "disconnected" /\ ~crossed /\ ~early

Idle(t) == Open /\ at[t] = "idle"

Goto(t, label) == at' = [at EXCEPT ![t] = label]

\* A task that has run the queue goes on with its broadcast, if any.
Done(t) == Goto(t, IF job[t] = 0 THEN "idle" ELSE "unlock")

----------------------------------------------------------------------------
(* lwIP and the page *)

InFlight == IF flight = <<>> THEN 0 ELSE flight[Len(flight)].end
Space == SndBuf - InFlight

CanSend == Space > 0

\* Mutant: nothing is kept back for the header.
WindowWhole == Space

\* webSocketSendFrameWindow
Window == IF Space < 9 THEN 0 ELSE Space - 8

MayGoOn == made + controls + Cardinality(failed) < MaxInputs

\* A write fails for want of memory.
Fails(where) == MayGoOn /\ where \notin failed /\ failed' = failed \cup {where}

(* A header: of message i from byte from on, or of a control frame (i = 0).  *)
WriteHeader(i, from, n, final) ==
  /\ flight' = Append(flight, [ctl |-> i = 0, end |-> InFlight + 2])
  /\ IF i = 0 THEN broken' = (broken \/ rx.need # 0) /\ UNCHANGED <<rx, received>>
     ELSE /\ rx' = [need |-> n, final |-> final, of |-> i, got |-> IF from = 0 THEN 0 ELSE rx.got]
          /\ broken' = (broken \/ rx.need # 0 \/ (from = 0) # (rx.of = 0) \/ (n = 0 /\ final))
          /\ UNCHANGED received

(* The bytes of a frame; after the last ones a message has to be whole.      *)
WriteData(i, from, n) ==
  /\ flight' = Append(flight, [ctl |-> FALSE, end |-> InFlight + n])
  /\ broken' = (broken \/ rx.need # n \/ rx.of # i \/ rx.got # from
                       \/ (rx.final # (from + n = msg[i].len)))
  /\ IF rx.final THEN rx' = NoFrame /\ received' = received \cup {i}
     ELSE rx' = [rx EXCEPT !.need = 0, !.got = @ + n] /\ UNCHANGED received

----------------------------------------------------------------------------
(* _runQueue *)

\* Mutant: finished when all is sent.
FinishedWritten(i) == msg[i].sent = msg[i].len

Finished(i) == msg[i].status # "sending"
Between(i) == msg[i].acked = msg[i].ack

\* Only the first message is ever sent, so that no other can be finished.
Unfinished == IF msgs # <<>> /\ Finished(Head(msgs)) THEN Tail(msgs) ELSE msgs
Deleted(ids) == obj' = [i \in Ids |-> IF i \in ids THEN "deleted" ELSE obj[i]]

Sending == {"control", "begin", "header", "data", "output", "stamp", "settle"}

Choose(t) ==
  /\ at[t] = "choose"
  /\ msgs' = Unfinished /\ Deleted(ToSet(msgs) \ ToSet(Unfinished))
  /\ LET clear == Unfinished = <<>> \/ Between(Head(Unfinished))
         control == ctl # <<>> /\ clear /\ Window > 1
         message == ~control /\ Unfinished # <<>> /\ clear /\ Window > 0
     IN /\ IF control
           THEN /\ ctl' = [ctl EXCEPT ![1].finished = TRUE]
                /\ resent' = (resent \/ Head(ctl).finished)
                /\ Goto(t, "control") /\ UNCHANGED piece
           ELSE /\ IF message
                   THEN piece' = [piece EXCEPT ![t] = [NoPiece EXCEPT !.of = Head(Unfinished)]]
                        /\ Goto(t, "begin")
                   ELSE Done(t) /\ UNCHANGED piece
                /\ UNCHANGED <<ctl, resent>>
        /\ crossed' = (crossed \/ ((control \/ message) /\ at[Other(t)] \in Sending))
  /\ UNCHANGED <<status, made, msg, buffers, job, timer, stream, failed, slow, late, early, controls>>

SendControl(t) ==
  /\ at[t] = "control"
  /\ \/ WriteHeader(0, 0, 0, TRUE) /\ Goto(t, "output") /\ UNCHANGED failed
     \/ Fails("control") /\ Done(t) /\ UNCHANGED stream
  /\ piece' = [piece EXCEPT ![t] = NoPiece]
  /\ UNCHANGED <<queues, messages, buffers, job, timer, crossed, resent, slow, late, early, controls>>

\* Mutant: looked at before _sent is raised.
FinalTooEarly(m, n) == m.sent = m.len

\* Whether n more bytes are the last of a message.
Final(m, n) == m.sent + n = m.len

(* What send does before it writes: the counts are raised for the whole frame. *)
Begin(t) ==
  /\ at[t] = "begin"
  /\ LET i == piece[t].of
         m == msg[i]
         n == IF Window < m.len - m.sent THEN Window ELSE m.len - m.sent
         stop(s) == /\ msg' = [msg EXCEPT ![i].status = s] /\ Done(t)
                    /\ piece' = [piece EXCEPT ![t] = NoPiece]
     IN IF Finished(i) \/ m.acked < m.ack THEN stop(m.status)
        ELSE IF m.sent = m.len
        THEN stop(IF m.kind = "multi" \/ Between(i) THEN "sent" ELSE m.status)
        ELSE /\ msg' = [msg EXCEPT ![i].sent = @ + n, ![i].ack = @ + n + 2]
             /\ piece' = [piece EXCEPT ![t] = [of |-> i, from |-> m.sent, n |-> n,
                                               final |-> Final(m, n), wrote |-> 0]]
             /\ Goto(t, "header")
  /\ UNCHANGED <<queues, made, obj, buffers, job, timer, stream, excuses, controls>>

(* webSocketSendFrame: the header announces what there is space for by now;  *)
(* there is always some for the header itself, then for the rest (TypeOK).   *)
SendHeader(t) ==
  /\ at[t] = "header"
  /\ LET p == piece[t]
         n == IF p.n > Space - 2 THEN Space - 2 ELSE p.n
     IN \/ /\ WriteHeader(p.of, p.from, n, p.final)
           /\ piece' = [piece EXCEPT ![t].wrote = n]
           /\ Goto(t, IF n = 0 THEN "output" ELSE "data") /\ UNCHANGED failed
        \/ Fails("header") /\ Goto(t, "settle") /\ UNCHANGED <<piece, stream>>
  /\ UNCHANGED <<queues, messages, buffers, job, timer, crossed, resent, slow, late, early, controls>>

SendData(t) ==
  /\ at[t] = "data"
  /\ LET p == piece[t] IN
       \/ /\ WriteData(p.of, p.from, p.wrote)
          /\ Goto(t, "output") /\ UNCHANGED <<piece, failed>>
       \/ /\ Fails("data") /\ piece' = [piece EXCEPT ![t].wrote = 0]
          /\ Goto(t, "settle") /\ UNCHANGED stream
  /\ UNCHANGED <<queues, messages, buffers, job, timer, crossed, resent, slow, late, early, controls>>

(* AsyncClient::send: after tcp_output the timer is started, in two steps.   *)
Output(t) ==
  /\ at[t] = "output"
  /\ \/ busy' = TRUE /\ Goto(t, "stamp") /\ UNCHANGED <<piece, failed>>
     \/ Fails("output") /\ piece' = [piece EXCEPT ![t].wrote = 0] /\ Goto(t, "settle") /\ UNCHANGED busy
  /\ UNCHANGED <<queues, messages, buffers, job, stamp, ahead, stream, crossed, resent, slow, late,
                 early, controls>>

\* Mutant: the time of the first sending stays.
StampOnce(t) ==
  /\ at[t] = "stamp" /\ Goto(t, "settle")
  /\ UNCHANGED <<queues, messages, buffers, job, piece, timer, stream, excuses, controls>>

Stamp(t) ==
  /\ at[t] = "stamp"
  /\ stamp' = "new"
  /\ IF at["async_tcp"] = "poll" THEN ahead' \in BOOLEAN ELSE UNCHANGED ahead
  /\ Goto(t, "settle")
  /\ UNCHANGED <<queues, messages, buffers, job, piece, busy, stream, excuses, controls>>

(* What was not written is taken back, but for the header; a message that    *)
(* was acknowledged meanwhile counts as being sent again, or is not there.   *)
Settle(t) ==
  /\ at[t] = "settle"
  /\ LET p == piece[t] IN
       msg' = IF p.of = 0 \/ obj[p.of] = "deleted" THEN msg
              ELSE [msg EXCEPT ![p.of].status = "sending", ![p.of].sent = @ - (p.n - p.wrote),
                               ![p.of].ack = @ - (p.n - p.wrote)]
  /\ piece' = [piece EXCEPT ![t] = NoPiece] /\ Done(t)
  /\ UNCHANGED <<queues, made, obj, buffers, job, timer, stream, excuses, controls>>

----------------------------------------------------------------------------
(* Messages are made and queued *)

\* Mutant: the lock is not looked at.
CleanedUnlocked(alive, locks) ==
  [i \in Ids |-> IF buf[i] = "made" /\ i \notin alive THEN "freed" ELSE buf[i]]

\* _cleanBuffers, given the messages that are alive and the locks.
Cleaned(alive, locks) ==
  [i \in Ids |-> IF buf[i] = "made" /\ i \notin alive /\ ~locks[i] THEN "freed" ELSE buf[i]]

Alive == {i \in Ids : obj[i] = "alive"}

Make(t, kind, len) ==
  /\ MayGoOn /\ made' = made + 1
  /\ msg' = [msg EXCEPT ![made'] = [NoMessage EXCEPT !.kind = kind, !.len = len]]

(* _queueMessage: what finds no place is deleted.                            *)
Enqueue(t, i) ==
  IF status = "connected"
  THEN /\ IF Len(msgs) < MaxQueued THEN msgs' = Append(msgs, i) /\ obj' = [obj EXCEPT ![i] = "alive"]
                                   ELSE UNCHANGED <<msgs, obj>>
       /\ IF CanSend THEN Goto(t, "choose") ELSE Done(t)
  ELSE UNCHANGED <<msgs, obj>> /\ Done(t)

(* AsyncWebSocketClient::text, from a handler.                               *)
Text(len) ==
  /\ Idle("async_tcp")
  /\ Make("async_tcp", "basic", len) /\ Enqueue("async_tcp", made')
  /\ UNCHANGED <<status, ctl, buffers, job, piece, timer, stream, excuses, controls>>

(* textAll: the buffer is entered into the list, locked, queued, unlocked.   *)
MakeBuffer(t, len) ==
  /\ Idle(t)
  /\ Make(t, "multi", len)
  /\ buf' = [buf EXCEPT ![made'] = "made"] /\ job' = [job EXCEPT ![t] = made'] /\ Goto(t, "made")
  /\ UNCHANGED <<queues, obj, locked, piece, timer, stream, excuses, controls>>

LockBuffer(t) ==
  /\ at[t] = "made"
  /\ locked' = [locked EXCEPT ![job[t]] = TRUE]
  /\ early' = (early \/ buf[job[t]] = "freed") /\ Goto(t, "queue")
  /\ UNCHANGED <<queues, messages, buf, job, piece, timer, stream, crossed, resent, failed, slow, late,
                 controls>>

QueueBuffer(t) ==
  /\ at[t] = "queue"
  /\ Enqueue(t, job[t])
  /\ UNCHANGED <<status, ctl, made, msg, buffers, job, piece, timer, stream, excuses, controls>>

UnlockBuffer(t) ==
  /\ at[t] = "unlock"
  /\ locked' = [locked EXCEPT ![job[t]] = FALSE] /\ buf' = Cleaned(Alive, locked')
  /\ job' = [job EXCEPT ![t] = 0] /\ Goto(t, "idle")
  /\ UNCHANGED <<queues, messages, piece, timer, stream, excuses, controls>>

----------------------------------------------------------------------------
(* What TCP reports, on async_tcp *)

Close == status' = "disconnected" /\ Goto("async_tcp", "idle")

\* Mutant: an acknowledgement replaces what is counted.
AcknowledgedLast(i, n) ==
  LET m == msg[i]
      whole == m.sent >= m.len /\ n >= m.ack
  IN [msg EXCEPT ![i].acked = n % Word, ![i].status = IF whole THEN "sent" ELSE @]

\* ack of either kind of message.
Acknowledged(i, n) ==
  LET m == msg[i]
      acked == (m.acked + n) % Word
      whole == IF m.kind = "multi" THEN m.sent >= m.len /\ acked >= m.ack
                                   ELSE m.sent = m.len /\ acked = m.ack
  IN [msg EXCEPT ![i].acked = acked, ![i].status = IF whole THEN "sent" ELSE @]

(* _onAck.  A control frame that has been sent takes its length off.         *)
OnAck(n) ==
  LET control == ctl # <<>> /\ Head(ctl).finished
      rest == IF control THEN (n - 2) % Word ELSE n
  IN /\ busy' = FALSE
     /\ slow' = FALSE /\ late' = (at["loop"] = "output" /\ flight' = <<>>)
     /\ ctl' = IF control THEN Tail(ctl) ELSE ctl
     /\ IF control /\ status = "disconnecting" /\ Head(ctl).op = "close"
        THEN Close /\ UNCHANGED <<msg, buf>>
        ELSE /\ msg' = IF rest # 0 /\ msgs # <<>> THEN Acknowledged(Head(msgs), rest) ELSE msg
             /\ buf' = Cleaned(Alive, locked)
             /\ Goto("async_tcp", "choose") /\ UNCHANGED status
     /\ UNCHANGED <<msgs, made, obj, locked, job, piece, stamp, ahead, rx, received, broken, crossed,
                    resent, failed, early, controls>>

(* The segments after the first k stay, without the n bytes acknowledged.    *)
Rest(k, n) ==
  flight' = [j \in 1..Len(flight) - k |-> [flight[j + k] EXCEPT !.end = @ - n]]

(* Segments are acknowledged whole, or a message in part; a control frame is *)
(* in one segment.                                                           *)
Ack ==
  /\ Idle("async_tcp") /\ flight # <<>>
  /\ \/ \E k \in 1..Len(flight) : Rest(k, flight[k].end) /\ OnAck(flight[k].end)
     \/ ~Head(flight).ctl /\ \E n \in Parts \cap 1..Head(flight).end - 1 : Rest(0, n) /\ OnAck(n)

(* _poll reads the clock before it looks at the timer.                       *)
Poll ==
  /\ Idle("async_tcp")
  /\ Goto("async_tcp", "poll") /\ ahead' = FALSE
  /\ UNCHANGED <<queues, messages, buffers, job, piece, busy, stamp, stream, excuses, controls>>

PollTimer ==
  /\ Open /\ at["async_tcp"] = "poll"
  /\ ahead' = FALSE
  /\ IF busy /\ (stamp = "old" \/ ahead)
     THEN busy' = FALSE /\ Close
     ELSE /\ Goto("async_tcp", IF CanSend /\ (ctl # <<>> \/ msgs # <<>>) THEN "choose" ELSE "idle")
          /\ UNCHANGED <<status, busy>>
  /\ UNCHANGED <<msgs, ctl, messages, buffers, job, piece, stamp, stream, excuses, controls>>

Seconds ==
  /\ \A t \in Tasks : Idle(t)
  /\ stamp' = "old" /\ slow' = (slow \/ flight # <<>>)
  /\ UNCHANGED <<queues, messages, buffers, at, job, piece, busy, ahead, stream, crossed, resent, failed,
                 late, early, controls>>

----------------------------------------------------------------------------
(* _onData: control frames of the page; a page that closes sends no more.    *)

QueueControl(op) ==
  /\ MayGoOn /\ controls' = controls + 1
  /\ Idle("async_tcp") /\ status = "connected"
  /\ ctl' = Append(ctl, [op |-> op, finished |-> FALSE])
  /\ Goto("async_tcp", IF CanSend THEN "choose" ELSE "idle")
  /\ UNCHANGED <<msgs, messages, buffers, job, piece, timer, stream, excuses>>

ReceivePing == QueueControl("pong") /\ UNCHANGED status

ReceiveClose == QueueControl("close") /\ status' = "disconnecting"

----------------------------------------------------------------------------

Send(t) ==
  \/ Choose(t) \/ SendControl(t) \/ Begin(t) \/ SendHeader(t) \/ SendData(t)
  \/ Output(t) \/ Stamp(t) \/ Settle(t)

Step(t) == Open /\ (Send(t) \/ LockBuffer(t) \/ QueueBuffer(t) \/ UnlockBuffer(t))

\* An event of the connection that async_tcp handles.
Callback ==
  \/ \E len \in Lengths : Text(len)
  \/ Ack \/ Poll \/ PollTimer \/ ReceivePing \/ ReceiveClose

Next ==
  \/ \E t \in Tasks : Step(t)
  \/ \E t \in Tasks, len \in Lengths : MakeBuffer(t, len)
  \/ Callback
  \/ Seconds

Spec == Init /\ [][Next]_vars

(* Tasks go on with what they have begun; acknowledgements and polls come in *)
(* turn, from one queue of events.                                           *)
FairSpec ==
  /\ Spec
  /\ WF_vars(Step("loop")) /\ WF_vars(Step("async_tcp") \/ PollTimer)
  /\ SF_vars(Poll) /\ SF_vars(Ack)

----------------------------------------------------------------------------
(* Properties *)

(* Types; what a task is about to write fits: the space that was kept back   *)
(* when it chose is still there.                                             *)
TypeOK ==
  /\ status \in {"connected", "disconnecting", "disconnected"}
  /\ ToSet(msgs) \subseteq 1..made /\ Len(msgs) <= MaxQueued
  /\ \A i \in Ids : msg[i].acked \in 0..Word - 1 /\ msg[i].sent \in 0..msg[i].len
  /\ Space \in 0..SndBuf
  /\ \A t \in Tasks : /\ at[t] \in {"control", "header"} => Space >= 2
                      /\ at[t] = "data" => Space >= piece[t].wrote

(* What a page receives is whole messages, and a message counts as sent only *)
(* when the page has had it, unless two tasks sent at once or a write failed *)
(* in the middle of a frame.                                                 *)
StreamIsWhole ==
  broken \/ (\E i \in Ids : msg[i].status = "sent" /\ i \notin received)
    => crossed \/ resent \/ failed \cap {"data", "output"} # {}

(* A connection that TCP serves does not come to rest with messages queued,  *)
(* unless two tasks sent at once, a control frame was sent again before its  *)
(* acknowledgement or a write failed: each may leave counts that never meet. *)
NothingStalls ==
  (msgs # <<>> \/ ctl # <<>>)
    ~> \/ msgs = <<>> /\ ctl = <<>>
       \/ ~Open \/ resent
       \/ failed \cap {"header", "output"} # {}

(* The timer closes only the connection of a page that took five seconds     *)
(* over an acknowledgement, unless the acknowledgement or the poll came      *)
(* while the loop was between tcp_output and the stamp of its time.          *)
TimedOutIsSlow ==
  [][at["async_tcp"] = "poll" /\ status' = "disconnected"
       => slow \/ late \/ ahead \/ at["loop"] = "stamp"]_vars

(* A message is deleted under a task only when the task has written all of   *)
(* it: its acknowledgement came before the task got to settle its counts.    *)
(* Counts that a failed write or a control frame sent again have upset may   *)
(* make it earlier.                                                          *)
DeletedIsWritten ==
  \A t \in Tasks : piece[t].of # 0 /\ obj[piece[t].of] = "deleted"
                     => at[t] \in {"output", "stamp", "settle"} \/ resent \/ "output" \in failed

(* The buffer of a queued message is not freed, unless that happened before  *)
(* its maker had locked it.                                                  *)
BufferOutlivesMessages ==
  \A i \in Ids : obj[i] = "alive" /\ buf[i] = "freed" => early
=============================================================================
