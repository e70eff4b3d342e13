--------------------------- MODULE WebSocketProofs ---------------------------
(***************************************************************************)
(* For every set of lengths, every size of the send buffer and of the      *)
(* queue, and any number of messages and control frames, whose sending,    *)
(* acknowledgements and polls interleave while each write may fail once:   *)
(* what is written fits, pages get whole messages, no message and no       *)
(* buffer is freed too early, and the timer closes no connection that is   *)
(* served, each but for the cases that its property names.                 *)
(***************************************************************************)
EXTENDS WebSocketClient, FiniteSetTheorems, SequenceTheorems, TLAPS

----------------------------------------------------------------------------
(* Types *)

Labels == Sending \cup {"idle", "choose", "made", "queue", "unlock", "poll"}
Writing == {"header", "data", "output", "stamp", "settle"}

Messages == [kind : {"basic", "multi"}, len : Lengths \cup {0}, status : {"sending", "sent"},
             sent : Nat, ack : Int, acked : 0..Word - 1]
Pieces == [of : 0..MaxInputs, from : Nat, n : Nat, final : BOOLEAN, wrote : Nat]
Frames == [need : Nat, final : BOOLEAN, of : 0..MaxInputs, got : Nat]
Controls == [op : {"pong", "close"}, finished : BOOLEAN]
Segments == [ctl : BOOLEAN, end : Nat]

QueuesTyped ==
  /\ status \in {"connected", "disconnecting", "disconnected"}
  /\ msgs \in Seq(1..made) /\ Len(msgs) <= MaxQueued /\ ctl \in Seq(Controls)
MessagesTyped ==
  /\ made \in 0..MaxInputs
  /\ msg \in [Ids -> Messages] /\ obj \in [Ids -> {"none", "alive", "deleted"}]
BuffersTyped == buf \in [Ids -> {"none", "made", "freed"}] /\ locked \in [Ids -> BOOLEAN]
TasksTyped ==
  /\ at \in [Tasks -> Labels] /\ at["loop"] # "poll"
  /\ job \in [Tasks -> 0..made] /\ piece \in [Tasks -> Pieces]
PageTyped == rx \in Frames /\ received \subseteq Ids /\ broken \in BOOLEAN
ExcusesTyped ==
  /\ crossed \in BOOLEAN /\ resent \in BOOLEAN /\ early \in BOOLEAN
  /\ failed \subseteq {"control", "header", "data", "output"}
  /\ controls \in Nat

Typed ==
  QueuesTyped /\ MessagesTyped /\ BuffersTyped /\ TasksTyped /\ PageTyped /\ ExcusesTyped

\* Segments end one after the other, and all are within the buffer.
InOrder ==
  /\ flight \in Seq(Segments) /\ InFlight <= SndBuf
  /\ \A j \in DOMAIN flight : flight[j].end > 0
  /\ \A j, k \in DOMAIN flight : j < k => flight[j].end < flight[k].end

\* What a task is about to write fits, and the counts of its message are
\* raised for the whole frame.
Stage(t) ==
  LET p == piece[t]
      i == p.of
  IN /\ i = 0 \/ at[t] \notin Sending \ {"control"} => p = NoPiece
     /\ at[t] \in {"begin", "header", "data"} => i # 0
     /\ at[t] = "control" => Space >= 2
     /\ at[t] = "begin" => p = [NoPiece EXCEPT !.of = i] /\ Space > 8
     /\ at[t] = "header" => p.wrote = 0 /\ p.n + 8 <= Space
     /\ at[t] = "data" => p.n <= Space
     /\ at[t] \in {"data", "output", "stamp"} => p.wrote = p.n
     /\ at[t] = "settle" => p.wrote \in {0, p.n}
     /\ i # 0 /\ at[t] \in Writing =>
          p.n > 0 /\ msg[i].sent = p.from + p.n /\ p.final = (msg[i].sent = msg[i].len)

Alone == ~crossed => \E t \in Tasks : at[t] \notin Sending

\* What has not been made is as it was at the start.
Made ==
  /\ \A i \in Ids : i > made => msg[i] = NoMessage /\ obj[i] = "none" /\ buf[i] = "none" /\ ~locked[i]
  /\ \A i \in Ids : msg[i].sent <= msg[i].len /\ (i <= made => msg[i].len \in Lengths)
  /\ \A t \in Tasks : piece[t].of <= made

StageAll == \A t \in Tasks : Stage(t)
Shaped == Typed /\ InOrder /\ Alone /\ Made /\ StageAll

----------------------------------------------------------------------------
(* Tasks *)

LEMMA TaskNames ==
  ASSUME NEW t \in Tasks
  PROVE  /\ Other(t) \in Tasks /\ Other(t) # t
         /\ \A u \in Tasks : u = t \/ u = Other(t)
<1>1. \E u \in Tasks : u # t
  BY DEF Tasks
<1>2. Other(t) \in Tasks /\ Other(t) # t
  BY <1>1 DEF Other
<1> QED
  BY <1>2 DEF Tasks

\* A task that goes somewhere leaves the other one where it is.
LEMMA Moved ==
  ASSUME TasksTyped, NEW t \in Tasks, NEW l \in Labels, Goto(t, l), l = "poll" => t = "async_tcp"
  PROVE  /\ at' \in [Tasks -> Labels] /\ at'["loop"] # "poll" /\ at'[t] = l
         /\ \A u \in Tasks : u # t => at'[u] = at[u]
BY DEF TasksTyped, Goto, Tasks

LEMMA DoneMoves ==
  ASSUME TasksTyped, NEW t \in Tasks, Done(t)
  PROVE  /\ at' \in [Tasks -> Labels] /\ at'["loop"] # "poll"
         /\ at'[t] = (IF job[t] = 0 THEN "idle" ELSE "unlock")
         /\ \A u \in Tasks : u # t => at'[u] = at[u]
BY DEF Done, TasksTyped, Goto, Tasks, Labels

\* While one task sends, the other does not.
LEMMA OneSends ==
  ASSUME Alone, ~crossed, NEW t \in Tasks, at[t] \in Sending
  PROVE  \A u \in Tasks : u # t => at[u] \notin Sending
BY DEF Alone, Tasks

LEMMA AloneStays ==
  ASSUME Alone, ~crossed, NEW t \in Tasks, at'[t] \in Sending => at[t] \in Sending,
         \A u \in Tasks : u # t => at'[u] = at[u]
  PROVE  Alone'
BY DEF Alone, Tasks

LEMMA Resting ==
  ASSUME NEW u \in Tasks, at'[u] \notin Sending, piece'[u] = NoPiece
  PROVE  Stage(u)'
BY DEF Stage, NoPiece, Sending, Writing

LEMMA StageStays ==
  ASSUME NEW u \in Tasks, Stage(u), Space \in Int, Space' \in Int, piece[u] \in Pieces,
         at'[u] = at[u], piece'[u] = piece[u], Space' >= Space \/ at[u] \notin Sending,
         piece[u].of # 0 => /\ msg'[piece[u].of].sent = msg[piece[u].of].sent
                            /\ msg'[piece[u].of].len = msg[piece[u].of].len
  PROVE  Stage(u)'
<1>1. CASE at[u] \in Sending
  <2>1. piece[u].n \in Nat
    BY DEF Pieces
  <2> QED
    BY <1>1, <2>1 DEF Stage
<1>2. CASE at[u] \notin Sending
  BY <1>2, Resting DEF Stage
<1> QED
  BY <1>1, <1>2

----------------------------------------------------------------------------
(* Segments *)

LEMMA Bounds ==
  MaxQueued \in Nat /\ MaxInputs \in Nat /\ SndBuf \in Nat /\ SndBuf >= 12 /\ Word \in Nat /\ Word > 0
<1>1. {MaxQueued, MaxInputs} \cup Parts \subseteq Nat
  BY ClientAssumption
<1>2. MaxQueued \in {MaxQueued, MaxInputs} \cup Parts /\ MaxInputs \in {MaxQueued, MaxInputs} \cup Parts
  OBVIOUS
<1> QED
  BY <1>1, <1>2, ClientAssumption

LEMMA SeqFacts ==
  ASSUME NEW S, NEW s \in Seq(S)
  PROVE  /\ Len(s) \in Nat /\ DOMAIN s = 1..Len(s) /\ (s = <<>> <=> Len(s) = 0)
         /\ \A j \in 1..Len(s) : s[j] \in S
         /\ s # <<>> => /\ 1 \in 1..Len(s) /\ Head(s) = s[1] /\ Head(s) \in S
                        /\ Tail(s) \in Seq(S) /\ Len(Tail(s)) = Len(s) - 1
                        /\ \A j \in 1..Len(s) - 1 : Tail(s)[j] = s[j + 1]
<1>1. Len(s) \in Nat /\ DOMAIN s = 1..Len(s) /\ (s = <<>> <=> Len(s) = 0)
  BY LenProperties, EmptySeq
<1>2. \A j \in 1..Len(s) : s[j] \in S
  BY ElementOfSeq
<1>3. ASSUME s # <<>>
      PROVE  /\ 1 \in 1..Len(s) /\ Head(s) = s[1] /\ Head(s) \in S
             /\ Tail(s) \in Seq(S) /\ Len(Tail(s)) = Len(s) - 1
             /\ \A j \in 1..Len(s) - 1 : Tail(s)[j] = s[j + 1]
  <2>1. Tail(s) \in Seq(S) /\ Len(Tail(s)) = Len(s) - 1
    BY <1>3, HeadTailProperties
  <2>2. \A j \in 1..Len(Tail(s)) : Tail(s)[j] = s[j + 1]
    BY <1>3, HeadTailProperties
  <2>3. 1 \in 1..Len(s) /\ Head(s) = s[1]
    BY <1>1, <1>3
  <2> QED
    BY <1>2, <2>1, <2>2, <2>3
<1> QED
  BY <1>1, <1>2, <1>3

LEMMA SameLength ==
  ASSUME NEW m \in Nat, NEW n \in Nat, 1..m = 1..n
  PROVE  m = n
<1>1. (m \in 1..m => m \in 1..n) /\ (n \in 1..n => n \in 1..m)
  OBVIOUS
<1> QED
  BY <1>1

LEMMA SegmentsAre ==
  ASSUME InOrder
  PROVE  /\ Len(flight) \in Nat /\ DOMAIN flight = 1..Len(flight) /\ (flight = <<>> <=> Len(flight) = 0)
         /\ \A j \in 1..Len(flight) : flight[j] \in Segments /\ flight[j].end \in Nat /\ flight[j].end > 0
         /\ \A j, k \in 1..Len(flight) : j < k => flight[j].end < flight[k].end
<1>1. flight \in Seq(Segments)
  BY DEF InOrder
<1>2. /\ Len(flight) \in Nat /\ DOMAIN flight = 1..Len(flight) /\ (flight = <<>> <=> Len(flight) = 0)
      /\ \A j \in 1..Len(flight) : flight[j] \in Segments
  BY <1>1, LenProperties, EmptySeq, ElementOfSeq
<1>3. \A j \in 1..Len(flight) : flight[j].end \in Nat
  BY <1>2 DEF Segments
<1> QED
  BY <1>2, <1>3 DEF InOrder

LEMMA SpaceType ==
  ASSUME InOrder
  PROVE  InFlight \in 0..SndBuf /\ Space \in 0..SndBuf /\ Space = SndBuf - InFlight
<1>1. flight # <<>> => flight[Len(flight)].end \in Nat
  BY SegmentsAre
<1> QED
  BY <1>1, ClientAssumption DEF InOrder, InFlight, Space

\* What is written comes last and ends last.
LEMMA SegmentWritten ==
  ASSUME InOrder, NEW s \in Segments, flight' = Append(flight, s),
         s.end > InFlight, s.end <= SndBuf
  PROVE  InOrder' /\ InFlight' = s.end /\ Space' = SndBuf - s.end
<1>1. /\ flight' \in Seq(Segments) /\ Len(flight') = Len(flight) + 1 /\ Len(flight) \in Nat
      /\ flight'[Len(flight) + 1] = s /\ \A j \in 1..Len(flight) : flight'[j] = flight[j]
      /\ DOMAIN flight' = 1..Len(flight) + 1 /\ DOMAIN flight = 1..Len(flight)
  BY DEF InOrder
<1>2. InFlight' = s.end
  BY <1>1 DEF InFlight
<1>3. \A j \in 1..Len(flight) : flight[j].end <= InFlight /\ flight[j].end \in Nat
  BY SegmentsAre DEF InFlight
<1>4. s.end \in Nat /\ InFlight \in Nat
  BY SpaceType, ClientAssumption DEF Segments
<1>5. \A j \in DOMAIN flight' : flight'[j].end > 0
  BY <1>1, <1>4 DEF InOrder
<1>6. \A j, k \in DOMAIN flight' : j < k => flight'[j].end < flight'[k].end
  <2> SUFFICES ASSUME NEW j \in 1..Len(flight) + 1, NEW k \in 1..Len(flight) + 1, j < k
               PROVE  flight'[j].end < flight'[k].end
    BY <1>1
  <2>1. j \in 1..Len(flight) /\ (k \in 1..Len(flight) \/ k = Len(flight) + 1)
    BY <1>1
  <2> QED
    BY <1>1, <1>3, <1>4, <2>1, SMTT(20) DEF InOrder
<1> QED
  BY <1>1, <1>2, <1>5, <1>6 DEF InOrder, Space

\* What is acknowledged comes first; the rest still ends one after the other.
LEMMA SegmentsLeft ==
  ASSUME InOrder, NEW k \in 0..Len(flight), NEW n \in Nat, Rest(k, n), flight # <<>>,
         IF k = 0 THEN n < flight[1].end ELSE n = flight[k].end
  PROVE  /\ InOrder' /\ InFlight' = InFlight - n /\ Space' = Space + n
         /\ Len(flight') = Len(flight) - k
         /\ \A j \in 1..Len(flight) - k : flight'[j] = [flight[j + k] EXCEPT !.end = @ - n]
<1> DEFINE m == Len(flight) - k
<1>0. Len(flight) \in Nat /\ k \in Nat /\ m \in Nat /\ m + k = Len(flight)
  BY SegmentsAre
<1>1. m \in Nat /\ Len(flight) \in Nat \ {0} /\ DOMAIN flight = 1..Len(flight)
      /\ \A j \in DOMAIN flight : flight[j] \in Segments /\ flight[j].end \in Nat
  BY SegmentsAre
<1>2. \A j \in 1..m : j + k \in 1..Len(flight) /\ n < flight[j + k].end /\ flight[j + k].end \in Nat
  <2> SUFFICES ASSUME NEW j \in 1..m
               PROVE  j + k \in 1..Len(flight) /\ n < flight[j + k].end /\ flight[j + k].end \in Nat
    OBVIOUS
  <2>1. j + k \in 1..Len(flight) /\ k < j + k /\ (k # 0 => k \in 1..Len(flight))
    BY <1>1
  <2>2. flight[j + k].end \in Nat /\ (k # 0 => flight[k].end \in Nat) /\ flight[1].end \in Nat
    BY <1>1, <2>1 DEF Segments
  <2>3. k # 0 => flight[k].end < flight[j + k].end
    BY <1>1, <2>1 DEF InOrder
  <2>4. k = 0 => flight[1].end <= flight[j].end
    BY <1>1, <2>1, <2>2 DEF InOrder
  <2> QED
    BY <2>1, <2>2, <2>3, <2>4
<1>3. \A j \in 1..m : [flight[j + k] EXCEPT !.end = @ - n] \in Segments
                      /\ [flight[j + k] EXCEPT !.end = @ - n].end = flight[j + k].end - n
  BY <1>1, <1>2 DEF Segments
<1>4. flight' = [j \in 1..m |-> [flight[j + k] EXCEPT !.end = @ - n]]
  BY DEF Rest
<1> HIDE DEF m
<1>5. flight' \in [1..m -> Segments]
  BY <1>3, <1>4
<1>6. flight' \in Seq(Segments) /\ Len(flight') = m /\ DOMAIN flight' = 1..m
  <2>1. flight' \in Seq(Segments)
    BY <1>1, <1>5, SeqDef
  <2>2. DOMAIN flight' = 1..m
    BY <1>5
  <2>3. Len(flight') \in Nat /\ DOMAIN flight' = 1..Len(flight')
    BY <2>1, LenProperties
  <2>4. Len(flight') = m
    BY <1>1, <2>2, <2>3, SameLength
  <2> QED
    BY <2>1, <2>2, <2>4
<1>7. \A j \in 1..m : flight'[j].end = flight[j + k].end - n
  BY <1>3, <1>4
<1>8. InFlight' = InFlight - n
  <2>1. CASE m = 0
    <3>0. k = Len(flight)
      BY <1>0, <2>1, SMT
    <3>1. k = Len(flight) /\ k # 0
      BY <1>1, <3>0
    <3>2. flight' = <<>>
      BY <1>6, <2>1, EmptySeq
    <3>3. n = flight[Len(flight)].end
      BY <3>1
    <3> QED
      BY <1>1, <3>2, <3>3 DEF InFlight
  <2>2. CASE m > 0
    <3>1. flight' # <<>> /\ flight'[m].end = flight[Len(flight)].end - n
      <4>1. m \in 1..m /\ m + k = Len(flight)
        BY <1>0, <2>2
      <4>2. flight' # <<>>
        BY <1>6, <2>2, EmptySeq
      <4> QED
        BY <1>7, <4>1, <4>2
    <3>2. InFlight' = flight'[m].end /\ InFlight = flight[Len(flight)].end
      BY <1>6, <3>1 DEF InFlight
    <3> QED
      BY <3>1, <3>2
  <2>3. m = 0 \/ m > 0
    BY <1>0
  <2> QED
    BY <2>1, <2>2, <2>3
<1>9. \A j \in DOMAIN flight' : flight'[j].end > 0
  BY <1>2, <1>6, <1>7
<1>10. \A i, j \in DOMAIN flight' : i < j => flight'[i].end < flight'[j].end
  <2> SUFFICES ASSUME NEW i \in 1..m, NEW j \in 1..m, i < j
               PROVE  flight'[i].end < flight'[j].end
    BY <1>6
  <2>1. i + k < j + k /\ i + k \in 1..Len(flight) /\ j + k \in 1..Len(flight)
    BY <1>0, <1>2
  <2>2. flight[i + k].end < flight[j + k].end
    BY <2>1, SegmentsAre
  <2> QED
    BY <1>2, <1>7, <2>2, SMTT(20)
<1>11. InFlight' <= SndBuf /\ Space' = Space + n
  BY <1>8, SpaceType, ClientAssumption DEF Space
<1>12. InOrder'
  BY <1>6, <1>9, <1>10, <1>11 DEF InOrder
<1> QED
  BY <1>4, <1>6, <1>8, <1>11, <1>12 DEF m

----------------------------------------------------------------------------
(* Every step keeps the types, and what is about to be written fits *)

\* The loop of _runQueue that drops finished messages: at most the first.
LEMMA UnfinishedIs ==
  ASSUME QueuesTyped
  PROVE  /\ Unfinished \in Seq(1..made) /\ Len(Unfinished) <= Len(msgs)
         /\ Unfinished # <<>> => Head(Unfinished) \in 1..made
         /\ \/ Unfinished = msgs /\ (msgs # <<>> => ~Finished(Head(msgs)))
            \/ msgs # <<>> /\ Finished(Head(msgs)) /\ Unfinished = Tail(msgs)
<1>1. /\ msgs \in Seq(1..made) /\ Len(msgs) \in Nat
      /\ msgs # <<>> => /\ Tail(msgs) \in Seq(1..made) /\ Len(Tail(msgs)) = Len(msgs) - 1
                        /\ Head(msgs) \in 1..made
  BY SeqFacts DEF QueuesTyped
<1>2. CASE msgs # <<>> /\ Finished(Head(msgs))
  <2>1. Unfinished = Tail(msgs)
    BY <1>2 DEF Unfinished
  <2>2. Tail(msgs) # <<>> => Head(Tail(msgs)) \in 1..made
    BY <1>1, <1>2, SeqFacts
  <2> QED
    BY <1>1, <1>2, <2>1, <2>2
<1>3. CASE ~(msgs # <<>> /\ Finished(Head(msgs)))
  BY <1>1, <1>3 DEF Unfinished
<1> QED
  BY <1>2, <1>3

LEMMA NoPieceType ==
  /\ NoPiece \in Pieces /\ NoPiece.of = 0
  /\ \A i \in 1..MaxInputs : /\ [NoPiece EXCEPT !.of = i] \in Pieces
                             /\ [NoPiece EXCEPT !.of = i].of = i
<1>1. NoPiece \in Pieces /\ NoPiece.of = 0
  BY Bounds DEF NoPiece, Pieces
<1>2. ASSUME NEW i \in 1..MaxInputs
      PROVE  [NoPiece EXCEPT !.of = i] \in Pieces /\ [NoPiece EXCEPT !.of = i].of = i
  <2>1. i \in 0..MaxInputs
    BY Bounds
  <2> QED
    BY <1>1, <2>1 DEF Pieces
<1> QED
  BY <1>1, <1>2

\* What leaves the counts of messages and the segments alone disturbs no stage.
LEMMA OthersStay ==
  ASSUME Shaped, Open, NEW t \in Tasks, Space' \in Int,
         \A u \in Tasks : u # t => at'[u] = at[u] /\ piece'[u] = piece[u],
         \A i \in Ids : i <= made => msg'[i].sent = msg[i].sent /\ msg'[i].len = msg[i].len,
         at[t] \in Sending \/ Space' >= Space
  PROVE  \A u \in Tasks : u # t => Stage(u)'
<1> SUFFICES ASSUME NEW u \in Tasks, u # t PROVE Stage(u)'
  OBVIOUS
<1>1. Space' >= Space \/ at[u] \notin Sending
  BY OneSends DEF Shaped, Open
<1>2. piece[u] \in Pieces /\ Space \in Int /\ piece[u].of <= made /\ made \in Nat
  BY SpaceType, ClientAssumption DEF Shaped, Typed, TasksTyped, MessagesTyped, Made
<1>3. piece[u].of # 0 => piece[u].of \in Ids
  BY <1>2 DEF Pieces, Ids
<1> QED
  BY <1>1, <1>2, <1>3, StageStays DEF Shaped, StageAll

LEMMA ChooseIsShaped ==
  ASSUME Shaped, Open, NEW t \in Tasks, Choose(t)
  PROVE  Shaped'
<1>0. Typed /\ QueuesTyped /\ TasksTyped /\ at[t] = "choose" /\ t \in {"loop", "async_tcp"}
  BY DEF Shaped, Typed, Choose, Tasks
<1> DEFINE clear == Unfinished = <<>> \/ Between(Head(Unfinished))
           control == ctl # <<>> /\ clear /\ Window > 1
           message == ~control /\ Unfinished # <<>> /\ clear /\ Window > 0
<1>1. /\ msgs' = Unfinished /\ Deleted(ToSet(msgs) \ ToSet(Unfinished))
      /\ IF control
         THEN /\ ctl' = [ctl EXCEPT ![1].finished = TRUE]
              /\ resent' = (resent \/ Head(ctl).finished)
              /\ Goto(t, "control") /\ piece' = piece
         ELSE /\ IF message
                 THEN piece' = [piece EXCEPT ![t] = [NoPiece EXCEPT !.of = Head(Unfinished)]]
                      /\ Goto(t, "begin")
                 ELSE Done(t) /\ piece' = piece
              /\ ctl' = ctl /\ resent' = resent
      /\ crossed' = (crossed \/ ((control \/ message) /\ at[Other(t)] \in Sending))
      /\ UNCHANGED <<status, made, msg, buffers, job, timer, stream, failed, slow, late, early, controls>>
  BY DEF Choose
<1>2. Window > 0 => Space > 8
  BY SpaceType, ClientAssumption DEF Window, Shaped
<1> HIDE DEF clear
<1>3. \/ control /\ ctl # <<>> /\ Space > 8
      \/ ~control /\ message /\ Space > 8 /\ Unfinished # <<>>
      \/ ~control /\ ~message
  <2>1. Window \in Int /\ (Window > 1 => Window > 0)
    BY SpaceType, Bounds DEF Window, Shaped
  <2> QED
    BY <1>2, <2>1
<1> HIDE DEF control, message
<1>4. /\ at' \in [Tasks -> Labels] /\ at'["loop"] # "poll"
      /\ (control => at'[t] = "control") /\ (~control /\ message => at'[t] = "begin")
      /\ (~control /\ ~message => at'[t] \in {"idle", "unlock"})
      /\ \A u \in Tasks : u # t => at'[u] = at[u]
  <2>1. CASE control
    BY <1>0, <1>1, <2>1, Moved DEF Labels, Sending
  <2>2. CASE ~control /\ message
    BY <1>0, <1>1, <2>2, Moved DEF Labels, Sending
  <2>3. CASE ~control /\ ~message
    BY <1>0, <1>1, <2>3, DoneMoves
  <2> QED
    BY <2>1, <2>2, <2>3
<1>5. /\ piece[t] = NoPiece /\ piece \in [Tasks -> Pieces]
      /\ made' = made /\ made \in 0..MaxInputs
  BY <1>0 DEF Shaped, StageAll, Stage, Sending, TasksTyped, Typed, MessagesTyped, Choose
<1>6. Unfinished # <<>> => Head(Unfinished) \in 1..made /\ Head(Unfinished) \in 1..MaxInputs
  <2>1. Unfinished # <<>> => Head(Unfinished) \in 1..made
    BY <1>0, UnfinishedIs
  <2> QED
    BY <1>5, <2>1, Bounds
<1>7. /\ piece' \in [Tasks -> Pieces] /\ \A u \in Tasks : u # t => piece'[u] = piece[u]
      /\ (control => piece'[t] = NoPiece) /\ (~control /\ ~message => piece'[t] = NoPiece)
      /\ (~control /\ message => piece'[t] = [NoPiece EXCEPT !.of = Head(Unfinished)])
  BY <1>1, <1>3, <1>5, <1>6, NoPieceType
<1>8. QueuesTyped'
  <2>1. ctl' \in Seq(Controls)
    <3>1. CASE control
      <4>1. ctl \in Seq(Controls) /\ Len(ctl) \in Nat /\ Len(ctl) # 0 /\ ctl[1] \in Controls
        BY <1>0, <1>3, <3>1, LenProperties, EmptySeq, ElementOfSeq DEF QueuesTyped
      <4>2. [ctl[1] EXCEPT !.finished = TRUE] \in Controls
        BY <4>1 DEF Controls
      <4>3. ctl' = [ctl EXCEPT ![1] = [ctl[1] EXCEPT !.finished = TRUE]]
        BY <1>1, <3>1
      <4> QED
        BY <4>1, <4>2, <4>3, ExceptSeq
    <3>2. CASE ~control
      BY <1>0, <1>1, <3>2 DEF QueuesTyped
    <3> QED
      BY <3>1, <3>2
  <2>2. status' = status /\ msgs' = Unfinished
    BY <1>1
  <2>3. Len(Unfinished) <= MaxQueued
    <3>1. Len(msgs) \in Nat /\ Len(Unfinished) \in Nat /\ Len(Unfinished) <= Len(msgs)
      BY <1>0, UnfinishedIs, LenProperties DEF QueuesTyped
    <3>2. Len(msgs) <= MaxQueued
      BY <1>0 DEF QueuesTyped
    <3> QED
      BY <3>1, <3>2, Bounds
  <2> QED
    BY <1>0, <1>5, <2>1, <2>2, <2>3, UnfinishedIs DEF QueuesTyped
<1>9. MessagesTyped' /\ (\A i \in Ids : i > made => obj'[i] = "none")
  <2>1. obj' \in [Ids -> {"none", "alive", "deleted"}]
    BY <1>0, <1>1 DEF Deleted, Typed, MessagesTyped
  <2>2. \A i \in ToSet(msgs) : i <= made
    BY <1>0, <1>5, LenProperties DEF QueuesTyped, ToSet
  <2>3. \A i \in Ids : i > made => i \notin ToSet(msgs)
    BY <1>5, <2>2, Bounds DEF Ids
  <2>4. \A i \in Ids : i > made => obj'[i] = "none"
    BY <1>1, <2>3 DEF Deleted, Shaped, Made
  <2> QED
    BY <1>0, <1>1, <2>1, <2>4 DEF Typed, MessagesTyped
<1>10. BuffersTyped' /\ PageTyped' /\ TasksTyped'
  BY <1>0, <1>1, <1>4, <1>5, <1>7 DEF Typed, BuffersTyped, PageTyped, TasksTyped, buffers, stream
<1>11. ExcusesTyped'
  <2>1. control => Head(ctl).finished \in BOOLEAN
    <3>1. control => Head(ctl) \in Controls
      BY <1>0, <1>3, SeqFacts DEF QueuesTyped
    <3> QED
      BY <3>1 DEF Controls
  <2> QED
    BY <1>0, <1>1, <2>1 DEF Typed, ExcusesTyped
<1>12. InOrder' /\ Space' = Space /\ Space \in Int
  BY <1>1, SpaceType, ClientAssumption DEF Shaped, InOrder, InFlight, Space, stream
<1>13. Alone'
  <2>1. crossed' = (crossed \/ ((control \/ message) /\ at[Other(t)] \in Sending))
    BY <1>1
  <2> QED
    BY <1>0, <1>4, <2>1, TaskNames DEF Alone, Sending
<1>14. Made'
  <2>1. piece'[t].of <= made
    <3>1. CASE ~control /\ message
      <4>1. piece'[t].of = Head(Unfinished)
        BY <1>3, <1>6, <1>7, <3>1, NoPieceType
      <4> QED
        BY <1>3, <1>5, <1>6, <3>1, <4>1
    <3>2. CASE control \/ ~message
      BY <1>5, <1>7, <3>2, NoPieceType
    <3> QED
      BY <3>1, <3>2
  <2>2. \A u \in Tasks : piece'[u].of <= made
    BY <1>7, <2>1 DEF Shaped, Made
  <2> QED
    BY <1>1, <1>5, <1>9, <2>2 DEF Shaped, Made, buffers
<1>15. Stage(t)'
  <2>1. CASE at'[t] = "control"
    BY <1>3, <1>4, <1>7, <1>12, <2>1, NoPieceType, SpaceType, ClientAssumption DEF Stage, Sending, Writing, Shaped
  <2>2. CASE at'[t] = "begin"
    <3>0. ~control /\ message /\ Head(Unfinished) \in 1..MaxInputs /\ Space' > 8
      BY <1>3, <1>4, <1>6, <1>12, <2>2
    <3>1. /\ piece'[t] = [NoPiece EXCEPT !.of = Head(Unfinished)] /\ piece'[t].of = Head(Unfinished)
          /\ Head(Unfinished) # 0 /\ Space' > 8
      <4>1. piece'[t] = [NoPiece EXCEPT !.of = Head(Unfinished)]
        BY <1>7, <3>0
      <4>2. Head(Unfinished) # 0
        BY <3>0, Bounds
      <4> QED
        BY <3>0, <4>1, <4>2, NoPieceType
    <3> QED
      BY <2>2, <3>1 DEF Stage, Sending, Writing
  <2>3. CASE at'[t] \in {"idle", "unlock"}
    BY <1>3, <1>4, <1>7, <2>3, Resting DEF Sending
  <2> QED
    BY <1>3, <1>4, <2>1, <2>2, <2>3
<1>16. \A u \in Tasks : u # t => Stage(u)'
  BY <1>1, <1>4, <1>7, <1>12, OthersStay
<1> QED
  BY <1>8, <1>9, <1>10, <1>11, <1>12, <1>13, <1>14, <1>15, <1>16 DEF Shaped, Typed, StageAll

\* What a sending task may do: its own place, piece and message, and what is in flight.
LEMMA SendingStep ==
  ASSUME Shaped, Open, NEW t \in Tasks, at[t] \in Sending,
         UNCHANGED <<queues, made, obj, buffers, job, crossed, resent, early, controls>>,
         failed' \subseteq {"control", "header", "data", "output"},
         at' \in [Tasks -> Labels], at'["loop"] # "poll", \A u \in Tasks : u # t => at'[u] = at[u],
         piece' \in [Tasks -> Pieces], \A u \in Tasks : u # t => piece'[u] = piece[u],
         piece'[t].of = 0 \/ piece'[t].of = piece[t].of,
         msg' \in [Ids -> Messages],
         \A i \in Ids : /\ msg'[i].len = msg[i].len /\ msg'[i].sent <= msg[i].len
                        /\ i # piece[t].of => msg'[i] = msg[i],
         PageTyped', InOrder', Stage(t)'
  PROVE  Shaped'
<1>0. Typed
  BY DEF Shaped
<1>1. QueuesTyped' /\ MessagesTyped' /\ BuffersTyped' /\ TasksTyped' /\ ExcusesTyped'
  <2>1. QueuesTyped'
    BY <1>0 DEF Typed, QueuesTyped, queues
  <2>2. MessagesTyped' /\ BuffersTyped'
    BY <1>0 DEF Typed, MessagesTyped, BuffersTyped, buffers
  <2>3. TasksTyped' /\ ExcusesTyped'
    BY <1>0 DEF Typed, TasksTyped, ExcusesTyped
  <2> QED
    BY <2>1, <2>2, <2>3
<1>2. Alone'
  <2>1. Alone /\ ~crossed
    BY DEF Shaped, Open
  <2> QED
    BY <2>1, AloneStays
<1>3. Made'
  <2>1. piece[t].of <= made /\ made \in Nat /\ piece[t].of \in Nat
    BY <1>0, Bounds DEF Shaped, Made, Typed, MessagesTyped, TasksTyped, Pieces
  <2>2. piece'[t].of <= made
    BY <2>1
  <2>3. \A u \in Tasks : piece'[u].of <= made
    BY <2>2 DEF Shaped, Made
  <2>4. \A i \in Ids : i > made => i # piece[t].of
    BY <2>1, Bounds DEF Ids
  <2> QED
    BY <2>3, <2>4 DEF Shaped, Made, buffers
<1>4. \A u \in Tasks : u # t => Stage(u)'
  <2> SUFFICES ASSUME NEW u \in Tasks, u # t PROVE Stage(u)'
    OBVIOUS
  <2>1. at[u] \notin Sending
    BY OneSends DEF Shaped, Open
  <2>2. piece[u] = NoPiece
    BY <2>1 DEF Shaped, StageAll, Stage
  <2> QED
    BY <2>1, <2>2, Resting
<1> QED
  BY <1>0, <1>1, <1>2, <1>3, <1>4 DEF Shaped, Typed, StageAll

LEMMA Facts ==
  ASSUME Shaped, NEW t \in Tasks
  PROVE  /\ Typed /\ QueuesTyped /\ MessagesTyped /\ TasksTyped /\ PageTyped /\ ExcusesTyped /\ BuffersTyped
         /\ InOrder /\ Alone /\ Made /\ Stage(t)
         /\ made \in 0..MaxInputs /\ MaxInputs \in Nat
         /\ piece[t] \in Pieces /\ at[t] \in Labels /\ job[t] \in 0..made
         /\ piece[t].of \in 0..made /\ piece[t].from \in Nat /\ piece[t].n \in Nat /\ piece[t].wrote \in Nat
         /\ piece[t].final \in BOOLEAN
         /\ piece[t].of # 0 => piece[t].of \in Ids
         /\ \A i \in Ids : /\ msg[i] \in Messages /\ msg[i].sent \in Nat /\ msg[i].len \in Nat
                           /\ msg[i].acked \in 0..Word - 1 /\ msg[i].ack \in Int
<1>1. /\ Typed /\ QueuesTyped /\ MessagesTyped /\ TasksTyped /\ PageTyped /\ ExcusesTyped /\ BuffersTyped
      /\ InOrder /\ Alone /\ Made /\ Stage(t)
  BY DEF Shaped, Typed, StageAll
<1>2. /\ made \in 0..MaxInputs /\ MaxInputs \in Nat /\ piece[t] \in Pieces /\ at[t] \in Labels /\ job[t] \in 0..made
      /\ piece[t].of <= made
  BY <1>1, Bounds DEF MessagesTyped, TasksTyped, Made
<1>3. /\ piece[t].of \in 0..MaxInputs /\ piece[t].from \in Nat /\ piece[t].n \in Nat /\ piece[t].wrote \in Nat
      /\ piece[t].final \in BOOLEAN
  BY <1>2 DEF Pieces
<1>4. piece[t].of \in 0..made /\ (piece[t].of # 0 => piece[t].of \in Ids)
  BY <1>2, <1>3 DEF Ids
<1>5. ASSUME NEW i \in Ids
      PROVE  /\ msg[i] \in Messages /\ msg[i].sent \in Nat /\ msg[i].len \in Nat
             /\ msg[i].acked \in 0..Word - 1 /\ msg[i].ack \in Int
  <2>1. msg[i] \in Messages
    BY <1>1 DEF MessagesTyped
  <2>2. msg[i].len \in Lengths \cup {0} /\ msg[i].sent \in Nat /\ msg[i].acked \in 0..Word - 1 /\ msg[i].ack \in Int
    BY <2>1 DEF Messages
  <2>3. \A n \in Lengths : n \in Nat
    BY ClientAssumption
  <2> QED
    BY <2>1, <2>2, <2>3
<1> QED
  BY <1>1, <1>2, <1>3, <1>4, <1>5

\* What a header or the bytes of a frame do to what is in flight and to the page.
LEMMA HeaderWritten ==
  ASSUME InOrder, PageTyped, Space >= 2, NEW i \in 0..MaxInputs, NEW from \in Nat, NEW n \in Nat,
         NEW final \in BOOLEAN, WriteHeader(i, from, n, final)
  PROVE  InOrder' /\ PageTyped' /\ Space' = Space - 2 /\ InFlight' = InFlight + 2
<1>1. InFlight \in Nat /\ InFlight + 2 <= SndBuf /\ Space = SndBuf - InFlight
  BY SpaceType, Bounds
<1>2. [ctl |-> i = 0, end |-> InFlight + 2] \in Segments
      /\ [ctl |-> i = 0, end |-> InFlight + 2].end = InFlight + 2
  BY <1>1 DEF Segments
<1>3. flight' = Append(flight, [ctl |-> i = 0, end |-> InFlight + 2])
  BY DEF WriteHeader
<1>4. InOrder' /\ InFlight' = InFlight + 2 /\ Space' = SndBuf - (InFlight + 2)
  BY <1>1, <1>2, <1>3, SegmentWritten
<1>5. PageTyped'
  <2>0. (IF from = 0 THEN 0 ELSE rx.got) \in Nat
    <3>0. rx \in Frames
      BY DEF PageTyped
    <3>1. rx.got \in Nat
      BY <3>0 DEF Frames
    <3> QED
      BY <3>1
  <2> DEFINE g == IF from = 0 THEN 0 ELSE rx.got
  <2>1. [need |-> n, final |-> final, of |-> i, got |-> g] \in Frames
    <3> HIDE DEF g
    <3>1. g \in Nat => [need |-> n, final |-> final, of |-> i, got |-> g] \in Frames
      BY DEF Frames
    <3> QED
      BY <2>0, <3>1 DEF g
  <2> QED
    BY <2>1 DEF WriteHeader, PageTyped
<1> QED
  BY <1>1, <1>4, <1>5, Bounds

LEMMA DataWritten ==
  ASSUME InOrder, PageTyped, NEW i \in Ids, NEW from \in Nat, NEW n \in Nat, n > 0, Space >= n,
         WriteData(i, from, n)
  PROVE  InOrder' /\ PageTyped' /\ Space' = Space - n /\ InFlight' = InFlight + n
<1>1. InFlight \in Nat /\ InFlight + n <= SndBuf /\ Space = SndBuf - InFlight
  BY SpaceType, Bounds
<1>2. [ctl |-> FALSE, end |-> InFlight + n] \in Segments
      /\ [ctl |-> FALSE, end |-> InFlight + n].end = InFlight + n
  BY <1>1 DEF Segments
<1>3. flight' = Append(flight, [ctl |-> FALSE, end |-> InFlight + n])
  BY DEF WriteData
<1>4. InOrder' /\ InFlight' = InFlight + n /\ Space' = SndBuf - (InFlight + n)
  BY <1>1, <1>2, <1>3, SegmentWritten
<1>5. PageTyped'
  <2>1. NoFrame \in Frames
    BY Bounds DEF NoFrame, Frames
  <2>2. [rx EXCEPT !.need = 0, !.got = @ + n] \in Frames
    <3>1. rx \in Frames
      BY DEF PageTyped
    <3>2. rx.got + n \in Nat
      BY <3>1 DEF Frames
    <3> QED
      BY <3>1, <3>2 DEF Frames
  <2> QED
    BY <2>1, <2>2 DEF WriteData, PageTyped
<1> QED
  BY <1>1, <1>4, <1>5, Bounds

\* What does not touch the segments.
LEMMA StreamStays ==
  ASSUME InOrder, PageTyped, UNCHANGED stream
  PROVE  InOrder' /\ PageTyped' /\ Space' = Space /\ InFlight' = InFlight
BY DEF stream, InOrder, PageTyped, InFlight, Space

LEMMA FailsType ==
  ASSUME ExcusesTyped, NEW where \in {"control", "header", "data", "output"}, Fails(where)
  PROVE  failed' \subseteq {"control", "header", "data", "output"} /\ failed' = failed \cup {where}
BY DEF ExcusesTyped, Fails

\* After a control frame there is no piece.
LEMMA ControlStage ==
  ASSUME NEW t \in Tasks, at'[t] \in {"output", "stamp", "settle"}, piece'[t] = NoPiece
  PROVE  Stage(t)'
<1>1. NoPiece.of = 0 /\ NoPiece.n = 0 /\ NoPiece.wrote = 0
  BY DEF NoPiece
<1> QED
  BY <1>1 DEF Stage

LEMMA SendControlIsShaped ==
  ASSUME Shaped, Open, NEW t \in Tasks, SendControl(t)
  PROVE  Shaped'
<1>0. /\ at[t] = "control" /\ at[t] \in Sending
      /\ piece' = [piece EXCEPT ![t] = NoPiece]
      /\ UNCHANGED <<queues, messages, buffers, job, timer, crossed, resent, slow, late, early, controls>>
  BY DEF SendControl, Sending
<1>1. Space >= 2 /\ 0 \in 0..MaxInputs
  <2>1. Stage(t) /\ MaxInputs \in Nat
    BY Facts
  <2> QED
    BY <1>0, <2>1 DEF Stage
<1>2. /\ piece' \in [Tasks -> Pieces] /\ piece'[t] = NoPiece /\ piece'[t].of = 0
      /\ \A u \in Tasks : u # t => piece'[u] = piece[u]
  BY <1>0, Facts, NoPieceType DEF TasksTyped
<1>3. /\ InOrder' /\ PageTyped' /\ failed' \subseteq {"control", "header", "data", "output"}
      /\ at' \in [Tasks -> Labels] /\ at'["loop"] # "poll" /\ at'[t] \in {"output", "idle", "unlock"}
      /\ \A u \in Tasks : u # t => at'[u] = at[u]
  <2>1. CASE WriteHeader(0, 0, 0, TRUE) /\ Goto(t, "output") /\ UNCHANGED failed
    <3>1. InOrder' /\ PageTyped'
      BY <1>1, <2>1, Facts, HeaderWritten
    <3>2. "output" \in Labels
      BY DEF Labels, Sending
    <3> QED
      BY <2>1, <3>1, <3>2, Facts, Moved DEF ExcusesTyped
  <2>2. CASE Fails("control") /\ Done(t) /\ UNCHANGED stream
    BY <2>2, Facts, FailsType, DoneMoves, StreamStays
  <2> QED
    BY <2>1, <2>2 DEF SendControl
<1>4. Stage(t)'
  BY <1>2, <1>3 DEF Stage, Sending, Writing, NoPiece
<1>5. /\ msg' \in [Ids -> Messages]
      /\ \A i \in Ids : /\ msg'[i].len = msg[i].len /\ msg'[i].sent <= msg[i].len
                        /\ i # piece[t].of => msg'[i] = msg[i]
  BY <1>0, Facts DEF messages, MessagesTyped, Made
<1> QED
  BY <1>0, <1>2, <1>3, <1>4, <1>5, SendingStep DEF messages

\* The two things that Begin does: it gives up its message or starts a frame.
Stops(t) == Done(t) /\ piece' = [piece EXCEPT ![t] = NoPiece]

Starts(t, i, n) ==
  /\ n > 0 /\ n + 8 <= Space /\ msg[i].sent + n <= msg[i].len
  /\ msg' = [msg EXCEPT ![i].sent = @ + n, ![i].ack = @ + n + 2] /\ Goto(t, "header")
  /\ piece' = [piece EXCEPT ![t] = [of |-> i, from |-> msg[i].sent, n |-> n,
                                    final |-> msg[i].sent + n = msg[i].len, wrote |-> 0]]

LEMMA BeginCases ==
  ASSUME Shaped, Open, NEW t \in Tasks, Begin(t), NEW i, i = piece[t].of
  PROVE  /\ i \in Ids /\ i \in 1..made /\ at[t] = "begin" /\ Space > 8
         /\ UNCHANGED <<queues, made, obj, buffers, job, timer, stream, excuses, controls>>
         /\ \/ (Finished(i) \/ msg[i].acked < msg[i].ack) /\ msg' = msg /\ Stops(t)
            \/ /\ ~Finished(i) /\ msg[i].acked >= msg[i].ack /\ msg[i].sent = msg[i].len
               /\ msg' = [msg EXCEPT ![i].status = IF msg[i].kind = "multi" \/ Between(i) THEN "sent"
                                                   ELSE msg[i].status]
               /\ Stops(t)
            \/ /\ ~Finished(i) /\ msg[i].acked >= msg[i].ack /\ msg[i].sent < msg[i].len
               /\ \E n \in Nat : Starts(t, i, n)
<1>1. at[t] = "begin" /\ i \in Ids /\ i \in 1..made /\ Space > 8
  <2>1. Stage(t) /\ at[t] = "begin" /\ i \in 0..made /\ (i # 0 => i \in Ids) /\ made \in Nat
    <3>1. Stage(t) /\ piece[t].of \in 0..made /\ (piece[t].of # 0 => piece[t].of \in Ids) /\ made \in 0..MaxInputs
      BY Facts
    <3>2. at[t] = "begin"
      BY DEF Begin
    <3>3. made \in Nat
      BY <3>1, Bounds
    <3> QED
      BY <3>1, <3>2, <3>3
  <2>2. i # 0 /\ Space > 8
    BY <2>1 DEF Stage
  <2> QED
    BY <2>1, <2>2
<1>2. msg[i].sent \in Nat /\ msg[i].len \in Nat /\ msg[i].sent <= msg[i].len /\ Space \in Nat
      /\ msg[i].acked \in Nat /\ msg[i].ack \in Int
  BY <1>1, Facts, SpaceType, Bounds DEF Made
<1> DEFINE n == IF Window < msg[i].len - msg[i].sent THEN Window ELSE msg[i].len - msg[i].sent
           stop(s) == /\ msg' = [msg EXCEPT ![i].status = s] /\ Done(t)
                      /\ piece' = [piece EXCEPT ![t] = NoPiece]
<1>3. /\ IF Finished(i) \/ msg[i].acked < msg[i].ack THEN stop(msg[i].status)
         ELSE IF msg[i].sent = msg[i].len
         THEN stop(IF msg[i].kind = "multi" \/ Between(i) THEN "sent" ELSE msg[i].status)
         ELSE /\ msg' = [msg EXCEPT ![i].sent = @ + n, ![i].ack = @ + n + 2]
              /\ piece' = [piece EXCEPT ![t] = [of |-> i, from |-> msg[i].sent, n |-> n,
                                                final |-> msg[i].sent + n = msg[i].len, wrote |-> 0]]
              /\ Goto(t, "header")
      /\ UNCHANGED <<queues, made, obj, buffers, job, timer, stream, excuses, controls>>
  BY DEF Begin, Final
<1>4. CASE Finished(i) \/ msg[i].acked < msg[i].ack
  <2>1. msg' = [msg EXCEPT ![i].status = msg[i].status] /\ Done(t) /\ piece' = [piece EXCEPT ![t] = NoPiece]
    BY <1>3, <1>4
  <2>2. msg[i] \in Messages /\ msg \in [Ids -> Messages]
    BY <1>1, Facts DEF MessagesTyped
  <2>3. [msg[i] EXCEPT !.status = msg[i].status] = msg[i]
    BY <2>2 DEF Messages
  <2>4. msg' = msg
    BY <1>1, <2>1, <2>2, <2>3
  <2> QED
    BY <1>1, <1>3, <1>4, <2>1, <2>4 DEF Stops
<1>5. CASE ~(Finished(i) \/ msg[i].acked < msg[i].ack) /\ msg[i].sent = msg[i].len
  <2>1. stop(IF msg[i].kind = "multi" \/ Between(i) THEN "sent" ELSE msg[i].status)
    BY <1>3, <1>5
  <2> QED
    BY <1>1, <1>2, <1>3, <1>5, <2>1 DEF Stops
<1>6. CASE ~(Finished(i) \/ msg[i].acked < msg[i].ack) /\ msg[i].sent # msg[i].len
  <2>1. /\ msg' = [msg EXCEPT ![i].sent = @ + n, ![i].ack = @ + n + 2]
        /\ piece' = [piece EXCEPT ![t] = [of |-> i, from |-> msg[i].sent, n |-> n,
                                          final |-> msg[i].sent + n = msg[i].len, wrote |-> 0]]
        /\ Goto(t, "header")
    BY <1>3, <1>6
  <2>2. Window = Space - 8
    BY <1>1, <1>2 DEF Window
  <2>3. n \in Nat /\ n > 0 /\ n + 8 <= Space /\ msg[i].sent + n <= msg[i].len /\ msg[i].sent < msg[i].len
    BY <1>1, <1>2, <1>6, <2>2
  <2> QED
    <3>1. ~Finished(i) /\ msg[i].acked >= msg[i].ack
      BY <1>2, <1>6
    <3>2. Starts(t, i, n)
      BY <2>1, <2>3 DEF Starts
    <3> HIDE DEF n
    <3> QED
      BY <1>1, <1>3, <2>3, <3>1, <3>2
<1> QED
  BY <1>4, <1>5, <1>6

LEMMA BeginIsShaped ==
  ASSUME Shaped, Open, NEW t \in Tasks, Begin(t)
  PROVE  Shaped'
<1> DEFINE i == piece[t].of
<1>1. /\ i \in Ids /\ i \in 1..made /\ at[t] = "begin" /\ Space > 8
      /\ UNCHANGED <<queues, made, obj, buffers, job, timer, stream, excuses, controls>>
  BY BeginCases
<1>2. /\ InOrder' /\ PageTyped' /\ Space' = Space
      /\ UNCHANGED <<crossed, resent, early>> /\ failed' \subseteq {"control", "header", "data", "output"}
      /\ at[t] \in Sending
  BY <1>1, Facts, StreamStays DEF excuses, ExcusesTyped, Sending
<1>3. /\ msg[i] \in Messages /\ msg \in [Ids -> Messages] /\ msg[i].sent \in Nat /\ msg[i].len \in Nat
      /\ msg[i].ack \in Int /\ piece \in [Tasks -> Pieces] /\ i \in 0..MaxInputs
      /\ \A j \in Ids : msg[j].sent <= msg[j].len
      /\ Space \in Nat
  <2>1. /\ msg[i] \in Messages /\ msg \in [Ids -> Messages] /\ msg[i].sent \in Nat /\ msg[i].len \in Nat
        /\ msg[i].ack \in Int /\ piece \in [Tasks -> Pieces] /\ \A j \in Ids : msg[j].sent <= msg[j].len
    BY <1>1, Facts DEF MessagesTyped, TasksTyped, Made
  <2>2. i \in 0..MaxInputs /\ Space \in Nat
    BY <1>1, Facts, SpaceType, Bounds DEF Ids
  <2> QED
    BY <2>1, <2>2
<1>4. CASE msg' = msg /\ Done(t) /\ piece' = [piece EXCEPT ![t] = NoPiece]
  <2>1. /\ piece' \in [Tasks -> Pieces] /\ piece'[t] = NoPiece /\ piece'[t].of = 0
        /\ \A u \in Tasks : u # t => piece'[u] = piece[u]
    BY <1>3, <1>4, NoPieceType
  <2>2. /\ at' \in [Tasks -> Labels] /\ at'["loop"] # "poll" /\ at'[t] \in {"idle", "unlock"}
        /\ \A u \in Tasks : u # t => at'[u] = at[u]
    BY <1>4, Facts, DoneMoves
  <2>3. Stage(t)'
    BY <2>1, <2>2, Resting DEF Sending
  <2> QED
    BY <1>1, <1>2, <1>3, <1>4, <2>1, <2>2, <2>3, SendingStep
<1>5. ASSUME NEW s \in {"sending", "sent"},
             msg' = [msg EXCEPT ![i].status = s], Done(t), piece' = [piece EXCEPT ![t] = NoPiece]
      PROVE  Shaped'
  <2>1. /\ piece' \in [Tasks -> Pieces] /\ piece'[t] = NoPiece /\ piece'[t].of = 0
        /\ \A u \in Tasks : u # t => piece'[u] = piece[u]
    BY <1>3, <1>5, NoPieceType
  <2>2. /\ at' \in [Tasks -> Labels] /\ at'["loop"] # "poll" /\ at'[t] \in {"idle", "unlock"}
        /\ \A u \in Tasks : u # t => at'[u] = at[u]
    BY <1>5, Facts, DoneMoves
  <2>3. Stage(t)'
    BY <2>1, <2>2, Resting DEF Sending
  <2>4. [msg[i] EXCEPT !.status = s] \in Messages
    BY <1>3 DEF Messages
  <2>5. msg' = [msg EXCEPT ![i] = [msg[i] EXCEPT !.status = s]]
    BY <1>5
  <2>6. /\ msg' \in [Ids -> Messages]
        /\ \A j \in Ids : /\ msg'[j].len = msg[j].len /\ msg'[j].sent <= msg[j].len
                          /\ j # i => msg'[j] = msg[j]
    <3>1. [msg[i] EXCEPT !.status = s].len = msg[i].len /\ [msg[i] EXCEPT !.status = s].sent = msg[i].sent
      BY <1>3 DEF Messages
    <3> QED
      BY <1>1, <1>3, <2>4, <2>5, <3>1
  <2> QED
    BY <1>1, <1>2, <2>1, <2>2, <2>3, <2>6, SendingStep
<1>6. ASSUME NEW n \in Nat, n > 0, n + 8 <= Space, msg[i].sent + n <= msg[i].len,
             msg' = [msg EXCEPT ![i].sent = @ + n, ![i].ack = @ + n + 2], Goto(t, "header"),
             piece' = [piece EXCEPT ![t] = [of |-> i, from |-> msg[i].sent, n |-> n,
                                            final |-> msg[i].sent + n = msg[i].len, wrote |-> 0]]
      PROVE  Shaped'
  <2> DEFINE p == [of |-> i, from |-> msg[i].sent, n |-> n, final |-> msg[i].sent + n = msg[i].len, wrote |-> 0]
             m == [msg[i] EXCEPT !.sent = @ + n, !.ack = @ + n + 2]
  <2>1. p \in Pieces
    BY <1>3 DEF Pieces
  <2>2. /\ m \in Messages /\ m.len = msg[i].len /\ m.sent = msg[i].sent + n
    <3>1. msg[i].sent + n \in Nat /\ msg[i].ack + n + 2 \in Int
      BY <1>3, <1>6
    <3> QED
      BY <1>3, <3>1 DEF Messages
  <2>3. msg' = [msg EXCEPT ![i] = m]
    BY <1>6
  <2> HIDE DEF m
  <2>4. /\ msg' \in [Ids -> Messages]
        /\ \A j \in Ids : /\ msg'[j].len = msg[j].len /\ msg'[j].sent <= msg[j].len
                          /\ j # i => msg'[j] = msg[j]
        /\ msg'[i].sent = msg[i].sent + n
    <3>1. /\ msg \in [Ids -> Messages] /\ i \in Ids
          /\ \A j \in Ids : msg[j].sent <= msg[j].len
      BY <1>1, <1>3
    <3>2. msg' \in [Ids -> Messages] /\ msg'[i] = m /\ \A j \in Ids : j # i => msg'[j] = msg[j]
      BY <2>2, <2>3, <3>1
    <3>3. msg'[i].len = msg[i].len /\ msg'[i].sent = msg[i].sent + n /\ msg'[i].sent <= msg[i].len
      BY <1>6, <2>2, <3>2
    <3> QED
      BY <3>1, <3>2, <3>3
  <2>5. /\ at' \in [Tasks -> Labels] /\ at'["loop"] # "poll" /\ at'[t] = "header"
        /\ \A u \in Tasks : u # t => at'[u] = at[u]
    <3>1. "header" \in Labels
      BY DEF Labels, Sending
    <3> QED
      BY <1>6, <3>1, Facts, Moved
  <2>6. piece' \in [Tasks -> Pieces] /\ piece'[t] = p /\ \A u \in Tasks : u # t => piece'[u] = piece[u]
    BY <1>3, <1>6, <2>1
  <2>7. /\ p.of = i /\ p.from = msg[i].sent /\ p.n = n /\ p.wrote = 0 /\ i # 0
        /\ p.final = (msg[i].sent + n = msg[i].len)
    BY <1>1, Bounds DEF Ids
  <2> HIDE DEF p, i
  <2>8. Stage(t)'
    BY <1>2, <1>6, <2>4, <2>5, <2>6, <2>7, <1>1 DEF Stage, Sending, Writing
  <2> QED
    BY <1>1, <1>2, <2>4, <2>5, <2>6, <2>7, <2>8, SendingStep DEF i
<1>7. \/ msg' = msg /\ Stops(t)
      \/ \E s \in {"sending", "sent"} : msg' = [msg EXCEPT ![i].status = s] /\ Stops(t)
      \/ \E n \in Nat : Starts(t, i, n)
  <2>1. msg[i].status \in {"sending", "sent"}
    BY <1>3 DEF Messages
  <2> DEFINE s == IF msg[i].kind = "multi" \/ Between(i) THEN "sent" ELSE msg[i].status
  <2>2. s \in {"sending", "sent"}
    BY <2>1
  <2>3. \/ msg' = msg /\ Stops(t)
        \/ msg' = [msg EXCEPT ![i].status = s] /\ Stops(t)
        \/ \E n \in Nat : Starts(t, i, n)
    BY BeginCases
  <2> HIDE DEF s
  <2> QED
    BY <2>2, <2>3
<1> QED
  BY <1>4, <1>5, <1>6, <1>7 DEF Stops, Starts

\* What the writing steps have in common: no count of a message is touched.
LEMMA WriterStep ==
  ASSUME Shaped, Open, NEW t \in Tasks, at[t] \in Sending,
         UNCHANGED <<queues, messages, buffers, job, crossed, resent, early, controls>>,
         failed' = failed \/ (\E where \in {"control", "header", "data", "output"} : Fails(where)),
         NEW l \in Labels \ {"poll"}, Goto(t, l),
         NEW p \in Pieces, p.of = 0 \/ p.of = piece[t].of, piece' = [piece EXCEPT ![t] = p],
         PageTyped', InOrder', Stage(t)'
  PROVE  Shaped'
<1>1. /\ at' \in [Tasks -> Labels] /\ at'["loop"] # "poll" /\ \A u \in Tasks : u # t => at'[u] = at[u]
      /\ piece' \in [Tasks -> Pieces] /\ \A u \in Tasks : u # t => piece'[u] = piece[u]
      /\ piece'[t] = p
  BY Facts, Moved DEF TasksTyped
<1>2. failed' \subseteq {"control", "header", "data", "output"}
  BY Facts, FailsType DEF ExcusesTyped
<1>3. /\ msg' \in [Ids -> Messages]
      /\ \A i \in Ids : /\ msg'[i].len = msg[i].len /\ msg'[i].sent <= msg[i].len
                        /\ i # piece[t].of => msg'[i] = msg[i]
  BY Facts DEF messages, MessagesTyped, Made
<1> QED
  BY <1>1, <1>2, <1>3, SendingStep DEF messages

\* A step of a writing task: the label it leaves.
LEMMA WriterMoves ==
  ASSUME Shaped, NEW t \in Tasks, NEW l \in Labels \ {"poll"}, Goto(t, l)
  PROVE  at'[t] = l
BY Facts, Moved

LEMMA WroteType ==
  ASSUME Shaped, NEW t \in Tasks, NEW n \in Nat
  PROVE  LET p == [piece[t] EXCEPT !.wrote = n]
         IN p \in Pieces /\ p.of = piece[t].of /\ p.from = piece[t].from /\ p.n = piece[t].n
            /\ p.final = piece[t].final /\ p.wrote = n
<1>1. piece[t] \in Pieces
  BY Facts
<1> QED
  BY <1>1 DEF Pieces

LEMMA HeaderCases ==
  ASSUME Shaped, Open, NEW t \in Tasks, SendHeader(t)
  PROVE  /\ at[t] = "header" /\ piece[t].of \in Ids /\ piece[t].n > 0 /\ piece[t].n + 8 <= Space
         /\ piece[t].wrote = 0
         /\ UNCHANGED <<queues, messages, buffers, job, timer, crossed, resent, slow, late, early, controls>>
         /\ \/ /\ WriteHeader(piece[t].of, piece[t].from, piece[t].n, piece[t].final)
               /\ piece' = [piece EXCEPT ![t] = [piece[t] EXCEPT !.wrote = piece[t].n]]
               /\ Goto(t, "data") /\ failed' = failed
            \/ Fails("header") /\ Goto(t, "settle") /\ piece' = piece /\ UNCHANGED stream
<1>1. at[t] = "header" /\ Stage(t) /\ piece[t].n \in Nat /\ Space \in Nat /\ piece[t].of \in 0..made
      /\ (piece[t].of # 0 => piece[t].of \in Ids)
  BY Facts, SpaceType, Bounds DEF SendHeader
<1>2. piece[t].of # 0 /\ piece[t].n > 0 /\ piece[t].n + 8 <= Space /\ piece[t].wrote = 0
  BY <1>1 DEF Stage, Sending, Writing
<1>3. (IF piece[t].n > Space - 2 THEN Space - 2 ELSE piece[t].n) = piece[t].n /\ piece[t].n # 0
  BY <1>1, <1>2
<1> QED
  BY <1>1, <1>2, <1>3 DEF SendHeader

LEMMA SendHeaderIsShaped ==
  ASSUME Shaped, Open, NEW t \in Tasks, SendHeader(t)
  PROVE  Shaped'
<1>1. /\ at[t] = "header" /\ piece[t].of \in Ids /\ piece[t].n > 0 /\ piece[t].n + 8 <= Space
      /\ piece[t].wrote = 0
      /\ UNCHANGED <<queues, messages, buffers, job, timer, crossed, resent, slow, late, early, controls>>
  BY HeaderCases
<1>2. /\ at[t] \in Sending /\ "data" \in Labels \ {"poll"} /\ "settle" \in Labels \ {"poll"} /\ piece[t].n \in Nat
      /\ Space \in Nat /\ piece[t] \in Pieces /\ piece \in [Tasks -> Pieces]
      /\ piece[t].of # 0 /\ piece[t].of \in 0..MaxInputs
      /\ msg'[piece[t].of] = msg[piece[t].of]
  BY <1>1, Facts, SpaceType, Bounds DEF Sending, Labels, TasksTyped, Ids, messages
<1>3. /\ msg[piece[t].of].sent = piece[t].from + piece[t].n
      /\ piece[t].final = (msg[piece[t].of].sent = msg[piece[t].of].len)
  <2>1. Stage(t)
    BY Facts
  <2> QED
    BY <1>1, <1>2, <2>1 DEF Stage, Writing
<1>4. CASE /\ WriteHeader(piece[t].of, piece[t].from, piece[t].n, piece[t].final)
           /\ piece' = [piece EXCEPT ![t] = [piece[t] EXCEPT !.wrote = piece[t].n]]
           /\ Goto(t, "data") /\ failed' = failed
  <2> DEFINE p == [piece[t] EXCEPT !.wrote = piece[t].n]
  <2>1. p \in Pieces /\ p.of = piece[t].of /\ p.from = piece[t].from /\ p.n = piece[t].n
        /\ p.final = piece[t].final /\ p.wrote = piece[t].n
    BY <1>2, WroteType
  <2> HIDE DEF p
  <2>2. InOrder' /\ PageTyped' /\ Space' = Space - 2
    BY <1>1, <1>2, <1>4, Facts, HeaderWritten
  <2>3. at'[t] = "data" /\ piece'[t] = p
    <3>1. at'[t] = "data"
      BY <1>2, <1>4, <2>1, WriterMoves
    <3>2. piece'[t] = p
      BY <1>2, <1>4 DEF p
    <3> QED
      BY <3>1, <3>2
  <2>4. Stage(t)'
    BY <1>1, <1>2, <1>3, <2>1, <2>2, <2>3 DEF Stage, Sending, Writing
  <2> QED
    BY <1>1, <1>2, <1>4, <2>1, <2>2, <2>4, WriterStep DEF p
<1>5. CASE Fails("header") /\ Goto(t, "settle") /\ piece' = piece /\ UNCHANGED stream
  <2>1. InOrder' /\ PageTyped' /\ Space' = Space
    BY <1>5, Facts, StreamStays
  <2>2. piece' = [piece EXCEPT ![t] = piece[t]]
    BY <1>2, <1>5
  <2>3. at'[t] = "settle" /\ piece'[t] = piece[t]
    <3>1. at'[t] = "settle"
      BY <1>2, <1>5, <2>2, WriterMoves
    <3>2. piece'[t] = piece[t]
      BY <1>2, <1>5, <2>2
    <3> QED
      BY <3>1, <3>2
  <2>4. Stage(t)'
    BY <1>1, <1>2, <1>3, <2>1, <2>3 DEF Stage, Sending, Writing
  <2> QED
    BY <1>1, <1>2, <1>5, <2>1, <2>2, <2>4, WriterStep
<1> QED
  BY <1>4, <1>5, HeaderCases

LEMMA SendDataIsShaped ==
  ASSUME Shaped, Open, NEW t \in Tasks, SendData(t)
  PROVE  Shaped'
<1>0. /\ at[t] = "data"
      /\ UNCHANGED <<queues, messages, buffers, job, timer, crossed, resent, slow, late, early, controls>>
  BY DEF SendData
<1>1. /\ at[t] \in Sending /\ "output" \in Labels \ {"poll"} /\ "settle" \in Labels \ {"poll"} /\ piece[t].n \in Nat
      /\ Space \in Nat /\ piece[t] \in Pieces /\ piece \in [Tasks -> Pieces] /\ piece[t].from \in Nat
      /\ piece[t].of \in 0..made /\ (piece[t].of # 0 => piece[t].of \in Ids) /\ 0 \in Nat
  BY <1>0, Facts, SpaceType, Bounds DEF Sending, Labels, TasksTyped, Ids
<1>2. /\ piece[t].of # 0 /\ piece[t].n > 0 /\ piece[t].n <= Space /\ piece[t].wrote = piece[t].n
      /\ msg[piece[t].of].sent = piece[t].from + piece[t].n
      /\ piece[t].final = (msg[piece[t].of].sent = msg[piece[t].of].len)
  <2>1. Stage(t)
    BY Facts
  <2> QED
    BY <1>0, <1>1, <2>1 DEF Stage, Writing
<1>3. msg'[piece[t].of] = msg[piece[t].of]
  BY <1>0 DEF messages
<1>4. CASE WriteData(piece[t].of, piece[t].from, piece[t].wrote) /\ Goto(t, "output") /\ UNCHANGED <<piece, failed>>
  <2>1. InOrder' /\ PageTyped' /\ Space' = Space - piece[t].n
    BY <1>1, <1>2, <1>4, Facts, DataWritten
  <2>2. piece' = [piece EXCEPT ![t] = piece[t]]
    BY <1>1, <1>4
  <2>3. at'[t] = "output" /\ piece'[t] = piece[t]
    <3>1. at'[t] = "output"
      BY <1>1, <1>4, <2>2, WriterMoves
    <3>2. piece'[t] = piece[t]
      BY <1>1, <1>4, <2>2
    <3> QED
      BY <3>1, <3>2
  <2>4. Stage(t)'
    BY <1>1, <1>2, <1>3, <2>1, <2>3 DEF Stage, Sending, Writing
  <2> QED
    BY <1>0, <1>1, <1>4, <2>1, <2>2, <2>4, WriterStep
<1>5. CASE Fails("data") /\ piece' = [piece EXCEPT ![t].wrote = 0] /\ Goto(t, "settle") /\ UNCHANGED stream
  <2> DEFINE p == [piece[t] EXCEPT !.wrote = 0]
  <2>1. p \in Pieces /\ p.of = piece[t].of /\ p.from = piece[t].from /\ p.n = piece[t].n
        /\ p.final = piece[t].final /\ p.wrote = 0
    BY <1>1, WroteType
  <2>2. InOrder' /\ PageTyped' /\ Space' = Space
    BY <1>5, Facts, StreamStays
  <2>3. piece' = [piece EXCEPT ![t] = p]
    BY <1>5
  <2> HIDE DEF p
  <2>4. at'[t] = "settle" /\ piece'[t] = p
    <3>1. at'[t] = "settle"
      BY <1>1, <1>5, <2>1, <2>3, WriterMoves
    <3>2. piece'[t] = p
      BY <1>1, <1>5, <2>1, <2>3
    <3> QED
      BY <3>1, <3>2
  <2>5. Stage(t)'
    BY <1>1, <1>2, <1>3, <2>1, <2>2, <2>4 DEF Stage, Sending, Writing
  <2> QED
    BY <1>0, <1>1, <1>5, <2>1, <2>2, <2>3, <2>5, WriterStep
<1> QED
  BY <1>4, <1>5 DEF SendData

\* A stage after the bytes are written may be left for the next one.
LEMMA Later ==
  ASSUME Shaped, NEW t \in Tasks, at[t] \in {"output", "stamp"}, at'[t] \in {"stamp", "settle"},
         NEW n \in {0, piece[t].n}, at'[t] = "stamp" => n = piece[t].n,
         piece'[t] = [piece[t] EXCEPT !.wrote = n] \/ (n = piece[t].n /\ piece'[t] = piece[t]), msg' = msg
  PROVE  piece[t].of # 0 => Stage(t)'
<1>1. Stage(t) /\ piece[t] \in Pieces /\ piece[t].n \in Nat
  BY Facts
<1> SUFFICES ASSUME piece[t].of # 0 PROVE Stage(t)'
  OBVIOUS
<1>2. /\ piece[t].n > 0 /\ msg[piece[t].of].sent = piece[t].from + piece[t].n /\ piece[t].wrote = piece[t].n
      /\ piece[t].final = (msg[piece[t].of].sent = msg[piece[t].of].len)
  BY <1>1 DEF Stage, Writing
<1>3. /\ piece'[t].of = piece[t].of /\ piece'[t].from = piece[t].from /\ piece'[t].n = piece[t].n
      /\ piece'[t].final = piece[t].final /\ piece'[t].wrote = n
  BY <1>1, <1>2 DEF Pieces
<1> QED
  BY <1>1, <1>2, <1>3 DEF Stage, Sending, Writing

LEMMA OutputIsShaped ==
  ASSUME Shaped, Open, NEW t \in Tasks, Output(t)
  PROVE  Shaped'
<1>0. /\ at[t] = "output"
      /\ UNCHANGED <<queues, messages, buffers, job, stamp, ahead, stream, crossed, resent, slow, late,
                     early, controls>>
  BY DEF Output
<1>1. /\ at[t] \in Sending /\ "stamp" \in Labels \ {"poll"} /\ "settle" \in Labels \ {"poll"}
      /\ piece[t] \in Pieces /\ piece \in [Tasks -> Pieces] /\ Stage(t) /\ 0 \in Nat
      /\ InOrder' /\ PageTyped' /\ msg' = msg
  BY <1>0, Facts, StreamStays DEF Sending, Labels, TasksTyped, messages
<1>2. (piece[t].of = 0 => piece[t] = NoPiece) /\ piece[t].wrote = piece[t].n
  BY <1>0, <1>1 DEF Stage
<1>3. CASE Goto(t, "stamp") /\ UNCHANGED <<piece, failed>>
  <2>1. piece' = [piece EXCEPT ![t] = piece[t]]
    BY <1>1, <1>3
  <2>2. at'[t] = "stamp" /\ piece'[t] = piece[t]
    <3>1. at'[t] = "stamp"
      BY <1>1, <1>3, <2>1, WriterMoves
    <3>2. piece'[t] = piece[t]
      BY <1>1, <1>3, <2>1
    <3> QED
      BY <3>1, <3>2
  <2>3. ASSUME piece[t].of = 0 PROVE Stage(t)'
    BY <1>2, <2>2, <2>3, ControlStage
  <2>4. ASSUME piece[t].of # 0 PROVE Stage(t)'
    BY <1>0, <1>1, <2>2, <2>4, Later
  <2> QED
    BY <1>0, <1>1, <1>3, <2>1, <2>3, <2>4, WriterStep
<1>4. CASE Fails("output") /\ piece' = [piece EXCEPT ![t].wrote = 0] /\ Goto(t, "settle")
  <2> DEFINE p == [piece[t] EXCEPT !.wrote = 0]
  <2>1. p \in Pieces /\ p.of = piece[t].of
    BY <1>1, WroteType
  <2>2. piece' = [piece EXCEPT ![t] = p]
    BY <1>4
  <2>3. at'[t] = "settle" /\ piece'[t] = p
    <3> HIDE DEF p
    <3> QED
      BY <1>1, <1>4, <2>1, <2>2, WriterMoves
  <2>4. ASSUME piece[t].of = 0 PROVE Stage(t)'
    <3>1. p = NoPiece
      BY <1>2, <2>4 DEF NoPiece
    <3> QED
      BY <2>3, <3>1, ControlStage
  <2>5. ASSUME piece[t].of # 0 PROVE Stage(t)'
    BY <1>0, <1>1, <2>3, <2>5, Later
  <2> HIDE DEF p
  <2> QED
    BY <1>0, <1>1, <1>4, <2>1, <2>2, <2>4, <2>5, WriterStep
<1> QED
  BY <1>3, <1>4 DEF Output

LEMMA StampIsShaped ==
  ASSUME Shaped, Open, NEW t \in Tasks, Stamp(t)
  PROVE  Shaped'
<1>0. /\ at[t] = "stamp" /\ Goto(t, "settle")
      /\ UNCHANGED <<queues, messages, buffers, job, piece, busy, stream, excuses, controls>>
  BY DEF Stamp
<1>1. /\ at[t] \in Sending /\ "settle" \in Labels \ {"poll"}
      /\ piece[t] \in Pieces /\ piece \in [Tasks -> Pieces] /\ Stage(t)
      /\ InOrder' /\ PageTyped' /\ msg' = msg /\ UNCHANGED <<crossed, resent, early, failed>>
  BY <1>0, Facts, StreamStays DEF Sending, Labels, TasksTyped, messages, excuses
<1>2. (piece[t].of = 0 => piece[t] = NoPiece) /\ piece[t].wrote = piece[t].n
  BY <1>0, <1>1 DEF Stage
<1>3. piece' = [piece EXCEPT ![t] = piece[t]]
  BY <1>0, <1>1
<1>4. at'[t] = "settle" /\ piece'[t] = piece[t]
  <2>1. at'[t] = "settle"
    BY <1>0, <1>1, <1>3, WriterMoves
  <2>2. piece'[t] = piece[t]
    BY <1>0, <1>1, <1>3
  <2> QED
    BY <2>1, <2>2
<1>5. ASSUME piece[t].of = 0 PROVE Stage(t)'
  BY <1>2, <1>4, <1>5, ControlStage
<1>6. ASSUME piece[t].of # 0 PROVE Stage(t)'
  BY <1>0, <1>1, <1>2, <1>4, <1>6, Later
<1> QED
  BY <1>0, <1>1, <1>3, <1>5, <1>6, WriterStep

\* What Settle does to the counts.
Settled(t, i) ==
  /\ i \in Ids /\ piece[t].wrote \in {0, piece[t].n} /\ piece[t].n > 0
  /\ msg[i].sent = piece[t].from + piece[t].n
  /\ piece[t].final = (msg[i].sent = msg[i].len)
  /\ msg' \in [Ids -> Messages] /\ \A j \in Ids : j # i => msg'[j] = msg[j]
  /\ msg'[i] = [msg[i] EXCEPT !.status = "sending", !.sent = piece[t].from + piece[t].wrote,
                              !.ack = @ - (piece[t].n - piece[t].wrote)]

LEMMA SettleCases ==
  ASSUME Shaped, Open, NEW t \in Tasks, Settle(t), NEW i, i = piece[t].of
  PROVE  /\ at[t] = "settle" /\ Stops(t)
         /\ UNCHANGED <<queues, made, obj, buffers, job, timer, stream, excuses, controls>>
         /\ (i = 0 \/ obj[i] = "deleted") => msg' = msg
         /\ ~(i = 0 \/ obj[i] = "deleted") => Settled(t, i)
<1>1. /\ at[t] = "settle" /\ Stops(t)
      /\ UNCHANGED <<queues, made, obj, buffers, job, timer, stream, excuses, controls>>
      /\ msg' = IF i = 0 \/ obj[i] = "deleted" THEN msg
                ELSE [msg EXCEPT ![i].status = "sending", ![i].sent = @ - (piece[t].n - piece[t].wrote),
                                 ![i].ack = @ - (piece[t].n - piece[t].wrote)]
  BY DEF Settle, Stops
<1>2. CASE i # 0 /\ obj[i] # "deleted"
  <2>1. /\ i \in Ids /\ piece[t].n \in Nat /\ piece[t].from \in Nat /\ piece[t].wrote \in Nat /\ Stage(t)
        /\ msg \in [Ids -> Messages] /\ msg[i] \in Messages /\ msg[i].ack \in Int
    BY <1>2, Facts DEF MessagesTyped
  <2>2. /\ piece[t].wrote \in {0, piece[t].n} /\ piece[t].n > 0
        /\ msg[i].sent = piece[t].from + piece[t].n
        /\ piece[t].final = (msg[i].sent = msg[i].len)
    BY <1>1, <1>2, <2>1 DEF Stage, Writing
  <2> DEFINE m == [msg[i] EXCEPT !.status = "sending", !.sent = piece[t].from + piece[t].wrote,
                                 !.ack = @ - (piece[t].n - piece[t].wrote)]
  <2>3. msg[i].sent - (piece[t].n - piece[t].wrote) = piece[t].from + piece[t].wrote
    BY <2>1, <2>2
  <2>4. msg' = [msg EXCEPT ![i].status = "sending", ![i].sent = @ - (piece[t].n - piece[t].wrote),
                           ![i].ack = @ - (piece[t].n - piece[t].wrote)]
    BY <1>1, <1>2
  <2>5. msg' = [msg EXCEPT ![i] = m]
    BY <2>1, <2>3, <2>4 DEF Messages
  <2>6. m \in Messages
    <3>1. piece[t].from + piece[t].wrote \in Nat /\ msg[i].ack - (piece[t].n - piece[t].wrote) \in Int
      BY <2>1
    <3> QED
      BY <2>1, <3>1 DEF Messages
  <2> HIDE DEF m
  <2>7. msg' \in [Ids -> Messages] /\ msg'[i] = m /\ \A j \in Ids : j # i => msg'[j] = msg[j]
    BY <2>1, <2>5, <2>6
  <2> QED
    BY <1>1, <1>2, <2>1, <2>2, <2>7 DEF m, Settled
<1> QED
  BY <1>1, <1>2

LEMMA SettleIsShaped ==
  ASSUME Shaped, Open, NEW t \in Tasks, Settle(t)
  PROVE  Shaped'
<1> DEFINE i == piece[t].of
<1>1. /\ at[t] = "settle" /\ Stops(t)
      /\ UNCHANGED <<queues, made, obj, buffers, job, timer, stream, excuses, controls>>
  BY SettleCases
<1>2. /\ InOrder' /\ PageTyped' /\ UNCHANGED <<crossed, resent, early>> /\ at[t] \in Sending
      /\ failed' \subseteq {"control", "header", "data", "output"}
  BY <1>1, Facts, StreamStays DEF excuses, ExcusesTyped, Sending
<1>3. /\ piece' \in [Tasks -> Pieces] /\ piece'[t] = NoPiece /\ piece'[t].of = 0
      /\ \A u \in Tasks : u # t => piece'[u] = piece[u]
  BY <1>1, Facts, NoPieceType DEF TasksTyped, Stops
<1>4. /\ at' \in [Tasks -> Labels] /\ at'["loop"] # "poll" /\ at'[t] \in {"idle", "unlock"}
      /\ \A u \in Tasks : u # t => at'[u] = at[u]
  BY <1>1, Facts, DoneMoves DEF Stops
<1>5. Stage(t)'
  BY <1>3, <1>4, Resting DEF Sending
<1>6. /\ msg \in [Ids -> Messages] /\ \A j \in Ids : msg[j].sent <= msg[j].len
  BY Facts DEF MessagesTyped, Made
<1>7. CASE i = 0 \/ obj[i] = "deleted"
  <2>1. msg' = msg
    BY <1>7, SettleCases
  <2> QED
    BY <1>1, <1>2, <1>3, <1>4, <1>5, <1>6, <2>1, SendingStep
<1>8. CASE ~(i = 0 \/ obj[i] = "deleted")
  <2>0. Settled(t, i)
    BY <1>8, SettleCases
  <2>1. Settled(t, i) /\ i \in Ids
    BY <2>0 DEF Settled
  <2>2. msg[i] \in Messages /\ piece[t].from \in Nat /\ msg[i].len \in Nat
    BY <2>1, Facts
  <2>3. msg'[i].len = msg[i].len /\ msg'[i].sent = piece[t].from + piece[t].wrote
    BY <2>1, <2>2 DEF Messages, Settled
  <2>4. msg'[i].sent <= msg[i].len
    <3>1. piece[t].wrote \in {0, piece[t].n} /\ piece[t].n > 0 /\ piece[t].n \in Nat
          /\ piece[t].from + piece[t].n <= msg[i].len
      BY <1>6, <2>1, Facts DEF Settled
    <3> QED
      BY <2>2, <2>3, <3>1
  <2> QED
    <3>1. /\ msg' \in [Ids -> Messages]
          /\ \A j \in Ids : /\ msg'[j].len = msg[j].len /\ msg'[j].sent <= msg[j].len
                            /\ j # i => msg'[j] = msg[j]
      BY <1>6, <2>1, <2>3, <2>4 DEF Settled
    <3> QED
      BY <1>1, <1>2, <1>3, <1>4, <1>5, <3>1, SendingStep
<1> QED
  BY <1>7, <1>8

\* What a task may do that does not send.
LEMMA RestingStep ==
  ASSUME Shaped, Open, NEW t \in Tasks, at[t] \notin Sending, at'[t] \notin Sending,
         at' \in [Tasks -> Labels], at'["loop"] # "poll", \A u \in Tasks : u # t => at'[u] = at[u],
         piece' = piece, made' \in Nat, made' >= made, job' \in [Tasks -> 0..made'], crossed' = crossed,
         QueuesTyped', MessagesTyped', BuffersTyped', PageTyped', ExcusesTyped', InOrder', Space' \in Int, Space' >= Space,
         \A i \in Ids : i <= made => msg'[i].sent = msg[i].sent /\ msg'[i].len = msg[i].len,
         \A i \in Ids : i > made' => msg'[i] = NoMessage /\ obj'[i] = "none" /\ buf'[i] = "none" /\ ~locked'[i],
         \A i \in Ids : i > made /\ i <= made' => msg'[i].len \in Lengths /\ msg'[i].sent <= msg'[i].len
  PROVE  Shaped'
<1>1. TasksTyped'
  BY Facts DEF TasksTyped
<1>2. Alone'
  BY AloneStays DEF Shaped, Open
<1>3. Made'
  <2>1. made \in Nat /\ \A i \in Ids : i \in Nat
    BY Facts, Bounds DEF Ids
  <2>2. \A i \in Ids : i > made \/ i <= made
    BY <2>1
  <2>3. \A i \in Ids : msg'[i].sent <= msg'[i].len /\ (i <= made' => msg'[i].len \in Lengths)
    <3> SUFFICES ASSUME NEW i \in Ids
                 PROVE  msg'[i].sent <= msg'[i].len /\ (i <= made' => msg'[i].len \in Lengths)
      OBVIOUS
    <3>1. CASE i <= made
      BY <3>1, Facts DEF Made
    <3>2. CASE i > made /\ i <= made'
      BY <3>2
    <3>3. CASE i > made'
      BY <2>1, <3>3 DEF NoMessage
    <3> QED
      BY <2>1, <3>1, <3>2, <3>3
  <2>4. \A u \in Tasks : piece'[u].of <= made'
    BY <2>1, Facts DEF Made
  <2> QED
    BY <2>3, <2>4 DEF Made
<1>4. Stage(t)'
  <2>1. piece[t] = NoPiece
    BY Facts DEF Stage
  <2> QED
    BY <2>1, Resting
<1>5. \A u \in Tasks : u # t => Stage(u)'
  BY OthersStay
<1> QED
  BY <1>1, <1>2, <1>3, <1>4, <1>5 DEF Shaped, Typed, StageAll

\* What Enqueue does to the queue, and where the task goes.
LEMMA EnqueueType ==
  ASSUME Shaped, NEW t \in Tasks, at[t] # "poll", made' \in Nat, made' >= made, NEW i \in 1..made', i \in Ids,
         Enqueue(t, i)
  PROVE  /\ msgs' \in Seq(1..made') /\ Len(msgs') <= MaxQueued
         /\ obj' \in [Ids -> {"none", "alive", "deleted"}] /\ \A j \in Ids : j # i => obj'[j] = obj[j]
         /\ at' \in [Tasks -> Labels] /\ at'["loop"] # "poll" /\ at'[t] \in {"choose", "idle", "unlock"}
         /\ \A u \in Tasks : u # t => at'[u] = at[u]
         /\ \/ msgs' = msgs /\ obj' = obj
            \/ msgs' = Append(msgs, i) /\ obj' = [obj EXCEPT ![i] = "alive"]
<1>1. /\ msgs \in Seq(1..made) /\ Len(msgs) \in Nat /\ Len(msgs) <= MaxQueued /\ made \in Nat
      /\ obj \in [Ids -> {"none", "alive", "deleted"}]
  BY Facts, SeqFacts, Bounds DEF QueuesTyped, MessagesTyped
<1>2. msgs \in Seq(1..made')
  <2>1. 1..made \subseteq 1..made'
    BY <1>1
  <2> QED
    BY <1>1, <2>1, SeqMonotonic
<1>3. /\ \/ msgs' = msgs /\ obj' = obj
         \/ msgs' = Append(msgs, i) /\ obj' = [obj EXCEPT ![i] = "alive"] /\ Len(msgs) < MaxQueued
      /\ Goto(t, "choose") \/ Done(t)
  BY DEF Enqueue
<1>4. "choose" \in Labels
  BY DEF Labels
<1>5. /\ at' \in [Tasks -> Labels] /\ at'["loop"] # "poll" /\ at'[t] \in {"choose", "idle", "unlock"}
      /\ \A u \in Tasks : u # t => at'[u] = at[u]
  <2>1. CASE Goto(t, "choose")
    BY <1>4, <2>1, Facts, Moved
  <2>2. CASE Done(t)
    BY <2>2, Facts, DoneMoves
  <2> QED
    BY <1>3, <2>1, <2>2
<1>6. CASE msgs' = msgs /\ obj' = obj
  BY <1>1, <1>2, <1>5, <1>6
<1>7. CASE msgs' = Append(msgs, i) /\ obj' = [obj EXCEPT ![i] = "alive"] /\ Len(msgs) < MaxQueued
  <2>1. msgs' \in Seq(1..made') /\ Len(msgs') = Len(msgs) + 1
    BY <1>2, <1>7, AppendProperties
  <2>2. Len(msgs') <= MaxQueued
    BY <1>1, <1>7, <2>1, Bounds
  <2> QED
    BY <1>1, <1>5, <1>7, <2>1, <2>2
<1> QED
  BY <1>3, <1>6, <1>7

\* A message is made: the next one, fresh.
LEMMA MakeType ==
  ASSUME Shaped, NEW t \in Tasks, NEW kind \in {"basic", "multi"}, NEW len \in Lengths, Make(t, kind, len)
  PROVE  /\ made' = made + 1 /\ made' \in 0..MaxInputs /\ made' \in Ids /\ made' \in 1..made'
         /\ msg' \in [Ids -> Messages] /\ \A i \in Ids : i # made' => msg'[i] = msg[i]
         /\ msg'[made'].sent = 0 /\ msg'[made'].len = len /\ msg'[made'].ack = 0 /\ msg'[made'].acked = 0
         /\ msg'[made'].status = "sending" /\ msg'[made'].kind = kind
         /\ made \in Nat /\ made' > made
<1>1. made \in Nat /\ made' = made + 1 /\ msg \in [Ids -> Messages] /\ MaxInputs \in Nat
  BY Facts, Bounds DEF Make, MessagesTyped
<1>2. made' \in 0..MaxInputs /\ made' \in Ids
  <2>1. made + controls + Cardinality(failed) < MaxInputs /\ controls \in Nat
    BY Facts DEF Make, MayGoOn, ExcusesTyped
  <2>2. Cardinality(failed) \in Nat
    <3>1. IsFiniteSet(failed)
      <4>1. IsFiniteSet({"control", "header", "data", "output"})
        <5>1. IsFiniteSet({} \cup {"control"})
          BY FS_EmptySet, FS_AddElement
        <5>2. IsFiniteSet(({} \cup {"control"}) \cup {"header"})
          BY <5>1, FS_AddElement
        <5>3. IsFiniteSet((({} \cup {"control"}) \cup {"header"}) \cup {"data"})
          BY <5>2, FS_AddElement
        <5>4. IsFiniteSet(((({} \cup {"control"}) \cup {"header"}) \cup {"data"}) \cup {"output"})
          BY <5>3, FS_AddElement
        <5>5. {"control", "header", "data", "output"}
                = ((({} \cup {"control"}) \cup {"header"}) \cup {"data"}) \cup {"output"}
          OBVIOUS
        <5> QED
          BY <5>4, <5>5
      <4> QED
        BY <4>1, Facts, FS_Subset DEF ExcusesTyped
    <3> QED
      BY <3>1, FS_CardinalityType
  <2> QED
    BY <1>1, <2>1, <2>2 DEF Ids
<1>3. NoMessage.sent = 0 /\ [NoMessage EXCEPT !.kind = kind, !.len = len] \in Messages
  <2>1. 0 \in 0..Word - 1
    BY Bounds
  <2>2. NoMessage \in Messages /\ NoMessage.sent = 0
    BY <2>1 DEF NoMessage, Messages
  <2>3. [NoMessage EXCEPT !.kind = kind, !.len = len] \in Messages
    BY <2>2 DEF Messages
  <2> QED
    BY <2>2, <2>3
<1>4. msg' = [msg EXCEPT ![made'] = [NoMessage EXCEPT !.kind = kind, !.len = len]]
  BY DEF Make
<1>5. /\ [NoMessage EXCEPT !.kind = kind, !.len = len].sent = 0
      /\ [NoMessage EXCEPT !.kind = kind, !.len = len].len = len
      /\ [NoMessage EXCEPT !.kind = kind, !.len = len].ack = 0
      /\ [NoMessage EXCEPT !.kind = kind, !.len = len].acked = 0
      /\ [NoMessage EXCEPT !.kind = kind, !.len = len].status = "sending"
      /\ [NoMessage EXCEPT !.kind = kind, !.len = len].kind = kind
  BY DEF NoMessage
<1>6. /\ msg' \in [Ids -> Messages] /\ \A i \in Ids : i # made' => msg'[i] = msg[i]
      /\ msg'[made'] = [NoMessage EXCEPT !.kind = kind, !.len = len]
  BY <1>1, <1>2, <1>3, <1>4
<1> QED
  BY <1>1, <1>2, <1>5, <1>6

LEMMA TextIsShaped ==
  ASSUME Shaped, NEW len \in Lengths, Text(len)
  PROVE  Shaped'
<1> DEFINE t == "async_tcp"
<1>0. /\ Open /\ at[t] = "idle" /\ Make(t, "basic", len) /\ Enqueue(t, made') /\ t \in Tasks /\ at[t] # "poll"
      /\ UNCHANGED <<status, ctl, buffers, job, piece, timer, stream, excuses, controls>>
  BY DEF Text, Idle, Tasks
<1> HIDE DEF t
<1>1. /\ made' = made + 1 /\ made' \in 0..MaxInputs /\ made' \in Ids /\ made' \in 1..made' /\ made \in Nat
      /\ msg' \in [Ids -> Messages] /\ \A i \in Ids : i # made' => msg'[i] = msg[i]
      /\ msg'[made'].sent = 0 /\ msg'[made'].len = len /\ made' > made /\ made' \in Nat
  <2>1. "basic" \in {"basic", "multi"} /\ "multi" \in {"basic", "multi"}
    OBVIOUS
  <2> QED
    BY <1>0, <2>1, MakeType
<1>2. /\ msgs' \in Seq(1..made') /\ Len(msgs') <= MaxQueued
      /\ obj' \in [Ids -> {"none", "alive", "deleted"}] /\ \A j \in Ids : j # made' => obj'[j] = obj[j]
      /\ at' \in [Tasks -> Labels] /\ at'["loop"] # "poll" /\ at'[t] \in {"choose", "idle", "unlock"}
      /\ \A u \in Tasks : u # t => at'[u] = at[u]
  BY <1>0, <1>1, EnqueueType
<1>3. /\ InOrder' /\ PageTyped' /\ Space' = Space /\ Space \in Int
  BY <1>0, Facts, StreamStays, SpaceType, Bounds
<1>4. QueuesTyped' /\ MessagesTyped' /\ BuffersTyped' /\ ExcusesTyped' /\ crossed' = crossed
  BY <1>0, <1>1, <1>2, Facts DEF QueuesTyped, MessagesTyped, BuffersTyped, ExcusesTyped, buffers, excuses
<1>5. job' \in [Tasks -> 0..made']
  <2>1. job \in [Tasks -> 0..made] /\ 0..made \subseteq 0..made'
    BY <1>0, <1>1, Facts DEF TasksTyped
  <2> QED
    BY <1>0, <2>1
<1>6. /\ \A i \in Ids : i <= made => msg'[i] = msg[i]
      /\ \A i \in Ids : i > made' => msg'[i] = NoMessage /\ obj'[i] = "none" /\ buf'[i] = "none" /\ ~locked'[i]
      /\ \A i \in Ids : i > made /\ i <= made' => i = made'
  <2>1. \A i \in Ids : i \in Nat /\ (i <= made => i # made') /\ (i > made' => i # made' /\ i > made)
                       /\ (i > made /\ i <= made' => i = made')
    BY <1>1, Bounds DEF Ids
  <2> QED
    BY <1>0, <1>1, <1>2, <2>1, Facts DEF Made, buffers
<1>7. at[t] \notin Sending /\ at'[t] \notin Sending
  BY <1>0, <1>2 DEF Sending
<1>8. piece' = piece /\ \A i \in Ids : i > made /\ i <= made' => msg'[i].len \in Lengths /\ msg'[i].sent <= msg'[i].len
  <2>1. 0 <= len
    BY ClientAssumption
  <2> QED
    BY <1>0, <1>1, <1>6, <2>1
<1>9. \A i \in Ids : i <= made => msg'[i].sent = msg[i].sent /\ msg'[i].len = msg[i].len
  BY <1>6
<1>10. made' >= made /\ Space' >= Space /\ Space' \in Int
  BY <1>1, <1>3
<1> QED
  BY <1>0, <1>1, <1>2, <1>3, <1>4, <1>5, <1>6, <1>7, <1>8, <1>9, <1>10, RestingStep

LEMMA MakeBufferIsShaped ==
  ASSUME Shaped, NEW t \in Tasks, NEW len \in Lengths, MakeBuffer(t, len)
  PROVE  Shaped'
<1>0. /\ Open /\ at[t] = "idle" /\ Make(t, "multi", len) /\ Goto(t, "made")
      /\ buf' = [buf EXCEPT ![made'] = "made"] /\ job' = [job EXCEPT ![t] = made']
      /\ UNCHANGED <<queues, obj, locked, piece, timer, stream, excuses, controls>>
  BY DEF MakeBuffer, Idle
<1>1. /\ made' = made + 1 /\ made' \in 0..MaxInputs /\ made' \in Ids /\ made' \in 1..made' /\ made \in Nat
      /\ msg' \in [Ids -> Messages] /\ \A i \in Ids : i # made' => msg'[i] = msg[i]
      /\ msg'[made'].sent = 0 /\ msg'[made'].len = len /\ made' > made /\ made' \in Nat
  <2>1. "basic" \in {"basic", "multi"} /\ "multi" \in {"basic", "multi"}
    OBVIOUS
  <2> QED
    BY <1>0, <2>1, MakeType
<1>2. /\ at' \in [Tasks -> Labels] /\ at'["loop"] # "poll" /\ at'[t] = "made"
      /\ \A u \in Tasks : u # t => at'[u] = at[u]
  <2>1. "made" \in Labels
    BY DEF Labels
  <2> QED
    BY <1>0, <2>1, Facts, Moved
<1>3. /\ InOrder' /\ PageTyped' /\ Space' = Space /\ Space \in Int
  BY <1>0, Facts, StreamStays, SpaceType, Bounds
<1>4. QueuesTyped' /\ MessagesTyped' /\ BuffersTyped' /\ ExcusesTyped' /\ crossed' = crossed
  <2>1. msgs' \in Seq(1..made')
    <3>1. 1..made \subseteq 1..made'
      BY <1>1
    <3> QED
      BY <1>0, <3>1, Facts, SeqMonotonic DEF QueuesTyped, queues
  <2>2. buf' \in [Ids -> {"none", "made", "freed"}]
    BY <1>0, <1>1, Facts DEF BuffersTyped
  <2> QED
    BY <1>0, <1>1, <2>1, <2>2, Facts DEF QueuesTyped, MessagesTyped, BuffersTyped, ExcusesTyped, queues, excuses
<1>5. job' \in [Tasks -> 0..made']
  <2>1. job \in [Tasks -> 0..made] /\ 0..made \subseteq 0..made' /\ made' \in 0..made'
    BY <1>0, <1>1, Facts DEF TasksTyped
  <2> QED
    BY <1>0, <2>1
<1>6. /\ \A i \in Ids : i <= made => msg'[i] = msg[i]
      /\ \A i \in Ids : i > made' => msg'[i] = NoMessage /\ obj'[i] = "none" /\ buf'[i] = "none" /\ ~locked'[i]
      /\ \A i \in Ids : i > made /\ i <= made' => i = made'
  <2>1. \A i \in Ids : i \in Nat /\ (i <= made => i # made') /\ (i > made' => i # made' /\ i > made)
                       /\ (i > made /\ i <= made' => i = made')
    BY <1>1, Bounds DEF Ids
  <2>2. \A i \in Ids : i # made' => buf'[i] = buf[i]
    BY <1>0, Facts DEF BuffersTyped
  <2> QED
    BY <1>0, <1>1, <2>1, <2>2, Facts DEF Made
<1>7. at[t] \notin Sending /\ at'[t] \notin Sending
  BY <1>0, <1>2 DEF Sending
<1>8. piece' = piece /\ \A i \in Ids : i > made /\ i <= made' => msg'[i].len \in Lengths /\ msg'[i].sent <= msg'[i].len
  <2>1. 0 <= len
    BY ClientAssumption
  <2> QED
    BY <1>0, <1>1, <1>6, <2>1
<1>9. \A i \in Ids : i <= made => msg'[i].sent = msg[i].sent /\ msg'[i].len = msg[i].len
  BY <1>6
<1>10. made' >= made /\ Space' >= Space /\ Space' \in Int
  BY <1>1, <1>3
<1> QED
  BY <1>0, <1>1, <1>2, <1>3, <1>4, <1>5, <1>6, <1>7, <1>8, <1>9, <1>10, RestingStep

\* What makes no message.
LEMMA NothingMade ==
  ASSUME Shaped, Open, NEW t \in Tasks, at[t] \notin Sending, at'[t] \notin Sending,
         at' \in [Tasks -> Labels], at'["loop"] # "poll", \A u \in Tasks : u # t => at'[u] = at[u],
         piece' = piece, made' = made, job' \in [Tasks -> 0..made], crossed' = crossed,
         QueuesTyped', MessagesTyped', BuffersTyped', PageTyped', ExcusesTyped', InOrder',
         Space' \in Int, Space' >= Space,
         \A i \in Ids : msg'[i].sent = msg[i].sent /\ msg'[i].len = msg[i].len,
         \A i \in Ids : i > made => msg'[i] = msg[i] /\ obj'[i] = obj[i] /\ buf'[i] = buf[i] /\ ~locked'[i]
  PROVE  Shaped'
<1>1. made \in Nat /\ made' >= made /\ \A i \in Ids : ~(i > made /\ i <= made)
  BY Facts, Bounds DEF Ids
<1>2. \A i \in Ids : i > made' => msg'[i] = NoMessage /\ obj'[i] = "none" /\ buf'[i] = "none" /\ ~locked'[i]
  BY Facts DEF Made
<1> QED
  BY <1>1, <1>2, RestingStep

LEMMA LockBufferIsShaped ==
  ASSUME Shaped, Open, NEW t \in Tasks, LockBuffer(t), at[t] = "made" => job[t] # 0
  PROVE  Shaped'
<1>0. /\ at[t] = "made" /\ Goto(t, "queue") /\ locked' = [locked EXCEPT ![job[t]] = TRUE]
      /\ early' = (early \/ buf[job[t]] = "freed")
      /\ UNCHANGED <<queues, messages, buf, job, piece, timer, stream, crossed, resent, failed, slow, late,
                     controls>>
  BY DEF LockBuffer
<1>1. /\ at' \in [Tasks -> Labels] /\ at'["loop"] # "poll" /\ at'[t] = "queue"
      /\ \A u \in Tasks : u # t => at'[u] = at[u]
  <2>1. "queue" \in Labels
    BY DEF Labels
  <2> QED
    BY <1>0, <2>1, Facts, Moved
<1>2. job[t] \in 1..made /\ made \in Nat /\ job[t] \in Ids
  BY <1>0, Facts DEF Ids
<1>3. InOrder' /\ PageTyped' /\ Space' = Space /\ Space \in Int
  BY <1>0, Facts, StreamStays, SpaceType, Bounds
<1>4. QueuesTyped' /\ MessagesTyped' /\ BuffersTyped' /\ ExcusesTyped' /\ job' \in [Tasks -> 0..made] /\ made' = made
  BY <1>0, Facts DEF QueuesTyped, MessagesTyped, BuffersTyped, ExcusesTyped, TasksTyped, queues, messages
<1>5. /\ \A i \in Ids : msg'[i].sent = msg[i].sent /\ msg'[i].len = msg[i].len
      /\ \A i \in Ids : i > made => msg'[i] = msg[i] /\ obj'[i] = obj[i] /\ buf'[i] = buf[i] /\ ~locked'[i]
  <2>1. \A i \in Ids : i > made => i # job[t]
    BY <1>2 DEF Ids
  <2> QED
    BY <1>0, <2>1, Facts DEF Made, BuffersTyped, messages
<1>6. at[t] \notin Sending /\ at'[t] \notin Sending /\ crossed' = crossed /\ piece' = piece
  BY <1>0, <1>1 DEF Sending
<1> QED
  BY <1>1, <1>3, <1>4, <1>5, <1>6, NothingMade

LEMMA QueueBufferIsShaped ==
  ASSUME Shaped, Open, NEW t \in Tasks, QueueBuffer(t), at[t] = "queue" => job[t] # 0
  PROVE  Shaped'
<1>0. /\ at[t] = "queue" /\ Enqueue(t, job[t]) /\ at[t] # "poll"
      /\ UNCHANGED <<status, ctl, made, msg, buffers, job, piece, timer, stream, excuses, controls>>
  BY DEF QueueBuffer
<1>1. job[t] \in 1..made' /\ made \in Nat /\ job[t] \in Ids /\ made' = made /\ made' >= made
      /\ job[t] \in 1..made /\ made' \in Nat
  BY <1>0, Facts, Bounds DEF Ids
<1>2. /\ msgs' \in Seq(1..made') /\ Len(msgs') <= MaxQueued
      /\ obj' \in [Ids -> {"none", "alive", "deleted"}] /\ \A j \in Ids : j # job[t] => obj'[j] = obj[j]
      /\ at' \in [Tasks -> Labels] /\ at'["loop"] # "poll" /\ at'[t] \in {"choose", "idle", "unlock"}
      /\ \A u \in Tasks : u # t => at'[u] = at[u]
  BY <1>0, <1>1, EnqueueType
<1>3. InOrder' /\ PageTyped' /\ Space' = Space /\ Space \in Int
  BY <1>0, Facts, StreamStays, SpaceType, Bounds
<1>4. QueuesTyped' /\ MessagesTyped' /\ BuffersTyped' /\ ExcusesTyped' /\ job' \in [Tasks -> 0..made]
  BY <1>0, <1>1, <1>2, Facts DEF QueuesTyped, MessagesTyped, BuffersTyped, ExcusesTyped, TasksTyped, buffers, excuses
<1>5. /\ \A i \in Ids : msg'[i].sent = msg[i].sent /\ msg'[i].len = msg[i].len
      /\ \A i \in Ids : i > made => msg'[i] = msg[i] /\ obj'[i] = obj[i] /\ buf'[i] = buf[i] /\ ~locked'[i]
  <2>1. \A i \in Ids : i > made => i # job[t]
    BY <1>1 DEF Ids
  <2> QED
    BY <1>0, <1>2, <2>1, Facts DEF Made, buffers
<1>6. at[t] \notin Sending /\ at'[t] \notin Sending /\ crossed' = crossed /\ piece' = piece
  BY <1>0, <1>2 DEF Sending, excuses
<1>7. made' = made /\ Space' >= Space /\ Space' \in Int
  BY <1>1, <1>3
<1> QED
  BY <1>2, <1>3, <1>4, <1>5, <1>6, <1>7, NothingMade

\* _cleanBuffers frees what is made and no message uses.
LEMMA CleanedType ==
  ASSUME BuffersTyped, NEW alive, NEW locks, buf' = Cleaned(alive, locks)
  PROVE  /\ buf' \in [Ids -> {"none", "made", "freed"}]
         /\ \A i \in Ids : /\ buf[i] # "made" => buf'[i] = buf[i]
                           /\ buf'[i] # buf[i] => i \notin alive /\ ~locks[i]
BY DEF BuffersTyped, Cleaned

LEMMA UnlockBufferIsShaped ==
  ASSUME Shaped, Open, NEW t \in Tasks, UnlockBuffer(t)
  PROVE  Shaped'
<1>0. /\ at[t] = "unlock" /\ Goto(t, "idle") /\ locked' = [locked EXCEPT ![job[t]] = FALSE]
      /\ buf' = Cleaned(Alive, locked') /\ job' = [job EXCEPT ![t] = 0]
      /\ UNCHANGED <<queues, messages, piece, timer, stream, excuses, controls>>
  BY DEF UnlockBuffer
<1>1. /\ at' \in [Tasks -> Labels] /\ at'["loop"] # "poll" /\ at'[t] = "idle"
      /\ \A u \in Tasks : u # t => at'[u] = at[u]
  <2>1. "idle" \in Labels
    BY DEF Labels
  <2> QED
    BY <1>0, <2>1, Facts, Moved
<1>2. InOrder' /\ PageTyped' /\ Space' = Space /\ Space \in Int
  BY <1>0, Facts, StreamStays, SpaceType, Bounds
<1>3. /\ buf' \in [Ids -> {"none", "made", "freed"}] /\ locked' \in [Ids -> BOOLEAN]
      /\ \A i \in Ids : buf[i] # "made" => buf'[i] = buf[i]
      /\ \A i \in Ids : ~locked[i] => ~locked'[i]
  <2>1. BuffersTyped /\ locked \in [Ids -> BOOLEAN]
    BY Facts DEF BuffersTyped
  <2>2. /\ buf' \in [Ids -> {"none", "made", "freed"}]
        /\ \A i \in Ids : buf[i] # "made" => buf'[i] = buf[i]
    BY <1>0, <2>1, CleanedType
  <2>3. locked' \in [Ids -> BOOLEAN] /\ \A i \in Ids : ~locked[i] => ~locked'[i]
    BY <1>0, <2>1
  <2> QED
    BY <2>2, <2>3
<1>4. QueuesTyped' /\ MessagesTyped' /\ BuffersTyped' /\ ExcusesTyped' /\ made' = made
  BY <1>0, <1>3, Facts DEF QueuesTyped, MessagesTyped, BuffersTyped, ExcusesTyped, queues, messages, excuses
<1>5. job' \in [Tasks -> 0..made]
  <2>1. 0 \in 0..made /\ job \in [Tasks -> 0..made]
    BY Facts, Bounds DEF TasksTyped
  <2> QED
    BY <1>0, <2>1
<1>6. /\ \A i \in Ids : msg'[i].sent = msg[i].sent /\ msg'[i].len = msg[i].len
      /\ \A i \in Ids : i > made => msg'[i] = msg[i] /\ obj'[i] = obj[i] /\ buf'[i] = buf[i] /\ ~locked'[i]
  BY <1>0, <1>3, Facts DEF Made, messages
<1>7. at[t] \notin Sending /\ at'[t] \notin Sending /\ crossed' = crossed /\ piece' = piece
  BY <1>0, <1>1 DEF Sending, excuses
<1> QED
  BY <1>1, <1>2, <1>3, <1>4, <1>5, <1>6, <1>7, NothingMade

LEMMA ModType ==
  ASSUME NEW a \in Int
  PROVE  a % Word \in 0..Word - 1 /\ a % Word \in Nat /\ (a >= 0 /\ a < Word => a % Word = a)
<1>1. a % Word \in 0..Word - 1
  BY Bounds
<1>2. ASSUME a >= 0, a < Word PROVE a % Word = a
  BY <1>2, Bounds
<1> QED
  BY <1>1, <1>2, Bounds

\* What async_tcp does that leaves the messages and buffers alone.
LEMMA EventStep ==
  ASSUME Shaped, Open, at["async_tcp"] \notin Sending,
         NEW l \in Labels \ Sending, Goto("async_tcp", l),
         UNCHANGED <<msgs, messages, buffers, job, piece, stream, crossed, resent, failed, early>>,
         status' \in {"connected", "disconnecting", "disconnected"}, ctl' \in Seq(Controls), controls' \in Nat
  PROVE  Shaped'
<1> DEFINE t == "async_tcp"
<1>0. t \in Tasks /\ t = "async_tcp"
  BY DEF Tasks
<1>1. /\ at' \in [Tasks -> Labels] /\ at'["loop"] # "poll" /\ at'[t] = l
      /\ \A u \in Tasks : u # t => at'[u] = at[u]
  BY <1>0, Facts, Moved
<1> HIDE DEF t
<1>2. InOrder' /\ PageTyped' /\ Space' = Space /\ Space \in Int
  BY <1>0, Facts, StreamStays, SpaceType, Bounds
<1>3. QueuesTyped' /\ MessagesTyped' /\ BuffersTyped' /\ ExcusesTyped' /\ job' \in [Tasks -> 0..made]
  BY <1>0, Facts DEF QueuesTyped, MessagesTyped, BuffersTyped, ExcusesTyped, TasksTyped, messages, buffers
<1>4. /\ \A i \in Ids : msg'[i].sent = msg[i].sent /\ msg'[i].len = msg[i].len
      /\ \A i \in Ids : i > made => msg'[i] = msg[i] /\ obj'[i] = obj[i] /\ buf'[i] = buf[i] /\ ~locked'[i]
  BY <1>0, Facts DEF Made, messages, buffers
<1>5. at[t] \notin Sending /\ at'[t] \notin Sending /\ crossed' = crossed /\ piece' = piece /\ made' = made
      /\ Space' >= Space /\ Space' \in Int
  BY <1>0, <1>1, <1>2 DEF messages
<1> QED
  BY <1>0, <1>1, <1>2, <1>3, <1>4, <1>5, NothingMade

LEMMA EventLabels ==
  /\ {"idle", "choose", "poll"} \subseteq Labels \ Sending
  /\ "async_tcp" \in Tasks /\ "loop" \in Tasks
BY DEF Labels, Sending, Tasks

LEMMA PollIsShaped ==
  ASSUME Shaped, Poll
  PROVE  Shaped'
<1>1. /\ Open /\ at["async_tcp"] = "idle" /\ Goto("async_tcp", "poll") /\ "poll" \in Labels \ Sending
      /\ at["async_tcp"] \notin Sending
      /\ UNCHANGED <<queues, messages, buffers, job, piece, busy, stamp, stream, excuses, controls>>
  BY EventLabels DEF Poll, Idle, Sending
<1>2. /\ status' \in {"connected", "disconnecting", "disconnected"} /\ ctl' \in Seq(Controls) /\ controls' \in Nat
      /\ UNCHANGED <<msgs, crossed, resent, failed, early>>
  BY <1>1, EventLabels, Facts DEF QueuesTyped, ExcusesTyped, queues, excuses
<1> QED
  BY <1>1, <1>2, EventStep

LEMMA PollTimerIsShaped ==
  ASSUME Shaped, PollTimer
  PROVE  Shaped'
<1>1. /\ Open /\ at["async_tcp"] = "poll" /\ at["async_tcp"] \notin Sending
      /\ UNCHANGED <<msgs, ctl, messages, buffers, job, piece, stamp, stream, excuses, controls>>
      /\ status' = status \/ status' = "disconnected"
      /\ \E l \in {"idle", "choose"} : Goto("async_tcp", l)
  BY DEF PollTimer, Sending, Close
<1>2. /\ status' \in {"connected", "disconnecting", "disconnected"} /\ ctl' \in Seq(Controls) /\ controls' \in Nat
      /\ UNCHANGED <<crossed, resent, failed, early>>
  BY <1>1, EventLabels, Facts DEF QueuesTyped, ExcusesTyped, excuses
<1>3. PICK l \in {"idle", "choose"} : Goto("async_tcp", l)
  BY <1>1
<1>4. l \in Labels \ Sending
  BY EventLabels
<1> QED
  BY <1>1, <1>2, <1>3, <1>4, EventStep

LEMMA SecondsIsShaped ==
  ASSUME Shaped, Seconds
  PROVE  Shaped'
<1>1. /\ Open /\ at["async_tcp"] = "idle" /\ at["async_tcp"] \notin Sending
      /\ UNCHANGED <<queues, messages, buffers, at, job, piece, busy, ahead, stream, crossed, resent, failed,
                     late, early, controls>>
  BY EventLabels DEF Seconds, Idle, Sending
<1>2. at' = [at EXCEPT !["async_tcp"] = "idle"]
  BY <1>1, EventLabels, Facts DEF TasksTyped
<1>3. /\ status' \in {"connected", "disconnecting", "disconnected"} /\ ctl' \in Seq(Controls) /\ controls' \in Nat
      /\ msgs' = msgs
  BY <1>1, EventLabels, Facts DEF QueuesTyped, ExcusesTyped, queues
<1>4. "idle" \in Labels \ Sending /\ Goto("async_tcp", "idle")
  BY <1>2, EventLabels DEF Goto
<1> QED
  BY <1>1, <1>3, <1>4, EventStep

LEMMA QueueControlIsShaped ==
  ASSUME Shaped, NEW op \in {"pong", "close"}, QueueControl(op),
         status' \in {"connected", "disconnecting", "disconnected"}
  PROVE  Shaped'
<1>1. /\ Open /\ at["async_tcp"] = "idle" /\ at["async_tcp"] \notin Sending /\ controls' = controls + 1
      /\ ctl' = Append(ctl, [op |-> op, finished |-> FALSE])
      /\ UNCHANGED <<msgs, messages, buffers, job, piece, timer, stream, excuses>>
      /\ \E l \in {"idle", "choose"} : Goto("async_tcp", l)
  BY DEF QueueControl, Idle, Sending
<1>2. ctl' \in Seq(Controls) /\ controls' \in Nat /\ UNCHANGED <<crossed, resent, failed, early>>
  <2>1. ctl \in Seq(Controls) /\ controls \in Nat
    BY EventLabels, Facts DEF QueuesTyped, ExcusesTyped
  <2>2. [op |-> op, finished |-> FALSE] \in Controls
    BY DEF Controls
  <2> QED
    BY <1>1, <2>1, <2>2, AppendProperties DEF excuses
<1>3. PICK l \in {"idle", "choose"} : Goto("async_tcp", l)
  BY <1>1
<1>4. l \in Labels \ Sending
  BY EventLabels
<1> QED
  BY <1>1, <1>2, <1>3, <1>4, EventStep

\* An acknowledgement: how much of what is in flight, and what becomes of the head message.
Settling(n) == IF ctl # <<>> /\ Head(ctl).finished THEN (n - 2) % Word ELSE n

LEMMA AckCases ==
  ASSUME Shaped, Ack
  PROVE  /\ Open /\ at["async_tcp"] = "idle" /\ flight # <<>>
         /\ \E n \in Nat : /\ n > 0 /\ OnAck(n) /\ InOrder' /\ InFlight' = InFlight - n /\ Space' = Space + n
                           /\ n <= InFlight
                           /\ \E k \in 0..Len(flight) :
                                /\ Len(flight') = Len(flight) - k
                                /\ \A j \in 1..Len(flight) - k : flight'[j] = [flight[j + k] EXCEPT !.end = @ - n]
                                /\ IF k = 0 THEN ~flight[1].ctl /\ n < flight[1].end ELSE n = flight[k].end
<1>0. /\ InOrder /\ Open /\ at["async_tcp"] = "idle" /\ flight # <<>>
      /\ Len(flight) \in Nat /\ Len(flight) # 0 /\ flight \in Seq(Segments) /\ Head(flight) = flight[1]
      /\ \A j \in 1..Len(flight) : flight[j].end \in Nat /\ flight[j].end > 0 /\ flight[j].end <= flight[Len(flight)].end
      /\ InFlight = flight[Len(flight)].end
  <2>1. InOrder /\ Open /\ at["async_tcp"] = "idle" /\ flight # <<>> /\ flight \in Seq(Segments)
    BY DEF Ack, Idle, Shaped, InOrder
  <2>2. /\ Len(flight) \in Nat /\ Len(flight) # 0
        /\ \A j \in 1..Len(flight) : flight[j].end \in Nat /\ flight[j].end > 0
        /\ \A j, k \in 1..Len(flight) : j < k => flight[j].end < flight[k].end
    BY <2>1, SegmentsAre
  <2>3. \A j \in 1..Len(flight) : flight[j].end <= flight[Len(flight)].end
    BY <2>2
  <2>4. Head(flight) = flight[1]
    BY <2>1, SeqFacts
  <2> QED
    BY <2>1, <2>2, <2>3, <2>4 DEF InFlight
<1>1. ASSUME NEW k \in 1..Len(flight), Rest(k, flight[k].end), OnAck(flight[k].end)
      PROVE  \E n \in Nat : /\ n > 0 /\ OnAck(n) /\ InOrder' /\ InFlight' = InFlight - n /\ Space' = Space + n
                            /\ n <= InFlight
                            /\ \E m \in 0..Len(flight) :
                                 /\ Len(flight') = Len(flight) - m
                                 /\ \A j \in 1..Len(flight) - m : flight'[j] = [flight[j + m] EXCEPT !.end = @ - n]
                                 /\ IF m = 0 THEN ~flight[1].ctl /\ n < flight[1].end ELSE n = flight[m].end
  <2> DEFINE n == flight[k].end
  <2>1. k \in 0..Len(flight) /\ k # 0 /\ n \in Nat /\ n > 0 /\ n <= InFlight
    BY <1>0
  <2>2. /\ InOrder' /\ InFlight' = InFlight - n /\ Space' = Space + n
        /\ Len(flight') = Len(flight) - k
        /\ \A j \in 1..Len(flight) - k : flight'[j] = [flight[j + k] EXCEPT !.end = @ - n]
    BY <1>0, <1>1, <2>1, SegmentsLeft
  <2> QED
    BY <1>1, <2>1, <2>2
<1>2. ASSUME ~flight[1].ctl, NEW n \in Parts \cap 1..flight[1].end - 1, Rest(0, n), OnAck(n)
      PROVE  \E p \in Nat : /\ p > 0 /\ OnAck(p) /\ InOrder' /\ InFlight' = InFlight - p /\ Space' = Space + p
                            /\ p <= InFlight
                            /\ \E m \in 0..Len(flight) :
                                 /\ Len(flight') = Len(flight) - m
                                 /\ \A j \in 1..Len(flight) - m : flight'[j] = [flight[j + m] EXCEPT !.end = @ - p]
                                 /\ IF m = 0 THEN ~flight[1].ctl /\ p < flight[1].end ELSE p = flight[m].end
  <2>1. 0 \in 0..Len(flight) /\ n \in Nat /\ n > 0 /\ n <= InFlight /\ n < flight[1].end
    <3>1. 1 \in 1..Len(flight)
      BY <1>0
    <3>2. flight[1].end \in Nat /\ flight[1].end <= InFlight
      BY <1>0, <3>1
    <3> QED
      BY <1>0, <3>2
  <2>2. /\ InOrder' /\ InFlight' = InFlight - n /\ Space' = Space + n
        /\ Len(flight') = Len(flight) - 0
        /\ \A j \in 1..Len(flight) - 0 : flight'[j] = [flight[j + 0] EXCEPT !.end = @ - n]
    BY <1>0, <1>2, <2>1, SegmentsLeft
  <2> QED
    BY <1>2, <2>1, <2>2
<1> QED
  BY <1>0, <1>1, <1>2 DEF Ack

LEMMA OnAckCases ==
  ASSUME Shaped, NEW n \in Nat, OnAck(n)
  PROVE  /\ UNCHANGED <<msgs, made, obj, locked, job, piece, rx, received, broken, crossed, resent, failed,
                        early, controls>>
         /\ ctl' = (IF ctl # <<>> /\ Head(ctl).finished THEN Tail(ctl) ELSE ctl)
         /\ \/ status' = "disconnected" /\ Goto("async_tcp", "idle") /\ UNCHANGED <<msg, buf>>
            \/ /\ status' = status /\ Goto("async_tcp", "choose") /\ buf' = Cleaned(Alive, locked)
               /\ \/ msg' = msg /\ (Settling(n) = 0 \/ msgs = <<>>)
                  \/ msgs # <<>> /\ Settling(n) # 0 /\ msg' = Acknowledged(Head(msgs), Settling(n))
BY DEF OnAck, Close, Settling

LEMMA AcknowledgedType ==
  ASSUME Shaped, NEW i \in Ids, NEW n \in Int, msg' = Acknowledged(i, n)
  PROVE  /\ msg' \in [Ids -> Messages] /\ \A j \in Ids : j # i => msg'[j] = msg[j]
         /\ msg'[i].acked = (msg[i].acked + n) % Word /\ msg'[i].sent = msg[i].sent /\ msg'[i].len = msg[i].len
         /\ msg'[i].ack = msg[i].ack /\ msg'[i].kind = msg[i].kind
         /\ msg'[i].status = IF IF msg[i].kind = "multi"
                                THEN msg[i].sent >= msg[i].len /\ msg'[i].acked >= msg[i].ack
                                ELSE msg[i].sent = msg[i].len /\ msg'[i].acked = msg[i].ack
                             THEN "sent" ELSE msg[i].status
<1> DEFINE a == (msg[i].acked + n) % Word
           whole == IF msg[i].kind = "multi" THEN msg[i].sent >= msg[i].len /\ a >= msg[i].ack
                                             ELSE msg[i].sent = msg[i].len /\ a = msg[i].ack
           s == IF whole THEN "sent" ELSE msg[i].status
           m == [msg[i] EXCEPT !.acked = a, !.status = s]
<1>1. msg \in [Ids -> Messages] /\ msg[i] \in Messages /\ msg[i].acked + n \in Int
  <2>1. msg \in [Ids -> Messages] /\ msg[i] \in Messages /\ msg[i].acked \in 0..Word - 1
    BY EventLabels, Facts DEF MessagesTyped
  <2> QED
    BY <2>1, Bounds
<1>2. a \in 0..Word - 1
  BY <1>1, ModType
<1>3. s \in {"sending", "sent"}
  BY <1>1 DEF Messages
<1>4. msg' = [msg EXCEPT ![i].acked = a, ![i].status = s]
  BY DEF Acknowledged
<1>5. msg' = [msg EXCEPT ![i] = m]
  <2> HIDE DEF a, s
  <2> QED
    BY <1>1, <1>4
<1>6. /\ m \in Messages /\ m.acked = a /\ m.status = s /\ m.sent = msg[i].sent /\ m.len = msg[i].len
      /\ m.ack = msg[i].ack /\ m.kind = msg[i].kind
  <2> HIDE DEF a, s
  <2> QED
    BY <1>1, <1>2, <1>3 DEF Messages
<1> HIDE DEF m
<1>7. msg' \in [Ids -> Messages] /\ msg'[i] = m /\ \A j \in Ids : j # i => msg'[j] = msg[j]
  BY <1>1, <1>5, <1>6
<1> QED
  BY <1>6, <1>7

LEMMA AckIsShaped ==
  ASSUME Shaped, Ack
  PROVE  Shaped'
<1> DEFINE t == "async_tcp"
<1>0. t \in Tasks /\ Open /\ at[t] = "idle" /\ flight # <<>> /\ t = "async_tcp"
  BY EventLabels, AckCases
<1>1. PICK n \in Nat : n > 0 /\ OnAck(n) /\ InOrder' /\ Space' = Space + n
  BY AckCases
<1>2. /\ UNCHANGED <<msgs, made, obj, locked, job, piece, rx, received, broken, crossed, resent, failed,
                     early, controls>>
      /\ ctl' = (IF ctl # <<>> /\ Head(ctl).finished THEN Tail(ctl) ELSE ctl)
      /\ \/ status' = "disconnected" /\ Goto("async_tcp", "idle") /\ UNCHANGED <<msg, buf>>
         \/ /\ status' = status /\ Goto("async_tcp", "choose") /\ buf' = Cleaned(Alive, locked)
            /\ \/ msg' = msg
               \/ msgs # <<>> /\ Settling(n) # 0 /\ msg' = Acknowledged(Head(msgs), Settling(n))
  BY <1>1, OnAckCases
<1> HIDE DEF t
<1>3. /\ at' \in [Tasks -> Labels] /\ at'["loop"] # "poll" /\ at'[t] \in {"idle", "choose"}
      /\ \A u \in Tasks : u # t => at'[u] = at[u]
  BY <1>0, <1>2, Facts, Moved, EventLabels
<1>4. ctl' \in Seq(Controls)
  BY <1>0, <1>2, Facts, SeqFacts DEF QueuesTyped
<1>5. /\ msg' \in [Ids -> Messages]
      /\ \A i \in Ids : msg'[i].sent = msg[i].sent /\ msg'[i].len = msg[i].len
      /\ \A i \in Ids : i > made => msg'[i] = msg[i]
  <2>1. CASE msg' = msg
    BY <1>0, <2>1, Facts DEF MessagesTyped
  <2>2. CASE msgs # <<>> /\ Settling(n) # 0 /\ msg' = Acknowledged(Head(msgs), Settling(n))
    <3>1. Head(msgs) \in Ids /\ Head(msgs) \in 1..made /\ made \in Nat
      <4>1. Head(msgs) \in 1..made /\ made \in 0..MaxInputs
        BY <1>0, <2>2, Facts, SeqFacts DEF QueuesTyped
      <4> QED
        BY <4>1, Bounds DEF Ids
    <3>2. Settling(n) \in Int
      BY ModType DEF Settling
    <3>3. /\ msg' \in [Ids -> Messages] /\ \A j \in Ids : j # Head(msgs) => msg'[j] = msg[j]
          /\ msg'[Head(msgs)].sent = msg[Head(msgs)].sent /\ msg'[Head(msgs)].len = msg[Head(msgs)].len
      BY <2>2, <3>1, <3>2, AcknowledgedType
    <3>4. \A i \in Ids : i > made => i # Head(msgs)
      BY <3>1 DEF Ids
    <3> QED
      BY <3>3, <3>4
  <2> QED
    BY <1>2, <2>1, <2>2
<1>6. /\ buf' \in [Ids -> {"none", "made", "freed"}]
      /\ \A i \in Ids : buf[i] # "made" => buf'[i] = buf[i]
  BY <1>0, <1>2, Facts, CleanedType DEF BuffersTyped
<1>7. QueuesTyped' /\ MessagesTyped' /\ BuffersTyped' /\ ExcusesTyped' /\ PageTyped' /\ job' \in [Tasks -> 0..made]
  BY <1>0, <1>2, <1>4, <1>5, <1>6, Facts
     DEF QueuesTyped, MessagesTyped, BuffersTyped, ExcusesTyped, PageTyped, TasksTyped
<1>8. \A i \in Ids : i > made => msg'[i] = msg[i] /\ obj'[i] = obj[i] /\ buf'[i] = buf[i] /\ ~locked'[i]
  BY <1>0, <1>2, <1>5, <1>6, Facts DEF Made
<1>9. at[t] \notin Sending /\ at'[t] \notin Sending /\ crossed' = crossed /\ piece' = piece /\ made' = made
  BY <1>0, <1>2, <1>3 DEF Sending
<1>10. Space' \in Int /\ Space' >= Space
  BY <1>0, <1>1, Facts, SpaceType, Bounds
<1> QED
  BY <1>0, <1>1, <1>3, <1>5, <1>7, <1>8, <1>9, <1>10, NothingMade

----------------------------------------------------------------------------
(* What is queued is alive, and only its head is sent *)

Fresh(i) == msg[i].status = "sending" /\ msg[i].sent = 0 /\ msg[i].ack = 0 /\ msg[i].acked = 0

Queued ==
  /\ \A j, k \in 1..Len(msgs) : msgs[j] = msgs[k] => j = k
  /\ \A i \in Ids : obj[i] = "alive" <=> \E k \in 1..Len(msgs) : msgs[k] = i
  /\ \A k \in 1..Len(msgs) : k > 1 => Fresh(msgs[k])
  /\ \A t \in Tasks : at[t] \in {"made", "queue"} => Fresh(job[t]) /\ obj[job[t]] = "none"
  /\ \A t \in Tasks : at[t] \in {"made", "queue", "unlock"} => job[t] # 0
  /\ job["loop"] = job["async_tcp"] => job["loop"] = 0
  /\ \A t \in Tasks : piece[t].of # 0 =>
       \/ obj[piece[t].of] = "deleted"
       \/ msgs # <<>> /\ piece[t].of = Head(msgs)

\* A locked buffer stays until its message is queued, and then as long as the message does.
Guarded ==
  /\ \A t \in Tasks : at[t] = "queue" => locked[job[t]] /\ (buf[job[t]] # "freed" \/ early)
  /\ BufferOutlivesMessages

LEMMA QueueFacts ==
  ASSUME Shaped
  PROVE  /\ msgs \in Seq(1..made) /\ Len(msgs) \in Nat /\ (msgs = <<>> <=> Len(msgs) = 0) /\ made \in Nat
         /\ \A k \in 1..Len(msgs) : msgs[k] \in 1..made /\ msgs[k] \in Ids /\ msgs[k] # 0
         /\ msgs # <<>> => /\ 1 \in 1..Len(msgs) /\ Head(msgs) = msgs[1] /\ Head(msgs) \in Ids
                           /\ Head(msgs) \in 1..made
         /\ \A t \in Tasks : job[t] \in 0..made /\ (job[t] # 0 => job[t] \in Ids)
         /\ \A t \in Tasks : piece[t].of \in 0..made /\ (piece[t].of # 0 => piece[t].of \in Ids)
<1>1. made \in 0..MaxInputs /\ msgs \in Seq(1..made)
  BY Facts, EventLabels DEF QueuesTyped
<1>2. \A i \in 1..made : i \in Ids /\ i # 0
  BY <1>1, Bounds DEF Ids
<1>3. /\ Len(msgs) \in Nat /\ (msgs = <<>> <=> Len(msgs) = 0) /\ \A k \in 1..Len(msgs) : msgs[k] \in 1..made
      /\ msgs # <<>> => 1 \in 1..Len(msgs) /\ Head(msgs) = msgs[1] /\ Head(msgs) \in 1..made
  BY <1>1, SeqFacts
<1>4. \A t \in Tasks : job[t] \in 0..made /\ (job[t] # 0 => job[t] \in Ids)
  <2>1. \A t \in Tasks : job[t] \in 0..made
    BY Facts
  <2>2. \A i \in 0..made : i # 0 => i \in 1..made
    BY <1>1
  <2> QED
    BY <1>2, <2>1, <2>2
<1> QED
  BY <1>1, <1>2, <1>3, <1>4, Facts, Bounds

\* What leaves the queue alone and changes no message but its head and deleted ones.
LEMMA QueuedStays ==
  ASSUME Shaped, Queued, NEW t \in Tasks, msgs' = msgs, obj' = obj,
         \A u \in Tasks : piece'[u].of = 0 \/ piece'[u].of = piece[u].of,
         \A i \in Ids : msg'[i] = msg[i] \/ (msgs # <<>> /\ i = Head(msgs)) \/ obj[i] = "deleted",
         \A u \in Tasks : u # t => at'[u] = at[u],
         at'[t] \in {"made", "queue"} => at[t] \in {"made", "queue"},
         at'[t] = "unlock" => job[t] # 0,
         \A u \in Tasks : job'[u] = job[u] \/ (u = t /\ job'[u] = 0 /\ at'[u] = "idle")
  PROVE  Queued'
<1>1. \A k \in 1..Len(msgs) : k > 1 => Fresh(msgs[k])'
  <2> SUFFICES ASSUME NEW k \in 1..Len(msgs), k > 1 PROVE Fresh(msgs[k])'
    OBVIOUS
  <2>1. msgs[k] \in Ids /\ obj[msgs[k]] = "alive" /\ Head(msgs) = msgs[1] /\ 1 \in 1..Len(msgs) /\ k # 1
        /\ Fresh(msgs[k])
    BY QueueFacts DEF Queued
  <2>2. msgs[k] # Head(msgs)
    BY <2>1 DEF Queued
  <2>3. msg'[msgs[k]] = msg[msgs[k]] /\ msgs'[k] = msgs[k]
    BY <2>1, <2>2
  <2> QED
    BY <2>1, <2>3 DEF Fresh
<1>2. ASSUME NEW u \in Tasks, at'[u] \in {"made", "queue"}
      PROVE  Fresh(job[u])' /\ obj'[job'[u]] = "none"
  <2>1. at[u] \in {"made", "queue"} /\ job'[u] = job[u] /\ job[u] # 0 /\ job[u] \in Ids
    BY <1>2, QueueFacts DEF Queued
  <2>2. obj[job[u]] = "none" /\ Fresh(job[u])
    BY <2>1 DEF Queued
  <2>3. msgs # <<>> => job[u] # Head(msgs)
    BY <2>1, <2>2, QueueFacts DEF Queued
  <2>4. msg'[job[u]] = msg[job[u]]
    BY <2>1, <2>2, <2>3
  <2> QED
    BY <2>1, <2>2, <2>4 DEF Fresh
<1>3. \A u \in Tasks : at'[u] \in {"made", "queue", "unlock"} => job'[u] # 0
  BY DEF Queued
<1>4. job'["loop"] = job'["async_tcp"] => job'["loop"] = 0
  BY EventLabels DEF Queued
<1> QED
  BY <1>1, <1>2, <1>3, <1>4 DEF Queued

LEMMA GuardedStays ==
  ASSUME Guarded, early => early',
         \A i \in Ids : obj'[i] = "alive" /\ buf'[i] = "freed" /\ ~early' => obj[i] = "alive",
         \A i \in Ids : buf'[i] = "freed" => buf[i] = "freed" \/ (obj[i] # "alive" /\ ~locked[i]),
         \A u \in Tasks : at'[u] = "queue" =>
           \/ at[u] = "queue" /\ job'[u] = job[u] /\ job[u] \in Ids /\ locked'[job[u]] = locked[job[u]]
           \/ locked'[job'[u]] /\ (buf'[job'[u]] # "freed" \/ early')
  PROVE  Guarded'
<1>1. BufferOutlivesMessages'
  BY DEF Guarded, BufferOutlivesMessages
<1>2. ASSUME NEW u \in Tasks, at'[u] = "queue"
      PROVE  locked'[job'[u]] /\ (buf'[job'[u]] # "freed" \/ early')
  BY <1>2 DEF Guarded
<1> QED
  BY <1>1, <1>2 DEF Guarded

\* What every step of a sending task leaves alone.
LEMMA SendingLeaves ==
  ASSUME Shaped, Open, NEW t \in Tasks,
         \/ SendControl(t) \/ Begin(t) \/ SendHeader(t) \/ SendData(t) \/ Output(t) \/ Stamp(t) \/ Settle(t)
  PROVE  /\ UNCHANGED <<msgs, obj, job, buf, locked, early>>
         /\ \A u \in Tasks : u # t => at'[u] = at[u]
         /\ at'[t] \notin {"made", "queue"} /\ (at'[t] = "unlock" => job[t] # 0)
         /\ \A u \in Tasks : piece'[u].of = 0 \/ piece'[u].of = piece[u].of
         /\ \A i \in Ids : i # piece[t].of => msg'[i] = msg[i]
<1>0. piece \in [Tasks -> Pieces] /\ piece[t] \in Pieces /\ msg \in [Ids -> Messages]
  BY Facts DEF TasksTyped, MessagesTyped
<1>1. ASSUME Done(t)
      PROVE  /\ \A u \in Tasks : u # t => at'[u] = at[u]
             /\ at'[t] \notin {"made", "queue"} /\ (at'[t] = "unlock" => job[t] # 0)
  BY <1>1, Facts, DoneMoves
<1>2. ASSUME NEW l \in {"header", "data", "output", "stamp", "settle"}, Goto(t, l)
      PROVE  /\ \A u \in Tasks : u # t => at'[u] = at[u]
             /\ at'[t] \notin {"made", "queue"} /\ (at'[t] = "unlock" => job[t] # 0)
  <2>1. l \in Labels
    BY DEF Labels, Sending
  <2> QED
    BY <1>2, <2>1, Facts, Moved
<1>3. ASSUME NEW n \in Nat, piece' = [piece EXCEPT ![t].wrote = n]
      PROVE  \A u \in Tasks : piece'[u].of = piece[u].of
  <2>1. piece' = [piece EXCEPT ![t] = [piece[t] EXCEPT !.wrote = n]] /\ [piece[t] EXCEPT !.wrote = n].of = piece[t].of
    BY <1>0, <1>3 DEF Pieces
  <2> QED
    BY <1>0, <2>1
<1>4. ASSUME piece' = [piece EXCEPT ![t] = NoPiece]
      PROVE  \A u \in Tasks : piece'[u].of = 0 \/ piece'[u].of = piece[u].of
  BY <1>0, <1>4, NoPieceType
<1>5. 0 \in Nat /\ piece[t].n \in Nat
  BY Facts
<1>6. CASE SendControl(t)
  <2>1. Goto(t, "output") \/ Done(t)
    BY <1>6 DEF SendControl
  <2> QED
    BY <1>1, <1>2, <1>4, <1>6, <2>1 DEF SendControl, queues, messages, buffers
<1>7. CASE Begin(t)
  <2>1. UNCHANGED <<queues, made, obj, buffers, job, timer, stream, excuses, controls>>
    BY <1>7, BeginCases
  <2>2. \/ msg' = msg /\ Stops(t)
        \/ (\E s : msg' = [msg EXCEPT ![piece[t].of].status = s]) /\ Stops(t)
        \/ \E n \in Nat : Starts(t, piece[t].of, n)
    BY <1>7, BeginCases
  <2>3. CASE msg' = msg /\ Stops(t)
    BY <1>1, <1>4, <2>1, <2>3 DEF Stops, queues, buffers, excuses
  <2>4. CASE (\E s : msg' = [msg EXCEPT ![piece[t].of].status = s]) /\ Stops(t)
    <3>1. \A i \in Ids : i # piece[t].of => msg'[i] = msg[i]
      BY <1>0, <2>4
    <3> QED
      BY <1>1, <1>4, <2>1, <2>4, <3>1 DEF Stops, queues, buffers, excuses
  <2>5. ASSUME NEW n \in Nat, Starts(t, piece[t].of, n)
        PROVE  /\ Goto(t, "header")
               /\ \A i \in Ids : i # piece[t].of => msg'[i] = msg[i]
               /\ \A u \in Tasks : piece'[u].of = piece[u].of
    <3>1. Goto(t, "header") /\ \A i \in Ids : i # piece[t].of => msg'[i] = msg[i]
      BY <1>0, <2>5 DEF Starts
    <3> DEFINE p == [of |-> piece[t].of, from |-> msg[piece[t].of].sent, n |-> n,
                     final |-> msg[piece[t].of].sent + n = msg[piece[t].of].len, wrote |-> 0]
    <3>2. piece' = [piece EXCEPT ![t] = p] /\ p.of = piece[t].of
      BY <2>5 DEF Starts
    <3> HIDE DEF p
    <3>3. \A u \in Tasks : piece'[u].of = piece[u].of
      BY <1>0, <3>2
    <3> QED
      BY <3>1, <3>3
  <2> QED
    BY <1>2, <2>1, <2>2, <2>3, <2>4, <2>5 DEF queues, buffers, excuses
<1>8. CASE SendHeader(t)
  <2>1. UNCHANGED <<queues, messages, buffers, job, timer, crossed, resent, slow, late, early, controls>>
    BY <1>8 DEF SendHeader
  <2>2. \/ piece' = [piece EXCEPT ![t].wrote = piece[t].n] /\ Goto(t, "data")
        \/ piece' = piece /\ Goto(t, "settle")
    <3>1. \/ piece' = [piece EXCEPT ![t] = [piece[t] EXCEPT !.wrote = piece[t].n]] /\ Goto(t, "data")
          \/ piece' = piece /\ Goto(t, "settle")
      BY <1>8, HeaderCases
    <3> QED
      BY <1>0, <3>1
  <2> QED
    BY <1>2, <1>3, <1>5, <2>1, <2>2 DEF queues, messages, buffers
<1>9. CASE SendData(t)
  <2>1. UNCHANGED <<queues, messages, buffers, job, timer, crossed, resent, slow, late, early, controls>>
    BY <1>9 DEF SendData
  <2>2. \/ piece' = [piece EXCEPT ![t].wrote = 0] /\ Goto(t, "settle")
        \/ piece' = piece /\ Goto(t, "output")
    BY <1>9 DEF SendData
  <2> QED
    BY <1>2, <1>3, <1>5, <2>1, <2>2 DEF queues, messages, buffers
<1>10. CASE Output(t)
  <2>1. UNCHANGED <<queues, messages, buffers, job, early>>
    BY <1>10 DEF Output
  <2>2. \/ piece' = [piece EXCEPT ![t].wrote = 0] /\ Goto(t, "settle")
        \/ piece' = piece /\ Goto(t, "stamp")
    BY <1>10 DEF Output
  <2> QED
    BY <1>2, <1>3, <1>5, <2>1, <2>2 DEF queues, messages, buffers
<1>11. CASE Stamp(t)
  BY <1>2, <1>11 DEF Stamp, queues, messages, buffers, excuses
<1>12. CASE Settle(t)
  <2>1. Stops(t) /\ UNCHANGED <<queues, made, obj, buffers, job, timer, stream, excuses, controls>>
    BY <1>12, SettleCases
  <2>2. \A i \in Ids : i # piece[t].of => msg'[i] = msg[i]
    BY <1>0, <1>12 DEF Settle
  <2> QED
    BY <1>1, <1>4, <2>1, <2>2 DEF Stops, queues, buffers, excuses
<1> QED
  BY <1>6, <1>7, <1>8, <1>9, <1>10, <1>11, <1>12

LEMMA SendingIsQueued ==
  ASSUME Shaped, Queued, Guarded, Open, NEW t \in Tasks,
         \/ SendControl(t) \/ Begin(t) \/ SendHeader(t) \/ SendData(t) \/ Output(t) \/ Stamp(t) \/ Settle(t)
  PROVE  Queued' /\ Guarded'
<1>1. /\ UNCHANGED <<msgs, obj, job, buf, locked, early>>
      /\ \A u \in Tasks : u # t => at'[u] = at[u]
      /\ at'[t] \notin {"made", "queue"} /\ (at'[t] = "unlock" => job[t] # 0)
      /\ \A u \in Tasks : piece'[u].of = 0 \/ piece'[u].of = piece[u].of
      /\ \A i \in Ids : i # piece[t].of => msg'[i] = msg[i]
  BY SendingLeaves
<1>2. \A i \in Ids : msg'[i] = msg[i] \/ (msgs # <<>> /\ i = Head(msgs)) \/ obj[i] = "deleted"
  <2>1. \A i \in Ids : i # 0
    BY DEF Ids
  <2> QED
    BY <1>1, <2>1 DEF Queued
<1>3. Queued'
  BY <1>1, <1>2, QueuedStays
<1>4. \A u \in Tasks : at'[u] = "queue" => at[u] = "queue" /\ job'[u] = job[u] /\ job[u] \in Ids
                                            /\ locked'[job[u]] = locked[job[u]]
  BY <1>1, QueueFacts DEF Queued
<1>5. Guarded'
  BY <1>1, <1>4, GuardedStays
<1> QED
  BY <1>3, <1>5

LEMMA ChooseIsQueued ==
  ASSUME Shaped, Queued, Guarded, Open, NEW t \in Tasks, Choose(t)
  PROVE  Queued' /\ Guarded'
<1>1. /\ at[t] = "choose" /\ msgs' = Unfinished /\ Deleted(ToSet(msgs) \ ToSet(Unfinished))
      /\ UNCHANGED <<made, msg, buf, locked, job, early>>
      /\ \/ Goto(t, "control") /\ piece' = piece
         \/ /\ Unfinished # <<>> /\ Goto(t, "begin")
            /\ piece' = [piece EXCEPT ![t] = [NoPiece EXCEPT !.of = Head(Unfinished)]]
         \/ Done(t) /\ piece' = piece
  BY DEF Choose, buffers
<1>2. /\ \A u \in Tasks : u # t => at'[u] = at[u]
      /\ at'[t] \notin {"made", "queue"} /\ (at'[t] = "unlock" => job[t] # 0)
  <2>1. "control" \in Labels /\ "begin" \in Labels
    BY DEF Labels, Sending
  <2>2. CASE Goto(t, "control")
    BY <2>1, <2>2, Facts, Moved
  <2>3. CASE Goto(t, "begin")
    BY <2>1, <2>3, Facts, Moved
  <2>4. CASE Done(t)
    BY <2>4, Facts, DoneMoves
  <2> QED
    BY <1>1, <2>2, <2>3, <2>4
<1>3. /\ \A u \in Tasks : u # t => piece'[u] = piece[u]
      /\ piece[t].of = 0
      /\ piece'[t].of = 0 \/ (Unfinished # <<>> /\ piece'[t].of = Head(Unfinished))
  <2>1. piece \in [Tasks -> Pieces] /\ Stage(t) /\ QueuesTyped /\ MaxInputs \in Nat /\ made \in 0..MaxInputs
    BY Facts DEF TasksTyped
  <2>2. piece[t].of = 0
    BY <1>1, <2>1, NoPieceType DEF Stage, Sending
  <2>3. Unfinished # <<>> => Head(Unfinished) \in 1..MaxInputs
    BY <2>1, UnfinishedIs
  <2>4. CASE Unfinished # <<>> /\ piece' = [piece EXCEPT ![t] = [NoPiece EXCEPT !.of = Head(Unfinished)]]
    <3>1. [NoPiece EXCEPT !.of = Head(Unfinished)].of = Head(Unfinished)
      BY <2>3, <2>4, NoPieceType
    <3>2. piece'[t] = [NoPiece EXCEPT !.of = Head(Unfinished)] /\ \A u \in Tasks : u # t => piece'[u] = piece[u]
      BY <2>1, <2>4
    <3> QED
      BY <2>2, <2>4, <3>1, <3>2
  <2>5. CASE piece' = piece
    BY <2>2, <2>5
  <2> QED
    BY <1>1, <2>4, <2>5
<1>4. CASE Unfinished = msgs
  <2>1. obj' = obj
    BY <1>1, <1>4, Facts DEF Deleted, MessagesTyped
  <2>2. Queued'
    <3>1. \A j, k \in 1..Len(msgs') : msgs'[j] = msgs'[k] => j = k
      BY <1>1, <1>4 DEF Queued
    <3>2. \A i \in Ids : obj'[i] = "alive" <=> \E k \in 1..Len(msgs') : msgs'[k] = i
      BY <1>1, <1>4, <2>1 DEF Queued
    <3>3. \A k \in 1..Len(msgs') : k > 1 => Fresh(msgs[k])'
      BY <1>1, <1>4 DEF Queued, Fresh
    <3>4. \A u \in Tasks : at'[u] \in {"made", "queue"} => Fresh(job[u])' /\ obj'[job'[u]] = "none"
      BY <1>1, <1>2, <2>1 DEF Queued, Fresh
    <3>5. /\ \A u \in Tasks : at'[u] \in {"made", "queue", "unlock"} => job'[u] # 0
          /\ job'["loop"] = job'["async_tcp"] => job'["loop"] = 0
      BY <1>1, <1>2 DEF Queued
    <3>6. \A u \in Tasks : piece'[u].of # 0 =>
            obj'[piece'[u].of] = "deleted" \/ (msgs' # <<>> /\ piece'[u].of = Head(msgs'))
      BY <1>1, <1>3, <1>4, <2>1 DEF Queued
    <3> QED
      BY <3>1, <3>2, <3>3, <3>4, <3>5, <3>6 DEF Queued
  <2>3. \A u \in Tasks : at'[u] = "queue" => at[u] = "queue" /\ job'[u] = job[u] /\ job[u] \in Ids
                                              /\ locked'[job[u]] = locked[job[u]]
    BY <1>1, <1>2, QueueFacts DEF Queued
  <2>4. Guarded'
    BY <1>1, <2>1, <2>3, GuardedStays
  <2> QED
    BY <2>2, <2>4
<1>5. CASE msgs # <<>> /\ Finished(Head(msgs)) /\ Unfinished = Tail(msgs)
  <2>0. /\ Len(msgs) \in Nat /\ Len(msgs) > 0 /\ Head(msgs) = msgs[1] /\ Len(msgs') \in Nat /\ Len(msgs') = Len(msgs) - 1
        /\ \A k \in 1..Len(msgs') : msgs'[k] = msgs[k + 1] /\ k + 1 \in 1..Len(msgs) /\ k + 1 > 1
        /\ DOMAIN msgs = 1..Len(msgs) /\ DOMAIN msgs' = 1..Len(msgs')
        /\ msgs' # <<>> => Head(msgs') = msgs'[1] /\ 1 \in 1..Len(msgs')
    <3>1. msgs \in Seq(1..made) /\ Tail(msgs) \in Seq(1..made)
      BY <1>5, QueueFacts, SeqFacts
    <3>2. /\ Len(msgs) \in Nat /\ Len(msgs) # 0 /\ Head(msgs) = msgs[1] /\ Len(Tail(msgs)) = Len(msgs) - 1
          /\ \A k \in 1..Len(msgs) - 1 : Tail(msgs)[k] = msgs[k + 1]
          /\ DOMAIN msgs = 1..Len(msgs)
      BY <1>5, <3>1, SeqFacts
    <3>3. /\ DOMAIN Tail(msgs) = 1..Len(Tail(msgs)) /\ Len(Tail(msgs)) \in Nat
          /\ Tail(msgs) # <<>> => Head(Tail(msgs)) = Tail(msgs)[1] /\ 1 \in 1..Len(Tail(msgs))
      BY <3>1, SeqFacts
    <3> QED
      BY <1>1, <1>5, <3>2, <3>3
  <2>1. \A j, k \in 1..Len(msgs') : msgs'[j] = msgs'[k] => j = k
    <3> SUFFICES ASSUME NEW j \in 1..Len(msgs'), NEW k \in 1..Len(msgs'), msgs'[j] = msgs'[k] PROVE j = k
      OBVIOUS
    <3>1. msgs[j + 1] = msgs[k + 1] /\ j + 1 \in 1..Len(msgs) /\ k + 1 \in 1..Len(msgs)
      BY <2>0
    <3>2. j + 1 = k + 1
      BY <3>1 DEF Queued
    <3> QED
      BY <2>0, <3>2
  <2>2. \A i \in Ids : /\ i \in ToSet(msgs) <=> \E k \in 1..Len(msgs) : msgs[k] = i
                       /\ i \in ToSet(msgs') <=> \E k \in 1..Len(msgs') : msgs'[k] = i
    BY <2>0 DEF ToSet
  <2>3. \A i \in Ids : i \in ToSet(msgs') <=> i \in ToSet(msgs) /\ i # Head(msgs)
    <3> SUFFICES ASSUME NEW i \in Ids
                 PROVE  i \in ToSet(msgs') <=> i \in ToSet(msgs) /\ i # Head(msgs)
      OBVIOUS
    <3>1. ASSUME i \in ToSet(msgs') PROVE i \in ToSet(msgs) /\ i # Head(msgs)
      <4>1. PICK k \in 1..Len(msgs') : msgs'[k] = i
        BY <2>2, <3>1
      <4>2. msgs[k + 1] = i /\ k + 1 \in 1..Len(msgs) /\ k + 1 # 1 /\ 1 \in 1..Len(msgs)
        BY <2>0, <4>1
      <4>3. msgs[k + 1] # msgs[1]
        BY <4>2 DEF Queued
      <4> QED
        BY <2>0, <2>2, <4>2, <4>3
    <3>2. ASSUME i \in ToSet(msgs), i # Head(msgs) PROVE i \in ToSet(msgs')
      <4>1. PICK k \in 1..Len(msgs) : msgs[k] = i
        BY <2>2, <3>2
      <4>2. k # 1 /\ k - 1 \in 1..Len(msgs') /\ (k - 1) + 1 = k
        BY <2>0, <3>2, <4>1
      <4>3. msgs'[k - 1] = msgs[(k - 1) + 1]
        BY <2>0, <4>2
      <4>4. msgs'[k - 1] = i
        BY <4>1, <4>2, <4>3
      <4> QED
        BY <2>2, <4>2, <4>4
    <3> QED
      BY <3>1, <3>2
  <2>4. obj' = [obj EXCEPT ![Head(msgs)] = "deleted"] /\ Head(msgs) \in Ids /\ obj[Head(msgs)] = "alive"
    <3>1. \A i \in Ids : i \in ToSet(msgs) \ ToSet(Unfinished) <=> i = Head(msgs)
      <4>1. Head(msgs) \in ToSet(msgs)
        BY <1>5, <2>0, <2>2, QueueFacts
      <4> QED
        BY <1>1, <2>3, <4>1
    <3>2. Head(msgs) \in Ids /\ obj[Head(msgs)] = "alive"
      BY <1>5, QueueFacts DEF Queued
    <3>3. obj' = [i \in Ids |-> IF i \in ToSet(msgs) \ ToSet(Unfinished) THEN "deleted" ELSE obj[i]]
      BY <1>1 DEF Deleted
    <3>4. obj \in [Ids -> {"none", "alive", "deleted"}]
      BY Facts DEF MessagesTyped
    <3> QED
      BY <3>1, <3>2, <3>3, <3>4
  <2>5. obj \in [Ids -> {"none", "alive", "deleted"}] /\ \A i \in Ids : obj'[i] = (IF i = Head(msgs) THEN "deleted" ELSE obj[i])
    BY <2>4, Facts DEF MessagesTyped
  <2>6. \A i \in Ids : obj'[i] = "alive" <=> \E k \in 1..Len(msgs') : msgs'[k] = i
    BY <2>2, <2>3, <2>5 DEF Queued
  <2>7. \A k \in 1..Len(msgs') : k > 1 => Fresh(msgs[k])'
    BY <1>1, <2>0 DEF Queued, Fresh
  <2>8. \A u \in Tasks : at'[u] \in {"made", "queue"} => Fresh(job[u])' /\ obj'[job'[u]] = "none"
    <3> SUFFICES ASSUME NEW u \in Tasks, at'[u] \in {"made", "queue"}
                 PROVE  Fresh(job[u])' /\ obj'[job'[u]] = "none"
      OBVIOUS
    <3>1. job[u] \in Ids /\ obj[job[u]] = "none" /\ Fresh(job[u])
      BY <1>1, <1>2, QueueFacts DEF Queued
    <3> QED
      BY <1>1, <2>4, <2>5, <3>1 DEF Fresh
  <2>9. /\ \A u \in Tasks : at'[u] \in {"made", "queue", "unlock"} => job'[u] # 0
        /\ job'["loop"] = job'["async_tcp"] => job'["loop"] = 0
    BY <1>1, <1>2 DEF Queued
  <2>10. \A u \in Tasks : piece'[u].of # 0 =>
           obj'[piece'[u].of] = "deleted" \/ (msgs' # <<>> /\ piece'[u].of = Head(msgs'))
    <3> SUFFICES ASSUME NEW u \in Tasks, piece'[u].of # 0
                 PROVE  obj'[piece'[u].of] = "deleted" \/ (msgs' # <<>> /\ piece'[u].of = Head(msgs'))
      OBVIOUS
    <3>1. CASE u = t
      BY <1>1, <1>3, <3>1
    <3>2. CASE u # t
      <4>1. piece[u].of \in Ids /\ piece'[u] = piece[u]
        BY <1>3, <3>2, QueueFacts
      <4>2. obj[piece[u].of] = "deleted" \/ piece[u].of = Head(msgs)
        BY <4>1 DEF Queued
      <4> QED
        BY <2>5, <4>1, <4>2
    <3> QED
      BY <3>1, <3>2
  <2>11. Queued'
    BY <2>1, <2>6, <2>7, <2>8, <2>9, <2>10 DEF Queued
  <2>12. \A u \in Tasks : at'[u] = "queue" => at[u] = "queue" /\ job'[u] = job[u] /\ job[u] \in Ids
                                              /\ locked'[job[u]] = locked[job[u]]
    BY <1>1, <1>2, QueueFacts DEF Queued
  <2>13. Guarded'
    BY <1>1, <2>5, <2>12, GuardedStays
  <2> QED
    BY <2>11, <2>13
<1> QED
  BY <1>4, <1>5, UnfinishedIs, Facts

\* What enters a message at the end of the queue, or finds no place for it, or makes it.
LEMMA QueuedGrows ==
  ASSUME Shaped, Queued, NEW t \in Tasks, NEW i \in Ids, obj[i] = "none", Fresh(i)',
         \/ msgs' = msgs /\ obj' = obj
         \/ msgs' = Append(msgs, i) /\ obj' = [obj EXCEPT ![i] = "alive"] /\ at'[t] # "made",
         piece' = piece, \A j \in Ids : j # i => msg'[j] = msg[j],
         \A u \in Tasks : u # t => at'[u] = at[u] /\ job'[u] = job[u] /\ job[u] # i,
         job'[t] \in {job[t], i}, at'[t] # "queue", at'[t] = "unlock" => job'[t] # 0,
         at'[t] = "made" => job'[t] = i
  PROVE  Queued'
<1>0. /\ msgs \in Seq(1..made) /\ Len(msgs) \in Nat /\ (msgs = <<>> <=> Len(msgs) = 0)
      /\ \A k \in 1..Len(msgs) : msgs[k] \in Ids
      /\ msgs # <<>> => 1 \in 1..Len(msgs) /\ Head(msgs) = msgs[1]
      /\ i # 0 /\ obj \in [Ids -> {"none", "alive", "deleted"}]
  BY QueueFacts, EventLabels, Facts DEF Ids, MessagesTyped
<1>1. \A k \in 1..Len(msgs) : msgs[k] # i
  BY <1>0 DEF Queued
<1>2. \A j \in Ids : obj'[j] = obj[j] \/ (j = i /\ msgs' = Append(msgs, i) /\ obj'[j] = "alive")
  BY <1>0
<1>3. ASSUME NEW u \in Tasks, at'[u] \in {"made", "queue"}
      PROVE  Fresh(job[u])' /\ obj'[job'[u]] = "none"
  <2>1. CASE u = t
    BY <1>3, <2>1 DEF Fresh
  <2>2. CASE u # t
    <3>1. job[u] \in Ids /\ job[u] # i /\ obj[job[u]] = "none" /\ Fresh(job[u]) /\ job'[u] = job[u]
      BY <1>3, <2>2, QueueFacts DEF Queued
    <3> QED
      BY <1>0, <3>1 DEF Fresh
  <2> QED
    BY <2>1, <2>2
<1>4. \A u \in Tasks : at'[u] \in {"made", "queue", "unlock"} => job'[u] # 0
  BY <1>0 DEF Queued
<1>5. job'["loop"] = job'["async_tcp"] => job'["loop"] = 0
  BY DEF Queued, Tasks
<1>6. CASE msgs' = msgs /\ obj' = obj
  <2>1. \A k \in 1..Len(msgs') : k > 1 => Fresh(msgs[k])'
    <3> SUFFICES ASSUME NEW k \in 1..Len(msgs), k > 1 PROVE Fresh(msgs[k])'
      BY <1>6
    <3>1. msgs[k] \in Ids /\ msgs[k] # i /\ Fresh(msgs[k])
      BY <1>0, <1>1 DEF Queued
    <3> QED
      BY <1>6, <3>1 DEF Fresh
  <2> QED
    BY <1>3, <1>4, <1>5, <1>6, <2>1 DEF Queued
<1>7. CASE msgs' = Append(msgs, i) /\ obj' = [obj EXCEPT ![i] = "alive"]
  <2>1. /\ Len(msgs') = Len(msgs) + 1 /\ msgs'[Len(msgs) + 1] = i
        /\ \A k \in 1..Len(msgs) : msgs'[k] = msgs[k]
        /\ msgs' # <<>> /\ Head(msgs') = msgs'[1]
    BY <1>0, <1>7
  <2>2. \A k \in 1..Len(msgs') : (k \in 1..Len(msgs) /\ msgs'[k] = msgs[k]) \/ (k = Len(msgs) + 1 /\ msgs'[k] = i)
    BY <1>0, <2>1
  <2>3. \A j, k \in 1..Len(msgs') : msgs'[j] = msgs'[k] => j = k
    BY <1>1, <2>2 DEF Queued
  <2>4. ASSUME NEW j \in Ids
        PROVE  obj'[j] = "alive" <=> \E k \in 1..Len(msgs') : msgs'[k] = j
    <3>1. CASE j = i
      BY <1>0, <1>7, <2>1, <3>1
    <3>2. CASE j # i
      <4>1. obj'[j] = obj[j]
        BY <1>0, <1>7, <3>2
      <4>2. (\E k \in 1..Len(msgs) : msgs[k] = j) <=> (\E k \in 1..Len(msgs') : msgs'[k] = j)
        <5>1. \A k \in 1..Len(msgs) : k \in 1..Len(msgs')
          BY <1>0, <2>1
        <5> QED
          BY <2>1, <2>2, <3>2, <5>1
      <4> QED
        BY <4>1, <4>2 DEF Queued
    <3> QED
      BY <3>1, <3>2
  <2>5. \A k \in 1..Len(msgs') : k > 1 => Fresh(msgs[k])'
    <3> SUFFICES ASSUME NEW k \in 1..Len(msgs'), k > 1 PROVE Fresh(msgs[k])'
      OBVIOUS
    <3>1. CASE k \in 1..Len(msgs) /\ msgs'[k] = msgs[k]
      <4>1. msgs[k] \in Ids /\ msgs[k] # i /\ Fresh(msgs[k])
        BY <1>0, <1>1, <3>1 DEF Queued
      <4> QED
        BY <3>1, <4>1 DEF Fresh
    <3>2. CASE msgs'[k] = i
      BY <3>2 DEF Fresh
    <3> QED
      BY <2>2, <3>1, <3>2
  <2>6. ASSUME NEW u \in Tasks, piece'[u].of # 0
        PROVE  obj'[piece'[u].of] = "deleted" \/ (msgs' # <<>> /\ piece'[u].of = Head(msgs'))
    <3>1. piece[u].of \in Ids /\ piece'[u].of = piece[u].of
      BY <2>6, QueueFacts
    <3>2. CASE obj[piece[u].of] = "deleted"
      BY <1>0, <1>7, <3>1, <3>2
    <3>3. CASE msgs # <<>> /\ piece[u].of = Head(msgs)
      BY <1>0, <2>1, <3>1, <3>3
    <3> QED
      BY <2>6, <3>1, <3>2, <3>3 DEF Queued
  <2> QED
    BY <1>3, <1>4, <1>5, <2>3, <2>4, <2>5, <2>6 DEF Queued
<1> QED
  BY <1>6, <1>7

LEMMA TextIsQueued ==
  ASSUME Shaped, Queued, Guarded, NEW len \in Lengths, Text(len)
  PROVE  Queued' /\ Guarded'
<1> DEFINE t == "async_tcp"
<1>0. /\ Open /\ at[t] = "idle" /\ Make(t, "basic", len) /\ Enqueue(t, made') /\ t \in Tasks /\ at[t] # "poll"
      /\ UNCHANGED <<buffers, job, piece, excuses>>
  BY DEF Text, Idle, Tasks
<1> HIDE DEF t
<1>1. /\ made' \in Ids /\ made' \in 1..made' /\ made \in Nat /\ \A i \in Ids : i # made' => msg'[i] = msg[i]
      /\ Fresh(made)' /\ made' > made /\ made' \in Nat /\ made' >= made
  <2>1. "basic" \in {"basic", "multi"}
    OBVIOUS
  <2> QED
    BY <1>0, <2>1, MakeType DEF Fresh
<1>2. /\ at'[t] \in {"choose", "idle", "unlock"} /\ \A u \in Tasks : u # t => at'[u] = at[u]
      /\ \A j \in Ids : j # made' => obj'[j] = obj[j]
      /\ \/ msgs' = msgs /\ obj' = obj
         \/ msgs' = Append(msgs, made') /\ obj' = [obj EXCEPT ![made'] = "alive"]
  BY <1>0, <1>1, EnqueueType
<1>3. at'[t] = "unlock" => job'[t] # 0
  <2>1. ASSUME Goto(t, "choose") PROVE at'[t] = "choose"
    BY <1>0, <2>1, Facts DEF Goto, TasksTyped
  <2>2. ASSUME Done(t), at'[t] = "unlock" PROVE job[t] # 0
    BY <1>0, <2>2, Facts, DoneMoves
  <2>3. Goto(t, "choose") \/ Done(t)
    BY <1>0 DEF Enqueue
  <2> QED
    BY <1>0, <2>1, <2>2, <2>3
<1>4. \A u \in Tasks : job'[u] = job[u] /\ job[u] # made'
  BY <1>0, <1>1, QueueFacts
<1>5. obj[made'] = "none" /\ buf[made'] = "none"
  BY <1>0, <1>1, Facts DEF Made
<1>6. Queued'
  <2> DEFINE i == made'
  <2>1. /\ i \in Ids /\ obj[i] = "none" /\ Fresh(made)'
        /\ \/ msgs' = msgs /\ obj' = obj
           \/ msgs' = Append(msgs, i) /\ obj' = [obj EXCEPT ![i] = "alive"] /\ at'[t] # "made"
        /\ piece' = piece /\ \A j \in Ids : j # i => msg'[j] = msg[j]
        /\ \A u \in Tasks : u # t => at'[u] = at[u] /\ job'[u] = job[u] /\ job[u] # i
        /\ job'[t] \in {job[t], i} /\ at'[t] # "queue" /\ (at'[t] = "unlock" => job'[t] # 0)
        /\ at'[t] = "made" => job'[t] = i
    BY <1>0, <1>1, <1>2, <1>3, <1>4, <1>5
  <2>2. PICK j \in Ids : j = made'
    BY <1>1
  <2>3. Fresh(j)'
    BY <2>1, <2>2 DEF Fresh
  <2> QED
    BY <1>0, <2>1, <2>2, <2>3, QueuedGrows
<1>7. Guarded'
  <2>1. \A u \in Tasks : at'[u] = "queue" => at[u] = "queue" /\ job'[u] = job[u] /\ job[u] \in Ids
                                              /\ locked'[job[u]] = locked[job[u]]
    BY <1>0, <1>2, <1>4, QueueFacts DEF Queued, buffers
  <2>2. \A i \in Ids : obj'[i] = "alive" /\ buf'[i] = "freed" /\ ~early' => obj[i] = "alive"
    BY <1>0, <1>2, <1>5 DEF buffers
  <2> QED
    BY <1>0, <2>1, <2>2, GuardedStays DEF buffers, excuses
<1> QED
  BY <1>6, <1>7

LEMMA MakeBufferIsQueued ==
  ASSUME Shaped, Queued, Guarded, NEW t \in Tasks, NEW len \in Lengths, MakeBuffer(t, len)
  PROVE  Queued' /\ Guarded'
<1>0. /\ Open /\ at[t] = "idle" /\ Make(t, "multi", len) /\ Goto(t, "made")
      /\ buf' = [buf EXCEPT ![made'] = "made"] /\ job' = [job EXCEPT ![t] = made']
      /\ UNCHANGED <<msgs, obj, locked, piece, early>>
  BY DEF MakeBuffer, Idle, queues, excuses
<1>1. /\ made' \in Ids /\ made' \in 1..made' /\ made \in Nat /\ \A i \in Ids : i # made' => msg'[i] = msg[i]
      /\ Fresh(made)' /\ made' > made /\ made' \in Nat
  <2>1. "multi" \in {"basic", "multi"}
    OBVIOUS
  <2> QED
    BY <1>0, <2>1, MakeType DEF Fresh
<1>2. at'[t] = "made" /\ \A u \in Tasks : u # t => at'[u] = at[u]
  <2>1. "made" \in Labels
    BY DEF Labels
  <2> QED
    BY <1>0, <2>1, Facts, Moved
<1>3. job'[t] = made' /\ \A u \in Tasks : job[u] # made' /\ (u # t => job'[u] = job[u])
  <2>1. job \in [Tasks -> 0..made]
    BY Facts DEF TasksTyped
  <2> QED
    BY <1>0, <1>1, <2>1, QueueFacts
<1>4. obj[made'] = "none" /\ buf \in [Ids -> {"none", "made", "freed"}]
  BY <1>0, <1>1, Facts DEF Made, BuffersTyped
<1>5. Queued'
  <2>1. PICK j \in Ids : j = made'
    BY <1>1
  <2>2. Fresh(j)'
    BY <1>1, <2>1 DEF Fresh
  <2>3. /\ obj[j] = "none" /\ msgs' = msgs /\ obj' = obj /\ piece' = piece /\ \A i \in Ids : i # j => msg'[i] = msg[i]
        /\ \A u \in Tasks : u # t => at'[u] = at[u] /\ job'[u] = job[u] /\ job[u] # j
        /\ job'[t] \in {job[t], j} /\ at'[t] # "queue" /\ (at'[t] = "unlock" => job'[t] # 0)
        /\ at'[t] = "made" => job'[t] = j
    BY <1>0, <1>1, <1>2, <1>3, <1>4, <2>1
  <2> QED
    BY <2>2, <2>3, QueuedGrows
<1>6. Guarded'
  <2>1. \A u \in Tasks : at'[u] = "queue" => at[u] = "queue" /\ job'[u] = job[u] /\ job[u] \in Ids
                                              /\ locked'[job[u]] = locked[job[u]]
    <3> SUFFICES ASSUME NEW u \in Tasks, at'[u] = "queue"
                 PROVE  at[u] = "queue" /\ job'[u] = job[u] /\ job[u] \in Ids /\ locked'[job[u]] = locked[job[u]]
      OBVIOUS
    <3>1. u # t /\ at[u] = "queue" /\ job'[u] = job[u] /\ job[u] # 0
      BY <1>2, <1>3 DEF Queued
    <3> QED
      BY <1>0, <3>1, QueueFacts
  <2>2. \A i \in Ids : buf'[i] = "freed" => buf[i] = "freed"
    BY <1>0, <1>4
  <2> QED
    BY <1>0, <2>1, <2>2, GuardedStays
<1> QED
  BY <1>5, <1>6

LEMMA LockBufferIsQueued ==
  ASSUME Shaped, Queued, Guarded, Open, NEW t \in Tasks, LockBuffer(t)
  PROVE  Queued' /\ Guarded'
<1>0. /\ at[t] = "made" /\ Goto(t, "queue") /\ locked' = [locked EXCEPT ![job[t]] = TRUE]
      /\ early' = (early \/ buf[job[t]] = "freed")
      /\ UNCHANGED <<msgs, msg, obj, buf, job, piece>>
  BY DEF LockBuffer, queues, messages
<1>1. at'[t] = "queue" /\ \A u \in Tasks : u # t => at'[u] = at[u]
  <2>1. "queue" \in Labels
    BY DEF Labels
  <2> QED
    BY <1>0, <2>1, Facts, Moved
<1>2. job[t] \in Ids /\ job[t] # 0 /\ \A u \in Tasks : u # t => job[u] # job[t]
  BY <1>0, QueueFacts DEF Queued, Tasks
<1>3. Queued'
  BY <1>0, <1>1, QueuedStays
<1>4. locked \in [Ids -> BOOLEAN] /\ early \in BOOLEAN
  BY Facts DEF BuffersTyped, ExcusesTyped
<1>5. \A u \in Tasks : at'[u] = "queue" =>
        \/ at[u] = "queue" /\ job'[u] = job[u] /\ job[u] \in Ids /\ locked'[job[u]] = locked[job[u]]
        \/ locked'[job'[u]] /\ (buf'[job'[u]] # "freed" \/ early')
  <2> SUFFICES ASSUME NEW u \in Tasks, at'[u] = "queue"
               PROVE  \/ at[u] = "queue" /\ job'[u] = job[u] /\ job[u] \in Ids /\ locked'[job[u]] = locked[job[u]]
                      \/ locked'[job'[u]] /\ (buf'[job'[u]] # "freed" \/ early')
    OBVIOUS
  <2>1. CASE u = t
    BY <1>0, <1>2, <1>4, <2>1
  <2>2. CASE u # t
    <3>1. at[u] = "queue" /\ job[u] # 0 /\ job[u] \in Ids /\ job[u] # job[t]
      BY <1>1, <1>2, <2>2, QueueFacts DEF Queued
    <3> QED
      BY <1>0, <1>4, <3>1
  <2> QED
    BY <2>1, <2>2
<1>6. Guarded'
  BY <1>0, <1>4, <1>5, GuardedStays
<1> QED
  BY <1>3, <1>6

LEMMA QueueBufferIsQueued ==
  ASSUME Shaped, Queued, Guarded, Open, NEW t \in Tasks, QueueBuffer(t)
  PROVE  Queued' /\ Guarded'
<1>0. /\ at[t] = "queue" /\ Enqueue(t, job[t]) /\ at[t] # "poll"
      /\ UNCHANGED <<made, msg, buf, locked, job, piece, early>>
  BY DEF QueueBuffer, buffers, excuses
<1>1. /\ job[t] \in Ids /\ job[t] # 0 /\ made \in Nat /\ job[t] \in 1..made' /\ made' \in Nat /\ made' >= made
      /\ \A u \in Tasks : u # t => job[u] # job[t]
      /\ obj[job[t]] = "none" /\ Fresh(job[t]) /\ locked[job[t]] /\ (buf[job[t]] # "freed" \/ early)
  <2>1. /\ job[t] # 0 /\ obj[job[t]] = "none" /\ Fresh(job[t]) /\ locked[job[t]] /\ (buf[job[t]] # "freed" \/ early)
        /\ \A u \in Tasks : u # t => job[u] # job[t]
    BY <1>0 DEF Queued, Guarded, Tasks
  <2>2. job[t] \in 0..made /\ made \in Nat /\ job[t] \in Ids
    BY <2>1, QueueFacts
  <2> QED
    BY <1>0, <2>1, <2>2
<1>2. /\ at'[t] \in {"choose", "idle", "unlock"} /\ \A u \in Tasks : u # t => at'[u] = at[u]
      /\ \A j \in Ids : j # job[t] => obj'[j] = obj[j]
      /\ \/ msgs' = msgs /\ obj' = obj
         \/ msgs' = Append(msgs, job[t]) /\ obj' = [obj EXCEPT ![job[t]] = "alive"]
  BY <1>0, <1>1, EnqueueType
<1>3. Queued'
  <2>1. Fresh(job[t])' /\ job' = job
    BY <1>0, <1>1 DEF Fresh
  <2>2. PICK j \in Ids : j = job[t]
    BY <1>1
  <2>3. Fresh(j)'
    BY <1>0, <2>1, <2>2 DEF Fresh
  <2>4. /\ obj[j] = "none"
        /\ \/ msgs' = msgs /\ obj' = obj
           \/ msgs' = Append(msgs, j) /\ obj' = [obj EXCEPT ![j] = "alive"] /\ at'[t] # "made"
        /\ piece' = piece /\ \A i \in Ids : i # j => msg'[i] = msg[i]
        /\ \A u \in Tasks : u # t => at'[u] = at[u] /\ job'[u] = job[u] /\ job[u] # j
        /\ job'[t] \in {job[t], j} /\ at'[t] # "queue" /\ (at'[t] = "unlock" => job'[t] # 0)
        /\ at'[t] = "made" => job'[t] = j
    BY <1>0, <1>1, <1>2, <2>2
  <2> QED
    BY <2>3, <2>4, QueuedGrows
<1>4. \A u \in Tasks : at'[u] = "queue" => at[u] = "queue" /\ job'[u] = job[u] /\ job[u] \in Ids
                                            /\ locked'[job[u]] = locked[job[u]]
  BY <1>0, <1>2, QueueFacts DEF Queued
<1>5. \A i \in Ids : obj'[i] = "alive" /\ buf'[i] = "freed" /\ ~early' => obj[i] = "alive"
  BY <1>0, <1>1, <1>2
<1>6. Guarded'
  BY <1>0, <1>4, <1>5, GuardedStays
<1> QED
  BY <1>3, <1>6

LEMMA UnlockBufferIsQueued ==
  ASSUME Shaped, Queued, Guarded, Open, NEW t \in Tasks, UnlockBuffer(t)
  PROVE  Queued' /\ Guarded'
<1>0. /\ at[t] = "unlock" /\ Goto(t, "idle") /\ locked' = [locked EXCEPT ![job[t]] = FALSE]
      /\ buf' = Cleaned(Alive, locked') /\ job' = [job EXCEPT ![t] = 0]
      /\ UNCHANGED <<msgs, msg, obj, piece, early>>
  BY DEF UnlockBuffer, queues, messages, excuses
<1>1. at'[t] = "idle" /\ \A u \in Tasks : u # t => at'[u] = at[u]
  <2>1. "idle" \in Labels
    BY DEF Labels
  <2> QED
    BY <1>0, <2>1, Facts, Moved
<1>2. job'[t] = 0 /\ job[t] # 0 /\ \A u \in Tasks : u # t => job'[u] = job[u] /\ job[u] # job[t]
  <2>1. job \in [Tasks -> 0..made] /\ job[t] # 0
    BY <1>0, Facts DEF TasksTyped, Queued
  <2>2. \A u \in Tasks : u # t => job[u] # job[t]
    BY <2>1 DEF Queued, Tasks
  <2> QED
    BY <1>0, <2>1, <2>2
<1>3. Queued'
  BY <1>0, <1>1, <1>2, QueuedStays
<1>4. /\ locked \in [Ids -> BOOLEAN] /\ \A i \in Ids : i # job[t] => locked'[i] = locked[i]
      /\ \A u \in Tasks : at[u] = "queue" => job[u] \in Ids
  BY <1>0, Facts, QueueFacts DEF BuffersTyped, Queued
<1>5. /\ \A i \in Ids : buf'[i] = "freed" => buf[i] = "freed" \/ (obj[i] # "alive" /\ ~locked'[i])
  <2>1. BuffersTyped
    BY Facts
  <2>2. \A i \in Ids : buf'[i] # buf[i] => i \notin Alive /\ ~locked'[i]
    BY <1>0, <2>1, CleanedType
  <2> QED
    BY <2>2 DEF Alive
<1>6. ASSUME NEW u \in Tasks, at'[u] = "queue"
      PROVE  locked'[job'[u]] /\ (buf'[job'[u]] # "freed" \/ early')
  <2>1. u # t /\ at[u] = "queue" /\ job'[u] = job[u] /\ job[u] # job[t] /\ job[u] \in Ids
    BY <1>1, <1>2, <1>4, <1>6
  <2>2. locked[job[u]] /\ (buf[job[u]] # "freed" \/ early) /\ locked'[job[u]]
    BY <1>4, <2>1 DEF Guarded
  <2> QED
    BY <1>0, <1>5, <2>1, <2>2
<1>7. BufferOutlivesMessages'
  BY <1>0, <1>5 DEF Guarded, BufferOutlivesMessages
<1>8. Guarded'
  BY <1>6, <1>7 DEF Guarded
<1> QED
  BY <1>3, <1>8

\* What async_tcp does that leaves the messages, the queue and the buffers alone.
LEMMA EventIsQueued ==
  ASSUME Shaped, Queued, Guarded, NEW l \in {"idle", "choose", "poll"}, Goto("async_tcp", l),
         UNCHANGED <<msgs, msg, obj, buf, locked, job, piece, early>>
  PROVE  Queued' /\ Guarded'
<1>1. at'["async_tcp"] = l /\ \A u \in Tasks : u # "async_tcp" => at'[u] = at[u]
  BY EventLabels, Facts, Moved
<1>2. Queued'
  BY <1>1, EventLabels, QueuedStays
<1>3. \A u \in Tasks : at'[u] = "queue" => at[u] = "queue" /\ job'[u] = job[u] /\ job[u] \in Ids
                                            /\ locked'[job[u]] = locked[job[u]]
  BY <1>1, QueueFacts DEF Queued
<1>4. Guarded'
  BY <1>3, GuardedStays
<1> QED
  BY <1>2, <1>4

LEMMA AckIsQueued ==
  ASSUME Shaped, Queued, Guarded, Ack
  PROVE  Queued' /\ Guarded'
<1>1. PICK n \in Nat : n > 0 /\ OnAck(n)
  BY AckCases
<1>2. /\ UNCHANGED <<msgs, obj, locked, job, piece, early>>
      /\ Goto("async_tcp", "idle") \/ Goto("async_tcp", "choose")
      /\ buf' = buf \/ buf' = Cleaned(Alive, locked)
      /\ msg' = msg \/ (msgs # <<>> /\ msg' = Acknowledged(Head(msgs), Settling(n)))
  BY <1>1, OnAckCases
<1>3. at'["async_tcp"] \in {"idle", "choose"} /\ \A u \in Tasks : u # "async_tcp" => at'[u] = at[u]
  BY <1>2, EventLabels, Facts, Moved
<1>4. \A i \in Ids : msg'[i] = msg[i] \/ (msgs # <<>> /\ i = Head(msgs))
  <2>1. CASE msg' = msg
    BY <2>1
  <2>2. CASE msgs # <<>> /\ msg' = Acknowledged(Head(msgs), Settling(n))
    <3>1. Settling(n) \in Int
      BY ModType DEF Settling
    <3>2. Head(msgs) \in Ids
      BY <2>2, QueueFacts
    <3> QED
      BY <2>2, <3>1, <3>2, AcknowledgedType
  <2> QED
    BY <1>2, <2>1, <2>2
<1>5. Queued'
  BY <1>2, <1>3, <1>4, EventLabels, QueuedStays
<1>6. \A u \in Tasks : at'[u] = "queue" => at[u] = "queue" /\ job'[u] = job[u] /\ job[u] \in Ids
                                            /\ locked'[job[u]] = locked[job[u]]
  BY <1>2, <1>3, QueueFacts DEF Queued
<1>7. \A i \in Ids : buf'[i] = "freed" => buf[i] = "freed" \/ (obj[i] # "alive" /\ ~locked[i])
  <2>1. CASE buf' = buf
    BY <2>1
  <2>2. CASE buf' = Cleaned(Alive, locked)
    <3>1. BuffersTyped
      BY EventLabels, Facts
    <3>2. \A i \in Ids : buf'[i] # buf[i] => i \notin Alive /\ ~locked[i]
      BY <2>2, <3>1, CleanedType
    <3> QED
      BY <3>2 DEF Alive
  <2> QED
    BY <1>2, <2>1, <2>2
<1>8. Guarded'
  BY <1>2, <1>6, <1>7, GuardedStays
<1> QED
  BY <1>5, <1>8

----------------------------------------------------------------------------
(* The invariant *)

Sound == Shaped /\ Queued /\ Guarded

LEMMA InitIsSound == Init => Sound
<1> SUFFICES ASSUME Init PROVE Sound
  OBVIOUS
<1>2. NoPiece \in Pieces /\ NoPiece.of = 0
  BY NoPieceType
<1>3. /\ made = 0 /\ msgs = <<>> /\ ctl = <<>> /\ flight = <<>> /\ controls = 0 /\ failed = {}
      /\ msg = [i \in Ids |-> NoMessage] /\ obj = [i \in Ids |-> "none"] /\ buf = obj
      /\ locked = [i \in Ids |-> FALSE] /\ at = [t \in Tasks |-> "idle"] /\ job = [t \in Tasks |-> 0]
      /\ piece = [t \in Tasks |-> NoPiece] /\ status = "connected" /\ rx = NoFrame /\ received = {}
      /\ broken = FALSE /\ crossed = FALSE /\ resent = FALSE /\ early = FALSE
  BY DEF Init
<1>4. QueuesTyped
  BY <1>3, Bounds DEF QueuesTyped
<1>5. NoMessage \in Messages /\ NoMessage.sent = 0 /\ NoMessage.len = 0
  <2>1. 0 \in 0..Word - 1
    BY Bounds
  <2> QED
    BY <2>1 DEF NoMessage, Messages
<1>6. MessagesTyped /\ BuffersTyped /\ ExcusesTyped
  <2>1. MessagesTyped
    BY <1>3, <1>5, Bounds DEF MessagesTyped
  <2>2. BuffersTyped
    BY <1>3 DEF BuffersTyped
  <2>3. ExcusesTyped
    BY <1>3 DEF ExcusesTyped
  <2> QED
    BY <2>1, <2>2, <2>3
<1>7. TasksTyped
  <2>1. "idle" \in Labels /\ 0 \in 0..made
    BY <1>3 DEF Labels
  <2> QED
    BY <1>2, <1>3, <2>1 DEF TasksTyped, Tasks
<1>8. PageTyped
  <2>1. NoFrame \in Frames
    BY Bounds DEF NoFrame, Frames
  <2> QED
    BY <1>3, <2>1 DEF PageTyped
<1>9. InOrder
  BY <1>3, Bounds DEF InOrder, InFlight
<1>10. Alone /\ StageAll
  BY <1>2, <1>3 DEF Alone, StageAll, Stage, Sending, Writing, Tasks
<1>11. Made
  <2>1. \A i \in Ids : i > made /\ ~(i <= made)
    BY <1>3, Bounds DEF Ids
  <2> QED
    BY <1>2, <1>3, <1>5, <2>1 DEF Made
<1>12. Queued
  BY <1>2, <1>3, EventLabels DEF Queued
<1>13. Guarded
  BY <1>3 DEF Guarded, BufferOutlivesMessages
<1> QED
  BY <1>4, <1>6, <1>7, <1>8, <1>9, <1>10, <1>11, <1>12, <1>13 DEF Sound, Shaped, Typed

LEMMA StepIsSound ==
  ASSUME Sound, NEW t \in Tasks, Step(t)
  PROVE  Sound'
<1>0. Shaped /\ Queued /\ Guarded /\ Open
  BY DEF Sound, Step
<1>1. CASE Choose(t)
  BY <1>0, <1>1, ChooseIsShaped, ChooseIsQueued DEF Sound
<1>2. CASE SendControl(t)
  BY <1>0, <1>2, SendControlIsShaped, SendingIsQueued DEF Sound
<1>3. CASE Begin(t)
  BY <1>0, <1>3, BeginIsShaped, SendingIsQueued DEF Sound
<1>4. CASE SendHeader(t)
  BY <1>0, <1>4, SendHeaderIsShaped, SendingIsQueued DEF Sound
<1>5. CASE SendData(t)
  BY <1>0, <1>5, SendDataIsShaped, SendingIsQueued DEF Sound
<1>6. CASE Output(t)
  BY <1>0, <1>6, OutputIsShaped, SendingIsQueued DEF Sound
<1>7. CASE Stamp(t)
  BY <1>0, <1>7, StampIsShaped, SendingIsQueued DEF Sound
<1>8. CASE Settle(t)
  BY <1>0, <1>8, SettleIsShaped, SendingIsQueued DEF Sound
<1>9. CASE LockBuffer(t)
  <2>1. at[t] = "made" => job[t] # 0
    BY <1>0 DEF Queued
  <2> QED
    BY <1>0, <1>9, <2>1, LockBufferIsShaped, LockBufferIsQueued DEF Sound
<1>10. CASE QueueBuffer(t)
  <2>1. at[t] = "queue" => job[t] # 0
    BY <1>0 DEF Queued
  <2> QED
    BY <1>0, <1>10, <2>1, QueueBufferIsShaped, QueueBufferIsQueued DEF Sound
<1>11. CASE UnlockBuffer(t)
  BY <1>0, <1>11, UnlockBufferIsShaped, UnlockBufferIsQueued DEF Sound
<1> QED
  BY <1>1, <1>2, <1>3, <1>4, <1>5, <1>6, <1>7, <1>8, <1>9, <1>10, <1>11 DEF Step, Send

LEMMA EventIsSound ==
  ASSUME Sound, Callback \/ Seconds
  PROVE  Sound'
<1>0. Shaped /\ Queued /\ Guarded
  BY DEF Sound
<1>1. ASSUME NEW len \in Lengths, Text(len) PROVE Sound'
  BY <1>0, <1>1, TextIsShaped, TextIsQueued DEF Sound
<1>2. CASE Ack
  BY <1>0, <1>2, AckIsShaped, AckIsQueued DEF Sound
<1>3. CASE Poll
  <2>1. Goto("async_tcp", "poll") /\ UNCHANGED <<msgs, msg, obj, buf, locked, job, piece, early>>
    BY <1>3 DEF Poll, queues, messages, buffers, excuses
  <2>2. Queued' /\ Guarded'
    BY <1>0, <2>1, EventIsQueued
  <2> QED
    BY <1>0, <1>3, <2>2, PollIsShaped DEF Sound
<1>4. CASE PollTimer
  <2>1. /\ Goto("async_tcp", "idle") \/ Goto("async_tcp", "choose")
        /\ UNCHANGED <<msgs, msg, obj, buf, locked, job, piece, early>>
    BY <1>4 DEF PollTimer, Close, messages, buffers, excuses
  <2>2. Queued' /\ Guarded'
    BY <1>0, <2>1, EventIsQueued
  <2> QED
    BY <1>0, <1>4, <2>2, PollTimerIsShaped DEF Sound
<1>5. ASSUME NEW op \in {"pong", "close"}, QueueControl(op), status' = status \/ status' = "disconnecting"
      PROVE  Sound'
  <2>1. /\ Goto("async_tcp", "idle") \/ Goto("async_tcp", "choose")
        /\ UNCHANGED <<msgs, msg, obj, buf, locked, job, piece, early>>
    BY <1>5 DEF QueueControl, messages, buffers, excuses
  <2>2. Queued' /\ Guarded'
    BY <1>0, <2>1, EventIsQueued
  <2>3. status' \in {"connected", "disconnecting", "disconnected"}
    BY <1>0, <1>5, EventLabels, Facts DEF QueuesTyped
  <2> QED
    BY <1>0, <1>5, <2>2, <2>3, QueueControlIsShaped DEF Sound
<1>6. CASE ReceivePing \/ ReceiveClose
  BY <1>5, <1>6 DEF ReceivePing, ReceiveClose
<1>7. CASE Seconds
  <2>1. /\ at["async_tcp"] = "idle" /\ at' = at
        /\ UNCHANGED <<msgs, msg, obj, buf, locked, job, piece, early>>
    BY <1>7, EventLabels DEF Seconds, Idle, queues, messages, buffers
  <2>2. Goto("async_tcp", "idle")
    BY <1>0, <2>1, EventLabels, Facts DEF Goto, TasksTyped
  <2>3. Queued' /\ Guarded'
    BY <1>0, <2>1, <2>2, EventIsQueued
  <2> QED
    BY <1>0, <1>7, <2>3, SecondsIsShaped DEF Sound
<1> QED
  BY <1>1, <1>2, <1>3, <1>4, <1>6, <1>7 DEF Callback

LEMMA StutterIsSound ==
  ASSUME Sound, UNCHANGED vars
  PROVE  Sound'
<1>1. UNCHANGED <<status, msgs, ctl, made, msg, obj, buf, locked, at, job, piece, flight, rx, received, broken,
                  crossed, resent, failed, early, controls>>
  BY DEF vars, queues, messages, buffers, stream, excuses
<1>2. Typed'
  BY <1>1 DEF Sound, Shaped, Typed, QueuesTyped, MessagesTyped, BuffersTyped, TasksTyped, PageTyped, ExcusesTyped
<1>3. InOrder' /\ Alone' /\ Made' /\ StageAll'
  BY <1>1 DEF Sound, Shaped, InOrder, InFlight, Alone, Made, StageAll, Stage, Space
<1>4. Queued' /\ Guarded'
  BY <1>1 DEF Sound, Queued, Fresh, Guarded, BufferOutlivesMessages
<1> QED
  BY <1>2, <1>3, <1>4 DEF Sound, Shaped

LEMMA NextIsSound == Sound /\ [Next]_vars => Sound'
<1> SUFFICES ASSUME Sound, [Next]_vars PROVE Sound'
  OBVIOUS
<1>1. ASSUME NEW t \in Tasks, Step(t) PROVE Sound'
  BY <1>1, StepIsSound
<1>2. ASSUME NEW t \in Tasks, NEW len \in Lengths, MakeBuffer(t, len) PROVE Sound'
  BY <1>2, MakeBufferIsShaped, MakeBufferIsQueued DEF Sound
<1>3. CASE Callback \/ Seconds
  BY <1>3, EventIsSound
<1>4. CASE UNCHANGED vars
  BY <1>4, StutterIsSound
<1> QED
  BY <1>1, <1>2, <1>3, <1>4 DEF Next

LEMMA SoundIsTyped == Sound => TypeOK
<1> SUFFICES ASSUME Sound PROVE TypeOK
  OBVIOUS
<1>0. Shaped /\ InOrder /\ MessagesTyped /\ QueuesTyped /\ Made /\ Space \in 0..SndBuf
  BY EventLabels, Facts, SpaceType DEF Sound
<1>1. status \in {"connected", "disconnecting", "disconnected"} /\ ToSet(msgs) \subseteq 1..made
      /\ Len(msgs) <= MaxQueued
  <2>1. \A k \in DOMAIN msgs : msgs[k] \in 1..made
    BY <1>0, QueueFacts, SeqFacts DEF QueuesTyped
  <2> QED
    BY <1>0, <2>1 DEF QueuesTyped, ToSet
<1>2. \A i \in Ids : msg[i].acked \in 0..Word - 1 /\ msg[i].sent \in 0..msg[i].len
  <2> SUFFICES ASSUME NEW i \in Ids PROVE msg[i].acked \in 0..Word - 1 /\ msg[i].sent \in 0..msg[i].len
    OBVIOUS
  <2>1. msg[i].sent \in Nat /\ msg[i].len \in Nat /\ msg[i].acked \in 0..Word - 1 /\ msg[i].sent <= msg[i].len
    BY <1>0, EventLabels, Facts DEF Made
  <2> QED
    BY <2>1
<1>3. ASSUME NEW t \in Tasks
      PROVE  /\ at[t] \in {"control", "header"} => Space >= 2
             /\ at[t] = "data" => Space >= piece[t].wrote
  <2>1. Stage(t) /\ Space \in Int /\ piece[t].n \in Nat /\ piece[t].wrote \in Nat
    BY <1>0, Facts, Bounds
  <2> QED
    BY <2>1 DEF Stage
<1> QED
  BY <1>0, <1>1, <1>2, <1>3 DEF TypeOK

(* What has been written is within the send buffer, and what a task is about  *)
(* to write still fits when it comes to write it: the space that              *)
(* webSocketSendFrameWindow kept back when the frame was chosen is there      *)
(* although acknowledgements, polls and the other task's messages came in     *)
(* between.  An acknowledged count stays within its word.                     *)
THEOREM TypeCorrect == Spec => []TypeOK
<1>1. Spec => []Sound
  BY InitIsSound, NextIsSound, PTL DEF Spec
<1> QED
  BY <1>1, SoundIsTyped, PTL

(* The buffer of a broadcast is freed only when its message is not queued any *)
(* more, whatever acknowledgement or other broadcast has _cleanBuffers run,   *)
(* unless it went before textAll had locked it.                               *)
THEOREM BuffersAlwaysOutlive == Spec => []BufferOutlivesMessages
<1>1. Spec => []Sound
  BY InitIsSound, NextIsSound, PTL DEF Spec
<1>2. Sound => BufferOutlivesMessages
  BY DEF Sound, Guarded
<1> QED
  BY <1>1, <1>2, PTL

----------------------------------------------------------------------------
(* What is counted for the first message is in flight or owed to it *)

Good == ~resent /\ "output" \notin failed

CtlSent == ctl # <<>> /\ Head(ctl).finished
MsgBytes == IF CtlSent THEN 0 ELSE InFlight

\* What is counted and not written yet, or not taken back yet.
Due(t) ==
  IF piece[t].of = 0 THEN 0
  ELSE IF at[t] = "header" THEN piece[t].n + 2
  ELSE IF at[t] = "data" THEN piece[t].n
  ELSE IF at[t] = "settle" THEN piece[t].n - piece[t].wrote
  ELSE 0

\* A header that failed is never taken back.
Lost == IF "header" \in failed THEN 2 ELSE 0
LostData == IF "data" \in failed THEN 2 ELSE 0
Slack == Lost + LostData
Owed == Due("loop") + Due("async_tcp") + Lost
Unacked(i) == msg[i].ack - msg[i].acked

Balanced == MsgBytes + Owed = IF msgs = <<>> THEN 0 ELSE Unacked(Head(msgs))

\* A control frame and the frames of messages are never in flight together.
Exclusive ==
  /\ \A k \in 1..Len(ctl) : k > 1 => ~ctl[k].finished
  /\ CtlSent => /\ flight = <<>> \/ (Len(flight) = 1 /\ flight[1].ctl /\ flight[1].end = 2)
                /\ \A t \in Tasks : piece[t].of = 0
  /\ \A t \in Tasks : at[t] = "control" => CtlSent /\ flight = <<>>
  /\ ~CtlSent => \A k \in 1..Len(flight) : ~flight[k].ctl

\* A frame has a byte or more, and a header of two.
Extra(t) == IF at[t] = "settle" /\ piece[t].wrote = 0 THEN 0 ELSE 2
Writes(t, i) == piece[t].of = i /\ at[t] \in Writing

Bounded ==
  msgs # <<>> =>
    /\ \A t \in Tasks : Writes(t, Head(msgs)) =>
         msg[Head(msgs)].ack <= 3 * piece[t].from + piece[t].n + Slack + Extra(t)
    /\ (\A t \in Tasks : ~Writes(t, Head(msgs))) =>
         msg[Head(msgs)].ack <= 3 * msg[Head(msgs)].sent + Slack

Whole ==
  /\ msgs # <<>> /\ Finished(Head(msgs)) => msg[Head(msgs)].sent = msg[Head(msgs)].len /\ Between(Head(msgs))
  /\ \A t \in Tasks : at[t] = "begin" => /\ msgs # <<>> /\ piece[t].of = Head(msgs)
                                         /\ ~Finished(Head(msgs)) /\ Between(Head(msgs)) /\ ~CtlSent

WrittenDeleted ==
  \A t \in Tasks : piece[t].of # 0 /\ obj[piece[t].of] = "deleted" =>
    at[t] \in {"output", "stamp", "settle"} /\ piece[t].wrote = piece[t].n

Agreed == Balanced /\ Exclusive /\ Bounded /\ Whole /\ WrittenDeleted
Counted == Good /\ ~crossed => Agreed

LEMMA CountFacts ==
  ASSUME Shaped
  PROVE  /\ \A t \in Tasks : Due(t) \in Nat
         /\ Lost \in {0, 2} /\ LostData \in {0, 2} /\ Slack \in 0..4 /\ Owed \in Nat
         /\ InFlight \in Nat /\ MsgBytes \in Nat /\ (InFlight = 0 <=> flight = <<>>)
         /\ \A t \in Tasks : Owed >= Due(t)
         /\ msgs # <<>> => /\ Head(msgs) \in Ids /\ msg[Head(msgs)].ack \in Int /\ msg[Head(msgs)].acked \in Nat
                           /\ msg[Head(msgs)].sent \in Nat /\ msg[Head(msgs)].len \in Nat
         /\ \A t \in Tasks : at[t] \notin Sending => piece[t].of = 0 /\ Due(t) = 0 /\ at[t] \notin Writing
<1>1. ASSUME NEW t \in Tasks PROVE Due(t) \in Nat
  <2>1. piece[t].n \in Nat /\ piece[t].wrote \in Nat /\ Stage(t)
    BY Facts
  <2> QED
    BY <2>1 DEF Due, Stage
<1>2. Lost \in {0, 2} /\ LostData \in {0, 2} /\ Slack \in 0..4
  BY DEF Lost, LostData, Slack
<1>3. Owed \in Nat /\ \A t \in Tasks : Owed >= Due(t)
  BY <1>1, <1>2 DEF Owed, Tasks
<1>4. InFlight \in Nat /\ MsgBytes \in Nat /\ (InFlight = 0 <=> flight = <<>>)
  <2>1. InOrder
    BY DEF Shaped
  <2>2. flight # <<>> => InFlight > 0
    BY <2>1, SegmentsAre DEF InFlight
  <2> QED
    BY <2>1, <2>2, SpaceType, Bounds DEF InFlight, MsgBytes
<1>5. msgs # <<>> => /\ Head(msgs) \in Ids /\ msg[Head(msgs)].ack \in Int /\ msg[Head(msgs)].acked \in Nat
                     /\ msg[Head(msgs)].sent \in Nat /\ msg[Head(msgs)].len \in Nat
  <2>1. msgs # <<>> => Head(msgs) \in Ids
    BY QueueFacts
  <2>2. \A i \in Ids : /\ msg[i].sent \in Nat /\ msg[i].len \in Nat
                       /\ msg[i].acked \in 0..Word - 1 /\ msg[i].ack \in Int
    BY EventLabels, Facts
  <2> QED
    BY <2>1, <2>2, Bounds
<1>6. ASSUME NEW t \in Tasks, at[t] \notin Sending
      PROVE  piece[t].of = 0 /\ Due(t) = 0 /\ at[t] \notin Writing
  <2>1. piece[t] = NoPiece
    BY <1>6, Facts DEF Stage
  <2> QED
    BY <1>6, <2>1, NoPieceType DEF Due, Sending, Writing
<1> QED
  BY <1>1, <1>2, <1>3, <1>4, <1>5, <1>6

LEMMA OwedChanges ==
  ASSUME Shaped, NEW t \in Tasks, \A u \in Tasks : u # t => at'[u] = at[u] /\ piece'[u] = piece[u],
         Due(t)' \in Int
  PROVE  Owed' = Owed - Due(t) - Lost + Due(t)' + Lost'
<1>1. \A u \in Tasks : Due(u) \in Nat
  BY CountFacts
<1>2. Lost \in Int /\ Lost' \in Int
  BY DEF Lost
<1>3. \A u \in Tasks : u # t => Due(u)' = Due(u)
  BY DEF Due
<1>4. CASE t = "loop"
  <2>1. Due("async_tcp")' = Due("async_tcp") /\ Due("async_tcp") \in Nat /\ Due("loop") \in Nat
    BY <1>1, <1>3, <1>4, EventLabels
  <2> QED
    BY <1>2, <1>4, <2>1 DEF Owed
<1>5. CASE t = "async_tcp"
  <2>1. Due("loop")' = Due("loop") /\ Due("async_tcp") \in Nat /\ Due("loop") \in Nat
    BY <1>1, <1>3, <1>5, EventLabels
  <2> QED
    BY <1>2, <1>5, <2>1 DEF Owed
<1> QED
  BY <1>4, <1>5 DEF Tasks

\* Where only one task sends, all that is due is its own.
LEMMA SenderAlone ==
  ASSUME Shaped, Open, NEW t \in Tasks, at[t] \in Sending
  PROVE  /\ \A u \in Tasks : u # t => at[u] \notin Sending /\ piece[u].of = 0 /\ Due(u) = 0 /\ at[u] \notin Writing
         /\ Owed = Due(t) + Lost
<1>1. \A u \in Tasks : u # t => at[u] \notin Sending
  BY OneSends DEF Shaped, Open
<1>2. \A u \in Tasks : u # t => piece[u].of = 0 /\ Due(u) = 0 /\ at[u] \notin Writing
  BY <1>1, CountFacts
<1>3. Owed = Due(t) + Lost
  <2>1. Due(t) \in Nat /\ Lost \in {0, 2}
    BY CountFacts
  <2> QED
    BY <1>2, <2>1 DEF Owed, Tasks
<1> QED
  BY <1>1, <1>2, <1>3

\* What sends nothing, and leaves the first message or brings a fresh one.
LEMMA AgreedStays ==
  ASSUME Shaped, Queued, Queued', Agreed, piece' = piece, flight' = flight, failed' = failed, CtlSent' <=> CtlSent,
         \A k \in 1..Len(ctl') : k > 1 => ~ctl'[k].finished,
         \A u \in Tasks : at'[u] = at[u] \/ (at[u] \notin Sending /\ at'[u] \notin Sending),
         \A u \in Tasks : piece[u].of # 0 => obj'[piece[u].of] = obj[piece[u].of],
         IF msgs # <<>> THEN msgs' # <<>> /\ Head(msgs') = Head(msgs) /\ msg'[Head(msgs)] = msg[Head(msgs)]
                        ELSE msgs' = <<>> \/ (Fresh(Head(msgs))' /\ Head(msgs') \in Ids /\ obj'[Head(msgs')] = "alive")
  PROVE  Agreed'
<1>1. ASSUME NEW u \in Tasks PROVE Due(u)' = Due(u) /\ (at'[u] \in Sending => at'[u] = at[u])
  <2>1. CASE at'[u] = at[u]
    BY <2>1 DEF Due
  <2>2. CASE at[u] \notin Sending /\ at'[u] \notin Sending
    BY <2>2 DEF Due, Sending
  <2> QED
    BY <2>1, <2>2
<1>2. Owed' = Owed /\ Lost' = Lost /\ LostData' = LostData /\ Slack' = Slack /\ MsgBytes' = MsgBytes
  <2>1. Lost' = Lost /\ LostData' = LostData /\ MsgBytes' = MsgBytes
    BY DEF Lost, LostData, MsgBytes, InFlight
  <2> QED
    BY <1>1, <2>1, EventLabels DEF Owed, Slack
<1>3. ASSUME msgs # <<>>
      PROVE  /\ msgs' # <<>> /\ Head(msgs') = Head(msgs) /\ msg'[Head(msgs')] = msg[Head(msgs)]
             /\ \A u \in Tasks : Writes(u, Head(msgs))' <=> Writes(u, Head(msgs))
  <2>1. \A u \in Tasks : at'[u] \in Writing <=> at[u] \in Writing
    BY DEF Sending, Writing
  <2> QED
    BY <1>3, <2>1 DEF Writes
<1>4. ASSUME msgs = <<>>, msgs' # <<>>
      PROVE  /\ Fresh(Head(msgs))' /\ \A u \in Tasks : ~Writes(u, Head(msgs))' /\ at'[u] # "begin"
  <2>1. \A u \in Tasks : piece[u].of # 0 => obj'[piece[u].of] = "deleted"
    BY <1>4 DEF Queued
  <2>2. Fresh(Head(msgs))' /\ Head(msgs') # 0 /\ obj'[Head(msgs')] = "alive"
    BY <1>4 DEF Ids
  <2>3. \A u \in Tasks : at'[u] = "begin" => at[u] = "begin"
    BY <1>1 DEF Sending
  <2> QED
    BY <1>4, <2>1, <2>2, <2>3 DEF Writes, Agreed, Whole
<1>5. Balanced'
  <2>1. CASE msgs # <<>>
    BY <1>2, <1>3, <2>1 DEF Agreed, Balanced, Unacked
  <2>2. CASE msgs = <<>> /\ msgs' # <<>>
    BY <1>2, <1>4, <2>2 DEF Agreed, Balanced, Unacked, Fresh
  <2>3. CASE msgs = <<>> /\ msgs' = <<>>
    BY <1>2, <2>3 DEF Agreed, Balanced
  <2> QED
    BY <2>1, <2>2, <2>3
<1>6. Exclusive'
  <2>1. \A u \in Tasks : at'[u] = "control" => at[u] = "control"
    BY <1>1 DEF Sending
  <2> QED
    BY <2>1 DEF Agreed, Exclusive
<1>7. Bounded'
  <2>1. CASE msgs # <<>>
    <3>1. \A u \in Tasks : Writes(u, Head(msgs))' => Extra(u)' = Extra(u)
      BY <1>1 DEF Writes, Writing, Sending, Extra
    <3>2. \A u \in Tasks : Writes(u, Head(msgs))' =>
            msg'[Head(msgs')].ack <= 3 * piece'[u].from + piece'[u].n + Slack' + Extra(u)'
      BY <1>2, <1>3, <2>1, <3>1 DEF Agreed, Bounded
    <3>3. (\A u \in Tasks : ~Writes(u, Head(msgs))') => msg'[Head(msgs')].ack <= 3 * msg'[Head(msgs')].sent + Slack'
      BY <1>2, <1>3, <2>1 DEF Agreed, Bounded
    <3> QED
      BY <3>2, <3>3 DEF Bounded
  <2>2. CASE msgs = <<>> /\ msgs' # <<>>
    <3>1. Slack' \in 0..4
      BY <1>2, CountFacts
    <3> QED
      BY <1>4, <2>2, <3>1 DEF Bounded, Fresh
  <2>3. CASE msgs = <<>> /\ msgs' = <<>>
    BY <2>3 DEF Bounded
  <2> QED
    BY <2>1, <2>2, <2>3
<1>8. Whole'
  <2>1. CASE msgs # <<>>
    <3>1. \A u \in Tasks : at'[u] = "begin" => at[u] = "begin"
      BY <1>1 DEF Sending
    <3> QED
      BY <1>3, <2>1, <3>1 DEF Agreed, Whole, Finished, Between
  <2>2. CASE msgs = <<>> /\ msgs' # <<>>
    BY <1>4, <2>2 DEF Whole, Fresh, Finished
  <2>3. CASE msgs = <<>> /\ msgs' = <<>>
    <3>1. \A u \in Tasks : at'[u] # "begin"
      BY <1>1, <2>3 DEF Sending, Agreed, Whole
    <3> QED
      BY <2>3, <3>1 DEF Whole
  <2> QED
    BY <2>1, <2>2, <2>3
<1>9. WrittenDeleted'
  <2>1. \A u \in Tasks : at[u] \in {"output", "stamp", "settle"} => at'[u] = at[u]
    BY DEF Sending
  <2> QED
    BY <2>1 DEF Agreed, WrittenDeleted
<1> QED
  BY <1>5, <1>6, <1>7, <1>8, <1>9 DEF Agreed

LEMMA RestMoves ==
  ASSUME Shaped, NEW t \in Tasks, at[t] \notin Sending, NEW l \in {"idle", "choose", "made", "queue", "poll"},
         Goto(t, l), l = "poll" => t = "async_tcp"
  PROVE  \A u \in Tasks : at'[u] = at[u] \/ (at[u] \notin Sending /\ at'[u] \notin Sending)
<1>1. l \in Labels /\ l \notin Sending
  BY DEF Labels, Sending
<1>2. at'[t] = l /\ \A u \in Tasks : u # t => at'[u] = at[u]
  BY <1>1, Facts, Moved
<1> QED
  BY <1>1, <1>2

LEMMA KeptIsAgreed ==
  ASSUME Shaped, Queued, Queued', Agreed, UNCHANGED <<msgs, ctl, obj, piece, flight, failed>>,
         \A i \in Ids : msg'[i] = msg[i] \/ obj[i] = "none",
         \A u \in Tasks : at'[u] = at[u] \/ (at[u] \notin Sending /\ at'[u] \notin Sending)
  PROVE  Agreed'
<1>1. (CtlSent' <=> CtlSent) /\ \A k \in 1..Len(ctl') : k > 1 => ~ctl'[k].finished
  BY DEF CtlSent, Agreed, Exclusive
<1>2. msgs # <<>> => msg'[Head(msgs)] = msg[Head(msgs)]
  BY QueueFacts DEF Queued
<1> QED
  BY <1>1, <1>2, AgreedStays

LEMMA GrownIsAgreed ==
  ASSUME Sound, Queued', Agreed, NEW t \in Tasks, at[t] \notin Sending, at[t] # "poll", NEW i \in Ids, i \in 1..made',
         Enqueue(t, i), obj[i] = "none", Fresh(i)', made' \in Nat, made' >= made,
         UNCHANGED <<ctl, piece, flight, failed>>, \A j \in Ids : j # i => msg'[j] = msg[j]
  PROVE  Agreed'
<1>0. Shaped /\ Queued
  BY DEF Sound
<1>1. /\ at'[t] \in {"choose", "idle", "unlock"} /\ \A u \in Tasks : u # t => at'[u] = at[u]
      /\ \A j \in Ids : j # i => obj'[j] = obj[j]
      /\ \/ msgs' = msgs /\ obj' = obj
         \/ msgs' = Append(msgs, i) /\ obj' = [obj EXCEPT ![i] = "alive"]
  BY <1>0, EnqueueType
<1>2. \A u \in Tasks : at'[u] = at[u] \/ (at[u] \notin Sending /\ at'[u] \notin Sending)
  BY <1>1 DEF Sending
<1>3. (CtlSent' <=> CtlSent) /\ \A k \in 1..Len(ctl') : k > 1 => ~ctl'[k].finished
  BY DEF CtlSent, Agreed, Exclusive
<1>4. \A u \in Tasks : piece[u].of # 0 => obj'[piece[u].of] = obj[piece[u].of]
  <2> SUFFICES ASSUME NEW u \in Tasks, piece[u].of # 0 PROVE obj'[piece[u].of] = obj[piece[u].of]
    OBVIOUS
  <2>1. piece[u].of \in Ids /\ (msgs # <<>> => Head(msgs) \in Ids /\ Head(msgs) = msgs[1] /\ 1 \in 1..Len(msgs))
    BY <1>0, QueueFacts
  <2>2. obj[piece[u].of] = "deleted" \/ (msgs # <<>> /\ piece[u].of = msgs[1])
    BY <1>0, <2>1 DEF Queued
  <2>3. ASSUME msgs # <<>>, piece[u].of = msgs[1] PROVE obj[piece[u].of] = "alive"
    <3>1. msgs[1] \in Ids /\ 1 \in 1..Len(msgs)
      BY <2>1, <2>3
    <3>2. \A v \in Ids : (\E k \in 1..Len(msgs) : msgs[k] = v) => obj[v] = "alive"
      BY <1>0 DEF Queued
    <3> QED
      BY <2>3, <3>1, <3>2
  <2> QED
    BY <1>1, <2>1, <2>2, <2>3
<1>5. msgs # <<>> => msg'[Head(msgs)] = msg[Head(msgs)]
  <2> SUFFICES ASSUME msgs # <<>> PROVE msg'[Head(msgs)] = msg[Head(msgs)]
    OBVIOUS
  <2>1. Head(msgs) \in Ids /\ obj[Head(msgs)] = "alive"
    BY <1>0, QueueFacts DEF Queued
  <2> QED
    BY <2>1
<1>6. IF msgs # <<>> THEN msgs' # <<>> /\ Head(msgs') = Head(msgs) /\ msg'[Head(msgs)] = msg[Head(msgs)]
                     ELSE msgs' = <<>> \/ (Fresh(Head(msgs))' /\ Head(msgs') \in Ids /\ obj'[Head(msgs')] = "alive")
  <2>1. CASE msgs' = msgs
    BY <1>5, <2>1
  <2>2. CASE msgs' = Append(msgs, i) /\ obj' = [obj EXCEPT ![i] = "alive"]
    <3>1. msgs \in Seq(1..made) /\ Len(msgs) \in Nat /\ obj \in [Ids -> {"none", "alive", "deleted"}]
      BY <1>0, QueueFacts, Facts DEF MessagesTyped
    <3>2. msgs' # <<>> /\ (msgs # <<>> => Head(msgs') = Head(msgs)) /\ (msgs = <<>> => Head(msgs') = i)
      BY <2>2, <3>1
    <3> QED
      BY <1>5, <2>2, <3>1, <3>2 DEF Fresh
  <2> QED
    BY <1>1, <2>1, <2>2
<1> QED
  BY <1>0, <1>2, <1>3, <1>4, <1>6, AgreedStays

LEMMA RestIsAgreed ==
  ASSUME Sound, Queued', Agreed, NEW t \in Tasks, NEW len,
         \/ Open /\ (LockBuffer(t) \/ QueueBuffer(t) \/ UnlockBuffer(t))
         \/ len \in Lengths /\ (MakeBuffer(t, len) \/ Text(len))
         \/ Poll \/ PollTimer \/ Seconds \/ ReceivePing \/ ReceiveClose
  PROVE  Agreed'
<1>0. Shaped /\ Queued /\ made \in Nat
  BY QueueFacts DEF Sound
<1>1. CASE LockBuffer(t)
  <2>1. /\ at[t] = "made" /\ at[t] \notin Sending /\ Goto(t, "queue")
        /\ UNCHANGED <<msgs, ctl, obj, msg, piece, flight, failed>>
    BY <1>1 DEF LockBuffer, Sending, queues, messages, stream
  <2> QED
    BY <1>0, <2>1, RestMoves, KeptIsAgreed
<1>2. CASE UnlockBuffer(t)
  <2>1. /\ at[t] = "unlock" /\ at[t] \notin Sending /\ Goto(t, "idle")
        /\ UNCHANGED <<msgs, ctl, obj, msg, piece, flight, failed>>
    BY <1>2 DEF UnlockBuffer, Sending, queues, messages, stream, excuses
  <2> QED
    BY <1>0, <2>1, RestMoves, KeptIsAgreed
<1>3. CASE len \in Lengths /\ MakeBuffer(t, len)
  <2>1. /\ at[t] = "idle" /\ at[t] \notin Sending /\ Goto(t, "made") /\ Make(t, "multi", len)
        /\ UNCHANGED <<msgs, ctl, obj, piece, flight, failed>>
    BY <1>3 DEF MakeBuffer, Idle, Sending, queues, stream, excuses
  <2>2. "multi" \in {"basic", "multi"}
    OBVIOUS
  <2>3. made' \in Ids /\ made' > made /\ \A i \in Ids : i # made' => msg'[i] = msg[i]
    BY <1>0, <1>3, <2>1, <2>2, MakeType
  <2>4. obj[made'] = "none"
    BY <1>0, <2>3, Facts, EventLabels DEF Made
  <2> QED
    BY <1>0, <2>1, <2>3, <2>4, RestMoves, KeptIsAgreed
<1>4. CASE len \in Lengths /\ Text(len)
  <2> DEFINE a == "async_tcp"
  <2>1. /\ a \in Tasks /\ at[a] = "idle" /\ at[a] \notin Sending /\ at[a] # "poll" /\ Make(a, "basic", len) /\ Enqueue(a, made')
        /\ UNCHANGED <<ctl, piece, flight, failed>>
    BY <1>4, EventLabels DEF Text, Idle, Sending, stream, excuses
  <2> HIDE DEF a
  <2>2. "basic" \in {"basic", "multi"}
    OBVIOUS
  <2>3. /\ made' \in Ids /\ made' > made /\ made' \in 1..made' /\ made' \in Nat /\ made' >= made
        /\ \A i \in Ids : i # made' => msg'[i] = msg[i]
        /\ Fresh(made)'
    BY <1>0, <1>4, <2>1, <2>2, MakeType DEF Fresh
  <2>4. obj[made'] = "none"
    BY <1>0, <2>3, Facts, EventLabels DEF Made
  <2>5. PICK i \in Ids : i = made'
    BY <2>3
  <2>6. Fresh(i)'
    BY <2>3, <2>5 DEF Fresh
  <2>7. /\ i \in 1..made' /\ Enqueue(a, i) /\ obj[i] = "none" /\ \A j \in Ids : j # i => msg'[j] = msg[j]
    BY <2>1, <2>3, <2>4, <2>5
  <2> QED
    BY <2>1, <2>3, <2>6, <2>7, GrownIsAgreed
<1>5. CASE QueueBuffer(t)
  <2>1. /\ at[t] = "queue" /\ at[t] \notin Sending /\ at[t] # "poll" /\ Enqueue(t, job[t])
        /\ UNCHANGED <<ctl, made, msg, job, piece, flight, failed>>
    BY <1>5 DEF QueueBuffer, Sending, stream, excuses
  <2>2. job[t] # 0 /\ obj[job[t]] = "none" /\ Fresh(job[t])
    BY <1>0, <2>1 DEF Queued
  <2>3. job[t] \in Ids /\ job[t] \in 0..made
    BY <1>0, <2>2, QueueFacts
  <2>4. PICK i \in Ids : i = job[t]
    BY <2>3
  <2>5. Fresh(i)'
    BY <2>1, <2>2, <2>4 DEF Fresh
  <2>6. /\ i \in 1..made' /\ Enqueue(t, i) /\ obj[i] = "none" /\ made' \in Nat /\ made' >= made
        /\ \A j \in Ids : j # i => msg'[j] = msg[j]
    BY <1>0, <2>1, <2>2, <2>3, <2>4
  <2> QED
    BY <2>1, <2>5, <2>6, GrownIsAgreed
<1>6. CASE Poll
  <2>1. /\ at["async_tcp"] = "idle" /\ at["async_tcp"] \notin Sending /\ Goto("async_tcp", "poll")
        /\ UNCHANGED <<msgs, ctl, obj, msg, piece, flight, failed>>
    BY <1>6 DEF Poll, Idle, Sending, queues, messages, stream, excuses
  <2> QED
    BY <1>0, <2>1, EventLabels, RestMoves, KeptIsAgreed
<1>7. CASE PollTimer
  <2>1. /\ at["async_tcp"] = "poll" /\ at["async_tcp"] \notin Sending
        /\ Goto("async_tcp", "choose") \/ Goto("async_tcp", "idle")
        /\ UNCHANGED <<msgs, ctl, obj, msg, piece, flight, failed>>
    BY <1>7 DEF PollTimer, Close, Sending, messages, stream, excuses
  <2>2. \A u \in Tasks : at'[u] = at[u] \/ (at[u] \notin Sending /\ at'[u] \notin Sending)
    BY <1>0, <2>1, EventLabels, RestMoves
  <2> QED
    BY <1>0, <2>1, <2>2, KeptIsAgreed
<1>8. CASE Seconds
  <2>1. at' = at /\ UNCHANGED <<msgs, ctl, obj, msg, piece, flight, failed>>
    BY <1>8 DEF Seconds, queues, messages, stream
  <2> QED
    BY <1>0, <2>1, KeptIsAgreed
<1>9. ASSUME NEW op \in {"pong", "close"}, QueueControl(op)
      PROVE  Agreed'
  <2>1. /\ at["async_tcp"] = "idle" /\ at["async_tcp"] \notin Sending
        /\ ctl' = Append(ctl, [op |-> op, finished |-> FALSE])
        /\ Goto("async_tcp", "choose") \/ Goto("async_tcp", "idle")
        /\ UNCHANGED <<msgs, obj, msg, piece, flight, failed>>
    BY <1>9 DEF QueueControl, Idle, Sending, messages, stream, excuses
  <2>2. \A u \in Tasks : at'[u] = at[u] \/ (at[u] \notin Sending /\ at'[u] \notin Sending)
    BY <1>0, <2>1, EventLabels, RestMoves
  <2>3. ctl \in Seq(Controls) /\ Len(ctl) \in Nat
    BY <1>0, EventLabels, Facts, SeqFacts DEF QueuesTyped
  <2>4. /\ Len(ctl') = Len(ctl) + 1 /\ ctl'[Len(ctl) + 1] = [op |-> op, finished |-> FALSE]
        /\ \A k \in 1..Len(ctl) : ctl'[k] = ctl[k]
        /\ ctl' # <<>> /\ Head(ctl') = ctl'[1] /\ (ctl # <<>> => Head(ctl) = ctl[1] /\ Len(ctl) > 0)
        /\ (ctl = <<>> => Len(ctl) = 0)
    BY <2>1, <2>3
  <2>5. [op |-> op, finished |-> FALSE].finished = FALSE
    OBVIOUS
  <2>6. CtlSent' <=> CtlSent
    <3>1. CASE ctl = <<>>
      BY <2>4, <2>5, <3>1 DEF CtlSent
    <3>2. CASE ctl # <<>>
      <4>1. 1 \in 1..Len(ctl)
        BY <2>3, <2>4, <3>2
      <4> QED
        BY <2>4, <3>2, <4>1 DEF CtlSent
    <3> QED
      BY <3>1, <3>2
  <2>7. \A k \in 1..Len(ctl') : k > 1 => ~ctl'[k].finished
    <3>1. \A k \in 1..Len(ctl') : k \in 1..Len(ctl) \/ k = Len(ctl) + 1
      BY <2>3, <2>4
    <3> QED
      BY <2>4, <2>5, <3>1 DEF Agreed, Exclusive
  <2> QED
    BY <1>0, <2>1, <2>2, <2>6, <2>7, AgreedStays
<1>10. CASE ReceivePing \/ ReceiveClose
  BY <1>9, <1>10 DEF ReceivePing, ReceiveClose
<1> QED
  BY <1>1, <1>2, <1>3, <1>4, <1>5, <1>6, <1>7, <1>8, <1>10

LEMMA Goes ==
  ASSUME Shaped, NEW t \in Tasks, NEW l \in Writing, Goto(t, l), NEW p, piece' = [piece EXCEPT ![t] = p]
  PROVE  at'[t] = l /\ piece'[t] = p /\ \A u \in Tasks : u # t => at'[u] = at[u] /\ piece'[u] = piece[u]
<1>1. l \in Labels /\ l # "poll" /\ TasksTyped
  BY Facts DEF Writing, Labels, Sending
<1>2. at'[t] = l /\ \A u \in Tasks : u # t => at'[u] = at[u]
  BY <1>1, Moved
<1>3. piece'[t] = p /\ \A u \in Tasks : u # t => piece'[u] = piece[u]
  BY <1>1 DEF TasksTyped
<1> QED
  BY <1>2, <1>3

LEMMA StopsMoves ==
  ASSUME Shaped, NEW t \in Tasks, Stops(t)
  PROVE  /\ at'[t] \in {"idle", "unlock"} /\ piece'[t] = NoPiece /\ piece'[t].of = 0 /\ Due(t)' = 0
         /\ \A u \in Tasks : u # t => at'[u] = at[u] /\ piece'[u] = piece[u]
<1>1. TasksTyped
  BY Facts
<1>2. at'[t] \in {"idle", "unlock"} /\ \A u \in Tasks : u # t => at'[u] = at[u]
  BY <1>1, DoneMoves DEF Stops
<1>3. piece'[t] = NoPiece /\ \A u \in Tasks : u # t => piece'[u] = piece[u]
  BY <1>1 DEF TasksTyped, Stops
<1> QED
  BY <1>2, <1>3, NoPieceType DEF Due

\* While a message is sent no control frame is, and what is written is no control frame.
LEMMA ExclusiveStays ==
  ASSUME Sound, Agreed, Open, NEW t \in Tasks, at[t] \in Sending, ctl' = ctl, piece[t].of # 0, at'[t] # "control",
         \A u \in Tasks : u # t => at'[u] = at[u],
         flight' = flight \/ \E s \in Segments : ~s.ctl /\ flight' = Append(flight, s)
  PROVE  Exclusive' /\ ~CtlSent /\ ~CtlSent'
<1>1. ~CtlSent /\ ~CtlSent' /\ \A k \in 1..Len(flight) : ~flight[k].ctl
  BY DEF Agreed, Exclusive, CtlSent
<1>2. \A u \in Tasks : at'[u] # "control"
  <2>1. \A u \in Tasks : u # t => at[u] \notin Sending
    BY SenderAlone DEF Sound
  <2> QED
    BY <2>1 DEF Sending
<1>3. \A k \in 1..Len(flight') : ~flight'[k].ctl
  <2>1. CASE flight' = flight
    BY <1>1, <2>1
  <2>2. ASSUME NEW s \in Segments, ~s.ctl, flight' = Append(flight, s)
        PROVE  \A k \in 1..Len(flight') : ~flight'[k].ctl
    <3>1. flight \in Seq(Segments)
      BY DEF Sound, Shaped, InOrder
    <3>2. /\ Len(flight) \in Nat /\ Len(flight') = Len(flight) + 1 /\ flight'[Len(flight) + 1] = s
          /\ \A k \in 1..Len(flight) : flight'[k] = flight[k]
      BY <2>2, <3>1
    <3>3. \A k \in 1..Len(flight') : k \in 1..Len(flight) \/ k = Len(flight) + 1
      BY <3>2
    <3> QED
      BY <1>1, <2>2, <3>2, <3>3
  <2> QED
    BY <2>1, <2>2
<1> QED
  BY <1>1, <1>2, <1>3 DEF Agreed, Exclusive

LEMMA Widens ==
  ASSUME NEW a \in Int, NEW b \in Int, NEW c \in Int, NEW d \in Int, NEW e \in Int, NEW f \in Int,
         a <= b + c + d, e + f >= c + d
  PROVE  a <= b + e + f
OBVIOUS

\* A step of the writer that leaves the messages alone.
LEMMA WriterIsAgreed ==
  ASSUME Sound, Agreed, Open, NEW t \in Tasks, at[t] \in Sending, UNCHANGED <<msgs, obj, msg>>,
         \A u \in Tasks : u # t => at'[u] = at[u] /\ piece'[u] = piece[u],
         at'[t] # "begin", Balanced', Exclusive', Slack' \in Int,
         \/ /\ piece[t].of = 0 \/ obj[piece[t].of] = "deleted"
            /\ piece'[t].of = 0 /\ Slack' >= Slack
         \/ /\ piece[t].of # 0 /\ piece'[t].of = piece[t].of /\ piece'[t].from = piece[t].from /\ piece'[t].n = piece[t].n
            /\ at[t] \in Writing /\ at'[t] \in Writing
            /\ at[t] \in {"output", "stamp"} =>
                 at'[t] \in {"output", "stamp", "settle"} /\ piece'[t].wrote = piece[t].wrote
            /\ at[t] # "settle" /\ Slack' + Extra(t)' >= Slack + Extra(t)
  PROVE  Agreed'
<1>0. Shaped /\ Queued
  BY DEF Sound
<1>1. \A u \in Tasks : u # t => at[u] \notin Sending /\ piece[u].of = 0 /\ at[u] \notin Writing
  BY <1>0, SenderAlone
<1>2. Slack \in 0..4 /\ Extra(t) \in {0, 2} /\ Extra(t)' \in {0, 2}
  BY <1>0, CountFacts DEF Extra
<1>3. piece[t].from \in Nat /\ piece[t].n \in Nat
  BY <1>0, Facts
<1>4. Bounded'
  <2> SUFFICES ASSUME msgs # <<>> PROVE Bounded'
    BY DEF Bounded
  <2>1. Head(msgs) # 0 /\ msg[Head(msgs)].ack \in Int /\ msg[Head(msgs)].sent \in Nat
    BY <1>0, CountFacts, QueueFacts
  <2>2. \A u \in Tasks : u # t => ~Writes(u, Head(msgs)) /\ ~Writes(u, Head(msgs))'
    BY <1>1, <2>1 DEF Writes
  <2>3. CASE piece'[t].of = 0
    <3>0. (piece[t].of = 0 \/ obj[piece[t].of] = "deleted") /\ Slack' >= Slack
      BY <2>3
    <3>1. ~Writes(t, Head(msgs)) /\ ~Writes(t, Head(msgs))' /\ Slack' >= Slack
      <4>1. obj[Head(msgs)] = "alive"
        BY <1>0, QueueFacts DEF Queued
      <4> QED
        BY <2>1, <2>3, <3>0, <4>1 DEF Writes
    <3>2. msg[Head(msgs)].ack <= 3 * msg[Head(msgs)].sent + Slack
      BY <2>2, <3>1 DEF Agreed, Bounded
    <3>3. msg[Head(msgs)].ack <= 3 * msg[Head(msgs)].sent + Slack'
      BY <1>2, <2>1, <3>1, <3>2, SMTT(20)
    <3> QED
      BY <2>2, <3>1, <3>3 DEF Bounded
  <2>4. CASE piece'[t].of # 0
    <3>1. (Writes(t, Head(msgs))' <=> Writes(t, Head(msgs))) /\ piece'[t].from = piece[t].from /\ piece'[t].n = piece[t].n
      BY <2>4 DEF Writes
    <3>2. piece[t].of = Head(msgs) \/ obj[piece[t].of] = "deleted"
      BY <1>0, <2>4 DEF Queued
    <3>3. CASE piece[t].of = Head(msgs)
      <4>1. Writes(t, Head(msgs)) /\ Writes(t, Head(msgs))'
        BY <2>4, <3>1, <3>3 DEF Writes
      <4>2. msg[Head(msgs)].ack <= 3 * piece[t].from + piece[t].n + Slack + Extra(t)
        BY <4>1 DEF Agreed, Bounded
      <4>3. msg[Head(msgs)].ack <= 3 * piece'[t].from + piece'[t].n + Slack' + Extra(t)'
        <5>1. Slack' + Extra(t)' >= Slack + Extra(t) /\ Slack' \in Int
          BY <2>4
        <5>2. Slack \in Int /\ Extra(t) \in Int /\ Extra(t)' \in Int
          BY <1>2
        <5>3. msg[Head(msgs)].ack <= 3 * piece[t].from + piece[t].n + Slack' + Extra(t)'
          <6>1. 3 * piece[t].from + piece[t].n \in Int
            BY <1>3
          <6> QED
            BY <2>1, <4>2, <5>1, <5>2, <6>1, Widens
        <5> QED
          BY <3>1, <5>3
      <4> QED
        BY <2>2, <4>1, <4>3 DEF Bounded
    <3>4. CASE piece[t].of # Head(msgs)
      <4>1. ~Writes(t, Head(msgs)) /\ ~Writes(t, Head(msgs))'
        BY <3>1, <3>4 DEF Writes
      <4>2. obj[piece[t].of] = "deleted"
        BY <3>2, <3>4
      <4>3. at[t] \in {"output", "stamp"}
        BY <2>4, <4>2 DEF Agreed, WrittenDeleted
      <4>4. Stage(t) /\ piece[t].wrote \in Nat
        BY <1>0, Facts
      <4>5. piece[t].n > 0 /\ piece[t].wrote = piece[t].n /\ piece'[t].wrote = piece[t].wrote
        BY <2>4, <4>3, <4>4 DEF Stage, Writing
      <4>6. Extra(t) = 2
        BY <4>3 DEF Extra
      <4>7. Slack' >= Slack
        BY <1>2, <2>4, <4>6
      <4>8. msg[Head(msgs)].ack <= 3 * msg[Head(msgs)].sent + Slack
        BY <2>2, <4>1 DEF Agreed, Bounded
      <4>9. msg[Head(msgs)].ack <= 3 * msg[Head(msgs)].sent + Slack'
        BY <1>2, <2>1, <4>7, <4>8
      <4> QED
        BY <2>2, <4>1, <4>9 DEF Bounded
    <3> QED
      BY <3>3, <3>4
  <2> QED
    BY <2>3, <2>4
<1>5. Whole'
  <2>1. \A u \in Tasks : at'[u] # "begin"
    BY <1>1 DEF Sending
  <2> QED
    BY <2>1 DEF Agreed, Whole, Finished, Between
<1>6. WrittenDeleted'
  <2>1. \A u \in Tasks : u # t => piece'[u].of = 0
    BY <1>1
  <2>2. ASSUME piece'[t].of # 0, obj'[piece'[t].of] = "deleted"
        PROVE  at'[t] \in {"output", "stamp", "settle"} /\ piece'[t].wrote = piece'[t].n
    <3>1. piece[t].of # 0 /\ piece'[t].of = piece[t].of /\ piece'[t].n = piece[t].n /\ at[t] # "settle"
      BY <2>2
    <3>2. at[t] \in {"output", "stamp", "settle"} /\ piece[t].wrote = piece[t].n
      BY <2>2, <3>1 DEF Agreed, WrittenDeleted
    <3> QED
      BY <3>1, <3>2
  <2> QED
    BY <2>1, <2>2 DEF WrittenDeleted
<1> QED
  BY <1>4, <1>5, <1>6 DEF Agreed

LEMMA OutputIsAgreed ==
  ASSUME Sound, Agreed, Open, NEW t \in Tasks, Output(t) \/ Stamp(t), Good'
  PROVE  Agreed'
<1>0. Shaped /\ piece \in [Tasks -> Pieces] /\ Stage(t)
  BY Facts DEF Sound, TasksTyped
<1>1. /\ at[t] \in {"output", "stamp"} /\ at[t] \in Sending
      /\ UNCHANGED <<msgs, ctl, obj, msg, piece, flight, failed>>
      /\ \E l \in {"stamp", "settle"} : Goto(t, l)
      /\ at[t] = "output" => Goto(t, "stamp")
  BY DEF Output, Stamp, Fails, Good, Sending, queues, messages, stream, excuses
<1>2. piece' = [piece EXCEPT ![t] = piece[t]]
  BY <1>0, <1>1
<1>3. PICK l \in {"stamp", "settle"} : Goto(t, l)
  BY <1>1
<1>4. l \in Writing
  BY DEF Writing
<1>5. at'[t] = l /\ piece'[t] = piece[t] /\ \A u \in Tasks : u # t => at'[u] = at[u] /\ piece'[u] = piece[u]
  BY <1>0, <1>2, <1>3, <1>4, Goes
<1>6. piece[t].wrote = piece[t].n /\ piece[t].n \in Nat /\ piece[t].wrote \in Nat
      /\ (piece[t].of # 0 => piece[t].n > 0)
  <2>1. piece[t].n \in Nat /\ piece[t].wrote \in Nat
    BY <1>0, Facts
  <2> QED
    BY <1>0, <1>1, <2>1 DEF Stage, Writing
<1>7. Due(t) = 0 /\ Due(t)' = 0
  BY <1>1, <1>5, <1>6 DEF Due
<1>8. Owed' = Owed /\ Lost' = Lost /\ Slack' = Slack /\ Slack \in 0..4 /\ MsgBytes' = MsgBytes
  <2>1. Lost' = Lost /\ Slack' = Slack /\ MsgBytes' = MsgBytes
    BY <1>1 DEF Lost, LostData, Slack, MsgBytes, InFlight, CtlSent
  <2>2. Owed \in Nat /\ Lost \in {0, 2} /\ Slack \in 0..4
    BY <1>0, CountFacts
  <2>3. Owed' = Owed - Due(t) - Lost + Due(t)' + Lost'
    BY <1>0, <1>5, <1>7, OwedChanges
  <2> QED
    BY <1>7, <2>1, <2>2, <2>3
<1>9. Balanced'
  BY <1>1, <1>8 DEF Agreed, Balanced, Unacked
<1>10. Exclusive'
  <2>1. \A u \in Tasks : at'[u] = "control" => at[u] = "control"
    BY <1>5
  <2>2. CtlSent' <=> CtlSent
    BY <1>1 DEF CtlSent
  <2> QED
    BY <1>1, <2>1, <2>2 DEF Agreed, Exclusive
<1>11. CASE piece[t].of # 0
  <2>1. Extra(t) = 2 /\ Extra(t)' = 2
    BY <1>1, <1>5, <1>6, <1>11 DEF Extra
  <2>2. at[t] \in Writing /\ at'[t] \in Writing
    BY <1>1, <1>4, <1>5 DEF Writing
  <2> QED
    BY <1>1, <1>5, <1>8, <1>9, <1>10, <1>11, <2>1, <2>2, WriterIsAgreed
<1>12. CASE piece[t].of = 0
  BY <1>1, <1>5, <1>8, <1>9, <1>10, <1>12, WriterIsAgreed
<1> QED
  BY <1>11, <1>12

LEMMA SendControlIsAgreed ==
  ASSUME Sound, Agreed, Open, NEW t \in Tasks, SendControl(t)
  PROVE  Agreed'
<1>0. Shaped /\ piece \in [Tasks -> Pieces] /\ Stage(t) /\ TasksTyped
  BY Facts DEF Sound, TasksTyped
<1>1. /\ at[t] = "control" /\ at[t] \in Sending /\ UNCHANGED <<msgs, ctl, obj, msg>>
      /\ piece' = [piece EXCEPT ![t] = NoPiece]
      /\ \/ WriteHeader(0, 0, 0, TRUE) /\ Goto(t, "output") /\ failed' = failed
         \/ Fails("control") /\ Done(t) /\ flight' = flight
  BY DEF SendControl, Sending, queues, messages, stream
<1>2. /\ at'[t] \in {"output", "idle", "unlock"} /\ piece'[t] = NoPiece
      /\ \A u \in Tasks : u # t => at'[u] = at[u] /\ piece'[u] = piece[u]
  <2>1. ASSUME Done(t) PROVE at'[t] \in {"idle", "unlock"} /\ \A u \in Tasks : u # t => at'[u] = at[u]
    BY <1>0, <2>1, DoneMoves
  <2>2. "output" \in Labels
    BY DEF Labels, Sending
  <2>3. ASSUME Goto(t, "output") PROVE at'[t] = "output" /\ \A u \in Tasks : u # t => at'[u] = at[u]
    BY <1>0, <2>2, <2>3, Moved
  <2>4. piece'[t] = NoPiece /\ \A u \in Tasks : u # t => piece'[u] = piece[u]
    BY <1>0, <1>1
  <2> QED
    BY <1>1, <2>1, <2>3, <2>4
<1>3. CtlSent /\ CtlSent' /\ flight = <<>> /\ \A u \in Tasks : piece[u].of = 0 /\ piece'[u].of = 0
  <2>1. CtlSent /\ flight = <<>> /\ \A u \in Tasks : piece[u].of = 0
    BY <1>1 DEF Agreed, Exclusive
  <2> QED
    BY <1>1, <1>2, <2>1, NoPieceType DEF CtlSent
<1>4. Lost' = Lost /\ Slack' = Slack /\ Slack \in 0..4 /\ Owed' = Owed /\ MsgBytes' = MsgBytes
  <2>1. Lost' = Lost /\ Slack' = Slack
    BY <1>1 DEF Lost, LostData, Slack, Fails
  <2>2. \A u \in Tasks : Due(u)' = Due(u)
    BY <1>3 DEF Due
  <2>3. Slack \in 0..4
    BY <1>0, CountFacts
  <2> QED
    BY <1>3, <2>1, <2>2, <2>3, EventLabels DEF Owed, MsgBytes
<1>5. Balanced'
  BY <1>1, <1>4 DEF Agreed, Balanced, Unacked
<1>6. Exclusive'
  <2>1. flight' = <<>> \/ (Len(flight') = 1 /\ flight'[1].ctl /\ flight'[1].end = 2)
    <3>1. CASE flight' = flight
      BY <1>3, <3>1
    <3>2. CASE WriteHeader(0, 0, 0, TRUE)
      <4> DEFINE s == [ctl |-> 0 = 0, end |-> InFlight + 2]
      <4>1. InFlight = 0 /\ flight' = Append(flight, s)
        BY <1>3, <3>2 DEF WriteHeader, InFlight
      <4>2. s.ctl /\ s.end = 2
        <5>1. s.ctl
          OBVIOUS
        <5>2. s.end = InFlight + 2
          OBVIOUS
        <5>3. s.end = 2
          BY <4>1, <5>2
        <5> QED
          BY <5>1, <5>3
      <4> HIDE DEF s
      <4>3. Len(flight') = 1 /\ flight'[1] = s
        BY <1>3, <4>1
      <4> QED
        BY <4>2, <4>3
    <3> QED
      BY <1>1, <3>1, <3>2
  <2>2. \A u \in Tasks : at'[u] # "control"
    <3>1. \A u \in Tasks : u # t => at[u] \notin Sending
      BY <1>0, <1>1, SenderAlone
    <3> QED
      BY <1>2, <3>1 DEF Sending
  <2> QED
    BY <1>1, <1>3, <2>1, <2>2 DEF Agreed, Exclusive
<1> QED
  BY <1>1, <1>2, <1>3, <1>4, <1>5, <1>6, WriterIsAgreed

LEMMA SendHeaderIsAgreed ==
  ASSUME Sound, Agreed, Open, NEW t \in Tasks, SendHeader(t)
  PROVE  Agreed'
<1>0. Shaped /\ piece \in [Tasks -> Pieces] /\ InOrder /\ PageTyped /\ piece[t] \in Pieces /\ piece[t].n \in Nat
      /\ piece[t].from \in Nat /\ piece[t].final \in BOOLEAN /\ Space \in Nat /\ piece[t].of \in 0..MaxInputs
  <2>1. Shaped /\ made \in 0..MaxInputs /\ piece[t].of \in 0..made /\ MaxInputs \in Nat
    BY Facts DEF Sound
  <2> QED
    BY <2>1, Facts, SpaceType, Bounds DEF TasksTyped
<1>1. /\ at[t] = "header" /\ piece[t].of \in Ids /\ piece[t].of # 0 /\ piece[t].n > 0 /\ piece[t].n + 8 <= Space
      /\ piece[t].wrote = 0 /\ at[t] \in Sending /\ at[t] \in Writing /\ UNCHANGED <<msgs, ctl, obj, msg>>
      /\ \/ /\ WriteHeader(piece[t].of, piece[t].from, piece[t].n, piece[t].final)
            /\ piece' = [piece EXCEPT ![t] = [piece[t] EXCEPT !.wrote = piece[t].n]]
            /\ Goto(t, "data") /\ failed' = failed
         \/ /\ Fails("header") /\ Goto(t, "settle") /\ flight' = flight
            /\ piece' = [piece EXCEPT ![t] = piece[t]]
  <2>1. piece = [piece EXCEPT ![t] = piece[t]]
    BY <1>0
  <2> QED
    BY <1>0, <2>1, HeaderCases DEF Ids, Sending, Writing, queues, messages, stream
<1>2. Due(t) = piece[t].n + 2 /\ Extra(t) = 2 /\ Slack \in 0..4 /\ Owed \in Nat /\ Lost \in {0, 2}
      /\ LostData \in {0, 2} /\ InFlight \in Nat
  BY <1>0, <1>1, CountFacts DEF Due, Extra
<1>3. CASE /\ WriteHeader(piece[t].of, piece[t].from, piece[t].n, piece[t].final)
           /\ piece' = [piece EXCEPT ![t] = [piece[t] EXCEPT !.wrote = piece[t].n]]
           /\ Goto(t, "data") /\ failed' = failed
  <2> DEFINE p == [piece[t] EXCEPT !.wrote = piece[t].n]
             s == [ctl |-> piece[t].of = 0, end |-> InFlight + 2]
  <2>1. p.of = piece[t].of /\ p.from = piece[t].from /\ p.n = piece[t].n
    BY <1>0 DEF Pieces
  <2>2. piece' = [piece EXCEPT ![t] = p] /\ "data" \in Writing
    BY <1>3 DEF Writing
  <2> HIDE DEF p
  <2>3. at'[t] = "data" /\ piece'[t] = p /\ \A u \in Tasks : u # t => at'[u] = at[u] /\ piece'[u] = piece[u]
    BY <1>0, <1>3, <2>2, Goes
  <2>4. s \in Segments /\ ~s.ctl /\ flight' = Append(flight, s)
    <3>1. s.ctl = (piece[t].of = 0) /\ InFlight + 2 \in Nat
      BY <1>2
    <3>2. s \in Segments
      BY <3>1 DEF Segments
    <3>3. flight' = Append(flight, s)
      BY <1>3 DEF WriteHeader
    <3> QED
      BY <1>1, <3>1, <3>2, <3>3
  <2> HIDE DEF s
  <2>5. Exclusive' /\ ~CtlSent /\ ~CtlSent'
    BY <1>1, <2>3, <2>4, ExclusiveStays
  <2>6. InFlight' = InFlight + 2
    BY <1>0, <1>1, <1>3, HeaderWritten
  <2>7. Due(t)' = piece[t].n /\ Extra(t)' = 2
    BY <1>1, <2>1, <2>3 DEF Due, Extra
  <2>8. Lost' = Lost /\ Slack' = Slack
    BY <1>3 DEF Lost, LostData, Slack
  <2>9. Owed' = Owed - Due(t) - Lost + Due(t)' + Lost'
    BY <1>0, <2>3, <2>7, OwedChanges
  <2>10. MsgBytes' + Owed' = MsgBytes + Owed
    BY <1>0, <1>2, <2>5, <2>6, <2>7, <2>8, <2>9 DEF MsgBytes
  <2>11. Balanced'
    BY <1>1, <2>10 DEF Agreed, Balanced, Unacked
  <2>12. at'[t] \in Writing
    BY <2>2, <2>3
  <2> QED
    BY <1>1, <1>2, <2>1, <2>3, <2>5, <2>7, <2>8, <2>11, <2>12, WriterIsAgreed
<1>4. CASE Fails("header") /\ Goto(t, "settle") /\ flight' = flight /\ piece' = [piece EXCEPT ![t] = piece[t]]
  <2>1. "settle" \in Writing
    BY DEF Writing
  <2>2. at'[t] = "settle" /\ piece'[t] = piece[t] /\ \A u \in Tasks : u # t => at'[u] = at[u] /\ piece'[u] = piece[u]
    BY <1>0, <1>4, <2>1, Goes
  <2>3. Exclusive' /\ ~CtlSent /\ ~CtlSent'
    BY <1>1, <1>4, <2>2, ExclusiveStays
  <2>4. Due(t)' = piece[t].n /\ Extra(t)' = 0
    BY <1>0, <1>1, <2>2 DEF Due, Extra
  <2>5. Lost = 0 /\ Lost' = 2 /\ LostData' = LostData /\ Slack' = Slack + 2
    BY <1>4 DEF Fails, Lost, LostData, Slack
  <2>6. Owed' = Owed - Due(t) - Lost + Due(t)' + Lost'
    BY <1>0, <2>2, <2>4, OwedChanges
  <2>7. MsgBytes' + Owed' = MsgBytes + Owed
    BY <1>0, <1>2, <1>4, <2>3, <2>4, <2>5, <2>6 DEF MsgBytes, InFlight
  <2>8. Balanced'
    BY <1>1, <2>7 DEF Agreed, Balanced, Unacked
  <2>9. Slack' \in Int /\ Slack' + Extra(t)' >= Slack + Extra(t) /\ at'[t] \in Writing
    BY <1>2, <2>1, <2>2, <2>4, <2>5
  <2> QED
    BY <1>1, <2>2, <2>3, <2>8, <2>9, WriterIsAgreed
<1> QED
  BY <1>1, <1>3, <1>4

LEMMA SendDataIsAgreed ==
  ASSUME Sound, Agreed, Open, NEW t \in Tasks, SendData(t)
  PROVE  Agreed'
<1>0. Shaped /\ piece \in [Tasks -> Pieces] /\ InOrder /\ PageTyped /\ piece[t] \in Pieces /\ piece[t].n \in Nat
      /\ piece[t].from \in Nat /\ Stage(t) /\ (piece[t].of # 0 => piece[t].of \in Ids) /\ Space \in Nat
  BY Facts, SpaceType, Bounds DEF Sound, TasksTyped
<1>1. /\ at[t] = "data" /\ at[t] \in Sending /\ at[t] \in Writing /\ UNCHANGED <<msgs, ctl, obj, msg>>
      /\ \/ /\ WriteData(piece[t].of, piece[t].from, piece[t].wrote)
            /\ piece' = [piece EXCEPT ![t] = piece[t]]
            /\ Goto(t, "output") /\ failed' = failed
         \/ /\ Fails("data") /\ Goto(t, "settle") /\ flight' = flight
            /\ piece' = [piece EXCEPT ![t] = [piece[t] EXCEPT !.wrote = 0]]
  <2>1. piece = [piece EXCEPT ![t] = piece[t]]
    BY <1>0
  <2> QED
    BY <2>1 DEF SendData, Sending, Writing, queues, messages, stream
<1>2. /\ piece[t].of # 0 /\ piece[t].of \in Ids /\ piece[t].n > 0 /\ piece[t].wrote = piece[t].n /\ piece[t].n <= Space
  BY <1>0, <1>1 DEF Stage, Writing
<1>3. Due(t) = piece[t].n /\ Extra(t) = 2 /\ Slack \in 0..4 /\ Owed \in Nat /\ Lost \in {0, 2}
      /\ LostData \in {0, 2} /\ InFlight \in Nat
  BY <1>0, <1>1, <1>2, CountFacts DEF Due, Extra
<1>4. CASE /\ WriteData(piece[t].of, piece[t].from, piece[t].wrote)
           /\ piece' = [piece EXCEPT ![t] = piece[t]]
           /\ Goto(t, "output") /\ failed' = failed
  <2> DEFINE s == [ctl |-> FALSE, end |-> InFlight + piece[t].n]
  <2>1. "output" \in Writing
    BY DEF Writing
  <2>2. at'[t] = "output" /\ piece'[t] = piece[t] /\ \A u \in Tasks : u # t => at'[u] = at[u] /\ piece'[u] = piece[u]
    BY <1>0, <1>4, <2>1, Goes
  <2>3. s \in Segments /\ ~s.ctl /\ flight' = Append(flight, s)
    BY <1>0, <1>2, <1>3, <1>4 DEF Segments, WriteData
  <2> HIDE DEF s
  <2>4. Exclusive' /\ ~CtlSent /\ ~CtlSent'
    BY <1>1, <1>2, <2>2, <2>3, ExclusiveStays
  <2>5. InFlight' = InFlight + piece[t].n
    <3>1. WriteData(piece[t].of, piece[t].from, piece[t].n)
      BY <1>2, <1>4
    <3>2. Space >= piece[t].n
      BY <1>0, <1>2
    <3> QED
      BY <1>0, <1>2, <3>1, <3>2, DataWritten
  <2>6. Due(t)' = 0 /\ Extra(t)' = 2
    BY <1>2, <2>2 DEF Due, Extra
  <2>7. Lost' = Lost /\ Slack' = Slack
    BY <1>4 DEF Lost, LostData, Slack
  <2>8. Owed' = Owed - Due(t) - Lost + Due(t)' + Lost'
    BY <1>0, <2>2, <2>6, OwedChanges
  <2>9. MsgBytes' + Owed' = MsgBytes + Owed
    BY <1>0, <1>3, <2>4, <2>5, <2>6, <2>7, <2>8 DEF MsgBytes
  <2>10. Balanced'
    BY <1>1, <2>9 DEF Agreed, Balanced, Unacked
  <2>11. at'[t] \in Writing
    BY <2>1, <2>2
  <2> QED
    BY <1>1, <1>2, <1>3, <2>2, <2>4, <2>6, <2>7, <2>10, <2>11, WriterIsAgreed
<1>5. CASE /\ Fails("data") /\ Goto(t, "settle") /\ flight' = flight
           /\ piece' = [piece EXCEPT ![t] = [piece[t] EXCEPT !.wrote = 0]]
  <2> DEFINE p == [piece[t] EXCEPT !.wrote = 0]
  <2>1. p.of = piece[t].of /\ p.from = piece[t].from /\ p.n = piece[t].n /\ p.wrote = 0
    BY <1>0 DEF Pieces
  <2>2. piece' = [piece EXCEPT ![t] = p] /\ "settle" \in Writing
    BY <1>5 DEF Writing
  <2> HIDE DEF p
  <2>3. at'[t] = "settle" /\ piece'[t] = p /\ \A u \in Tasks : u # t => at'[u] = at[u] /\ piece'[u] = piece[u]
    BY <1>0, <1>5, <2>2, Goes
  <2>4. Exclusive' /\ ~CtlSent /\ ~CtlSent'
    BY <1>1, <1>2, <1>5, <2>3, ExclusiveStays
  <2>5. Due(t)' = piece[t].n /\ Extra(t)' = 0
    BY <1>0, <1>2, <2>1, <2>3 DEF Due, Extra
  <2>6. Lost' = Lost /\ Slack' = Slack + 2
    BY <1>5 DEF Fails, Lost, LostData, Slack
  <2>7. Owed' = Owed - Due(t) - Lost + Due(t)' + Lost'
    BY <1>0, <2>3, <2>5, OwedChanges
  <2>8. MsgBytes' + Owed' = MsgBytes + Owed
    BY <1>0, <1>3, <1>5, <2>4, <2>5, <2>6, <2>7 DEF MsgBytes, InFlight
  <2>9. Balanced'
    BY <1>1, <2>8 DEF Agreed, Balanced, Unacked
  <2>10. Slack' \in Int /\ Slack' + Extra(t)' >= Slack + Extra(t) /\ at'[t] \in Writing
    BY <1>3, <2>2, <2>3, <2>5, <2>6
  <2> QED
    BY <1>1, <1>2, <2>1, <2>3, <2>4, <2>9, <2>10, WriterIsAgreed
<1> QED
  BY <1>1, <1>4, <1>5

\* A step that counts for the first message, or takes back.
LEMMA HeadIsAgreed ==
  ASSUME Sound, Agreed, Open, NEW t \in Tasks, at[t] \in Sending, NEW h \in Ids, msgs # <<>>, h = Head(msgs),
         piece[t].of = h, UNCHANGED <<msgs, ctl, obj, flight, failed>>,
         \A u \in Tasks : u # t => at'[u] = at[u] /\ piece'[u] = piece[u],
         at'[t] \notin {"begin", "control"}, piece'[t].of \in {0, h}, Due(t)' \in Int,
         msg'[h].ack - msg'[h].acked = msg[h].ack - msg[h].acked - Due(t) + Due(t)',
         IF Writes(t, h)' THEN msg'[h].ack <= 3 * piece'[t].from + piece'[t].n + Slack + Extra(t)'
                          ELSE msg'[h].ack <= 3 * msg'[h].sent + Slack,
         Finished(h)' => msg'[h].sent = msg'[h].len /\ Between(h)'
  PROVE  Agreed'
<1>0. Shaped /\ Queued /\ h # 0 /\ obj[h] = "alive"
  <2>1. Shaped /\ Queued
    BY DEF Sound
  <2> QED
    BY <2>1, QueueFacts DEF Queued, Ids
<1>1. \A u \in Tasks : u # t => at[u] \notin Sending /\ piece[u].of = 0 /\ at[u] \notin Writing
  BY <1>0, SenderAlone
<1>2. Exclusive' /\ ~CtlSent /\ ~CtlSent'
  BY <1>0, ExclusiveStays
<1>3. Lost' = Lost /\ Slack' = Slack /\ Lost \in {0, 2} /\ Slack \in 0..4 /\ Owed \in Nat /\ MsgBytes \in Nat
      /\ Due(t) \in Nat /\ MsgBytes' = MsgBytes
  <2>1. Lost' = Lost /\ Slack' = Slack /\ MsgBytes' = MsgBytes
    BY <1>2 DEF Lost, LostData, Slack, MsgBytes, InFlight
  <2> QED
    BY <1>0, <2>1, CountFacts
<1>4. Owed' = Owed - Due(t) - Lost + Due(t)' + Lost'
  BY <1>0, OwedChanges
<1>5. Balanced'
  <2>1. MsgBytes + Owed = msg[h].ack - msg[h].acked
    BY DEF Agreed, Balanced, Unacked
  <2>2. MsgBytes' + Owed' = MsgBytes + Owed - Due(t) + Due(t)'
    BY <1>3, <1>4
  <2>3. MsgBytes' + Owed' = msg[h].ack - msg[h].acked - Due(t) + Due(t)'
    <3>1. msg[h].ack \in Int /\ msg[h].acked \in Int
      BY <1>0, CountFacts
    <3> QED
      BY <1>3, <2>1, <2>2, <3>1
  <2> QED
    BY <2>3, Zenon DEF Balanced, Unacked
<1>6. Bounded'
  <2>1. \A u \in Tasks : u # t => ~Writes(u, h)'
    BY <1>0, <1>1 DEF Writes
  <2>2. CASE Writes(t, h)'
    BY <1>3, <2>1, <2>2 DEF Bounded
  <2>3. CASE ~Writes(t, h)'
    BY <1>3, <2>1, <2>3 DEF Bounded
  <2> QED
    BY <2>2, <2>3
<1>7. Whole'
  <2>1. \A u \in Tasks : at'[u] # "begin"
    BY <1>1 DEF Sending
  <2> QED
    BY <2>1 DEF Whole
<1>8. WrittenDeleted'
  <2>1. \A u \in Tasks : piece'[u].of = 0 \/ obj'[piece'[u].of] = "alive"
    BY <1>0, <1>1
  <2> QED
    BY <2>1 DEF WrittenDeleted
<1> QED
  BY <1>2, <1>5, <1>6, <1>7, <1>8 DEF Agreed

LEMMA BeginIsAgreed ==
  ASSUME Sound, Agreed, Open, NEW t \in Tasks, Begin(t)
  PROVE  Agreed'
<1> DEFINE i == piece[t].of
<1>0. Shaped /\ Queued /\ piece \in [Tasks -> Pieces] /\ msg \in [Ids -> Messages]
  BY Facts DEF Sound, TasksTyped, MessagesTyped
<1>1. /\ i \in Ids /\ at[t] = "begin" /\ at[t] \in Sending /\ at[t] \notin Writing
      /\ UNCHANGED <<msgs, ctl, obj, flight, failed>>
      /\ \/ (Finished(i) \/ msg[i].acked < msg[i].ack) /\ msg' = msg /\ Stops(t)
         \/ /\ ~Finished(i) /\ msg[i].acked >= msg[i].ack /\ msg[i].sent = msg[i].len
            /\ msg' = [msg EXCEPT ![i].status = IF msg[i].kind = "multi" \/ Between(i) THEN "sent"
                                                ELSE msg[i].status]
            /\ Stops(t)
         \/ \E n \in Nat : Starts(t, i, n)
  <2>1. at[t] = "begin" => at[t] \in Sending /\ at[t] \notin Writing
    BY DEF Sending, Writing
  <2> QED
    BY <1>0, <2>1, BeginCases DEF queues, stream, excuses
<1>2. msgs # <<>> /\ i = Head(msgs) /\ ~Finished(i) /\ Between(i) /\ ~CtlSent
  BY <1>1 DEF Agreed, Whole
<1>8. PICK h \in Ids : h = i
  BY <1>1
<1>3. /\ h \in Ids /\ h = piece[t].of /\ h # 0 /\ h = Head(msgs) /\ ~Finished(h) /\ msg[h].acked = msg[h].ack
      /\ msg[h] \in Messages /\ msg[h].ack \in Int /\ msg[h].sent \in Nat /\ msg[h].len \in Nat
  BY <1>0, <1>1, <1>2, <1>8, CountFacts DEF i, Between, Ids
<1>4. Due(t) = 0 /\ Slack \in 0..4 /\ msg[h].ack <= 3 * msg[h].sent + Slack
  <2>1. \A u \in Tasks : ~Writes(u, h)
    <3>1. \A u \in Tasks : u # t => piece[u].of = 0
      BY <1>0, <1>1, SenderAlone
    <3> QED
      BY <1>1, <1>3, <3>1 DEF Writes
  <2>2. msg[h].ack <= 3 * msg[h].sent + Slack
    BY <1>2, <1>3, <2>1 DEF Agreed, Bounded
  <2> QED
    BY <1>0, <1>1, <2>2, CountFacts DEF Due
<1>5. CASE /\ msg' = [msg EXCEPT ![i].status = IF msg[i].kind = "multi" \/ Between(i) THEN "sent"
                                                ELSE msg[i].status]
           /\ msg[i].sent = msg[i].len /\ Stops(t)
  <2>1. /\ at'[t] \in {"idle", "unlock"} /\ piece'[t].of = 0 /\ Due(t)' = 0
        /\ \A u \in Tasks : u # t => at'[u] = at[u] /\ piece'[u] = piece[u]
    BY <1>0, <1>5, StopsMoves
  <2>2. /\ msg'[h].ack = msg[h].ack /\ msg'[h].acked = msg[h].acked /\ msg'[h].sent = msg[h].sent
        /\ msg'[h].len = msg[h].len /\ msg[h].sent = msg[h].len
    BY <1>0, <1>3, <1>5 DEF Messages
  <2>3. ~Writes(t, h)'
    BY <1>3, <2>1 DEF Writes
  <2>4. Finished(h)' => msg'[h].sent = msg'[h].len /\ Between(h)'
    BY <1>3, <2>2 DEF Between
  <2>5. msg'[h].ack - msg'[h].acked = msg[h].ack - msg[h].acked - Due(t) + Due(t)'
    BY <1>3, <1>4, <2>1, <2>2
  <2>6. IF Writes(t, h)' THEN msg'[h].ack <= 3 * piece'[t].from + piece'[t].n + Slack + Extra(t)'
                         ELSE msg'[h].ack <= 3 * msg'[h].sent + Slack
    BY <1>4, <2>2, <2>3
  <2>7. at'[t] \notin {"begin", "control"} /\ piece'[t].of \in {0, h} /\ Due(t)' \in Int
    BY <2>1
  <2> QED
    BY <1>1, <1>2, <1>3, <2>1, <2>4, <2>5, <2>6, <2>7, HeadIsAgreed
<1>6. ASSUME NEW n \in Nat, Starts(t, i, n) PROVE Agreed'
  <2> DEFINE p == [of |-> i, from |-> msg[i].sent, n |-> n, final |-> msg[i].sent + n = msg[i].len, wrote |-> 0]
  <2>1. p.of = i /\ p.from = msg[i].sent /\ p.n = n
    OBVIOUS
  <2>2. /\ msg' = [msg EXCEPT ![i].sent = @ + n, ![i].ack = @ + n + 2] /\ Goto(t, "header")
        /\ piece' = [piece EXCEPT ![t] = p] /\ "header" \in Writing
    BY <1>6 DEF Starts, Writing
  <2> HIDE DEF p
  <2>3. at'[t] = "header" /\ piece'[t] = p /\ \A u \in Tasks : u # t => at'[u] = at[u] /\ piece'[u] = piece[u]
    BY <1>0, <2>2, Goes
  <2>4. Due(t)' = n + 2 /\ Extra(t)' = 2 /\ Writes(t, h)'
    BY <1>3, <2>1, <2>2, <2>3 DEF Due, Extra, Writes
  <2>5. /\ msg'[h].ack = msg[h].ack + n + 2 /\ msg'[h].acked = msg[h].acked /\ msg'[h].status = msg[h].status
    BY <1>0, <1>3, <2>2 DEF Messages
  <2>6. ~Finished(h)'
    BY <1>3, <2>5 DEF Finished
  <2>7. msg'[h].ack - msg'[h].acked = msg[h].ack - msg[h].acked - Due(t) + Due(t)'
    BY <1>3, <1>4, <2>4, <2>5
  <2>8. IF Writes(t, h)' THEN msg'[h].ack <= 3 * piece'[t].from + piece'[t].n + Slack + Extra(t)'
                         ELSE msg'[h].ack <= 3 * msg'[h].sent + Slack
    <3>1. piece'[t].from = msg[h].sent /\ piece'[t].n = n
      BY <1>3, <2>1, <2>3
    <3>2. msg[h].ack + n + 2 <= 3 * msg[h].sent + n + Slack + 2
      BY <1>3, <1>4
    <3> QED
      BY <2>4, <2>5, <3>1, <3>2
  <2>9. at'[t] \notin {"begin", "control"} /\ piece'[t].of \in {0, h} /\ Due(t)' \in Int
    BY <1>3, <2>1, <2>3, <2>4
  <2> QED
    BY <1>1, <1>2, <1>3, <2>3, <2>6, <2>7, <2>8, <2>9, HeadIsAgreed
<1>7. ~((Finished(i) \/ msg[i].acked < msg[i].ack) /\ msg' = msg /\ Stops(t))
  BY <1>2, <1>3, <1>8
<1> QED
  BY <1>1, <1>5, <1>6, <1>7

LEMMA SettleIsAgreed ==
  ASSUME Sound, Agreed, Open, NEW t \in Tasks, Settle(t)
  PROVE  Agreed'
<1>0. Shaped /\ Queued /\ Stage(t) /\ piece[t].n \in Nat /\ piece[t].wrote \in Nat /\ piece[t].from \in Nat
  BY Facts DEF Sound
<1>1. /\ at[t] = "settle" /\ at[t] \in Sending /\ at[t] \in Writing /\ Stops(t)
      /\ UNCHANGED <<msgs, ctl, obj, flight, failed>>
      /\ (piece[t].of = 0 \/ obj[piece[t].of] = "deleted") => msg' = msg
      /\ ~(piece[t].of = 0 \/ obj[piece[t].of] = "deleted") => Settled(t, piece[t].of)
  <2>1. at[t] = "settle" => at[t] \in Sending /\ at[t] \in Writing
    BY DEF Sending, Writing
  <2> QED
    BY <1>0, <2>1, SettleCases DEF queues, stream, excuses
<1>2. /\ at'[t] \in {"idle", "unlock"} /\ piece'[t].of = 0 /\ Due(t)' = 0
      /\ \A u \in Tasks : u # t => at'[u] = at[u] /\ piece'[u] = piece[u]
  BY <1>0, <1>1, StopsMoves
<1>3. /\ Slack' = Slack /\ Lost' = Lost /\ Slack \in 0..4 /\ MsgBytes' = MsgBytes /\ Owed \in Nat /\ Due(t) \in Nat
      /\ Lost \in {0, 2}
  <2>1. Slack' = Slack /\ Lost' = Lost /\ MsgBytes' = MsgBytes
    BY <1>1 DEF Lost, LostData, Slack, MsgBytes, InFlight, CtlSent
  <2> QED
    BY <1>0, <2>1, CountFacts
<1>4. CASE piece[t].of = 0 \/ obj[piece[t].of] = "deleted"
  <2>1. Due(t) = 0
    <3>1. CASE piece[t].of = 0
      BY <3>1 DEF Due
    <3>2. CASE piece[t].of # 0
      <4>1. piece[t].wrote = piece[t].n
        BY <1>4, <3>2 DEF Agreed, WrittenDeleted
      <4> QED
        BY <1>0, <1>1, <4>1 DEF Due
    <3> QED
      BY <3>1, <3>2
  <2>2. Owed' = Owed
    <3>1. Owed' = Owed - Due(t) - Lost + Due(t)' + Lost'
      BY <1>0, <1>2, OwedChanges
    <3> QED
      BY <1>2, <1>3, <2>1, <3>1
  <2>3. Balanced'
    BY <1>1, <1>3, <1>4, <2>2 DEF Agreed, Balanced, Unacked
  <2>4. Exclusive'
    <3>1. \A u \in Tasks : (at'[u] = "control" => at[u] = "control") /\ (piece[u].of = 0 => piece'[u].of = 0)
      BY <1>2
    <3>2. CtlSent' <=> CtlSent
      BY <1>1 DEF CtlSent
    <3> QED
      BY <1>1, <3>1, <3>2 DEF Agreed, Exclusive
  <2> QED
    BY <1>1, <1>2, <1>3, <1>4, <2>3, <2>4, WriterIsAgreed
<1>5. CASE ~(piece[t].of = 0 \/ obj[piece[t].of] = "deleted")
  <2>0. PICK h \in Ids : h = piece[t].of
    BY <1>1, <1>5 DEF Settled
  <2> DEFINE m == [msg[h] EXCEPT !.status = "sending", !.sent = piece[t].from + piece[t].wrote,
                                 !.ack = @ - (piece[t].n - piece[t].wrote)]
  <2>1. /\ h \in Ids /\ piece[t].wrote \in {0, piece[t].n} /\ piece[t].n > 0 /\ msg'[h] = m
    BY <1>1, <1>5, <2>0 DEF Settled
  <2>2. h = Head(msgs) /\ msgs # <<>> /\ msg[h] \in Messages /\ msg[h].ack \in Int /\ msg[h].acked \in Nat
    BY <1>0, <1>5, <2>0, CountFacts, Facts DEF Queued
  <2>3. m.ack = msg[h].ack - (piece[t].n - piece[t].wrote) /\ m.acked = msg[h].acked /\ m.status = "sending"
        /\ m.sent = piece[t].from + piece[t].wrote
    BY <2>2 DEF Messages
  <2> HIDE DEF m
  <2>4. Due(t) = piece[t].n - piece[t].wrote
    BY <1>1, <1>5 DEF Due
  <2>5. msg'[h].ack - msg'[h].acked = msg[h].ack - msg[h].acked - Due(t) + Due(t)'
    <3>1. msg'[h].ack = msg[h].ack - (piece[t].n - piece[t].wrote) /\ msg'[h].acked = msg[h].acked
      BY <2>1, <2>3
    <3>2. msg[h].ack - (piece[t].n - piece[t].wrote) - msg[h].acked
            = msg[h].ack - msg[h].acked - (piece[t].n - piece[t].wrote) + 0
      BY <1>0, <2>2, SMTT(20)
    <3> QED
      BY <1>2, <2>4, <3>1, <3>2
  <2>6. ~Finished(h)'
    BY <2>1, <2>3 DEF Finished
  <2>7. msg[h].ack <= 3 * piece[t].from + piece[t].n + Slack + Extra(t)
    BY <1>1, <2>0, <2>2 DEF Agreed, Bounded, Writes
  <2>8. Extra(t) = IF piece[t].wrote = 0 THEN 0 ELSE 2
    BY <1>1 DEF Extra
  <2>9. msg'[h].ack <= 3 * msg'[h].sent + Slack
    <3>1. CASE piece[t].wrote = 0
      <4>1. msg'[h].ack = msg[h].ack - piece[t].n /\ msg'[h].sent = piece[t].from
        BY <1>0, <2>1, <2>2, <2>3, <3>1
      <4>2. msg[h].ack <= 3 * piece[t].from + piece[t].n + Slack + 0
        BY <2>7, <2>8, <3>1
      <4> QED
        BY <1>0, <1>3, <2>2, <4>1, <4>2
    <3>2. CASE piece[t].wrote # 0 /\ piece[t].wrote = piece[t].n
      <4>1. msg'[h].ack = msg[h].ack /\ msg'[h].sent = piece[t].from + piece[t].n
        BY <1>0, <2>1, <2>2, <2>3, <3>2
      <4>2. msg[h].ack <= 3 * piece[t].from + piece[t].n + Slack + 2
        BY <2>7, <2>8, <3>2
      <4>3. 3 * piece[t].from + piece[t].n + Slack + 2 <= 3 * (piece[t].from + piece[t].n) + Slack
        BY <1>0, <1>3, <2>1
      <4>4. 3 * (piece[t].from + piece[t].n) + Slack \in Int /\ 3 * piece[t].from + piece[t].n + Slack + 2 \in Int
        BY <1>0, <1>3
      <4>5. msg[h].ack <= 3 * (piece[t].from + piece[t].n) + Slack
        BY <2>2, <4>2, <4>3, <4>4
      <4> QED
        BY <4>1, <4>5
    <3> QED
      BY <2>1, <3>1, <3>2
  <2>10. ~Writes(t, h)'
    BY <1>2, <1>5, <2>0 DEF Writes
  <2>11. IF Writes(t, h)' THEN msg'[h].ack <= 3 * piece'[t].from + piece'[t].n + Slack + Extra(t)'
                          ELSE msg'[h].ack <= 3 * msg'[h].sent + Slack
    BY <2>9, <2>10
  <2>12. at'[t] \notin {"begin", "control"} /\ piece'[t].of \in {0, h} /\ Due(t)' \in Int
    BY <1>2
  <2> QED
    BY <1>1, <1>2, <2>0, <2>1, <2>2, <2>5, <2>6, <2>11, <2>12, HeadIsAgreed
<1> QED
  BY <1>4, <1>5

\* Choosing drops a finished message: by then all that was counted for it is acknowledged.
LEMMA FinishedIsSettled ==
  ASSUME Sound, Agreed, msgs # <<>>, Finished(Head(msgs))
  PROVE  /\ MsgBytes = 0 /\ Owed = 0 /\ \A u \in Tasks : Due(u) = 0 /\ at[u] # "begin"
         /\ \A u \in Tasks : piece[u].of # 0 =>
              at[u] \in {"output", "stamp", "settle"} /\ piece[u].wrote = piece[u].n
<1>0. Shaped /\ Queued
  BY DEF Sound
<1>1. /\ MsgBytes \in Nat /\ Owed \in Nat /\ \A u \in Tasks : Due(u) \in Nat /\ Owed >= Due(u)
      /\ msg[Head(msgs)].ack \in Int /\ msg[Head(msgs)].acked \in Nat
  BY <1>0, CountFacts
<1>2. MsgBytes + Owed = 0
  BY <1>1 DEF Agreed, Whole, Between, Balanced, Unacked
<1>3. MsgBytes = 0 /\ Owed = 0
  BY <1>1, <1>2
<1>4. \A u \in Tasks : Due(u) = 0 /\ at[u] # "begin"
  BY <1>1, <1>3 DEF Agreed, Whole
<1>5. ASSUME NEW u \in Tasks, piece[u].of # 0
      PROVE  at[u] \in {"output", "stamp", "settle"} /\ piece[u].wrote = piece[u].n
  <2>1. Stage(u) /\ piece[u].n \in Nat /\ piece[u].wrote \in Nat
    BY <1>0, Facts
  <2>2. at[u] \in Sending \ {"control", "begin"}
    <3>1. at[u] \in Sending \ {"control"}
      BY <1>5, <2>1, NoPieceType DEF Stage
    <3> QED
      BY <1>4, <3>1
  <2>3. at[u] \in Writing /\ piece[u].n > 0
    BY <1>5, <2>1, <2>2 DEF Stage, Sending, Writing
  <2>4. at[u] # "header" /\ at[u] # "data" /\ (at[u] = "settle" => piece[u].wrote = piece[u].n)
    <3>1. Due(u) = 0
      BY <1>4
    <3>2. at[u] # "header"
      BY <1>5, <2>1, <2>3, <3>1 DEF Due
    <3>3. at[u] # "data"
      BY <1>5, <2>3, <3>1 DEF Due
    <3>4. ASSUME at[u] = "settle" PROVE piece[u].wrote = piece[u].n
      <4>1. piece[u].n - piece[u].wrote = 0
        BY <1>5, <3>1, <3>4 DEF Due
      <4> QED
        BY <2>1, <4>1
    <3> QED
      BY <3>2, <3>3, <3>4
  <2>5. at[u] \in {"output", "stamp"} => piece[u].wrote = piece[u].n
    BY <2>1 DEF Stage
  <2> QED
    BY <2>3, <2>4, <2>5 DEF Writing
<1> QED
  BY <1>3, <1>4, <1>5

LEMMA ChooseMoves ==
  ASSUME Shaped, NEW t \in Tasks, Choose(t)
  PROVE  /\ \A u \in Tasks : u # t => piece'[u] = piece[u] /\ at'[u] = at[u]
         /\ piece[t].of = 0
         /\ piece'[t].of = 0 \/ (msgs' # <<>> /\ piece'[t].of = Head(msgs'))
<1>1. /\ at[t] = "choose" /\ msgs' = Unfinished
      /\ \/ Goto(t, "control") /\ piece' = piece
         \/ /\ Unfinished # <<>> /\ Goto(t, "begin")
            /\ piece' = [piece EXCEPT ![t] = [NoPiece EXCEPT !.of = Head(Unfinished)]]
         \/ Done(t) /\ piece' = piece
  BY DEF Choose
<1>2. \A u \in Tasks : u # t => at'[u] = at[u]
  <2>1. "control" \in Labels /\ "begin" \in Labels
    BY DEF Labels, Sending
  <2>2. CASE Goto(t, "control")
    BY <2>1, <2>2, Facts, Moved
  <2>3. CASE Goto(t, "begin")
    BY <2>1, <2>3, Facts, Moved
  <2>4. CASE Done(t)
    BY <2>4, Facts, DoneMoves
  <2> QED
    BY <1>1, <2>2, <2>3, <2>4
<1>3. piece \in [Tasks -> Pieces] /\ Stage(t) /\ QueuesTyped /\ MaxInputs \in Nat /\ made \in 0..MaxInputs
  BY Facts DEF TasksTyped
<1>4. piece[t].of = 0
  BY <1>1, <1>3, NoPieceType DEF Stage, Sending
<1>5. Unfinished # <<>> => Head(Unfinished) \in 1..MaxInputs
  BY <1>3, UnfinishedIs
<1>6. CASE Unfinished # <<>> /\ piece' = [piece EXCEPT ![t] = [NoPiece EXCEPT !.of = Head(Unfinished)]]
  <2>1. [NoPiece EXCEPT !.of = Head(Unfinished)].of = Head(Unfinished)
    BY <1>5, <1>6, NoPieceType
  <2>2. piece'[t] = [NoPiece EXCEPT !.of = Head(Unfinished)] /\ \A u \in Tasks : u # t => piece'[u] = piece[u]
    BY <1>3, <1>6
  <2> QED
    BY <1>1, <1>2, <1>4, <1>6, <2>1, <2>2
<1>7. CASE piece' = piece
  BY <1>2, <1>4, <1>7
<1> QED
  BY <1>1, <1>6, <1>7

LEMMA ChooseDeletes ==
  ASSUME Sound, Agreed, Open, NEW t \in Tasks, Choose(t)
  PROVE  /\ WrittenDeleted' /\ Shaped' /\ Queued'
         /\ \/ msgs' = msgs /\ (msgs # <<>> => ~Finished(Head(msgs)))
            \/ /\ msgs # <<>> /\ Finished(Head(msgs))
               /\ msgs' # <<>> => Fresh(Head(msgs')) /\ \A u \in Tasks : piece[u].of # Head(msgs')
<1>0. Shaped /\ Queued /\ Guarded /\ QueuesTyped
  BY Facts DEF Sound
<1>1. Shaped' /\ Queued'
  BY <1>0, ChooseIsShaped, ChooseIsQueued
<1>2. /\ at[t] = "choose" /\ msgs' = Unfinished /\ Deleted(ToSet(msgs) \ ToSet(Unfinished))
      /\ msg' = msg /\ at[t] \notin Sending
  BY DEF Choose, Sending
<1>3. /\ \A u \in Tasks : u # t => piece'[u] = piece[u] /\ at'[u] = at[u]
      /\ piece[t].of = 0
      /\ piece'[t].of = 0 \/ (msgs' # <<>> /\ piece'[t].of = Head(msgs'))
  BY <1>0, <1>2, ChooseMoves
<1>4. msgs' # <<>> => obj'[Head(msgs')] = "alive" /\ Head(msgs') \in Ids /\ Head(msgs') # 0
  <2> SUFFICES ASSUME msgs' # <<>> PROVE obj'[Head(msgs')] = "alive" /\ Head(msgs') \in Ids /\ Head(msgs') # 0
    OBVIOUS
  <2>1. Unfinished \in Seq(1..made) /\ made \in 0..MaxInputs /\ MaxInputs \in Nat
    BY <1>0, UnfinishedIs, Facts, EventLabels
  <2>2. /\ 1 \in 1..Len(msgs') /\ Head(msgs') = msgs'[1] /\ Head(msgs') \in 1..made
    BY <1>2, <2>1, SeqFacts
  <2>3. Head(msgs') \in Ids /\ Head(msgs') # 0
    BY <2>1, <2>2 DEF Ids
  <2> QED
    BY <1>1, <2>2, <2>3 DEF Queued
<1>5. CASE Unfinished = msgs /\ (msgs # <<>> => ~Finished(Head(msgs)))
  <2>1. obj' = obj
    BY <1>0, <1>2, <1>5, Facts DEF Deleted, MessagesTyped
  <2>2. WrittenDeleted'
    <3> SUFFICES ASSUME NEW u \in Tasks, piece'[u].of # 0, obj'[piece'[u].of] = "deleted"
                 PROVE  at'[u] \in {"output", "stamp", "settle"} /\ piece'[u].wrote = piece'[u].n
      BY DEF WrittenDeleted
    <3>1. u # t
      BY <1>3, <1>4
    <3> QED
      BY <1>3, <2>1, <3>1 DEF Agreed, WrittenDeleted
  <2> QED
    BY <1>1, <1>2, <1>5, <2>2
<1>6. CASE msgs # <<>> /\ Finished(Head(msgs)) /\ Unfinished = Tail(msgs)
  <2>1. WrittenDeleted'
    <3> SUFFICES ASSUME NEW u \in Tasks, piece'[u].of # 0, obj'[piece'[u].of] = "deleted"
                 PROVE  at'[u] \in {"output", "stamp", "settle"} /\ piece'[u].wrote = piece'[u].n
      BY DEF WrittenDeleted
    <3>1. u # t
      BY <1>3, <1>4
    <3> QED
      BY <1>3, <1>6, <3>1, FinishedIsSettled
  <2>2. ASSUME msgs' # <<>> PROVE Fresh(Head(msgs')) /\ \A u \in Tasks : piece[u].of # Head(msgs')
    <3>1. /\ Len(msgs) \in Nat /\ 1 \in 1..Len(msgs) /\ Head(msgs) = msgs[1] /\ Len(msgs') = Len(msgs) - 1
          /\ Head(msgs') = msgs[2] /\ 2 \in 1..Len(msgs)
      <4>1. msgs \in Seq(1..made) /\ Tail(msgs) \in Seq(1..made) /\ msgs' = Tail(msgs)
        BY <1>0, <1>2, <1>6, QueueFacts, SeqFacts
      <4>2. /\ Len(msgs) \in Nat /\ 1 \in 1..Len(msgs) /\ Head(msgs) = msgs[1] /\ Len(Tail(msgs)) = Len(msgs) - 1
            /\ \A j \in 1..Len(msgs) - 1 : Tail(msgs)[j] = msgs[j + 1]
        BY <1>6, <4>1, SeqFacts
      <4>3. Head(Tail(msgs)) = Tail(msgs)[1] /\ 1 \in 1..Len(Tail(msgs))
        BY <2>2, <4>1, SeqFacts
      <4>4. 1 \in 1..Len(msgs) - 1 /\ 1 + 1 = 2
        BY <4>2, <4>3
      <4> QED
        BY <4>1, <4>2, <4>3, <4>4
    <3>2. Fresh(msgs[2]) /\ msgs[2] # msgs[1]
      BY <1>0, <3>1 DEF Queued
    <3>3. msgs[2] \in Ids /\ obj[msgs[2]] = "alive" /\ msgs[2] # 0
      BY <1>0, <1>4, <2>2, <3>1 DEF Queued
    <3>4. \A u \in Tasks : piece[u].of # msgs[2]
      BY <1>0, <3>1, <3>2, <3>3 DEF Queued
    <3> QED
      BY <3>1, <3>2, <3>4
  <2> QED
    BY <1>1, <1>6, <2>1, <2>2
<1> QED
  BY <1>0, <1>5, <1>6, UnfinishedIs

\* A task chooses a control frame, the first message, or nothing.
LEMMA ChooseAgrees ==
  ASSUME Sound, Agreed, NEW t \in Tasks, at[t] \notin Sending, piece[t].of = 0, UNCHANGED <<msg, flight, failed>>,
         \A u \in Tasks : u # t => piece'[u] = piece[u] /\ at'[u] = at[u],
         WrittenDeleted', at'[t] \notin Writing, Owed' = Owed, MsgBytes' = MsgBytes,
         msgs' = msgs \/ (/\ msgs # <<>> /\ Finished(Head(msgs))
                          /\ msgs' # <<>> => Fresh(Head(msgs')) /\ \A u \in Tasks : piece[u].of # Head(msgs')),
         msgs' # <<>> => ~Finished(Head(msgs')) /\ Head(msgs') \in Ids,
         MsgBytes + Owed = IF msgs' = <<>> THEN 0 ELSE Unacked(Head(msgs')),
         piece'[t].of = 0 \/ at'[t] = "begin",
         at'[t] = "begin" => /\ msgs' # <<>> /\ piece'[t].of = Head(msgs') /\ Between(Head(msgs')) /\ ~CtlSent,
         at'[t] = "control" => /\ piece'[t].of = 0 /\ \A u \in Tasks : u # t => at[u] \notin Sending
                               /\ flight = <<>> /\ CtlSent' /\ \A k \in 1..Len(ctl') : k > 1 => ~ctl'[k].finished,
         at'[t] = "control" \/ ctl' = ctl
  PROVE  Agreed'
<1>0. Shaped
  BY DEF Sound
<1>1. \A u \in Tasks : at[u] \notin Sending => piece[u].of = 0 /\ at[u] \notin Writing
  BY <1>0, CountFacts
<1>2. Lost' = Lost /\ LostData' = LostData /\ Slack' = Slack /\ Slack \in 0..4
  <2>1. Lost' = Lost /\ LostData' = LostData /\ Slack' = Slack
    BY DEF Lost, LostData, Slack
  <2> QED
    BY <1>0, <2>1, CountFacts
<1>3. Balanced'
  BY DEF Balanced, Unacked
<1>4. Exclusive'
  <2>1. CASE at'[t] = "control"
    <3>1. \A u \in Tasks : piece'[u].of = 0
      BY <1>1, <2>1
    <3> QED
      BY <2>1, <3>1 DEF Exclusive
  <2>2. CASE at'[t] # "control"
    <3>1. CtlSent' <=> CtlSent
      BY <2>2 DEF CtlSent
    <3>2. \A u \in Tasks : at'[u] = "control" => at[u] = "control"
      BY <2>2
    <3>3. CtlSent => \A u \in Tasks : piece'[u].of = 0
      BY DEF Agreed, Exclusive
    <3> QED
      BY <2>2, <3>1, <3>2, <3>3 DEF Agreed, Exclusive
  <2> QED
    BY <2>1, <2>2
<1>5. Bounded'
  <2> SUFFICES ASSUME msgs' # <<>> PROVE Bounded'
    BY DEF Bounded
  <2>1. PICK h \in Ids : h = Head(msgs') /\ h # 0
    BY DEF Ids
  <2>2. \A u \in Tasks : Writes(u, h)' => Writes(u, h) /\ u # t
    BY <2>1 DEF Writes
  <2>3. \A u \in Tasks : Writes(u, h) => Writes(u, h)' /\ u # t
    BY <2>1 DEF Writes
  <2>4. \A u \in Tasks : u # t => Extra(u)' = Extra(u)
    BY DEF Extra
  <2>5. CASE msgs' = msgs
    <3>1. ASSUME NEW u \in Tasks, Writes(u, h)'
          PROVE  msg'[h].ack <= 3 * piece'[u].from + piece'[u].n + Slack' + Extra(u)'
      <4>1. Writes(u, h) /\ u # t
        BY <2>2, <3>1
      <4>2. msg[h].ack <= 3 * piece[u].from + piece[u].n + Slack + Extra(u)
        BY <2>1, <2>5, <4>1 DEF Agreed, Bounded
      <4> QED
        BY <1>2, <2>4, <4>1, <4>2
    <3>2. ASSUME \A u \in Tasks : ~Writes(u, h)' PROVE msg'[h].ack <= 3 * msg'[h].sent + Slack'
      BY <1>2, <2>1, <2>3, <2>5, <3>2 DEF Agreed, Bounded
    <3> QED
      BY <2>1, <3>1, <3>2 DEF Bounded
  <2>6. CASE Fresh(h) /\ \A u \in Tasks : piece[u].of # h
    <3>1. \A u \in Tasks : ~Writes(u, h)'
      BY <2>2, <2>6 DEF Writes
    <3>2. msg'[h].ack <= 3 * msg'[h].sent + Slack'
      BY <1>2, <2>6 DEF Fresh
    <3> QED
      BY <2>1, <3>1, <3>2 DEF Bounded
  <2> QED
    BY <2>1, <2>5, <2>6
<1>6. Whole'
  <2>1. msgs' # <<>> => ~Finished(Head(msgs))'
    BY DEF Finished
  <2>2. ASSUME NEW u \in Tasks, at'[u] = "begin"
        PROVE  msgs' # <<>> /\ piece'[u].of = Head(msgs') /\ Between(Head(msgs))' /\ ~CtlSent'
    <3>1. CASE u = t
      <4>1. ctl' = ctl
        BY <2>2, <3>1
      <4> QED
        BY <2>2, <3>1, <4>1 DEF Between, CtlSent
    <3>2. CASE u # t
      <4>1. at[u] = "begin" /\ piece'[u] = piece[u] /\ at[u] \in Sending
        BY <2>2, <3>2 DEF Sending
      <4>2. msgs # <<>> /\ piece[u].of = Head(msgs) /\ ~Finished(Head(msgs)) /\ Between(Head(msgs)) /\ ~CtlSent
        BY <4>1 DEF Agreed, Whole
      <4>3. msgs' = msgs /\ ctl' = ctl
        BY <3>2, <4>1, <4>2
      <4> QED
        BY <4>1, <4>2, <4>3 DEF Between, CtlSent
    <3> QED
      BY <3>1, <3>2
  <2> QED
    BY <2>1, <2>2 DEF Whole
<1> QED
  BY <1>3, <1>4, <1>5, <1>6 DEF Agreed

LEMMA ChooseIsAgreed ==
  ASSUME Sound, Agreed, Open, NEW t \in Tasks, Choose(t), Good', ~crossed'
  PROVE  Agreed'
<1> DEFINE clear == Unfinished = <<>> \/ Between(Head(Unfinished))
           control == ctl # <<>> /\ clear /\ Window > 1
           message == ~control /\ Unfinished # <<>> /\ clear /\ Window > 0
<1>0. Shaped /\ Queued /\ Guarded /\ TasksTyped /\ QueuesTyped /\ piece \in [Tasks -> Pieces] /\ InOrder
  BY Facts DEF Sound, TasksTyped
<1>1. /\ at[t] = "choose" /\ at[t] \notin Sending /\ msgs' = Unfinished
      /\ IF control
         THEN /\ ctl' = [ctl EXCEPT ![1].finished = TRUE] /\ ~Head(ctl).finished
              /\ Goto(t, "control") /\ piece' = piece
         ELSE /\ IF message
                 THEN piece' = [piece EXCEPT ![t] = [NoPiece EXCEPT !.of = Head(Unfinished)]] /\ Goto(t, "begin")
                 ELSE Done(t) /\ piece' = piece
              /\ ctl' = ctl
      /\ (control \/ message) => at[Other(t)] \notin Sending
      /\ UNCHANGED <<msg, flight, failed>>
  BY DEF Choose, Good, Sending, stream
<1>2. /\ WrittenDeleted' /\ Shaped' /\ Queued'
      /\ \/ msgs' = msgs /\ (msgs # <<>> => ~Finished(Head(msgs)))
         \/ /\ msgs # <<>> /\ Finished(Head(msgs))
            /\ msgs' # <<>> => Fresh(Head(msgs')) /\ \A u \in Tasks : piece[u].of # Head(msgs')
  BY ChooseDeletes
<1>3. /\ MsgBytes \in Nat /\ Owed \in Nat /\ InFlight \in Nat /\ (InFlight = 0 <=> flight = <<>>) /\ Slack \in 0..4
      /\ Due(t) = 0 /\ piece[t].of = 0 /\ Lost \in {0, 2}
      /\ \A u \in Tasks : at[u] \notin Sending => piece[u].of = 0
  BY <1>0, <1>1, CountFacts
<1>4. MsgBytes + Owed = IF msgs' = <<>> THEN 0 ELSE Unacked(Head(msgs'))
  <2>1. CASE msgs' = msgs
    BY <2>1 DEF Agreed, Balanced
  <2>2. CASE msgs # <<>> /\ Finished(Head(msgs)) /\ (msgs' # <<>> => Fresh(Head(msgs')))
    <3>1. MsgBytes = 0 /\ Owed = 0
      BY <2>2, FinishedIsSettled
    <3> QED
      BY <2>2, <3>1 DEF Fresh, Unacked
  <2> QED
    BY <1>2, <2>1, <2>2
<1>5. clear => MsgBytes = 0 /\ Owed = 0
  <2> SUFFICES ASSUME clear PROVE MsgBytes = 0 /\ Owed = 0
    OBVIOUS
  <2>1. MsgBytes + Owed = 0
    <3>1. CASE msgs' = <<>>
      BY <1>4, <3>1
    <3>2. CASE msgs' # <<>>
      <4>1. Head(msgs') \in Ids /\ \A i \in Ids : msg[i].ack \in Int
        <5>1. Unfinished \in Seq(1..made) /\ made \in 0..MaxInputs /\ MaxInputs \in Nat
          BY <1>0, UnfinishedIs, Facts, EventLabels
        <5>2. Head(msgs') \in 1..made
          BY <1>1, <3>2, <5>1, SeqFacts
        <5> QED
          BY <1>0, <5>1, <5>2, EventLabels, Facts DEF Ids
      <4>2. Between(Head(msgs'))
        BY <1>1, <3>2
      <4> QED
        BY <1>4, <3>2, <4>1, <4>2 DEF Between, Unacked
    <3> QED
      BY <3>1, <3>2
  <2> QED
    BY <1>3, <2>1
<1>6. /\ \A u \in Tasks : u # t => piece'[u] = piece[u] /\ at'[u] = at[u]
      /\ piece'[t].of = 0 \/ (msgs' # <<>> /\ piece'[t].of = Head(msgs'))
  BY <1>0, ChooseMoves
<1>7. /\ at'[t] = (IF control THEN "control" ELSE IF message THEN "begin" ELSE IF job[t] = 0 THEN "idle" ELSE "unlock")
      /\ at'[t] \notin Writing
  <2>1. "control" \in Labels /\ "begin" \in Labels
    BY DEF Labels, Sending
  <2> HIDE DEF control, message
  <2>2. CASE control
    BY <1>0, <1>1, <2>1, <2>2, Moved DEF Writing
  <2>3. CASE ~control /\ message
    BY <1>0, <1>1, <2>1, <2>3, Moved DEF Writing
  <2>4. CASE ~control /\ ~message
    BY <1>0, <1>1, <2>4, DoneMoves DEF Writing
  <2> QED
    BY <2>2, <2>3, <2>4
<1>8. Due(t)' = 0 /\ Lost' = Lost /\ Slack' = Slack /\ Owed' = Owed
  <2>1. Due(t)' = 0
    BY <1>7 DEF Due, Writing
  <2>2. Lost' = Lost /\ Slack' = Slack
    BY <1>1 DEF Lost, LostData, Slack
  <2>3. Owed' = Owed - Due(t) - Lost + Due(t)' + Lost'
    BY <1>0, <1>6, <2>1, OwedChanges
  <2> QED
    BY <1>3, <2>1, <2>2, <2>3
<1>9. control \/ message => \A u \in Tasks : u # t => at[u] \notin Sending
  <2> HIDE DEF control, message
  <2> QED
    BY <1>1, TaskNames
<1>10. CtlSent => (clear => control)
  <2> SUFFICES ASSUME CtlSent, clear PROVE ctl # <<>> /\ Window > 1
    OBVIOUS
  <2>1. InFlight <= 2
    BY DEF Agreed, Exclusive, InFlight
  <2> QED
    BY <1>3, <2>1, Bounds DEF CtlSent, Window, Space
<1>11. control => ~CtlSent /\ flight = <<>>
  <2> SUFFICES ASSUME control PROVE ~CtlSent /\ flight = <<>>
    OBVIOUS
  <2>1. ~CtlSent
    BY <1>1 DEF CtlSent
  <2> QED
    BY <1>3, <1>5, <2>1 DEF MsgBytes
<1>12. ~control /\ message => ~CtlSent /\ ~CtlSent' /\ Between(Head(msgs')) /\ msgs' # <<>>
  BY <1>1, <1>10 DEF CtlSent
<1>13. /\ control => CtlSent' /\ \A k \in 1..Len(ctl') : k > 1 => ~ctl'[k].finished
       /\ ~control => ctl' = ctl
  <2>1. ASSUME control PROVE CtlSent' /\ \A k \in 1..Len(ctl') : k > 1 => ~ctl'[k].finished
    <3> DEFINE c == [ctl[1] EXCEPT !.finished = TRUE]
    <3>1. ctl \in Seq(Controls) /\ ctl # <<>> /\ ctl' = [ctl EXCEPT ![1] = c]
      BY <1>0, <1>1, <2>1 DEF QueuesTyped
    <3>2. Len(ctl) \in Nat /\ 1 \in 1..Len(ctl) /\ ctl[1] \in Controls /\ DOMAIN ctl = 1..Len(ctl)
      BY <3>1, SeqFacts
    <3>3. c \in Controls /\ c.finished = TRUE
      BY <3>2 DEF Controls
    <3> HIDE DEF c
    <3>4. ctl' \in Seq(Controls) /\ Len(ctl') = Len(ctl) /\ \A k \in 1..Len(ctl) : ctl'[k] = IF k = 1 THEN c ELSE ctl[k]
      BY <3>1, <3>2, <3>3, ExceptSeq
    <3>5. ctl' # <<>> /\ Head(ctl') = c
      <4>1. ctl' # <<>>
        BY <3>2, <3>4, SeqFacts
      <4> QED
        BY <3>2, <3>4, <4>1, SeqFacts
    <3>6. \A k \in 1..Len(ctl') : k > 1 => ~ctl'[k].finished
      BY <3>2, <3>4 DEF Agreed, Exclusive
    <3> QED
      BY <3>3, <3>5, <3>6 DEF CtlSent
  <2> HIDE DEF control, message
  <2> QED
    BY <1>1, <2>1
<1>14. MsgBytes' = MsgBytes
  <2> HIDE DEF control, message
  <2>1. CASE control
    BY <1>1, <1>11, <1>13, <2>1 DEF MsgBytes, InFlight
  <2>2. CASE ~control
    BY <1>1, <1>13, <2>2 DEF MsgBytes, InFlight, CtlSent
  <2> QED
    BY <2>1, <2>2
<1>15. msgs' # <<>> => ~Finished(Head(msgs')) /\ Head(msgs') \in Ids
  <2>1. ASSUME msgs' # <<>> PROVE Head(msgs') \in Ids
    <3>1. Unfinished \in Seq(1..made) /\ made \in 0..MaxInputs /\ MaxInputs \in Nat
      BY <1>0, UnfinishedIs, Facts, EventLabels
    <3>2. Head(msgs') \in 1..made
      BY <1>1, <2>1, <3>1, SeqFacts
    <3> QED
      BY <3>1, <3>2 DEF Ids
  <2>2. msgs' # <<>> => ~Finished(Head(msgs'))
    BY <1>2 DEF Fresh, Finished
  <2> QED
    BY <2>1, <2>2
<1>16. /\ at'[t] = "control" <=> control
       /\ at'[t] = "begin" <=> ~control /\ message
  <2> HIDE DEF control, message
  <2> QED
    BY <1>7
<1>17. piece'[t].of = 0 \/ at'[t] = "begin"
  <2> HIDE DEF control
  <2> QED
    BY <1>1, <1>3, <1>16
<1>18. at'[t] = "begin" => msgs' # <<>> /\ piece'[t].of = Head(msgs') /\ Between(Head(msgs')) /\ ~CtlSent
  <2> SUFFICES ASSUME at'[t] = "begin"
               PROVE  msgs' # <<>> /\ piece'[t].of = Head(msgs') /\ Between(Head(msgs')) /\ ~CtlSent
    OBVIOUS
  <2>1. msgs' # <<>> /\ Between(Head(msgs')) /\ ~CtlSent
    BY <1>12, <1>16
  <2>2. piece'[t].of = Head(msgs')
    <3>1. Head(msgs') \in Ids /\ piece' = [piece EXCEPT ![t] = [NoPiece EXCEPT !.of = Head(msgs')]]
      BY <1>1, <1>15, <1>16, <2>1
    <3>2. [NoPiece EXCEPT !.of = Head(msgs')].of = Head(msgs')
      BY NoPieceType DEF NoPiece
    <3> QED
      BY <1>0, <3>1, <3>2
  <2> QED
    BY <2>1, <2>2
<1>19. at'[t] = "control" => /\ piece'[t].of = 0 /\ \A u \in Tasks : u # t => at[u] \notin Sending
                             /\ flight = <<>> /\ CtlSent' /\ \A k \in 1..Len(ctl') : k > 1 => ~ctl'[k].finished
  <2> HIDE DEF control, message
  <2> QED
    BY <1>1, <1>3, <1>9, <1>11, <1>13, <1>16
<1>20. at'[t] = "control" \/ ctl' = ctl
  <2> HIDE DEF control, message
  <2> QED
    BY <1>13, <1>16
<1> QED
  BY <1>1, <1>2, <1>3, <1>4, <1>6, <1>7, <1>8, <1>14, <1>15, <1>17, <1>18, <1>19, <1>20, ChooseAgrees

LEMMA CountedFrame ==
  ASSUME NEW a \in Int, NEW from \in Nat, NEW n \in Nat, NEW s \in Int, NEW e \in {0, 2},
         a <= 3 * from + n + s + e, n > 0
  PROVE  a <= 3 * (from + n) + s
<1>1. e <= 2 /\ e \in Int
  OBVIOUS
<1> QED
  BY <1>1

LEMMA CountedBytes ==
  ASSUME NEW acked \in Nat, NEW ack \in Int, NEW n \in Nat, NEW f \in Nat, NEW o \in Nat, NEW w \in Nat,
         f + o = ack - acked, n <= f, ack < w
  PROVE  acked + n \in Nat /\ acked + n < w /\ acked + n <= ack
OBVIOUS

\* What is counted for the first message is less than a word.
LEMMA CountFits ==
  ASSUME Shaped, Agreed, msgs # <<>>
  PROVE  msg[Head(msgs)].ack < Word /\ msg[Head(msgs)].ack <= 3 * msg[Head(msgs)].sent + Slack
<1>1. PICK h \in Ids : h = Head(msgs) /\ h \in 1..made /\ h # 0
  BY QueueFacts, EventLabels, Facts DEF Ids
<1>2. /\ msg[h].ack \in Int /\ msg[h].sent \in Nat /\ msg[h].len \in Lengths /\ msg[h].sent <= msg[h].len
      /\ Slack \in 0..4 /\ Word \in Nat /\ msg[h].len \in Nat /\ 3 * msg[h].len + 4 < Word
  <2>1. Made /\ h <= made /\ msg[h].len \in Nat /\ msg[h].sent \in Nat /\ msg[h].ack \in Int
    BY <1>1, EventLabels, Facts
  <2>2. msg[h].len \in Lengths /\ msg[h].sent <= msg[h].len
    BY <2>1 DEF Made
  <2> QED
    BY <2>1, <2>2, CountFacts, ClientAssumption
<1>3. msg[h].ack <= 3 * msg[h].sent + Slack
  <2>1. CASE \A u \in Tasks : ~Writes(u, h)
    BY <1>1, <2>1 DEF Agreed, Bounded
  <2>2. ASSUME NEW u \in Tasks, Writes(u, h) PROVE msg[h].ack <= 3 * msg[h].sent + Slack
    <3>1. Stage(u) /\ piece[u].from \in Nat /\ piece[u].n \in Nat /\ piece[u].of = h /\ at[u] \in Writing
      BY <2>2, Facts DEF Writes
    <3>2. piece[u].n > 0 /\ msg[h].sent = piece[u].from + piece[u].n
      BY <1>1, <3>1 DEF Stage
    <3>3. msg[h].ack <= 3 * piece[u].from + piece[u].n + Slack + Extra(u) /\ Extra(u) \in {0, 2}
      BY <1>1, <2>2 DEF Agreed, Bounded, Extra
    <3>4. PICK a \in Int, from \in Nat, n \in Nat, s \in Int, e \in {0, 2} :
            a = msg[h].ack /\ from = piece[u].from /\ n = piece[u].n /\ s = Slack /\ e = Extra(u)
      BY <1>2, <3>1, <3>3
    <3>5. a <= 3 * (from + n) + s
      <4>1. a <= 3 * from + n + s + e /\ n > 0
        BY <3>2, <3>3, <3>4
      <4> QED
        BY <4>1, CountedFrame
    <3> QED
      BY <3>2, <3>4, <3>5
  <2> QED
    BY <2>1, <2>2
<1>4. msg[h].ack < Word
  BY <1>2, <1>3, SMTT(20)
<1> QED
  BY <1>1, <1>3, <1>4

\* What an acknowledgement leaves as it was.
LEMMA AckKeeps ==
  ASSUME Sound, NEW n \in Nat, OnAck(n), at["async_tcp"] = "idle"
  PROVE  /\ UNCHANGED <<msgs, obj, piece, failed>> /\ Owed' = Owed /\ Slack' = Slack
         /\ \A u \in Tasks : (at'[u] \in Sending \/ at[u] \in Sending) => at'[u] = at[u]
         /\ \A u \in Tasks : Extra(u)' = Extra(u)
         /\ \A u \in Tasks, i \in Ids : Writes(u, i)' <=> Writes(u, i)
         /\ WrittenDeleted => WrittenDeleted'
<1>0. Shaped
  BY DEF Sound
<1>1. /\ UNCHANGED <<msgs, obj, piece, failed>>
      /\ Goto("async_tcp", "idle") \/ Goto("async_tcp", "choose")
  BY <1>0, OnAckCases
<1>2. at'["async_tcp"] \in {"idle", "choose"} /\ \A u \in Tasks : u # "async_tcp" => at'[u] = at[u]
  BY <1>0, <1>1, EventLabels, Facts, Moved
<1>3. \A u \in Tasks : (at'[u] \in Sending \/ at[u] \in Sending) => at'[u] = at[u]
  BY <1>2 DEF Sending
<1>4. \A u \in Tasks : Due(u)' = Due(u) /\ Extra(u)' = Extra(u)
  BY <1>1, <1>2 DEF Due, Extra
<1>5. Lost' = Lost /\ Slack' = Slack
  BY <1>1 DEF Lost, LostData, Slack
<1>6. Owed' = Owed
  BY <1>4, <1>5, EventLabels DEF Owed
<1>7. \A u \in Tasks : at'[u] \in Writing <=> at[u] \in Writing
  BY <1>3 DEF Sending, Writing
<1>8. WrittenDeleted => WrittenDeleted'
  BY <1>1, <1>3 DEF WrittenDeleted, Sending
<1> QED
  BY <1>1, <1>3, <1>4, <1>5, <1>6, <1>7, <1>8 DEF Writes

\* An acknowledgement is of one control frame, or of bytes that are counted for the first message.
LEMMA ControlAckIsAgreed ==
  ASSUME Sound, Agreed, Ack, CtlSent
  PROVE  Agreed'
<1>0. Shaped /\ Queued /\ flight # <<>> /\ Open /\ at["async_tcp"] = "idle"
  BY AckCases DEF Sound
<1>1. PICK n \in Nat : /\ n > 0 /\ OnAck(n) /\ InOrder' /\ InFlight' = InFlight - n
                       /\ \E k \in 0..Len(flight) :
                            /\ Len(flight') = Len(flight) - k
                            /\ IF k = 0 THEN ~flight[1].ctl /\ n < flight[1].end ELSE n = flight[k].end
  BY <1>0, AckCases
<1>2. /\ UNCHANGED <<msgs, obj, piece, failed>> /\ Owed' = Owed /\ Slack' = Slack
      /\ \A u \in Tasks : (at'[u] \in Sending \/ at[u] \in Sending) => at'[u] = at[u]
      /\ \A u \in Tasks : Extra(u)' = Extra(u)
      /\ \A u \in Tasks, i \in Ids : Writes(u, i)' <=> Writes(u, i)
      /\ WrittenDeleted => WrittenDeleted'
  BY <1>0, <1>1, AckKeeps
<1>3. Len(flight) = 1 /\ flight[1].ctl /\ flight[1].end = 2 /\ \A u \in Tasks : piece[u].of = 0 /\ at[u] # "control"
  BY <1>0 DEF Agreed, Exclusive
<1>4. n = 2 /\ Len(flight') = 0 /\ flight' = <<>> /\ InFlight' = 0
  <2>1. PICK k \in 0..1 : /\ Len(flight') = 1 - k
                          /\ IF k = 0 THEN ~flight[1].ctl ELSE n = flight[k].end
    BY <1>1, <1>3
  <2>2. k = 1
    BY <1>3, <2>1
  <2>3. n = 2 /\ Len(flight') = 0
    BY <1>3, <2>1, <2>2
  <2>4. flight' \in Seq(Segments)
    BY <1>1 DEF InOrder
  <2>5. flight' = <<>>
    BY <2>3, <2>4, SeqFacts
  <2> QED
    BY <2>3, <2>5 DEF InFlight
<1>5. ctl' = Tail(ctl) /\ ctl # <<>> /\ msg' = msg
  <2>1. Settling(n) = 0
    <3>1. Word \in Nat /\ Word > 0
      BY Bounds
    <3>2. (2 - 2) % Word = 0
      BY <3>1
    <3> QED
      BY <1>4, <3>2 DEF Settling, CtlSent
  <2> QED
    BY <1>0, <1>1, <2>1, OnAckCases DEF CtlSent
<1>6. ~CtlSent' /\ \A k \in 1..Len(ctl') : ~ctl'[k].finished
  <2>1. ctl \in Seq(Controls)
    BY <1>0, EventLabels, Facts DEF QueuesTyped
  <2>2. /\ Len(ctl) \in Nat /\ Tail(ctl) \in Seq(Controls) /\ Len(Tail(ctl)) = Len(ctl) - 1
        /\ \A j \in 1..Len(ctl) - 1 : Tail(ctl)[j] = ctl[j + 1]
    BY <1>5, <2>1, SeqFacts
  <2>3. \A k \in 1..Len(ctl') : ~ctl'[k].finished
    BY <1>5, <2>2 DEF Agreed, Exclusive
  <2>4. ctl' # <<>> => Head(ctl') = ctl'[1] /\ 1 \in 1..Len(ctl')
    BY <1>5, <2>2, SeqFacts
  <2> QED
    BY <2>3, <2>4 DEF CtlSent
<1>7. Balanced'
  <2>1. MsgBytes' = MsgBytes
    BY <1>4 DEF MsgBytes
  <2> QED
    BY <1>2, <1>5, <2>1 DEF Agreed, Balanced, Unacked
<1>8. Exclusive'
  <2>1. \A u \in Tasks : at'[u] # "control"
    BY <1>2, <1>3 DEF Sending
  <2>2. \A k \in 1..Len(flight') : ~flight'[k].ctl
    BY <1>4
  <2> QED
    BY <1>6, <2>1, <2>2 DEF Exclusive
<1>9. Bounded'
  <2> SUFFICES ASSUME msgs # <<>> PROVE Bounded'
    BY <1>2 DEF Bounded
  <2>1. Head(msgs) # 0 /\ Head(msgs') = Head(msgs)
    BY <1>0, <1>2, QueueFacts
  <2>2. \A u \in Tasks : ~Writes(u, Head(msgs)) /\ ~Writes(u, Head(msgs))'
    BY <1>2, <1>3, <2>1 DEF Writes
  <2> QED
    BY <1>2, <1>5, <2>1, <2>2 DEF Agreed, Bounded
<1>10. Whole'
  <2>1. \A u \in Tasks : at'[u] # "begin"
    <3>1. \A u \in Tasks : at[u] # "begin"
      BY DEF Agreed, Whole
    <3> QED
      BY <1>2, <3>1 DEF Sending
  <2> QED
    BY <1>2, <1>5, <2>1 DEF Agreed, Whole, Finished, Between
<1> QED
  BY <1>2, <1>7, <1>8, <1>9, <1>10 DEF Agreed

LEMMA MessageAckIsAgreed ==
  ASSUME Sound, Agreed, Ack, ~CtlSent
  PROVE  Agreed'
<1>0. Shaped /\ Queued /\ flight # <<>> /\ Open /\ at["async_tcp"] = "idle" /\ Len(flight) \in Nat
  BY AckCases, SegmentsAre DEF Sound, Shaped
<1>1. PICK n \in Nat : /\ n > 0 /\ OnAck(n) /\ InOrder' /\ InFlight' = InFlight - n /\ n <= InFlight
                       /\ \E k \in 0..Len(flight) :
                            /\ Len(flight') = Len(flight) - k
                            /\ \A j \in 1..Len(flight) - k : flight'[j] = [flight[j + k] EXCEPT !.end = @ - n]
  BY <1>0, AckCases
<1>2. /\ UNCHANGED <<msgs, obj, piece, failed>> /\ Owed' = Owed /\ Slack' = Slack
      /\ \A u \in Tasks : (at'[u] \in Sending \/ at[u] \in Sending) => at'[u] = at[u]
      /\ \A u \in Tasks : Extra(u)' = Extra(u)
      /\ \A u \in Tasks, i \in Ids : Writes(u, i)' <=> Writes(u, i)
      /\ WrittenDeleted => WrittenDeleted'
  BY <1>0, <1>1, AckKeeps
<1>3. MsgBytes = InFlight /\ InFlight \in Nat /\ InFlight > 0 /\ Owed \in Nat /\ Slack \in 0..4 /\ msgs # <<>>
  <2>1. MsgBytes = InFlight /\ InFlight \in Nat /\ Owed \in Nat /\ Slack \in 0..4
    BY <1>0, CountFacts DEF MsgBytes
  <2>2. InFlight > 0
    BY <1>1, <2>1
  <2> QED
    BY <2>1, <2>2 DEF Agreed, Balanced
<1>4. PICK h \in Ids : h = Head(msgs)
  BY <1>0, <1>3, QueueFacts
<1>5. /\ msg[h].ack \in Int /\ msg[h].acked \in Nat /\ msg[h].sent \in Nat /\ msg[h].len \in Nat
      /\ msg[h].sent <= msg[h].len /\ msg[h].ack < Word /\ InFlight + Owed = msg[h].ack - msg[h].acked
  <2>1. /\ msg[h].ack \in Int /\ msg[h].acked \in Nat /\ msg[h].sent \in Nat /\ msg[h].len \in Nat
        /\ msg[h].ack < Word
    BY <1>0, <1>3, <1>4, CountFacts, CountFits
  <2>2. msg[h].sent <= msg[h].len
    BY <1>0, EventLabels, Facts DEF Made
  <2>3. InFlight + Owed = msg[h].ack - msg[h].acked
    BY <1>3, <1>4 DEF Agreed, Balanced, Unacked
  <2> QED
    BY <2>1, <2>2, <2>3
<1>6. ctl' = ctl /\ msg' = Acknowledged(h, n)
  BY <1>1, <1>3, <1>4 DEF OnAck, CtlSent
<1>7. /\ msg'[h].acked = msg[h].acked + n /\ msg'[h].sent = msg[h].sent /\ msg'[h].len = msg[h].len
      /\ msg'[h].ack = msg[h].ack
      /\ msg'[h].status = IF IF msg[h].kind = "multi"
                             THEN msg[h].sent >= msg[h].len /\ msg'[h].acked >= msg[h].ack
                             ELSE msg[h].sent = msg[h].len /\ msg'[h].acked = msg[h].ack
                          THEN "sent" ELSE msg[h].status
  <2>0. n \in Int
    OBVIOUS
  <2>1. /\ msg'[h].acked = (msg[h].acked + n) % Word /\ msg'[h].sent = msg[h].sent /\ msg'[h].len = msg[h].len
        /\ msg'[h].ack = msg[h].ack
        /\ msg'[h].status = IF IF msg[h].kind = "multi"
                               THEN msg[h].sent >= msg[h].len /\ msg'[h].acked >= msg[h].ack
                               ELSE msg[h].sent = msg[h].len /\ msg'[h].acked = msg[h].ack
                            THEN "sent" ELSE msg[h].status
    BY <1>0, <1>6, <2>0, AcknowledgedType
  <2>2. (msg[h].acked + n) % Word = msg[h].acked + n
    <3>1. Word \in Nat /\ Word > 0
      BY Bounds
    <3>2. msg[h].acked + n \in Nat /\ msg[h].acked + n < Word
      BY <1>1, <1>3, <1>5, <3>1, CountedBytes
    <3> QED
      BY <3>1, <3>2
  <2> QED
    BY <2>1, <2>2
<1>8. ~CtlSent'
  BY <1>6 DEF CtlSent
<1>9. Balanced'
  <2>1. MsgBytes' = InFlight - n
    BY <1>1, <1>8 DEF MsgBytes
  <2>2. MsgBytes' + Owed' = msg'[h].ack - msg'[h].acked
    BY <1>2, <1>3, <1>5, <1>7, <2>1, SMTT(20)
  <2> QED
    BY <1>2, <1>3, <1>4, <2>2, Zenon DEF Balanced, Unacked
<1>10. \A u \in Tasks : at[u] # "control" /\ at[u] # "begin"
  <2>1. \A u \in Tasks : at[u] # "control"
    BY DEF Agreed, Exclusive
  <2>2. ~Between(h)
    BY <1>3, <1>5 DEF Between
  <2> QED
    BY <1>4, <2>1, <2>2 DEF Agreed, Whole
<1>11. Exclusive'
  <2>1. \A u \in Tasks : at'[u] # "control"
    BY <1>2, <1>10 DEF Sending
  <2>2. \A k \in 1..Len(flight') : ~flight'[k].ctl
    <3>1. PICK m \in 0..Len(flight) :
            /\ Len(flight') = Len(flight) - m
            /\ \A j \in 1..Len(flight) - m : flight'[j] = [flight[j + m] EXCEPT !.end = @ - n]
      BY <1>1
    <3> SUFFICES ASSUME NEW j \in 1..Len(flight') PROVE ~flight'[j].ctl
      OBVIOUS
    <3>2. j + m \in 1..Len(flight) /\ flight'[j] = [flight[j + m] EXCEPT !.end = @ - n]
      BY <1>0, <3>1
    <3>3. flight[j + m] \in Segments /\ ~flight[j + m].ctl
      BY <1>0, <3>2, SegmentsAre DEF Agreed, Exclusive, Shaped
    <3>4. [flight[j + m] EXCEPT !.end = @ - n].ctl = flight[j + m].ctl
      BY <3>3 DEF Segments
    <3> QED
      BY <3>2, <3>3, <3>4
  <2> QED
    BY <1>6, <1>8, <2>1, <2>2 DEF Agreed, Exclusive
<1>12. Bounded'
  <2>1. Head(msgs') = h /\ msgs' # <<>>
    BY <1>2, <1>3, <1>4
  <2>2. \A u \in Tasks : Writes(u, h)' =>
          msg'[h].ack <= 3 * piece'[u].from + piece'[u].n + Slack' + Extra(u)'
    BY <1>2, <1>3, <1>4, <1>7 DEF Agreed, Bounded
  <2>3. (\A u \in Tasks : ~Writes(u, h)') => msg'[h].ack <= 3 * msg'[h].sent + Slack'
    BY <1>2, <1>3, <1>4, <1>7 DEF Agreed, Bounded
  <2> QED
    BY <2>1, <2>2, <2>3 DEF Bounded
<1>13. Whole'
  <2>1. \A u \in Tasks : at'[u] # "begin"
    BY <1>2, <1>10 DEF Sending
  <2>2. ~Finished(h)
    <3>1. ~Between(h)
      BY <1>3, <1>5 DEF Between
    <3> QED
      BY <1>3, <1>4, <3>1 DEF Agreed, Whole
  <2>3. Finished(h)' => msg'[h].sent = msg'[h].len /\ Between(h)'
    <3> SUFFICES ASSUME Finished(h)' PROVE msg'[h].sent = msg'[h].len /\ Between(h)'
      OBVIOUS
    <3>1. /\ msg[h].sent >= msg[h].len
          /\ msg'[h].acked >= msg[h].ack
      BY <1>5, <1>7, <2>2 DEF Finished
    <3>2. msg'[h].acked <= msg[h].ack /\ msg'[h].acked \in Int
      <4>1. msg[h].acked + n \in Nat /\ msg[h].acked + n <= msg[h].ack
        BY <1>1, <1>3, <1>5, Bounds, CountedBytes
      <4>2. msg'[h].acked = msg[h].acked + n
        BY <1>7
      <4> QED
        BY <4>1, <4>2
    <3>3. msg'[h].acked = msg[h].ack /\ msg[h].sent = msg[h].len
      BY <1>5, <3>1, <3>2
    <3> QED
      BY <1>7, <3>3 DEF Between
  <2> QED
    BY <1>2, <1>4, <2>1, <2>3 DEF Whole
<1> QED
  BY <1>2, <1>9, <1>11, <1>12, <1>13 DEF Agreed

LEMMA AckIsAgreed ==
  ASSUME Sound, Agreed, Ack
  PROVE  Agreed'
BY ControlAckIsAgreed, MessageAckIsAgreed

LEMMA NextIsOpen == Next => Open
<1>1. "loop" \in Tasks
  BY EventLabels
<1>2. Callback => Open
  BY DEF Callback, Text, Ack, Poll, PollTimer, ReceivePing, ReceiveClose, QueueControl, Idle
<1>3. Seconds => Open
  BY <1>1 DEF Seconds, Idle
<1> QED
  BY <1>2, <1>3 DEF Next, Step, MakeBuffer, Idle

\* A write that has failed, and a control frame that was sent again, stay so.
LEMMA NextRemembers ==
  ASSUME Next, Good'
  PROVE  Good /\ failed \subseteq failed' /\ (crossed' = crossed \/ \E t \in Tasks : Choose(t))
<1> DEFINE kept == resent' = resent /\ failed' = failed /\ crossed' = crossed
<1>1. ASSUME NEW t \in Tasks, Step(t) PROVE Good /\ failed \subseteq failed' /\ (crossed' = crossed \/ \E u \in Tasks : Choose(u))
  <2>1. CASE Choose(t)
    BY <2>1 DEF Choose, Good
  <2>2. CASE SendControl(t) \/ SendHeader(t) \/ SendData(t) \/ Output(t)
    <3>1. /\ resent' = resent /\ crossed' = crossed
          /\ failed' = failed \/ \E w \in {"control", "header", "data", "output"} : Fails(w)
      BY <2>2 DEF SendControl, SendHeader, SendData, Output
    <3> QED
      BY <3>1 DEF Good, Fails
  <2>3. CASE Begin(t) \/ Stamp(t) \/ Settle(t) \/ LockBuffer(t) \/ QueueBuffer(t) \/ UnlockBuffer(t)
    <3>1. kept
      BY <2>3 DEF Begin, Stamp, Settle, LockBuffer, QueueBuffer, UnlockBuffer, excuses
    <3> QED
      BY <3>1 DEF Good
  <2> QED
    BY <1>1, <2>1, <2>2, <2>3 DEF Step, Send
<1>2. ASSUME NEW t \in Tasks, NEW len \in Lengths, MakeBuffer(t, len) PROVE kept
  BY <1>2 DEF MakeBuffer, excuses
<1>3. CASE Callback
  <2>1. ASSUME NEW len \in Lengths, Text(len) PROVE kept
    BY <2>1 DEF Text, excuses
  <2>2. Ack => kept
    BY DEF Ack, OnAck
  <2>3. Poll \/ PollTimer \/ ReceivePing \/ ReceiveClose => kept
    BY DEF Poll, PollTimer, ReceivePing, ReceiveClose, QueueControl, excuses
  <2> QED
    BY <1>3, <2>1, <2>2, <2>3 DEF Callback, Good
<1>4. Seconds => kept
  BY DEF Seconds
<1> QED
  BY <1>1, <1>2, <1>3, <1>4 DEF Next, Good

LEMMA NextIsAgreed ==
  ASSUME Sound, Agreed, Next, Good', ~crossed'
  PROVE  Agreed'
<1>0. Open /\ Queued' /\ "loop" \in Tasks
  BY NextIsOpen, NextIsSound, EventLabels DEF Sound
<1>1. ASSUME NEW t \in Tasks, Step(t) PROVE Agreed'
  <2>1. CASE Send(t)
    BY <1>0, <2>1, ChooseIsAgreed, SendControlIsAgreed, BeginIsAgreed, SendHeaderIsAgreed, SendDataIsAgreed,
       OutputIsAgreed, SettleIsAgreed DEF Send
  <2>2. CASE LockBuffer(t) \/ QueueBuffer(t) \/ UnlockBuffer(t)
    BY <1>0, <2>2, RestIsAgreed
  <2> QED
    BY <1>1, <2>1, <2>2 DEF Step
<1>2. ASSUME NEW t \in Tasks, NEW len \in Lengths, MakeBuffer(t, len) PROVE Agreed'
  BY <1>0, <1>2, RestIsAgreed
<1>3. CASE Callback
  <2>1. ASSUME NEW len \in Lengths, Text(len) PROVE Agreed'
    BY <1>0, <2>1, RestIsAgreed
  <2>2. CASE Ack
    BY <2>2, AckIsAgreed
  <2>3. CASE Poll \/ PollTimer \/ ReceivePing \/ ReceiveClose
    BY <1>0, <2>3, RestIsAgreed
  <2> QED
    BY <1>3, <2>1, <2>2, <2>3 DEF Callback
<1>4. CASE Seconds
  BY <1>0, <1>4, RestIsAgreed
<1> QED
  BY <1>1, <1>2, <1>3, <1>4 DEF Next

LEMMA InitIsAgreed ==
  ASSUME Init
  PROVE  Agreed
<1>1. /\ msgs = <<>> /\ ctl = <<>> /\ flight = <<>> /\ failed = {} /\ Len(ctl) = 0 /\ Len(flight) = 0
      /\ \A t \in Tasks : at[t] = "idle" /\ piece[t] = NoPiece /\ piece[t].of = 0
  <2>1. /\ msgs = <<>> /\ ctl = <<>> /\ flight = <<>> /\ failed = {}
        /\ \A t \in Tasks : at[t] = "idle" /\ piece[t] = NoPiece
    BY DEF Init
  <2> QED
    BY <2>1, NoPieceType
<1>2. Balanced
  <2>1. Owed = 0
    BY <1>1, EventLabels DEF Owed, Due, Lost
  <2>2. MsgBytes = 0
    BY <1>1 DEF MsgBytes, InFlight
  <2> QED
    BY <1>1, <2>1, <2>2 DEF Balanced
<1>3. Exclusive /\ Bounded /\ Whole /\ WrittenDeleted
  BY <1>1 DEF Exclusive, CtlSent, Bounded, Whole, WrittenDeleted
<1> QED
  BY <1>2, <1>3 DEF Agreed

CountsInv == Sound /\ Counted /\ DeletedIsWritten

LEMMA WrittenIsExcused == WrittenDeleted \/ ~Good => DeletedIsWritten
BY DEF WrittenDeleted, DeletedIsWritten, Good

LEMMA CountsInductive == CountsInv /\ [Next]_vars => CountsInv'
<1> SUFFICES ASSUME CountsInv, [Next]_vars PROVE CountsInv'
  OBVIOUS
<1>0. Sound /\ Sound' /\ Counted /\ DeletedIsWritten
  BY NextIsSound DEF CountsInv
<1>1. CASE UNCHANGED vars
  <2>1. UNCHANGED <<msgs, ctl, msg, obj, at, piece, flight, failed, resent, crossed>>
    BY <1>1 DEF vars, queues, messages, stream, excuses
  <2>2. Counted'
    <3>1. Good' /\ ~crossed' => Agreed
      BY <1>0, <2>1 DEF Counted, Good
    <3>2. ASSUME Agreed PROVE Agreed'
      BY <1>0, <2>1, <3>2, KeptIsAgreed DEF Sound
    <3> QED
      BY <3>1, <3>2 DEF Counted
  <2>3. DeletedIsWritten'
    BY <1>0, <2>1 DEF DeletedIsWritten
  <2> QED
    BY <1>0, <2>2, <2>3 DEF CountsInv
<1>2. CASE Next /\ Good'
  <2>1. Agreed
    <3>1. Good /\ ~crossed
      BY <1>2, NextIsOpen, NextRemembers DEF Open
    <3> QED
      BY <1>0, <3>1 DEF Counted
  <2>2. CASE ~crossed'
    <3>1. Agreed'
      BY <1>0, <1>2, <2>1, <2>2, NextIsAgreed
    <3>2. WrittenDeleted'
      BY <3>1 DEF Agreed
    <3>3. DeletedIsWritten'
      BY <3>2 DEF WrittenDeleted, DeletedIsWritten
    <3> QED
      BY <1>0, <3>1, <3>3 DEF CountsInv, Counted
  <2>3. CASE crossed'
    <3>1. Open /\ ~crossed
      BY <1>2, NextIsOpen DEF Open
    <3>2. PICK t \in Tasks : Choose(t)
      BY <1>2, <2>3, <3>1, NextRemembers
    <3>3. WrittenDeleted'
      BY <1>0, <2>1, <3>1, <3>2, ChooseDeletes
    <3>4. DeletedIsWritten'
      BY <3>3 DEF WrittenDeleted, DeletedIsWritten
    <3> QED
      BY <1>0, <2>3, <3>4 DEF CountsInv, Counted
  <2> QED
    BY <2>2, <2>3
<1>3. CASE ~Good'
  <2>1. DeletedIsWritten'
    BY <1>3 DEF DeletedIsWritten, Good
  <2> QED
    BY <1>0, <1>3, <2>1 DEF CountsInv, Counted
<1> QED
  BY <1>1, <1>2, <1>3

(* A message is deleted while a task is sending it only when the task has     *)
(* written all it had: no task reads a message that is gone for what to send  *)
(* next.  Acknowledgements that come between the write and the settling may   *)
(* finish it before; but for a failed tcp_output or a control frame that is   *)
(* sent again, none finishes a message before its bytes are on their way.     *)
THEOREM DeletedAlwaysWritten == Spec => []DeletedIsWritten
<1>1. Init => CountsInv
  <2> SUFFICES ASSUME Init PROVE CountsInv
    OBVIOUS
  <2>1. Sound /\ Agreed
    BY InitIsSound, InitIsAgreed
  <2> QED
    BY <2>1, WrittenIsExcused DEF CountsInv, Counted, Agreed
<1>2. Spec => []CountsInv
  BY <1>1, CountsInductive, PTL DEF Spec
<1>3. CountsInv => DeletedIsWritten
  BY DEF CountsInv
<1> QED
  BY <1>2, <1>3, PTL

----------------------------------------------------------------------------
(* What the page's WebSocket is in the middle of *)

Calm == Good /\ ~crossed /\ "data" \notin failed

\* A frame that is counted, none of which is written.
Unwritten(t) == piece[t].of # 0 /\ (at[t] = "header" \/ (at[t] = "settle" /\ piece[t].wrote = 0))

\* After n bytes of a message, and before them.
Place(i, n) == IF n \in {0, msg[i].len} THEN NoFrame ELSE [need |-> 0, final |-> FALSE, of |-> i, got |-> n]

HeadStreamed(h) ==
  /\ \A t \in Tasks : at[t] = "data" =>
       rx = [need |-> piece[t].n, final |-> piece[t].final, of |-> piece[t].of, got |-> piece[t].from]
  /\ \A t \in Tasks : Unwritten(t) => rx = Place(h, piece[t].from)
  /\ (\A t \in Tasks : ~Unwritten(t) /\ at[t] # "data") =>
       rx = Place(h, msg[h].sent) /\ (msg[h].sent = msg[h].len => h \in received)

SentIsReceived == \A i \in Ids : Finished(i) => i \in received

Streamed ==
  /\ ~broken /\ SentIsReceived
  /\ IF msgs = <<>> THEN rx = NoFrame ELSE HeadStreamed(Head(msgs))

Streaming == Calm => Streamed

\* A step that puts no byte on its way, and leaves the first message or drops one.
LEMMA StreamedStays ==
  ASSUME Shaped, Streamed, UNCHANGED <<rx, received, broken>>, SentIsReceived',
         NEW h \in Ids, msgs # <<>>, h = Head(msgs), msgs' # <<>>, h = Head(msgs'),
         msg'[h].sent = msg[h].sent, msg'[h].len = msg[h].len,
         \A u \in Tasks : at'[u] = "data" <=> at[u] = "data",
         \A u \in Tasks : Unwritten(u)' <=> Unwritten(u),
         \A u \in Tasks : at[u] = "data" \/ Unwritten(u) => piece'[u] = piece[u]
  PROVE  Streamed'
<1>1. HeadStreamed(h)
  BY DEF Streamed
<1>2. \A u \in Tasks : at'[u] = "data" =>
        rx' = [need |-> piece'[u].n, final |-> piece'[u].final, of |-> piece'[u].of, got |-> piece'[u].from]
  BY <1>1 DEF HeadStreamed
<1>3. \A u \in Tasks : Unwritten(u)' => rx' = Place(h, piece[u].from)'
  <2> SUFFICES ASSUME NEW u \in Tasks, Unwritten(u)' PROVE rx' = Place(h, piece[u].from)'
    OBVIOUS
  <2>1. rx = Place(h, piece[u].from) /\ piece'[u] = piece[u]
    BY <1>1 DEF HeadStreamed
  <2> QED
    BY <2>1 DEF Place
<1>4. (\A u \in Tasks : ~Unwritten(u)' /\ at'[u] # "data") =>
        rx' = Place(h, msg[h].sent)' /\ (msg'[h].sent = msg'[h].len => h \in received')
  <2> SUFFICES ASSUME \A u \in Tasks : ~Unwritten(u)' /\ at'[u] # "data"
               PROVE  rx' = Place(h, msg[h].sent)' /\ (msg'[h].sent = msg'[h].len => h \in received')
    OBVIOUS
  <2>1. rx = Place(h, msg[h].sent) /\ (msg[h].sent = msg[h].len => h \in received)
    BY <1>1 DEF HeadStreamed
  <2> QED
    BY <2>1 DEF Place
<1>5. HeadStreamed(h)'
  BY <1>2, <1>3, <1>4 DEF HeadStreamed
<1> QED
  BY <1>5 DEF Streamed

\* Between messages: nobody is sending, or what a task sends is deleted.
LEMMA StreamedBetween ==
  ASSUME Streamed, rx = NoFrame, UNCHANGED <<rx, received, broken>>, SentIsReceived',
         \A u \in Tasks : ~Unwritten(u)' /\ at'[u] # "data",
         msgs' # <<>> => msg'[Head(msgs')].sent = 0 /\ msg'[Head(msgs')].len # 0
  PROVE  Streamed'
<1>1. msgs' # <<>> => HeadStreamed(Head(msgs))'
  BY DEF HeadStreamed, Place
<1> QED
  BY <1>1 DEF Streamed

\* Who has counted a frame that is not written is sending the first message.
LEMMA FramesAreOfHead ==
  ASSUME Sound, Agreed, NEW t \in Tasks, Unwritten(t) \/ at[t] = "data"
  PROVE  /\ msgs # <<>> /\ piece[t].of = Head(msgs) /\ piece[t].of \in Ids /\ obj[piece[t].of] # "deleted"
         /\ at[t] \in Sending
<1>1. Stage(t) /\ piece[t].n \in Nat /\ Queued /\ (piece[t].of # 0 => piece[t].of \in Ids)
  BY Facts DEF Sound
<1>2. at[t] \in {"header", "data", "settle"} /\ piece[t].of # 0 /\ at[t] \in Writing /\ at[t] \in Sending
  BY <1>1 DEF Unwritten, Stage, Writing, Sending
<1>3. piece[t].n > 0
  BY <1>1, <1>2 DEF Stage
<1>4. obj[piece[t].of] # "deleted"
  <2> SUFFICES ASSUME obj[piece[t].of] = "deleted" PROVE FALSE
    OBVIOUS
  <2>1. at[t] \in {"output", "stamp", "settle"} /\ piece[t].wrote = piece[t].n
    BY <1>2 DEF Agreed, WrittenDeleted
  <2>2. piece[t].wrote = 0
    BY <2>1 DEF Unwritten
  <2> QED
    BY <1>3, <2>1, <2>2
<1> QED
  BY <1>1, <1>2, <1>4 DEF Queued

\* What neither sends nor drops a message.
LEMMA KeptIsStreamed ==
  ASSUME Sound, Sound', Agreed, Streamed, UNCHANGED <<piece, rx, received, broken>>,
         \A i \in Ids : Finished(i)' => Finished(i),
         \A u \in Tasks : at'[u] = at[u] \/ (at[u] \notin Sending /\ at'[u] \notin Sending),
         IF msgs # <<>> THEN msgs' # <<>> /\ Head(msgs') = Head(msgs) /\ msg'[Head(msgs)] = msg[Head(msgs)]
                        ELSE msgs' = <<>> \/ (Fresh(Head(msgs))' /\ Head(msgs') \in Ids)
  PROVE  Streamed'
<1>0. Shaped /\ Shaped'
  BY DEF Sound
<1>1. \A u \in Tasks : /\ at'[u] = "data" <=> at[u] = "data"
                       /\ Unwritten(u)' <=> Unwritten(u)
  BY DEF Unwritten, Sending
<1>2. SentIsReceived'
  BY DEF Streamed, SentIsReceived
<1>3. CASE msgs # <<>>
  <2>1. PICK h \in Ids : h = Head(msgs)
    BY <1>0, <1>3, QueueFacts
  <2> QED
    BY <1>0, <1>1, <1>2, <1>3, <2>1, StreamedStays
<1>4. CASE msgs = <<>>
  <2>1. \A u \in Tasks : ~Unwritten(u)' /\ at'[u] # "data"
    BY <1>1, <1>4, FramesAreOfHead
  <2>2. ASSUME msgs' # <<>> PROVE msg'[Head(msgs')].sent = 0 /\ msg'[Head(msgs')].len # 0
    <3>1. msgs' \in Seq(1..made') /\ Made' /\ made' \in 0..MaxInputs
      BY <1>0 DEF Shaped, Typed, QueuesTyped, MessagesTyped
    <3>2. Head(msgs') \in 1..made' /\ Head(msgs') \in Ids
      BY <1>4, <2>2, <3>1, SeqFacts
    <3>3. msg'[Head(msgs')].len \in Lengths
      BY <3>1, <3>2 DEF Made
    <3>4. \A n \in Lengths : n # 0
      BY ClientAssumption
    <3> QED
      BY <1>4, <2>2, <3>3, <3>4 DEF Fresh
  <2> QED
    BY <1>2, <1>4, <2>1, <2>2, StreamedBetween DEF Streamed
<1> QED
  BY <1>3, <1>4

LEMMA GrownIsStreamed ==
  ASSUME Sound, Sound', Agreed, Streamed, NEW t \in Tasks, at[t] \notin Sending, at[t] # "poll",
         NEW i \in Ids, i \in 1..made', Enqueue(t, i), obj[i] = "none", Fresh(i)', made' \in Nat, made' >= made,
         UNCHANGED <<piece, rx, received, broken>>, \A j \in Ids : j # i => msg'[j] = msg[j]
  PROVE  Streamed'
<1>0. Shaped /\ Queued
  BY DEF Sound
<1>1. /\ at'[t] \in {"choose", "idle", "unlock"} /\ \A u \in Tasks : u # t => at'[u] = at[u]
      /\ msgs' = msgs \/ msgs' = Append(msgs, i)
  BY <1>0, EnqueueType
<1>2. \A u \in Tasks : at'[u] = at[u] \/ (at[u] \notin Sending /\ at'[u] \notin Sending)
  BY <1>1 DEF Sending
<1>3. \A j \in Ids : Finished(j)' => Finished(j)
  BY DEF Finished, Fresh
<1>4. msgs # <<>> => msg'[Head(msgs)] = msg[Head(msgs)]
  <2>1. msgs # <<>> => Head(msgs) \in Ids /\ obj[Head(msgs)] = "alive"
    BY <1>0, QueueFacts DEF Queued
  <2> QED
    BY <2>1
<1>5. IF msgs # <<>> THEN msgs' # <<>> /\ Head(msgs') = Head(msgs) /\ msg'[Head(msgs)] = msg[Head(msgs)]
                     ELSE msgs' = <<>> \/ (Fresh(Head(msgs))' /\ Head(msgs') \in Ids)
  <2>1. CASE msgs' = msgs
    BY <1>4, <2>1
  <2>2. CASE msgs' = Append(msgs, i)
    <3>1. msgs \in Seq(1..made) /\ Len(msgs) \in Nat
      BY <1>0, QueueFacts
    <3>2. msgs' # <<>> /\ (msgs # <<>> => Head(msgs') = Head(msgs)) /\ (msgs = <<>> => Head(msgs') = i)
      BY <2>2, <3>1
    <3> QED
      BY <1>4, <3>2 DEF Fresh
  <2> QED
    BY <1>1, <2>1, <2>2
<1> QED
  BY <1>2, <1>3, <1>5, KeptIsStreamed

LEMMA RestIsStreamed ==
  ASSUME Sound, Sound', Agreed, Streamed, NEW t \in Tasks, NEW len,
         \/ Open /\ (LockBuffer(t) \/ QueueBuffer(t) \/ UnlockBuffer(t))
         \/ len \in Lengths /\ (MakeBuffer(t, len) \/ Text(len))
         \/ Poll \/ PollTimer \/ Seconds \/ ReceivePing \/ ReceiveClose
  PROVE  Streamed'
<1>0. Shaped /\ Queued /\ made \in Nat /\ "async_tcp" \in Tasks
  BY QueueFacts, EventLabels DEF Sound
<1>1. ASSUME NEW u \in Tasks, at[u] \notin Sending, UNCHANGED <<msgs, msg, piece, rx, received, broken>>,
             NEW l \in {"idle", "choose", "made", "queue", "poll"}, Goto(u, l), l = "poll" => u = "async_tcp"
      PROVE  Streamed'
  <2>1. \A v \in Tasks : at'[v] = at[v] \/ (at[v] \notin Sending /\ at'[v] \notin Sending)
    BY <1>0, <1>1, RestMoves
  <2>2. \A i \in Ids : Finished(i)' => Finished(i)
    BY <1>1 DEF Finished
  <2> QED
    BY <1>1, <2>1, <2>2, KeptIsStreamed
<1>2. CASE LockBuffer(t) \/ UnlockBuffer(t)
  <2>1. /\ at[t] \notin Sending /\ UNCHANGED <<msgs, msg, piece, rx, received, broken>>
        /\ Goto(t, "queue") \/ Goto(t, "idle")
    BY <1>2 DEF LockBuffer, UnlockBuffer, Sending, queues, messages, stream
  <2> QED
    BY <1>1, <2>1
<1>3. CASE len \in Lengths /\ MakeBuffer(t, len)
  <2>1. /\ at[t] = "idle" /\ at[t] \notin Sending /\ Goto(t, "made") /\ Make(t, "multi", len)
        /\ UNCHANGED <<msgs, piece, rx, received, broken>>
    BY <1>3 DEF MakeBuffer, Idle, Sending, queues, stream
  <2>2. "multi" \in {"basic", "multi"}
    OBVIOUS
  <2>3. /\ made' \in Ids /\ made' > made /\ \A i \in Ids : i # made' => msg'[i] = msg[i]
        /\ msg'[made'].status = "sending"
    BY <1>0, <1>3, <2>1, <2>2, MakeType
  <2>4. \A i \in Ids : Finished(i)' => Finished(i)
    BY <2>3 DEF Finished
  <2>5. \A u \in Tasks : at'[u] = at[u] \/ (at[u] \notin Sending /\ at'[u] \notin Sending)
    BY <1>0, <2>1, RestMoves
  <2>6. msgs # <<>> => msg'[Head(msgs)] = msg[Head(msgs)]
    <3>1. msgs # <<>> => Head(msgs) \in 1..made /\ Head(msgs) \in Ids
      BY <1>0, QueueFacts
    <3>2. \A i \in 1..made : i # made'
      BY <1>0, <2>3 DEF Ids
    <3> QED
      BY <2>3, <3>1, <3>2
  <2> QED
    BY <2>1, <2>4, <2>5, <2>6, KeptIsStreamed
<1>4. CASE len \in Lengths /\ Text(len)
  <2> DEFINE a == "async_tcp"
  <2>1. /\ a \in Tasks /\ at[a] = "idle" /\ at[a] \notin Sending /\ at[a] # "poll" /\ Make(a, "basic", len)
        /\ Enqueue(a, made') /\ UNCHANGED <<piece, rx, received, broken>>
    BY <1>0, <1>4 DEF Text, Idle, Sending, stream
  <2> HIDE DEF a
  <2>2. "basic" \in {"basic", "multi"}
    OBVIOUS
  <2>3. /\ made' \in Ids /\ made' > made /\ made' \in 1..made' /\ made' \in Nat /\ made' >= made
        /\ \A i \in Ids : i # made' => msg'[i] = msg[i]
        /\ Fresh(made)'
    BY <1>0, <1>4, <2>1, <2>2, MakeType DEF Fresh
  <2>4. obj[made'] = "none"
    BY <1>0, <2>3, Facts, EventLabels DEF Made
  <2>5. PICK i \in Ids : i = made'
    BY <2>3
  <2>6. Fresh(i)'
    BY <2>3, <2>5 DEF Fresh
  <2>7. /\ i \in 1..made' /\ Enqueue(a, i) /\ obj[i] = "none" /\ \A j \in Ids : j # i => msg'[j] = msg[j]
    BY <2>1, <2>3, <2>4, <2>5
  <2> QED
    BY <2>1, <2>3, <2>6, <2>7, GrownIsStreamed
<1>5. CASE QueueBuffer(t)
  <2>1. /\ at[t] = "queue" /\ at[t] \notin Sending /\ at[t] # "poll" /\ Enqueue(t, job[t])
        /\ UNCHANGED <<made, msg, piece, rx, received, broken>>
    BY <1>5 DEF QueueBuffer, Sending, stream
  <2>2. job[t] # 0 /\ obj[job[t]] = "none" /\ Fresh(job[t])
    BY <1>0, <2>1 DEF Queued
  <2>3. job[t] \in Ids /\ job[t] \in 0..made
    BY <1>0, <2>2, QueueFacts
  <2>4. PICK i \in Ids : i = job[t]
    BY <2>3
  <2>5. Fresh(i)'
    BY <2>1, <2>2, <2>4 DEF Fresh
  <2>6. /\ i \in 1..made' /\ Enqueue(t, i) /\ obj[i] = "none" /\ made' \in Nat /\ made' >= made
        /\ \A j \in Ids : j # i => msg'[j] = msg[j]
    BY <1>0, <2>1, <2>2, <2>3, <2>4
  <2> QED
    BY <2>1, <2>5, <2>6, GrownIsStreamed
<1>6. CASE Poll \/ PollTimer \/ ReceivePing \/ ReceiveClose
  <2>1. /\ at["async_tcp"] \in {"idle", "poll"} /\ at["async_tcp"] \notin Sending
        /\ \E l \in {"idle", "choose", "poll"} : Goto("async_tcp", l)
        /\ UNCHANGED <<msgs, msg, piece, rx, received, broken>>
    <3>1. Poll => at["async_tcp"] = "idle" /\ Goto("async_tcp", "poll") /\ UNCHANGED <<msgs, msg, piece, rx, received, broken>>
      BY DEF Poll, Idle, queues, messages, stream
    <3>2. PollTimer => /\ at["async_tcp"] = "poll" /\ (Goto("async_tcp", "choose") \/ Goto("async_tcp", "idle"))
                       /\ UNCHANGED <<msgs, msg, piece, rx, received, broken>>
      BY DEF PollTimer, Close, messages, stream
    <3>3. ReceivePing \/ ReceiveClose =>
            /\ at["async_tcp"] = "idle" /\ (Goto("async_tcp", "choose") \/ Goto("async_tcp", "idle"))
            /\ UNCHANGED <<msgs, msg, piece, rx, received, broken>>
      BY DEF ReceivePing, ReceiveClose, QueueControl, Idle, messages, stream
    <3> QED
      BY <1>6, <3>1, <3>2, <3>3 DEF Sending
  <2>2. PICK l \in {"idle", "choose", "poll"} : Goto("async_tcp", l)
    BY <2>1
  <2> QED
    BY <1>0, <1>1, <2>1, <2>2
<1>7. CASE Seconds
  <2>1. at' = at /\ UNCHANGED <<msgs, msg, piece, rx, received, broken>>
    BY <1>7 DEF Seconds, queues, messages, stream
  <2>2. \A i \in Ids : Finished(i)' => Finished(i)
    BY <2>1 DEF Finished
  <2> QED
    BY <2>1, <2>2, KeptIsStreamed
<1> QED
  BY <1>2, <1>3, <1>4, <1>5, <1>6, <1>7

\* What puts no byte on its way and takes back none.
LEMMA QuietIsStreamed ==
  ASSUME Sound, Agreed, Streamed, UNCHANGED <<msgs, rx, received, broken>>, SentIsReceived',
         msgs # <<>> => msg'[Head(msgs)].sent = msg[Head(msgs)].sent /\ msg'[Head(msgs)].len = msg[Head(msgs)].len,
         \A u \in Tasks : at'[u] = "data" <=> at[u] = "data",
         \A u \in Tasks : Unwritten(u)' <=> Unwritten(u),
         \A u \in Tasks : at[u] = "data" \/ Unwritten(u) => piece'[u] = piece[u]
  PROVE  Streamed'
<1>0. Shaped
  BY DEF Sound
<1>1. CASE msgs # <<>>
  <2>1. PICK h \in Ids : h = Head(msgs)
    BY <1>0, <1>1, QueueFacts
  <2> QED
    BY <1>0, <1>1, <2>1, StreamedStays
<1>2. CASE msgs = <<>>
  <2>1. \A u \in Tasks : ~Unwritten(u)' /\ at'[u] # "data"
    BY <1>2, FramesAreOfHead
  <2> QED
    BY <1>2, <2>1, StreamedBetween DEF Streamed
<1> QED
  BY <1>1, <1>2

\* The frames of a message are one task's; no frame is begun or half written but its.
LEMMA SenderFrames ==
  ASSUME Sound, Open, NEW t \in Tasks, at[t] \in Sending
  PROVE  \A u \in Tasks : u # t => /\ at[u] \notin Sending /\ piece[u].of = 0
                                   /\ ~Unwritten(u) /\ at[u] # "data"
BY SenderAlone DEF Sound, Unwritten, Sending

\* A step of the task that sends the first message.
LEMMA HeadIsStreamed ==
  ASSUME Sound, Open, NEW t \in Tasks, at[t] \in Sending, NEW h \in Ids, h = Head(msgs), msgs # <<>>, msgs' = msgs,
         \A u \in Tasks : u # t => at'[u] = at[u] /\ piece'[u] = piece[u],
         ~broken', SentIsReceived',
         IF at'[t] = "data"
         THEN rx' = [need |-> piece'[t].n, final |-> piece'[t].final, of |-> piece'[t].of, got |-> piece'[t].from]
         ELSE IF Unwritten(t)' THEN rx' = Place(h, piece[t].from)'
         ELSE rx' = Place(h, msg[h].sent)' /\ (msg'[h].sent = msg'[h].len => h \in received')
  PROVE  Streamed'
<1>1. \A u \in Tasks : u # t => ~Unwritten(u)' /\ at'[u] # "data"
  BY SenderFrames DEF Unwritten
<1>2. \A u \in Tasks : at'[u] = "data" =>
        rx' = [need |-> piece'[u].n, final |-> piece'[u].final, of |-> piece'[u].of, got |-> piece'[u].from]
  BY <1>1
<1>3. at'[t] = "data" => ~Unwritten(t)'
  BY DEF Unwritten
<1>4. \A u \in Tasks : Unwritten(u)' => rx' = Place(h, piece[u].from)'
  BY <1>1, <1>3
<1>5. HeadStreamed(h)'
  BY <1>2, <1>4 DEF HeadStreamed
<1> QED
  BY <1>5 DEF Streamed

\* Where the page is when a task sends the first message.
LEMMA HeadPlace ==
  ASSUME Sound, Agreed, Streamed, Open, NEW t \in Tasks, at[t] \in Sending, NEW h \in Ids, h = Head(msgs), msgs # <<>>
  PROVE  IF at[t] = "data"
         THEN rx = [need |-> piece[t].n, final |-> piece[t].final, of |-> piece[t].of, got |-> piece[t].from]
         ELSE IF Unwritten(t) THEN rx = Place(h, piece[t].from)
         ELSE rx = Place(h, msg[h].sent) /\ (msg[h].sent = msg[h].len => h \in received)
<1>1. HeadStreamed(h)
  BY DEF Streamed
<1>2. \A u \in Tasks : u # t => ~Unwritten(u) /\ at[u] # "data"
  BY SenderFrames
<1> QED
  BY <1>1, <1>2 DEF HeadStreamed

LEMMA NoFrameIs == NoFrame.need = 0 /\ NoFrame.final = FALSE /\ NoFrame.of = 0 /\ NoFrame.got = 0
BY DEF NoFrame

LEMMA SendControlIsStreamed ==
  ASSUME Sound, Agreed, Streamed, Open, NEW t \in Tasks, SendControl(t)
  PROVE  Streamed'
<1>0. Shaped /\ TasksTyped /\ piece \in [Tasks -> Pieces] /\ broken \in BOOLEAN
  BY Facts DEF Sound, TasksTyped, PageTyped
<1>1. /\ at[t] = "control" /\ at[t] \in Sending /\ UNCHANGED <<msgs, msg, rx, received>>
      /\ piece' = [piece EXCEPT ![t] = NoPiece]
      /\ broken' = broken \/ broken' = (broken \/ rx.need # 0)
      /\ Goto(t, "output") \/ Done(t)
  BY DEF SendControl, WriteHeader, Sending, queues, messages, stream
<1>2. \A u \in Tasks : piece[u].of = 0 /\ piece'[u].of = 0 /\ ~Unwritten(u) /\ ~Unwritten(u)' /\ at[u] # "data"
  <2>1. \A u \in Tasks : piece[u].of = 0
    BY <1>1 DEF Agreed, Exclusive
  <2>2. \A u \in Tasks : piece'[u].of = 0
    BY <1>0, <1>1, <2>1, NoPieceType
  <2>3. \A u \in Tasks : at[u] # "data"
    <3>1. \A u \in Tasks : at[u] = "data" => piece[u].of # 0
      BY <1>0, Facts DEF Stage
    <3> QED
      BY <2>1, <3>1
  <2> QED
    BY <2>1, <2>2, <2>3 DEF Unwritten
<1>3. \A u \in Tasks : at'[u] # "data"
  <2>1. "output" \in Labels
    BY DEF Labels, Sending
  <2>2. at'[t] \in {"output", "idle", "unlock"} /\ \A u \in Tasks : u # t => at'[u] = at[u]
    <3>1. CASE Goto(t, "output")
      BY <1>0, <2>1, <3>1, Moved
    <3>2. CASE Done(t)
      BY <1>0, <3>2, DoneMoves
    <3> QED
      BY <1>1, <3>1, <3>2
  <2> QED
    BY <1>2, <2>2
<1>4. rx.need = 0
  <2>1. CASE msgs = <<>>
    BY <2>1, NoFrameIs DEF Streamed
  <2>2. CASE msgs # <<>>
    <3>1. PICK h \in Ids : h = Head(msgs)
      BY <1>0, <2>2, QueueFacts
    <3>2. rx = Place(h, msg[h].sent)
      BY <1>2, <2>2, <3>1 DEF Streamed, HeadStreamed
    <3> QED
      BY <3>2, NoFrameIs DEF Place
  <2> QED
    BY <2>1, <2>2
<1>5. broken' = broken
  BY <1>0, <1>1, <1>4
<1>6. SentIsReceived'
  BY <1>1 DEF Streamed, SentIsReceived, Finished
<1> QED
  BY <1>1, <1>2, <1>3, <1>5, <1>6, QuietIsStreamed

LEMMA BeginIsStreamed ==
  ASSUME Sound, Agreed, Streamed, Open, NEW t \in Tasks, Begin(t)
  PROVE  Streamed'
<1>0. Shaped /\ piece \in [Tasks -> Pieces] /\ msg \in [Ids -> Messages] /\ TasksTyped
  BY Facts DEF Sound, TasksTyped, MessagesTyped
<1>1. PICK h \in Ids : h = piece[t].of
  BY <1>0, BeginCases
<1>2. /\ at[t] = "begin" /\ at[t] \in Sending /\ UNCHANGED <<msgs, rx, received, broken>>
      /\ \/ (Finished(h) \/ msg[h].acked < msg[h].ack) /\ msg' = msg /\ Stops(t)
         \/ /\ ~Finished(h) /\ msg[h].sent = msg[h].len
            /\ msg' = [msg EXCEPT ![h].status = IF msg[h].kind = "multi" \/ Between(h) THEN "sent" ELSE msg[h].status]
            /\ Stops(t)
         \/ \E n \in Nat : Starts(t, h, n)
  <2>1. at[t] = "begin" => at[t] \in Sending
    BY DEF Sending
  <2> QED
    BY <1>0, <1>1, <2>1, BeginCases DEF queues, stream
<1>3. /\ h = Head(msgs) /\ msgs # <<>> /\ ~Finished(h) /\ msg[h].acked = msg[h].ack /\ msg[h] \in Messages
      /\ msg[h].ack \in Int /\ msg[h].sent \in Nat
  BY <1>0, <1>1, <1>2, CountFacts DEF Agreed, Whole, Between
<1>4. ~Unwritten(t) /\ rx = Place(h, msg[h].sent) /\ (msg[h].sent = msg[h].len => h \in received)
  <2>1. ~Unwritten(t)
    BY <1>2 DEF Unwritten
  <2> QED
    BY <1>2, <1>3, <2>1, HeadPlace
<1>5. CASE /\ msg' = [msg EXCEPT ![h].status = IF msg[h].kind = "multi" \/ Between(h) THEN "sent" ELSE msg[h].status]
           /\ msg[h].sent = msg[h].len /\ Stops(t)
  <2>1. /\ at'[t] \in {"idle", "unlock"} /\ piece'[t].of = 0
        /\ \A u \in Tasks : u # t => at'[u] = at[u] /\ piece'[u] = piece[u]
    BY <1>0, <1>5, StopsMoves
  <2>2. msg'[h].sent = msg[h].sent /\ msg'[h].len = msg[h].len /\ \A i \in Ids : i # h => msg'[i] = msg[i]
    BY <1>0, <1>5, <1>3 DEF Messages
  <2>3. SentIsReceived'
    BY <1>2, <1>4, <1>5, <2>2 DEF Streamed, SentIsReceived, Finished
  <2>4. ~Unwritten(t)' /\ at'[t] # "data"
    BY <2>1 DEF Unwritten
  <2>5. \A u \in Tasks : /\ at'[u] = "data" <=> at[u] = "data"
                         /\ Unwritten(u)' <=> Unwritten(u)
                         /\ at[u] = "data" \/ Unwritten(u) => piece'[u] = piece[u]
    BY <1>2, <1>4, <2>1, <2>4 DEF Unwritten
  <2> QED
    BY <1>2, <1>3, <2>2, <2>3, <2>5, QuietIsStreamed
<1>6. ASSUME NEW n \in Nat, Starts(t, h, n) PROVE Streamed'
  <2> DEFINE p == [of |-> h, from |-> msg[h].sent, n |-> n, final |-> msg[h].sent + n = msg[h].len, wrote |-> 0]
  <2>1. p.of = h /\ p.from = msg[h].sent
    OBVIOUS
  <2>2. /\ msg' = [msg EXCEPT ![h].sent = @ + n, ![h].ack = @ + n + 2] /\ Goto(t, "header")
        /\ piece' = [piece EXCEPT ![t] = p] /\ "header" \in Writing
    BY <1>6 DEF Starts, Writing
  <2> HIDE DEF p
  <2>3. at'[t] = "header" /\ piece'[t] = p /\ \A u \in Tasks : u # t => at'[u] = at[u] /\ piece'[u] = piece[u]
    BY <1>0, <2>2, Goes
  <2>4. /\ msg'[h].len = msg[h].len /\ msg'[h].status = msg[h].status /\ \A i \in Ids : i # h => msg'[i] = msg[i]
    BY <1>0, <1>3, <2>2 DEF Messages
  <2>5. SentIsReceived'
    BY <1>2, <2>4 DEF Streamed, SentIsReceived, Finished
  <2>6. rx' = Place(h, piece[t].from)'
    BY <1>2, <1>4, <2>1, <2>3, <2>4 DEF Place
  <2>7. Unwritten(t)' /\ at'[t] # "data"
    BY <2>1, <2>3 DEF Unwritten, Ids
  <2>8. ~broken'
    BY <1>2 DEF Streamed
  <2> QED
    BY <1>2, <1>3, <2>3, <2>5, <2>6, <2>7, <2>8, HeadIsStreamed
<1> QED
  BY <1>2, <1>3, <1>5, <1>6

\* What a task that has a frame of the first message knows of it.
LEMMA FrameIs ==
  ASSUME Sound, Agreed, NEW t \in Tasks, Unwritten(t) \/ at[t] = "data"
  PROVE  /\ msgs # <<>> /\ piece[t].of = Head(msgs) /\ piece[t].of \in Ids /\ piece[t].of # 0
         /\ obj[piece[t].of] # "deleted" /\ at[t] \in Sending
         /\ piece[t].n \in Nat /\ piece[t].n > 0 /\ piece[t].from \in Nat
         /\ msg[piece[t].of].sent = piece[t].from + piece[t].n
         /\ msg[piece[t].of].sent <= msg[piece[t].of].len /\ msg[piece[t].of].len \in Nat
         /\ piece[t].final = (msg[piece[t].of].sent = msg[piece[t].of].len)
         /\ piece[t].from # msg[piece[t].of].len /\ msg[piece[t].of].sent \in Nat
         /\ at[t] = "data" => piece[t].wrote = piece[t].n
<1>1. PICK h \in Ids : h = piece[t].of
  BY FramesAreOfHead
<1>2. /\ msgs # <<>> /\ h = Head(msgs) /\ obj[h] # "deleted" /\ at[t] \in Sending /\ h # 0
      /\ at[t] \in Writing
  <2>1. at[t] \in {"header", "data", "settle"}
    BY DEF Unwritten
  <2> QED
    BY <1>1, <2>1, FramesAreOfHead DEF Ids, Writing
<1>3. Stage(t) /\ Made /\ piece[t].n \in Nat /\ piece[t].from \in Nat /\ msg[h].sent \in Nat /\ msg[h].len \in Nat
  BY Facts DEF Sound
<1>4. piece[t].n > 0 /\ msg[h].sent = piece[t].from + piece[t].n /\ piece[t].final = (msg[h].sent = msg[h].len)
      /\ (at[t] = "data" => piece[t].wrote = piece[t].n)
  BY <1>1, <1>2, <1>3 DEF Stage
<1>5. msg[h].sent <= msg[h].len
  BY <1>3 DEF Made
<1>6. piece[t].from # msg[h].len
  BY <1>3, <1>4, <1>5
<1> QED
  BY <1>1, <1>2, <1>3, <1>4, <1>5, <1>6

LEMMA SendHeaderIsStreamed ==
  ASSUME Sound, Agreed, Streamed, Open, NEW t \in Tasks, SendHeader(t)
  PROVE  Streamed'
<1>0. Shaped /\ piece \in [Tasks -> Pieces] /\ piece[t] \in Pieces
  BY Facts DEF Sound, TasksTyped
<1>1. PICK h \in Ids : h = piece[t].of
  BY <1>0, HeaderCases
<1>2. /\ at[t] = "header" /\ at[t] \in Sending /\ UNCHANGED <<msgs, msg>>
      /\ \/ /\ WriteHeader(h, piece[t].from, piece[t].n, piece[t].final)
            /\ piece' = [piece EXCEPT ![t] = [piece[t] EXCEPT !.wrote = piece[t].n]]
            /\ Goto(t, "data")
         \/ /\ Goto(t, "settle") /\ piece' = [piece EXCEPT ![t] = piece[t]] /\ UNCHANGED <<rx, received, broken>>
  <2>1. piece = [piece EXCEPT ![t] = piece[t]]
    BY <1>0
  <2>2. at[t] = "header" => at[t] \in Sending
    BY DEF Sending
  <2> QED
    BY <1>0, <1>1, <2>1, <2>2, HeaderCases DEF queues, messages, stream
<1>3. /\ Unwritten(t) /\ piece[t].wrote = 0 /\ piece[t].n > 0 /\ h # 0 /\ h = Head(msgs) /\ msgs # <<>>
      /\ piece[t].from # msg[h].len
  <2>1. Unwritten(t) /\ piece[t].wrote = 0
    BY <1>0, <1>1, <1>2, HeaderCases DEF Unwritten, Ids
  <2> QED
    BY <1>1, <2>1, FrameIs
<1>4. rx = IF piece[t].from = 0 THEN NoFrame
           ELSE [need |-> 0, final |-> FALSE, of |-> h, got |-> piece[t].from]
  BY <1>2, <1>3, HeadPlace DEF Place
<1>5. SentIsReceived' \/ received' # received
  BY <1>2 DEF Streamed, SentIsReceived, Finished
<1>6. CASE /\ WriteHeader(h, piece[t].from, piece[t].n, piece[t].final)
           /\ piece' = [piece EXCEPT ![t] = [piece[t] EXCEPT !.wrote = piece[t].n]]
           /\ Goto(t, "data")
  <2> DEFINE p == [piece[t] EXCEPT !.wrote = piece[t].n]
  <2>1. p.of = piece[t].of /\ p.from = piece[t].from /\ p.n = piece[t].n /\ p.final = piece[t].final
    BY <1>0 DEF Pieces
  <2>2. piece' = [piece EXCEPT ![t] = p] /\ "data" \in Writing
    BY <1>6 DEF Writing
  <2> HIDE DEF p
  <2>3. at'[t] = "data" /\ piece'[t] = p /\ \A u \in Tasks : u # t => at'[u] = at[u] /\ piece'[u] = piece[u]
    BY <1>0, <1>6, <2>2, Goes
  <2>4. rx.need = 0 /\ (rx.of = 0 <=> piece[t].from = 0) /\ rx.got = piece[t].from
    BY <1>3, <1>4, NoFrameIs
  <2>5. ~broken' /\ received' = received
        /\ rx' = [need |-> piece[t].n, final |-> piece[t].final, of |-> h,
                  got |-> IF piece[t].from = 0 THEN 0 ELSE rx.got]
    <3>1. /\ rx' = [need |-> piece[t].n, final |-> piece[t].final, of |-> h,
                    got |-> IF piece[t].from = 0 THEN 0 ELSE rx.got]
          /\ broken' = (broken \/ rx.need # 0 \/ (piece[t].from = 0) # (rx.of = 0)
                               \/ (piece[t].n = 0 /\ piece[t].final))
          /\ received' = received
      BY <1>3, <1>6 DEF WriteHeader
    <3>2. ~((piece[t].from = 0) # (rx.of = 0))
      BY <2>4
    <3>3. ~(piece[t].n = 0 /\ piece[t].final)
      <4>1. piece[t].n # 0
        BY <1>0, <1>3
      <4> QED
        BY <4>1
    <3>4. ~broken'
      <4>1. ~broken /\ ~(rx.need # 0)
        BY <2>4 DEF Streamed
      <4> QED
        BY <3>1, <3>2, <3>3, <4>1
    <3> QED
      BY <3>1, <3>4
  <2>6. rx' = [need |-> piece'[t].n, final |-> piece'[t].final, of |-> piece'[t].of, got |-> piece'[t].from]
    BY <1>1, <2>1, <2>3, <2>4, <2>5
  <2>7. SentIsReceived'
    BY <1>5, <2>5
  <2> QED
    BY <1>2, <1>3, <2>3, <2>5, <2>6, <2>7, HeadIsStreamed
<1>7. CASE Goto(t, "settle") /\ piece' = [piece EXCEPT ![t] = piece[t]] /\ UNCHANGED <<rx, received, broken>>
  <2>1. "settle" \in Writing
    BY DEF Writing
  <2>2. at'[t] = "settle" /\ piece'[t] = piece[t] /\ \A u \in Tasks : u # t => at'[u] = at[u] /\ piece'[u] = piece[u]
    BY <1>0, <1>7, <2>1, Goes
  <2>3. \A u \in Tasks : /\ at'[u] = "data" <=> at[u] = "data"
                         /\ Unwritten(u)' <=> Unwritten(u)
                         /\ piece'[u] = piece[u]
    BY <1>2, <1>3, <2>2 DEF Unwritten
  <2> QED
    BY <1>2, <1>5, <1>7, <2>3, QuietIsStreamed
<1> QED
  BY <1>2, <1>6, <1>7

LEMMA SendDataIsStreamed ==
  ASSUME Sound, Agreed, Streamed, Open, NEW t \in Tasks, SendData(t), "data" \notin failed'
  PROVE  Streamed'
<1>0. Shaped /\ piece \in [Tasks -> Pieces] /\ piece[t] \in Pieces
  BY Facts DEF Sound, TasksTyped
<1>1. /\ at[t] = "data" /\ at[t] \in Sending /\ UNCHANGED <<msgs, msg>> /\ piece' = [piece EXCEPT ![t] = piece[t]]
      /\ WriteData(piece[t].of, piece[t].from, piece[t].wrote) /\ Goto(t, "output")
  <2>1. piece = [piece EXCEPT ![t] = piece[t]]
    BY <1>0
  <2> QED
    BY <2>1 DEF SendData, Fails, Sending, queues, messages
<1>2. PICK h \in Ids : h = piece[t].of
  BY <1>1, FrameIs
<1>3. /\ h = Head(msgs) /\ msgs # <<>> /\ h # 0 /\ piece[t].wrote = piece[t].n /\ piece[t].n > 0 /\ piece[t].n \in Nat
      /\ piece[t].from \in Nat /\ msg[h].sent = piece[t].from + piece[t].n
      /\ piece[t].final = (msg[h].sent = msg[h].len)
  BY <1>1, <1>2, FrameIs
<1>4. rx = [need |-> piece[t].n, final |-> piece[t].final, of |-> h, got |-> piece[t].from]
  BY <1>1, <1>2, <1>3, HeadPlace
<1>5. "output" \in Writing
  BY DEF Writing
<1>6. at'[t] = "output" /\ piece'[t] = piece[t] /\ \A u \in Tasks : u # t => at'[u] = at[u] /\ piece'[u] = piece[u]
  BY <1>0, <1>1, <1>5, Goes
<1>7. /\ ~broken'
      /\ IF piece[t].final THEN rx' = NoFrame /\ received' = received \cup {h}
         ELSE rx' = [rx EXCEPT !.need = 0, !.got = @ + piece[t].n] /\ received' = received
  <2>1. rx.need = piece[t].n /\ rx.final = piece[t].final /\ rx.of = h /\ rx.got = piece[t].from
    BY <1>4
  <2> QED
    BY <1>1, <1>2, <1>3, <2>1 DEF WriteData, Streamed
<1>8. SentIsReceived'
  BY <1>1, <1>7 DEF Streamed, SentIsReceived, Finished
<1>9. ~Unwritten(t)'
  BY <1>6 DEF Unwritten
<1>10. rx' = Place(h, msg[h].sent)' /\ (msg'[h].sent = msg'[h].len => h \in received')
  <2>1. CASE piece[t].final
    BY <1>1, <1>3, <1>7, <2>1 DEF Place
  <2>2. CASE ~piece[t].final
    <3>1. rx' = [need |-> 0, final |-> FALSE, of |-> h, got |-> piece[t].from + piece[t].n]
      <4>1. piece[t].final = FALSE
        BY <1>0, <2>2 DEF Pieces
      <4> QED
        BY <1>4, <1>7, <2>2, <4>1
    <3>2. msg[h].sent # 0 /\ msg[h].sent # msg[h].len
      <4>1. msg[h].sent # 0
        BY <1>3
      <4>2. piece[t].final = (msg[h].sent = msg[h].len)
        BY <1>3
      <4>3. msg[h].sent # msg[h].len
        BY <2>2, <4>2
      <4> QED
        BY <4>1, <4>3
    <3> QED
      BY <1>1, <1>3, <3>1, <3>2 DEF Place
  <2> QED
    BY <2>1, <2>2
<1> QED
  BY <1>1, <1>3, <1>6, <1>7, <1>8, <1>9, <1>10, HeadIsStreamed

LEMMA OutputIsStreamed ==
  ASSUME Sound, Agreed, Streamed, Open, NEW t \in Tasks, Output(t) \/ Stamp(t), Good'
  PROVE  Streamed'
<1>0. Shaped /\ piece \in [Tasks -> Pieces] /\ Stage(t) /\ piece[t].n \in Nat
  BY Facts DEF Sound, TasksTyped
<1>1. /\ at[t] \in {"output", "stamp"} /\ UNCHANGED <<msgs, msg, piece, rx, received, broken>>
      /\ \E l \in {"stamp", "settle"} : Goto(t, l)
  BY DEF Output, Stamp, Fails, Good, queues, messages, stream, excuses
<1>2. piece' = [piece EXCEPT ![t] = piece[t]]
  BY <1>0, <1>1
<1>3. PICK l \in {"stamp", "settle"} : Goto(t, l)
  BY <1>1
<1>4. l \in Writing
  BY DEF Writing
<1>5. at'[t] = l /\ piece'[t] = piece[t] /\ \A u \in Tasks : u # t => at'[u] = at[u] /\ piece'[u] = piece[u]
  BY <1>0, <1>2, <1>3, <1>4, Goes
<1>6. ~Unwritten(t) /\ ~Unwritten(t)'
  <2>1. piece[t].of # 0 => piece[t].wrote = piece[t].n /\ piece[t].n > 0
    BY <1>0, <1>1 DEF Stage, Writing
  <2> QED
    BY <1>1, <1>5, <2>1 DEF Unwritten
<1>7. \A u \in Tasks : /\ at'[u] = "data" <=> at[u] = "data"
                       /\ Unwritten(u)' <=> Unwritten(u)
                       /\ piece'[u] = piece[u]
  BY <1>1, <1>5, <1>6 DEF Unwritten
<1>8. SentIsReceived'
  BY <1>1 DEF Streamed, SentIsReceived, Finished
<1> QED
  BY <1>1, <1>7, <1>8, QuietIsStreamed

LEMMA SettleIsStreamed ==
  ASSUME Sound, Agreed, Streamed, Open, NEW t \in Tasks, Settle(t)
  PROVE  Streamed'
<1>0. Shaped /\ Stage(t) /\ piece[t].n \in Nat /\ piece[t].from \in Nat
  BY Facts DEF Sound
<1>1. /\ at[t] = "settle" /\ at[t] \in Sending /\ Stops(t) /\ UNCHANGED <<msgs, rx, received, broken>>
      /\ (piece[t].of = 0 \/ obj[piece[t].of] = "deleted") => msg' = msg
      /\ ~(piece[t].of = 0 \/ obj[piece[t].of] = "deleted") => Settled(t, piece[t].of)
  <2>1. at[t] = "settle" => at[t] \in Sending
    BY DEF Sending
  <2> QED
    BY <1>0, <2>1, SettleCases DEF queues, stream
<1>2. /\ at'[t] \in {"idle", "unlock"} /\ piece'[t].of = 0
      /\ \A u \in Tasks : u # t => at'[u] = at[u] /\ piece'[u] = piece[u]
  BY <1>0, <1>1, StopsMoves
<1>3. ~Unwritten(t)' /\ at'[t] # "data" /\ at[t] # "data"
  BY <1>1, <1>2 DEF Unwritten
<1>4. ASSUME ~Unwritten(t), SentIsReceived',
             msgs # <<>> => msg'[Head(msgs)].sent = msg[Head(msgs)].sent /\ msg'[Head(msgs)].len = msg[Head(msgs)].len
      PROVE  Streamed'
  <2>1. \A u \in Tasks : /\ at'[u] = "data" <=> at[u] = "data"
                         /\ Unwritten(u)' <=> Unwritten(u)
                         /\ at[u] = "data" \/ Unwritten(u) => piece'[u] = piece[u]
    BY <1>2, <1>3, <1>4 DEF Unwritten
  <2> QED
    BY <1>1, <1>4, <2>1, QuietIsStreamed
<1>5. CASE piece[t].of = 0 \/ obj[piece[t].of] = "deleted"
  <2>1. ~Unwritten(t)
    BY <1>5, FramesAreOfHead DEF Unwritten
  <2>2. SentIsReceived'
    BY <1>1, <1>5 DEF Streamed, SentIsReceived, Finished
  <2> QED
    BY <1>1, <1>4, <1>5, <2>1, <2>2
<1>6. CASE ~(piece[t].of = 0 \/ obj[piece[t].of] = "deleted")
  <2>0. PICK h \in Ids : h = piece[t].of
    BY <1>1, <1>6 DEF Settled
  <2> DEFINE m == [msg[h] EXCEPT !.status = "sending", !.sent = piece[t].from + piece[t].wrote,
                                 !.ack = @ - (piece[t].n - piece[t].wrote)]
  <2>1. /\ piece[t].wrote \in {0, piece[t].n} /\ piece[t].n > 0 /\ msg'[h] = m
        /\ \A j \in Ids : j # h => msg'[j] = msg[j]
        /\ msg[h].sent = piece[t].from + piece[t].n
    BY <1>1, <1>6, <2>0 DEF Settled
  <2>2. h = Head(msgs) /\ msgs # <<>> /\ msg[h] \in Messages
    BY <1>0, <1>6, <2>0, Facts DEF Sound, Queued
  <2>3. m.status = "sending" /\ m.sent = piece[t].from + piece[t].wrote /\ m.len = msg[h].len
    BY <2>2 DEF Messages
  <2> HIDE DEF m
  <2>4. SentIsReceived'
    BY <1>1, <2>1, <2>3 DEF Streamed, SentIsReceived, Finished
  <2>5. CASE piece[t].wrote # 0
    <3>1. ~Unwritten(t)
      BY <1>1, <2>5 DEF Unwritten
    <3>2. msg'[h].sent = msg[h].sent /\ msg'[h].len = msg[h].len
      BY <2>1, <2>3, <2>5
    <3> QED
      BY <1>4, <2>2, <2>4, <3>1, <3>2
  <2>6. CASE piece[t].wrote = 0
    <3>1. Unwritten(t)
      BY <1>1, <1>6, <2>6 DEF Unwritten
    <3>2. rx = Place(h, piece[t].from) /\ piece[t].from # msg[h].len
      BY <1>1, <2>0, <2>2, <3>1, HeadPlace, FrameIs
    <3>3. msg'[h].sent = piece[t].from /\ msg'[h].len = msg[h].len
      BY <1>0, <2>1, <2>3, <2>6
    <3>4. rx' = Place(h, msg[h].sent)' /\ (msg'[h].sent = msg'[h].len => h \in received')
      BY <1>1, <3>2, <3>3 DEF Place
    <3>5. ~broken'
      BY <1>1 DEF Streamed
    <3> QED
      BY <1>1, <1>2, <1>3, <2>2, <2>4, <3>4, <3>5, HeadIsStreamed
  <2> QED
    BY <2>5, <2>6
<1> QED
  BY <1>5, <1>6

LEMMA ChooseIsStreamed ==
  ASSUME Sound, Sound', Agreed, Streamed, Open, NEW t \in Tasks, Choose(t)
  PROVE  Streamed'
<1>0. Shaped /\ Shaped' /\ StageAll
  BY DEF Sound, Shaped
<1>1. /\ at[t] = "choose" /\ msgs' = Unfinished /\ UNCHANGED <<msg, rx, received, broken>>
  BY DEF Choose, stream
<1>2. /\ \A u \in Tasks : u # t => piece'[u] = piece[u] /\ at'[u] = at[u]
      /\ piece[t].of = 0
  BY <1>0, ChooseMoves
<1>3. at'[t] \in {"control", "begin", "idle", "unlock"}
  <2>1. Goto(t, "control") \/ Goto(t, "begin") \/ Done(t)
    BY DEF Choose
  <2>2. "control" \in Labels /\ "begin" \in Labels
    BY DEF Labels, Sending
  <2> QED
    BY <1>0, <2>1, <2>2, Facts, Moved, DoneMoves
<1>4. /\ \A u \in Tasks : at'[u] = "data" <=> at[u] = "data"
      /\ \A u \in Tasks : Unwritten(u)' <=> Unwritten(u)
      /\ \A u \in Tasks : at[u] = "data" \/ Unwritten(u) => piece'[u] = piece[u]
  <2>1. ~Unwritten(t) /\ ~Unwritten(t)' /\ at[t] # "data" /\ at'[t] # "data"
    BY <1>1, <1>3 DEF Unwritten
  <2>2. \A u \in Tasks : u # t => (Unwritten(u)' <=> Unwritten(u))
    BY <1>2 DEF Unwritten
  <2> QED
    BY <1>2, <2>1, <2>2
<1>5. SentIsReceived'
  BY <1>1 DEF Streamed, SentIsReceived, Finished
<1>6. CASE msgs' = msgs
  <2>1. msgs # <<>> => msg'[Head(msgs)].sent = msg[Head(msgs)].sent /\ msg'[Head(msgs)].len = msg[Head(msgs)].len
    BY <1>1
  <2> QED
    BY <1>1, <1>4, <1>5, <1>6, <2>1, QuietIsStreamed
<1>7. CASE /\ msgs # <<>> /\ Finished(Head(msgs))
           /\ msgs' # <<>> => Fresh(Head(msgs'))
  <2>1. \A u \in Tasks : ~Unwritten(u) /\ at[u] # "data"
    <3> SUFFICES ASSUME NEW u \in Tasks, Unwritten(u) \/ at[u] = "data" PROVE FALSE
      OBVIOUS
    <3>1. piece[u].of # 0 /\ piece[u].n > 0 /\ piece[u].n \in Nat
      BY FrameIs
    <3>2. at[u] \in {"output", "stamp", "settle"} /\ piece[u].wrote = piece[u].n
      BY <1>7, <3>1, FinishedIsSettled
    <3>3. piece[u].wrote = 0
      BY <3>2 DEF Unwritten
    <3> QED
      BY <3>1, <3>2, <3>3
  <2>2. rx = NoFrame
    <3>1. PICK h \in Ids : h = Head(msgs)
      BY <1>0, <1>7, QueueFacts
    <3>2. rx = Place(h, msg[h].sent) /\ msg[h].sent = msg[h].len
      BY <1>7, <2>1, <3>1 DEF Streamed, HeadStreamed, Agreed, Whole
    <3> QED
      BY <3>2 DEF Place
  <2>3. ASSUME msgs' # <<>> PROVE msg'[Head(msgs')].sent = 0 /\ msg'[Head(msgs')].len # 0
    <3>1. msgs' \in Seq(1..made') /\ Made' /\ made' \in 0..MaxInputs
      BY <1>0 DEF Shaped, Typed, QueuesTyped, MessagesTyped
    <3>2. Head(msgs') \in 1..made' /\ Head(msgs') \in Ids
      <4>1. Len(msgs') \in Nat /\ 1 \in 1..Len(msgs') /\ Head(msgs') = msgs'[1]
        BY <2>3, <3>1, SeqFacts
      <4>2. msgs'[1] \in 1..made'
        BY <3>1, <4>1
      <4>3. MaxInputs \in Nat
        BY Bounds
      <4> QED
        BY <3>1, <4>1, <4>2, <4>3 DEF Ids
    <3>3. msg'[Head(msgs')].len \in Lengths
      BY <3>1, <3>2 DEF Made
    <3>4. \A n \in Lengths : n # 0
      BY ClientAssumption
    <3>5. PICK i \in Ids : i = Head(msgs')
      BY <3>2
    <3>6. msg[i].sent = 0
      BY <1>7, <2>3, <3>5 DEF Fresh
    <3> QED
      BY <1>1, <3>3, <3>4, <3>5, <3>6
  <2>4. \A u \in Tasks : ~Unwritten(u)' /\ at'[u] # "data"
    BY <1>4, <2>1
  <2> QED
    BY <1>1, <1>5, <2>2, <2>3, <2>4, StreamedBetween
<1> QED
  BY <1>6, <1>7, ChooseDeletes

LEMMA AckIsStreamed ==
  ASSUME Sound, Agreed, Agreed', Streamed, Ack
  PROVE  Streamed'
<1>0. Shaped /\ at["async_tcp"] = "idle"
  BY AckCases DEF Sound
<1>1. PICK n \in Nat : OnAck(n) /\ InFlight' = InFlight - n /\ n <= InFlight
  BY <1>0, AckCases
<1>2. /\ UNCHANGED <<msgs, piece>> /\ Owed' = Owed
      /\ \A u \in Tasks : (at'[u] \in Sending \/ at[u] \in Sending) => at'[u] = at[u]
  BY <1>0, <1>1, AckKeeps
<1>3. UNCHANGED <<rx, received, broken>>
  BY <1>0, <1>1, OnAckCases
<1>4. \A u \in Tasks : /\ at'[u] = "data" <=> at[u] = "data"
                       /\ Unwritten(u)' <=> Unwritten(u)
                       /\ piece'[u] = piece[u]
  <2>1. \A u \in Tasks, l \in {"header", "data", "settle"} : at'[u] = l <=> at[u] = l
    BY <1>2 DEF Sending
  <2> QED
    BY <1>2, <2>1 DEF Unwritten
<1>5. msg' = msg \/ (msgs # <<>> /\ msg' = Acknowledged(Head(msgs), Settling(n)))
  BY <1>0, <1>1, OnAckCases
<1>6. CASE msg' = msg
  <2>1. SentIsReceived'
    BY <1>3, <1>6 DEF Streamed, SentIsReceived, Finished
  <2> QED
    BY <1>2, <1>3, <1>4, <1>6, <2>1, QuietIsStreamed
<1>7. CASE msgs # <<>> /\ msg' = Acknowledged(Head(msgs), Settling(n))
  <2>1. PICK h \in Ids : h = Head(msgs)
    BY <1>0, <1>7, QueueFacts
  <2>2. Settling(n) \in Int
    <3>1. n \in Int /\ n - 2 \in Int
      OBVIOUS
    <3> QED
      BY <3>1, ModType DEF Settling
  <2>3. /\ \A j \in Ids : j # h => msg'[j] = msg[j]
        /\ msg'[h].sent = msg[h].sent /\ msg'[h].len = msg[h].len
    BY <1>0, <1>7, <2>1, <2>2, AcknowledgedType
  <2>4. ASSUME Finished(h)' PROVE h \in received
    <3>1. msg'[h].sent = msg'[h].len /\ Between(h)' /\ MsgBytes' + Owed' = Unacked(h)'
      BY <1>2, <1>7, <2>1, <2>4 DEF Agreed, Whole, Balanced
    <3>2. MsgBytes' \in Nat /\ Owed \in Nat /\ \A u \in Tasks : Due(u) \in Nat /\ Owed >= Due(u)
      <4>1. InFlight \in Nat /\ Owed \in Nat /\ \A u \in Tasks : Due(u) \in Nat /\ Owed >= Due(u)
        BY <1>0, CountFacts
      <4>2. InFlight' \in Nat
        BY <1>1, <4>1
      <4> QED
        BY <4>1, <4>2 DEF MsgBytes
    <3>3. Unacked(h)' = 0
      <4>1. msg'[h].acked = msg'[h].ack /\ msg[h].ack \in Int /\ msg'[h].ack = msg[h].ack
        BY <1>0, <1>7, <2>1, <2>2, <3>1, AcknowledgedType, CountFacts DEF Between
      <4> QED
        BY <4>1 DEF Unacked
    <3>4. \A u \in Tasks : Due(u) = 0
      <4>1. MsgBytes' + Owed = 0
        BY <1>2, <3>1, <3>3
      <4>2. PICK b \in Nat : b = MsgBytes'
        BY <3>2
      <4>3. PICK o \in Nat : o = Owed
        BY <3>2
      <4>4. b + o = 0
        BY <4>1, <4>2, <4>3
      <4>5. o = 0
        BY <4>4
      <4> QED
        BY <3>2, <4>3, <4>5
    <3>5. \A u \in Tasks : ~Unwritten(u) /\ at[u] # "data"
      <4> SUFFICES ASSUME NEW u \in Tasks, Unwritten(u) \/ at[u] = "data" PROVE FALSE
        OBVIOUS
      <4>1. /\ piece[u].of # 0 /\ piece[u].n > 0 /\ piece[u].n \in Nat
        BY FrameIs
      <4>2. at[u] = "header" \/ at[u] = "data" \/ (at[u] = "settle" /\ piece[u].wrote = 0)
        BY DEF Unwritten
      <4>3. Due(u) \in {piece[u].n + 2, piece[u].n, piece[u].n - 0}
        BY <4>1, <4>2 DEF Due
      <4> QED
        BY <3>4, <4>1, <4>3
    <3>6. msg[h].sent = msg[h].len => h \in received
      BY <1>7, <2>1, <3>5 DEF Streamed, HeadStreamed
    <3> QED
      BY <2>3, <3>1, <3>6
  <2>5. SentIsReceived'
    <3> SUFFICES ASSUME NEW i \in Ids, Finished(i)' PROVE i \in received
      BY <1>3 DEF SentIsReceived
    <3>1. CASE i = h
      BY <2>4, <3>1
    <3>2. CASE i # h
      BY <2>3, <3>2 DEF Streamed, SentIsReceived, Finished
    <3> QED
      BY <3>1, <3>2
  <2>6. msgs # <<>> => msg'[Head(msgs)].sent = msg[Head(msgs)].sent /\ msg'[Head(msgs)].len = msg[Head(msgs)].len
    BY <2>1, <2>3
  <2> QED
    BY <1>2, <1>3, <1>4, <2>5, <2>6, QuietIsStreamed
<1> QED
  BY <1>5, <1>6, <1>7

LEMMA NextIsStreamed ==
  ASSUME Sound, Agreed, Agreed', Streamed, Next, Calm'
  PROVE  Streamed'
<1>0. Sound' /\ Open /\ Good' /\ "data" \notin failed' /\ "loop" \in Tasks
  BY NextIsOpen, NextIsSound, EventLabels DEF Calm
<1>1. ASSUME NEW t \in Tasks, Step(t) PROVE Streamed'
  <2>1. CASE Choose(t)
    BY <1>0, <2>1, ChooseIsStreamed
  <2>2. CASE SendControl(t) \/ Begin(t) \/ Settle(t)
    BY <1>0, <2>2, SendControlIsStreamed, BeginIsStreamed, SettleIsStreamed
  <2>3. CASE SendHeader(t) \/ SendData(t)
    BY <1>0, <2>3, SendHeaderIsStreamed, SendDataIsStreamed
  <2>4. CASE Output(t) \/ Stamp(t)
    BY <1>0, <2>4, OutputIsStreamed
  <2>5. CASE LockBuffer(t) \/ QueueBuffer(t) \/ UnlockBuffer(t)
    BY <1>0, <2>5, RestIsStreamed
  <2> QED
    BY <1>1, <2>1, <2>2, <2>3, <2>4, <2>5 DEF Step, Send
<1>2. ASSUME NEW t \in Tasks, NEW len \in Lengths, MakeBuffer(t, len) PROVE Streamed'
  BY <1>0, <1>2, RestIsStreamed
<1>3. CASE Callback
  <2>1. ASSUME NEW len \in Lengths, Text(len) PROVE Streamed'
    BY <1>0, <2>1, RestIsStreamed
  <2>2. CASE Ack
    BY <2>2, AckIsStreamed
  <2>3. CASE Poll \/ PollTimer \/ ReceivePing \/ ReceiveClose
    BY <1>0, <2>3, RestIsStreamed
  <2> QED
    BY <1>3, <2>1, <2>2, <2>3 DEF Callback
<1>4. CASE Seconds
  BY <1>0, <1>4, RestIsStreamed
<1> QED
  BY <1>1, <1>2, <1>3, <1>4 DEF Next

StreamInv == CountsInv /\ Streaming

LEMMA StreamInductive == StreamInv /\ [Next]_vars => StreamInv'
<1> SUFFICES ASSUME StreamInv, [Next]_vars PROVE StreamInv'
  OBVIOUS
<1>0. CountsInv /\ CountsInv' /\ Sound /\ Streaming
  BY CountsInductive DEF StreamInv, CountsInv
<1>1. CASE UNCHANGED vars
  <2>1. UNCHANGED <<msgs, msg, at, piece, rx, received, broken, failed, resent, crossed>>
    BY <1>1 DEF vars, queues, messages, stream, excuses
  <2>2. Calm' => Calm /\ Streamed /\ Agreed
    BY <1>0, <2>1 DEF Calm, Good, Streaming, CountsInv, Counted
  <2>3. ASSUME Streamed, Agreed PROVE Streamed'
    <3>1. SentIsReceived'
      BY <2>1, <2>3 DEF Streamed, SentIsReceived, Finished
    <3>2. \A u \in Tasks : Unwritten(u)' <=> Unwritten(u)
      BY <2>1 DEF Unwritten
    <3> QED
      BY <1>0, <2>1, <2>3, <3>1, <3>2, QuietIsStreamed
  <2> QED
    BY <1>0, <2>2, <2>3 DEF StreamInv, Streaming
<1>2. CASE Next /\ Calm'
  <2>1. Good' /\ ~crossed' /\ "data" \notin failed'
    BY <1>2 DEF Calm
  <2>2. Calm
    BY <1>2, <2>1, NextIsOpen, NextRemembers DEF Open, Calm
  <2>3. Agreed /\ Agreed' /\ Streamed
    BY <1>0, <2>1, <2>2 DEF Calm, CountsInv, Counted, Streaming
  <2>4. Streamed'
    BY <1>0, <1>2, <2>3, NextIsStreamed
  <2> QED
    BY <1>0, <2>4 DEF StreamInv, Streaming
<1>3. CASE ~Calm'
  BY <1>0, <1>3 DEF StreamInv, Streaming
<1> QED
  BY <1>1, <1>2, <1>3

(* The page receives whole messages, frame after frame and in the order of    *)
(* their bytes, and what the library counts as sent, the page has had: across *)
(* any windows, acknowledgements of parts, pings and failed headers, unless   *)
(* two tasks send at once, a control frame is sent twice or a write fails     *)
(* within a frame.                                                            *)
THEOREM StreamAlwaysWhole == Spec => []StreamIsWhole
<1>1. Init => StreamInv
  <2> SUFFICES ASSUME Init PROVE StreamInv
    OBVIOUS
  <2>1. Sound /\ Agreed
    BY InitIsSound, InitIsAgreed
  <2>2. msgs = <<>> /\ rx = NoFrame /\ ~broken /\ msg = [i \in Ids |-> NoMessage]
    BY DEF Init
  <2>3. Streamed
    <3>1. NoMessage.status = "sending"
      BY DEF NoMessage
    <3>2. SentIsReceived
      BY <2>2, <3>1 DEF SentIsReceived, Finished
    <3> QED
      BY <2>2, <3>2 DEF Streamed
  <2> QED
    BY <2>1, <2>3, WrittenIsExcused DEF StreamInv, Streaming, CountsInv, Counted, Agreed
<1>2. Spec => []StreamInv
  BY <1>1, StreamInductive, PTL DEF Spec
<1>3. StreamInv => StreamIsWhole
  <2> SUFFICES ASSUME StreamInv, ~(crossed \/ resent \/ failed \cap {"data", "output"} # {})
               PROVE  ~broken /\ \A i \in Ids : msg[i].status = "sent" => i \in received
    BY DEF StreamIsWhole
  <2>1. Calm
    BY DEF Calm, Good
  <2>2. Streamed
    BY <2>1 DEF StreamInv, Streaming
  <2>3. \A i \in Ids : msg[i].status = "sent" => Finished(i)
    BY DEF Finished
  <2> QED
    BY <2>2, <2>3 DEF Streamed, SentIsReceived
<1> QED
  BY <1>2, <1>3, PTL

----------------------------------------------------------------------------
(* The timer *)

\* A task that has called tcp_output finds bytes in flight, unless they were acknowledged meanwhile.
TimerRuns ==
  /\ \A t \in Tasks : at[t] = "output" => flight # <<>> \/ late
  /\ busy => flight # <<>> \/ late
  /\ busy /\ stamp = "old" => slow \/ late \/ \E t \in Tasks : at[t] = "stamp"

LEMMA WritingKeepsTimer ==
  ASSUME Shaped, TimerRuns, NEW t \in Tasks, at[t] # "stamp", UNCHANGED <<busy, stamp, slow, late>>,
         NEW l, Goto(t, l), (flight' = flight /\ l # "output") \/ flight' # <<>>
  PROVE  TimerRuns'
<1>1. at \in [Tasks -> Labels]
  BY Facts DEF TasksTyped
<1>2. at'[t] = l /\ \A u \in Tasks : u # t => at'[u] = at[u]
  BY <1>1 DEF Goto
<1>3. \A u \in Tasks : at[u] = "stamp" => at'[u] = "stamp"
  BY <1>2
<1>4. \A u \in Tasks : at'[u] = "output" => flight' # <<>> \/ late'
  BY <1>2 DEF TimerRuns
<1> QED
  BY <1>3, <1>4 DEF TimerRuns

LEMMA Written ==
  ASSUME Shaped, NEW e, flight' = Append(flight, e)
  PROVE  flight' # <<>>
<1>1. flight \in Seq(Segments)
  BY DEF Shaped, InOrder
<1> QED
  BY <1>1

LEMMA SendKeepsTimer ==
  ASSUME Shaped, TimerRuns, NEW t \in Tasks, Send(t)
  PROVE  TimerRuns'
<1>0. at \in [Tasks -> Labels]
  BY Facts DEF TasksTyped
<1> DEFINE same == UNCHANGED <<busy, stamp, slow, late>>
<1>1. CASE Choose(t)
  <2>1. at[t] # "stamp" /\ same /\ flight' = flight /\ \E l : l # "output" /\ Goto(t, l)
    BY <1>1 DEF Choose, Done, timer, stream
  <2> QED
    BY <2>1, WritingKeepsTimer
<1>2. CASE SendControl(t)
  <2>1. at[t] # "stamp" /\ same
    BY <1>2 DEF SendControl, timer
  <2>2. CASE flight' = flight /\ Done(t)
    BY <2>1, <2>2, WritingKeepsTimer DEF Done
  <2>3. CASE WriteHeader(0, 0, 0, TRUE) /\ Goto(t, "output")
    BY <2>1, <2>3, Written, WritingKeepsTimer DEF WriteHeader
  <2> QED
    BY <1>2, <2>2, <2>3 DEF SendControl, stream
<1>3. CASE Begin(t) \/ Settle(t)
  <2>1. at[t] # "stamp" /\ same /\ flight' = flight /\ \E l : l # "output" /\ Goto(t, l)
    BY <1>3 DEF Begin, Settle, Done, timer, stream, excuses
  <2> QED
    BY <2>1, WritingKeepsTimer
<1>4. CASE SendHeader(t)
  <2>1. at[t] # "stamp" /\ same
    BY <1>4 DEF SendHeader, timer
  <2>2. \/ flight' = flight /\ Goto(t, "settle")
        \/ \E e, l : flight' = Append(flight, e) /\ Goto(t, l)
    BY <1>4 DEF SendHeader, WriteHeader, stream
  <2> QED
    BY <2>1, <2>2, Written, WritingKeepsTimer
<1>5. CASE SendData(t)
  <2>1. at[t] # "stamp" /\ same
    BY <1>5 DEF SendData, timer
  <2>2. \/ flight' = flight /\ Goto(t, "settle")
        \/ \E e, l : flight' = Append(flight, e) /\ Goto(t, l)
    BY <1>5 DEF SendData, WriteData, stream
  <2> QED
    BY <2>1, <2>2, Written, WritingKeepsTimer
<1>6. CASE Output(t)
  <2>1. at[t] = "output" /\ UNCHANGED <<stamp, slow, late, flight>>
    BY <1>6 DEF Output, stream
  <2>2. CASE busy' = busy /\ Goto(t, "settle")
    BY <2>1, <2>2, WritingKeepsTimer
  <2>3. CASE busy' = TRUE /\ Goto(t, "stamp")
    <3>1. at'[t] = "stamp" /\ \A u \in Tasks : u # t => at'[u] = at[u]
      BY <1>0, <2>3 DEF Goto
    <3> QED
      BY <2>1, <3>1 DEF TimerRuns
  <2> QED
    BY <1>6, <2>2, <2>3 DEF Output
<1>7. CASE Stamp(t)
  <2>1. stamp' = "new" /\ UNCHANGED <<busy, slow, late, flight>> /\ Goto(t, "settle")
    BY <1>7 DEF Stamp, stream, excuses
  <2>2. at'[t] = "settle" /\ \A u \in Tasks : u # t => at'[u] = at[u]
    BY <1>0, <2>1 DEF Goto
  <2> QED
    BY <2>1, <2>2 DEF TimerRuns
<1> QED
  BY <1>1, <1>2, <1>3, <1>4, <1>5, <1>6, <1>7 DEF Send

LEMMA RestKeepsTimer ==
  ASSUME Shaped, TimerRuns, NEW t \in Tasks, NEW len,
         \/ LockBuffer(t) \/ QueueBuffer(t) \/ UnlockBuffer(t) \/ MakeBuffer(t, len) \/ Text(len)
         \/ Poll \/ PollTimer \/ ReceivePing \/ ReceiveClose \/ Seconds \/ Ack
  PROVE  TimerRuns'
<1>0. at \in [Tasks -> Labels] /\ "async_tcp" \in Tasks /\ "loop" \in Tasks
  BY Facts, EventLabels DEF TasksTyped
<1> DEFINE same == UNCHANGED <<busy, stamp, slow, late, flight>>
<1>1. CASE LockBuffer(t) \/ QueueBuffer(t) \/ UnlockBuffer(t) \/ MakeBuffer(t, len)
  <2>1. at[t] # "stamp" /\ same /\ \E l : l # "output" /\ Goto(t, l)
    BY <1>1 DEF LockBuffer, QueueBuffer, UnlockBuffer, MakeBuffer, Idle, Enqueue, Done, timer, stream, excuses
  <2> QED
    BY <2>1, WritingKeepsTimer
<1>2. CASE Text(len) \/ Poll \/ ReceivePing \/ ReceiveClose
  <2>1. at["async_tcp"] = "idle" /\ same /\ \E l : l # "output" /\ Goto("async_tcp", l)
    BY <1>2 DEF Text, Poll, ReceivePing, ReceiveClose, QueueControl, Idle, Enqueue, Done, timer, stream, excuses
  <2> QED
    BY <1>0, <2>1, WritingKeepsTimer
<1>3. ASSUME NEW l, l # "output", Goto("async_tcp", l), at["async_tcp"] # "stamp", busy' = FALSE,
             at["loop"] = "output" => flight' # <<>> \/ late'
      PROVE  TimerRuns'
  <2>1. at'["async_tcp"] = l /\ at'["loop"] = at["loop"] /\ Tasks = {"loop", "async_tcp"}
    BY <1>0, <1>3 DEF Goto, Tasks
  <2> QED
    BY <1>3, <2>1 DEF TimerRuns
<1>4. CASE PollTimer
  <2>1. at["async_tcp"] = "poll" /\ UNCHANGED <<stamp, slow, late, flight>>
    BY <1>4 DEF PollTimer, stream, excuses
  <2>2. CASE busy' = busy /\ \E l \in {"choose", "idle"} : Goto("async_tcp", l)
    BY <1>0, <2>1, <2>2, WritingKeepsTimer
  <2>3. CASE busy' = FALSE /\ Goto("async_tcp", "idle")
    <3>1. at["loop"] = "output" => flight' # <<>> \/ late'
      BY <1>0, <2>1 DEF TimerRuns
    <3> QED
      BY <1>3, <2>1, <2>3, <3>1
  <2> QED
    BY <1>4, <2>2, <2>3 DEF PollTimer, Close
<1>5. CASE Ack
  <2>1. at["async_tcp"] = "idle" /\ \E n : OnAck(n)
    BY <1>5 DEF Ack, Idle
  <2>2. /\ busy' = FALSE /\ late' = (at["loop"] = "output" /\ flight' = <<>>)
        /\ Goto("async_tcp", "idle") \/ Goto("async_tcp", "choose")
    BY <2>1 DEF OnAck, Close
  <2> QED
    BY <1>3, <2>1, <2>2
<1>6. CASE Seconds
  <2>1. /\ \A u \in Tasks : at[u] = "idle"
        /\ UNCHANGED <<at, busy, late, flight>> /\ slow' = (slow \/ flight # <<>>)
    BY <1>6 DEF Seconds, Idle, stream
  <2> QED
    BY <2>1 DEF TimerRuns
<1> QED
  BY <1>1, <1>2, <1>4, <1>5, <1>6

LEMMA TimerInductive == Shaped /\ TimerRuns /\ [Next]_vars => TimerRuns'
<1> SUFFICES ASSUME Shaped, TimerRuns, [Next]_vars PROVE TimerRuns'
  OBVIOUS
<1>0. "loop" \in Tasks
  BY EventLabels
<1>1. CASE UNCHANGED vars
  BY <1>1 DEF TimerRuns, vars, timer, stream, excuses
<1>2. CASE Next
  <2>1. ASSUME NEW t \in Tasks, Step(t) PROVE TimerRuns'
    BY <2>1, SendKeepsTimer, RestKeepsTimer DEF Step
  <2>2. ASSUME NEW t \in Tasks, NEW len \in Lengths, MakeBuffer(t, len) PROVE TimerRuns'
    BY <2>2, RestKeepsTimer
  <2>3. CASE Callback
    BY <1>0, <2>3, RestKeepsTimer DEF Callback
  <2>4. CASE Seconds
    BY <1>0, <2>4, RestKeepsTimer
  <2> QED
    BY <1>2, <2>1, <2>2, <2>3, <2>4 DEF Next
<1> QED
  BY <1>1, <1>2

\* Nothing but the timer closes a connection while a poll is under way.
LEMMA PollCloses ==
  ASSUME Shaped, Next, at["async_tcp"] = "poll", status' = "disconnected"
  PROVE  PollTimer /\ busy /\ (stamp = "old" \/ ahead)
<1>0. Open
  BY NextIsOpen
<1>1. ASSUME NEW t \in Tasks, Step(t) \/ \E len \in Lengths : MakeBuffer(t, len) PROVE status' = status
  BY <1>1 DEF Step, Send, Choose, SendControl, Begin, SendHeader, SendData, Output, Stamp, Settle,
              LockBuffer, QueueBuffer, UnlockBuffer, MakeBuffer, queues
<1>2. Callback => PollTimer
  BY DEF Callback, Text, Ack, Poll, ReceivePing, ReceiveClose, QueueControl, Idle
<1>3. Seconds => status' = status
  BY DEF Seconds, queues
<1>4. status # "disconnected"
  BY <1>0 DEF Open
<1>5. PollTimer
  BY <1>1, <1>2, <1>3, <1>4 DEF Next
<1> QED
  BY <1>4, <1>5 DEF PollTimer

(* The timer of AsyncClient closes only connections on which five seconds     *)
(* went by with bytes unacknowledged, but for the window between tcp_output   *)
(* and the stamp, and a clock read before the stamp: one acknowledgement or   *)
(* one new write in time is enough for the connection to stay.                *)
THEOREM TimedOutWereSlow == Spec => TimedOutIsSlow
<1>1. Init => Sound /\ TimerRuns
  <2>1. Init => TimerRuns
    BY DEF Init, TimerRuns
  <2> QED
    BY <2>1, InitIsSound
<1>2. Sound /\ TimerRuns /\ [Next]_vars => Sound' /\ TimerRuns'
  BY NextIsSound, TimerInductive DEF Sound
<1>3. Sound /\ TimerRuns /\ [Next]_vars
        => [at["async_tcp"] = "poll" /\ status' = "disconnected"
              => slow \/ late \/ ahead \/ at["loop"] = "stamp"]_vars
  <2> SUFFICES ASSUME Sound, TimerRuns, Next, at["async_tcp"] = "poll", status' = "disconnected",
                      ~slow, ~late, ~ahead
               PROVE  at["loop"] = "stamp"
    OBVIOUS
  <2>1. busy /\ stamp = "old"
    BY PollCloses DEF Sound
  <2>2. PICK t \in Tasks : at[t] = "stamp"
    BY <2>1 DEF TimerRuns
  <2>3. t = "loop"
    BY <2>2 DEF Tasks
  <2> QED
    BY <2>2, <2>3
<1> QED
  BY <1>1, <1>2, <1>3, PTL DEF Spec, TimedOutIsSlow
=============================================================================
