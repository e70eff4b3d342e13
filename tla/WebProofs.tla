------------------------------ MODULE WebProofs ------------------------------
(***************************************************************************)
(* For every number of pages, settings, messages, losses and places in the *)
(* queues: the types of the link and of the form on top of it, that no     *)
(* message takes effect a third time, that the last settings of a page     *)
(* stand once all is quiet, and that the form's marks tell the truth.  The *)
(* actions of the link serve both specifications, so that what they keep   *)
(* is stated for whatever a broadcast reports.                             *)
(***************************************************************************)
EXTENDS WebForm, SequenceTheorems, TLAPS

----------------------------------------------------------------------------
(* Queues *)

Downs(Reports, n) == [pong : 1..n] \cup [state : Reports]

LEMMA TwoMoreType ==
  ASSUME NEW S, NEW q \in Seq(S), NEW a \in S, NEW b \in S
  PROVE  /\ q \o <<a, b>> \in Seq(S) /\ Len(q) \in Nat
         /\ DOMAIN q = 1..Len(q) /\ DOMAIN (q \o <<a, b>>) = 1..Len(q) + 2
         /\ \A k \in 1..Len(q) : (q \o <<a, b>>)[k] = q[k]
         /\ (q \o <<a, b>>)[Len(q) + 1] = a /\ (q \o <<a, b>>)[Len(q) + 2] = b
OBVIOUS

LEMMA TwoMoreAppended ==
  ASSUME NEW S, NEW q \in Seq(S), NEW a, NEW b
  PROVE  q \o <<a, b>> = Append(Append(q, a), b)
OBVIOUS

LEMMA QueuedType ==
  ASSUME NEW S, NEW q \in Seq(S), NEW m \in S, Len(q) <= MaxQueued
  PROVE  Queued(q, m) \in Seq(S) /\ Len(Queued(q, m)) <= MaxQueued
BY LinkAssumption DEF Queued

\* A broadcast to connections that pages have open.
LEMMA BroadcastType ==
  ASSUME NEW Reports, LinkTypeOK(Reports), NEW report \in Reports,
         NEW dest, \A c \in Clients : dest[c] => open[c],
         Broadcast(dest, report)
  PROVE  /\ down' \in [Clients -> Seq(Downs(Reports, msg_seq))]
         /\ \A c \in Clients : Len(down'[c]) <= MaxQueued /\ (~open[c] => down'[c] = <<>>)
<1>1. [state |-> report] \in Downs(Reports, msg_seq)
  BY DEF Downs
<1>2. ASSUME NEW c \in Clients
      PROVE  /\ down'[c] \in Seq(Downs(Reports, msg_seq)) /\ Len(down'[c]) <= MaxQueued
             /\ ~open[c] => down'[c] = <<>>
  <2>1. down[c] \in Seq(Downs(Reports, msg_seq)) /\ Len(down[c]) <= MaxQueued
        /\ (~open[c] => down[c] = <<>>)
    BY DEF LinkTypeOK, Downs
  <2>2. CASE dest[c]
    <3>1. down'[c] = Queued(down[c], [state |-> report]) /\ open[c]
      BY <2>2 DEF Broadcast
    <3> QED
      BY <1>1, <2>1, <3>1, QueuedType
  <2>3. CASE ~dest[c]
    BY <2>1, <2>3 DEF Broadcast
  <2> QED
    BY <2>2, <2>3
<1>3. down' = [c \in Clients |-> down'[c]]
  BY DEF Broadcast
<1> QED
  BY <1>2, <1>3

\* What a page sends; none of it announces a connection.
Says(type, data) == \/ type = "set_settings" /\ data \in Settings
                    \/ type \in {"get_state", "ping"} /\ data = NoData

Sendable == {m \in Message : Says(m.type, m.data) /\ m.id # 0}

\* The announcement, and what is left of it when the connection is lost.
Joining == [type : {"connect", "get_state"}, id : {0}, data : {NoData}]

\* What a page takes a number for.
LEMMA NumberType ==
  ASSUME NEW Reports, LinkTypeOK(Reports), MaySend, NEW c \in Clients, Number(c),
         NEW type, NEW data, Says(type, data)
  PROVE  /\ seq' \in [Clients -> 1..sends' + 1] /\ sends' \in 0..MaxSends
         /\ [type |-> type, id |-> seq[c], data |-> data] \in Sendable
<1>1. seq \in [Clients -> 1..sends + 1] /\ sends \in 0..MaxSends /\ sends + 1 <= MaxSends
      /\ sends' = sends + 1 /\ seq' = [seq EXCEPT ![c] = @ + 1] /\ MaxSends \in Nat
  BY LinkAssumption DEF LinkTypeOK, MaySend, Number
<1>2. seq[c] \in 1..MaxSends
  BY <1>1
<1> QED
  BY <1>1, <1>2 DEF Sendable, Message, Says

LEMMA SendableType == Sendable \subseteq Message
BY DEF Sendable

\* What the settings handler is given is settings.
LEMMA SettingsSent ==
  ASSUME NEW m \in Sendable \cup Joining, IsSetting(m)
  PROVE  m.data \in Settings /\ m.id \in Numbers
BY LinkAssumption DEF Sendable, Joining, IsSetting, Message, Says, Numbers

----------------------------------------------------------------------------
(* Types *)

LEMMA LinkInitType ==
  ASSUME NEW Reports, NEW init, LinkInit(init)
  PROVE  LinkTypeOK(Reports)
<1>1. \A S : <<>> \in Seq(S)
  OBVIOUS
<1>2. /\ up \in [Clients -> Seq(Message)] /\ timers \in [Clients -> Seq(Message)] /\ snap \in Seq(Reports)
      /\ down \in [Clients -> Seq([pong : 1..msg_seq] \cup [state : Reports])]
      /\ \A c \in Clients : Len(down[c]) <= MaxQueued
  BY <1>1, LinkAssumption DEF LinkInit
<1>3. \A c \in Clients : ~joined[c] /\ down[c] = <<>>
  BY DEF LinkInit
<1>4. open \in [Clients -> BOOLEAN] /\ joined \in [Clients -> BOOLEAN] /\ disturbed \in BOOLEAN
  BY DEF LinkInit
<1>6. /\ sends \in 0..MaxSends /\ msg_seq \in Nat \ {0} /\ seq \in [Clients -> 1..sends + 1]
  BY LinkAssumption DEF LinkInit
<1>5. handled \in [Clients -> [Numbers -> Nat]]
  BY DEF LinkInit
<1> QED
  BY <1>2, <1>3, <1>4, <1>5, <1>6 DEF LinkTypeOK

LEMMA SendType ==
  ASSUME NEW Reports, LinkTypeOK(Reports), NEW c \in Clients,
         NEW type, NEW data, Says(type, data),
         Send(c, type, data)
  PROVE  LinkTypeOK(Reports)'
<1>1. CASE open[c]
  <2> DEFINE m == [type |-> type, id |-> seq[c], data |-> data]
  <2>1. /\ up' = [up EXCEPT ![c] = Append(@, m)] /\ timers' = [timers EXCEPT ![c] = Append(@, m)]
        /\ MaySend /\ Number(c)
        /\ UNCHANGED <<open, down, deviceVars, handled, disturbed>>
    BY <1>1 DEF Send
  <2>2. m \in Message /\ seq' \in [Clients -> 1..sends' + 1] /\ sends' \in 0..MaxSends
    BY <2>1, NumberType, SendableType
  <2>3. up' \in [Clients -> Seq(Message)] /\ timers' \in [Clients -> Seq(Message)]
    BY <2>1, <2>2 DEF LinkTypeOK
  <2> QED
    BY <2>1, <2>2, <2>3 DEF LinkTypeOK, deviceVars
<1>2. CASE ~open[c]
  BY <1>2 DEF Send, LinkTypeOK, deviceVars
<1> QED
  BY <1>1, <1>2

LEMMA TimerType ==
  ASSUME NEW Reports, LinkTypeOK(Reports), NEW c \in Clients, TimerEnds(c)
  PROVE  LinkTypeOK(Reports)'
<1>1. timers[c] \in Seq(Message) /\ timers[c] # <<>> /\ up[c] \in Seq(Message)
  BY DEF LinkTypeOK, TimerEnds
<1>2. Head(timers[c]) \in Message /\ Tail(timers[c]) \in Seq(Message)
  BY <1>1, HeadTailProperties
<1>3. up' \in [Clients -> Seq(Message)] /\ timers' \in [Clients -> Seq(Message)]
  BY <1>1, <1>2 DEF LinkTypeOK, TimerEnds
<1> QED
  BY <1>3 DEF LinkTypeOK, TimerEnds, deviceVars, history

LEMMA ConnectType ==
  ASSUME NEW Reports, LinkTypeOK(Reports), NEW c \in Clients, Connect(c)
  PROVE  LinkTypeOK(Reports)'
<1> DEFINE get == [type |-> "get_state", id |-> seq[c], data |-> NoData]
           new == [type |-> "connect", id |-> 0, data |-> NoData]
<1>1. /\ up' = [up EXCEPT ![c] = @ \o <<new, get>>] /\ timers' = [timers EXCEPT ![c] = Append(@, get)]
      /\ open' = [open EXCEPT ![c] = TRUE] /\ MaySend /\ Number(c) /\ ~open[c]
      /\ UNCHANGED <<down, deviceVars, handled, disturbed>>
  BY DEF Connect, history
<1>2. get \in Message /\ seq' \in [Clients -> 1..sends' + 1] /\ sends' \in 0..MaxSends
  <2>1. Says("get_state", NoData)
    BY DEF Says
  <2> QED
    BY <1>1, <2>1, NumberType, SendableType
<1>3. new \in Message
  BY LinkAssumption DEF Message
<1>4. up' \in [Clients -> Seq(Message)] /\ timers' \in [Clients -> Seq(Message)]
  BY SMTT(20), <1>1, <1>2, <1>3 DEF LinkTypeOK
<1>5. open' \in [Clients -> BOOLEAN] /\ \A d \in Clients : open[d] => open'[d]
  BY <1>1 DEF LinkTypeOK
<1> QED
  BY <1>1, <1>2, <1>4, <1>5 DEF LinkTypeOK, deviceVars

LEMMA DropType ==
  ASSUME NEW Reports, LinkTypeOK(Reports), NEW c \in Clients, Drop(c)
  PROVE  LinkTypeOK(Reports)'
<1>1. PICK n \in 0..Len(up[c]) : up' = [up EXCEPT ![c] = [i \in 1..n |-> Stale(up[c][i])]]
  BY DEF Drop
<1>2. up[c] \in Seq(Message)
  BY DEF LinkTypeOK
<1>3. \A m \in Message : Stale(m) \in Message
  BY DEF Message, Stale
<1>4. [i \in 1..n |-> Stale(up[c][i])] \in Seq(Message)
  BY <1>2, <1>3
<1>5. up' \in [Clients -> Seq(Message)]
  BY <1>1, <1>4 DEF LinkTypeOK
<1>6. /\ open' = [open EXCEPT ![c] = FALSE] /\ joined' = [joined EXCEPT ![c] = FALSE]
      /\ down' = [down EXCEPT ![c] = <<>>]
      /\ UNCHANGED <<seq, sends, timers, msg_seq, snap, handled>>
  BY DEF Drop
<1>7. disturbed' \in BOOLEAN
  BY DEF Drop
<1>8. open' \in [Clients -> BOOLEAN] /\ joined' \in [Clients -> BOOLEAN]
      /\ \A d \in Clients : joined'[d] => open'[d]
  BY <1>6 DEF LinkTypeOK
<1>9. /\ down' \in [Clients -> Seq([pong : 1..msg_seq] \cup [state : Reports])]
      /\ \A d \in Clients : Len(down'[d]) <= MaxQueued /\ (~open'[d] => down'[d] = <<>>)
  BY <1>6, LinkAssumption DEF LinkTypeOK
<1> QED
  BY <1>5, <1>6, <1>7, <1>8, <1>9 DEF LinkTypeOK

\* What is received is taken off.
LEMMA DownType ==
  ASSUME NEW Reports, LinkTypeOK(Reports), NEW c \in Clients, down[c] # <<>>,
         down' = [down EXCEPT ![c] = Tail(@)]
  PROVE  /\ down' \in [Clients -> Seq([pong : 1..msg_seq] \cup [state : Reports])]
         /\ \A d \in Clients : Len(down'[d]) <= MaxQueued /\ (down[d] = <<>> => down'[d] = <<>>)
         /\ Head(down[c]) \in [pong : 1..msg_seq] \cup [state : Reports]
<1>1. down[c] \in Seq([pong : 1..msg_seq] \cup [state : Reports])
  BY DEF LinkTypeOK
<1>2. /\ Tail(down[c]) \in Seq([pong : 1..msg_seq] \cup [state : Reports])
      /\ Head(down[c]) \in [pong : 1..msg_seq] \cup [state : Reports]
      /\ Len(Tail(down[c])) = Len(down[c]) - 1 /\ Len(down[c]) \in Nat
  BY <1>1, HeadTailProperties, LenProperties
<1> QED
  BY SMTT(20), <1>2, LinkAssumption DEF LinkTypeOK

LEMMA RemovedType ==
  ASSUME NEW S, NEW s \in Seq(S), NEW i \in DOMAIN s
  PROVE  /\ RemoveAt(s, i) \in Seq(S) /\ Len(RemoveAt(s, i)) = Len(s) - 1
         /\ \A j \in 1..Len(s) - 1 : RemoveAt(s, i)[j] = IF j < i THEN s[j] ELSE s[j + 1]
<1>1. i \in 1..Len(s) /\ Len(s) \in Nat /\ \A j \in 1..Len(s) : s[j] \in S
  BY LenProperties
<1> DEFINE low == SubSeq(s, 1, i - 1)
           high == SubSeq(s, i + 1, Len(s))
<1>2. low \in Seq(S) /\ Len(low) = i - 1 /\ \A j \in 1..i - 1 : low[j] = s[j]
  BY <1>1, SubSeqProperties
<1>3. high \in Seq(S) /\ Len(high) = Len(s) - i /\ \A j \in 1..Len(s) - i : high[j] = s[i + j]
  BY <1>1, SubSeqProperties
<1> HIDE DEF low, high
<1>4. /\ low \o high \in Seq(S) /\ Len(low \o high) = Len(low) + Len(high)
      /\ \A j \in 1..Len(low) + Len(high) :
           (low \o high)[j] = IF j <= Len(low) THEN low[j] ELSE high[j - Len(low)]
  BY <1>2, <1>3, ConcatProperties
<1>5. ASSUME NEW j \in 1..Len(s) - 1
      PROVE  (low \o high)[j] = IF j < i THEN s[j] ELSE s[j + 1]
  <2>1. /\ j \in Nat /\ i \in Nat /\ j \in 1..Len(low) + Len(high)
        /\ j <= Len(low) <=> j < i
        /\ j < i => j \in 1..i - 1
        /\ ~(j < i) => /\ j - Len(low) \in 1..Len(s) - i /\ i + (j - Len(low)) = j + 1
    BY SMTT(20), <1>1, <1>2, <1>3
  <2>2. (low \o high)[j] = IF j <= Len(low) THEN low[j] ELSE high[j - Len(low)]
    BY <1>4, <2>1
  <2>3. CASE j < i
    BY <1>2, <2>1, <2>2, <2>3
  <2>4. CASE ~(j < i)
    BY <1>3, <2>1, <2>2, <2>4
  <2> QED
    BY <2>3, <2>4
<1>6. RemoveAt(s, i) = low \o high
  BY DEF RemoveAt, low, high
<1>7. Len(low \o high) = Len(s) - 1
  BY <1>1, <1>2, <1>3, <1>4
<1> QED
  BY <1>4, <1>5, <1>6, <1>7

LEMMA PongType ==
  ASSUME NEW Reports, LinkTypeOK(Reports), NEW c \in Clients, ReceivePong(c)
  PROVE  LinkTypeOK(Reports)'
<1>1. timers' \in [Clients -> Seq(Message)] /\ disturbed' \in BOOLEAN
  <2>1. CASE UNCHANGED <<timers, disturbed>>
    BY <2>1 DEF LinkTypeOK
  <2>2. ASSUME NEW i \in DOMAIN timers[c], timers' = [timers EXCEPT ![c] = RemoveAt(@, i)],
               disturbed' = (disturbed \/ IsSetting(timers[c][i]))
        PROVE  timers' \in [Clients -> Seq(Message)] /\ disturbed' \in BOOLEAN
    <3>1. RemoveAt(timers[c], i) \in Seq(Message)
      BY RemovedType DEF LinkTypeOK
    <3> QED
      BY <2>2, <3>1 DEF LinkTypeOK
  <2> QED
    BY <2>1, <2>2 DEF ReceivePong
<1>2. down[c] # <<>> /\ down' = [down EXCEPT ![c] = Tail(@)]
      /\ UNCHANGED <<open, seq, sends, up, deviceVars, drops, handled, last>>
  BY DEF ReceivePong
<1> QED
  BY <1>1, <1>2, DownType DEF LinkTypeOK, deviceVars

LEMMA StateType ==
  ASSUME NEW Reports, LinkTypeOK(Reports), NEW c \in Clients, ReceiveState(c)
  PROVE  LinkTypeOK(Reports)' /\ Head(down[c]).state \in Reports
<1>1. down[c] # <<>> /\ down' = [down EXCEPT ![c] = Tail(@)] /\ "state" \in DOMAIN Head(down[c])
      /\ UNCHANGED <<pageVars, deviceVars, up, drops, history>>
  BY DEF ReceiveState
<1>2. Head(down[c]) \in [pong : 1..msg_seq] \cup [state : Reports]
  BY <1>1, DownType
<1>3. Head(down[c]).state \in Reports
  BY <1>1, <1>2
<1> QED
  BY <1>1, <1>3, DownType DEF LinkTypeOK, pageVars, deviceVars, history

----------------------------------------------------------------------------
(* What is under way.  A page's messages are numbered below its next number, *)
(* its timers in the order they end; the firmware learns of a connection     *)
(* only while the page has it.                                               *)

UnderWay(c) ==
  /\ up[c] \in Seq(Sendable \cup Joining) /\ timers[c] \in Seq(Sendable)
  /\ \A k \in DOMAIN up[c] : /\ up[c][k].type = "connect" => open[c]
                            /\ up[c][k].id < seq[c]
  /\ \A k \in DOMAIN timers[c] : timers[c][k].id < seq[c]
  /\ \A j, k \in DOMAIN timers[c] : j < k => timers[c][j].id < timers[c][k].id

LEMMA TakenType ==
  ASSUME NEW Reports, LinkTypeOK(Reports), NEW c \in Clients, NEW type, Taken(c, type)
  PROVE  /\ up' \in [Clients -> Seq(Message)] /\ up[c] # <<>> /\ Head(up[c]) \in Message
         /\ up' = [up EXCEPT ![c] = Tail(@)] /\ Head(up[c]).type = type
<1>1. up[c] \in Seq(Message) /\ up[c] # <<>> /\ up' = [up EXCEPT ![c] = Tail(@)]
  BY DEF LinkTypeOK, Taken
<1>2. Head(up[c]) \in Message /\ Tail(up[c]) \in Seq(Message)
  BY <1>1, HeadTailProperties
<1> QED
  BY <1>1, <1>2 DEF LinkTypeOK, Taken

LEMMA HandleConnectType ==
  ASSUME NEW Reports, LinkTypeOK(Reports), NEW c \in Clients, UnderWay(c),
         NEW report \in Reports, HandleConnect(c, report)
  PROVE  LinkTypeOK(Reports)'
<1>1. /\ Taken(c, "connect") /\ joined' = [joined EXCEPT ![c] = TRUE] /\ Broadcast(joined', report)
      /\ UNCHANGED <<pageVars, msg_seq, applied, snap, drops, history>>
  BY DEF HandleConnect
<1>2. up' \in [Clients -> Seq(Message)] /\ up[c] # <<>> /\ up[c][1].type = "connect"
  BY <1>1, TakenType
<1>3. up[c] \in Seq(Message) /\ 1 \in DOMAIN up[c]
  BY <1>2 DEF LinkTypeOK
<1>4. open[c]
  BY <1>2, <1>3 DEF UnderWay
<1>5. joined' \in [Clients -> BOOLEAN] /\ \A d \in Clients : joined'[d] => open[d]
  BY <1>1, <1>4 DEF LinkTypeOK
<1>6. /\ down' \in [Clients -> Seq(Downs(Reports, msg_seq))]
      /\ \A d \in Clients : Len(down'[d]) <= MaxQueued /\ (~open[d] => down'[d] = <<>>)
  BY <1>1, <1>5, BroadcastType
<1> QED
  BY <1>1, <1>2, <1>5, <1>6 DEF LinkTypeOK, Downs, pageVars, history

LEMMA HandleGetStateType ==
  ASSUME NEW Reports, LinkTypeOK(Reports), NEW c \in Clients,
         NEW report \in Reports, HandleGetState(c, report)
  PROVE  LinkTypeOK(Reports)'
<1>1. /\ Taken(c, "get_state") /\ Broadcast(joined, report)
      /\ UNCHANGED <<pageVars, deviceVars, drops, history>>
  BY DEF HandleGetState
<1>2. up' \in [Clients -> Seq(Message)]
  BY <1>1, TakenType
<1>3. \A d \in Clients : joined[d] => open[d]
  BY DEF LinkTypeOK
<1>4. /\ down' \in [Clients -> Seq(Downs(Reports, msg_seq))]
      /\ \A d \in Clients : Len(down'[d]) <= MaxQueued /\ (~open[d] => down'[d] = <<>>)
  BY <1>1, <1>3, BroadcastType
<1> QED
  BY <1>1, <1>2, <1>4 DEF LinkTypeOK, Downs, pageVars, deviceVars, history

LEMMA HandlePingType ==
  ASSUME NEW Reports, LinkTypeOK(Reports), NEW c \in Clients, HandlePing(c)
  PROVE  LinkTypeOK(Reports)'
<1> DEFINE D == Downs(Reports, msg_seq)
           E == Downs(Reports, msg_seq + 1)
<1>1. /\ Taken(c, "ping") /\ msg_seq' = msg_seq + 1
      /\ down' = IF joined[c] THEN [down EXCEPT ![c] = Queued(@, [pong |-> msg_seq])] ELSE down
      /\ UNCHANGED <<pageVars, joined, applied, snap, drops, history>>
  BY DEF HandlePing
<1>2. up' \in [Clients -> Seq(Message)]
  BY <1>1, TakenType
<1>3. msg_seq' \in Nat \ {0} /\ D \subseteq E /\ [pong |-> msg_seq] \in E
  BY <1>1 DEF LinkTypeOK, Downs
<1>4. \A d \in Clients : down[d] \in Seq(D) /\ Len(down[d]) <= MaxQueued
                        /\ (~open[d] => down[d] = <<>>) /\ (joined[d] => open[d])
  BY DEF LinkTypeOK, Downs
<1> HIDE DEF D, E
<1>5. ASSUME NEW d \in Clients
      PROVE  down'[d] \in Seq(E) /\ Len(down'[d]) <= MaxQueued /\ (~open[d] => down'[d] = <<>>)
  <2>1. down[d] \in Seq(E)
    BY <1>3, <1>4, SeqMonotonic
  <2>2. CASE joined[d] /\ d = c
    <3>1. down'[d] = Queued(down[d], [pong |-> msg_seq])
      BY <1>1, <2>2 DEF LinkTypeOK
    <3> QED
      BY <1>3, <1>4, <2>1, <2>2, <3>1, QueuedType
  <2>3. CASE ~(joined[d] /\ d = c)
    BY <1>1, <1>4, <2>1, <2>3 DEF LinkTypeOK
  <2> QED
    BY <2>2, <2>3
<1>6. down' = [d \in Clients |-> down'[d]]
  BY <1>1 DEF LinkTypeOK
<1>7. down' \in [Clients -> Seq(E)]
  BY <1>5, <1>6
<1>8. E = [pong : 1..msg_seq'] \cup [state : Reports]
  BY <1>1 DEF E, Downs
<1> QED
  BY <1>1, <1>2, <1>3, <1>5, <1>7, <1>8 DEF LinkTypeOK, pageVars, history

LEMMA HandleSettingsType ==
  ASSUME NEW Reports, LinkTypeOK(Reports), NEW c \in Clients, UnderWay(c),
         NEW kept, NEW report \in Reports, HandleSettings(c, kept, report)
  PROVE  LinkTypeOK(Reports)' /\ Head(up[c]) \in Sendable
<1>1. /\ Taken(c, "set_settings") /\ Broadcast(joined, report)
      /\ handled' = [handled EXCEPT ![c][Head(up[c]).id] = @ + 1]
      /\ UNCHANGED <<pageVars, joined, msg_seq, snap, drops, disturbed>>
  BY DEF HandleSettings
<1>2. up' \in [Clients -> Seq(Message)] /\ up[c] # <<>> /\ Head(up[c]).type = "set_settings"
  BY <1>1, TakenType
<1>3. Head(up[c]) \in Sendable \cup Joining
  BY <1>2, HeadTailProperties DEF UnderWay
<1>4. Head(up[c]) \in Sendable /\ Head(up[c]).id \in Numbers
  BY <1>2, <1>3, SettingsSent DEF Sendable, Joining, IsSetting
<1>5. handled' \in [Clients -> [Numbers -> Nat]]
  BY SMTT(20), <1>1, <1>4 DEF LinkTypeOK
<1>6. \A d \in Clients : joined[d] => open[d]
  BY DEF LinkTypeOK
<1>7. /\ down' \in [Clients -> Seq(Downs(Reports, msg_seq))]
      /\ \A d \in Clients : Len(down'[d]) <= MaxQueued /\ (~open[d] => down'[d] = <<>>)
  BY <1>1, <1>6, BroadcastType
<1> QED
  BY <1>1, <1>2, <1>4, <1>5, <1>7 DEF LinkTypeOK, Downs, pageVars

LEMMA LoopType ==
  ASSUME NEW Reports, LinkTypeOK(Reports), NEW report \in Reports,
         BuildBroadcast(report) \/ SendBroadcast
  PROVE  LinkTypeOK(Reports)'
<1>1. CASE BuildBroadcast(report)
  BY <1>1 DEF BuildBroadcast, LinkTypeOK, pageVars, history
<1>2. CASE SendBroadcast
  <2>1. /\ snap # <<>> /\ snap' = <<>> /\ Broadcast(joined, snap[1])
        /\ UNCHANGED <<pageVars, joined, msg_seq, up, history>>
    BY <1>2 DEF SendBroadcast
  <2>2. snap \in Seq(Reports) /\ \A d \in Clients : joined[d] => open[d]
    BY DEF LinkTypeOK
  <2>3. snap[1] \in Reports /\ snap' \in Seq(Reports)
    BY <2>1, <2>2
  <2>4. /\ down' \in [Clients -> Seq(Downs(Reports, msg_seq))]
        /\ \A d \in Clients : Len(down'[d]) <= MaxQueued /\ (~open[d] => down'[d] = <<>>)
    BY <2>1, <2>2, <2>3, BroadcastType
  <2> QED
    BY <2>1, <2>3, <2>4 DEF LinkTypeOK, Downs, pageVars, history
<1> QED
  BY <1>1, <1>2

LEMMA IdsUnderWay ==
  ASSUME NEW c \in Clients, UnderWay(c)
  PROVE  /\ \A k \in DOMAIN up[c] : up[c][k] \in Sendable \cup Joining /\ up[c][k].id \in Nat
         /\ \A k \in DOMAIN timers[c] : /\ timers[c][k] \in Sendable /\ timers[c][k].id \in Nat
                                      /\ timers[c][k].type # "connect"
<1>1. \A m \in Sendable : m.id \in Nat /\ m.type # "connect"
  BY LinkAssumption DEF Sendable, Message, Says
<1>2. \A m \in Joining : m.id \in Nat
  BY DEF Joining
<1>3. up[c] \in Seq(Sendable \cup Joining) /\ timers[c] \in Seq(Sendable)
  BY DEF UnderWay
<1>4. \A k \in DOMAIN timers[c] : timers[c][k] \in Sendable
  BY <1>3, ElementOfSeq
<1>5. \A k \in DOMAIN up[c] : up[c][k] \in Sendable \cup Joining
  BY <1>3, ElementOfSeq
<1> QED
  BY <1>1, <1>2, <1>4, <1>5

LEMMA UnderWayElsewhere ==
  ASSUME NEW d, UnderWay(d), open'[d] = open[d], up'[d] = up[d],
         timers'[d] = timers[d], seq'[d] = seq[d]
  PROVE  UnderWay(d)'
BY DEF UnderWay

LEMMA SendUnderWay ==
  ASSUME NEW Reports, LinkTypeOK(Reports), NEW c \in Clients, UnderWay(c),
         NEW type, NEW data, Says(type, data),
         Send(c, type, data)
  PROVE  UnderWay(c)'
<1>1. CASE open[c]
  <2> DEFINE m == [type |-> type, id |-> seq[c], data |-> data]
  <2>1. /\ up' = [up EXCEPT ![c] = Append(@, m)] /\ timers' = [timers EXCEPT ![c] = Append(@, m)]
        /\ MaySend /\ Number(c) /\ seq'[c] = seq[c] + 1 /\ seq[c] \in Nat /\ open' = open
    BY <1>1 DEF Send, Number, LinkTypeOK
  <2>2. m \in Sendable /\ m.id = seq[c] /\ m.type # "connect"
    BY <2>1, NumberType DEF Says
  <2>3. up'[c] = Append(up[c], m) /\ timers'[c] = Append(timers[c], m)
    BY <2>1 DEF LinkTypeOK
  <2> HIDE DEF m
  <2>4. /\ up[c] \in Seq(Sendable \cup Joining) /\ timers[c] \in Seq(Sendable)
        /\ \A k \in DOMAIN up[c] : (up[c][k].type = "connect" => open[c]) /\ up[c][k].id < seq[c]
        /\ \A k \in DOMAIN timers[c] : timers[c][k].id < seq[c]
        /\ \A j, k \in DOMAIN timers[c] : j < k => timers[c][j].id < timers[c][k].id
    BY DEF UnderWay
  <2>5. \A k \in DOMAIN up[c] : up[c][k].id \in Nat
    BY IdsUnderWay
  <2>6. \A k \in DOMAIN timers[c] : timers[c][k].id \in Nat
    BY IdsUnderWay
  <2>7. up'[c] \in Seq(Sendable \cup Joining) /\ timers'[c] \in Seq(Sendable)
    BY <2>2, <2>3, <2>4
  <2>8. \A k \in DOMAIN up'[c] : (up'[c][k].type = "connect" => open'[c]) /\ up'[c][k].id < seq'[c]
    BY <2>1, <2>2, <2>3, <2>4, <2>5
  <2>9. \A k \in DOMAIN timers'[c] : timers'[c][k].id < seq'[c]
    BY <2>1, <2>2, <2>3, <2>4, <2>6
  <2>10. \A j, k \in DOMAIN timers'[c] : j < k => timers'[c][j].id < timers'[c][k].id
    BY <2>2, <2>3, <2>4
  <2> QED
    BY <2>7, <2>8, <2>9, <2>10 DEF UnderWay
<1>2. CASE ~open[c]
  BY <1>2, UnderWayElsewhere DEF Send
<1> QED
  BY <1>1, <1>2

LEMMA TimerUnderWay ==
  ASSUME NEW Reports, LinkTypeOK(Reports), NEW c \in Clients, UnderWay(c), TimerEnds(c)
  PROVE  UnderWay(c)'
<1> DEFINE m == Head(timers[c])
<1>1. timers[c] # <<>> /\ timers'[c] = Tail(timers[c]) /\ UNCHANGED <<open, seq>>
      /\ up'[c] = IF open[c] THEN Append(up[c], m) ELSE up[c]
  BY DEF TimerEnds, LinkTypeOK
<1>2. /\ up[c] \in Seq(Sendable \cup Joining) /\ timers[c] \in Seq(Sendable)
      /\ \A k \in DOMAIN up[c] : (up[c][k].type = "connect" => open[c]) /\ up[c][k].id < seq[c]
      /\ \A k \in DOMAIN timers[c] : timers[c][k].id < seq[c]
      /\ \A j, k \in DOMAIN timers[c] : j < k => timers[c][j].id < timers[c][k].id
  BY DEF UnderWay
<1>3. /\ m = timers[c][1] /\ 1 \in DOMAIN timers[c] /\ m \in Sendable /\ m.type # "connect"
      /\ m.id < seq[c]
  BY <1>1, <1>2, IdsUnderWay
<1>4. /\ Tail(timers[c]) \in Seq(Sendable)
      /\ \A k \in DOMAIN Tail(timers[c]) : k + 1 \in DOMAIN timers[c] /\ Tail(timers[c])[k] = timers[c][k + 1]
      /\ \A k \in DOMAIN Tail(timers[c]) : k \in Nat
  BY <1>1, <1>2
<1> HIDE DEF m
<1>5. up'[c] \in Seq(Sendable \cup Joining)
  BY <1>1, <1>2, <1>3
<1>6. \A k \in DOMAIN up'[c] : (up'[c][k].type = "connect" => open'[c]) /\ up'[c][k].id < seq'[c]
  BY <1>1, <1>2, <1>3
<1>7. /\ \A k \in DOMAIN timers'[c] : timers'[c][k].id < seq'[c]
      /\ \A j, k \in DOMAIN timers'[c] : j < k => timers'[c][j].id < timers'[c][k].id
  BY <1>1, <1>2, <1>4
<1> QED
  BY <1>1, <1>4, <1>5, <1>6, <1>7 DEF UnderWay

LEMMA ConnectUnderWay ==
  ASSUME NEW Reports, LinkTypeOK(Reports), NEW c \in Clients, UnderWay(c), Connect(c)
  PROVE  UnderWay(c)'
<1> DEFINE get == [type |-> "get_state", id |-> seq[c], data |-> NoData]
           new == [type |-> "connect", id |-> 0, data |-> NoData]
<1>1. /\ up' = [up EXCEPT ![c] = @ \o <<new, get>>] /\ timers' = [timers EXCEPT ![c] = Append(@, get)]
      /\ open' = [open EXCEPT ![c] = TRUE] /\ MaySend /\ Number(c) /\ ~open[c]
      /\ seq'[c] = seq[c] + 1 /\ seq[c] \in Nat \ {0}
  BY DEF Connect, Number, LinkTypeOK
<1>2. get \in Sendable /\ get.id = seq[c]
  <2>1. Says("get_state", NoData)
    BY DEF Says
  <2> QED
    BY <1>1, <2>1, NumberType
<1>3. new \in Joining /\ new.id = 0
  BY DEF Joining
<1>4. up'[c] = up[c] \o <<new, get>> /\ timers'[c] = Append(timers[c], get) /\ open'[c]
  BY <1>1 DEF LinkTypeOK
<1> HIDE DEF get, new
<1>5. /\ up[c] \in Seq(Sendable \cup Joining) /\ timers[c] \in Seq(Sendable)
      /\ \A k \in DOMAIN up[c] : up[c][k].id < seq[c]
      /\ \A k \in DOMAIN timers[c] : timers[c][k].id < seq[c]
      /\ \A j, k \in DOMAIN timers[c] : j < k => timers[c][j].id < timers[c][k].id
  BY DEF UnderWay
<1>6. \A k \in DOMAIN up[c] : up[c][k].id \in Nat
  BY IdsUnderWay
<1>7. \A k \in DOMAIN timers[c] : timers[c][k].id \in Nat
  BY IdsUnderWay
<1>8. up'[c] \in Seq(Sendable \cup Joining) /\ timers'[c] \in Seq(Sendable)
  BY <1>2, <1>3, <1>4, <1>5
<1>9. \A k \in DOMAIN up'[c] : up'[c][k].id < seq'[c]
  <2>2. /\ Len(up[c]) \in Nat /\ DOMAIN up'[c] = 1..Len(up[c]) + 2 /\ DOMAIN up[c] = 1..Len(up[c])
        /\ \A k \in 1..Len(up[c]) : up'[c][k] = up[c][k]
        /\ up'[c][Len(up[c]) + 1] = new /\ up'[c][Len(up[c]) + 2] = get
    BY <1>2, <1>3, <1>4, <1>5, TwoMoreType
  <2>3. \A k \in 1..Len(up[c]) : up'[c][k].id < seq'[c]
    <3>1. \A k \in 1..Len(up[c]) : up[c][k].id < seq[c] /\ up[c][k].id \in Nat
      BY <1>5, <1>6, <2>2
    <3> QED
      BY <1>1, <2>2, <3>1
  <2>4. new.id < seq'[c] /\ get.id < seq'[c]
    BY <1>1, <1>2, <1>3
  <2> SUFFICES ASSUME NEW k \in DOMAIN up'[c] PROVE up'[c][k].id < seq'[c]
    OBVIOUS
  <2>5. k \in 1..Len(up[c]) \/ k = Len(up[c]) + 1 \/ k = Len(up[c]) + 2
    BY <2>2
  <2>6. CASE k \in 1..Len(up[c])
    BY <2>3, <2>6
  <2>7. CASE k = Len(up[c]) + 1
    BY <2>2, <2>4, <2>7
  <2>8. CASE k = Len(up[c]) + 2
    BY <2>2, <2>4, <2>8
  <2> QED
    BY <2>5, <2>6, <2>7, <2>8
<1>10. \A k \in DOMAIN timers'[c] : timers'[c][k].id < seq'[c]
  BY <1>1, <1>2, <1>4, <1>5, <1>7
<1>11. \A j, k \in DOMAIN timers'[c] : j < k => timers'[c][j].id < timers'[c][k].id
  BY <1>2, <1>4, <1>5
<1> QED
  BY <1>4, <1>8, <1>9, <1>10, <1>11 DEF UnderWay

LEMMA DropUnderWay ==
  ASSUME NEW Reports, LinkTypeOK(Reports), NEW c \in Clients, UnderWay(c), Drop(c)
  PROVE  UnderWay(c)'
<1>1. PICK n \in 0..Len(up[c]) : up' = [up EXCEPT ![c] = [i \in 1..n |-> Stale(up[c][i])]]
  BY DEF Drop
<1>2. UNCHANGED <<timers, seq>>
  BY DEF Drop
<1>3. up'[c] = [i \in 1..n |-> Stale(up[c][i])] /\ up[c] \in Seq(Sendable \cup Joining)
  BY <1>1 DEF LinkTypeOK, UnderWay
<1>4. \A m \in Sendable \cup Joining :
        Stale(m) \in Sendable \cup Joining /\ Stale(m).type # "connect" /\ Stale(m).id = m.id
  BY DEF Stale, Sendable, Joining, Message, Says
<1>5. \A i \in 1..n : i \in DOMAIN up[c] /\ up[c][i] \in Sendable \cup Joining
  BY <1>3
<1>6. up'[c] \in Seq(Sendable \cup Joining)
  BY <1>3, <1>4, <1>5
<1>7. \A k \in DOMAIN up'[c] : up'[c][k].type # "connect" /\ up'[c][k].id < seq[c]
  BY <1>3, <1>4, <1>5 DEF UnderWay
<1> QED
  BY <1>2, <1>6, <1>7 DEF UnderWay

LEMMA PongUnderWay ==
  ASSUME NEW Reports, LinkTypeOK(Reports), NEW c \in Clients, UnderWay(c), ReceivePong(c)
  PROVE  UnderWay(c)'
<1>1. UNCHANGED <<open, seq, up>>
  BY DEF ReceivePong
<1>2. CASE UNCHANGED <<timers, disturbed>>
  BY <1>1, <1>2, UnderWayElsewhere
<1>3. ASSUME NEW i \in DOMAIN timers[c], timers' = [timers EXCEPT ![c] = RemoveAt(@, i)]
      PROVE  UnderWay(c)'
  <2>1. /\ timers[c] \in Seq(Sendable) /\ timers'[c] = RemoveAt(timers[c], i)
        /\ \A k \in DOMAIN timers[c] : timers[c][k].id < seq[c]
        /\ \A j, k \in DOMAIN timers[c] : j < k => timers[c][j].id < timers[c][k].id
    BY <1>3 DEF UnderWay, LinkTypeOK
  <2>2. /\ timers'[c] \in Seq(Sendable) /\ Len(timers'[c]) = Len(timers[c]) - 1
        /\ \A j \in 1..Len(timers[c]) - 1 : timers'[c][j] = IF j < i THEN timers[c][j] ELSE timers[c][j + 1]
    BY SMTT(20), <2>1, RemovedType
  <2>3. /\ \A k \in DOMAIN timers'[c] : timers'[c][k].id < seq[c]
        /\ \A j, k \in DOMAIN timers'[c] : j < k => timers'[c][j].id < timers'[c][k].id
    <3>1. /\ Len(timers[c]) \in Nat /\ DOMAIN timers[c] = 1..Len(timers[c]) /\ i \in 1..Len(timers[c])
          /\ DOMAIN timers'[c] = 1..Len(timers[c]) - 1
      BY <2>1, <2>2
    <3> DEFINE old(k) == IF k < i THEN k ELSE k + 1
    <3>2. \A k \in DOMAIN timers'[c] : old(k) \in DOMAIN timers[c] /\ timers'[c][k] = timers[c][old(k)]
      BY <2>2, <3>1
    <3>3. \A j, k \in DOMAIN timers'[c] : j < k => old(j) < old(k)
      BY <3>1
    <3> HIDE DEF old
    <3> QED
      BY <2>1, <3>2, <3>3
  <2> QED
    BY <1>1, <2>2, <2>3 DEF UnderWay
<1> QED
  BY <1>2, <1>3 DEF ReceivePong

LEMMA TakenUnderWay ==
  ASSUME NEW Reports, LinkTypeOK(Reports), NEW c \in Clients, UnderWay(c),
         up[c] # <<>>, up'[c] = Tail(up[c]), UNCHANGED pageVars
  PROVE  UnderWay(c)'
<1>1. up[c] \in Seq(Sendable \cup Joining)
  BY DEF UnderWay
<1>2. /\ Tail(up[c]) \in Seq(Sendable \cup Joining)
      /\ \A k \in DOMAIN Tail(up[c]) : k + 1 \in DOMAIN up[c] /\ Tail(up[c])[k] = up[c][k + 1]
  BY <1>1
<1> QED
  BY <1>2 DEF UnderWay, pageVars

----------------------------------------------------------------------------
(* Types and order, step by step *)

Typed(Reports) == LinkTypeOK(Reports) /\ \A c \in Clients : UnderWay(c)

LEMMA InitTyped ==
  ASSUME NEW Reports, NEW init, LinkInit(init)
  PROVE  Typed(Reports)
<1>1. \A S : <<>> \in Seq(S) /\ DOMAIN <<>> = {}
  OBVIOUS
<1>2. \A c \in Clients : up[c] = <<>> /\ timers[c] = <<>>
  BY DEF LinkInit
<1>3. \A c \in Clients : UnderWay(c)
  BY <1>1, <1>2 DEF UnderWay
<1> QED
  BY <1>3, LinkInitType DEF Typed

\* What an action of page c may change of the pages: c.
OnlyAt(c) == \A d \in Clients \ {c} :
  open'[d] = open[d] /\ up'[d] = up[d] /\ timers'[d] = timers[d] /\ seq'[d] = seq[d]

LEMMA TypedFromPage ==
  ASSUME NEW Reports, Typed(Reports), NEW c \in Clients,
         LinkTypeOK(Reports)', UnderWay(c)', OnlyAt(c)
  PROVE  Typed(Reports)'
<1>1. ASSUME NEW d \in Clients, d # c
      PROVE  UnderWay(d)'
  BY <1>1, UnderWayElsewhere DEF Typed, OnlyAt
<1> QED
  BY <1>1 DEF Typed

LEMMA SendTyped ==
  ASSUME NEW Reports, Typed(Reports), NEW c \in Clients,
         NEW type, NEW data, Says(type, data),
         Send(c, type, data)
  PROVE  Typed(Reports)'
<1>1. LinkTypeOK(Reports) /\ UnderWay(c)
  BY DEF Typed
<1>2. OnlyAt(c)
  BY <1>1 DEF OnlyAt, Send, Number, LinkTypeOK
<1> QED
  BY <1>1, <1>2, SendType, SendUnderWay, TypedFromPage

LEMMA TimerTyped ==
  ASSUME NEW Reports, Typed(Reports), NEW c \in Clients, TimerEnds(c)
  PROVE  Typed(Reports)'
<1>1. LinkTypeOK(Reports) /\ UnderWay(c)
  BY DEF Typed
<1>2. OnlyAt(c)
  BY <1>1 DEF OnlyAt, TimerEnds, LinkTypeOK
<1> QED
  BY <1>1, <1>2, TimerType, TimerUnderWay, TypedFromPage

LEMMA ConnectTyped ==
  ASSUME NEW Reports, Typed(Reports), NEW c \in Clients, Connect(c)
  PROVE  Typed(Reports)'
<1>1. LinkTypeOK(Reports) /\ UnderWay(c)
  BY DEF Typed
<1>2. OnlyAt(c)
  BY <1>1 DEF OnlyAt, Connect, Number, LinkTypeOK
<1> QED
  BY <1>1, <1>2, ConnectType, ConnectUnderWay, TypedFromPage

LEMMA DropTyped ==
  ASSUME NEW Reports, Typed(Reports), NEW c \in Clients, Drop(c)
  PROVE  Typed(Reports)'
<1>1. LinkTypeOK(Reports) /\ UnderWay(c)
  BY DEF Typed
<1>2. OnlyAt(c)
  BY <1>1 DEF OnlyAt, Drop, LinkTypeOK
<1> QED
  BY <1>1, <1>2, DropType, DropUnderWay, TypedFromPage

LEMMA PongTyped ==
  ASSUME NEW Reports, Typed(Reports), NEW c \in Clients, ReceivePong(c)
  PROVE  Typed(Reports)'
<1>1. LinkTypeOK(Reports) /\ UnderWay(c)
  BY DEF Typed
<1>2. OnlyAt(c)
  BY <1>1 DEF OnlyAt, ReceivePong, LinkTypeOK
<1> QED
  BY <1>1, <1>2, PongType, PongUnderWay, TypedFromPage

LEMMA StateTyped ==
  ASSUME NEW Reports, Typed(Reports), NEW c \in Clients, ReceiveState(c)
  PROVE  Typed(Reports)'
<1>1. LinkTypeOK(Reports)' /\ UNCHANGED <<open, up, timers, seq>>
  BY StateType DEF Typed, ReceiveState, pageVars
<1> QED
  BY <1>1, UnderWayElsewhere DEF Typed

LEMMA HandleTyped ==
  ASSUME NEW Reports, Typed(Reports), NEW c \in Clients, NEW report \in Reports,
         NEW kept,
         \/ HandleConnect(c, report) \/ HandleGetState(c, report)
         \/ HandlePing(c) \/ HandleSettings(c, kept, report)
  PROVE  Typed(Reports)'
<1>1. LinkTypeOK(Reports) /\ UnderWay(c)
  BY DEF Typed
<1>2. LinkTypeOK(Reports)'
  BY <1>1, HandleConnectType, HandleGetStateType, HandlePingType, HandleSettingsType
<1>3. PICK type : Taken(c, type)
  BY DEF HandleConnect, HandleGetState, HandlePing, HandleSettings
<1>4. UNCHANGED pageVars
  BY DEF HandleConnect, HandleGetState, HandlePing, HandleSettings
<1>5. up[c] # <<>> /\ up' = [up EXCEPT ![c] = Tail(@)] /\ up'[c] = Tail(up[c])
  BY <1>1, <1>3 DEF Taken, LinkTypeOK
<1>6. OnlyAt(c)
  BY <1>1, <1>4, <1>5 DEF OnlyAt, pageVars, LinkTypeOK
<1> QED
  BY <1>1, <1>2, <1>4, <1>5, <1>6, TakenUnderWay, TypedFromPage

LEMMA LoopTyped ==
  ASSUME NEW Reports, Typed(Reports), NEW report \in Reports,
         BuildBroadcast(report) \/ SendBroadcast
  PROVE  Typed(Reports)'
<1>1. LinkTypeOK(Reports)' /\ UNCHANGED <<open, up, timers, seq>>
  BY LoopType DEF Typed, BuildBroadcast, SendBroadcast, pageVars
<1> QED
  BY <1>1, UnderWayElsewhere DEF Typed

LEMMA StutterTyped ==
  ASSUME NEW Reports, Typed(Reports), UNCHANGED linkVars
  PROVE  Typed(Reports)'
<1>1. LinkTypeOK(Reports)' /\ UNCHANGED <<open, up, timers, seq>>
  BY DEF Typed, LinkTypeOK, linkVars, pageVars, deviceVars, history
<1> QED
  BY <1>1, UnderWayElsewhere DEF Typed

----------------------------------------------------------------------------
(* The link by itself *)

LinkInv == Typed(Settings) /\ applied \in Settings

LEMMA LinkInvInit == Init => LinkInv
BY InitTyped DEF Init, LinkInv, LinkInit

LEMMA LinkInvNext == LinkInv /\ [Next]_linkVars => LinkInv'
<1> SUFFICES ASSUME LinkInv, [Next]_linkVars
             PROVE  LinkInv'
  OBVIOUS
<1>1. Typed(Settings) /\ applied \in Settings
  BY DEF LinkInv
<1>2. ASSUME NEW c \in Clients, Operate(c) \/ TimerEnds(c) \/ Connect(c) \/ Drop(c) \/ Receive(c)
      PROVE  LinkInv'
  <2>1. applied' = applied
    BY <1>2 DEF Operate, SendSettings, AskState, SendPing, Send, TimerEnds, Connect, Drop, Receive,
                ReceivePong, ReceiveState, deviceVars
  <2>2. CASE Operate(c)
    BY <1>1, <2>1, <2>2, SendTyped DEF Operate, SendSettings, AskState, SendPing, Says, LinkInv
  <2>3. CASE TimerEnds(c)
    BY <1>1, <2>1, <2>3, TimerTyped DEF LinkInv
  <2>4. CASE Connect(c)
    BY <1>1, <2>1, <2>4, ConnectTyped DEF LinkInv
  <2>5. CASE Drop(c)
    BY <1>1, <2>1, <2>5, DropTyped DEF LinkInv
  <2>6. CASE Receive(c)
    BY <1>1, <2>1, <2>6, PongTyped, StateTyped DEF LinkInv, Receive
  <2> QED
    BY <1>2, <2>2, <2>3, <2>4, <2>5, <2>6
<1>3. ASSUME NEW c \in Clients, Handle(c)
      PROVE  LinkInv'
  <2>1. CASE HandleConnect(c, applied) \/ HandleGetState(c, applied) \/ HandlePing(c)
    <3>1. applied' = applied
      BY <2>1 DEF HandleConnect, HandleGetState, HandlePing, deviceVars
    <3> QED
      BY <1>1, <2>1, <3>1, HandleTyped DEF LinkInv
  <2>2. CASE HandleSettings(c, Sent(c), Sent(c))
    <3>1. applied' = Sent(c)
      BY <2>2 DEF HandleSettings
    <3>2. up[c] # <<>> /\ IsSetting(Head(up[c])) /\ UnderWay(c)
      BY <1>1, <2>2 DEF HandleSettings, Taken, IsSetting, Typed
    <3>3. Head(up[c]) \in Sendable \cup Joining
      BY <3>2, HeadTailProperties DEF UnderWay
    <3>4. Sent(c) \in Settings
      BY <3>2, <3>3, SettingsSent DEF Sent
    <3> QED
      BY <1>1, <2>2, <3>1, <3>4, HandleTyped DEF LinkInv
  <2> QED
    BY <1>3, <2>1, <2>2 DEF Handle
<1>4. CASE Loop
  <2>1. applied' = applied
    BY <1>4 DEF Loop, BuildBroadcast, SendBroadcast
  <2> QED
    BY <1>1, <1>4, <2>1, LoopTyped DEF LinkInv, Loop
<1>5. CASE UNCHANGED linkVars
  <2>1. applied' = applied
    BY <1>5 DEF linkVars, deviceVars
  <2> QED
    BY <1>1, <1>5, <2>1, StutterTyped DEF LinkInv
<1> QED
  BY <1>2, <1>3, <1>4, <1>5 DEF Next

LEMMA LinkInvAlways == Spec => []LinkInv
BY LinkInvInit, LinkInvNext, PTL DEF Spec

\* The types of the link, and of what waits in its queues; a connection the
\* firmware broadcasts to is one the page has open (HandleConnect, Drop); no
\* queue outgrows its limit (Broadcast, HandlePing).
THEOREM LinkTypeCorrect == Spec => []TypeOK
<1>1. LinkInv => TypeOK
  BY DEF LinkInv, Typed, TypeOK
<1> QED
  BY <1>1, LinkInvAlways, PTL

----------------------------------------------------------------------------
(* The form *)

FormReports == [pid : BOOLEAN, fan : Percents, sp : Numerals]

FormInv == /\ Typed(FormReports)
           /\ form \in [Clients -> Forms] /\ fan \in Percents /\ edits \in 0..MaxEdits
           /\ applied \in Settings /\ applied.sp # NoNumber
           /\ MarksTellTheTruth

LEMMA FormInvInit == FormInit => FormInv
<1> SUFFICES ASSUME FormInit
             PROVE  FormInv
  OBVIOUS
<1>1. PICK pid \in BOOLEAN, man \in Percents, sp \in Numerals :
        /\ LinkInit([pid |-> pid, man |-> man, sp |-> sp])
        /\ fan = IF pid THEN 20 ELSE man
  BY DEF FormInit
<1>2. Typed(FormReports) /\ applied = [pid |-> pid, man |-> man, sp |-> sp]
  BY <1>1, InitTyped DEF LinkInit
<1>3. applied \in Settings /\ applied.sp # NoNumber /\ fan \in Percents
  BY <1>1, <1>2, FormAssumption
<1>4. form \in [Clients -> Forms] /\ edits \in 0..MaxEdits
  BY FormAssumption DEF FormInit, Forms
<1>5. MarksTellTheTruth
  BY DEF FormInit, MarksTellTheTruth
<1> QED
  BY <1>2, <1>3, <1>4, <1>5 DEF FormInv

\* What a broadcast does to one form.
LEMMA ApplyStateType ==
  ASSUME NEW f \in Forms, NEW r \in FormReports,
         ~f.spDirty => f.sp = f.appliedSp
  PROVE  LET g == ApplyState(f, r)
         IN /\ g \in Forms
            /\ g.modeDirty => g.pidEnabled # g.appliedPid
            /\ g.pidEnabled # g.appliedPid => g.modeDirty
            /\ ~g.spDirty => g.sp = g.appliedSp
<1>1. r.pid \in BOOLEAN /\ r.fan \in Percents /\ r.sp \in Numerals \cup {NoNumber}
  BY DEF FormReports
<1> DEFINE a == ShowMode(f, r.pid)
           b == ShowFan(a, r.pid, r.fan)
           d == ShowField(b, r.sp)
<1>2. /\ a \in Forms /\ a.appliedPid = r.pid /\ (a.modeDirty <=> a.pidEnabled # a.appliedPid)
      /\ a.sp = f.sp /\ a.spDirty = f.spDirty /\ a.appliedSp = f.appliedSp
  BY <1>1 DEF ShowMode, Forms
<1> HIDE DEF a
<1>3. /\ b \in Forms /\ b.appliedPid = a.appliedPid /\ b.modeDirty = a.modeDirty /\ b.pidEnabled = a.pidEnabled
      /\ b.sp = a.sp /\ b.spDirty = a.spDirty /\ b.appliedSp = a.appliedSp
  BY ZenonT(60), <1>1, <1>2 DEF ShowFan, Forms
<1> HIDE DEF b
<1>4. /\ d \in Forms /\ d.appliedPid = b.appliedPid /\ d.modeDirty = b.modeDirty /\ d.pidEnabled = b.pidEnabled
      /\ ~d.spDirty => d.sp = d.appliedSp
  <2>1. /\ d.appliedSp = r.sp /\ d.spDirty = (b.spDirty /\ b.sp # r.sp)
        /\ d.sp = IF b.spDirty THEN b.sp ELSE r.sp
    BY <1>3 DEF ShowField, Forms
  <2>2. d \in Forms /\ d.appliedPid = b.appliedPid /\ d.modeDirty = b.modeDirty /\ d.pidEnabled = b.pidEnabled
    BY ZenonT(60), <1>1, <1>3 DEF ShowField, Forms
  <2>3. CASE b.spDirty
    BY <2>1, <2>2, <2>3
  <2>4. CASE ~b.spDirty
    BY <2>1, <2>2, <2>4
  <2> QED
    BY <2>3, <2>4
<1> HIDE DEF d
<1>5. ApplyState(f, r) = [d EXCEPT !.awaiting = FALSE]
  BY DEF ApplyState, a, b, d
<1> QED
  BY ZenonT(60), <1>2, <1>3, <1>4, <1>5 DEF Forms

Marks(f) == /\ ~f.awaiting => (f.modeDirty <=> f.pidEnabled # f.appliedPid)
            /\ ~f.spDirty => f.sp = f.appliedSp

\* A step that leaves what is reported and the link's types alone changes at
\* most the form of one page.
LEMMA FormInvFrom ==
  ASSUME FormInv, Typed(FormReports)', NEW c \in Clients, NEW f \in Forms, Marks(f),
         form' = [form EXCEPT ![c] = f], edits' \in 0..MaxEdits, UNCHANGED <<fan, applied>>
  PROVE  FormInv'
<1>1. form' \in [Clients -> Forms]
  BY DEF FormInv
<1>2. ASSUME NEW d \in Clients
      PROVE  Marks(form'[d])
  <2>1. CASE d = c
    BY <2>1 DEF FormInv
  <2>2. CASE d # c
    BY <2>2 DEF FormInv, MarksTellTheTruth, Marks
  <2> QED
    BY <2>1, <2>2
<1>3. MarksTellTheTruth'
  BY <1>2 DEF MarksTellTheTruth, Marks
<1> QED
  BY <1>1, <1>3 DEF FormInv

LEMMA FormInvSame ==
  ASSUME FormInv, Typed(FormReports)', UNCHANGED <<form, edits>>, fan' \in Percents,
         applied' \in Settings, applied'.sp # NoNumber
  PROVE  FormInv'
BY DEF FormInv, MarksTellTheTruth

LEMMA EditStep ==
  ASSUME FormInv, NEW c \in Clients, Edit(c)
  PROVE  FormInv'
<1>1. Typed(FormReports)' /\ UNCHANGED <<fan, applied>>
  BY StutterTyped DEF FormInv, Edit, linkVars, deviceVars
<1>2. edits' \in 0..MaxEdits
  BY FormAssumption DEF Edit, FormInv
<1>3. form[c] \in Forms /\ Marks(form[c]) /\ form \in [Clients -> Forms]
  BY DEF FormInv, MarksTellTheTruth, Marks
<1>4. ASSUME NEW pid \in BOOLEAN, ClickMode(c, pid)
      PROVE  FormInv'
  <2> DEFINE f == [form[c] EXCEPT !.pidEnabled = pid, !.modeDirty = pid # form[c].appliedPid,
                                  !.manDirty = @ /\ ~pid]
  <2>1. f \in Forms /\ form' = [form EXCEPT ![c] = f]
    BY ZenonT(60), <1>3, <1>4 DEF ClickMode, Forms
  <2>2. f.modeDirty = (f.pidEnabled # f.appliedPid) /\ f.spDirty = form[c].spDirty
        /\ f.sp = form[c].sp /\ f.appliedSp = form[c].appliedSp
    BY <1>3 DEF Forms
  <2> HIDE DEF f
  <2>3. Marks(f)
    BY <1>3, <2>2 DEF Marks
  <2> QED
    BY <1>1, <1>2, <2>1, <2>3, FormInvFrom
<1>5. ASSUME NEW pct \in Percents, Slide(c, pct)
      PROVE  FormInv'
  <2> DEFINE f == [form[c] EXCEPT !.man = pct, !.manDirty = pct # form[c].appliedMan]
  <2>1. f \in Forms /\ form' = [form EXCEPT ![c] = f] /\ Marks(f)
    BY <1>3, <1>5 DEF Slide, Forms, Marks
  <2> QED
    BY <1>1, <1>2, <2>1, FormInvFrom
<1>6. ASSUME NEW v \in Numerals, TypeNumber(c, v)
      PROVE  FormInv'
  <2> DEFINE f == [form[c] EXCEPT !.sp = v, !.spDirty = TRUE]
  <2>1. f \in Forms /\ form' = [form EXCEPT ![c] = f] /\ Marks(f)
    BY <1>3, <1>6 DEF TypeNumber, Forms, Marks
  <2> QED
    BY <1>1, <1>2, <2>1, FormInvFrom
<1> QED
  BY <1>4, <1>5, <1>6 DEF Edit

LEMMA SaveStep ==
  ASSUME FormInv, NEW c \in Clients, Save(c)
  PROVE  FormInv'
<1> DEFINE s == [pid |-> form[c].pidEnabled, man |-> form[c].man, sp |-> form[c].sp]
           f == [form[c] EXCEPT !.awaiting = TRUE, !.modeDirty = FALSE, !.manDirty = FALSE]
<1>1. form[c] \in Forms /\ Marks(form[c]) /\ form \in [Clients -> Forms]
  BY DEF FormInv, MarksTellTheTruth, Marks
<1>2. s \in Settings
  BY <1>1, FormAssumption DEF Forms
<1>3. Says("set_settings", s) /\ Send(c, "set_settings", s)
  BY <1>2 DEF Says, Save, SendSettings
<1>4. Typed(FormReports)' /\ applied' = applied
  BY <1>3, SendTyped DEF FormInv, Send, deviceVars
<1>5. f \in Forms /\ form' = [form EXCEPT ![c] = f]
  BY <1>1 DEF Save, Forms
<1>6. f.awaiting /\ f.spDirty = form[c].spDirty /\ f.sp = form[c].sp /\ f.appliedSp = form[c].appliedSp
  BY <1>1 DEF Forms
<1> HIDE DEF f
<1>7. Marks(f)
  BY <1>1, <1>6 DEF Marks
<1>8. edits' \in 0..MaxEdits /\ fan' = fan
  BY DEF Save, FormInv
<1> QED
  BY <1>4, <1>5, <1>7, <1>8, FormInvFrom

LEMMA OperateStep ==
  ASSUME FormInv, NEW c \in Clients, OperateForm(c) \/ LinkAlone(c)
  PROVE  FormInv'
<1>1. CASE Edit(c) \/ Save(c)
  BY <1>1, EditStep, SaveStep
<1>2. CASE (AskState(c) \/ SendPing(c)) /\ UNCHANGED <<form, fan, edits>>
  <2>1. PICK type \in {"get_state", "ping"} : Send(c, type, NoData)
    BY <1>2 DEF AskState, SendPing
  <2>2. Says(type, NoData)
    BY <2>1 DEF Says
  <2>3. Typed(FormReports)' /\ applied' = applied
    BY <2>1, <2>2, SendTyped DEF FormInv, Send, deviceVars
  <2> QED
    BY <1>2, <2>3, FormInvSame DEF FormInv
<1>3. CASE LinkAlone(c)
  <2>1. Typed(FormReports)' /\ applied' = applied
    BY <1>3, TimerTyped, ConnectTyped, DropTyped DEF LinkAlone, FormInv, TimerEnds, Connect, Drop, deviceVars
  <2> QED
    BY <1>3, <2>1, FormInvSame DEF FormInv, LinkAlone
<1> QED
  BY <1>1, <1>2, <1>3 DEF OperateForm

LEMMA HandleStep ==
  ASSUME FormInv, NEW c \in Clients, HandleForm(c)
  PROVE  FormInv'
<1>1. ASSUME NEW s \in Settings, s.sp # NoNumber
      PROVE  Report(s) \in FormReports
  BY <1>1, FormAssumption DEF Report, FormReports, FormInv
<1>2. CASE HandleConnect(c, Report(applied)) \/ HandleGetState(c, Report(applied)) \/ HandlePing(c)
  <2>1. Report(applied) \in FormReports
    BY <1>1 DEF FormInv
  <2>2. Typed(FormReports)' /\ applied' = applied
    BY <1>2, <2>1, HandleTyped DEF FormInv, HandleConnect, HandleGetState, HandlePing, deviceVars
  <2> QED
    BY <2>2, FormInvSame DEF FormInv, HandleForm
<1>3. CASE HandleSettings(c, AsFloat(Sent(c)), Report(AsFloat(Sent(c))))
  <2>1. up[c] # <<>> /\ IsSetting(Head(up[c])) /\ up[c] \in Seq(Sendable \cup Joining)
    BY <1>3 DEF HandleSettings, Taken, IsSetting, FormInv, Typed, UnderWay
  <2>2. Sent(c) \in Settings
    BY <2>1, HeadTailProperties, SettingsSent DEF Sent
  <2>3. AsFloat(Sent(c)) \in Settings /\ AsFloat(Sent(c)).sp # NoNumber
    BY <2>2, FormAssumption DEF AsFloat
  <2>4. Report(AsFloat(Sent(c))) \in FormReports
    BY <1>1, <2>3
  <2>5. Typed(FormReports)' /\ applied' = AsFloat(Sent(c))
    BY <1>3, <2>4, HandleTyped DEF FormInv, HandleSettings
  <2> QED
    BY <2>3, <2>5, FormInvSame DEF FormInv, HandleForm
<1> QED
  BY <1>2, <1>3 DEF HandleForm

LEMMA ReceiveStep ==
  ASSUME FormInv, NEW c \in Clients, ReceiveForm(c)
  PROVE  FormInv'
<1>1. CASE ReceiveState(c) /\ form' = [form EXCEPT ![c] = ApplyState(@, Head(down[c]).state)]
           /\ UNCHANGED <<fan, edits>>
  <2> DEFINE r == Head(down[c]).state
             f == ApplyState(form[c], r)
  <2>1. Typed(FormReports)' /\ r \in FormReports /\ applied' = applied
    BY <1>1, StateTyped, StateType DEF FormInv, Typed, ReceiveState, deviceVars
  <2>2. form[c] \in Forms /\ (~form[c].spDirty => form[c].sp = form[c].appliedSp)
    BY DEF FormInv, MarksTellTheTruth
  <2>3. f \in Forms /\ Marks(f)
    BY <2>1, <2>2, ApplyStateType DEF Marks
  <2>4. form' = [form EXCEPT ![c] = f] /\ edits' \in 0..MaxEdits
    BY <1>1 DEF FormInv
  <2> HIDE DEF f
  <2> QED
    BY <1>1, <2>1, <2>3, <2>4, FormInvFrom
<1>2. CASE ReceivePong(c) /\ UNCHANGED <<form, fan, edits>>
  <2>1. Typed(FormReports)' /\ applied' = applied
    BY <1>2, PongTyped DEF FormInv, ReceivePong, deviceVars
  <2> QED
    BY <1>2, <2>1, FormInvSame DEF FormInv
<1> QED
  BY <1>1, <1>2 DEF ReceiveForm

LEMMA FormInvNext == FormInv /\ [FormNext]_formVars => FormInv'
<1> SUFFICES ASSUME FormInv, [FormNext]_formVars
             PROVE  FormInv'
  OBVIOUS
<1>1. ASSUME NEW c \in Clients, OperateForm(c) \/ LinkAlone(c) \/ HandleForm(c) \/ ReceiveForm(c)
      PROVE  FormInv'
  BY <1>1, OperateStep, HandleStep, ReceiveStep
<1>2. CASE BuildReport \/ SendReport
  <2>1. Report(applied) \in FormReports
    BY FormAssumption DEF Report, FormReports, FormInv
  <2>2. Typed(FormReports)' /\ applied' = applied
    BY <1>2, <2>1, LoopTyped DEF FormInv, BuildReport, SendReport, BuildBroadcast, SendBroadcast
  <2> QED
    BY <1>2, <2>2, FormInvSame DEF FormInv, BuildReport, SendReport
<1>3. CASE ControlPass
  <2>1. Typed(FormReports)' /\ applied' = applied
    BY <1>3, StutterTyped DEF FormInv, ControlPass, linkVars, deviceVars
  <2>2. fan' \in Percents
    BY <1>3, FormAssumption DEF ControlPass, FormInv
  <2> QED
    BY <1>3, <2>1, <2>2, FormInvSame DEF FormInv, ControlPass
<1>4. CASE UNCHANGED formVars
  <2>1. Typed(FormReports)' /\ applied' = applied
    BY <1>4, StutterTyped DEF FormInv, formVars, linkVars, deviceVars
  <2> QED
    BY <1>4, <2>1, FormInvSame DEF FormInv, formVars
<1> QED
  BY <1>1, <1>2, <1>3, <1>4 DEF FormNext

LEMMA FormInvAlways == FormSpec => []FormInv
BY FormInvInit, FormInvNext, PTL DEF FormSpec

\* The types of the form, of the broadcasts that reach it and of the link
\* below; the firmware never keeps a number that is none (AsFloat).
THEOREM FormTypeCorrect == FormSpec => []FormTypeOK
<1>1. FormInv => FormTypeOK
  BY DEF FormInv, Typed, FormTypeOK, FormReports
<1> QED
  BY <1>1, FormInvAlways, PTL

\* Whatever is clicked, typed, saved, received and lost: unless a save is on
\* its way the mode button is marked exactly when it differs from the last
\* broadcast, and a field without a mark shows what the last broadcast said.
THEOREM MarksAlwaysTrue == FormSpec => []MarksTellTheTruth
<1>1. FormInv => MarksTellTheTruth
  BY DEF FormInv
<1> QED
  BY <1>1, FormInvAlways, PTL

----------------------------------------------------------------------------
(* How often a message can still take effect.  Copies of message i wait in   *)
(* the queue upward, and its timer can add one.                              *)

Copy(m, i) == IsSetting(m) /\ m.id = i

\* At most n copies in q, for n up to two.
AtMost(q, i, n) ==
  /\ n = 0 => \A k \in DOMAIN q : ~Copy(q[k], i)
  /\ n = 1 => \A j, k \in DOMAIN q : j < k => ~(Copy(q[j], i) /\ Copy(q[k], i))
  /\ n = 2 => \A j, k, l \in DOMAIN q :
                j < k /\ k < l => ~(Copy(q[j], i) /\ Copy(q[k], i) /\ Copy(q[l], i))

Due(q, i) == IF \E k \in DOMAIN q : Copy(q[k], i) THEN 1 ELSE 0

Spent(c, i) == \E n \in 0..2 : AtMost(up[c], i, n) /\ handled[c][i] + n + Due(timers[c], i) <= 2

TwiceAtMost(c) == \A i \in Numbers : /\ i >= seq[c] => handled[c][i] = 0
                                     /\ Spent(c, i)

LEMMA AtMostAppend ==
  ASSUME NEW q \in Seq(Message), NEW m \in Message, NEW i \in Numbers, NEW n \in 0..2, AtMost(q, i, n)
  PROVE  /\ ~Copy(m, i) => AtMost(Append(q, m), i, n)
         /\ n < 2 => AtMost(Append(q, m), i, n + 1)
<1> DEFINE p == Append(q, m)
           l == Len(q) + 1
<1>1. /\ DOMAIN q = 1..Len(q) /\ Len(q) \in Nat /\ DOMAIN p = 1..l
      /\ p[l] = m /\ \A k \in DOMAIN q : p[k] = q[k]
  BY AppendProperties
<1>2. /\ \A k \in DOMAIN p : k \in DOMAIN q \/ k = l
      /\ \A j, k \in DOMAIN p : j < k => j \in DOMAIN q
  BY <1>1
<1> HIDE DEF p, l
<1>3. ASSUME ~Copy(m, i)
      PROVE  AtMost(p, i, n)
  BY <1>1, <1>2, <1>3 DEF AtMost
<1>4. ASSUME n < 2
      PROVE  AtMost(p, i, n + 1)
  <2>1. CASE n = 0
    BY <1>1, <1>2, <2>1 DEF AtMost
  <2>2. CASE n = 1
    BY <1>1, <1>2, <2>2 DEF AtMost
  <2> QED
    BY <1>4, <2>1, <2>2
<1> QED
  BY <1>3, <1>4 DEF p

LEMMA AtMostTail ==
  ASSUME NEW q \in Seq(Message), q # <<>>, NEW i \in Numbers, NEW n \in 0..2, AtMost(q, i, n)
  PROVE  /\ AtMost(Tail(q), i, n)
         /\ Copy(Head(q), i) => n > 0 /\ AtMost(Tail(q), i, n - 1)
<1> DEFINE p == Tail(q)
<1>1. /\ 1 \in DOMAIN q /\ Head(q) = q[1]
      /\ \A k \in DOMAIN p : k + 1 \in DOMAIN q /\ p[k] = q[k + 1] /\ k \in Nat \ {0}
  OBVIOUS
<1> HIDE DEF p
<1>2. AtMost(p, i, n)
  <2>1. \A j, k \in DOMAIN p : j < k => j + 1 < k + 1
    BY <1>1
  <2> QED
    BY <1>1, <2>1 DEF AtMost
<1>3. ASSUME Copy(Head(q), i)
      PROVE  n > 0 /\ AtMost(p, i, n - 1)
  <2>1. \A j, k \in DOMAIN p : j < k => j + 1 < k + 1 /\ 1 < j + 1
    BY <1>1
  <2>2. n # 0
    BY <1>1, <1>3 DEF AtMost
  <2>3. CASE n = 1
    BY <1>1, <1>3, <2>3 DEF AtMost
  <2>4. CASE n = 2
    BY <1>1, <1>3, <2>1, <2>4 DEF AtMost
  <2> QED
    BY <2>2, <2>3, <2>4
<1> QED
  BY <1>2, <1>3 DEF p

\* No more copies, and the timers' no more either.
LEMMA AtMostFewer ==
  ASSUME NEW q, NEW p, NEW i \in Numbers, NEW n \in 0..2, AtMost(q, i, n),
         \A k \in DOMAIN p : k \in DOMAIN q /\ (Copy(p[k], i) => Copy(q[k], i))
  PROVE  AtMost(p, i, n)
BY DEF AtMost

LEMMA DueType == \A q, i : Due(q, i) \in 0..1
BY DEF Due

LEMMA DueFewer ==
  ASSUME NEW q, NEW p, NEW i, \A k \in DOMAIN p : \E l \in DOMAIN q : p[k] = q[l]
  PROVE  Due(p, i) <= Due(q, i)
BY DEF Due

LEMMA DueAppend ==
  ASSUME NEW q \in Seq(Message), NEW m \in Message, NEW i, ~Copy(m, i)
  PROVE  Due(Append(q, m), i) = Due(q, i)
<1>1. /\ DOMAIN q = 1..Len(q) /\ DOMAIN Append(q, m) = 1..Len(q) + 1 /\ Len(q) \in Nat
      /\ \A k \in 1..Len(q) : Append(q, m)[k] = q[k]
      /\ Append(q, m)[Len(q) + 1] = m
  BY AppendProperties, LenProperties
<1>2. \A k \in DOMAIN Append(q, m) : k \in DOMAIN q \/ k = Len(q) + 1
  BY <1>1
<1>3. (\E k \in DOMAIN Append(q, m) : Copy(Append(q, m)[k], i)) <=> \E k \in DOMAIN q : Copy(q[k], i)
  BY <1>1, <1>2
<1> QED
  BY <1>3 DEF Due

LEMMA TwiceSame ==
  ASSUME NEW c \in Clients, TwiceAtMost(c), up'[c] = up[c], timers'[c] = timers[c],
         seq'[c] = seq[c], handled'[c] = handled[c]
  PROVE  TwiceAtMost(c)'
BY DEF TwiceAtMost, Spent

LEMMA SendTwice ==
  ASSUME NEW Reports, Typed(Reports), NEW c \in Clients, TwiceAtMost(c),
         NEW type, NEW data, Says(type, data), Send(c, type, data)
  PROVE  TwiceAtMost(c)'
<1>1. CASE open[c]
  <2> DEFINE m == [type |-> type, id |-> seq[c], data |-> data]
  <2>1. /\ MaySend /\ Number(c) /\ handled' = handled /\ seq'[c] = seq[c] + 1 /\ seq[c] \in Nat
        /\ up'[c] = Append(up[c], m) /\ timers'[c] = Append(timers[c], m)
    BY <1>1 DEF Send, Number, Typed, LinkTypeOK
  <2>2. m \in Sendable /\ m \in Message /\ m.id = seq[c]
    BY <2>1, NumberType, SendableType DEF Typed
  <2> HIDE DEF m
  <2>3. /\ up[c] \in Seq(Message) /\ timers[c] \in Seq(Message) /\ handled[c] \in [Numbers -> Nat]
        /\ UnderWay(c)
    BY DEF Typed, LinkTypeOK
  <2>4. ASSUME NEW i \in Numbers
        PROVE  /\ i >= seq'[c] => handled'[c][i] = 0
               /\ Spent(c, i)'
    <3>1. (i >= seq[c] => handled[c][i] = 0) /\ i \in Nat
      BY DEF TwiceAtMost, Numbers
    <3>2. PICK n \in 0..2 : AtMost(up[c], i, n) /\ handled[c][i] + n + Due(timers[c], i) <= 2
      BY DEF TwiceAtMost, Spent
    <3>3. CASE i # seq[c]
      <4>1. ~Copy(m, i)
        BY <2>2, <3>3 DEF Copy
      <4>2. AtMost(up'[c], i, n)
        BY <2>1, <2>2, <2>3, <3>2, <4>1, AtMostAppend
      <4>3. Due(timers'[c], i) = Due(timers[c], i)
        BY <2>1, <2>2, <2>3, <4>1, DueAppend
      <4> QED
        BY <2>1, <3>1, <3>2, <4>2, <4>3 DEF Spent
    <3>4. CASE i = seq[c]
      <4>1. AtMost(up[c], i, 0)
        BY <2>3, <3>1, <3>4, IdsUnderWay DEF AtMost, Copy, UnderWay
      <4>2. AtMost(up'[c], i, 0 + 1)
        BY <2>1, <2>2, <2>3, <4>1, AtMostAppend
      <4>3. handled'[c][i] + 1 + Due(timers'[c], i) <= 2
        BY <2>1, <3>1, <3>4, DueType
      <4> QED
        BY <2>1, <3>1, <3>4, <4>2, <4>3 DEF Spent
    <3> QED
      BY <3>3, <3>4
  <2> QED
    BY <2>4 DEF TwiceAtMost
<1>2. CASE ~open[c]
  BY <1>2, TwiceSame DEF Send
<1> QED
  BY <1>1, <1>2

LEMMA TimerTwice ==
  ASSUME NEW Reports, Typed(Reports), NEW c \in Clients, TwiceAtMost(c), TimerEnds(c)
  PROVE  TwiceAtMost(c)'
<1> DEFINE m == Head(timers[c])
<1>1. /\ timers[c] # <<>> /\ timers'[c] = Tail(timers[c]) /\ UNCHANGED <<seq, handled>>
      /\ up'[c] = IF open[c] THEN Append(up[c], m) ELSE up[c]
  BY DEF TimerEnds, Typed, LinkTypeOK, history
<1>2. /\ up[c] \in Seq(Message) /\ timers[c] \in Seq(Message) /\ handled[c] \in [Numbers -> Nat]
      /\ UnderWay(c)
  BY DEF Typed, LinkTypeOK
<1>3. /\ 1 \in DOMAIN timers[c] /\ m = timers[c][1] /\ m \in Message
      /\ \A k \in DOMAIN Tail(timers[c]) : /\ k + 1 \in DOMAIN timers[c] /\ 1 < k + 1
                                           /\ Tail(timers[c])[k] = timers[c][k + 1]
  BY <1>1, <1>2
<1> HIDE DEF m
<1>4. ASSUME NEW i \in Numbers
      PROVE  Spent(c, i)'
  <2>1. PICK n \in 0..2 : AtMost(up[c], i, n) /\ handled[c][i] + n + Due(timers[c], i) <= 2
    BY DEF TwiceAtMost, Spent
  <2>2. Due(timers'[c], i) <= Due(timers[c], i)
    BY <1>1, <1>3, DueFewer
  <2>3. CASE Copy(m, i)
    <3>1. Due(timers[c], i) = 1
      BY <1>3, <2>3 DEF Due
    <3>2. Due(timers'[c], i) = 0
      <4>1. \A k \in DOMAIN Tail(timers[c]) : m.id < Tail(timers[c])[k].id /\ Tail(timers[c])[k].id \in Nat
        BY <1>2, <1>3, IdsUnderWay DEF UnderWay
      <4> QED
        BY <1>1, <2>3, <4>1 DEF Due, Copy, Numbers
    <3>3. n < 2 /\ handled[c][i] + (n + 1) + 0 <= 2
      BY <1>2, <2>1, <3>1
    <3>4. AtMost(up'[c], i, n) \/ AtMost(up'[c], i, n + 1)
      BY <1>1, <1>2, <1>3, <2>1, <3>3, AtMostAppend
    <3>5. handled[c][i] + n + 0 <= 2 /\ n + 1 \in 0..2
      BY <1>2, <3>3
    <3> QED
      BY <1>1, <3>2, <3>3, <3>4, <3>5 DEF Spent
  <2>4. CASE ~Copy(m, i)
    <3>1. AtMost(up'[c], i, n)
      BY <1>1, <1>2, <1>3, <2>1, <2>4, AtMostAppend
    <3>2. handled'[c][i] + n + Due(timers'[c], i) <= 2
      BY <1>1, <1>2, <2>1, <2>2, DueType
    <3> QED
      BY <3>1, <3>2 DEF Spent
  <2> QED
    BY <2>3, <2>4
<1> QED
  BY <1>1, <1>4 DEF TwiceAtMost

LEMMA ConnectTwice ==
  ASSUME NEW Reports, Typed(Reports), NEW c \in Clients, TwiceAtMost(c), Connect(c)
  PROVE  TwiceAtMost(c)'
<1> DEFINE get == [type |-> "get_state", id |-> seq[c], data |-> NoData]
           new == [type |-> "connect", id |-> 0, data |-> NoData]
<1>1. /\ MaySend /\ Number(c) /\ seq'[c] = seq[c] + 1 /\ seq[c] \in Nat /\ handled' = handled
      /\ up'[c] = Append(Append(up[c], new), get) /\ timers'[c] = Append(timers[c], get)
  <2>1. up' = [up EXCEPT ![c] = @ \o <<new, get>>] /\ timers' = [timers EXCEPT ![c] = Append(@, get)]
        /\ MaySend /\ Number(c) /\ handled' = handled
    BY DEF Connect, history
  <2>2. up[c] \in Seq(Message) /\ up'[c] = up[c] \o <<new, get>> /\ timers'[c] = Append(timers[c], get)
    BY <2>1 DEF Typed, LinkTypeOK
  <2>3. up'[c] = Append(Append(up[c], new), get)
    BY <2>2, TwoMoreAppended
  <2>4. seq'[c] = seq[c] + 1 /\ seq[c] \in Nat
    BY <2>1 DEF Number, Typed, LinkTypeOK
  <2> QED
    BY <2>1, <2>2, <2>3, <2>4
<1>2. get \in Message /\ new \in Message
  <2>1. Says("get_state", NoData)
    BY DEF Says
  <2> QED
    BY <1>1, <2>1, NumberType, SendableType, LinkAssumption DEF Typed, Message
<1>3. \A i \in Numbers : ~Copy(get, i) /\ ~Copy(new, i)
  BY DEF Copy, IsSetting
<1>4. up[c] \in Seq(Message) /\ timers[c] \in Seq(Message) /\ handled[c] \in [Numbers -> Nat]
  BY DEF Typed, LinkTypeOK
<1> HIDE DEF get, new
<1>5. ASSUME NEW i \in Numbers
      PROVE  Spent(c, i)'
  <2>1. PICK n \in 0..2 : AtMost(up[c], i, n) /\ handled[c][i] + n + Due(timers[c], i) <= 2
    BY DEF TwiceAtMost, Spent
  <2>2. Append(up[c], new) \in Seq(Message) /\ up'[c] = Append(Append(up[c], new), get)
    BY <1>1, <1>2, <1>4, AppendProperties
  <2>3. AtMost(Append(up[c], new), i, n)
    BY <1>2, <1>3, <1>4, <2>1, AtMostAppend
  <2>4. AtMost(up'[c], i, n)
    BY <1>2, <1>3, <2>2, <2>3, AtMostAppend
  <2>5. Due(timers'[c], i) = Due(timers[c], i)
    BY <1>1, <1>2, <1>3, <1>4, DueAppend
  <2> QED
    BY <1>1, <2>1, <2>4, <2>5 DEF Spent
<1>6. \A i \in Numbers : i >= seq'[c] => handled'[c][i] = 0
  BY <1>1 DEF TwiceAtMost, Numbers
<1> QED
  BY <1>5, <1>6 DEF TwiceAtMost

LEMMA DropTwice ==
  ASSUME NEW Reports, Typed(Reports), NEW c \in Clients, TwiceAtMost(c), Drop(c)
  PROVE  TwiceAtMost(c)'
<1>1. PICK n \in 0..Len(up[c]) : up' = [up EXCEPT ![c] = [i \in 1..n |-> Stale(up[c][i])]]
  BY DEF Drop
<1>2. UNCHANGED <<timers, seq, handled>>
  BY DEF Drop
<1>3. up'[c] = [i \in 1..n |-> Stale(up[c][i])] /\ up[c] \in Seq(Message)
  BY <1>1 DEF Typed, LinkTypeOK
<1>4. \A k \in DOMAIN up'[c] : k \in DOMAIN up[c] /\ up'[c][k] = Stale(up[c][k]) /\ up[c][k] \in Message
  BY <1>3
<1>5. ASSUME NEW i \in Numbers, NEW m \in Message, Copy(Stale(m), i)
      PROVE  Copy(m, i)
  BY <1>5 DEF Copy, IsSetting, Stale, Message
<1>6. ASSUME NEW i \in Numbers
      PROVE  Spent(c, i)'
  <2>1. PICK k \in 0..2 : AtMost(up[c], i, k) /\ handled[c][i] + k + Due(timers[c], i) <= 2
    BY DEF TwiceAtMost, Spent
  <2>2. AtMost(up'[c], i, k)
    BY <1>4, <1>5, <2>1, AtMostFewer
  <2> QED
    BY <1>2, <2>1, <2>2 DEF Spent
<1> QED
  BY <1>2, <1>6 DEF TwiceAtMost

LEMMA PongTwice ==
  ASSUME NEW Reports, Typed(Reports), NEW c \in Clients, TwiceAtMost(c), ReceivePong(c)
  PROVE  TwiceAtMost(c)'
<1>1. UNCHANGED <<open, seq, up, handled>>
  BY DEF ReceivePong
<1>2. CASE UNCHANGED <<timers, disturbed>>
  BY <1>1, <1>2, TwiceSame
<1>3. ASSUME NEW j \in DOMAIN timers[c], timers' = [timers EXCEPT ![c] = RemoveAt(@, j)]
      PROVE  TwiceAtMost(c)'
  <2>1. timers[c] \in Seq(Message) /\ timers'[c] = RemoveAt(timers[c], j)
        /\ handled[c] \in [Numbers -> Nat]
    BY <1>3 DEF Typed, LinkTypeOK
  <2>2. \A k \in DOMAIN timers'[c] : \E l \in DOMAIN timers[c] : timers'[c][k] = timers[c][l]
    <3>1. /\ timers'[c] \in Seq(Message) /\ Len(timers'[c]) = Len(timers[c]) - 1
          /\ \A k \in 1..Len(timers[c]) - 1 :
               timers'[c][k] = IF k < j THEN timers[c][k] ELSE timers[c][k + 1]
      BY <2>1, RemovedType
    <3>2. /\ DOMAIN timers'[c] = 1..Len(timers[c]) - 1 /\ DOMAIN timers[c] = 1..Len(timers[c])
          /\ Len(timers[c]) \in Nat
      BY <2>1, <3>1, LenProperties
    <3>3. ASSUME NEW k \in DOMAIN timers'[c]
          PROVE  \E l \in DOMAIN timers[c] : timers'[c][k] = timers[c][l]
      <4>1. k \in DOMAIN timers[c] /\ k + 1 \in DOMAIN timers[c]
        BY <3>2
      <4> QED
        BY <3>1, <3>2, <4>1
    <3> QED
      BY <3>3
  <2>3. ASSUME NEW i \in Numbers
        PROVE  Spent(c, i)'
    <3>1. PICK n \in 0..2 : AtMost(up[c], i, n) /\ handled[c][i] + n + Due(timers[c], i) <= 2
      BY DEF TwiceAtMost, Spent
    <3>2. Due(timers'[c], i) <= Due(timers[c], i)
      BY <2>2, DueFewer
    <3>3. handled[c][i] + n + Due(timers'[c], i) <= 2
      BY <2>1, <3>1, <3>2, DueType
    <3> QED
      BY <1>1, <3>1, <3>3 DEF Spent
  <2> QED
    BY <1>1, <2>3 DEF TwiceAtMost
<1> QED
  BY <1>2, <1>3 DEF ReceivePong

LEMMA TakenTwice ==
  ASSUME NEW Reports, Typed(Reports), NEW c \in Clients, TwiceAtMost(c),
         NEW type, Taken(c, type), UNCHANGED <<pageVars, handled>>
  PROVE  TwiceAtMost(c)'
<1>1. up[c] # <<>> /\ up[c] \in Seq(Message) /\ up'[c] = Tail(up[c]) /\ UNCHANGED <<timers, seq>>
  BY DEF Taken, Typed, LinkTypeOK, pageVars
<1>2. ASSUME NEW i \in Numbers
      PROVE  Spent(c, i)'
  <2>1. PICK n \in 0..2 : AtMost(up[c], i, n) /\ handled[c][i] + n + Due(timers[c], i) <= 2
    BY DEF TwiceAtMost, Spent
  <2> QED
    BY <1>1, <2>1, AtMostTail DEF Spent
<1> QED
  BY <1>1, <1>2 DEF TwiceAtMost

LEMMA SettingsTwice ==
  ASSUME NEW Reports, Typed(Reports), NEW c \in Clients, TwiceAtMost(c),
         NEW kept, NEW report, HandleSettings(c, kept, report)
  PROVE  TwiceAtMost(c)'
<1> DEFINE m == Head(up[c])
<1>1. /\ up[c] # <<>> /\ up[c] \in Seq(Message) /\ up'[c] = Tail(up[c]) /\ UNCHANGED <<timers, seq>>
      /\ m = up[c][1] /\ IsSetting(m) /\ UnderWay(c)
  BY DEF HandleSettings, Taken, Typed, LinkTypeOK, pageVars, IsSetting
<1>2. m \in Sendable \cup Joining /\ m.id \in Numbers /\ m.id < seq[c]
  BY <1>1, IdsUnderWay, SettingsSent DEF UnderWay
<1>3. /\ handled[c] \in [Numbers -> Nat] /\ seq[c] \in Nat
      /\ \A i \in Numbers : handled'[c][i] = handled[c][i] + (IF Copy(m, i) THEN 1 ELSE 0)
  BY <1>1, <1>2 DEF HandleSettings, Typed, LinkTypeOK, Copy
<1> HIDE DEF m
<1>4. ASSUME NEW i \in Numbers
      PROVE  /\ i >= seq'[c] => handled'[c][i] = 0
             /\ Spent(c, i)'
  <2>1. PICK n \in 0..2 : AtMost(up[c], i, n) /\ handled[c][i] + n + Due(timers[c], i) <= 2
    BY DEF TwiceAtMost, Spent
  <2>2. i >= seq[c] => handled[c][i] = 0
    BY DEF TwiceAtMost
  <2>3. CASE Copy(m, i)
    <3>1. n > 0 /\ AtMost(up'[c], i, n - 1) /\ n - 1 \in 0..2
      BY <1>1, <2>1, <2>3, AtMostTail DEF m
    <3>2. handled'[c][i] + (n - 1) + Due(timers[c], i) <= 2
      BY <1>3, <2>1, <2>3, DueType
    <3>3. ~(i >= seq[c])
      BY <1>2, <1>3, <2>3 DEF Copy, Numbers
    <3> QED
      BY <1>1, <3>1, <3>2, <3>3 DEF Spent
  <2>4. CASE ~Copy(m, i)
    <3>1. AtMost(up'[c], i, n) /\ handled'[c][i] = handled[c][i]
      BY <1>1, <1>3, <2>1, <2>4, AtMostTail
    <3> QED
      BY <1>1, <2>1, <2>2, <3>1 DEF Spent
  <2> QED
    BY <2>3, <2>4
<1> QED
  BY <1>4 DEF TwiceAtMost

----------------------------------------------------------------------------
(* No message takes effect a third time *)

TwiceInv == LinkInv /\ \A c \in Clients : TwiceAtMost(c)

LEMMA TwiceInvInit == Init => TwiceInv
<1> SUFFICES ASSUME Init
             PROVE  TwiceInv
  OBVIOUS
<1>1. \A c \in Clients : /\ up[c] = <<>> /\ timers[c] = <<>>
                         /\ \A i \in Numbers : handled[c][i] = 0
  BY DEF Init, LinkInit
<1>2. DOMAIN <<>> = {} /\ 0 \in 0..2
  OBVIOUS
<1>3. \A i : AtMost(<<>>, i, 0) /\ Due(<<>>, i) = 0
  BY <1>2 DEF AtMost, Due
<1>4. \A c \in Clients, i \in Numbers : Spent(c, i)
  BY <1>1, <1>2, <1>3 DEF Spent
<1> QED
  BY <1>1, <1>4, LinkInvInit DEF TwiceInv, TwiceAtMost

\* What an action of page c leaves of the other pages.
LEMMA TwiceFromPage ==
  ASSUME \A d \in Clients : TwiceAtMost(d), NEW c \in Clients, TwiceAtMost(c)', OnlyAt(c),
         \A d \in Clients \ {c} : handled'[d] = handled[d]
  PROVE  \A d \in Clients : TwiceAtMost(d)'
BY TwiceSame DEF OnlyAt

LEMMA TwiceInvNext == TwiceInv /\ [Next]_linkVars => TwiceInv'
<1> SUFFICES ASSUME TwiceInv, [Next]_linkVars
             PROVE  \A d \in Clients : TwiceAtMost(d)'
  BY LinkInvNext DEF TwiceInv
<1>1. Typed(Settings) /\ LinkTypeOK(Settings) /\ \A d \in Clients : TwiceAtMost(d)
  BY DEF TwiceInv, LinkInv, Typed
<1>2. ASSUME NEW c \in Clients, Operate(c)
      PROVE  \A d \in Clients : TwiceAtMost(d)'
  <2>1. PICK type, data : Send(c, type, data) /\ Says(type, data)
    BY <1>2 DEF Operate, SendSettings, AskState, SendPing, Says
  <2>2. OnlyAt(c) /\ handled' = handled
    BY <1>1, <2>1 DEF OnlyAt, Send, Number, LinkTypeOK
  <2> QED
    BY <1>1, <2>1, <2>2, SendTwice, TwiceFromPage
<1>3. ASSUME NEW c \in Clients, TimerEnds(c)
      PROVE  \A d \in Clients : TwiceAtMost(d)'
  <2>1. OnlyAt(c) /\ handled' = handled
    BY <1>1, <1>3 DEF OnlyAt, TimerEnds, LinkTypeOK, history
  <2> QED
    BY <1>1, <1>3, <2>1, TimerTwice, TwiceFromPage
<1>4. ASSUME NEW c \in Clients, Connect(c)
      PROVE  \A d \in Clients : TwiceAtMost(d)'
  <2>1. OnlyAt(c) /\ handled' = handled
    BY <1>1, <1>4 DEF OnlyAt, Connect, Number, LinkTypeOK, history
  <2> QED
    BY <1>1, <1>4, <2>1, ConnectTwice, TwiceFromPage
<1>5. ASSUME NEW c \in Clients, Drop(c)
      PROVE  \A d \in Clients : TwiceAtMost(d)'
  <2>1. OnlyAt(c) /\ handled' = handled
    BY <1>1, <1>5 DEF OnlyAt, Drop, LinkTypeOK
  <2> QED
    BY <1>1, <1>5, <2>1, DropTwice, TwiceFromPage
<1>6. ASSUME NEW c \in Clients, ReceivePong(c)
      PROVE  \A d \in Clients : TwiceAtMost(d)'
  <2>1. OnlyAt(c) /\ handled' = handled
    BY <1>1, <1>6 DEF OnlyAt, ReceivePong, LinkTypeOK
  <2> QED
    BY <1>1, <1>6, <2>1, PongTwice, TwiceFromPage
<1>7. ASSUME NEW c \in Clients, Handle(c)
      PROVE  \A d \in Clients : TwiceAtMost(d)'
  <2>1. PICK type : Taken(c, type)
    BY <1>7 DEF Handle, HandleConnect, HandleGetState, HandlePing, HandleSettings
  <2>2. UNCHANGED pageVars
    BY <1>7 DEF Handle, HandleConnect, HandleGetState, HandlePing, HandleSettings
  <2>3. OnlyAt(c)
    BY <1>1, <2>1, <2>2 DEF OnlyAt, Taken, LinkTypeOK, pageVars
  <2>4. \A d \in Clients \ {c} : handled'[d] = handled[d]
    BY <1>1, <1>7 DEF Handle, HandleConnect, HandleGetState, HandlePing, HandleSettings, history, LinkTypeOK
  <2>5. CASE HandleSettings(c, Sent(c), Sent(c))
    BY <1>1, <2>3, <2>4, <2>5, SettingsTwice, TwiceFromPage
  <2>6. CASE handled' = handled
    BY <1>1, <2>1, <2>2, <2>3, <2>4, <2>6, TakenTwice, TwiceFromPage
  <2> QED
    BY <1>7, <2>5, <2>6 DEF Handle, HandleConnect, HandleGetState, HandlePing, history
<1>8. ASSUME UNCHANGED <<up, timers, seq, handled>>
      PROVE  \A d \in Clients : TwiceAtMost(d)'
  BY <1>1, <1>8, TwiceSame
<1>9. ASSUME Loop \/ UNCHANGED linkVars \/ \E c \in Clients : ReceiveState(c)
      PROVE  UNCHANGED <<up, timers, seq, handled>>
  BY <1>9 DEF Loop, BuildBroadcast, SendBroadcast, ReceiveState, linkVars, pageVars, history
<1> QED
  BY <1>2, <1>3, <1>4, <1>5, <1>6, <1>7, <1>8, <1>9 DEF Next, Receive

\* Sent and sent again is all: what is still on its way of a message, what
\* its timer may add and what was handled of it are two together (Send,
\* TimerEnds, HandleSettings), whatever is lost and reconnected.
THEOREM NeverHandledThrice == Spec => []NeverThreeTimes
<1>1. TwiceInv => NeverThreeTimes
  <2> SUFFICES ASSUME TwiceInv, NEW c \in Clients, NEW i \in Numbers
               PROVE  handled[c][i] <= 2
    BY DEF NeverThreeTimes
  <2>1. PICK n \in 0..2 : handled[c][i] + n + Due(timers[c], i) <= 2
    BY DEF TwiceInv, TwiceAtMost, Spent
  <2>2. handled[c][i] \in Nat
    BY DEF TwiceInv, LinkInv, Typed, LinkTypeOK
  <2> QED
    BY <2>1, <2>2, DueType
<1> QED
  BY <1>1, TwiceInvInit, TwiceInvNext, PTL DEF Spec

----------------------------------------------------------------------------
(* The last settings stand.  While nothing was disturbed, the last of a      *)
(* page's settings among its timers, or else on the way upward, are those it *)
(* sent last.                                                                *)

HasSetting(q) == \E k \in DOMAIN q : IsSetting(q[k])

EndsWith(q, x) ==
  HasSetting(q) => \E k \in DOMAIN q : /\ IsSetting(q[k]) /\ x = <<q[k].data>>
                                       /\ \A j \in DOMAIN q : j > k => ~IsSetting(q[j])

LEMMA EndSettingAppend ==
  ASSUME NEW q \in Seq(Message), NEW m \in Message, IsSetting(m)
  PROVE  HasSetting(Append(q, m)) /\ EndsWith(Append(q, m), <<m.data>>)
<1> DEFINE p == Append(q, m)
           n == Len(q) + 1
<1>1. DOMAIN p = 1..n /\ n \in Nat \ {0} /\ p[n] = m
  BY AppendProperties, LenProperties
<1> HIDE DEF p, n
<1>2. n \in DOMAIN p /\ \A k \in DOMAIN p : ~(k > n)
  BY <1>1
<1> QED
  BY <1>1, <1>2 DEF HasSetting, EndsWith, p

LEMMA EndOtherAppend ==
  ASSUME NEW q \in Seq(Message), NEW m \in Message, ~IsSetting(m)
  PROVE  /\ HasSetting(Append(q, m)) => HasSetting(q)
         /\ HasSetting(q) => HasSetting(Append(q, m))
         /\ \A x : EndsWith(q, x) => EndsWith(Append(q, m), x)
<1> DEFINE p == Append(q, m)
           n == Len(q) + 1
<1>1. /\ DOMAIN q = 1..Len(q) /\ Len(q) \in Nat /\ DOMAIN p = 1..n /\ n \in Nat /\ n = Len(q) + 1
      /\ p[n] = m /\ \A k \in DOMAIN q : p[k] = q[k]
  BY AppendProperties, LenProperties
<1> HIDE DEF p, n
<1>2. /\ \A k \in DOMAIN p : k \in DOMAIN q \/ k = n
      /\ \A k \in DOMAIN q : k \in DOMAIN p
  BY <1>1
<1>3. HasSetting(p) <=> HasSetting(q)
  BY <1>1, <1>2 DEF HasSetting
<1>4. ASSUME NEW x, EndsWith(q, x)
      PROVE  EndsWith(p, x)
  <2>1. CASE HasSetting(q)
    <3>1. PICK k \in DOMAIN q : /\ IsSetting(q[k]) /\ x = <<q[k].data>>
                                /\ \A j \in DOMAIN q : j > k => ~IsSetting(q[j])
      BY <1>4, <2>1 DEF EndsWith
    <3>2. k \in DOMAIN p /\ p[k] = q[k] /\ \A j \in DOMAIN p : j > k => ~IsSetting(p[j])
      BY <1>1, <1>2, <3>1
    <3> QED
      BY <3>1, <3>2 DEF EndsWith
  <2>2. CASE ~HasSetting(q)
    BY <1>3, <1>4, <2>2 DEF EndsWith
  <2> QED
    BY <2>1, <2>2
<1> QED
  BY <1>3, <1>4 DEF p

\* A queue in which old gives where a message was before.
LEMMA EndShift ==
  ASSUME NEW q, NEW p, NEW x, NEW old, EndsWith(q, x),
         \A k \in DOMAIN p : old[k] \in DOMAIN q /\ p[k] = q[old[k]],
         \A j, k \in DOMAIN p : old[j] > old[k] <=> j > k,
         HasSetting(p),
         \A l \in DOMAIN q : IsSetting(q[l]) => (\E k \in DOMAIN p : old[k] = l)
                                               \/ (\A k \in DOMAIN p : old[k] > l)
  PROVE  EndsWith(p, x)
<1>1. HasSetting(q)
  BY DEF HasSetting
<1>2. PICK l \in DOMAIN q : /\ IsSetting(q[l]) /\ x = <<q[l].data>>
                            /\ \A j \in DOMAIN q : j > l => ~IsSetting(q[j])
  BY <1>1 DEF EndsWith
<1>3. PICK k \in DOMAIN p : old[k] = l
  BY <1>2 DEF HasSetting
<1>4. IsSetting(p[k]) /\ x = <<p[k].data>> /\ \A j \in DOMAIN p : j > k => ~IsSetting(p[j])
  BY <1>2, <1>3
<1> QED
  BY <1>4 DEF EndsWith

LEMMA EndTail ==
  ASSUME NEW q \in Seq(Message), q # <<>>, NEW x, EndsWith(q, x)
  PROVE  /\ EndsWith(Tail(q), x)
         /\ HasSetting(Tail(q)) => HasSetting(q)
         /\ ~IsSetting(Head(q)) /\ HasSetting(q) => HasSetting(Tail(q))
         /\ IsSetting(Head(q)) /\ ~HasSetting(Tail(q)) => x = <<Head(q).data>>
<1> DEFINE p == Tail(q)
           old == [k \in DOMAIN p |-> k + 1]
<1>1. /\ 1 \in DOMAIN q /\ Head(q) = q[1] /\ DOMAIN q = 1..Len(q) /\ Len(q) \in Nat
      /\ DOMAIN p = 1..Len(q) - 1 /\ \A k \in DOMAIN p : p[k] = q[k + 1]
  OBVIOUS
<1> HIDE DEF p
<1>2. /\ \A k \in DOMAIN p : old[k] \in DOMAIN q /\ p[k] = q[old[k]] /\ old[k] > 1
      /\ \A j, k \in DOMAIN p : old[j] > old[k] <=> j > k
      /\ \A l \in DOMAIN q : l = 1 \/ \E k \in DOMAIN p : old[k] = l
  <2>1. \A l \in DOMAIN q : l = 1 \/ (l - 1 \in DOMAIN p /\ old[l - 1] = l)
    BY <1>1
  <2>2. /\ \A k \in DOMAIN p : old[k] \in DOMAIN q /\ p[k] = q[old[k]] /\ old[k] > 1
        /\ \A j, k \in DOMAIN p : old[j] > old[k] <=> j > k
    BY <1>1
  <2> HIDE DEF old
  <2> QED
    BY <2>1, <2>2
<1> HIDE DEF old
<1>3. HasSetting(p) => EndsWith(p, x)
  BY <1>2, EndShift
<1>4. EndsWith(p, x) /\ (HasSetting(p) => HasSetting(q))
  BY <1>2, <1>3 DEF HasSetting, EndsWith
<1>5. ~IsSetting(Head(q)) /\ HasSetting(q) => HasSetting(p)
  BY <1>1, <1>2 DEF HasSetting
<1>6. ASSUME IsSetting(Head(q)), ~HasSetting(p)
      PROVE  x = <<Head(q).data>>
  <2>1. PICK l \in DOMAIN q : IsSetting(q[l]) /\ x = <<q[l].data>>
    BY <1>1, <1>6 DEF HasSetting, EndsWith
  <2>2. l = 1
    BY <1>2, <1>6, <2>1 DEF HasSetting
  <2> QED
    BY <1>1, <2>1, <2>2
<1> QED
  BY <1>4, <1>5, <1>6 DEF p

LEMMA EndRemove ==
  ASSUME NEW q \in Seq(Message), NEW i \in DOMAIN q, ~IsSetting(q[i]), NEW x, EndsWith(q, x)
  PROVE  EndsWith(RemoveAt(q, i), x) /\ (HasSetting(RemoveAt(q, i)) <=> HasSetting(q))
<1> DEFINE p == RemoveAt(q, i)
           old == [k \in DOMAIN p |-> IF k < i THEN k ELSE k + 1]
<1>1. /\ p \in Seq(Message) /\ Len(p) = Len(q) - 1
      /\ \A k \in 1..Len(q) - 1 : p[k] = IF k < i THEN q[k] ELSE q[k + 1]
  BY RemovedType
<1> HIDE DEF p
<1>2. DOMAIN p = 1..Len(q) - 1 /\ DOMAIN q = 1..Len(q) /\ Len(q) \in Nat /\ i \in 1..Len(q)
  BY <1>1, LenProperties
<1>3. /\ \A k \in DOMAIN p : old[k] \in DOMAIN q /\ p[k] = q[old[k]]
      /\ \A j, k \in DOMAIN p : old[j] > old[k] <=> j > k
  BY <1>1, <1>2
<1>4. ASSUME NEW l \in DOMAIN q, IsSetting(q[l])
      PROVE  \E k \in DOMAIN p : old[k] = l
  <2>1. l # i
    BY <1>4
  <2>2. CASE l < i
    <3>1. l \in DOMAIN p /\ old[l] = l
      BY <1>2, <2>2
    <3> QED
      BY <3>1
  <2>3. CASE l > i
    <3>1. l - 1 \in DOMAIN p /\ old[l - 1] = l
      BY <1>2, <2>3
    <3> QED
      BY <3>1
  <2> QED
    BY <1>2, <2>1, <2>2, <2>3
<1> HIDE DEF old
<1>5. HasSetting(p) <=> HasSetting(q)
  BY <1>3, <1>4 DEF HasSetting
<1>6. HasSetting(p) => EndsWith(p, x)
  BY <1>3, <1>4, EndShift
<1> QED
  BY <1>5, <1>6 DEF EndsWith, p

Pending(c) == HasSetting(up[c]) \/ HasSetting(timers[c])

LastUnderWay(c) == /\ ~open[c] => ~HasSetting(timers[c])
                   /\ EndsWith(timers[c], last[c])
                   /\ ~HasSetting(timers[c]) => EndsWith(up[c], last[c])

Stands(c) == last[c] # <<>> /\ (Pending(c) \/ last[c] = <<applied>>)

\* Page c's settings are as much on their way after a step as before it.
StillStands(c) == \/ last'[c] = last[c] /\ (Pending(c) => Pending(c)')
                  \/ last'[c] # <<>> /\ Pending(c)'

LEMMA PendingSaid ==
  ASSUME NEW c, LastUnderWay(c), Pending(c)
  PROVE  last[c] # <<>>
BY SMTT(20) DEF LastUnderWay, Pending, EndsWith

LEMMA LastSame ==
  ASSUME NEW c, LastUnderWay(c), open'[c] = open[c], up'[c] = up[c],
         timers'[c] = timers[c], last'[c] = last[c]
  PROVE  LastUnderWay(c)' /\ StillStands(c)
BY DEF LastUnderWay, StillStands, Pending

LEMMA SendLast ==
  ASSUME NEW Reports, Typed(Reports), NEW c \in Clients, LastUnderWay(c),
         last \in [Clients -> Seq(Settings)],
         NEW type, NEW data, Says(type, data), Send(c, type, data)
  PROVE  LastUnderWay(c)' /\ StillStands(c)
<1>1. CASE open[c]
  <2> DEFINE m == [type |-> type, id |-> seq[c], data |-> data]
  <2>1. /\ MaySend /\ Number(c) /\ open' = open
        /\ up'[c] = Append(up[c], m) /\ timers'[c] = Append(timers[c], m)
        /\ last'[c] = IF IsSetting(m) THEN <<m.data>> ELSE last[c]
    BY <1>1 DEF Send, Typed, LinkTypeOK
  <2>2. m \in Message
    BY <2>1, NumberType, SendableType DEF Typed
  <2> HIDE DEF m
  <2>3. up[c] \in Seq(Message) /\ timers[c] \in Seq(Message)
    BY DEF Typed, LinkTypeOK
  <2>4. CASE IsSetting(m)
    <3>1. HasSetting(timers'[c]) /\ EndsWith(timers'[c], last'[c]) /\ last'[c] # <<>>
      BY <2>1, <2>2, <2>3, <2>4, EndSettingAppend
    <3> QED
      BY <1>1, <2>1, <3>1 DEF LastUnderWay, StillStands, Pending
  <2>5. CASE ~IsSetting(m)
    <3>1. /\ HasSetting(up'[c]) <=> HasSetting(up[c])
          /\ HasSetting(timers'[c]) <=> HasSetting(timers[c])
          /\ last'[c] = last[c]
          /\ EndsWith(timers[c], last[c]) => EndsWith(timers'[c], last[c])
          /\ EndsWith(up[c], last[c]) => EndsWith(up'[c], last[c])
      BY <2>1, <2>2, <2>3, <2>5, EndOtherAppend
    <3> QED
      BY <1>1, <2>1, <3>1 DEF LastUnderWay, StillStands, Pending
  <2> QED
    BY <2>4, <2>5
<1>2. CASE ~open[c]
  BY <1>2, LastSame DEF Send
<1> QED
  BY <1>1, <1>2

LEMMA TimerLast ==
  ASSUME NEW Reports, Typed(Reports), NEW c \in Clients, LastUnderWay(c), TimerEnds(c)
  PROVE  LastUnderWay(c)' /\ StillStands(c)
<1> DEFINE m == Head(timers[c])
<1>1. /\ timers[c] # <<>> /\ timers'[c] = Tail(timers[c]) /\ UNCHANGED <<open, last>>
      /\ up'[c] = IF open[c] THEN Append(up[c], m) ELSE up[c]
      /\ up[c] \in Seq(Message) /\ timers[c] \in Seq(Message)
  BY DEF TimerEnds, Typed, LinkTypeOK, history
<1>2. m \in Message /\ m = timers[c][1] /\ 1 \in DOMAIN timers[c]
  BY <1>1
<1> HIDE DEF m
<1>3. /\ EndsWith(timers'[c], last[c])
      /\ HasSetting(timers'[c]) => HasSetting(timers[c])
      /\ ~IsSetting(m) /\ HasSetting(timers[c]) => HasSetting(timers'[c])
      /\ IsSetting(m) /\ ~HasSetting(timers'[c]) => last[c] = <<m.data>>
  BY <1>1, EndTail DEF LastUnderWay, m
<1>4. CASE IsSetting(m)
  <2>1. HasSetting(timers[c]) /\ open[c]
    BY <1>2, <1>4 DEF HasSetting, LastUnderWay
  <2>2. HasSetting(up'[c]) /\ EndsWith(up'[c], <<m.data>>)
    BY <1>1, <1>2, <1>4, <2>1, EndSettingAppend
  <2> QED
    BY <1>1, <1>3, <1>4, <2>1, <2>2 DEF LastUnderWay, StillStands, Pending
<1>5. CASE ~IsSetting(m)
  <2>1. /\ HasSetting(up'[c]) <=> HasSetting(up[c])
        /\ EndsWith(up[c], last[c]) => EndsWith(up'[c], last[c])
    BY <1>1, <1>2, <1>5, EndOtherAppend
  <2> QED
    BY <1>1, <1>3, <1>5, <2>1 DEF LastUnderWay, StillStands, Pending
<1> QED
  BY <1>4, <1>5

LEMMA ConnectLast ==
  ASSUME NEW Reports, Typed(Reports), NEW c \in Clients, LastUnderWay(c), Connect(c)
  PROVE  LastUnderWay(c)' /\ StillStands(c)
<1> DEFINE get == [type |-> "get_state", id |-> seq[c], data |-> NoData]
           new == [type |-> "connect", id |-> 0, data |-> NoData]
<1>1. /\ up' = [up EXCEPT ![c] = @ \o <<new, get>>] /\ timers' = [timers EXCEPT ![c] = Append(@, get)]
      /\ MaySend /\ Number(c) /\ ~open[c] /\ UNCHANGED last
  BY DEF Connect, history
<1>2. /\ up[c] \in Seq(Message) /\ timers[c] \in Seq(Message)
      /\ up'[c] = up[c] \o <<new, get>> /\ timers'[c] = Append(timers[c], get)
  BY <1>1 DEF Typed, LinkTypeOK
<1>3. get \in Message /\ new \in Message
  <2>1. Says("get_state", NoData)
    BY DEF Says
  <2> QED
    BY <1>1, <2>1, NumberType, SendableType, LinkAssumption DEF Typed, Message
<1>4. ~IsSetting(get) /\ ~IsSetting(new)
  BY DEF IsSetting
<1> HIDE DEF get, new
<1>5. up'[c] = Append(Append(up[c], new), get) /\ Append(up[c], new) \in Seq(Message)
  BY <1>2, <1>3, TwoMoreAppended, AppendProperties
<1>6. /\ HasSetting(Append(up[c], new)) <=> HasSetting(up[c])
      /\ EndsWith(up[c], last[c]) => EndsWith(Append(up[c], new), last[c])
  BY <1>2, <1>3, <1>4, EndOtherAppend
<1>7. /\ HasSetting(up'[c]) <=> HasSetting(up[c])
      /\ EndsWith(up[c], last[c]) => EndsWith(up'[c], last[c])
  BY <1>3, <1>4, <1>5, <1>6, EndOtherAppend
<1>8. /\ HasSetting(timers'[c]) <=> HasSetting(timers[c])
      /\ EndsWith(timers[c], last[c]) => EndsWith(timers'[c], last[c])
  BY <1>2, <1>3, <1>4, EndOtherAppend
<1> QED
  BY <1>1, <1>7, <1>8 DEF LastUnderWay, StillStands, Pending

LEMMA BothInConcat ==
  ASSUME NEW q \in Seq(Message), NEW p \in Seq(Message)
  PROVE  /\ \A k \in DOMAIN q : q[k] \in ToSet(q \o p)
         /\ \A k \in DOMAIN p : p[k] \in ToSet(q \o p)
<1>1. /\ DOMAIN (q \o p) = 1..Len(q) + Len(p) /\ Len(q) \in Nat /\ Len(p) \in Nat
      /\ DOMAIN q = 1..Len(q) /\ DOMAIN p = 1..Len(p)
      /\ \A k \in 1..Len(q) + Len(p) : (q \o p)[k] = IF k <= Len(q) THEN q[k] ELSE p[k - Len(q)]
  BY ConcatProperties, LenProperties
<1>2. ASSUME NEW k \in DOMAIN q
      PROVE  q[k] = (q \o p)[k] /\ k \in DOMAIN (q \o p)
  BY <1>1
<1>3. ASSUME NEW k \in DOMAIN p
      PROVE  p[k] = (q \o p)[k + Len(q)] /\ k + Len(q) \in DOMAIN (q \o p)
  <2>1. k + Len(q) \in 1..Len(q) + Len(p) /\ ~(k + Len(q) <= Len(q)) /\ (k + Len(q)) - Len(q) = k
    BY <1>1
  <2> QED
    BY <1>1, <2>1
<1> QED
  BY <1>2, <1>3 DEF ToSet

LEMMA DropLast ==
  ASSUME NEW Reports, Typed(Reports), NEW c \in Clients, LastUnderWay(c), Drop(c), ~disturbed'
  PROVE  LastUnderWay(c)' /\ StillStands(c)
<1>1. up[c] \in Seq(Message) /\ timers[c] \in Seq(Message)
  BY DEF Typed, LinkTypeOK
<1>2. \A m \in ToSet(up[c] \o timers[c]) : ~IsSetting(m)
  BY DEF Drop
<1>3. ~HasSetting(up[c]) /\ ~HasSetting(timers[c])
  BY <1>1, <1>2, BothInConcat DEF HasSetting
<1>4. UNCHANGED <<timers, last>>
  BY DEF Drop
<1>5. ~HasSetting(up'[c])
  <2>1. PICK n \in 0..Len(up[c]) : up' = [up EXCEPT ![c] = [i \in 1..n |-> Stale(up[c][i])]]
    BY DEF Drop
  <2>2. up'[c] = [i \in 1..n |-> Stale(up[c][i])]
    BY <2>1 DEF Typed, LinkTypeOK
  <2>3. \A k \in DOMAIN up'[c] : k \in DOMAIN up[c] /\ up'[c][k] = Stale(up[c][k]) /\ up[c][k] \in Message
    BY <1>1, <2>2
  <2>4. \A m \in Message : IsSetting(Stale(m)) => IsSetting(m)
    BY DEF IsSetting, Stale, Message
  <2> QED
    BY <1>3, <2>3, <2>4 DEF HasSetting
<1> QED
  BY <1>3, <1>4, <1>5 DEF LastUnderWay, StillStands, Pending, EndsWith

LEMMA PongLast ==
  ASSUME NEW Reports, Typed(Reports), NEW c \in Clients, LastUnderWay(c), ReceivePong(c), ~disturbed'
  PROVE  LastUnderWay(c)' /\ StillStands(c)
<1>1. UNCHANGED <<open, up, last>> /\ timers[c] \in Seq(Message)
  BY DEF ReceivePong, Typed, LinkTypeOK
<1>2. CASE UNCHANGED <<timers, disturbed>>
  BY <1>1, <1>2, LastSame
<1>3. ASSUME NEW i \in DOMAIN timers[c], timers' = [timers EXCEPT ![c] = RemoveAt(@, i)],
             disturbed' = (disturbed \/ IsSetting(timers[c][i]))
      PROVE  LastUnderWay(c)' /\ StillStands(c)
  <2>1. ~IsSetting(timers[c][i]) /\ timers'[c] = RemoveAt(timers[c], i)
    BY <1>3 DEF Typed, LinkTypeOK
  <2>2. EndsWith(timers'[c], last[c]) /\ (HasSetting(timers'[c]) <=> HasSetting(timers[c]))
    BY <1>1, <2>1, EndRemove DEF LastUnderWay
  <2> QED
    BY <1>1, <2>2 DEF LastUnderWay, StillStands, Pending
<1> QED
  BY <1>2, <1>3 DEF ReceivePong

LEMMA TakenLast ==
  ASSUME NEW Reports, Typed(Reports), NEW c \in Clients, LastUnderWay(c),
         NEW type, Taken(c, type), UNCHANGED <<pageVars, last>>
  PROVE  /\ LastUnderWay(c)' /\ (type # "set_settings" => StillStands(c))
         /\ type = "set_settings" => last[c] # <<>> /\ (Pending(c)' \/ last[c] = <<Sent(c)>>)
<1>1. /\ up[c] # <<>> /\ up[c] \in Seq(Message) /\ up'[c] = Tail(up[c])
      /\ UNCHANGED <<open, timers>> /\ 1 \in DOMAIN up[c] /\ Head(up[c]) = up[c][1]
      /\ IsSetting(up[c][1]) <=> type = "set_settings"
  BY DEF Taken, Typed, LinkTypeOK, pageVars, IsSetting
<1>2. CASE HasSetting(timers[c])
  BY <1>1, <1>2, PendingSaid DEF LastUnderWay, StillStands, Pending
<1>3. CASE ~HasSetting(timers[c])
  <2>1. EndsWith(up[c], last[c])
    BY <1>3 DEF LastUnderWay
  <2>2. /\ EndsWith(up'[c], last[c])
        /\ type # "set_settings" /\ HasSetting(up[c]) => HasSetting(up'[c])
        /\ type = "set_settings" /\ ~HasSetting(up'[c]) => last[c] = <<Sent(c)>>
    BY <1>1, <2>1, EndTail DEF Sent
  <2>3. type = "set_settings" => HasSetting(up[c])
    BY <1>1 DEF HasSetting
  <2> QED
    BY <1>1, <1>3, <2>2, <2>3, PendingSaid DEF LastUnderWay, StillStands, Pending
<1> QED
  BY <1>2, <1>3

LastInv == /\ LinkInv /\ last \in [Clients -> Seq(Settings)]
           /\ ~disturbed => /\ \A c \in Clients : LastUnderWay(c)
                            /\ (\E c \in Clients : last[c] # <<>>) => \E c \in Clients : Stands(c)

LEMMA LastInvInit == Init => LastInv
<1> SUFFICES ASSUME Init
             PROVE  LastInv
  OBVIOUS
<1>1. \A c \in Clients : up[c] = <<>> /\ timers[c] = <<>> /\ last[c] = <<>>
  BY DEF Init, LinkInit
<1>2. ~HasSetting(<<>>)
  BY DEF HasSetting
<1>3. last \in [Clients -> Seq(Settings)]
  BY DEF Init, LinkInit
<1> QED
  BY <1>1, <1>2, <1>3, LinkInvInit DEF LastInv, LastUnderWay, EndsWith

\* A step of page c that applies nothing.
LEMMA LastFromPage ==
  ASSUME LastInv, LinkInv', last' \in [Clients -> Seq(Settings)], disturbed => disturbed',
         NEW c \in Clients, OnlyAt(c), \A d \in Clients \ {c} : last'[d] = last[d],
         applied' = applied,
         LastUnderWay(c) /\ ~disturbed' => LastUnderWay(c)' /\ StillStands(c)
  PROVE  LastInv'
<1> SUFFICES ASSUME ~disturbed', ~disturbed
             PROVE  /\ \A d \in Clients : LastUnderWay(d)'
                    /\ (\E d \in Clients : last'[d] # <<>>) => \E d \in Clients : Stands(d)'
  BY DEF LastInv
<1>1. ASSUME NEW d \in Clients
      PROVE  LastUnderWay(d)' /\ StillStands(d)
  <2>1. LastUnderWay(d)
    BY DEF LastInv
  <2>2. CASE d = c
    BY <2>1, <2>2
  <2>3. CASE d # c
    BY <2>1, <2>3, LastSame DEF OnlyAt
  <2> QED
    BY <2>2, <2>3
<1>2. ASSUME NEW d \in Clients, Stands(d)
      PROVE  Stands(d)'
  BY <1>1, <1>2 DEF StillStands, Stands
<1>3. ASSUME NEW d \in Clients, last'[d] # <<>>
      PROVE  \E e \in Clients : Stands(e)'
  <2>1. CASE last[d] # <<>>
    BY <1>2, <2>1 DEF LastInv
  <2>2. CASE last[d] = <<>>
    <3>1. Pending(d)'
      BY <1>1, <1>3, <2>2 DEF StillStands
    <3> QED
      BY <1>3, <3>1 DEF Stands
  <2> QED
    BY <2>1, <2>2
<1> QED
  BY <1>1, <1>3

\* Handled settings stand, unless their page has others on their way.
LEMMA LastFromSettings ==
  ASSUME LastInv, LinkInv', NEW c \in Clients, HandleSettings(c, Sent(c), Sent(c))
  PROVE  LastInv'
<1>1. /\ Taken(c, "set_settings") /\ UNCHANGED <<pageVars, last, disturbed>> /\ applied' = Sent(c)
      /\ Typed(Settings)
  BY DEF HandleSettings, LastInv, LinkInv
<1> SUFFICES ASSUME ~disturbed
             PROVE  /\ \A d \in Clients : LastUnderWay(d)'
                    /\ (\E d \in Clients : last'[d] # <<>>) => \E d \in Clients : Stands(d)'
  BY <1>1 DEF LastInv
<1>2. LastUnderWay(c)' /\ last[c] # <<>> /\ (Pending(c)' \/ last[c] = <<Sent(c)>>)
  BY <1>1, TakenLast DEF LastInv
<1>3. Stands(c)'
  BY <1>1, <1>2 DEF Stands
<1>4. ASSUME NEW d \in Clients, d # c
      PROVE  LastUnderWay(d)'
  BY <1>1, <1>4, LastSame DEF LastInv, Taken, Typed, LinkTypeOK, pageVars
<1> QED
  BY <1>2, <1>3, <1>4

LEMMA LastInvNext == LastInv /\ [Next]_linkVars => LastInv'
<1> SUFFICES ASSUME LastInv, [Next]_linkVars, LinkInv'
             PROVE  LastInv'
  BY LinkInvNext DEF LastInv
<1>1. Typed(Settings) /\ LinkTypeOK(Settings) /\ last \in [Clients -> Seq(Settings)]
  BY DEF LastInv, LinkInv, Typed
<1>2. ASSUME NEW c \in Clients, Operate(c)
      PROVE  LastInv'
  <2>1. PICK type, data : Send(c, type, data) /\ Says(type, data)
    BY <1>2 DEF Operate, SendSettings, AskState, SendPing, Says
  <2>2. OnlyAt(c) /\ disturbed' = disturbed /\ applied' = applied
    BY <1>1, <2>1 DEF OnlyAt, Send, Number, LinkTypeOK, deviceVars
  <2>3. last' \in [Clients -> Seq(Settings)] /\ \A d \in Clients \ {c} : last'[d] = last[d]
    <3>1. CASE last' = last
      BY <1>1, <3>1
    <3>2. CASE last' = [last EXCEPT ![c] = <<data>>] /\ data \in Settings
      BY <1>1, <3>2
    <3> QED
      BY <2>1, <3>1, <3>2 DEF Send, IsSetting, Says
  <2> QED
    BY <1>1, <2>1, <2>2, <2>3, SendLast, LastFromPage
<1>3. ASSUME NEW c \in Clients, TimerEnds(c) \/ Connect(c)
      PROVE  LastInv'
  <2>1. OnlyAt(c) /\ disturbed' = disturbed /\ applied' = applied /\ last' = last
    BY <1>1, <1>3 DEF OnlyAt, TimerEnds, Connect, Number, LinkTypeOK, deviceVars, history
  <2>2. LastUnderWay(c) => LastUnderWay(c)' /\ StillStands(c)
    BY <1>1, <1>3, TimerLast, ConnectLast
  <2> QED
    BY <1>1, <2>1, <2>2, LastFromPage
<1>4. ASSUME NEW c \in Clients, Drop(c) \/ ReceivePong(c)
      PROVE  LastInv'
  <2>1. OnlyAt(c) /\ applied' = applied /\ last' = last /\ (disturbed => disturbed')
    BY <1>1, <1>4 DEF OnlyAt, Drop, ReceivePong, LinkTypeOK, deviceVars
  <2>2. LastUnderWay(c) /\ ~disturbed' => LastUnderWay(c)' /\ StillStands(c)
    BY <1>1, <1>4, DropLast, PongLast
  <2> QED
    BY <1>1, <2>1, <2>2, LastFromPage
<1>5. ASSUME NEW c \in Clients, HandleConnect(c, applied) \/ HandleGetState(c, applied) \/ HandlePing(c)
      PROVE  LastInv'
  <2>1. PICK type \in {"connect", "get_state", "ping"} : Taken(c, type)
    BY <1>5 DEF HandleConnect, HandleGetState, HandlePing
  <2>2. UNCHANGED <<pageVars, last, disturbed, applied>>
    BY <1>5 DEF HandleConnect, HandleGetState, HandlePing, history, deviceVars
  <2>3. OnlyAt(c)
    BY <1>1, <2>1, <2>2 DEF OnlyAt, Taken, LinkTypeOK, pageVars
  <2>4. LastUnderWay(c) => LastUnderWay(c)' /\ StillStands(c)
    BY <1>1, <2>1, <2>2, TakenLast
  <2> QED
    BY <1>1, <2>2, <2>3, <2>4, LastFromPage
<1>6. ASSUME NEW c \in Clients, HandleSettings(c, Sent(c), Sent(c))
      PROVE  LastInv'
  BY <1>6, LastFromSettings
<1>7. ASSUME Loop \/ UNCHANGED linkVars \/ \E c \in Clients : ReceiveState(c)
      PROVE  LastInv'
  <2>1. UNCHANGED <<open, up, timers, last, disturbed, applied>>
    BY <1>7 DEF Loop, BuildBroadcast, SendBroadcast, ReceiveState, linkVars, pageVars, deviceVars, history
  <2>2. \A c \in Clients : (LastUnderWay(c) => LastUnderWay(c)') /\ (Stands(c) => Stands(c)')
    BY <2>1 DEF LastUnderWay, Stands, Pending
  <2>3. ~disturbed => \A c \in Clients : LastUnderWay(c)'
    BY <2>2 DEF LastInv
  <2>4. ~disturbed /\ (\E c \in Clients : last[c] # <<>>) => \E c \in Clients : Stands(c)'
    BY <2>2 DEF LastInv
  <2> QED
    BY <1>1, <2>1, <2>3, <2>4 DEF LastInv
<1> QED
  BY <1>2, <1>3, <1>4, <1>5, <1>6, <1>7 DEF Next, Handle, Receive

\* Although old settings are sent again after newer ones were handled: when
\* nothing is on its way and nothing disturbed the order (Drop, ReceivePong),
\* what the firmware has is the last that one of the pages sent.
THEOREM LastSettingsStand == Spec => []LastSettingsStay
<1>1. LastInv => LastSettingsStay
  <2> SUFFICES ASSUME LastInv, Quiet, ~disturbed, \E c \in Clients : last[c] # <<>>
               PROVE  \E c \in Clients : last[c] = <<applied>>
    BY DEF LastSettingsStay
  <2>1. PICK c \in Clients : Stands(c)
    BY DEF LastInv
  <2>2. up[c] \in Seq(Message) /\ timers[c] \in Seq(Message)
    BY DEF LastInv, LinkInv, Typed, LinkTypeOK
  <2>3. ~Pending(c)
    BY <2>2, BothInConcat DEF Quiet, Pending, HasSetting
  <2> QED
    BY <2>1, <2>3 DEF Stands
<1> QED
  BY <1>1, LastInvInit, LastInvNext, PTL DEF Spec

=============================================================================
