------------------------- MODULE StopAndWaitProofs -------------------------
(***************************************************************************)
(* Proofs about StopAndWait for every set of messages, every size and      *)
(* every choice of fragment lengths: the types of its state; that the      *)
(* two-bit sequence number never confuses two fragments; and that the      *)
(* exchange implements ReliableStreams.                                    *)
(***************************************************************************)
EXTENDS StopAndWait, TLAPS, FiniteSets, SequenceTheorems, FiniteSetTheorems

(* A run of units is a sequence of units. *)
LEMMA UnitsType ==
  ASSUME NEW m \in Messages, NEW off \in Nat, NEW n \in Int
  PROVE  Units(m, off, n) \in Seq(Unit)
<1>1. CASE n \in Nat
  BY <1>1 DEF Units, Unit
<1>2. CASE n \notin Nat
  <2>1. 1..n = 1..0
    BY <1>2
  <2> QED
    BY <2>1 DEF Units, Unit
<1> QED
  BY <1>1, <1>2

(* Opening a message keeps the current messages and the queues typed. *)
LEMMA OpenedType ==
  ASSUME TypeOK, NEW s \in Station
  PROVE  /\ OpenedCur(s) \in [Stream -> Open \cup {Nothing}]
         /\ OpenedQueue(s) \in [Class -> Seq(Messages)]
<1> DEFINE q == Opened(s)
<1>1. CASE q = None
  BY <1>1 DEF OpenedCur, OpenedQueue, TypeOK
<1>2. CASE q # None
  <2>1. q \in Class /\ queue[s][q] # <<>>
    BY <1>2 DEF Opened, Class, QOS_CONTROL, QOS_INTERACTIVE, QOS_BULK
  <2>2. queue[s] \in [Class -> Seq(Messages)] /\ queue[s][q] \in Seq(Messages)
    BY <2>1 DEF TypeOK
  <2>3. Head(queue[s][q]) \in Messages /\ Tail(queue[s][q]) \in Seq(Messages)
    BY <2>1, <2>2
  <2>4. [msg |-> Head(queue[s][q]), off |-> 0] \in Open
    BY <2>3 DEF Open
  <2>5. cur[s] \in [Stream -> Open \cup {Nothing}]
    BY DEF TypeOK
  <2>6. OpenedCur(s) \in [Stream -> Open \cup {Nothing}]
    BY <1>2, <2>4, <2>5 DEF OpenedCur
  <2>7. OpenedQueue(s) \in [Class -> Seq(Messages)]
    BY <1>2, <2>1, <2>2, <2>3 DEF OpenedQueue
  <2> QED
    BY <2>6, <2>7
<1> QED
  BY <1>1, <1>2

(* What goes on the air is a frame for the peer. *)
LEMMA FrameType ==
  ASSUME TypeOK, NEW s \in Station
  PROVE  /\ Peer(s) \in Station
         /\ AckField(s) \in 0..3
         /\ NoDataFrame(s) \in Frame
         /\ \A f \in Fragment : DataFrame(s, f) \in Frame
<1>1. Peer(s) \in Station
  BY DEF Peer, Station
<1>2. AckField(s) \in 0..3
  BY DEF AckField, TypeOK
<1>3. seq[s] \in 0..3
  BY DEF TypeOK
<1>4. NoDataFrame(s) \in Frame
  BY <1>1, <1>2, <1>3 DEF NoDataFrame, Frame
<1>5. \A f \in Fragment : DataFrame(s, f) \in Frame
  BY <1>1, <1>2 DEF DataFrame, Frame, Fragment
<1> QED
  BY <1>1, <1>2, <1>4, <1>5

(* A fragment cut from an open message is a fragment. *)
LEMMA CutType ==
  ASSUME TypeOK, NEW s \in Station, NEW stream \in Stream, NEW c \in Open,
         NEW cap \in ChunkCaps
  PROVE  Cut(s, stream, c, cap) \in Fragment
<1> DEFINE left == Size[c.msg] - c.off
           n == IF left > cap THEN cap ELSE left
<1>1. c.msg \in Messages /\ c.off \in Nat
  BY DEF Open
<1>2. Size[c.msg] \in Nat /\ cap \in Nat
  BY <1>1, StationAssumption
<1>3. n \in Int
  BY <1>1, <1>2
<1>4. Units(c.msg, c.off, n) \in Seq(Unit)
  BY <1>1, <1>3, UnitsType
<1>5. (seq[s] + 1) % 4 \in 0..3
  <2>1. seq[s] \in 0..3
    BY DEF TypeOK
  <2> QED
    BY <2>1
<1>6. (c.off + n >= Size[c.msg]) \in BOOLEAN
  OBVIOUS
<1> QED
  BY <1>4, <1>5, <1>6 DEF Cut, Fragment

(* A frame that acknowledges nothing outstanding changes neither. *)
LEMMA RetireKeeps ==
  ASSUME TypeOK, NEW s \in Station, NEW f, Retire(s, f), ~Retires(s, f)
  PROVE  pending' = pending /\ cur' = cur
<1>1. RetiredCur(s, f) = cur[s]
  BY DEF RetiredCur
<1>2. pending' = [pending EXCEPT ![s] = pending[s]]
  BY DEF Retire
<1>3. cur' = [cur EXCEPT ![s] = cur[s]]
  BY <1>1 DEF Retire
<1> QED
  BY <1>2, <1>3 DEF TypeOK

(* A decoded frame leaves the fragment and the open messages typed. *)
LEMMA RetireType ==
  ASSUME TypeOK, PendingOpen, NEW s \in Station, NEW f, Retire(s, f)
  PROVE  /\ pending' \in [Station -> Fragment \cup {NoFragment}]
         /\ cur' \in [Station -> [Stream -> Open \cup {Nothing}]]
<1>1. CASE ~Retires(s, f)
  BY <1>1, RetireKeeps DEF TypeOK
<1>2. CASE Retires(s, f)
  <2> DEFINE p == pending[s]
             c == cur[s][p.stream]
             next == IF p.last THEN Nothing
                     ELSE [msg |-> c.msg, off |-> c.off + Len(p.chunk)]
  <2>1. p \in Fragment
    <3>1. p \in Fragment \cup {NoFragment}
      BY DEF TypeOK
    <3> QED
      BY <3>1, <1>2 DEF Retires, NoFragment
  <2>2. p.stream \in Stream /\ Len(p.chunk) \in Nat
    <3>1. p.stream \in Stream /\ p.chunk \in Seq(Unit)
      BY <2>1 DEF Fragment
    <3> QED
      BY <3>1
  <2>3. cur[s] \in [Stream -> Open \cup {Nothing}]
    BY DEF TypeOK
  <2>4. c \in Open
    BY <1>2, <2>2, <2>3 DEF PendingOpen, Retires
  <2>5. next \in Open \cup {Nothing}
    BY <2>2, <2>4 DEF Open
  <2>6. pending' \in [Station -> Fragment \cup {NoFragment}]
    BY <1>2 DEF Retire, TypeOK
  <2>7. cur' = [cur EXCEPT ![s] = [cur[s] EXCEPT ![p.stream] = next]]
    <3>1. c # Nothing
      BY <1>2 DEF PendingOpen, Retires
    <3>2. RetiredCur(s, f) = [cur[s] EXCEPT ![p.stream] = next]
      BY <1>2, <3>1 DEF RetiredCur
    <3> QED
      BY <3>2 DEF Retire
  <2>8. cur' \in [Station -> [Stream -> Open \cup {Nothing}]]
    BY <2>2, <2>5, <2>7 DEF TypeOK
  <2> QED
    BY <2>6, <2>8
<1> QED
  BY <1>1, <1>2

(* An accepted data frame leaves the receive side typed. *)
LEMMA AcceptType ==
  ASSUME TypeOK, NEW s \in Station, NEW f \in Frame, f.kind = "data",
         Accept(s, f)
  PROVE  /\ assembly' \in [Station -> [Stream -> Seq(Unit)]]
         /\ delivered_n' \in [Station -> Nat]
         /\ log' \in [Station -> [Stream ->
                       Seq([units : Seq(Unit), kept : BOOLEAN])]]
         /\ accepted' \in [Station -> Seq(Fragment)]
<1> DEFINE units == assembly[s][f.stream] \o f.chunk
           kept == /\ delivered_n[s] < DeliveredMax
                   /\ Len(units) <= MsgMax
                   /\ outbound(s, cur'[s]) + delivered_n[s] < PoolSlots
           entry == [units |-> units, kept |-> kept]
           frag == [active |-> TRUE, seq |-> f.seq, stream |-> f.stream,
                    chunk |-> f.chunk, last |-> f.last]
<1>1. /\ f.stream \in Stream /\ f.chunk \in Seq(Unit)
      /\ f.last \in BOOLEAN /\ f.seq \in 0..3
  BY DEF Frame
<1>2. units \in Seq(Unit)
  <2>1. assembly[s][f.stream] \in Seq(Unit)
    BY <1>1 DEF TypeOK
  <2> QED
    BY <1>1, <2>1
<1>3. kept \in BOOLEAN
  OBVIOUS
<1> HIDE DEF units, kept
<1>4. entry \in [units : Seq(Unit), kept : BOOLEAN]
  BY <1>2, <1>3
<1>5. frag \in Fragment
  BY <1>1 DEF Fragment
<1> HIDE DEF entry, frag
<1>6. /\ assembly' = [assembly EXCEPT ![s][f.stream] =
                        IF f.last THEN <<>> ELSE units]
      /\ delivered_n' = [delivered_n EXCEPT ![s] =
                           IF f.last /\ kept THEN @ + 1 ELSE @]
      /\ log' = [log EXCEPT ![s][f.stream] =
                   IF f.last THEN Append(@, entry) ELSE @]
      /\ accepted' = [accepted EXCEPT ![s] = Append(@, frag)]
  BY DEF Accept, units, kept, entry, frag
<1>7. assembly' \in [Station -> [Stream -> Seq(Unit)]]
  BY <1>1, <1>2, <1>6 DEF TypeOK
<1>8. delivered_n' \in [Station -> Nat]
  BY <1>6 DEF TypeOK
<1>9. log' \in [Station -> [Stream ->
                 Seq([units : Seq(Unit), kept : BOOLEAN])]]
  <2> DEFINE L == Seq([units : Seq(Unit), kept : BOOLEAN])
  <2>1. log \in [Station -> [Stream -> L]]
    BY DEF TypeOK
  <2>2. log[s][f.stream] \in L
    BY <1>1, <2>1
  <2>3. Append(log[s][f.stream], entry) \in L
    BY <1>4, <2>2
  <2> HIDE DEF L
  <2>4. log' \in [Station -> [Stream -> L]]
    BY <1>1, <1>6, <2>1, <2>2, <2>3
  <2> QED
    BY <2>4 DEF L
<1>10. accepted' \in [Station -> Seq(Fragment)]
  <2>1. accepted[s] \in Seq(Fragment)
    BY DEF TypeOK
  <2>2. Append(accepted[s], frag) \in Seq(Fragment)
    BY <1>5, <2>1
  <2> QED
    BY <1>6, <2>2 DEF TypeOK
<1> QED
  BY <1>7, <1>8, <1>9, <1>10

(* The frames a transmission may put on the air, and what it leaves typed. *)
LEMMA TransmitType ==
  ASSUME TypeOK, NEW s \in Station, Transmit(s)
  PROVE  TypeOK'
<1>1. /\ reply_due' \in [Station -> BOOLEAN]
      /\ UNCHANGED <<last_rx_seq, assembly, delivered_n, submitted, log,
                     accepted>>
  BY DEF Transmit, TypeOK
<1>2. CASE SendPending(s)
  <2>1. pending[s] \in Fragment
    <3>1. pending[s] \in Fragment \cup {NoFragment}
      BY DEF TypeOK
    <3> QED
      BY <3>1, <1>2 DEF SendPending, NoFragment
  <2>2. air' \in Frame
    BY <1>2, <2>1, FrameType DEF SendPending
  <2>3. await' \in [Station -> BOOLEAN]
    BY <1>2 DEF SendPending, TypeOK
  <2>4. UNCHANGED <<txVars, taken>>
    BY <1>2 DEF SendPending
  <2> QED
    BY <1>1, <2>2, <2>3, <2>4 DEF TypeOK, txVars
<1>3. CASE SendNew(s)
  <2> DEFINE oc == OpenedCur(s)
             stream == IF oc["prio"] # Nothing THEN "prio" ELSE "bulk"
  <2>1. oc \in [Stream -> Open \cup {Nothing}]
    BY OpenedType
  <2>2. stream \in Stream /\ oc[stream] \in Open
    BY <1>3, <2>1 DEF SendNew, Stream
  <2>3. PICK cap \in ChunkCaps :
          LET f == Cut(s, stream, oc[stream], cap)
          IN  /\ pending' = [pending EXCEPT ![s] = f]
              /\ seq' = [seq EXCEPT ![s] = f.seq]
              /\ taken' = [taken EXCEPT ![s] = Append(@, f)]
              /\ air' = DataFrame(s, f)
    BY <1>3 DEF SendNew
  <2> DEFINE f == Cut(s, stream, oc[stream], cap)
  <2>4. f \in Fragment
    BY <2>2, CutType
  <2> HIDE DEF f, stream, oc
  <2>5. pending' \in [Station -> Fragment \cup {NoFragment}]
    BY <2>3, <2>4 DEF f, stream, oc, TypeOK
  <2>6. f.seq \in 0..3
    BY <2>4 DEF Fragment
  <2>7. seq' \in [Station -> 0..3]
    BY <2>3, <2>6 DEF f, stream, oc, TypeOK
  <2>8. taken' \in [Station -> Seq(Fragment)]
    <3>1. taken[s] \in Seq(Fragment)
      BY DEF TypeOK
    <3>2. Append(taken[s], f) \in Seq(Fragment)
      BY <2>4, <3>1
    <3>3. taken' = [taken EXCEPT ![s] = Append(taken[s], f)]
      BY <2>3 DEF f, stream, oc
    <3> QED
      BY <3>2, <3>3 DEF TypeOK
  <2>9. air' \in Frame
    BY <2>3, <2>4, FrameType DEF f, stream, oc
  <2>10. cur' \in [Station -> [Stream -> Open \cup {Nothing}]]
    BY <1>3, OpenedType DEF SendNew, TypeOK
  <2>11. queue' \in [Station -> [Class -> Seq(Messages)]]
    BY <1>3, OpenedType DEF SendNew, TypeOK
  <2>12. await' \in [Station -> BOOLEAN]
    BY <1>3 DEF SendNew, TypeOK
  <2> QED
    BY <1>1, <2>5, <2>7, <2>8, <2>9, <2>10, <2>11, <2>12 DEF TypeOK
<1>4. CASE SendAck(s)
  <2>1. air' \in Frame
    BY <1>4, FrameType DEF SendAck
  <2>2. await' \in [Station -> BOOLEAN]
    BY <1>4 DEF SendAck, TypeOK
  <2>3. UNCHANGED <<txVars, taken>>
    BY <1>4 DEF SendAck
  <2> QED
    BY <1>1, <2>1, <2>2, <2>3 DEF TypeOK, txVars
<1> QED
  BY <1>2, <1>3, <1>4 DEF Transmit

(* What a decoded frame leaves typed. *)
LEMMA ReceiveType ==
  ASSUME TypeOK, PendingOpen, NEW s \in Station, Receive(s)
  PROVE  TypeOK'
<1>1. air \in Frame
  BY DEF Receive, TypeOK
<1>2. /\ pending' \in [Station -> Fragment \cup {NoFragment}]
      /\ cur' \in [Station -> [Stream -> Open \cup {Nothing}]]
  BY RetireType DEF Receive
<1>3. /\ await' \in [Station -> BOOLEAN]
      /\ air' \in Frame \cup {None}
      /\ UNCHANGED <<queue, seq, submitted, taken>>
  BY DEF Receive, TypeOK
<1>4. CASE ReceiveData(s, air)
  <2>1. air.seq \in 0..3
    BY <1>1, <1>4 DEF Frame
  <2>2. /\ last_rx_seq' \in [Station -> -1..3]
        /\ reply_due' \in [Station -> BOOLEAN]
    BY <1>4, <2>1 DEF ReceiveData, TypeOK
  <2>3. CASE air.seq # last_rx_seq[s]
    BY <1>1, <1>2, <1>3, <1>4, <2>2, <2>3, AcceptType DEF ReceiveData, TypeOK
  <2>4. CASE air.seq = last_rx_seq[s]
    BY <1>2, <1>3, <1>4, <2>2, <2>4 DEF ReceiveData, TypeOK
  <2> QED
    BY <2>3, <2>4
<1>5. CASE ReceiveNoData(s, air)
  BY <1>2, <1>3, <1>5 DEF ReceiveNoData, TypeOK, rxVars
<1> QED
  BY <1>4, <1>5 DEF Receive

(* What a submission leaves typed. *)
LEMMA SubmitType ==
  ASSUME TypeOK, NEW s \in Station, NEW m \in Messages, Submit(s, m)
  PROVE  TypeOK'
<1> DEFINE q == QosOf[m]
<1>1. q \in Class
  BY StationAssumption DEF Class, QOS_CONTROL, QOS_INTERACTIVE, QOS_BULK
<1>2. /\ queue' = [queue EXCEPT ![s][q] = Append(@, m)]
      /\ submitted' = [submitted EXCEPT ![s][q] = Append(@, m)]
      /\ UNCHANGED <<cur, pending, seq, rxVars, await, air, log, taken,
                     accepted>>
  BY DEF Submit
<1>3. queue[s][q] \in Seq(Messages) /\ submitted[s][q] \in Seq(Messages)
  BY <1>1 DEF TypeOK
<1>4. /\ Append(queue[s][q], m) \in Seq(Messages)
      /\ Append(submitted[s][q], m) \in Seq(Messages)
  BY <1>3
<1>5. queue' \in [Station -> [Class -> Seq(Messages)]]
  BY <1>1, <1>2, <1>4 DEF TypeOK
<1>6. submitted' \in [Station -> [Class -> Seq(Messages)]]
  BY <1>1, <1>2, <1>4 DEF TypeOK
<1> QED
  BY <1>2, <1>5, <1>6 DEF TypeOK, rxVars

(* The open message a fragment was cut from stays open while the fragment  *)
(* is outstanding, so an ack never advances or releases a message that is  *)
(* not there (station_on_decoded).                                         *)
LEMMA PendingOpenStep ==
  ASSUME TypeOK, PendingOpen, [Next]_vars
  PROVE  PendingOpen'
<1>1. ASSUME NEW s \in Station, NEW m \in Messages, Submit(s, m)
      PROVE  PendingOpen'
  BY <1>1 DEF Submit, PendingOpen
<1>2. ASSUME NEW s \in Station, Drain(s)
      PROVE  PendingOpen'
  BY <1>2 DEF Drain, PendingOpen, txVars
<1>3. ASSUME NEW s \in Station, Transmit(s)
      PROVE  PendingOpen'
  <2>1. CASE SendPending(s) \/ SendAck(s)
    BY <2>1 DEF SendPending, SendAck, PendingOpen, txVars
  <2>2. CASE SendNew(s)
    <3> DEFINE oc == OpenedCur(s)
               stream == IF oc["prio"] # Nothing THEN "prio" ELSE "bulk"
    <3>1. PICK cap \in ChunkCaps :
            pending' = [pending EXCEPT ![s] = Cut(s, stream, oc[stream], cap)]
      BY <2>2 DEF SendNew
    <3>2. oc[stream] # Nothing /\ cur' = [cur EXCEPT ![s] = oc]
      BY <2>2 DEF SendNew
    <3>3. pending'[s].stream = stream /\ cur'[s] = oc
      BY <3>1, <3>2 DEF Cut, TypeOK
    <3>4. \A r \in Station \ {s} : pending'[r] = pending[r] /\ cur'[r] = cur[r]
      BY <3>1, <3>2 DEF TypeOK
    <3> QED
      BY <3>2, <3>3, <3>4 DEF PendingOpen
  <2> QED
    BY <1>3, <2>1, <2>2 DEF Transmit
<1>4. ASSUME NEW s \in Station, Timeout(s)
      PROVE  PendingOpen'
  BY <1>4 DEF Timeout, PendingOpen, txVars
<1>5. ASSUME NEW s \in Station, Receive(s)
      PROVE  PendingOpen'
  <2>1. CASE Retires(s, air)
    <3>1. ~pending'[s].active
      BY <1>5, <2>1 DEF Receive, Retire, NoFragment, TypeOK
    <3>2. \A r \in Station \ {s} : pending'[r] = pending[r] /\ cur'[r] = cur[r]
      BY <1>5, <2>1 DEF Receive, Retire, TypeOK
    <3> QED
      BY <3>1, <3>2 DEF PendingOpen
  <2>2. CASE ~Retires(s, air)
    BY <1>5, <2>2, RetireKeeps DEF Receive, PendingOpen
  <2> QED
    BY <2>1, <2>2
<1>6. CASE Lose
  BY <1>6 DEF Lose, PendingOpen, txVars
<1>7. CASE UNCHANGED vars
  BY <1>7 DEF vars, PendingOpen, txVars
<1> QED
  BY <1>1, <1>2, <1>3, <1>4, <1>5, <1>6, <1>7 DEF Next

(* Every step keeps the state typed. *)
LEMMA TypeStep ==
  ASSUME TypeOK, PendingOpen, [Next]_vars
  PROVE  TypeOK'
<1>1. ASSUME NEW s \in Station, Drain(s)
      PROVE  TypeOK'
  BY <1>1 DEF Drain, TypeOK, txVars, history
<1>2. ASSUME NEW s \in Station, Timeout(s)
      PROVE  TypeOK'
  BY <1>2 DEF Timeout, TypeOK, txVars, rxVars, history
<1>3. CASE Lose
  BY <1>3 DEF Lose, TypeOK, txVars, rxVars, history
<1>4. CASE UNCHANGED vars
  BY <1>4 DEF vars, TypeOK, txVars, rxVars, history
<1> QED
  BY <1>1, <1>2, <1>3, <1>4, SubmitType, TransmitType, ReceiveType DEF Next

(* The initial state is typed and nothing is outstanding. *)
LEMMA InitType == Init => TypeOK /\ PendingOpen
BY DEF Init, TypeOK, PendingOpen, NoFragment, Nothing

(* Type correctness of the two stations (station.c's legacy path). *)
THEOREM TypeCorrect == Spec => []TypeOK
<1>1. Init => TypeOK /\ PendingOpen
  BY InitType
<1>2. TypeOK /\ PendingOpen /\ [Next]_vars => TypeOK' /\ PendingOpen'
  BY TypeStep, PendingOpenStep
<1> QED
  BY <1>1, <1>2, PTL DEF Spec

-----------------------------------------------------------------------------
Core == Numbered /\ InFlight /\ ExactlyOnce

(* The peer of the peer. *)
LEMMA PeerPeer ==
  \A s \in Station : Peer(s) \in Station /\ Peer(Peer(s)) = s /\ Peer(s) # s
BY StationAssumption DEF Peer, Station

(* The lengths the argument counts with. *)
LEMMA Lengths ==
  ASSUME TypeOK
  PROVE  \A s \in Station : /\ taken[s] \in Seq(Fragment)
                            /\ accepted[s] \in Seq(Fragment)
                            /\ Len(taken[s]) \in Nat
                            /\ Len(accepted[s]) \in Nat
BY DEF TypeOK

(* An ack that matches the outstanding fragment was sent by a peer that    *)
(* had accepted it: with the two counts at most one apart, equal residues  *)
(* are equal counts.                                                       *)
LEMMA AckIsTrue ==
  ASSUME TypeOK, Core, NEW s \in Station, air # None, air.to = s,
         Retires(s, air)
  PROVE  Len(accepted[Peer(s)]) = Len(taken[s])
<1> DEFINE n == Len(taken[s])
           m == Len(accepted[Peer(s)])
<1>1. n \in Nat /\ m \in Nat
  BY Lengths, PeerPeer
<1>2. m \in {n - 1, n}
  BY DEF Core, ExactlyOnce
<1>3. pending[s].active /\ air.ack = pending[s].seq
  BY DEF Retires
<1>4. n > 0 /\ pending[s] = taken[s][n]
  BY <1>3 DEF Core, Numbered
<1>5. taken[s][n].seq = n % 4
  <2>1. n \in 1..n
    BY <1>1, <1>4
  <2> QED
    BY <2>1 DEF Core, Numbered
<1>6. air.ack = m % 4
  BY PeerPeer DEF Core, InFlight
<1>7. n % 4 = m % 4
  BY <1>3, <1>4, <1>5, <1>6
<1> HIDE DEF n, m
<1>8. n = m
  BY <1>1, <1>2, <1>7
<1> QED
  BY <1>8 DEF n, m

(* A data frame is new to its receiver exactly when its number differs     *)
(* from the last one received.                                             *)
LEMMA NewIsNew ==
  ASSUME TypeOK, Core, NEW s \in Station, air # None, air.to = s,
         air.kind = "data"
  PROVE  LET n == Len(taken[Peer(s)])
             m == Len(accepted[s])
         IN  /\ n > 0 /\ air.seq = n % 4
             /\ air.seq # last_rx_seq[s] => m = n - 1
             /\ air.seq = last_rx_seq[s] => m = n
<1> DEFINE n == Len(taken[Peer(s)])
           m == Len(accepted[s])
<1>1. n \in Nat /\ m \in Nat
  BY Lengths, PeerPeer
<1>2. m \in {n - 1, n}
  BY PeerPeer DEF Core, ExactlyOnce
<1>3. n > 0 /\ air.seq = taken[Peer(s)][n].seq
  BY DEF Core, InFlight
<1>4. air.seq = n % 4
  <2>1. n \in 1..n
    BY <1>1, <1>3
  <2> QED
    BY <1>3, <2>1, PeerPeer DEF Core, Numbered
<1>5. last_rx_seq[s] = IF m = 0 THEN -1 ELSE m % 4
  BY DEF Core, Numbered
<1> HIDE DEF n, m
<1>6. n % 4 \in 0..3 /\ m % 4 \in 0..3
  BY <1>1
<1>7. m = n => air.seq = last_rx_seq[s]
  BY <1>1, <1>3, <1>4, <1>5
<1>8. m = n - 1 => air.seq # last_rx_seq[s]
  BY <1>1, <1>3, <1>4, <1>5, <1>6
<1> QED
  BY <1>2, <1>3, <1>4, <1>7, <1>8 DEF n, m

(* The ack field of a frame counts what its sender accepted. *)
LEMMA AckCounts ==
  ASSUME TypeOK, Core, NEW s \in Station
  PROVE  AckField(s) = Len(accepted[s]) % 4
<1>1. Len(accepted[s]) \in Nat
  BY Lengths
<1>2. last_rx_seq[s] = IF Len(accepted[s]) = 0 THEN -1
                       ELSE Len(accepted[s]) % 4
  BY DEF Core, Numbered
<1>3. CASE Len(accepted[s]) = 0
  <2>1. AckField(s) = 0 /\ 0 % 4 = 0
    BY <1>2, <1>3 DEF AckField
  <2> QED
    BY <1>3, <2>1
<1>4. CASE Len(accepted[s]) # 0
  <2>1. \A m \in Nat : m % 4 >= 0
    OBVIOUS
  <2>2. last_rx_seq[s] = Len(accepted[s]) % 4 /\ last_rx_seq[s] >= 0
    BY <1>1, <1>2, <1>4, <2>1
  <2> QED
    BY <2>2 DEF AckField
<1> QED
  BY <1>3, <1>4

(* Steps that touch no fragment keep the argument. *)
LEMMA CoreFrame ==
  ASSUME Core, UNCHANGED <<pending, seq, last_rx_seq, taken, accepted>>,
         air' \in {air, None}
  PROVE  Core'
BY DEF Core, Numbered, InFlight, ExactlyOnce

(* Sending the outstanding fragment again, or a bare ack, keeps it. *)
LEMMA CoreResend ==
  ASSUME TypeOK, Core, NEW s \in Station, Transmit(s),
         SendPending(s) \/ SendAck(s)
  PROVE  Core'
<1>1. UNCHANGED <<pending, seq, last_rx_seq, taken, accepted>>
  BY DEF Transmit, SendPending, SendAck, txVars
<1>2. Numbered' /\ ExactlyOnce'
  BY <1>1 DEF Core, Numbered, ExactlyOnce
<1>3. AckField(s) = Len(accepted[s]) % 4
  BY AckCounts
<1>4. Peer(Peer(s)) = s
  BY PeerPeer
<1>5. CASE SendPending(s)
  <2>1. pending[s].active /\ air' = DataFrame(s, pending[s])
    BY <1>5 DEF SendPending
  <2>2. Len(taken[s]) > 0 /\ pending[s] = taken[s][Len(taken[s])]
    BY <2>1 DEF Core, Numbered
  <2>3. InFlight'
    BY <1>1, <1>3, <1>4, <2>1, <2>2 DEF InFlight, DataFrame
  <2> QED
    BY <1>2, <2>3 DEF Core
<1>6. CASE SendAck(s)
  <2>1. air' = NoDataFrame(s)
    BY <1>6 DEF SendAck
  <2>2. InFlight'
    BY <1>1, <1>3, <1>4, <2>1 DEF InFlight, NoDataFrame
  <2> QED
    BY <1>2, <2>2 DEF Core
<1> QED
  BY <1>5, <1>6

(* Two-bit sequence arithmetic: counting and wrapping commute. *)
LEMMA NextNumber == \A n \in Nat : ((n % 4) + 1) % 4 = (n + 1) % 4
OBVIOUS

(* Cutting a new fragment: nothing was outstanding, so the peer had        *)
(* accepted every earlier one.                                             *)
LEMMA CoreNew ==
  ASSUME TypeOK, Core, NEW s \in Station, Transmit(s), SendNew(s)
  PROVE  Core'
<1> DEFINE oc == OpenedCur(s)
           stream == IF oc["prio"] # Nothing THEN "prio" ELSE "bulk"
<1>1. PICK cap \in ChunkCaps :
        LET f == Cut(s, stream, oc[stream], cap)
        IN  /\ pending' = [pending EXCEPT ![s] = f]
            /\ seq' = [seq EXCEPT ![s] = f.seq]
            /\ taken' = [taken EXCEPT ![s] = Append(@, f)]
            /\ air' = DataFrame(s, f)
  BY DEF SendNew
<1> DEFINE f == Cut(s, stream, oc[stream], cap)
           n == Len(taken[s])
<1>2. f.active /\ f.seq = (seq[s] + 1) % 4
  BY DEF Cut
<1>3. /\ pending' = [pending EXCEPT ![s] = f]
      /\ seq' = [seq EXCEPT ![s] = f.seq]
      /\ taken' = [taken EXCEPT ![s] = Append(@, f)]
      /\ air' = DataFrame(s, f)
      /\ ~pending[s].active
      /\ UNCHANGED <<last_rx_seq, accepted>>
  BY <1>1 DEF SendNew, Transmit
<1> HIDE DEF f, stream, oc
<1>4. /\ n \in Nat /\ taken[s] \in Seq(Fragment)
      /\ Peer(s) \in Station /\ Peer(Peer(s)) = s
  BY Lengths, PeerPeer
<1>5. /\ taken'[s] = Append(taken[s], f) /\ pending'[s] = f /\ seq'[s] = f.seq
      /\ \A r \in Station \ {s} : /\ taken'[r] = taken[r]
                                  /\ pending'[r] = pending[r]
                                  /\ seq'[r] = seq[r]
  BY <1>3 DEF TypeOK
<1>6. /\ Len(taken'[s]) = n + 1
      /\ taken'[s][n + 1] = f
      /\ \A i \in 1..n : taken'[s][i] = taken[s][i]
  BY <1>4, <1>5
<1>7. f.seq = (n + 1) % 4
  <2>1. seq[s] = n % 4
    BY DEF Core, Numbered
  <2>2. f.seq = ((n % 4) + 1) % 4
    BY <1>2, <2>1
  <2> HIDE DEF n
  <2> QED
    BY <1>4, <2>2, NextNumber
<1>8. Numbered'
  <2>1. ASSUME NEW r \in Station
        PROVE  /\ seq'[r] = Len(taken'[r]) % 4
               /\ last_rx_seq'[r] = IF Len(accepted'[r]) = 0 THEN -1
                                    ELSE Len(accepted'[r]) % 4
               /\ \A i \in 1..Len(taken'[r]) : taken'[r][i].seq = i % 4
               /\ pending'[r].active =>
                     /\ Len(taken'[r]) > 0
                     /\ pending'[r] = taken'[r][Len(taken'[r])]
    <3>1. CASE r # s
      BY <1>3, <1>5, <3>1 DEF Core, Numbered
    <3>2. CASE r = s
      <4>1. \A i \in 1..(n + 1) : taken'[s][i].seq = i % 4
        <5>1. \A i \in 1..n : taken'[s][i].seq = i % 4
          BY <1>6 DEF Core, Numbered
        <5>2. \A i \in 1..(n + 1) : i \in 1..n \/ i = n + 1
          BY <1>4
        <5> QED
          BY <1>6, <1>7, <5>1, <5>2
      <4>2. seq'[s] = Len(taken'[s]) % 4
        BY <1>5, <1>6, <1>7
      <4>3. last_rx_seq'[s] = IF Len(accepted'[s]) = 0 THEN -1
                              ELSE Len(accepted'[s]) % 4
        BY <1>3 DEF Core, Numbered
      <4>4. /\ Len(taken'[s]) > 0
            /\ pending'[s] = taken'[s][Len(taken'[s])]
        BY <1>4, <1>5, <1>6
      <4> QED
        BY <1>6, <3>2, <4>1, <4>2, <4>3, <4>4
    <3> QED
      BY <3>1, <3>2
  <2> QED
    BY <2>1 DEF Numbered
<1>9. InFlight'
  <2>1. /\ air'.to = Peer(s) /\ air'.ack = AckField(s)
        /\ air'.seq = f.seq /\ air'.stream = f.stream
        /\ air'.chunk = f.chunk /\ air'.last = f.last
    BY <1>3 DEF DataFrame
  <2>2. AckField(s) = Len(accepted'[s]) % 4
    BY <1>3, AckCounts
  <2>3. Len(taken'[s]) > 0 /\ taken'[s][Len(taken'[s])] = f
    BY <1>4, <1>6
  <2> QED
    BY <1>4, <2>1, <2>2, <2>3 DEF InFlight
<1>10. ExactlyOnce'
  <2>1. ASSUME NEW r \in Station
        PROVE  LET k == Len(taken'[r])
                   m == Len(accepted'[Peer(r)])
               IN  /\ m \in {k - 1, k}
                   /\ ~pending'[r].active => m = k
                   /\ \A i \in 1..m : accepted'[Peer(r)][i] = taken'[r][i]
    <3>1. CASE r # s
      BY <1>3, <1>5, <3>1 DEF Core, ExactlyOnce
    <3>2. CASE r = s
      <4>1. Len(accepted[Peer(s)]) = n
        BY <1>3 DEF Core, ExactlyOnce
      <4>2. \A i \in 1..n : accepted[Peer(s)][i] = taken[s][i]
        BY <4>1 DEF Core, ExactlyOnce
      <4> QED
        BY <1>2, <1>3, <1>4, <1>5, <1>6, <3>2, <4>1, <4>2
    <3> QED
      BY <3>1, <3>2
  <2> QED
    BY <2>1 DEF ExactlyOnce
<1> QED
  BY <1>8, <1>9, <1>10 DEF Core

(* A decoded frame: an ack retires only what the peer holds, and a data    *)
(* frame is accepted exactly when it is the next fragment.                 *)
LEMMA CoreReceive ==
  ASSUME TypeOK, Core, NEW s \in Station, Receive(s)
  PROVE  Core'
<1> DEFINE p == Peer(s)
<1>1. /\ air # None /\ air.to = s /\ Retire(s, air)
      /\ air' = None /\ UNCHANGED <<seq, taken>>
  BY DEF Receive
<1>2. p \in Station /\ Peer(p) = s /\ p # s
  BY PeerPeer
<1>3. /\ \A r \in Station \ {s} : pending'[r] = pending[r]
      /\ pending'[s].active => pending'[s] = pending[s]
      /\ ~pending'[s].active /\ pending[s].active => Retires(s, air)
  BY <1>1 DEF Retire, TypeOK, NoFragment
<1>4. ~pending'[s].active => Len(accepted[p]) = Len(taken[s])
  BY <1>1, <1>3, AckIsTrue DEF Core, ExactlyOnce
<1>5. InFlight'
  BY <1>1 DEF InFlight
<1>6. CASE UNCHANGED accepted /\ last_rx_seq' = last_rx_seq
  <2>1. Numbered'
    BY <1>1, <1>3, <1>6 DEF Core, Numbered
  <2>2. ASSUME NEW r \in Station
        PROVE  LET k == Len(taken'[r])
                   m == Len(accepted'[Peer(r)])
               IN  /\ m \in {k - 1, k}
                   /\ ~pending'[r].active => m = k
                   /\ \A i \in 1..m : accepted'[Peer(r)][i] = taken'[r][i]
    BY <1>1, <1>3, <1>4, <1>6 DEF Core, ExactlyOnce
  <2> QED
    BY <1>5, <2>1, <2>2 DEF Core, ExactlyOnce
<1>7. CASE air.kind = "data" /\ air.seq # last_rx_seq[s] /\ ReceiveData(s, air)
  <2> DEFINE n == Len(taken[p])
             frag == [active |-> TRUE, seq |-> air.seq,
                      stream |-> air.stream, chunk |-> air.chunk,
                      last |-> air.last]
  <2>1. /\ accepted' = [accepted EXCEPT ![s] = Append(@, frag)]
        /\ last_rx_seq' = [last_rx_seq EXCEPT ![s] = air.seq]
    BY <1>7 DEF ReceiveData, Accept
  <2>2. /\ n \in Nat /\ n > 0 /\ air.seq = n % 4
        /\ Len(accepted[s]) = n - 1
    BY <1>1, <1>7, Lengths, NewIsNew, PeerPeer
  <2>3. /\ accepted[s] \in Seq(Fragment)
        /\ accepted'[s] = Append(accepted[s], frag)
        /\ last_rx_seq'[s] = air.seq
        /\ \A r \in Station \ {s} : /\ accepted'[r] = accepted[r]
                                    /\ last_rx_seq'[r] = last_rx_seq[r]
    BY <2>1 DEF TypeOK
  <2> HIDE DEF frag
  <2>4. /\ Len(accepted'[s]) = n /\ accepted'[s][n] = frag
        /\ \A i \in 1..(n - 1) : accepted'[s][i] = accepted[s][i]
    BY <2>2, <2>3
  <2>5. frag = taken[p][n]
    <3>1. /\ air.seq = taken[p][n].seq /\ air.stream = taken[p][n].stream
          /\ air.chunk = taken[p][n].chunk /\ air.last = taken[p][n].last
      BY <1>1, <1>7 DEF Core, InFlight
    <3>2. taken[p][n] \in Fragment
      BY <1>2, <2>2, Lengths
    <3> QED
      BY <3>1, <3>2 DEF Fragment, frag
  <2>6. Numbered'
    <3>1. ASSUME NEW r \in Station
          PROVE  /\ seq'[r] = Len(taken'[r]) % 4
                 /\ last_rx_seq'[r] = IF Len(accepted'[r]) = 0 THEN -1
                                      ELSE Len(accepted'[r]) % 4
                 /\ \A i \in 1..Len(taken'[r]) : taken'[r][i].seq = i % 4
                 /\ pending'[r].active =>
                       /\ Len(taken'[r]) > 0
                       /\ pending'[r] = taken'[r][Len(taken'[r])]
      <4>1. CASE r # s
        BY <1>1, <1>3, <2>3, <4>1 DEF Core, Numbered
      <4>2. CASE r = s
        <5>1. last_rx_seq'[s] = IF Len(accepted'[s]) = 0 THEN -1
                                ELSE Len(accepted'[s]) % 4
          <6>1. last_rx_seq'[s] = n % 4
            BY <2>2, <2>3
          <6>2. Len(accepted'[s]) = n /\ n # 0
            BY <2>2, <2>4
          <6> QED
            BY <6>1, <6>2
        <5> QED
          BY <1>1, <1>3, <4>2, <5>1 DEF Core, Numbered
      <4> QED
        BY <4>1, <4>2
    <3> QED
      BY <3>1 DEF Numbered
  <2>7. ExactlyOnce'
    <3>1. ASSUME NEW r \in Station
          PROVE  LET k == Len(taken'[r])
                     m == Len(accepted'[Peer(r)])
                 IN  /\ m \in {k - 1, k}
                     /\ ~pending'[r].active => m = k
                     /\ \A i \in 1..m : accepted'[Peer(r)][i] = taken'[r][i]
      <4>1. CASE r = s
        <5>1. accepted'[p] = accepted[p]
          BY <1>2, <2>3
        <5> QED
          BY <1>1, <1>4, <4>1, <5>1 DEF Core, ExactlyOnce
      <4>2. CASE r # s
        <5>1. r = p /\ Peer(r) = s
          BY <1>2, <4>2 DEF Station
        <5>2. \A i \in 1..(n - 1) : accepted[s][i] = taken[p][i]
          BY <1>2, <2>2 DEF Core, ExactlyOnce
        <5>3. \A i \in 1..n : i \in 1..(n - 1) \/ i = n
          BY <2>2
        <5>4. \A i \in 1..n : accepted'[s][i] = taken[p][i]
          BY <2>4, <2>5, <5>2, <5>3
        <5> QED
          BY <1>1, <2>2, <2>4, <5>1, <5>4
      <4> QED
        BY <4>1, <4>2
    <3> QED
      BY <3>1 DEF ExactlyOnce
  <2> QED
    BY <1>5, <2>6, <2>7 DEF Core
<1>8. CASE ReceiveData(s, air) /\ air.seq = last_rx_seq[s]
  <2>1. UNCHANGED accepted /\ last_rx_seq' = last_rx_seq
    BY <1>8 DEF ReceiveData, TypeOK
  <2> QED
    BY <1>6, <2>1
<1>9. CASE ReceiveNoData(s, air)
  BY <1>6, <1>9 DEF ReceiveNoData, rxVars
<1>10. ReceiveData(s, air) => air.kind = "data"
  BY DEF ReceiveData
<1> QED
  BY <1>7, <1>8, <1>9, <1>10 DEF Receive

(* Every step keeps the argument. *)
LEMMA CoreStep ==
  ASSUME TypeOK, Core, [Next]_vars
  PROVE  Core'
<1>1. ASSUME NEW s \in Station, NEW m \in Messages, Submit(s, m)
      PROVE  Core'
  BY <1>1, CoreFrame DEF Submit, rxVars
<1>2. ASSUME NEW s \in Station, Drain(s)
      PROVE  Core'
  BY <1>2, CoreFrame DEF Drain, txVars, history
<1>3. ASSUME NEW s \in Station, Transmit(s)
      PROVE  Core'
  BY <1>3, CoreResend, CoreNew DEF Transmit
<1>4. ASSUME NEW s \in Station, Timeout(s)
      PROVE  Core'
  BY <1>4, CoreFrame DEF Timeout, txVars, rxVars, history
<1>5. CASE Lose
  BY <1>5, CoreFrame DEF Lose, txVars, rxVars, history
<1>6. CASE UNCHANGED vars
  BY <1>6, CoreFrame DEF vars, txVars, rxVars, history
<1> QED
  BY <1>1, <1>2, <1>3, <1>4, <1>5, <1>6, CoreReceive DEF Next

(* Initially nothing was cut, nothing accepted and the channel is quiet. *)
LEMMA InitCore == Init => Core
<1> SUFFICES ASSUME Init PROVE Core
  OBVIOUS
<1>1. \A s \in Station : /\ taken[s] = <<>> /\ accepted[s] = <<>>
                         /\ seq[s] = 0 /\ last_rx_seq[s] = -1
                         /\ ~pending[s].active
  BY DEF Init, NoFragment
<1>2. Numbered
  <2>1. 0 % 4 = 0 /\ Len(<<>>) = 0 /\ 1..0 = {}
    OBVIOUS
  <2> QED
    BY <1>1, <2>1 DEF Numbered
<1>3. ExactlyOnce
  BY <1>1, PeerPeer DEF ExactlyOnce
<1>4. InFlight
  BY DEF Init, InFlight
<1> QED
  BY <1>2, <1>3, <1>4 DEF Core

(* The inductive invariant of the stop-and-wait exchange. *)
THEOREM Inductive == Spec => []IInv
<1>1. Init => IInv
  BY InitType, InitCore DEF IInv, Core
<1>2. IInv /\ [Next]_vars => IInv'
  BY TypeStep, PendingOpenStep, CoreStep DEF IInv, Core
<1> QED
  BY <1>1, <1>2, PTL DEF Spec

(* Whatever is lost or repeated, for any traffic, any message sizes and    *)
(* any fragment lengths: the peer accepts every fragment once, in order,   *)
(* and an acknowledged fragment is one it holds (station_on_decoded's      *)
(* duplicate test and ack check).                                          *)
THEOREM FragmentsExactlyOnce == Spec => []ExactlyOnce
<1>1. IInv => ExactlyOnce
  BY DEF IInv
<1> QED
  BY <1>1, Inductive, PTL

-----------------------------------------------------------------------------
(* From fragments to messages, for each direction.  What waits at a sender *)
(* is the rest of what was submitted to it, the open message just before;  *)
(* the fragment that is out is the next part of an open message; and the   *)
(* receiver holds of each message the parts retired, or one fragment more  *)
(* when it is ahead of the acknowledgment.                                 *)
QueuesOrdered(s) ==
  \A q \in Class :
    LET from == submitted[s][q]
        n == Len(from) - Len(queue[s][q])
    IN  /\ n >= 0
        /\ \A i \in 1..Len(from) : QosOf[from[i]] = q
        /\ \A i \in 1..Len(queue[s][q]) : queue[s][q][i] = from[n + i]
OpenNext(s) ==
  \A c \in Stream :
    cur[s][c] # Nothing =>
      LET m == cur[s][c].msg
          from == submitted[s][QosOf[m]]
          n == Len(from) - Len(queue[s][QosOf[m]])
      IN  /\ StreamOf(QosOf[m]) = c /\ cur[s][c].off < Size[m]
          /\ n >= 1 /\ from[n] = m
PartOf(f, o) ==
  \E n \in 1..Size[o.msg] - o.off :
    /\ f.chunk = Units(o.msg, o.off, n)
    /\ f.last <=> o.off + n = Size[o.msg]
FragmentTrue(s) ==
  pending[s].active => PartOf(pending[s], cur[s][pending[s].stream])
Ahead(s, c) ==
  /\ pending[s].active /\ pending[s].stream = c
  /\ Len(accepted[Peer(s)]) = Len(taken[s])
Held(s, c) ==
  IF cur[s][c] = Nothing \/ (Ahead(s, c) /\ pending[s].last) THEN <<>>
  ELSE IF Ahead(s, c)
       THEN Units(cur[s][c].msg, 0, cur[s][c].off + Len(pending[s].chunk))
  ELSE Units(cur[s][c].msg, 0, cur[s][c].off)
AssemblyTrue(s) == \A c \in Stream : assembly[Peer(s)][c] = Held(s, c)
Finished(s, q) ==
  /\ Ahead(s, StreamOf(q)) /\ pending[s].last
  /\ QosOf[cur[s][StreamOf(q)].msg] = q
CountTrue(s) ==
  \A q \in Class :
    Promise!Completed(Peer(s), q)
      = gone[s][q] + (IF Finished(s, q) THEN 1 ELSE 0)
Dir(s) == QueuesOrdered(s) /\ OpenNext(s) /\ FragmentTrue(s)
          /\ AssemblyTrue(s) /\ CountTrue(s)
StreamInv == \A s \in Station : Dir(s)

(* The two classes and streams, and what the promise calls them.           *)
LEMMA Classes ==
  /\ \A q \in Class :
       StreamOf(q) \in Stream /\ Promise!StreamOf(q) = StreamOf(q)
  /\ Class = Promise!Class /\ Station = Promise!Station
  /\ \A s \in Station : Promise!Peer(s) = Peer(s)
  BY DEF StreamOf, Promise!StreamOf, Class, Promise!Class, Stream, QOS_BULK,
         QOS_CONTROL, QOS_INTERACTIVE, Promise!Station, Station, Peer,
         Promise!Peer

(* How many messages of a class are in a log, and one more.                *)
Places(l, q) == {i \in 1..Len(l) : QosOf[l[i].units[1][1]] = q}
Count(l, q) == Cardinality(Places(l, q))
LEMMA CountAppend ==
  ASSUME NEW S, NEW l \in Seq(S), NEW e \in S, NEW q
  PROVE  /\ Count(l, q) \in Nat
         /\ Count(Append(l, e), q) =
              Count(l, q) + (IF QosOf[e.units[1][1]] = q THEN 1 ELSE 0)
<1> DEFINE z == Append(l, e)
<1>1. /\ Len(l) \in Nat /\ Len(z) = Len(l) + 1 /\ z[Len(l) + 1] = e
      /\ \A i \in 1..Len(l) : z[i] = l[i]
  OBVIOUS
<1> HIDE DEF z
<1>2. IsFiniteSet(Places(l, q))
  <2>1. 1 \in Int /\ Len(l) \in Int
    BY <1>1
  <2>2. IsFiniteSet(1..Len(l))
    BY <2>1, FS_Interval
  <2>3. Places(l, q) \subseteq 1..Len(l)
    BY DEF Places
  <2> QED
    BY <2>2, <2>3, FS_Subset
<1>3. 1..Len(z) = 1..Len(l) \cup {Len(l) + 1} /\ Len(l) + 1 \notin 1..Len(l)
  BY <1>1
<1>4. \A i \in 1..Len(l) : i \in Places(z, q) <=> i \in Places(l, q)
  BY <1>1, <1>3 DEF Places
<1>5. CASE QosOf[e.units[1][1]] = q
  <2>1. Places(z, q) = Places(l, q) \cup {Len(l) + 1}
    BY <1>1, <1>3, <1>4, <1>5 DEF Places
  <2>2. Len(l) + 1 \notin Places(l, q)
    BY <1>3 DEF Places
  <2> QED
    BY <1>2, <1>5, <2>1, <2>2, FS_AddElement, FS_CardinalityType
       DEF Count, z
<1>6. CASE QosOf[e.units[1][1]] # q
  <2>1. Places(z, q) = Places(l, q)
    BY <1>1, <1>3, <1>4, <1>6 DEF Places
  <2> QED
    BY <1>2, <1>6, <2>1, FS_CardinalityType DEF Count, z
<1> QED
  BY <1>5, <1>6

LEMMA CompletedCount ==
  \A s, q : Promise!Completed(s, q) = Count(log[s][Promise!StreamOf(q)], q)
  BY DEF Promise!Completed, Promise!Cardinality, Count, Places, Cardinality

LEMMA GoneIs ==
  \A s \in Station, q \in Class :
    gone[s][q] = Len(submitted[s][q]) - Len(queue[s][q])
                 - (IF /\ cur[s][StreamOf(q)] # Nothing
                       /\ QosOf[cur[s][StreamOf(q)].msg] = q THEN 1 ELSE 0)
  BY DEF gone

(* The promise's third variable is the same when each station's is.        *)
LEMMA GoneSame ==
  ASSUME \A s \in Station : gone'[s] = gone[s]
  PROVE  gone' = gone
<1>1. /\ gone = [s \in Station |-> gone[s]]
      /\ gone' = [s \in Station |-> gone'[s]]
  BY DEF gone
<1> QED
  BY <1>1, Zenon

(* A run of no units is empty, and two runs that meet are one.             *)
LEMMA UnitsJoin ==
  ASSUME NEW m \in Messages, NEW a \in Nat, NEW b \in Nat
  PROVE  /\ Units(m, 0, 0) = <<>>
         /\ Len(Units(m, a, b)) = b
         /\ Units(m, 0, a) \o Units(m, a, b) = Units(m, 0, a + b)
<1>1. \A x, y \in Nat : /\ Units(m, x, y) \in Seq(Unit)
                        /\ Len(Units(m, x, y)) = y
                        /\ \A i \in 1..y : Units(m, x, y)[i] = <<m, x + i>>
  <2> TAKE x, y \in Nat
  <2>1. Units(m, x, y) \in Seq(Unit)
    BY UnitsType, y \in Int
  <2>2. /\ Len(Units(m, x, y)) = y
        /\ \A i \in 1..y : Units(m, x, y)[i] = <<m, x + i>>
    BY DEF Units
  <2> QED
    BY <2>1, <2>2
<1>2. Units(m, 0, 0) = <<>>
  BY DEF Units
<1> DEFINE u == Units(m, 0, a)
           v == Units(m, a, b)
           w == Units(m, 0, a + b)
<1>3. /\ u \in Seq(Unit) /\ Len(u) = a /\ v \in Seq(Unit) /\ Len(v) = b
      /\ w \in Seq(Unit) /\ Len(w) = a + b
      /\ \A i \in 1..a : u[i] = <<m, 0 + i>>
      /\ \A i \in 1..b : v[i] = <<m, a + i>>
      /\ \A i \in 1..a + b : w[i] = <<m, 0 + i>>
  BY <1>1, a + b \in Nat
<1> HIDE DEF u, v, w
<1>4. u \o v = w
  <2>1. u \o v \in Seq(Unit) /\ Len(u \o v) = a + b
    BY <1>3
  <2>2. \A i \in 1..a + b : (u \o v)[i] = w[i]
    <3> TAKE i \in 1..a + b
    <3>1. CASE i <= a
      <4>1. i \in 1..a /\ (u \o v)[i] = u[i]
        BY <1>3, <3>1
      <4> QED
        BY <1>3, <4>1
    <3>2. CASE ~ i <= a
      <4>1. i - a \in 1..b /\ (u \o v)[i] = v[i - a]
        BY <1>3, <3>2
      <4>2. a + (i - a) = 0 + i
        OBVIOUS
      <4> QED
        BY <1>3, <4>1, <4>2
    <3> QED
      BY <3>1, <3>2
  <2> DEFINE z == u \o v
  <2> HIDE DEF z
  <2>3. z \in Seq(Unit) /\ Len(z) = Len(w) /\ \A i \in 1..Len(z) : z[i] = w[i]
    BY <1>3, <2>1, <2>2 DEF z
  <2>4. z = w
    BY <1>3, <2>3, SeqEqual
  <2> QED
    BY <2>4 DEF z
<1> QED
  BY <1>1, <1>2, <1>4 DEF u, v, w


(* Nothing the direction depends on changes: nor does the promise. *)
LEMMA DirFrame ==
  ASSUME NEW s \in Station, Dir(s),
         submitted'[s] = submitted[s], queue'[s] = queue[s],
         cur'[s] = cur[s], pending'[s] = pending[s], taken'[s] = taken[s],
         accepted'[Peer(s)] = accepted[Peer(s)],
         assembly'[Peer(s)] = assembly[Peer(s)],
         log'[Peer(s)] = log[Peer(s)]
  PROVE  Dir(s)' /\ gone'[s] = gone[s]
<1>1. QueuesOrdered(s)' /\ OpenNext(s)'
  BY DEF Dir, QueuesOrdered, OpenNext
<1>2. FragmentTrue(s)' /\ AssemblyTrue(s)'
  BY DEF Dir, FragmentTrue, PartOf, AssemblyTrue, Held, Ahead
<1>3. gone'[s] = gone[s]
  BY DEF gone
<1>4. \A q : Promise!Completed(Peer(s), q)' = Promise!Completed(Peer(s), q)
  BY DEF Promise!Completed
<1>5. \A q : Finished(s, q)' <=> Finished(s, q)
  BY DEF Finished, Ahead
<1>6. CountTrue(s)'
  BY <1>3, <1>4, <1>5 DEF Dir, CountTrue
<1> QED
  BY <1>1, <1>2, <1>3, <1>6 DEF Dir


(* A sequence with one element more. *)
LEMMA AppendIs ==
  ASSUME NEW S, NEW l \in Seq(S), NEW e \in S
  PROVE  /\ Len(l) \in Nat /\ Len(Append(l, e)) = Len(l) + 1
         /\ Append(l, e)[Len(l) + 1] = e
         /\ \A i \in 1..Len(l) : Append(l, e)[i] = l[i]
  OBVIOUS

(* A submission waits last in its class and in what was submitted.         *)
LEMMA SubmitOffers ==
  ASSUME TypeOK, StreamInv, NEW s \in Station, NEW m \in Messages, Submit(s, m)
  PROVE  StreamInv' /\ gone' = gone /\ Promise!Offer(s, m)
<1> DEFINE q == QosOf[m]
           F == submitted[s][q]
           Q == queue[s][q]
<1>1. q \in Class
  BY StationAssumption DEF Class, QOS_CONTROL, QOS_INTERACTIVE, QOS_BULK
<1>2. F \in Seq(Messages) /\ Q \in Seq(Messages)
  BY <1>1 DEF TypeOK
<1>3. /\ queue'[s][q] = Append(Q, m) /\ submitted'[s][q] = Append(F, m)
      /\ \A p \in Class \ {q} : /\ queue'[s][p] = queue[s][p]
                                /\ submitted'[s][p] = submitted[s][p]
      /\ \A r \in Station \ {s} : /\ queue'[r] = queue[r]
                                  /\ submitted'[r] = submitted[r]
  BY <1>1 DEF Submit, TypeOK
<1>4. UNCHANGED <<cur, pending, assembly, log, taken, accepted>>
  BY DEF Submit, rxVars
<1>5. Dir(s)
  BY DEF StreamInv
<1>6. /\ Len(Append(F, m)) = Len(F) + 1 /\ Append(F, m)[Len(F) + 1] = m
      /\ \A i \in 1..Len(F) : Append(F, m)[i] = F[i]
      /\ Len(Append(Q, m)) = Len(Q) + 1 /\ Append(Q, m)[Len(Q) + 1] = m
      /\ \A i \in 1..Len(Q) : Append(Q, m)[i] = Q[i]
      /\ Len(F) \in Nat /\ Len(Q) \in Nat
  <2> HIDE DEF F, Q
  <2> QED
    BY <1>2, AppendIs
<1>7. /\ Len(F) - Len(Q) >= 0
      /\ \A i \in 1..Len(F) : QosOf[F[i]] = q
      /\ \A i \in 1..Len(Q) : Q[i] = F[Len(F) - Len(Q) + i]
  BY <1>1, <1>5 DEF Dir, QueuesOrdered
<1> DEFINE F2 == Append(F, m)
           Q2 == Append(Q, m)
<1>8. /\ Len(F2) - Len(Q2) = Len(F) - Len(Q)
      /\ \A i \in 1..Len(F2) : QosOf[F2[i]] = q
      /\ \A i \in 1..Len(Q2) : Q2[i] = F2[Len(F2) - Len(Q2) + i]
  <2> HIDE DEF F, Q, F2, Q2, q
  <2>1. QosOf[m] = q
    BY DEF q
  <2>2. Len(F2) = Len(F) + 1 /\ Len(Q2) = Len(Q) + 1
    BY <1>6 DEF F2, Q2
  <2>3. ASSUME NEW i \in 1..Len(F2) PROVE QosOf[F2[i]] = q
    <3>1. i \in 1..Len(F) \/ i = Len(F) + 1
      BY <2>2, <1>6
    <3> QED
      BY <3>1, <1>6, <1>7, <2>1 DEF F2
  <2>4. ASSUME NEW i \in 1..Len(Q2)
        PROVE  Q2[i] = F2[Len(F) - Len(Q) + i]
    <3>1. CASE i = Len(Q) + 1
      <4>1. Len(F) - Len(Q) + i = Len(F) + 1
        BY <3>1, <1>6
      <4> QED
        BY <4>1, <3>1, <1>6 DEF F2, Q2
    <3>2. CASE i # Len(Q) + 1
      <4>1. i \in 1..Len(Q) /\ Len(F) - Len(Q) + i \in 1..Len(F)
        BY <3>2, <2>2, <1>6, <1>7
      <4> QED
        BY <4>1, <1>6, <1>7 DEF F2, Q2
    <3> QED
      BY <3>1, <3>2
  <2>5. Len(F2) - Len(Q2) = Len(F) - Len(Q)
    BY <2>2, <1>6
  <2> QED
    BY <2>3, <2>4, <2>5
<1>9. QueuesOrdered(s)'
  <2>1. ASSUME NEW p \in Class
        PROVE  LET from == submitted'[s][p]
                   n == Len(from) - Len(queue'[s][p])
               IN  /\ n >= 0
                   /\ \A i \in 1..Len(from) : QosOf[from[i]] = p
                   /\ \A i \in 1..Len(queue'[s][p]) :
                        queue'[s][p][i] = from[n + i]
    <3>1. CASE p = q
      BY <3>1, <1>3, <1>7, <1>8
    <3>2. CASE p # q
      BY <3>2, <1>3, <1>5 DEF Dir, QueuesOrdered
    <3> QED
      BY <3>1, <3>2
  <2> QED
    BY <2>1 DEF QueuesOrdered
<1>10. OpenNext(s)'
  <2>1. ASSUME NEW c \in Stream, cur[s][c] # Nothing
        PROVE  LET o == cur[s][c].msg
                   from == submitted'[s][QosOf[o]]
                   n == Len(from) - Len(queue'[s][QosOf[o]])
               IN  /\ StreamOf(QosOf[o]) = c /\ cur[s][c].off < Size[o]
                   /\ n >= 1 /\ from[n] = o
    <3> DEFINE o == cur[s][c].msg
    <3>1. /\ StreamOf(QosOf[o]) = c /\ cur[s][c].off < Size[o]
          /\ Len(submitted[s][QosOf[o]]) - Len(queue[s][QosOf[o]]) >= 1
          /\ submitted[s][QosOf[o]][Len(submitted[s][QosOf[o]])
                                    - Len(queue[s][QosOf[o]])] = o
      BY <2>1, <1>5 DEF Dir, OpenNext
    <3>2. QosOf[o] \in Class
      <4>1. cur[s][c] \in Open
        BY <2>1 DEF TypeOK
      <4> QED
        BY <4>1, StationAssumption
           DEF Open, Class, QOS_CONTROL, QOS_INTERACTIVE, QOS_BULK
    <3> DEFINE n == Len(F) - Len(Q)
    <3>3. CASE QosOf[o] = q
      <4>1. n >= 1 /\ F[n] = o
        BY <3>1, <3>3
      <4>2. n \in 1..Len(F)
        <5> HIDE DEF F, Q
        <5> QED
          BY <4>1, <1>6
      <4>3. F2[n] = o
        BY <4>1, <4>2, <1>6
      <4>4. /\ submitted'[s][QosOf[o]] = F2
            /\ queue'[s][QosOf[o]] = Q2
        BY <3>3, <1>3
      <4> HIDE DEF F, Q, F2, Q2, o
      <4>5. Len(F2) - Len(Q2) = n
        BY <1>8
      <4> QED
        BY <3>1, <4>1, <4>3, <4>4, <4>5 DEF o
    <3>4. CASE QosOf[o] # q
      BY <3>1, <3>2, <3>4, <1>3
    <3> QED
      BY <3>3, <3>4
  <2> QED
    BY <1>4, <2>1 DEF OpenNext
<1>11. FragmentTrue(s)' /\ AssemblyTrue(s)'
  BY <1>4, <1>5 DEF Dir, FragmentTrue, PartOf, AssemblyTrue, Held, Ahead
<1>12. gone' = gone
  <2>1. ASSUME NEW r \in Station, NEW p \in Class
        PROVE  Len(submitted'[r][p]) - Len(queue'[r][p])
               = Len(submitted[r][p]) - Len(queue[r][p])
    <3>1. CASE r = s /\ p = q
      BY <3>1, <1>3, <1>8
    <3>2. CASE ~ (r = s /\ p = q)
      BY <3>2, <1>3
    <3> QED
      BY <3>1, <3>2
  <2> QED
    BY <2>1, <1>4 DEF gone
<1>13. CountTrue(s)'
  <2>1. \A p : Promise!Completed(Peer(s), p)' = Promise!Completed(Peer(s), p)
    BY <1>4 DEF Promise!Completed
  <2>2. \A p : Finished(s, p)' <=> Finished(s, p)
    BY <1>4 DEF Finished, Ahead
  <2> QED
    BY <1>5, <1>12, <2>1, <2>2 DEF Dir, CountTrue
<1>14. StreamInv'
  <2>1. ASSUME NEW r \in Station, r # s PROVE Dir(r)'
    BY <2>1, <1>3, <1>4, DirFrame DEF StreamInv
  <2> QED
    BY <1>9, <1>10, <1>11, <1>13, <2>1 DEF StreamInv, Dir
<1>15. Promise!Offer(s, m)
  BY <1>4, <1>12 DEF Submit, Promise!Offer
<1> QED
  BY <1>12, <1>14, <1>15


(* A transmission that repeats, or only acknowledges, changes no message.  *)
LEMMA ResendStutters ==
  ASSUME StreamInv, NEW s \in Station, Transmit(s), ~SendNew(s)
  PROVE  StreamInv' /\ gone' = gone /\ UNCHANGED <<submitted, log>>
<1>1. UNCHANGED <<txVars, taken, submitted, log, accepted, assembly>>
  BY DEF Transmit, SendPending, SendAck
<1>2. StreamInv'
  BY <1>1, DirFrame DEF StreamInv, txVars
<1> QED
  BY <1>1, <1>2 DEF txVars, gone

(* The message that is opened is the next of its class, in a free stream.  *)
LEMMA OpenedIs ==
  ASSUME TypeOK, NEW s \in Station, QueuesOrdered(s), Opened(s) # None
  PROVE  LET q == Opened(s)
             m == Head(queue[s][q])
             n == Len(submitted[s][q]) - Len(queue[s][q])
         IN  /\ q \in Class /\ cur[s][StreamOf(q)] = Nothing
             /\ m \in Messages /\ QosOf[m] = q
             /\ n \in Nat /\ submitted[s][q][n + 1] = m
             /\ Len(queue[s][q]) \in Nat
             /\ Len(Tail(queue[s][q])) = Len(queue[s][q]) - 1
             /\ \A i \in 1..Len(queue[s][q]) - 1 :
                  Tail(queue[s][q])[i] = submitted[s][q][n + 1 + i]
<1> DEFINE q == Opened(s)
           Q == queue[s][q]
           F == submitted[s][q]
           n == Len(F) - Len(Q)
<1>1. q \in Class /\ Q # <<>> /\ cur[s][StreamOf(q)] = Nothing
  BY DEF Opened, Class, QOS_CONTROL, QOS_INTERACTIVE, QOS_BULK, StreamOf
<1>2. Q \in Seq(Messages) /\ F \in Seq(Messages)
  BY <1>1 DEF TypeOK
<1>3. /\ n >= 0 /\ \A i \in 1..Len(F) : QosOf[F[i]] = q
      /\ \A i \in 1..Len(Q) : Q[i] = F[n + i]
  BY <1>1 DEF QueuesOrdered
<1> HIDE DEF Q, F, q
<1>4. /\ Len(Q) \in Nat /\ Len(Q) >= 1 /\ Len(F) \in Nat
      /\ Head(Q) \in Messages /\ Head(Q) = Q[1]
      /\ Len(Tail(Q)) = Len(Q) - 1
      /\ \A i \in 1..Len(Q) - 1 : Tail(Q)[i] = Q[i + 1]
  BY <1>1, <1>2
<1>5. n \in Nat /\ 1 \in 1..Len(Q) /\ n + 1 \in 1..Len(F)
  BY <1>3, <1>4
<1>6. Head(Q) = F[n + 1] /\ QosOf[Head(Q)] = q
  BY <1>3, <1>4, <1>5
<1>7. \A i \in 1..Len(Q) - 1 : Tail(Q)[i] = F[n + 1 + i]
  <2> TAKE i \in 1..Len(Q) - 1
  <2>1. i + 1 \in 1..Len(Q) /\ n + (i + 1) = n + 1 + i
    BY <1>4, <1>5
  <2>2. Q[i + 1] = F[n + 1 + i]
    BY <1>3, <2>1
  <2> QED
    BY <1>4, <2>2
<1> QED
  BY <1>1, <1>4, <1>5, <1>6, <1>7 DEF Q, F, q

(* Opening a message keeps the order of the queues, and gives nothing up.  *)
LEMMA OpeningKeeps ==
  ASSUME TypeOK, NEW s \in Station, QueuesOrdered(s), OpenNext(s),
         queue'[s] = OpenedQueue(s), cur'[s] = OpenedCur(s),
         submitted'[s] = submitted[s]
  PROVE  QueuesOrdered(s)' /\ OpenNext(s)' /\ gone'[s] = gone[s]
<1>1. CASE Opened(s) = None
  BY <1>1 DEF OpenedQueue, OpenedCur, QueuesOrdered, OpenNext, gone
<1>2. CASE Opened(s) # None
  <2> DEFINE q == Opened(s)
             Q == queue[s][q]
             F == submitted[s][q]
             m == Head(Q)
             n == Len(F) - Len(Q)
  <2>1. /\ q \in Class /\ cur[s][StreamOf(q)] = Nothing
        /\ m \in Messages /\ QosOf[m] = q
        /\ n \in Nat /\ F[n + 1] = m /\ Len(Q) \in Nat
        /\ Len(Tail(Q)) = Len(Q) - 1
        /\ \A i \in 1..Len(Q) - 1 : Tail(Q)[i] = F[n + 1 + i]
    BY <1>2, OpenedIs
  <2>2. /\ queue[s] \in [Class -> Seq(Messages)]
        /\ cur[s] \in [Stream -> Open \cup {Nothing}]
        /\ F \in Seq(Messages)
    BY <2>1 DEF TypeOK
  <2>3. /\ queue'[s][q] = Tail(Q)
        /\ \A p \in Class \ {q} : queue'[s][p] = queue[s][p]
        /\ cur'[s][StreamOf(q)] = [msg |-> m, off |-> 0]
        /\ \A c \in Stream \ {StreamOf(q)} : cur'[s][c] = cur[s][c]
    BY <1>2, <2>1, <2>2, Classes DEF OpenedQueue, OpenedCur
  <2>4. Len(F) \in Nat
    BY <2>2
  <2>5. m # None /\ [msg |-> m, off |-> 0] # Nothing
    BY <2>1, StationAssumption DEF Nothing
  <2> HIDE DEF q, Q, F, m
  <2>6. /\ Len(F) - Len(Tail(Q)) = n + 1
        /\ n + 1 >= 0
    <3>1. Len(Q) \in Nat /\ Len(Tail(Q)) = Len(Q) - 1 /\ n \in Nat
      BY <2>1
    <3> DEFINE y == Len(Tail(Q))
               x == Len(Q)
               z == Len(F)
    <3>2. x \in Nat /\ y = x - 1 /\ z \in Nat /\ z - x \in Nat
      BY <2>4, <3>1
    <3> HIDE DEF x, y, z
    <3>3. z - y = (z - x) + 1 /\ (z - x) + 1 >= 0
      BY <3>2
    <3> QED
      BY <3>3 DEF x, y, z
  <2>7. QueuesOrdered(s)'
    <3>1. ASSUME NEW p \in Class
          PROVE  LET from == submitted[s][p]
                     k == Len(from) - Len(queue'[s][p])
                 IN  /\ k >= 0
                     /\ \A i \in 1..Len(from) : QosOf[from[i]] = p
                     /\ \A i \in 1..Len(queue'[s][p]) :
                          queue'[s][p][i] = from[k + i]
      <4>1. CASE p # q
        BY <4>1, <2>3 DEF QueuesOrdered
      <4>2. CASE p = q
        <5>1. \A i \in 1..Len(F) : QosOf[F[i]] = q
          BY <2>1 DEF QueuesOrdered, F
        <5>2. \A i \in 1..Len(Tail(Q)) :
                Tail(Q)[i] = F[(Len(F) - Len(Tail(Q))) + i]
          BY <2>1, <2>6
        <5>3. Len(F) - Len(Tail(Q)) >= 0
          BY <2>6
        <5>4. submitted[s][p] = F /\ queue'[s][p] = Tail(Q)
          BY <4>2, <2>3 DEF F
        <5> QED
          BY <4>2, <5>1, <5>2, <5>3, <5>4
      <4> QED
        BY <4>1, <4>2
    <3> QED
      BY <3>1 DEF QueuesOrdered
  <2>8. OpenNext(s)'
    <3>1. ASSUME NEW c \in Stream, cur'[s][c] # Nothing
          PROVE  LET o == cur'[s][c].msg
                     from == submitted[s][QosOf[o]]
                     k == Len(from) - Len(queue'[s][QosOf[o]])
                 IN  /\ StreamOf(QosOf[o]) = c /\ cur'[s][c].off < Size[o]
                     /\ k >= 1 /\ from[k] = o
      <4>1. CASE c = StreamOf(q)
        <5>1. cur'[s][c].msg = m /\ cur'[s][c].off = 0
          BY <4>1, <2>3
        <5>2. 0 < Size[m]
          BY <2>1, StationAssumption
        <5>3. submitted[s][q] = F /\ queue'[s][q] = Tail(Q)
          BY <2>3 DEF F
        <5>4. n + 1 >= 1
          BY <2>1
        <5> QED
          BY <4>1, <2>1, <2>6, <5>1, <5>2, <5>3, <5>4
      <4>2. CASE c # StreamOf(q)
        <5>1. cur'[s][c] = cur[s][c]
          BY <4>2, <2>3
        <5> DEFINE o == cur[s][c].msg
        <5>2. cur[s][c] \in Open
          BY <2>2, <3>1, <5>1
        <5>3. QosOf[o] \in Class
          BY <5>2, StationAssumption
             DEF Open, Class, QOS_CONTROL, QOS_INTERACTIVE, QOS_BULK
        <5>4. StreamOf(QosOf[o]) = c
          BY <3>1, <5>1 DEF OpenNext
        <5>5. queue'[s][QosOf[o]] = queue[s][QosOf[o]]
          BY <4>2, <2>3, <5>3, <5>4
        <5> QED
          BY <3>1, <5>1, <5>5 DEF OpenNext
      <4> QED
        BY <4>1, <4>2
    <3> QED
      BY <3>1 DEF OpenNext
  <2>9. gone'[s] = gone[s]
    <3> DEFINE More(cc, p) ==
                 IF /\ cc[StreamOf(p)] # Nothing
                    /\ QosOf[cc[StreamOf(p)].msg] = p THEN 1 ELSE 0
    <3>1. ASSUME NEW p \in Class
          PROVE  Len(submitted[s][p]) - Len(queue'[s][p]) - More(cur'[s], p)
                 = Len(submitted[s][p]) - Len(queue[s][p]) - More(cur[s], p)
      <4>1. CASE p = q
        <5>1. More(cur'[s], p) = 1 /\ More(cur[s], p) = 0
          BY <4>1, <2>1, <2>3, <2>5
        <5>2. submitted[s][p] = F /\ queue'[s][p] = Tail(Q)
              /\ queue[s][p] = Q
          BY <4>1, <2>3 DEF F, Q
        <5> DEFINE y == Len(Tail(Q))
                   x == Len(Q)
                   z == Len(F)
        <5>3. x \in Nat /\ y = x - 1 /\ z \in Nat
          BY <2>1, <2>4
        <5> HIDE DEF x, y, z, More
        <5>4. z - y - 1 = z - x - 0
          BY <5>3
        <5> QED
          BY <5>1, <5>2, <5>4 DEF x, y, z
      <4>2. CASE p # q /\ StreamOf(p) = StreamOf(q)
        <5>1. More(cur'[s], p) = 0 /\ More(cur[s], p) = 0
          BY <4>2, <2>1, <2>3
        <5> QED
          BY <4>2, <2>3, <5>1
      <4>3. CASE StreamOf(p) # StreamOf(q)
        <5>1. StreamOf(p) \in Stream \ {StreamOf(q)}
          BY <4>3, Classes
        <5> QED
          BY <4>3, <2>3, <5>1
      <4> QED
        BY <4>1, <4>2, <4>3
    <3> QED
      BY <3>1 DEF gone
  <2> QED
    BY <2>7, <2>8, <2>9
<1> QED
  BY <1>1, <1>2


(* What is cut is the next part of the message, whatever the cap.          *)
LEMMA CutPart ==
  ASSUME NEW s \in Station, NEW c \in Stream, NEW o \in Open,
         o.off < Size[o.msg], NEW cap \in ChunkCaps
  PROVE  PartOf(Cut(s, c, o, cap), o)
<1> DEFINE left == Size[o.msg] - o.off
           n == IF left > cap THEN cap ELSE left
           f == Cut(s, c, o, cap)
<1>1. o.off \in Nat /\ Size[o.msg] \in Nat /\ cap \in Nat /\ cap >= 1
  <2>1. o.msg \in Messages /\ o.off \in Nat
    BY DEF Open
  <2>2. Size[o.msg] \in Nat
    BY <2>1, StationAssumption
  <2>3. cap \in Nat \ {0}
    BY StationAssumption
  <2> QED
    BY <2>1, <2>2, <2>3
<1>2. n \in 1..left
  BY <1>1
<1>3. f.chunk = Units(o.msg, o.off, n) /\ f.last = (o.off + n >= Size[o.msg])
  BY DEF Cut
<1> HIDE DEF f, n
<1>4. (o.off + n >= Size[o.msg]) <=> (o.off + n = Size[o.msg])
  BY <1>1, <1>2
<1>5. f.last <=> o.off + n = Size[o.msg]
  BY <1>3, <1>4
<1>6. PartOf(f, o)
  BY <1>2, <1>3, <1>5 DEF PartOf
<1> QED
  BY <1>6 DEF f

(* Cutting a fragment gives nothing up and completes nothing.              *)
LEMMA SendNewStutters ==
  ASSUME TypeOK, Core, StreamInv, NEW s \in Station, Transmit(s), SendNew(s)
  PROVE  StreamInv' /\ gone' = gone /\ UNCHANGED <<submitted, log>>
<1> DEFINE oc == OpenedCur(s)
           stream == IF oc["prio"] # Nothing THEN "prio" ELSE "bulk"
<1>1. PICK cap \in ChunkCaps :
        /\ pending' = [pending EXCEPT ![s] = Cut(s, stream, oc[stream], cap)]
        /\ taken' = [taken EXCEPT ![s] =
                       Append(@, Cut(s, stream, oc[stream], cap))]
  BY DEF SendNew
<1> DEFINE f == Cut(s, stream, oc[stream], cap)
<1>2. /\ cur' = [cur EXCEPT ![s] = oc]
      /\ queue' = [queue EXCEPT ![s] = OpenedQueue(s)]
      /\ ~pending[s].active /\ oc[stream] # Nothing
      /\ UNCHANGED <<submitted, log, accepted, assembly>>
  BY DEF SendNew, Transmit
<1>3. /\ oc \in [Stream -> Open \cup {Nothing}] /\ stream \in Stream
      /\ oc[stream] \in Open
  <2>1. oc \in [Stream -> Open \cup {Nothing}]
    BY OpenedType
  <2>2. stream \in Stream
    BY DEF Stream
  <2> HIDE DEF oc, stream
  <2>3. oc[stream] \in Open
    BY <1>2, <2>1, <2>2
  <2> QED
    BY <2>1, <2>2, <2>3
<1> HIDE DEF oc, stream
<1>4. f \in Fragment /\ f.stream = stream
  BY <1>3, CutType DEF Cut
<1> HIDE DEF f
<1>5. /\ pending'[s] = f /\ taken'[s] = Append(taken[s], f)
      /\ cur'[s] = oc /\ queue'[s] = OpenedQueue(s)
      /\ \A r \in Station \ {s} : /\ pending'[r] = pending[r]
                                  /\ taken'[r] = taken[r]
                                  /\ cur'[r] = cur[r] /\ queue'[r] = queue[r]
  BY <1>1, <1>2 DEF TypeOK, f
<1>6. Dir(s)
  BY DEF StreamInv
<1>7. QueuesOrdered(s)' /\ OpenNext(s)' /\ gone'[s] = gone[s]
  BY <1>2, <1>5, <1>6, OpeningKeeps DEF Dir, oc
<1>8. gone' = gone
  <2>1. \A r \in Station \ {s} : gone'[r] = gone[r]
    BY <1>2, <1>5 DEF gone
  <2> QED
    BY <1>7, <2>1, GoneSame
<1>9. FragmentTrue(s)'
  <2>1. oc[stream].off < Size[oc[stream].msg]
    BY <1>2, <1>3, <1>5, <1>7 DEF OpenNext
  <2>2. PartOf(f, oc[stream])
    BY <1>3, <2>1, CutPart DEF f
  <2> QED
    BY <1>4, <1>5, <2>2 DEF FragmentTrue, PartOf
<1>10. \A c : ~Ahead(s, c) /\ ~Ahead(s, c)'
  <2>1. Len(accepted[Peer(s)]) = Len(taken[s])
    BY <1>2 DEF Core, ExactlyOnce
  <2>2. Len(taken'[s]) # Len(taken[s])
    BY <1>4, <1>5, Lengths
  <2> QED
    BY <1>2, <2>1, <2>2 DEF Ahead
<1>11. AssemblyTrue(s)'
  <2>1. ASSUME NEW c \in Stream
        PROVE  Held(s, c)' = Held(s, c)
    <3>1. CASE cur'[s][c] = cur[s][c]
      BY <1>10, <3>1 DEF Held
    <3>2. CASE cur'[s][c] # cur[s][c]
      <4> DEFINE q == Opened(s)
                 m == Head(queue[s][q])
      <4>1. q # None /\ c = StreamOf(q)
        <5>1. q # None
          BY <1>5, <3>2 DEF oc, OpenedCur
        <5>2. oc = [cur[s] EXCEPT ![StreamOf(q)] = [msg |-> m, off |-> 0]]
          BY <5>1 DEF oc, OpenedCur
        <5>3. cur[s] \in [Stream -> Open \cup {Nothing}]
          BY DEF TypeOK
        <5> HIDE DEF q, m
        <5> QED
          BY <1>5, <3>2, <5>1, <5>2, <5>3
      <4>2. cur[s][c] = Nothing /\ m \in Messages
        BY <1>6, <4>1, OpenedIs DEF Dir
      <4>3. cur'[s][c] = [msg |-> m, off |-> 0]
        <5>1. cur[s] \in [Stream -> Open \cup {Nothing}]
          BY DEF TypeOK
        <5> QED
          BY <1>5, <4>1, <5>1 DEF oc, OpenedCur
      <4> HIDE DEF q, m
      <4>4. Held(s, c) = <<>>
        BY <4>2 DEF Held
      <4>5. Held(s, c)' = Units(m, 0, 0)
        <5>1. cur'[s][c] # Nothing
          BY <4>2, <4>3, StationAssumption DEF Nothing
        <5> QED
          BY <1>10, <4>3, <5>1 DEF Held
      <4>6. Units(m, 0, 0) = <<>>
        BY <4>2, UnitsJoin
      <4> QED
        BY <4>4, <4>5, <4>6
    <3> QED
      BY <3>1, <3>2
  <2> QED
    BY <1>2, <1>6, <2>1 DEF Dir, AssemblyTrue
<1>12. CountTrue(s)'
  <2>1. \A p : Promise!Completed(Peer(s), p)' = Promise!Completed(Peer(s), p)
    BY <1>2 DEF Promise!Completed
  <2>2. \A p : ~Finished(s, p) /\ ~Finished(s, p)'
    BY <1>10 DEF Finished
  <2> QED
    BY <1>6, <1>7, <2>1, <2>2 DEF Dir, CountTrue
<1>13. StreamInv'
  <2>1. ASSUME NEW r \in Station, r # s PROVE Dir(r)'
    BY <2>1, <1>2, <1>5, DirFrame DEF StreamInv
  <2> QED
    BY <1>7, <1>9, <1>11, <1>12, <2>1 DEF StreamInv, Dir
<1> QED
  BY <1>2, <1>8, <1>13


(* What a decoded frame leaves alone. *)
LEMMA ReceiveKeeps ==
  ASSUME TypeOK, NEW s \in Station, Receive(s)
  PROVE  LET t == Peer(s)
         IN  /\ UNCHANGED <<queue, submitted, taken>>
             /\ cur'[t] = cur[t] /\ pending'[t] = pending[t]
             /\ accepted'[t] = accepted[t] /\ assembly'[t] = assembly[t]
             /\ log'[t] = log[t]
<1> DEFINE t == Peer(s)
<1>1. t \in Station /\ t # s
  BY PeerPeer
<1>2. UNCHANGED <<queue, submitted, taken>> /\ Retire(s, air)
  BY DEF Receive
<1>3. cur'[t] = cur[t] /\ pending'[t] = pending[t]
  BY <1>1, <1>2 DEF Retire, TypeOK
<1>4. CASE UNCHANGED <<assembly, log, accepted>>
  BY <1>2, <1>3, <1>4
<1>5. CASE Accept(s, air)
  <2>1. \E x, y, z : /\ assembly' = [assembly EXCEPT ![s] = x]
                     /\ log' = [log EXCEPT ![s] = y]
                     /\ accepted' = [accepted EXCEPT ![s] = z]
    BY <1>5 DEF Accept
  <2>2. /\ accepted'[t] = accepted[t] /\ assembly'[t] = assembly[t]
        /\ log'[t] = log[t]
    BY <1>1, <2>1 DEF TypeOK
  <2> QED
    BY <1>2, <1>3, <2>2
<1> QED
  BY <1>4, <1>5 DEF Receive, ReceiveData, ReceiveNoData, rxVars

(* The open message the outstanding fragment is a part of.                 *)
LEMMA PendingPart ==
  ASSUME TypeOK, PendingOpen, NEW s \in Station, FragmentTrue(s),
         OpenNext(s), pending[s].active
  PROVE  LET p == pending[s]
             o == cur[s][p.stream]
         IN  /\ p \in Fragment /\ p.stream \in Stream
             /\ o \in Open /\ o # Nothing
             /\ o.msg \in Messages /\ o.off \in Nat /\ Size[o.msg] \in Nat
             /\ StreamOf(QosOf[o.msg]) = p.stream
             /\ QosOf[o.msg] \in Class
             /\ Len(p.chunk) \in 1..Size[o.msg] - o.off
             /\ p.chunk = Units(o.msg, o.off, Len(p.chunk))
             /\ p.last <=> o.off + Len(p.chunk) = Size[o.msg]
<1> DEFINE p == pending[s]
           o == cur[s][p.stream]
<1>1. p \in Fragment /\ p.stream \in Stream
  <2>1. p \in Fragment \cup {NoFragment}
    BY DEF TypeOK
  <2>2. p \in Fragment
    BY <2>1 DEF NoFragment
  <2> QED
    BY <2>2 DEF Fragment
<1>2. cur[s] \in [Stream -> Open \cup {Nothing}]
  BY DEF TypeOK
<1>3. o # Nothing
  BY DEF PendingOpen
<1>4. o \in Open
  BY <1>1, <1>2, <1>3
<1>5. o.msg \in Messages /\ o.off \in Nat
  BY <1>4 DEF Open
<1>6. Size[o.msg] \in Nat /\ QosOf[o.msg] \in Class
  BY <1>5, StationAssumption
     DEF Class, QOS_CONTROL, QOS_INTERACTIVE, QOS_BULK
<1>7. StreamOf(QosOf[o.msg]) = p.stream
  BY <1>1, <1>3 DEF OpenNext
<1>8. PICK n \in 1..Size[o.msg] - o.off :
        /\ p.chunk = Units(o.msg, o.off, n)
        /\ p.last <=> o.off + n = Size[o.msg]
  BY DEF FragmentTrue, PartOf
<1> HIDE DEF p, o
<1>9. n \in Nat /\ Len(p.chunk) = n
  <2>1. n \in Nat
    BY <1>5, <1>6, <1>8
  <2>2. Len(Units(o.msg, o.off, n)) = n
    BY <1>5, <2>1, UnitsJoin
  <2> QED
    BY <1>8, <2>1, <2>2
<1>10. /\ Len(p.chunk) \in 1..Size[o.msg] - o.off
       /\ p.chunk = Units(o.msg, o.off, Len(p.chunk))
       /\ p.last <=> o.off + Len(p.chunk) = Size[o.msg]
  BY <1>8, <1>9
<1> QED
  BY <1>1, <1>3, <1>4, <1>5, <1>6, <1>7, <1>10 DEF p, o


(* An acknowledged fragment: the message moves on by it or, when it was    *)
(* the last, is given up; the peer had completed it before.                *)
LEMMA RetireDir ==
  ASSUME TypeOK, PendingOpen, Core, NEW s \in Station, Dir(s), Receive(s)
  PROVE  /\ Dir(s)'
         /\ \/ gone'[s] = gone[s]
            \/ \E q \in Class :
                 /\ gone[s][q] < Promise!Completed(Peer(s), q)
                 /\ gone'[s] = [gone[s] EXCEPT ![q] = @ + 1]
<1> DEFINE t == Peer(s)
           p == pending[s]
           c == p.stream
           o == cur[s][c]
           n == Len(p.chunk)
<1>1. /\ UNCHANGED <<queue, submitted, taken>> /\ Retire(s, air)
      /\ accepted'[t] = accepted[t] /\ assembly'[t] = assembly[t]
      /\ log'[t] = log[t] /\ air # None /\ air.to = s
  BY ReceiveKeeps DEF Receive
<1>2. CASE ~Retires(s, air)
  BY <1>1, <1>2, RetireKeeps, DirFrame
<1>3. CASE Retires(s, air)
  <2>1. p.active /\ Len(accepted[t]) = Len(taken[s])
    BY <1>1, <1>3, AckIsTrue DEF Retires
  <2>2. /\ p \in Fragment /\ c \in Stream /\ o \in Open /\ o # Nothing
        /\ o.msg \in Messages /\ o.off \in Nat /\ Size[o.msg] \in Nat
        /\ StreamOf(QosOf[o.msg]) = c /\ QosOf[o.msg] \in Class
        /\ n \in 1..Size[o.msg] - o.off
        /\ p.chunk = Units(o.msg, o.off, n)
        /\ p.last <=> o.off + n = Size[o.msg]
    BY <2>1, PendingPart DEF Dir
  <2> DEFINE next == IF p.last THEN Nothing
                     ELSE [msg |-> o.msg, off |-> o.off + n]
  <2>3. pending'[s] = NoFragment /\ ~pending'[s].active
    BY <1>1, <1>3 DEF Retire, TypeOK, NoFragment
  <2>4. /\ cur'[s][c] = next
        /\ \A d \in Stream \ {c} : cur'[s][d] = cur[s][d]
    <3>1. cur' = [cur EXCEPT ![s] = [cur[s] EXCEPT ![c] = next]]
      BY <1>1, <1>3, <2>2 DEF Retire, RetiredCur
    <3>2. cur[s] \in [Stream -> Open \cup {Nothing}] /\ cur'[s]
            = [cur[s] EXCEPT ![c] = next]
      BY <3>1 DEF TypeOK
    <3> QED
      BY <2>2, <3>2
  <2> HIDE DEF p, o, n, c, next
  <2>5. /\ ~p.last => /\ next # Nothing /\ next.msg = o.msg
                      /\ next.off = o.off + n
                      /\ next.off < Size[o.msg]
        /\ p.last => next = Nothing
    <3>1. ~p.last => next = [msg |-> o.msg, off |-> o.off + n]
      BY DEF next
    <3>2. o.msg # None
      BY <2>2, StationAssumption
    <3>3. ~p.last => o.off + n < Size[o.msg]
      BY <2>2
    <3> QED
      BY <3>1, <3>2, <3>3 DEF next, Nothing
  <2>6. \A d : ~Ahead(s, d)' /\ (Ahead(s, d) <=> d = c)
    BY <2>1, <2>3 DEF Ahead, p, c, t
  <2>7. QueuesOrdered(s)' /\ FragmentTrue(s)'
    BY <1>1, <2>3 DEF Dir, QueuesOrdered, FragmentTrue
  <2>8. OpenNext(s)'
    <3>1. ASSUME NEW d \in Stream, cur'[s][d] # Nothing
          PROVE  /\ cur'[s][d].msg = cur[s][d].msg /\ cur[s][d] # Nothing
                 /\ cur'[s][d].off < Size[cur[s][d].msg]
      <4>1. CASE d = c
        BY <3>1, <4>1, <2>2, <2>4, <2>5 DEF o
      <4>2. CASE d # c
        BY <3>1, <4>2, <2>4 DEF Dir, OpenNext
      <4> QED
        BY <4>1, <4>2
    <3> QED
      BY <1>1, <3>1 DEF Dir, OpenNext
  <2>9. AssemblyTrue(s)'
    <3>1. ASSUME NEW d \in Stream PROVE Held(s, d)' = Held(s, d)
      <4>1. CASE d # c
        BY <4>1, <2>4, <2>6 DEF Held
      <4>2. CASE d = c /\ p.last
        <5>1. Held(s, d) = <<>>
          BY <4>2, <2>6 DEF Held, p
        <5>2. Held(s, d)' = <<>>
          BY <4>2, <2>4, <2>5 DEF Held
        <5> QED
          BY <5>1, <5>2
      <4>3. CASE d = c /\ ~p.last
        <5>1. Held(s, d) = Units(o.msg, 0, o.off + n)
          BY <4>3, <2>2, <2>6 DEF Held, p, o, n
        <5>2. Held(s, d)' = Units(o.msg, 0, o.off + n)
          BY <4>3, <2>4, <2>5, <2>6 DEF Held
        <5> QED
          BY <5>1, <5>2
      <4> QED
        BY <4>1, <4>2, <4>3
    <3> QED
      BY <1>1, <3>1 DEF Dir, AssemblyTrue, t
  <2>10. \A q \in Class :
           /\ Promise!Completed(Peer(s), q)' = Promise!Completed(Peer(s), q)
           /\ ~Finished(s, q)'
           /\ Finished(s, q) <=> p.last /\ q = QosOf[o.msg]
    <3>1. \A q : Promise!Completed(Peer(s), q)' = Promise!Completed(Peer(s), q)
      BY <1>1 DEF Promise!Completed, t
    <3>2. \A q : ~Finished(s, q)'
      BY <2>6 DEF Finished
    <3>3. ASSUME NEW q \in Class
          PROVE  Finished(s, q) <=> p.last /\ q = QosOf[o.msg]
      <4>1. CASE StreamOf(q) = c
        BY <4>1, <2>6 DEF Finished, p, o
      <4>2. CASE StreamOf(q) # c
        BY <4>2, <2>2, <2>6 DEF Finished
      <4> QED
        BY <4>1, <4>2
    <3> QED
      BY <3>1, <3>2, <3>3
  <2>11. \A q \in Class :
           gone'[s][q] = gone[s][q]
                         + (IF p.last /\ q = QosOf[o.msg] THEN 1 ELSE 0)
    <3> DEFINE left(q) == Len(submitted[s][q]) - Len(queue[s][q])
               one(cc, q) == IF /\ cc[StreamOf(q)] # Nothing
                                /\ QosOf[cc[StreamOf(q)].msg] = q
                             THEN 1 ELSE 0
    <3> TAKE q \in Class
    <3>1. /\ gone'[s][q] = left(q) - one(cur'[s], q)
          /\ gone[s][q] = left(q) - one(cur[s], q)
      BY <1>1 DEF gone
    <3>2. left(q) \in Int
      BY DEF TypeOK
    <3>3. StreamOf(q) \in Stream
      BY Classes
    <3>4. CASE p.last /\ q = QosOf[o.msg]
      <4>1. one(cur'[s], q) = 0 /\ one(cur[s], q) = 1
        BY <3>4, <2>2, <2>4, <2>5 DEF o
      <4> HIDE DEF one, left
      <4> QED
        BY <3>1, <3>2, <3>4, <4>1
    <3>5. CASE ~(p.last /\ q = QosOf[o.msg])
      <4>1. one(cur'[s], q) = one(cur[s], q)
        <5>1. CASE StreamOf(q) # c
          BY <5>1, <3>3, <2>4
        <5>2. CASE StreamOf(q) = c /\ p.last
          BY <5>2, <3>5, <2>4, <2>5 DEF o
        <5>3. CASE StreamOf(q) = c /\ ~p.last
          BY <5>3, <2>2, <2>4, <2>5 DEF o
        <5> QED
          BY <5>1, <5>2, <5>3
      <4>2. one(cur'[s], q) \in Int
        OBVIOUS
      <4> HIDE DEF one, left
      <4> QED
        BY <3>1, <3>2, <3>5, <4>1, <4>2
    <3> QED
      BY <3>4, <3>5
  <2>12. \A q \in Class : gone[s][q] \in Int
    BY DEF gone, TypeOK
  <2>13. /\ CountTrue(s)'
         /\ p.last => gone[s][QosOf[o.msg]]
                        < Promise!Completed(Peer(s), QosOf[o.msg])
    <3>1. \A q \in Class :
            Promise!Completed(Peer(s), q)
              = gone[s][q] + (IF Finished(s, q) THEN 1 ELSE 0)
      BY DEF Dir, CountTrue
    <3>2. \A q \in Class :
            Promise!Completed(Peer(s), q)'
              = gone'[s][q] + (IF Finished(s, q)' THEN 1 ELSE 0)
      BY <2>10, <2>11, <2>12, <3>1
    <3> QED
      BY <2>2, <2>10, <2>12, <3>1, <3>2 DEF CountTrue
  <2>14. \/ gone'[s] = gone[s]
         \/ \E q \in Class :
              /\ gone[s][q] < Promise!Completed(Peer(s), q)
              /\ gone'[s] = [gone[s] EXCEPT ![q] = @ + 1]
    <3>1. /\ gone[s] = [q \in Class |-> gone[s][q]]
          /\ gone'[s] = [q \in Class |-> gone'[s][q]]
      BY DEF gone
    <3>2. CASE ~p.last
      <4>1. \A q \in Class : gone'[s][q] = gone[s][q]
        BY <3>2, <2>11, <2>12
      <4> QED
        BY <3>1, <4>1, Zenon
    <3>3. CASE p.last
      <4> DEFINE k == QosOf[o.msg]
                 up == [gone[s] EXCEPT ![k] = @ + 1]
      <4>1. \A q \in Class : gone'[s][q] = up[q]
        BY <3>1, <3>3, <2>11, <2>12
      <4>2. up = [q \in Class |-> up[q]]
        BY <3>1
      <4> HIDE DEF up
      <4>3. gone'[s] = up
        BY <3>1, <4>1, <4>2, Zenon
      <4> QED
        BY <2>2, <2>13, <3>3, <4>3 DEF up
    <3> QED
      BY <3>2, <3>3
  <2> QED
    BY <2>7, <2>8, <2>9, <2>13, <2>14 DEF Dir
<1> QED
  BY <1>2, <1>3


(* A message of all its units is the whole one, and tells its class.       *)
LEMMA WholeMessage ==
  ASSUME NEW m \in Messages
  PROVE  /\ Units(m, 0, Size[m]) = Promise!Whole(m)
         /\ Units(m, 0, Size[m])[1][1] = m
<1>1. Size[m] \in Nat /\ 1 \in 1..Size[m]
  BY StationAssumption
<1>2. \A i \in 1..Size[m] : 0 + i = i
  BY <1>1
<1> QED
  BY <1>1, <1>2 DEF Units, Promise!Whole

(* One more message of its class in the log it is appended to.             *)
LEMMA LogAppend ==
  ASSUME TypeOK, NEW s \in Station, NEW m \in Messages, NEW k \in BOOLEAN,
         NEW c \in Stream, c = StreamOf(QosOf[m]),
         log' = [log EXCEPT ![s][c] =
                   Append(@, [units |-> Units(m, 0, Size[m]), kept |-> k])]
  PROVE  \A q \in Class :
           /\ Promise!Completed(s, q) \in Nat
           /\ Promise!Completed(s, q)'
                = Promise!Completed(s, q) + (IF q = QosOf[m] THEN 1 ELSE 0)
<1> DEFINE S == [units : Seq(Unit), kept : BOOLEAN]
           e == [units |-> Units(m, 0, Size[m]), kept |-> k]
           l == log[s][c]
<1>1. e \in S /\ e.units[1][1] = m
  <2>1. Size[m] \in Int
    BY StationAssumption
  <2>2. 0 \in Nat
    OBVIOUS
  <2>3. Units(m, 0, Size[m]) \in Seq(Unit)
    BY <2>1, <2>2, UnitsType
  <2> QED
    BY <2>3, WholeMessage
<1> HIDE DEF e, S
<1>2. \A d \in Stream : log[s][d] \in Seq(S)
  BY DEF TypeOK, S
<1>3. /\ log'[s][c] = Append(l, e)
      /\ \A d \in Stream \ {c} : log'[s][d] = log[s][d]
  <2>1. log' = [log EXCEPT ![s][c] = Append(l, e)]
    BY DEF e
  <2>2. log \in [Station -> [Stream -> Seq(S)]]
    BY DEF TypeOK, S
  <2> HIDE DEF l
  <2> QED
    BY <2>1, <2>2
<1> SUFFICES ASSUME NEW q \in Class
             PROVE  /\ Promise!Completed(s, q) \in Nat
                    /\ Promise!Completed(s, q)'
                         = Promise!Completed(s, q)
                           + (IF q = QosOf[m] THEN 1 ELSE 0)
  OBVIOUS
<1>4. /\ Promise!Completed(s, q) = Count(log[s][StreamOf(q)], q)
      /\ Promise!Completed(s, q)' = Count(log'[s][StreamOf(q)], q)
  <2>1. Promise!StreamOf(q) = StreamOf(q)
    BY Classes
  <2>2. \A X : Promise!Cardinality(X) = Cardinality(X)
    BY DEF Promise!Cardinality, Cardinality
  <2> QED
    BY <2>1, <2>2 DEF Promise!Completed, Count, Places
<1>5. log[s][StreamOf(q)] \in Seq(S)
  BY <1>2, Classes
<1>6. Count(log[s][StreamOf(q)], q) \in Nat
  BY <1>1, <1>5, CountAppend
<1>7. CASE StreamOf(q) = c
  <2>1. Count(Append(l, e), q) = Count(l, q)
          + (IF QosOf[e.units[1][1]] = q THEN 1 ELSE 0)
    BY <1>1, <1>5, <1>7, CountAppend
  <2> QED
    BY <1>1, <1>3, <1>4, <1>6, <1>7, <2>1
<1>8. CASE StreamOf(q) # c
  <2>1. StreamOf(q) \in Stream \ {c}
    BY <1>8, Classes
  <2>2. q # QosOf[m]
    BY <1>8
  <2> QED
    BY <1>3, <1>4, <1>6, <2>1, <2>2
<1> QED
  BY <1>7, <1>8

(* A new fragment: the next units of the message being reassembled; the    *)
(* last completes it, whole, and it is the next of its class.              *)
LEMMA AcceptDir ==
  ASSUME TypeOK, PendingOpen, Core, NEW s \in Station, Dir(Peer(s)), Receive(s)
  PROVE  LET t == Peer(s)
         IN  /\ Dir(t)' /\ gone'[t] = gone[t]
             /\ \/ log' = log
                \/ \E q \in Class : Promise!CompleteNext(s, q)
<1> DEFINE t == Peer(s)
           p == pending[t]
           c == p.stream
           o == cur[t][c]
           n == Len(p.chunk)
           q0 == QosOf[o.msg]
<1>1. t \in Station /\ t # s /\ Peer(t) = s
  BY PeerPeer
<1>2. /\ UNCHANGED <<queue, submitted, taken>>
      /\ cur'[t] = cur[t] /\ pending'[t] = pending[t]
  BY ReceiveKeeps
<1>3. CASE UNCHANGED <<assembly, log, accepted>>
  BY <1>1, <1>2, <1>3, DirFrame
<1>4. CASE air.kind = "data" /\ air.seq # last_rx_seq[s] /\ Accept(s, air)
  <2>1. /\ Len(taken[t]) \in Nat /\ Len(taken[t]) > 0
        /\ Len(accepted[s]) = Len(taken[t]) - 1
        /\ accepted[s] \in Seq(Fragment)
    BY <1>1, <1>4, NewIsNew, Lengths DEF Receive
  <2>2. p.active
    BY <1>1, <2>1 DEF Core, ExactlyOnce
  <2>3. p = taken[t][Len(taken[t])]
    BY <1>1, <2>2 DEF Core, Numbered
  <2>4. air.stream = c /\ air.chunk = p.chunk /\ air.last = p.last
    BY <1>4, <2>3 DEF Receive, Core, InFlight
  <2>5. /\ p \in Fragment /\ c \in Stream /\ o \in Open /\ o # Nothing
        /\ o.msg \in Messages /\ o.off \in Nat /\ Size[o.msg] \in Nat
        /\ StreamOf(q0) = c /\ q0 \in Class
        /\ n \in 1..Size[o.msg] - o.off
        /\ p.chunk = Units(o.msg, o.off, n)
        /\ p.last <=> o.off + n = Size[o.msg]
    BY <1>1, <2>2, PendingPart DEF Dir
  <2>6. p.last \in BOOLEAN
    BY <2>5 DEF Fragment
  <2>7. Len(accepted'[s]) = Len(taken'[t])
    <3> DEFINE g == [active |-> TRUE, seq |-> air.seq, stream |-> air.stream,
                     chunk |-> air.chunk, last |-> air.last]
    <3>1. accepted'[s] = Append(accepted[s], g)
      BY <1>4 DEF Accept, TypeOK
    <3> HIDE DEF g
    <3>2. Len(accepted'[s]) = Len(accepted[s]) + 1
      BY <2>1, <3>1
    <3> QED
      BY <1>2, <2>1, <3>2
  <2>8. \A d : ~Ahead(t, d) /\ (Ahead(t, d)' <=> d = c)
    BY <1>1, <1>2, <2>1, <2>2, <2>7 DEF Ahead
  <2> DEFINE units == assembly[s][c] \o p.chunk
             kept == /\ delivered_n[s] < DeliveredMax
                     /\ Len(units) <= MsgMax
                     /\ outbound(s, cur'[s]) + delivered_n[s] < PoolSlots
  <2>9. /\ assembly' = [assembly EXCEPT ![s][c] =
                          IF p.last THEN <<>> ELSE units]
        /\ log' = [log EXCEPT ![s][c] =
                     IF p.last THEN Append(@, [units |-> units, kept |-> kept])
                     ELSE @]
    BY <1>4, <2>4 DEF Accept
  <2>10. kept \in BOOLEAN
    OBVIOUS
  <2>11. assembly[s][c] = Units(o.msg, 0, o.off)
    BY <1>1, <2>5, <2>8 DEF Dir, AssemblyTrue, Held
  <2> HIDE DEF p, c, o, n, q0, kept
  <2>12. units = Units(o.msg, 0, o.off + n)
    <3>1. n \in Nat
      BY <2>5
    <3>2. Units(o.msg, 0, o.off) \o Units(o.msg, o.off, n)
            = Units(o.msg, 0, o.off + n)
      BY <2>5, <3>1, UnitsJoin
    <3> QED
      BY <2>5, <2>11, <3>2
  <2> HIDE DEF units
  <2>13. /\ assembly'[s][c] = IF p.last THEN <<>> ELSE units
         /\ \A d \in Stream \ {c} : assembly'[s][d] = assembly[s][d]
    BY <2>5, <2>9 DEF TypeOK
  <2>14. QueuesOrdered(t)' /\ OpenNext(t)' /\ FragmentTrue(t)'
         /\ gone'[t] = gone[t]
    BY <1>1, <1>2 DEF Dir, QueuesOrdered, OpenNext, FragmentTrue, PartOf, gone
  <2>15. AssemblyTrue(t)'
    <3>1. ASSUME NEW d \in Stream PROVE assembly'[s][d] = Held(t, d)'
      <4>1. CASE d # c
        <5>1. Held(t, d)' = Held(t, d)
          BY <1>2, <2>8, <4>1 DEF Held
        <5> QED
          BY <1>1, <2>13, <4>1, <5>1 DEF Dir, AssemblyTrue
      <4>2. CASE d = c /\ p.last
        <5>1. Held(t, d)' = <<>>
          BY <1>2, <2>8, <4>2 DEF Held, p
        <5> QED
          BY <2>13, <4>2, <5>1
      <4>3. CASE d = c /\ ~p.last
        <5>1. Held(t, d)' = Units(o.msg, 0, o.off + n)
          BY <1>2, <2>5, <2>8, <4>3 DEF Held, p, o, n
        <5> QED
          BY <2>12, <2>13, <4>3, <5>1
      <4> QED
        BY <4>1, <4>2, <4>3
    <3> QED
      BY <1>1, <3>1 DEF AssemblyTrue
  <2>16. \A q \in Class : /\ ~Finished(t, q)
                          /\ Finished(t, q)' <=> p.last /\ q = q0
    <3>1. \A q : ~Finished(t, q)
      BY <2>8 DEF Finished
    <3>2. ASSUME NEW q \in Class
          PROVE  Finished(t, q)' <=> p.last /\ q = q0
      <4>1. CASE StreamOf(q) = c
        BY <1>2, <2>8, <4>1 DEF Finished, p, q0, o
      <4>2. CASE StreamOf(q) # c
        BY <2>5, <2>8, <4>2 DEF Finished
      <4> QED
        BY <4>1, <4>2
    <3> QED
      BY <3>1, <3>2
  <2>17. \A q \in Class : Promise!Completed(s, q) = gone[t][q]
    <3>1. \A q \in Class : gone[t][q] \in Int
      BY <1>1 DEF gone, TypeOK
    <3> QED
      BY <1>1, <2>16, <3>1 DEF Dir, CountTrue
  <2>18. CASE ~p.last
    <3>1. log' = log
      BY <2>5, <2>9, <2>18 DEF TypeOK
    <3>2. \A q : Promise!Completed(s, q)' = Promise!Completed(s, q)
      BY <3>1 DEF Promise!Completed
    <3>3. \A q \in Class : gone[t][q] \in Int
      BY <1>1 DEF gone, TypeOK
    <3>4. CountTrue(t)'
      BY <1>1, <2>14, <2>16, <2>17, <2>18, <3>2, <3>3 DEF CountTrue
    <3> QED
      BY <2>14, <2>15, <3>1, <3>4 DEF Dir
  <2>19. CASE p.last
    <3>1. units = Units(o.msg, 0, Size[o.msg])
      BY <2>5, <2>12, <2>19
    <3>2. log' = [log EXCEPT ![s][c] =
                    Append(@, [units |-> units, kept |-> kept])]
      BY <2>9, <2>19
    <3>3. \A q \in Class :
            /\ Promise!Completed(s, q) \in Nat
            /\ Promise!Completed(s, q)'
                 = Promise!Completed(s, q) + (IF q = q0 THEN 1 ELSE 0)
      BY <2>5, <2>10, <3>1, <3>2, LogAppend DEF q0
    <3>4. CountTrue(t)'
      BY <1>1, <2>14, <2>16, <2>17, <2>19, <3>3 DEF CountTrue
    <3>5. Promise!CompleteNext(s, q0)
      <4> DEFINE F == submitted[t][q0]
                 Q == queue[t][q0]
      <4>1. Len(F) \in Nat /\ Len(Q) \in Nat
        BY <1>1, <2>5 DEF TypeOK
      <4>2. gone[t][q0] = Len(F) - Len(Q) - 1
        BY <1>1, <2>5 DEF gone, q0, o
      <4>3. Len(F) - Len(Q) >= 1 /\ F[Len(F) - Len(Q)] = o.msg
        BY <2>5 DEF Dir, OpenNext, q0, o
      <4> HIDE DEF F, Q
      <4>4. /\ Promise!Completed(s, q0) + 1 = Len(F) - Len(Q)
            /\ Len(F) - Len(Q) <= Len(F)
        BY <2>5, <2>17, <4>1, <4>2
      <4>5. /\ submitted[Promise!Peer(s)][q0] = F
            /\ Promise!StreamOf(q0) = c
        BY <2>5, Classes DEF F
      <4>6. units = Promise!Whole(o.msg)
        BY <2>5, <3>1, WholeMessage
      <4> QED
        BY <1>2, <2>10, <3>2, <4>3, <4>4, <4>5, <4>6
           DEF Promise!CompleteNext
    <3> QED
      BY <2>5, <2>14, <2>15, <3>4, <3>5 DEF Dir
  <2> QED
    BY <2>6, <2>18, <2>19
<1> QED
  BY <1>3, <1>4 DEF Receive, ReceiveData, ReceiveNoData, rxVars


(* One decoded frame gives up a message the peer completed, completes the  *)
(* next one of its class here, both, or neither.                           *)
LEMMA ReceiveMaps ==
  ASSUME TypeOK, PendingOpen, Core, StreamInv, NEW s \in Station, Receive(s)
  PROVE  StreamInv' /\ [Promise!Next]_(Promise!rsVars)
<1> DEFINE t == Peer(s)
<1>1. t \in Station /\ t # s /\ \A r \in Station : r = s \/ r = t
  BY PeerPeer DEF Station, Peer
<1>2. /\ Dir(s)'
      /\ \/ gone'[s] = gone[s]
         \/ \E q \in Class :
              /\ gone[s][q] < Promise!Completed(t, q)
              /\ gone'[s] = [gone[s] EXCEPT ![q] = @ + 1]
  BY RetireDir DEF StreamInv
<1>3. /\ Dir(t)' /\ gone'[t] = gone[t]
      /\ \/ log' = log
         \/ \E q \in Class : Promise!CompleteNext(s, q)
  BY <1>1, AcceptDir DEF StreamInv
<1>4. StreamInv'
  BY <1>1, <1>2, <1>3 DEF StreamInv
<1>5. submitted' = submitted
  BY DEF Receive
<1>6. CASE gone'[s] = gone[s]
  <2>1. gone' = gone
    BY <1>1, <1>3, <1>6, GoneSame
  <2> QED
    BY <1>3, <1>4, <1>5, <2>1, Classes DEF Promise!Next, Promise!rsVars
<1>7. CASE \E q \in Class :
             /\ gone[s][q] < Promise!Completed(t, q)
             /\ gone'[s] = [gone[s] EXCEPT ![q] = @ + 1]
  <2>1. PICK q \in Class :
          /\ gone[s][q] < Promise!Completed(t, q)
          /\ gone'[s] = [gone[s] EXCEPT ![q] = @ + 1]
    BY <1>7
  <2>2. gone' = [gone EXCEPT ![s] = [gone[s] EXCEPT ![q] = @ + 1]]
    <3> DEFINE up == [gone[s] EXCEPT ![q] = @ + 1]
               all == [gone EXCEPT ![s] = up]
    <3>1. gone = [r \in Station |-> gone[r]]
          /\ gone' = [r \in Station |-> gone'[r]]
      BY DEF gone
    <3>2. all = [r \in Station |-> all[r]]
      BY <3>1
    <3>3. gone'[s] = up
      BY <2>1
    <3> HIDE DEF up
    <3>4. \A r \in Station : gone'[r] = all[r]
      BY <1>1, <1>3, <3>1, <3>3
    <3> HIDE DEF all
    <3>5. gone' = all
      BY <3>1, <3>2, <3>4, Zenon
    <3> QED
      BY <3>5 DEF all, up
  <2>3. Promise!ReleaseNext(s, q)
    BY <1>5, <2>1, <2>2, Classes DEF Promise!ReleaseNext
  <2>4. CASE log' = log
    BY <1>4, <2>3, <2>4, Classes DEF Promise!Next
  <2>5. CASE \E r \in Class : Promise!CompleteNext(s, r)
    BY <1>4, <2>3, <2>5, Classes DEF Promise!Next, Promise!Both
  <2> QED
    BY <1>3, <2>4, <2>5
<1> QED
  BY <1>2, <1>6, <1>7

(* Every step keeps the accounting and maps to a step of the promise.      *)
LEMMA StreamStep ==
  ASSUME TypeOK, PendingOpen, Core, StreamInv, [Next]_vars
  PROVE  StreamInv' /\ [Promise!Next]_(Promise!rsVars)
<1>1. ASSUME NEW s \in Station, NEW m \in Messages, Submit(s, m)
      PROVE  StreamInv' /\ [Promise!Next]_(Promise!rsVars)
  BY <1>1, SubmitOffers, Classes DEF Promise!Next
<1>2. ASSUME UNCHANGED <<queue, cur, pending, assembly, history>>
      PROVE  StreamInv' /\ [Promise!Next]_(Promise!rsVars)
  <2>1. StreamInv'
    BY <1>2, DirFrame DEF StreamInv, history
  <2>2. gone' = gone
    BY <1>2 DEF gone, history
  <2> QED
    BY <1>2, <2>1, <2>2 DEF Promise!rsVars, history
<1>3. ASSUME NEW s \in Station, Transmit(s)
      PROVE  StreamInv' /\ [Promise!Next]_(Promise!rsVars)
  BY <1>3, ResendStutters, SendNewStutters DEF Promise!rsVars
<1>4. ASSUME NEW s \in Station, Drain(s) \/ Timeout(s)
      PROVE  StreamInv' /\ [Promise!Next]_(Promise!rsVars)
  BY <1>2, <1>4 DEF Drain, Timeout, txVars, rxVars
<1>5. CASE Lose \/ UNCHANGED vars
  BY <1>2, <1>5 DEF Lose, vars, txVars, rxVars
<1> QED
  BY <1>1, <1>3, <1>4, <1>5, ReceiveMaps DEF Next

(* Initially nothing was submitted, and nothing is held.                   *)
LEMMA StreamInit == Init => StreamInv /\ Promise!Init
<1> SUFFICES ASSUME Init PROVE StreamInv /\ Promise!Init
  OBVIOUS
<1>1. \A s \in Station :
        /\ \A q \in Class : queue[s][q] = <<>> /\ submitted[s][q] = <<>>
        /\ \A c \in Stream : /\ cur[s][c] = Nothing
                             /\ assembly[s][c] = <<>> /\ log[s][c] = <<>>
        /\ ~pending[s].active
  BY DEF Init, NoFragment
<1>2. Len(<<>>) = 0 /\ 1..0 = {}
  OBVIOUS
<1>3. \A s \in Station, q \in Class : gone[s][q] = 0
  <2> TAKE s \in Station, q \in Class
  <2>1. StreamOf(q) \in Stream
    BY Classes
  <2>2. /\ cur[s][StreamOf(q)] = Nothing
        /\ queue[s][q] = <<>> /\ submitted[s][q] = <<>>
    BY <1>1, <2>1
  <2>3. gone[s][q] = Len(<<>>) - Len(<<>>) - 0
    BY <2>2 DEF gone
  <2> QED
    BY <1>2, <2>3
<1>4. \A s \in Station, q \in Class : Promise!Completed(s, q) = 0
  <2> TAKE s \in Station, q \in Class
  <2>1. log[s][Promise!StreamOf(q)] = <<>>
    BY <1>1, Classes
  <2>2. Places(<<>>, q) = {}
    BY <1>2 DEF Places
  <2> QED
    BY <2>1, <2>2, CompletedCount, FS_EmptySet DEF Count
<1>5. ASSUME NEW s \in Station PROVE Dir(s)
  <2>1. QueuesOrdered(s)
    <3>1. \A q \in Class : Len(queue[s][q]) = 0 /\ Len(submitted[s][q]) = 0
      BY <1>1, <1>2
    <3>2. 0 - 0 >= 0
      OBVIOUS
    <3> QED
      BY <1>2, <3>1, <3>2 DEF QueuesOrdered
  <2>2. OpenNext(s) /\ FragmentTrue(s)
    BY <1>1 DEF OpenNext, FragmentTrue
  <2>3. \A c : ~Ahead(s, c)
    BY <1>1 DEF Ahead
  <2>4. AssemblyTrue(s)
    BY <1>1, PeerPeer DEF AssemblyTrue, Held
  <2>5. CountTrue(s)
    BY <1>3, <1>4, <2>3, PeerPeer DEF CountTrue, Finished
  <2> QED
    BY <2>1, <2>2, <2>4, <2>5 DEF Dir
<1>6. gone = [s \in Promise!Station |-> [q \in Promise!Class |-> 0]]
  <2>1. gone = [s \in Station |-> [q \in Class |-> gone[s][q]]]
    BY DEF gone
  <2>2. gone = [s \in Station |-> [q \in Class |-> 0]]
    BY <1>3, <2>1, Zenon
  <2> QED
    BY <2>2, Classes
<1>7. Promise!Init
  BY <1>6, Classes DEF Init, Promise!Init, Stream
<1> QED
  BY <1>5, <1>7 DEF StreamInv

(* The pair of stations keeps its promise, for any traffic, any message    *)
(* sizes, any fragment lengths and any losses: in each direction the       *)
(* messages of a class are completed whole, once each and in the order     *)
(* they were submitted, and a sender gives a message up only after the     *)
(* peer completed it (take_fragment, station_on_decoded).                  *)
THEOREM StreamsImplemented == Spec => ImplementsStreams
<1> DEFINE All == IInv /\ StreamInv
<1>1. Init => All /\ Promise!Init
  BY InitType, InitCore, StreamInit DEF IInv, Core
<1>2. All /\ [Next]_vars => All' /\ [Promise!Next]_(Promise!rsVars)
  BY TypeStep, PendingOpenStep, CoreStep, StreamStep DEF IInv, Core
<1>3. Spec => []All
  <2> HIDE DEF All
  <2> QED
    BY <1>1, <1>2, PTL DEF Spec
<1> HIDE DEF All
<1> QED
  BY <1>1, <1>2, <1>3, PTL DEF Spec, ImplementsStreams, Promise!Spec


-----------------------------------------------------------------------------
(* A message is not longer than station_submit lets it be, so no more than *)
(* that is ever put together of it.                                        *)
SizesFit ==
  \A s \in Station, q \in Class : \A i \in 1..Len(submitted[s][q]) :
    Size[submitted[s][q][i]] <= MsgMax

LEMMA SizesFitStep ==
  ASSUME TypeOK, SizesFit, [Next]_vars
  PROVE  SizesFit'
<1>1. ASSUME NEW s \in Station, NEW m \in Messages, Submit(s, m)
      PROVE  SizesFit'
  <2> DEFINE q == QosOf[m]
             old == submitted[s][q]
  <2>1. /\ submitted' = [submitted EXCEPT ![s][q] = Append(@, m)]
        /\ Size[m] <= MsgMax
    BY <1>1 DEF Submit
  <2>2. q \in Class /\ submitted \in [Station -> [Class -> Seq(Messages)]]
    BY StationAssumption
       DEF TypeOK, Class, QOS_CONTROL, QOS_INTERACTIVE, QOS_BULK
  <2>3. old \in Seq(Messages)
    BY <2>2
  <2>4. submitted'[s][q] = Append(old, m)
    BY <2>1, <2>2
  <2>5. \A t \in Station, p \in Class :
          t # s \/ p # q => submitted'[t][p] = submitted[t][p]
    BY <2>1, <2>2
  <2> HIDE DEF q
  <2>6. \A i \in 1..Len(submitted'[s][q]) : Size[submitted'[s][q][i]] <= MsgMax
    <3> TAKE i \in 1..Len(submitted'[s][q])
    <3>1. \A j \in 1..Len(old) : Size[old[j]] <= MsgMax
      BY <2>2 DEF SizesFit
    <3> HIDE DEF old
    <3>2. Len(Append(old, m)) = Len(old) + 1 /\ Len(old) \in Nat
      BY <2>3
    <3>3. CASE i = Len(old) + 1
      BY <2>1, <2>3, <2>4, <3>3
    <3>4. CASE i # Len(old) + 1
      <4>1. i \in 1..Len(old)
        BY <2>4, <3>2, <3>4
      <4>2. Append(old, m)[i] = old[i]
        BY <2>3, <4>1
      <4> QED
        BY <2>4, <3>1, <4>1, <4>2
    <3> QED
      BY <3>3, <3>4
  <2> QED
    BY <2>5, <2>6 DEF SizesFit
<1>2. CASE UNCHANGED submitted
  BY <1>2 DEF SizesFit
<1>3. (\E s \in Station, m \in Messages : Submit(s, m)) \/ UNCHANGED submitted
  BY DEF Next, Drain, Transmit, Timeout, Receive, Lose, history, vars
<1> QED
  BY <1>1, <1>2, <1>3

(* What a new data frame adds to the message being reassembled stays       *)
(* within it.                                                              *)
LEMMA NewFits ==
  ASSUME TypeOK, PendingOpen, Core, StreamInv, SizesFit, MsgMax \in Nat,
         NEW s \in Station, air # None, air.to = s, air.kind = "data",
         air.seq # last_rx_seq[s]
  PROVE  /\ air.stream \in Stream /\ air.chunk \in Seq(Unit)
         /\ Len(assembly[s][air.stream]) + Len(air.chunk) <= MsgMax
<1> DEFINE t == Peer(s)
           p == pending[t]
           c == p.stream
           o == cur[t][c]
           n == Len(p.chunk)
           q == QosOf[o.msg]
           from == submitted[t][q]
<1>1. t \in Station /\ t # s /\ Peer(t) = s
  BY PeerPeer
<1>2. Dir(t)
  BY <1>1 DEF StreamInv
<1>3. /\ Len(taken[t]) \in Nat /\ Len(taken[t]) > 0
      /\ Len(accepted[s]) = Len(taken[t]) - 1
  BY <1>1, NewIsNew, Lengths
<1>4. p.active
  BY <1>1, <1>3 DEF Core, ExactlyOnce
<1>5. p = taken[t][Len(taken[t])]
  BY <1>1, <1>4 DEF Core, Numbered
<1>6. air.stream = c /\ air.chunk = p.chunk
  BY <1>5 DEF Core, InFlight
<1>7. /\ p \in Fragment /\ c \in Stream /\ o \in Open /\ o # Nothing
      /\ o.msg \in Messages /\ o.off \in Nat /\ Size[o.msg] \in Nat
      /\ q \in Class /\ n \in 1..Size[o.msg] - o.off
  BY <1>1, <1>2, <1>4, PendingPart DEF Dir
<1>8. ~Ahead(t, c)
  BY <1>1, <1>3 DEF Ahead
<1>9. assembly[s][c] = Units(o.msg, 0, o.off)
  BY <1>1, <1>2, <1>7, <1>8 DEF Dir, AssemblyTrue, Held
<1>10. Len(assembly[s][c]) = o.off
  BY <1>7, <1>9 DEF Units
<1>11. Size[o.msg] <= MsgMax
  <2>1. LET k == Len(from) - Len(queue[t][q]) IN k >= 1 /\ from[k] = o.msg
    BY <1>2, <1>7 DEF Dir, OpenNext
  <2>2. from \in Seq(Messages) /\ queue[t][q] \in Seq(Messages)
    BY <1>1, <1>7 DEF TypeOK
  <2> DEFINE k == Len(from) - Len(queue[t][q])
  <2>3. k \in 1..Len(from)
    <3> DEFINE x == Len(from)
               y == Len(queue[t][q])
    <3> HIDE DEF from
    <3>1. x \in Nat /\ y \in Nat
      <4> HIDE DEF q
      <4> QED
        BY <2>2
    <3>2. x - y >= 1
      BY <2>1
    <3>3. k = x - y
      OBVIOUS
    <3> HIDE DEF x, y, k
    <3>4. k \in 1..x
      BY <3>1, <3>2, <3>3
    <3> QED
      BY <3>4 DEF x
  <2> QED
    BY <1>1, <1>7, <2>1, <2>3 DEF SizesFit
<1>12. p.chunk \in Seq(Unit)
  BY <1>7 DEF Fragment
<1> HIDE DEF p, c, o, n, q, t
<1> QED
  BY <1>6, <1>7, <1>10, <1>11, <1>12 DEF n


LEMMA SizesFitInit == Init => SizesFit
  BY DEF Init, SizesFit
=============================================================================
