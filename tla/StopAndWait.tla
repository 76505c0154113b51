---------------------------- MODULE StopAndWait ----------------------------
(***************************************************************************)
(* Two stations on one simplex channel, with the burst extension and the   *)
(* capability handshake switched off (burst_window < 2, caps_disabled):    *)
(* three transmit queues, a priority and a bulk stream segmented into      *)
(* fragments, one fragment outstanding, a two-bit sequence number, an ack  *)
(* in every frame, and a reply timer (cport/src/station.c).                *)
(*                                                                         *)
(* A message is a run of units <<m, 1>>, <<m, 2>>, ...; a fragment carries *)
(* as many as the rung of the moment allows.  Time is abstracted: the      *)
(* reply timer may expire whenever it is armed, even under a late reply,   *)
(* and the post-transmission hold and the random backoff (not_before) only *)
(* delay a poll.  The channel holds one frame: a station that transmits    *)
(* over another is deaf to it and unheard, which is a loss followed by a   *)
(* transmission that is lost.                                              *)
(***************************************************************************)
EXTENDS Integers, Sequences

CONSTANTS
  A, B,          \* the two stations
  Messages,      \* everything the two hosts will ever submit
  From,          \* the station each message is submitted to
  QosOf,         \* its class
  Size,          \* its length in units
  ChunkCaps,     \* the payload caps, in units, the rungs of the run allow
  MaxMsgs,       \* ST_MAX_MSGS
  PoolSlots,     \* ST_POOL_SLOTS
  DeliveredMax,  \* ST_DELIVERED_MAX
  MsgMax,        \* ST_MSG_MAX, in units
  None

ASSUME StationAssumption ==
  /\ A # B
  /\ None \notin Messages \cup 0..2
  /\ From \in [Messages -> {A, B}]
  /\ QosOf \in [Messages -> 0..2]
  /\ Size \in [Messages -> Nat \ {0}]
  /\ ChunkCaps \subseteq Nat \ {0}

Station == {A, B}
Peer(s) == IF s = A THEN B ELSE A

QOS_CONTROL     == 0
QOS_INTERACTIVE == 1
QOS_BULK        == 2
Class == {QOS_CONTROL, QOS_INTERACTIVE, QOS_BULK}
Stream == {"prio", "bulk"}
StreamOf(q) == IF q = QOS_BULK THEN "bulk" ELSE "prio"

VARIABLES
  queue,        \* messages waiting, per station and class
  cur,          \* cur_prio and cur_bulk: the open message and its offset
  pending,      \* the outstanding fragment
  seq,          \* sequence number of the last new fragment
  last_rx_seq,  \* sequence number last received, -1 before the first
  reply_due,    \* a data frame was received and not yet answered
  await,        \* await_until is set: a reply is expected
  assembly,     \* units received of the message being reassembled
  delivered_n,  \* entries of the delivered log the host has not drained
  air,          \* the frame on the channel
  submitted,    \* history: messages accepted from the host, in order
  log,          \* history: messages completed from the peer, in order
  taken,        \* history: fragments cut, in order
  accepted      \* history: fragments accepted as new, in order

txVars == <<queue, cur, pending, seq>>
rxVars == <<last_rx_seq, reply_due, assembly, delivered_n>>
history == <<submitted, log, taken, accepted>>
vars == <<txVars, rxVars, await, air, history>>

Nothing == [msg |-> None, off |-> 0]
NoFragment == [active |-> FALSE]

Units(m, off, n) == [i \in 1..n |-> <<m, off + i>>]

Init ==
  /\ queue = [s \in Station |-> [q \in Class |-> <<>>]]
  /\ cur = [s \in Station |-> [c \in Stream |-> Nothing]]
  /\ pending = [s \in Station |-> NoFragment]
  /\ seq = [s \in Station |-> 0]
  /\ last_rx_seq = [s \in Station |-> -1]
  /\ reply_due = [s \in Station |-> FALSE]
  /\ await = [s \in Station |-> FALSE]
  /\ assembly = [s \in Station |-> [c \in Stream |-> <<>>]]
  /\ delivered_n = [s \in Station |-> 0]
  /\ air = None
  /\ submitted = [s \in Station |-> [q \in Class |-> <<>>]]
  /\ log = [s \in Station |-> [c \in Stream |-> <<>>]]
  /\ taken = [s \in Station |-> <<>>]
  /\ accepted = [s \in Station |-> <<>>]

-----------------------------------------------------------------------------
(* Slots of the shared store (see MsgStore) held by outbound messages, and *)
(* by everything.                                                          *)
outbound(s, c) ==
  LET open(stream) == IF c[stream] = Nothing THEN 0 ELSE 1
  IN  Len(queue[s][QOS_CONTROL]) + Len(queue[s][QOS_INTERACTIVE])
      + Len(queue[s][QOS_BULK]) + open("prio") + open("bulk")
pool_used(s) == outbound(s, cur[s]) + delivered_n[s]

(* station_submit, called by the host at any time. *)
Submit(s, m) ==
  LET q == QosOf[m]
  IN  /\ From[m] = s
      /\ \A i \in 1..Len(submitted[s][q]) : submitted[s][q][i] # m
      /\ Size[m] <= MsgMax
      /\ Len(queue[s][q]) < MaxMsgs
      /\ pool_used(s) < PoolSlots
      /\ queue' = [queue EXCEPT ![s][q] = Append(@, m)]
      /\ submitted' = [submitted EXCEPT ![s][q] = Append(@, m)]
      /\ UNCHANGED <<cur, pending, seq, rxVars, await, air, log, taken,
                     accepted>>

(* station_delivered_reset, once the host has read the log. *)
Drain(s) ==
  /\ delivered_n[s] > 0
  /\ delivered_n' = [delivered_n EXCEPT ![s] = 0]
  /\ UNCHANGED <<txVars, last_rx_seq, reply_due, assembly, await, air,
                 history>>

-----------------------------------------------------------------------------
has_traffic(s) ==
  \/ pending[s].active
  \/ \E c \in Stream : cur[s][c] # Nothing
  \/ \E q \in Class : queue[s][q] # <<>>

owes_ack(s) == last_rx_seq[s] >= 0 /\ reply_due[s]

AckField(s) == IF last_rx_seq[s] >= 0 THEN last_rx_seq[s] ELSE 0

(* The class whose head take_fragment opens, or None: control before       *)
(* interactive unless a priority message is open, bulk when neither a      *)
(* priority nor a bulk message is.                                         *)
Opened(s) ==
  IF cur[s]["prio"] # Nothing THEN None
  ELSE IF queue[s][QOS_CONTROL] # <<>> THEN QOS_CONTROL
  ELSE IF queue[s][QOS_INTERACTIVE] # <<>> THEN QOS_INTERACTIVE
  ELSE IF cur[s]["bulk"] = Nothing /\ queue[s][QOS_BULK] # <<>>
       THEN QOS_BULK
  ELSE None

(* cur and queue once that message is opened. *)
OpenedCur(s) ==
  IF Opened(s) = None THEN cur[s]
  ELSE [cur[s] EXCEPT ![StreamOf(Opened(s))] =
                        [msg |-> Head(queue[s][Opened(s)]), off |-> 0]]
OpenedQueue(s) ==
  IF Opened(s) = None THEN queue[s]
  ELSE [queue[s] EXCEPT ![Opened(s)] = Tail(@)]

(* Mutant of Cut: the two-bit sequence number is left to grow. *)
CutUnwrapped(s, stream, c, cap) ==
  LET left == Size[c.msg] - c.off
      n == IF left > cap THEN cap ELSE left
  IN  [active |-> TRUE, seq |-> seq[s] + 1, stream |-> stream,
       chunk |-> Units(c.msg, c.off, n), last |-> c.off + n >= Size[c.msg]]

(* The next fragment of an open message, at most cap units of it. *)
Cut(s, stream, c, cap) ==
  LET left == Size[c.msg] - c.off
      n == IF left > cap THEN cap ELSE left
  IN  [active |-> TRUE, seq |-> (seq[s] + 1) % 4, stream |-> stream,
       chunk |-> Units(c.msg, c.off, n), last |-> c.off + n >= Size[c.msg]]

DataFrame(s, f) ==
  [to |-> Peer(s), kind |-> "data", seq |-> f.seq, ack |-> AckField(s),
   stream |-> f.stream, chunk |-> f.chunk, last |-> f.last]
(* Mutant: a no-data frame acknowledges the station's own number. *)
NoDataFrameSelf(s) ==
  [to |-> Peer(s), kind |-> "nodata", seq |-> seq[s], ack |-> seq[s]]
NoDataFrame(s) ==
  [to |-> Peer(s), kind |-> "nodata", seq |-> seq[s], ack |-> AckField(s)]

(* The outstanding fragment goes out, again or for the first time after a  *)
(* frame that did not acknowledge it.                                      *)
SendPending(s) ==
  /\ pending[s].active
  /\ air' = DataFrame(s, pending[s])
  /\ await' = [await EXCEPT ![s] = TRUE]
  /\ UNCHANGED <<txVars, taken>>

(* A new fragment is cut from the message take_fragment picks. *)
SendNew(s) ==
  LET oc == OpenedCur(s)
      stream == IF oc["prio"] # Nothing THEN "prio" ELSE "bulk"
  IN  /\ ~pending[s].active
      /\ oc[stream] # Nothing
      /\ \E cap \in ChunkCaps :
           LET f == Cut(s, stream, oc[stream], cap)
           IN  /\ pending' = [pending EXCEPT ![s] = f]
               /\ seq' = [seq EXCEPT ![s] = f.seq]
               /\ taken' = [taken EXCEPT ![s] = Append(@, f)]
               /\ air' = DataFrame(s, f)
      /\ cur' = [cur EXCEPT ![s] = oc]
      /\ queue' = [queue EXCEPT ![s] = OpenedQueue(s)]
      /\ await' = [await EXCEPT ![s] = TRUE]

(* Nothing to send but an answer is owed: a no-data frame, which expects   *)
(* none itself.                                                            *)
SendAck(s) ==
  /\ ~has_traffic(s)
  /\ owes_ack(s)
  /\ air' = NoDataFrame(s)
  /\ await' = [await EXCEPT ![s] = FALSE]
  /\ UNCHANGED <<txVars, taken>>

(* station_poll_tx on an idle channel with no reply outstanding, and       *)
(* station_on_tx_end when the frame has left.                              *)
Transmit(s) ==
  /\ air = None
  /\ ~await[s]
  /\ SendPending(s) \/ SendNew(s) \/ SendAck(s)
  /\ reply_due' = [reply_due EXCEPT ![s] = FALSE]
  /\ UNCHANGED <<last_rx_seq, assembly, delivered_n, submitted, log,
                 accepted>>

(* station_poll_tx past await_until: the poll only clears the timer; the   *)
(* retransmission is a later poll's.                                       *)
Timeout(s) ==
  /\ await[s]
  /\ await' = [await EXCEPT ![s] = FALSE]
  /\ UNCHANGED <<txVars, rxVars, air, history>>

-----------------------------------------------------------------------------
(* Every frame carries an ack: it may retire the outstanding fragment,     *)
(* and the message with it when the fragment was the last.                 *)
Retires(s, f) == pending[s].active /\ f.ack = pending[s].seq

(* cur once it is: the offset moves past the fragment.  A message already  *)
(* released stays released.                                                *)
RetiredCur(s, f) ==
  LET p == pending[s]
  IN  IF ~Retires(s, f) \/ cur[s][p.stream] = Nothing THEN cur[s]
      ELSE [cur[s] EXCEPT ![p.stream] =
              IF p.last THEN Nothing
              ELSE [msg |-> @.msg, off |-> @.off + Len(p.chunk)]]

(* Mutant of Retire: any acknowledged fragment releases the message.       *)
RetireWhole(s, f) ==
  /\ pending' = [pending EXCEPT ![s] = IF Retires(s, f) THEN NoFragment ELSE @]
  /\ cur' = [cur EXCEPT ![s] =
               IF Retires(s, f) THEN [@ EXCEPT ![pending[s].stream] = Nothing]
               ELSE @]

Retire(s, f) ==
  /\ pending' = [pending EXCEPT ![s] = IF Retires(s, f) THEN NoFragment ELSE @]
  /\ cur' = [cur EXCEPT ![s] = RetiredCur(s, f)]

(* A data frame whose sequence number differs from the last one received   *)
(* is new: its units join the message being reassembled, and a last        *)
(* fragment completes it.  A completed message is kept when the log and    *)
(* the store have room and the message fits; otherwise it is gone.         *)
Accept(s, f) ==
  LET units == assembly[s][f.stream] \o f.chunk
      kept == /\ delivered_n[s] < DeliveredMax
              /\ Len(units) <= MsgMax
              /\ outbound(s, cur'[s]) + delivered_n[s] < PoolSlots
  IN  /\ assembly' = [assembly EXCEPT ![s][f.stream] =
                        IF f.last THEN <<>> ELSE units]
      /\ delivered_n' = [delivered_n EXCEPT ![s] =
                           IF f.last /\ kept THEN @ + 1 ELSE @]
      /\ log' = [log EXCEPT ![s][f.stream] =
                   IF f.last THEN Append(@, [units |-> units, kept |-> kept])
                   ELSE @]
      /\ accepted' = [accepted EXCEPT ![s] =
                        Append(@, [active |-> TRUE, seq |-> f.seq,
                                   stream |-> f.stream, chunk |-> f.chunk,
                                   last |-> f.last])]

(* Mutants of ReceiveData: a retransmission is taken for new data; it is   *)
(* recognised but not answered.                                            *)
ReceiveDataTwice(s, f) ==
  /\ f.kind = "data"
  /\ Accept(s, f)
  /\ last_rx_seq' = [last_rx_seq EXCEPT ![s] = f.seq]
  /\ reply_due' = [reply_due EXCEPT ![s] = TRUE]
ReceiveDataSilent(s, f) ==
  /\ f.kind = "data"
  /\ IF f.seq # last_rx_seq[s]
     THEN /\ Accept(s, f)
          /\ reply_due' = [reply_due EXCEPT ![s] = TRUE]
     ELSE UNCHANGED <<assembly, delivered_n, log, accepted, reply_due>>
  /\ last_rx_seq' = [last_rx_seq EXCEPT ![s] = f.seq]

ReceiveData(s, f) ==
  /\ f.kind = "data"
  /\ IF f.seq # last_rx_seq[s] THEN Accept(s, f)
     ELSE UNCHANGED <<assembly, delivered_n, log, accepted>>
  /\ last_rx_seq' = [last_rx_seq EXCEPT ![s] = f.seq]
  /\ reply_due' = [reply_due EXCEPT ![s] = TRUE]

(* Mutant of ReceiveNoData: an acknowledgment is answered. *)
ReceiveNoDataAnswered(s, f) ==
  /\ f.kind = "nodata"
  /\ reply_due' = [reply_due EXCEPT ![s] = TRUE]
  /\ UNCHANGED <<last_rx_seq, assembly, delivered_n, log, accepted>>

ReceiveNoData(s, f) ==
  /\ f.kind = "nodata"
  /\ UNCHANGED <<rxVars, log, accepted>>

(* station_on_decoded. *)
Receive(s) ==
  /\ air # None
  /\ air.to = s
  /\ Retire(s, air)
  /\ ReceiveData(s, air) \/ ReceiveNoData(s, air)
  /\ await' = [await EXCEPT ![s] = FALSE]
  /\ air' = None
  /\ UNCHANGED <<queue, seq, submitted, taken>>

(* Noise, a fade or a collision: the frame is not decoded. *)
Lose ==
  /\ air # None
  /\ air' = None
  /\ UNCHANGED <<txVars, rxVars, await, history>>

Next ==
  \/ \E s \in Station, m \in Messages : Submit(s, m)
  \/ \E s \in Station : Drain(s)
  \/ \E s \in Station : Transmit(s)
  \/ \E s \in Station : Timeout(s)
  \/ \E s \in Station : Receive(s)
  \/ Lose

Spec == Init /\ [][Next]_vars

(* Polls and decodes keep happening.  A poll may find the channel taken    *)
(* and a frame may be lost any number of times, but the random backoff     *)
(* gives each station the channel again and again, and not every frame to  *)
(* a station is lost: strong fairness for both.                            *)
Fairness ==
  \A s \in Station : /\ SF_vars(Transmit(s))
                     /\ SF_vars(Receive(s))
                     /\ WF_vars(Timeout(s))

FairSpec == Spec /\ Fairness

-----------------------------------------------------------------------------
Unit == Messages \X Nat
Open == [msg : Messages, off : Nat]
Fragment == [active : {TRUE}, seq : 0..3, stream : Stream, chunk : Seq(Unit),
             last : BOOLEAN]
Frame ==
  [to : Station, kind : {"data"}, seq : 0..3, ack : 0..3, stream : Stream,
   chunk : Seq(Unit), last : BOOLEAN]
  \cup [to : Station, kind : {"nodata"}, seq : 0..3, ack : 0..3]
(* Type invariant of the two station_t and the channel; sequence numbers   *)
(* keep to their two bits.                                                 *)
TypeOK ==
  /\ queue \in [Station -> [Class -> Seq(Messages)]]
  /\ cur \in [Station -> [Stream -> Open \cup {Nothing}]]
  /\ pending \in [Station -> Fragment \cup {NoFragment}]
  /\ seq \in [Station -> 0..3]
  /\ last_rx_seq \in [Station -> -1..3]
  /\ reply_due \in [Station -> BOOLEAN]
  /\ await \in [Station -> BOOLEAN]
  /\ assembly \in [Station -> [Stream -> Seq(Unit)]]
  /\ delivered_n \in [Station -> Nat]
  /\ air \in Frame \cup {None}
  /\ submitted \in [Station -> [Class -> Seq(Messages)]]
  /\ log \in [Station -> [Stream -> Seq([units : Seq(Unit), kept : BOOLEAN])]]
  /\ taken \in [Station -> Seq(Fragment)]
  /\ accepted \in [Station -> Seq(Fragment)]

(* What the peer accepted is what the station cut, in order and once each, *)
(* except that the newest fragment may still be on its way; and once a     *)
(* fragment is retired, the peer holds it.  Losses, duplicates, late acks  *)
(* and the wrap of the two-bit sequence number notwithstanding.            *)
ExactlyOnce ==
  \A s \in Station :
    LET n == Len(taken[s])
        m == Len(accepted[Peer(s)])
    IN  /\ m \in {n - 1, n}
        /\ ~pending[s].active => m = n
        /\ \A i \in 1..m : accepted[Peer(s)][i] = taken[s][i]

(* Why it holds.  The outstanding fragment belongs to an open message;     *)
(* sequence numbers count fragments modulo four on both sides; and the     *)
(* frame on the air carries the newest fragment and the current ack.       *)
PendingOpen ==
  \A s \in Station :
    pending[s].active => cur[s][pending[s].stream] # Nothing
Numbered ==
  \A s \in Station :
    /\ seq[s] = Len(taken[s]) % 4
    /\ last_rx_seq[s] =
         IF Len(accepted[s]) = 0 THEN -1 ELSE Len(accepted[s]) % 4
    /\ \A i \in 1..Len(taken[s]) : taken[s][i].seq = i % 4
    /\ pending[s].active => /\ Len(taken[s]) > 0
                            /\ pending[s] = taken[s][Len(taken[s])]
InFlight ==
  air # None =>
    LET s == Peer(air.to)
        newest == taken[s][Len(taken[s])]
    IN  /\ air.ack = Len(accepted[s]) % 4
        /\ air.kind = "data" => /\ Len(taken[s]) > 0
                                /\ air.seq = newest.seq
                                /\ air.stream = newest.stream
                                /\ air.chunk = newest.chunk
                                /\ air.last = newest.last
(* The inductive invariant behind ExactlyOnce: what station_poll_tx and    *)
(* station_on_decoded keep true between themselves.                        *)
IInv == TypeOK /\ PendingOpen /\ Numbered /\ InFlight /\ ExactlyOnce

(* What became of a message at the peer: it was kept for the host, or it   *)
(* was completed while there was no room, which its entry shows.           *)
Completed(m, kept) ==
  LET done == log[Peer(From[m])][StreamOf(QosOf[m])]
  IN  \E i \in 1..Len(done) :
        done[i] = [units |-> Units(m, 0, Size[m]), kept |-> kept]
Delivered(m) == Completed(m, TRUE)
Dropped(m) == Completed(m, FALSE)
Queued(m) ==
  LET q == submitted[From[m]][QosOf[m]]
  IN  \E i \in 1..Len(q) : q[i] = m
Room(s) == delivered_n[s] < DeliveredMax /\ pool_used(s) < PoolSlots

(* Every message the host had accepted is delivered, or shows as dropped;  *)
(* and while the peer's log and store have room all of them are delivered: *)
(* a full log is the only way to lose one (station_poll_tx and             *)
(* station_on_decoded; "VISIBLE rather than counted as delivered").        *)
EventuallyDelivered ==
  \A m \in Messages :
    /\ Queued(m) ~> Delivered(m) \/ Dropped(m)
    /\ []Room(Peer(From[m])) => (Queued(m) ~> Delivered(m))

(* Once the hosts have nothing more to say, the channel falls silent:      *)
(* no acknowledgment is acknowledged.                                      *)
EventuallySilent == <>[](air = None)

(* What the pair promises its hosts: see ReliableStreams.  A message has   *)
(* been given up by its sender once it is neither queued nor open.         *)
gone == [s \in Station |-> [q \in Class |->
          Len(submitted[s][q]) - Len(queue[s][q])
          - (IF /\ cur[s][StreamOf(q)] # Nothing
                /\ QosOf[cur[s][StreamOf(q)].msg] = q THEN 1 ELSE 0)]]
Promise == INSTANCE ReliableStreams WITH released <- gone
ImplementsStreams == Promise!Spec
==============================================================================
