--------------------------- MODULE StationProofs ----------------------------
(***************************************************************************)
(* Proofs about Station, for every set of messages, every rung table,      *)
(* window and limit, and both extensions on or off: the types of its       *)
(* state; that a capability frame taken for unanswered always has its      *)
(* timer armed; and that an open window always has a fragment to send.     *)
(* That the extensions, when switched off, are inert: then the station is  *)
(* the stop-and-wait exchange, and keeps its promise.  And that the bursts *)
(* of one station are true: what it takes for acknowledged its peer holds, *)
(* and what it releases its peer has stored, whole, once and in order; and *)
(* that beside them the stop-and-wait exchange goes on undisturbed, so     *)
(* that the station keeps the promise with bursts too.                     *)
(***************************************************************************)
EXTENDS Station, NaturalLemmas, SequenceTheorems, FiniteSetTheorems

(* What waits and what is open at a sender, and what is on the channel.    *)
Index == 0..MaxFrags - 1
MsgType ==
  /\ queue \in [Station -> [SW!Class -> Seq(Messages)]]
  /\ cur \in [Station -> [SW!Stream -> SW!Open \cup {SW!Nothing}]]
  /\ pending \in [Station -> SW!Fragment \cup {SW!NoFragment}]
Framed ==
  SW!Frame
  \cup [to : Station, kind : {"burst_ack"}, seq : 0..3, ack : 0..3,
        have : SUBSET Index]
  \cup [to : Station, kind : {"caps"}, seq : 0..3, ack : 0..3,
        reply : BOOLEAN]
  \cup [to : Station, kind : {"burst"}, id : 0..3, ack : 0..3, idx : Index,
        n : 0..MaxFrags, frag_size : Nat, ack_req : BOOLEAN,
        chunk : Seq(Unit)]
AirType ==
  /\ air \in Framed \cup {None}
  /\ await \in [Station -> BOOLEAN] /\ reply_due \in [Station -> BOOLEAN]
Typed == TypeOK /\ MsgType /\ AirType

(* A window is open only while a fragment is neither acknowledged nor sent *)
(* in it, and a burst lasts only while one is not acknowledged.            *)
Missing(b) ==
  b.active => /\ ~AllAcked(b, b.acked)
              /\ b.window_left > 0 => Candidates(b) # {}
WindowInv == \A s \in Station : Missing(btx[s])

(* The names of the two modules.                                           *)
LEMMA Names ==
  /\ SW!Station = Station /\ \A s \in Station : Peer(s) \in Station
  /\ \A s \in Station : /\ SW!Peer(s) = Peer(s) /\ Peer(s) # s
                        /\ Peer(Peer(s)) = s
  /\ SW!Class = 0..2 /\ SW!Stream = {"prio", "bulk"} /\ BULK = 2
  /\ SW!QOS_CONTROL = 0 /\ SW!QOS_INTERACTIVE = 1 /\ SW!QOS_BULK = 2
  /\ SW!Unit = Unit
  BY StationAssumption
     DEF SW!Station, Station, Peer, SW!Peer, SW!Class, SW!Stream, BULK,
         SW!QOS_CONTROL, SW!QOS_INTERACTIVE, SW!QOS_BULK, SW!Unit, Unit

(* A run of units is a sequence of units. *)
LEMMA UnitsType ==
  ASSUME NEW m \in Messages, NEW off \in Nat, NEW n \in Int
  PROVE  SW!Units(m, off, n) \in Seq(Unit)
<1>1. CASE n \in Nat
  BY <1>1 DEF SW!Units, Unit
<1>2. CASE n \notin Nat
  <2>1. 1..n = 1..0
    BY <1>2
  <2> QED
    BY <2>1 DEF SW!Units, Unit
<1> QED
  BY <1>1, <1>2

(* Opening a message keeps the current messages and the queues typed.      *)
LEMMA OpenedType ==
  ASSUME MsgType, NEW s \in Station
  PROVE  /\ SW!OpenedCur(s) \in [SW!Stream -> SW!Open \cup {SW!Nothing}]
         /\ SW!OpenedQueue(s) \in [SW!Class -> Seq(Messages)]
<1> DEFINE q == SW!Opened(s)
<1>1. CASE q = None
  BY <1>1 DEF SW!OpenedCur, SW!OpenedQueue, MsgType
<1>2. CASE q # None
  <2>1. q \in SW!Class /\ queue[s][q] # <<>>
    BY <1>2 DEF SW!Opened, SW!Class, SW!QOS_CONTROL, SW!QOS_INTERACTIVE,
                SW!QOS_BULK
  <2>2. queue[s] \in [SW!Class -> Seq(Messages)]
        /\ queue[s][q] \in Seq(Messages)
    BY <2>1 DEF MsgType
  <2>3. Head(queue[s][q]) \in Messages /\ Tail(queue[s][q]) \in Seq(Messages)
    BY <2>1, <2>2
  <2>4. [msg |-> Head(queue[s][q]), off |-> 0] \in SW!Open
    BY <2>3 DEF SW!Open
  <2>5. cur[s] \in [SW!Stream -> SW!Open \cup {SW!Nothing}]
    BY DEF MsgType
  <2>6. SW!OpenedCur(s) \in [SW!Stream -> SW!Open \cup {SW!Nothing}]
    BY <1>2, <2>4, <2>5 DEF SW!OpenedCur
  <2>7. SW!OpenedQueue(s) \in [SW!Class -> Seq(Messages)]
    BY <1>2, <2>1, <2>2, <2>3 DEF SW!OpenedQueue
  <2> QED
    BY <2>6, <2>7
<1> QED
  BY <1>1, <1>2

(* A fragment cut from an open message is a fragment, and what the stop-   *)
(* and-wait path puts on the air is a frame for the peer.                  *)
LEMMA CutType ==
  ASSUME Typed, NEW s \in Station, NEW stream \in SW!Stream,
         NEW c \in SW!Open, NEW cap \in ChunkCaps
  PROVE  SW!Cut(s, stream, c, cap) \in SW!Fragment
<1> DEFINE left == Size[c.msg] - c.off
           n == IF left > cap THEN cap ELSE left
<1>1. c.msg \in Messages /\ c.off \in Nat
  BY DEF SW!Open
<1>2. Size[c.msg] \in Nat /\ cap \in Nat
  BY <1>1, StationAssumption
<1>3. n \in Int
  BY <1>1, <1>2
<1>4. SW!Units(c.msg, c.off, n) \in Seq(SW!Unit)
  BY <1>1, <1>3, UnitsType, Names
<1>5. (seq[s] + 1) % 4 \in 0..3
  <2>1. seq[s] \in 0..3
    BY DEF Typed, TypeOK
  <2> QED
    BY <2>1
<1>6. (c.off + n >= Size[c.msg]) \in BOOLEAN
  OBVIOUS
<1> QED
  BY <1>4, <1>5, <1>6 DEF SW!Cut, SW!Fragment
LEMMA FrameType ==
  ASSUME Typed, NEW s \in Station
  PROVE  /\ SW!AckField(s) \in 0..3
         /\ SW!NoDataFrame(s) \in Framed
         /\ \A f \in SW!Fragment : SW!DataFrame(s, f) \in Framed
<1>1. SW!Peer(s) \in SW!Station
  BY Names
<1>2. SW!AckField(s) \in 0..3
  BY DEF SW!AckField, Typed, TypeOK
<1>3. seq[s] \in 0..3
  BY DEF Typed, TypeOK
<1>4. SW!NoDataFrame(s) \in SW!Frame
  BY <1>1, <1>2, <1>3 DEF SW!NoDataFrame, SW!Frame
<1>5. \A f \in SW!Fragment : SW!DataFrame(s, f) \in SW!Frame
  BY <1>1, <1>2 DEF SW!DataFrame, SW!Frame, SW!Fragment
<1> QED
  BY <1>2, <1>4, <1>5 DEF Framed

(* What the stop-and-wait path sends.                                      *)
LEMMA LegacySends ==
  ASSUME Typed, NEW s \in Station,
         SW!SendPending(s) \/ SW!SendNew(s) \/ SW!SendAck(s)
  PROVE  /\ MsgType' /\ air' \in Framed /\ await' \in [Station -> BOOLEAN]
         /\ seq' \in [Station -> 0..3]
<1>1. CASE SW!SendPending(s)
  <2>1. pending[s] \in SW!Fragment
    <3>1. pending[s] \in SW!Fragment \cup {SW!NoFragment}
      BY DEF Typed, MsgType
    <3> QED
      BY <3>1, <1>1 DEF SW!SendPending, SW!NoFragment
  <2>2. air' \in Framed
    BY <1>1, <2>1, FrameType DEF SW!SendPending
  <2> QED
    BY <1>1, <2>2 DEF SW!SendPending, SW!txVars, Typed, TypeOK, MsgType,
                      AirType
<1>2. CASE SW!SendNew(s)
  <2> DEFINE oc == SW!OpenedCur(s)
             stream == IF oc["prio"] # SW!Nothing THEN "prio" ELSE "bulk"
  <2>1. oc \in [SW!Stream -> SW!Open \cup {SW!Nothing}]
    BY OpenedType DEF Typed
  <2>2. stream \in SW!Stream /\ oc[stream] \in SW!Open
    BY <1>2, <2>1, Names DEF SW!SendNew
  <2>3. PICK cap \in ChunkCaps :
          LET f == SW!Cut(s, stream, oc[stream], cap)
          IN  /\ pending' = [pending EXCEPT ![s] = f]
              /\ seq' = [seq EXCEPT ![s] = f.seq]
              /\ air' = SW!DataFrame(s, f)
    BY <1>2 DEF SW!SendNew
  <2> DEFINE f == SW!Cut(s, stream, oc[stream], cap)
  <2>4. f \in SW!Fragment
    BY <2>2, CutType
  <2>5. /\ cur' = [cur EXCEPT ![s] = oc]
        /\ queue' = [queue EXCEPT ![s] = SW!OpenedQueue(s)]
        /\ await' = [await EXCEPT ![s] = TRUE]
    BY <1>2 DEF SW!SendNew
  <2> HIDE DEF f, stream, oc
  <2>6. pending' \in [Station -> SW!Fragment \cup {SW!NoFragment}]
    BY <2>3, <2>4 DEF f, stream, oc, Typed, MsgType
  <2>7. f.seq \in 0..3
    BY <2>4 DEF SW!Fragment
  <2>8. seq' \in [Station -> 0..3]
    BY <2>3, <2>7 DEF f, stream, oc, Typed, TypeOK
  <2>9. air' \in Framed
    BY <2>3, <2>4, FrameType DEF f, stream, oc
  <2>10. /\ cur' \in [Station -> [SW!Stream -> SW!Open \cup {SW!Nothing}]]
         /\ await' \in [Station -> BOOLEAN]
    BY <2>1, <2>5 DEF Typed, MsgType, AirType
  <2>11. queue' \in [Station -> [SW!Class -> Seq(Messages)]]
    BY <2>5, OpenedType DEF Typed, MsgType
  <2> QED
    BY <2>6, <2>8, <2>9, <2>10, <2>11 DEF MsgType
<1>3. CASE SW!SendAck(s)
  BY <1>3, FrameType DEF SW!SendAck, SW!txVars, Typed, TypeOK, MsgType, AirType
<1> QED
  BY <1>1, <1>2, <1>3

(* What asking for a probe makes of the handshake: nothing of the frame    *)
(* that is out.                                                            *)
LEMMA ProbesType ==
  ASSUME Typed, NEW s \in Station, NEW p \in Probes(s)
  PROVE  p.caps \in Handshake /\ p.caps.inflight = caps[s].inflight
<1> DEFINE c == caps[s]
           d == IF c.legacy THEN [c EXCEPT !.legacy = FALSE, !.tries = 0]
                ELSE c
           e == [d EXCEPT !.legacy = TRUE, !.paced = TRUE]
<1>1. c \in Handshake
  BY DEF Typed, TypeOK
<1>2. d \in Handshake /\ d.inflight = c.inflight
  <2>1. 0 \in 0..CapsTries
    BY StationAssumption
  <2> HIDE DEF c
  <2> QED
    BY <1>1, <2>1 DEF Handshake
<1>3. e \in Handshake /\ e.inflight = c.inflight
  <2> HIDE DEF d
  <2> QED
    BY <1>2 DEF Handshake
<1>4. \A stale, expired : caps_probe_wanted(s, stale, expired).caps
                            \in {c, d, e}
  BY DEF caps_probe_wanted
<1>5. p.caps = c \/ \E stale, expired :
                      p.caps = caps_probe_wanted(s, stale, expired).caps
  <2> DEFINE old(event) == event \in Rare /\ rare < RareMax
             ages == IF c.valid /\ old("record") THEN BOOLEAN ELSE {FALSE}
             waits == CASE ~c.paced -> {TRUE}
                        [] c.paced /\ c.legacy /\ ~old("verdict") -> {FALSE}
                        [] OTHER -> BOOLEAN
             more(stale, expired) ==
               IF (c.valid /\ stale) \/ (c.legacy /\ expired)
               THEN rare + 1 ELSE rare
             probe(stale, expired) ==
               [caps |-> caps_probe_wanted(s, stale, expired).caps,
                wanted |-> caps_probe_wanted(s, stale, expired).wanted,
                rare |-> more(stale, expired)]
             X == {probe(stale, expired) : stale \in ages, expired \in waits}
             as_is(wanted) == [caps |-> c, wanted |-> wanted, rare |-> rare]
  <2>1. Probes(s) = CASE s \notin CapsStations -> {as_is(FALSE)}
                      [] s \in CapsStations /\ c.reply_due -> {as_is(TRUE)}
                      [] OTHER -> X
    BY DEF Probes
  <2> HIDE DEF ages, waits, more
  <2>2. CASE p \in X
    BY <2>2
  <2> HIDE DEF X, as_is, c
  <2>3. CASE p \notin X
    <3>1. p \in {as_is(FALSE), as_is(TRUE)}
      BY <2>1, <2>3
    <3> QED
      BY <3>1 DEF as_is
  <2> QED
    BY <2>2, <2>3
<1>6. p.caps \in {c, d, e}
  BY <1>4, <1>5
<1> HIDE DEF c, d, e
<1>7. p.caps \in Handshake /\ p.caps.inflight = c.inflight
  BY <1>1, <1>2, <1>3, <1>6
<1> QED
  BY <1>7 DEF c

(* A burst that engages is cut into fragments that cover the message, its  *)
(* last one not empty, with a window of at least one.                      *)
LEMMA Fragments ==
  ASSUME NEW len \in Nat \ {0}, NEW fs \in Nat \ {0}
  PROVE  LET n == (len + fs - 1) \div fs
         IN  /\ n \in Nat \ {0} /\ len - (n - 1) * fs \in 1..fs
<1> DEFINE a == len + fs - 1
           n == a \div fs
           r == a % fs
<1>1. a \in Nat /\ a >= fs
  OBVIOUS
<1>2. a = fs * n + r /\ n \in Nat
  BY <1>1, Division
<1>3. r \in 0..fs - 1
  BY <1>1, ModRange
<1> HIDE DEF n, r
<1>4. n # 0
  BY <1>1, <1>2, <1>3, SMTT(30)
<1>5. (n - 1) * fs = fs * n - fs
  BY <1>2, SMTT(30)
<1>6. fs * n \in Int
  BY <1>2
<1>7. len - (n - 1) * fs = r + 1
  BY <1>2, <1>3, <1>5, <1>6
<1>8. len - (n - 1) * fs \in 1..fs
  BY <1>3, <1>7
<1> QED
  BY <1>2, <1>4, <1>8 DEF n

LEMMA EngagedType ==
  ASSUME Typed, NEW s \in Station, NEW r \in Rungs, MayEngage(s, r),
         NEW b \in Engaged(s, r)
  PROVE  b \in BurstTx /\ b.active /\ Missing(b)
<1> DEFINE len == Size[SW!OpenedCur(s)["bulk"].msg]
           fs == FragSize[r]
           n == (len + fs - 1) \div fs
           widest == IF n < BurstWindow THEN n ELSE BurstWindow
<1>1. len \in Nat \ {0}
  <2>1. SW!OpenedCur(s)["bulk"] \in SW!Open
    BY OpenedType, Names DEF Typed, MayEngage
  <2>2. SW!OpenedCur(s)["bulk"].msg \in Messages
    BY <2>1 DEF SW!Open
  <2> QED
    BY <2>2, StationAssumption
<1>2. fs \in Nat \ {0}
  BY StationAssumption DEF MayEngage
<1>3. n \in Nat \ {0} /\ len - (n - 1) * fs \in 1..fs
  <2> HIDE DEF len, fs
  <2> QED
    BY <1>1, <1>2, Fragments
<1> DEFINE last == len - (n - 1) * fs
<1>4. PICK w \in IF n > MaxFrags THEN {} ELSE 1..widest :
        b = [active |-> TRUE, id |-> (btx[s].id + 1) % 4, n |-> n,
             frag_size |-> fs, last_len |-> last, win |-> w,
             window_left |-> w, cursor |-> 0, acked |-> {}, sent |-> {}]
  BY DEF Engaged
<1>5. (btx[s].id + 1) % 4 \in 0..3
  <2>1. btx[s].id \in 0..3
    BY DEF Typed, TypeOK, BurstTx
  <2> QED
    BY <2>1
<1>6. last \in Nat
  <2> HIDE DEF len, n, fs
  <2> QED
    BY <1>2, <1>3
<1>7. w \in Nat /\ n \in 0..MaxFrags
  <2> HIDE DEF n
  <2> QED
    BY <1>3, <1>4, StationAssumption
<1> HIDE DEF len, fs, n, last
<1>8. b \in BurstTx
  BY <1>2, <1>4, <1>5, <1>6, <1>7 DEF BurstTx
<1>9. b.active /\ b.n = n /\ b.acked = {} /\ b.sent = {}
  BY <1>4
<1>10. 0 \in 0..n - 1
  BY <1>3
<1> QED
  BY <1>8, <1>9, <1>10 DEF Missing, AllAcked, Candidates

(* The fragment chosen is one of the candidates.                           *)
LEMMA CandidateIn ==
  ASSUME NEW b \in BurstTx, Candidates(b) # {}
  PROVE  /\ Candidate(b) \in Candidates(b)
         /\ Candidate(b) \in 0..b.n - 1 /\ Candidate(b) \in Index
<1> DEFINE away(i) == (i + b.n - b.cursor) % b.n
           T == {away(i) : i \in Candidates(b)}
<1>1. /\ b.n \in 0..MaxFrags /\ b.cursor \in Nat
      /\ Candidates(b) \subseteq 0..b.n - 1 /\ b.n # 0
  BY DEF BurstTx, Candidates
<1>2. \A i \in Candidates(b) : away(i) \in Nat
  <2> TAKE i \in Candidates(b)
  <2>1. i \in Int /\ b.n \in Nat \ {0} /\ b.cursor \in Int
    BY <1>1, StationAssumption
  <2> QED
    BY <2>1
<1>3. T \subseteq Nat /\ T # {}
  BY <1>2
<1>4. PICK x \in T : \A y \in T : x <= y
  BY <1>3, LeastElement, Zenon
<1>5. PICK i \in Candidates(b) : \A j \in Candidates(b) : away(i) <= away(j)
  BY <1>4
<1>6. Candidate(b) \in Candidates(b)
  BY <1>5 DEF Candidate
<1> QED
  BY <1>1, <1>6, StationAssumption DEF Index

LEMMA BurstAtType ==
  ASSUME Typed, WindowInv, NEW s \in Station, NEW r \in Rungs,
         NEW b \in BurstAt(s, r)
  PROVE  b \in BurstTx /\ Missing(b)
<1>1. CASE b = btx[s]
  BY <1>1 DEF Typed, TypeOK, WindowInv
<1>2. CASE b # btx[s]
  <2>1. MayEngage(s, r) /\ b \in Engaged(s, r)
    BY <1>2 DEF BurstAt
  <2> QED
    BY <2>1, EngagedType
<1> QED
  BY <1>1, <1>2

(* Giving a burst up keeps its number only.                                *)
LEMMA DisengagedType ==
  ASSUME NEW b \in BurstTx
  PROVE  Disengaged(b.id) \in BurstTx /\ Missing(Disengaged(b.id))
<1>1. Disengaged(b.id) \in BurstTx
  BY StationAssumption DEF Disengaged, BurstTx
<1> QED
  BY <1>1 DEF Disengaged, Missing

(* A fragment of a burst: the window it leaves open is not exhausted.      *)
LEMMA WindowStep ==
  ASSUME NEW b \in BurstTx, Sending(b), Missing(b)
  PROVE  LET i == Candidate(b)
             a == [b EXCEPT !.cursor = i + 1, !.sent = @ \cup {i},
                            !.window_left = IF Asks(b) THEN 0 ELSE @ - 1]
         IN  a \in BurstTx /\ Missing(a)
<1> DEFINE i == Candidate(b)
           a == [b EXCEPT !.cursor = i + 1, !.sent = @ \cup {i},
                          !.window_left = IF Asks(b) THEN 0 ELSE @ - 1]
           left == IF Asks(b) THEN 0 ELSE b.window_left - 1
<1>1. /\ b.active /\ b.window_left \in Nat /\ b.window_left > 0
      /\ Candidates(b) # {}
  BY DEF Sending, BurstTx
<1>2. i \in Candidates(b) /\ i \in 0..b.n - 1 /\ i \in Index
  BY <1>1, CandidateIn
<1> HIDE DEF i
<1>3. left \in Nat /\ i + 1 \in Nat
  BY <1>1, <1>2 DEF Index
<1>4. a = [b EXCEPT !.cursor = i + 1, !.sent = b.sent \cup {i},
                    !.window_left = left]
  OBVIOUS
<1> HIDE DEF left, a
<1>5. a \in BurstTx
  BY <1>2, <1>3, <1>4 DEF BurstTx, Index
<1>6. /\ a.active /\ a.n = b.n /\ a.acked = b.acked
      /\ a.sent = b.sent \cup {i} /\ a.window_left = left
  BY <1>1, <1>4 DEF BurstTx
<1>7. Candidates(a) = Candidates(b) \ {i}
  BY <1>6 DEF Candidates
<1>8. left > 0 => Candidates(a) # {}
  <2> SUFFICES ASSUME left > 0, Candidates(a) = {}
               PROVE  FALSE
    OBVIOUS
  <2>1. Candidates(b) = {i}
    BY <1>2, <1>7
  <2>2. Cardinality(Candidates(b)) = 1
    BY <2>1, FS_Singleton
  <2> QED
    BY <2>2 DEF left, Asks
<1>9. ~AllAcked(a, a.acked)
  BY <1>1, <1>6 DEF Missing, AllAcked
<1>10. Missing(a)
  BY <1>6, <1>8, <1>9 DEF Missing
<1> QED
  BY <1>5, <1>10 DEF a, i

LEMMA SendBurstType ==
  ASSUME Typed, NEW s \in Station, NEW r \in Rungs, NEW b \in BurstTx,
         Missing(b), SendBurstFrag(s, r, b)
  PROVE  /\ btx' \in [Station -> BurstTx] /\ Missing(btx'[s])
         /\ \A t \in Station \ {s} : btx'[t] = btx[t]
         /\ MsgType' /\ air' \in Framed /\ await' \in [Station -> BOOLEAN]
         /\ seq' = seq
<1> DEFINE i == Candidate(b)
           a == [b EXCEPT !.cursor = i + 1, !.sent = @ \cup {i},
                          !.window_left = IF Asks(b) THEN 0 ELSE @ - 1]
           open == IF btx[s].active THEN cur[s] ELSE SW!OpenedCur(s)
           chunk == SW!Units(open["bulk"].msg, i * b.frag_size, FragLen(b, i))
<1>1. /\ Sending(b) /\ open["bulk"] # SW!Nothing
      /\ air' = [to |-> Peer(s), kind |-> "burst", id |-> b.id,
                 ack |-> SW!AckField(s), idx |-> i, n |-> b.n,
                 frag_size |-> b.frag_size, ack_req |-> Asks(b),
                 chunk |-> chunk]
      /\ btx' = [btx EXCEPT ![s] = a]
      /\ cur' = [cur EXCEPT ![s] = open]
      /\ queue' = [queue EXCEPT ![s] =
                     IF btx[s].active THEN @ ELSE SW!OpenedQueue(s)]
      /\ await' = [await EXCEPT ![s] = Asks(b)]
      /\ UNCHANGED <<pending, seq>>
  BY DEF SendBurstFrag
<1>2. a \in BurstTx /\ Missing(a)
  BY <1>1, WindowStep
<1>3. i \in Index /\ i \in Nat
  BY <1>1, CandidateIn DEF Sending, Index
<1>4. open \in [SW!Stream -> SW!Open \cup {SW!Nothing}]
  BY OpenedType DEF Typed, MsgType
<1>5. chunk \in Seq(Unit)
  <2>1. open["bulk"] \in SW!Open
    <3> HIDE DEF open
    <3> QED
      BY <1>1, <1>4, Names
  <2>2. open["bulk"].msg \in Messages
    BY <2>1 DEF SW!Open
  <2>3. b.frag_size \in Nat /\ FragLen(b, i) \in Int
    BY DEF BurstTx, FragLen
  <2> HIDE DEF i, open
  <2>4. i * b.frag_size \in Nat
    BY <1>3, <2>3
  <2> QED
    BY <2>2, <2>3, <2>4, UnitsType
<1> HIDE DEF a, i, chunk, open
<1>6. btx' \in [Station -> BurstTx] /\ btx'[s] = a
      /\ \A t \in Station \ {s} : btx'[t] = btx[t]
  BY <1>1, <1>2 DEF Typed, TypeOK
<1>7. MsgType'
  <2>1. cur' \in [Station -> [SW!Stream -> SW!Open \cup {SW!Nothing}]]
    BY <1>1, <1>4 DEF Typed, MsgType
  <2>2. queue' \in [Station -> [SW!Class -> Seq(Messages)]]
    BY <1>1, OpenedType DEF Typed, MsgType
  <2> QED
    BY <1>1, <2>1, <2>2 DEF Typed, MsgType
<1>8. Asks(b) \in BOOLEAN
  BY DEF Asks
<1>9. await' \in [Station -> BOOLEAN]
  BY <1>1, <1>8 DEF Typed, AirType
<1>10. air' \in Framed
  <2>1. b.id \in 0..3 /\ b.n \in 0..MaxFrags /\ b.frag_size \in Nat
    BY DEF BurstTx
  <2>2. SW!AckField(s) \in 0..3 /\ Peer(s) \in Station
    BY FrameType, Names
  <2> QED
    BY <1>1, <1>3, <1>5, <1>8, <2>1, <2>2 DEF Framed
<1> QED
  BY <1>1, <1>2, <1>6, <1>7, <1>9, <1>10

(* The invariant of every step: types, the windows, and the timers of the  *)
(* capability frames.                                                      *)
IInv == Typed /\ WindowInv /\ InflightAwaited

(* A step that leaves the bursts, the handshake and the timers of all      *)
(* stations but one alone keeps the two invariants if it does for that one. *)
LEMMA OneStation ==
  ASSUME IInv, NEW s \in Station,
         btx' \in [Station -> BurstTx], Missing(btx'[s]),
         \A t \in Station \ {s} : btx'[t] = btx[t],
         caps' \in [Station -> Handshake],
         \A t \in Station \ {s} : caps'[t] = caps[t] /\ await'[t] = await[t],
         caps'[s].inflight => await'[s]
  PROVE  WindowInv' /\ InflightAwaited'
<1>1. WindowInv'
  BY DEF IInv, WindowInv, Missing, AllAcked, Candidates
<1>2. InflightAwaited'
  BY DEF IInv, InflightAwaited
<1> QED
  BY <1>1, <1>2

(* A poll that sends the bitmap.                                           *)
LEMMA BurstAckStep ==
  ASSUME IInv, NEW s \in Station, SendBurstAck(s), ~await[s],
         UNCHANGED <<inVars, submitted>>
  PROVE  IInv'
<1>1. brx[s] \in BurstRx /\ seq[s] \in 0..3 /\ Peer(s) \in Station
  BY Names DEF IInv, Typed, TypeOK
<1>2. air' \in Framed
  BY <1>1 DEF SendBurstAck, Framed, BurstRx, Index
<1>3. brx' \in [Station -> BurstRx]
  <2>1. [brx[s] EXCEPT !.ack_due = FALSE] \in BurstRx
    BY <1>1 DEF BurstRx
  <2> QED
    BY <2>1 DEF SendBurstAck, IInv, Typed, TypeOK
<1>4. AirType'
  BY <1>2 DEF SendBurstAck, IInv, Typed, AirType
<1>5. MsgType'
  BY DEF SendBurstAck, IInv, Typed, MsgType, msgVars
<1>6. TypeOK'
  BY <1>3 DEF SendBurstAck, IInv, Typed, TypeOK, msgVars, inVars
<1>7. /\ btx' = btx /\ caps' = caps /\ ~caps[s].inflight
      /\ \A t \in Station \ {s} : await'[t] = await[t]
  BY DEF SendBurstAck, IInv, InflightAwaited, Typed, AirType
<1>8. Missing(btx'[s])
  BY <1>7 DEF IInv, WindowInv
<1>9. WindowInv' /\ InflightAwaited'
  BY <1>7, <1>8, OneStation DEF IInv, Typed, TypeOK
<1> QED
  BY <1>4, <1>5, <1>6, <1>9 DEF IInv, Typed

(* A poll that sends a CAPS frame.                                         *)
LEMMA CapsStep ==
  ASSUME IInv, NEW s \in Station, SendCaps(s), ~await[s],
         UNCHANGED <<inVars, submitted>>
  PROVE  IInv'
<1>1. PICK p \in Probes(s) :
        /\ seq' = [seq EXCEPT ![s] = NextSeq(s)]
        /\ air' = [to |-> Peer(s), kind |-> "caps", seq |-> NextSeq(s),
                   ack |-> SW!AckField(s), reply |-> p.caps.reply_due]
        /\ caps' = [caps EXCEPT ![s] = Told(p.caps, NextSeq(s))]
  BY DEF SendCaps
<1>2. /\ await' = [await EXCEPT ![s] = TRUE]
      /\ reply_due' = [reply_due EXCEPT ![s] = FALSE]
      /\ UNCHANGED <<queue, cur, pending, btx, brx>>
  BY DEF SendCaps
<1>3. p.caps \in Handshake
  BY ProbesType DEF IInv
<1>4. NextSeq(s) \in 0..3
  <2>1. seq[s] \in 0..3
    BY DEF IInv, Typed, TypeOK
  <2> QED
    BY <2>1 DEF NextSeq
<1>5. Told(p.caps, NextSeq(s)) \in Handshake
  <2> DEFINE c == p.caps
             n == NextSeq(s)
  <2> HIDE DEF c, n
  <2>1. c \in Handshake /\ n \in 0..3
    BY <1>3, <1>4 DEF c, n
  <2>2. Told(c, n) \in Handshake
    BY <2>1 DEF Told, Handshake
  <2> QED
    BY <2>2 DEF c, n
<1>6. caps' \in [Station -> Handshake]
      /\ \A t \in Station \ {s} : caps'[t] = caps[t]
  BY <1>1, <1>5 DEF IInv, Typed, TypeOK
<1>7. p.caps.reply_due \in BOOLEAN
  BY <1>3 DEF Handshake
<1>8. air' \in Framed
  <2>1. SW!AckField(s) \in 0..3 /\ Peer(s) \in Station
    BY FrameType, Names DEF IInv
  <2> QED
    BY <1>1, <1>4, <1>7, <2>1 DEF Framed
<1>9. AirType'
  BY <1>2, <1>8 DEF IInv, Typed, AirType
<1>10. MsgType'
  BY <1>2 DEF IInv, Typed, MsgType
<1>11. TypeOK'
  <2>1. seq' \in [Station -> 0..3]
    BY <1>1, <1>4 DEF IInv, Typed, TypeOK
  <2> QED
    BY <1>2, <1>6, <2>1 DEF IInv, Typed, TypeOK, inVars
<1>12. /\ btx' = btx /\ await'[s]
       /\ \A t \in Station \ {s} : await'[t] = await[t]
  BY <1>2 DEF IInv, Typed, AirType
<1>13. Missing(btx'[s])
  BY <1>12 DEF IInv, WindowInv
<1>14. WindowInv' /\ InflightAwaited'
  BY <1>6, <1>12, <1>13, OneStation DEF IInv, Typed, TypeOK
<1> QED
  BY <1>9, <1>10, <1>11, <1>14 DEF IInv, Typed

(* What a poll that sends a message, or nothing, makes of the bursts, the  *)
(* messages and the channel.                                               *)
LEMMA DropType ==
  ASSUME Typed, NEW s \in Station, NEW r \in Rungs, NEW b \in BurstTx,
         DropBurst(s, r, b)
  PROVE  /\ btx' \in [Station -> BurstTx] /\ Missing(btx'[s])
         /\ \A t \in Station \ {s} : btx'[t] = btx[t]
         /\ MsgType' /\ air' = air /\ await' = await /\ seq' = seq
         /\ reply_due' = reply_due
<1>1. /\ btx' = [btx EXCEPT ![s] = Disengaged(b.id)]
      /\ UNCHANGED <<msgVars, await, reply_due, air>>
  BY DEF DropBurst
<1>2. Disengaged(b.id) \in BurstTx /\ Missing(Disengaged(b.id))
  BY DisengagedType
<1> QED
  BY <1>1, <1>2 DEF Typed, TypeOK, MsgType, msgVars

LEMMA LegacyType ==
  ASSUME Typed, NEW s \in Station, NEW r \in Rungs, NEW b \in BurstTx,
         Missing(b), SendLegacy(s, r, b)
  PROVE  /\ btx' \in [Station -> BurstTx] /\ Missing(btx'[s])
         /\ \A t \in Station \ {s} : btx'[t] = btx[t]
         /\ MsgType' /\ air' \in Framed \cup {None}
         /\ await' \in [Station -> BOOLEAN] /\ seq' \in [Station -> 0..3]
         /\ reply_due' \in [Station -> BOOLEAN]
<1> DEFINE kept == Refragged(b, r)
<1>1. kept \in BurstTx /\ Missing(kept)
  BY DisengagedType DEF Refragged
<1>2. btx' = [btx EXCEPT ![s] = kept]
  BY DEF SendLegacy
<1> HIDE DEF kept
<1>3. /\ btx' \in [Station -> BurstTx] /\ Missing(btx'[s])
      /\ \A t \in Station \ {s} : btx'[t] = btx[t]
  BY <1>1, <1>2 DEF Typed, TypeOK
<1>4. CASE /\ SW!SendPending(s) \/ SW!SendNew(s) \/ SW!SendAck(s)
           /\ reply_due' = [reply_due EXCEPT ![s] = FALSE]
  <2>1. reply_due' \in [Station -> BOOLEAN]
    BY <1>4 DEF Typed, AirType
  <2> QED
    BY <1>3, <1>4, <2>1, LegacySends
<1>5. CASE UNCHANGED <<msgVars, await, reply_due, air>>
  BY <1>3, <1>5 DEF Typed, TypeOK, MsgType, AirType, msgVars
<1> QED
  BY <1>4, <1>5 DEF SendLegacy

(* The timers of the others are not touched.                               *)
LEMMA AwaitOfOthers ==
  ASSUME Typed, NEW s \in Station, NEW r \in Rungs, NEW b,
         SendBurstFrag(s, r, b) \/ DropBurst(s, r, b) \/ SendLegacy(s, r, b)
  PROVE  /\ \A t \in Station \ {s} : await'[t] = await[t]
         /\ reply_due' \in [Station -> BOOLEAN]
<1>1. CASE SendBurstFrag(s, r, b)
  BY <1>1 DEF SendBurstFrag, Typed, AirType
<1>2. CASE DropBurst(s, r, b)
  BY <1>2 DEF DropBurst, Typed, AirType
<1>3. CASE SendLegacy(s, r, b)
  BY <1>3 DEF SendLegacy, SW!SendPending, SW!SendNew, SW!SendAck, Typed,
              AirType
<1> QED
  BY <1>1, <1>2, <1>3

LEMMA MessageStep ==
  ASSUME IInv, NEW s \in Station, SendMessage(s), ~await[s],
         UNCHANGED <<inVars, submitted>>
  PROVE  IInv'
<1>1. PICK p \in Probes(s), r \in Rungs : \E b \in BurstAt(s, r) :
        /\ caps' = [caps EXCEPT ![s] = [p.caps EXCEPT !.kick = FALSE]]
        /\ \/ SendBurstFrag(s, r, b)
           \/ DropBurst(s, r, b)
           \/ SendLegacy(s, r, b)
  BY DEF SendMessage
<1>2. PICK b \in BurstAt(s, r) :
        /\ caps' = [caps EXCEPT ![s] = [p.caps EXCEPT !.kick = FALSE]]
        /\ \/ SendBurstFrag(s, r, b)
           \/ DropBurst(s, r, b)
           \/ SendLegacy(s, r, b)
  BY <1>1
<1>3. Typed /\ b \in BurstTx /\ Missing(b)
  BY BurstAtType DEF IInv
<1>4. /\ btx' \in [Station -> BurstTx] /\ Missing(btx'[s])
      /\ \A t \in Station \ {s} : btx'[t] = btx[t]
      /\ MsgType' /\ air' \in Framed \cup {None}
      /\ await' \in [Station -> BOOLEAN] /\ seq' \in [Station -> 0..3]
  <2>1. CASE SendBurstFrag(s, r, b)
    BY <2>1, <1>3, SendBurstType DEF Typed, TypeOK
  <2>2. CASE DropBurst(s, r, b)
    BY <2>2, <1>3, DropType DEF Typed, TypeOK, AirType
  <2>3. CASE SendLegacy(s, r, b)
    BY <2>3, <1>3, LegacyType
  <2> QED
    BY <1>2, <2>1, <2>2, <2>3
<1>5. /\ \A t \in Station \ {s} : await'[t] = await[t]
      /\ reply_due' \in [Station -> BOOLEAN]
  BY <1>2, <1>3, AwaitOfOthers
<1>6. p.caps \in Handshake /\ ~p.caps.inflight
  BY ProbesType DEF IInv, InflightAwaited
<1>7. /\ [p.caps EXCEPT !.kick = FALSE] \in Handshake
      /\ ~[p.caps EXCEPT !.kick = FALSE].inflight
  BY <1>6 DEF Handshake
<1>8. /\ caps' \in [Station -> Handshake] /\ ~caps'[s].inflight
      /\ \A t \in Station \ {s} : caps'[t] = caps[t]
  BY <1>2, <1>7 DEF IInv, Typed, TypeOK
<1>9. TypeOK'
  <2>1. brx' = brx
    BY DEF SendMessage
  <2> QED
    BY <1>4, <1>8, <2>1 DEF IInv, Typed, TypeOK, inVars
<1>10. AirType'
  BY <1>4, <1>5 DEF AirType
<1>11. WindowInv' /\ InflightAwaited'
  BY <1>4, <1>5, <1>8, OneStation
<1> QED
  BY <1>4, <1>9, <1>10, <1>11 DEF IInv, Typed

LEMMA PollStep ==
  ASSUME IInv, NEW s \in Station, Poll(s)
  PROVE  IInv'
  BY BurstAckStep, CapsStep, MessageStep DEF Poll

(* The timer of an unanswered frame.                                       *)
LEMMA TimeoutStep ==
  ASSUME IInv, NEW s \in Station, Timeout(s)
  PROVE  IInv'
<1> DEFINE c == caps[s]
           b == btx[s]
           tried == IF c.tries < CapsTries THEN c.tries + 1 ELSE c.tries
           d == IF c.inflight
                THEN [c EXCEPT !.inflight = FALSE, !.tries = tried,
                               !.paced = TRUE]
                ELSE c
           a == IF b.active THEN Probe(b) ELSE b
<1>1. /\ await' = [await EXCEPT ![s] = FALSE]
      /\ caps' = [caps EXCEPT ![s] = d] /\ btx' = [btx EXCEPT ![s] = a]
      /\ UNCHANGED <<msgVars, inVars, reply_due, air, brx>>
  BY DEF Timeout
<1>2. c \in Handshake /\ b \in BurstTx /\ Missing(b)
  BY DEF IInv, Typed, TypeOK, WindowInv
<1> HIDE DEF c, b
<1>3. tried \in 0..CapsTries
  BY <1>2, StationAssumption DEF Handshake
<1> HIDE DEF tried
<1>4. d \in Handshake /\ ~d.inflight
  BY <1>2, <1>3 DEF Handshake
<1>5. Probe(b) \in BurstTx /\ Probe(b).active = b.active
      /\ Probe(b).n = b.n /\ Probe(b).acked = b.acked /\ Probe(b).sent = {}
  BY <1>2 DEF Probe, BurstTx
<1>6. Missing(Probe(b))
  <2> SUFFICES ASSUME b.active
               PROVE  /\ ~AllAcked(Probe(b), b.acked)
                      /\ Candidates(Probe(b)) # {}
    BY <1>5 DEF Missing
  <2>1. PICK i \in 0..b.n - 1 : i \notin b.acked
    BY <1>2 DEF Missing, AllAcked
  <2>2. i \in Candidates(Probe(b))
    BY <1>5, <2>1 DEF Candidates
  <2> QED
    BY <1>5, <2>1, <2>2 DEF AllAcked
<1>7. a \in BurstTx /\ Missing(a)
  BY <1>2, <1>5, <1>6
<1> HIDE DEF a, d
<1>8. /\ btx' \in [Station -> BurstTx] /\ btx'[s] = a
      /\ caps' \in [Station -> Handshake] /\ caps'[s] = d
      /\ \A t \in Station \ {s} :
           btx'[t] = btx[t] /\ caps'[t] = caps[t] /\ await'[t] = await[t]
  BY <1>1, <1>4, <1>7 DEF IInv, Typed, TypeOK, AirType
<1>9. TypeOK'
  BY <1>1, <1>8 DEF IInv, Typed, TypeOK, msgVars, inVars
<1>10. MsgType' /\ AirType'
  BY <1>1 DEF IInv, Typed, MsgType, AirType, msgVars
<1>11. WindowInv' /\ InflightAwaited'
  BY <1>4, <1>7, <1>8, OneStation
<1> QED
  BY <1>9, <1>10, <1>11 DEF IInv, Typed

(* Units laid over a buffer, where it reaches, leave a buffer.             *)
LEMMA OverlayType ==
  ASSUME NEW buffer \in [1..AsmMax -> Unit \cup {None}], NEW at \in Nat,
         NEW units \in Seq(Unit)
  PROVE  Overlay(buffer, at, units) \in [1..AsmMax -> Unit \cup {None}]
<1>1. AsmMax \in Nat
  BY StationAssumption
<1>2. ASSUME NEW i \in 1..AsmMax, i \in at + 1..at + Len(units)
      PROVE  units[i - at] \in Unit
  <2>1. Len(units) \in Nat
    OBVIOUS
  <2>2. i - at \in 1..Len(units)
    BY <1>1, <1>2, <2>1
  <2> QED
    BY <2>2
<1> QED
  BY <1>2 DEF Overlay

(* The frames, told apart by their kind.                                   *)
LEMMA KindOf ==
  ASSUME NEW f \in Framed
  PROVE  /\ f.to \in Station
         /\ f.kind = "data" => /\ f.seq \in 0..3 /\ f.stream \in SW!Stream
                               /\ f.chunk \in Seq(Unit) /\ f.last \in BOOLEAN
         /\ f.kind = "caps" => f.seq \in 0..3 /\ f.reply \in BOOLEAN
         /\ f.kind = "burst_ack" => f.ack \in 0..3 /\ f.have \in SUBSET Index
         /\ f.kind = "burst" =>
              /\ f.id \in 0..3 /\ f.idx \in Index /\ f.n \in 0..MaxFrags
              /\ f.frag_size \in Nat /\ f.ack_req \in BOOLEAN
              /\ f.chunk \in Seq(Unit)
  BY Names DEF Framed, SW!Frame

(* The outstanding fragment retired, or not.                               *)
LEMMA RetireType ==
  ASSUME Typed, NEW s \in Station, NEW f
  PROVE  /\ SW!RetiredCur(s, f) \in [SW!Stream -> SW!Open \cup {SW!Nothing}]
         /\ RetirePending(s, f) =>
              pending' \in [Station -> SW!Fragment \cup {SW!NoFragment}]
<1> DEFINE p == pending[s]
           c == cur[s][p.stream]
           o == [msg |-> c.msg, off |-> c.off + Len(p.chunk)]
<1>1. /\ p \in SW!Fragment \cup {SW!NoFragment}
      /\ cur[s] \in [SW!Stream -> SW!Open \cup {SW!Nothing}]
  BY DEF Typed, MsgType
<1>2. CASE ~SW!Retires(s, f) \/ c = SW!Nothing
  <2>1. SW!RetiredCur(s, f) = cur[s]
    BY <1>2 DEF SW!RetiredCur
  <2> QED
    BY <1>1, <2>1 DEF RetirePending, Typed, MsgType
<1>3. CASE SW!Retires(s, f) /\ c # SW!Nothing
  <2>1. p \in SW!Fragment
    BY <1>1, <1>3 DEF SW!Retires, SW!NoFragment
  <2>2. p.stream \in SW!Stream /\ p.chunk \in Seq(SW!Unit)
    BY <2>1 DEF SW!Fragment
  <2>3. c \in SW!Open
    BY <1>1, <1>3, <2>2
  <2>4. o \in SW!Open
    <3>1. c.msg \in Messages /\ c.off \in Nat /\ Len(p.chunk) \in Nat
      BY <2>2, <2>3 DEF SW!Open
    <3> HIDE DEF c, p
    <3> QED
      BY <3>1 DEF SW!Open
  <2>5. SW!RetiredCur(s, f) =
          [cur[s] EXCEPT ![p.stream] = IF p.last THEN SW!Nothing ELSE o]
    BY <1>3 DEF SW!RetiredCur
  <2> HIDE DEF o
  <2> QED
    BY <1>1, <2>4, <2>5 DEF RetirePending, Typed, MsgType
<1> QED
  BY <1>2, <1>3

(* Whatever came, the sender's side of a station stays typed.              *)
LEMMA RetireStep ==
  ASSUME Typed, NEW s \in Station, NEW f, SW!Retire(s, f), UNCHANGED queue
  PROVE  MsgType'
<1>1. /\ RetirePending(s, f)
      /\ cur' = [cur EXCEPT ![s] = SW!RetiredCur(s, f)]
  BY DEF SW!Retire, RetirePending
<1> QED
  BY <1>1, RetireType DEF Typed, MsgType

(* What hearing a frame, and storing a record, make of the handshake.      *)
LEMMA HeardType ==
  ASSUME Typed, NEW s \in Station, NEW f
  PROVE  /\ Heard(s, f) \in Handshake /\ ~Heard(s, f).inflight
         /\ f.reply \in BOOLEAN => /\ Stored(Heard(s, f), f) \in Handshake
                                   /\ ~Stored(Heard(s, f), f).inflight
<1> DEFINE h == Heard(s, f)
<1>1. caps[s] \in Handshake
  BY DEF Typed, TypeOK
<1>2. h \in Handshake /\ ~h.inflight
  BY <1>1 DEF Heard, Handshake
<1>3. 0 \in 0..CapsTries
  BY StationAssumption
<1> HIDE DEF h
<1>4. f.reply \in BOOLEAN => Stored(h, f) \in Handshake
  BY <1>2, <1>3 DEF Stored, Handshake
<1>5. ~Stored(h, f).inflight
  BY <1>2 DEF Stored, Handshake
<1> QED
  BY <1>2, <1>4, <1>5 DEF h

(* What a frame may make of the rest of a station.                         *)
BuffersKept ==
  /\ asm' \in [Station -> [SW!Stream -> [1..AsmMax -> Unit \cup {None}]]]
  /\ asm_len' \in [Station -> [SW!Stream -> 0..AsmMax]]
  /\ brx' \in [Station -> BurstRx]
  /\ last_rx_seq' \in [Station -> -1..3]
  /\ delivered_n' \in [Station -> 0..DeliveredMax]
  /\ reply_due' \in [Station -> BOOLEAN]
HandshakeKept(s) ==
  /\ caps' \in [Station -> Handshake] /\ ~caps'[s].inflight
  /\ \A t \in Station \ {s} : caps'[t] = caps[t]
BurstKept(s) ==
  /\ btx' \in [Station -> BurstTx] /\ Missing(btx'[s])
  /\ \A t \in Station \ {s} : btx'[t] = btx[t]

LEMMA ReceiveCapsType ==
  ASSUME IInv, NEW s \in Station, NEW f \in Framed, ReceiveCaps(s, f),
         UNCHANGED queue
  PROVE  BuffersKept /\ HandshakeKept(s) /\ BurstKept(s) /\ MsgType'
<1>1. f.seq \in 0..3 /\ f.reply \in BOOLEAN
  BY KindOf DEF ReceiveCaps
<1>2. /\ Stored(Heard(s, f), f) \in Handshake
      /\ ~Stored(Heard(s, f), f).inflight
  BY <1>1, HeardType DEF IInv
<1>3. HandshakeKept(s)
  BY <1>2 DEF ReceiveCaps, HandshakeKept, IInv, Typed, TypeOK
<1>4. BurstKept(s)
  BY DEF ReceiveCaps, BurstKept, IInv, WindowInv, Typed, TypeOK
<1>5. BuffersKept
  BY <1>1 DEF ReceiveCaps, BuffersKept, IInv, Typed, TypeOK, AirType
<1>6. MsgType'
  BY RetireStep DEF ReceiveCaps, IInv
<1> QED
  BY <1>3, <1>4, <1>5, <1>6

LEMMA ReceiveBurstAckType ==
  ASSUME IInv, NEW s \in Station, NEW f \in Framed, ReceiveBurstAck(s, f),
         UNCHANGED queue
  PROVE  BuffersKept /\ HandshakeKept(s) /\ BurstKept(s) /\ MsgType'
<1> DEFINE b == btx[s]
           acked == b.acked \cup f.have
           mine == b.active /\ f.ack = b.id
           all == AllAcked(b, acked)
           after == SW!RetiredCur(s, f)
           next == [b EXCEPT !.acked = acked, !.sent = {},
                             !.window_left = b.win]
           a == CASE mine /\ all -> Disengaged(b.id)
                  [] mine /\ ~all -> next
                  [] OTHER -> b
           open == IF mine /\ all THEN [after EXCEPT !["bulk"] = SW!Nothing]
                   ELSE after
<1>1. /\ f.kind = "burst_ack" /\ RetirePending(s, f)
      /\ btx' = [btx EXCEPT ![s] = a] /\ cur' = [cur EXCEPT ![s] = open]
      /\ caps' = [caps EXCEPT ![s] = Heard(s, f)]
      /\ UNCHANGED <<inVars, reply_due, brx>>
  BY DEF ReceiveBurstAck
<1>2. f.have \in SUBSET Index
  BY <1>1, KindOf
<1>3. b \in BurstTx /\ Missing(b)
  BY DEF IInv, Typed, TypeOK, WindowInv
<1>4. after \in [SW!Stream -> SW!Open \cup {SW!Nothing}]
  BY RetireType DEF IInv
<1> HIDE DEF after, b
<1>5. open \in [SW!Stream -> SW!Open \cup {SW!Nothing}]
  BY <1>4
<1> HIDE DEF open
<1>6. acked \in SUBSET Index
  BY <1>2, <1>3 DEF BurstTx, Index
<1> HIDE DEF acked
<1>7. next \in BurstTx
  BY <1>3, <1>6 DEF BurstTx, Index
<1>8. /\ next.active = b.active /\ next.n = b.n /\ next.acked = acked
      /\ next.sent = {}
  BY <1>3 DEF BurstTx
<1>9. ~all => Missing(next)
  <2> SUFFICES ASSUME ~all PROVE Missing(next)
    OBVIOUS
  <2>1. PICK i \in 0..b.n - 1 : i \notin acked
    BY DEF AllAcked
  <2>2. i \in Candidates(next)
    BY <1>8, <2>1 DEF Candidates
  <2> QED
    BY <1>8, <2>1, <2>2 DEF Missing, AllAcked
<1> HIDE DEF next
<1>10. a \in BurstTx /\ Missing(a)
  <2>1. CASE mine /\ all
    BY <2>1, <1>3, DisengagedType
  <2>2. CASE mine /\ ~all
    BY <2>2, <1>7, <1>9
  <2>3. CASE ~mine
    BY <2>3, <1>3
  <2> QED
    BY <2>1, <2>2, <2>3
<1> HIDE DEF a
<1>11. BurstKept(s)
  BY <1>1, <1>10 DEF BurstKept, IInv, Typed, TypeOK
<1>12. Heard(s, f) \in Handshake /\ ~Heard(s, f).inflight
  BY HeardType DEF IInv
<1>13. HandshakeKept(s)
  BY <1>1, <1>12 DEF HandshakeKept, IInv, Typed, TypeOK
<1>14. BuffersKept
  BY <1>1 DEF BuffersKept, IInv, Typed, TypeOK, AirType, inVars
<1>15. MsgType'
  BY <1>1, <1>5, RetireType DEF IInv, Typed, MsgType
<1> QED
  BY <1>11, <1>13, <1>14, <1>15

LEMMA ReceiveNoDataType ==
  ASSUME IInv, NEW s \in Station, NEW f \in Framed, ReceiveNoData(s, f),
         UNCHANGED queue
  PROVE  BuffersKept /\ HandshakeKept(s) /\ BurstKept(s) /\ MsgType'
<1>1. Heard(s, f) \in Handshake /\ ~Heard(s, f).inflight
  BY HeardType DEF IInv
<1>2. HandshakeKept(s)
  BY <1>1 DEF ReceiveNoData, HandshakeKept, IInv, Typed, TypeOK
<1>3. BurstKept(s)
  BY DEF ReceiveNoData, BurstKept, IInv, WindowInv, Typed, TypeOK
<1>4. BuffersKept
  BY DEF ReceiveNoData, BuffersKept, IInv, Typed, TypeOK, AirType, inVars
<1>5. MsgType'
  BY RetireStep DEF ReceiveNoData, IInv
<1> QED
  BY <1>2, <1>3, <1>4, <1>5

(* A fragment of a burst keeps to the bitmap, the buffer and the log.      *)
LEMMA ReceiveBurstType ==
  ASSUME IInv, NEW s \in Station, NEW f \in Framed, ReceiveBurst(s, f),
         UNCHANGED queue
  PROVE  BuffersKept /\ HandshakeKept(s) /\ BurstKept(s) /\ MsgType'
<1> DEFINE at == f.idx * f.frag_size
           b == Transfer(s, f)
           fits == at + Len(f.chunk) <= AsmMax
           have == IF fits THEN b.have \cup {f.idx} ELSE b.have
           last_len == IF fits /\ f.idx = f.n - 1 THEN Len(f.chunk)
                       ELSE b.last_len
           buffer == IF fits THEN Overlay(asm[s]["bulk"], at, f.chunk)
                     ELSE asm[s]["bulk"]
           len == (f.n - 1) * f.frag_size + last_len
           complete == ~b.done /\ last_len > 0 /\ have = 0..f.n - 1
           stored == complete /\ HasRoom(s, len)
           refused == complete /\ ~HasRoom(s, len)
           held == IF refused THEN GivenBack(have, f) ELSE have
           due == b.ack_due \/ f.ack_req \/ refused
           a == [b EXCEPT !.have = held, !.last_len = last_len,
                          !.ack_due = due, !.done = @ \/ stored]
<1>1. /\ f.kind = "burst" /\ SW!Retire(s, f)
      /\ asm' = [asm EXCEPT ![s]["bulk"] = buffer]
      /\ brx' = [brx EXCEPT ![s] =
                   [b EXCEPT !.have = IF refused THEN GivenBack(have, f)
                                      ELSE have,
                             !.last_len = last_len,
                             !.ack_due = @ \/ f.ack_req \/ refused,
                             !.done = @ \/ stored]]
      /\ delivered_n' =
           [delivered_n EXCEPT ![s] = IF stored THEN @ + 1 ELSE @]
      /\ caps' = [caps EXCEPT ![s] = Heard(s, f)]
      /\ UNCHANGED <<last_rx_seq, asm_len, reply_due, btx>>
  BY DEF ReceiveBurst
<1>2. /\ f.id \in 0..3 /\ f.idx \in Index /\ f.n \in 0..MaxFrags
      /\ f.frag_size \in Nat /\ f.ack_req \in BOOLEAN
      /\ f.chunk \in Seq(Unit) /\ Len(f.chunk) \in Nat
  BY <1>1, KindOf
<1>3. b \in BurstRx
  <2>1. brx[s] \in BurstRx
    BY DEF IInv, Typed, TypeOK
  <2>2. NoTransfer \in BurstRx
    BY StationAssumption DEF NoTransfer, BurstRx
  <2>3. [NoTransfer EXCEPT !.active = TRUE, !.id = f.id, !.n = f.n,
                           !.frag_size = f.frag_size] \in BurstRx
    BY <1>2, <2>2 DEF BurstRx
  <2> QED
    BY <2>1, <2>3 DEF Transfer
<1>4. at \in Nat
  BY <1>2 DEF Index
<1>5. buffer \in [1..AsmMax -> Unit \cup {None}]
  <2>1. asm[s]["bulk"] \in [1..AsmMax -> Unit \cup {None}]
    BY Names DEF IInv, Typed, TypeOK
  <2> HIDE DEF at
  <2> QED
    BY <1>2, <1>4, <2>1, OverlayType
<1> HIDE DEF at, b, buffer, fits
<1>6. have \in SUBSET Index /\ last_len \in Nat
  BY <1>2, <1>3 DEF BurstRx, Index
<1>7. complete \in BOOLEAN /\ stored \in BOOLEAN /\ refused \in BOOLEAN
  BY <1>3 DEF BurstRx
<1> HIDE DEF have, last_len, len, complete
<1>8. held \in SUBSET Index
  BY <1>6 DEF GivenBack
<1>9. due \in BOOLEAN
  BY <1>2, <1>3, <1>7 DEF BurstRx
<1>10. stored => delivered_n[s] < DeliveredMax
  BY DEF HasRoom
<1>11. brx' = [brx EXCEPT ![s] = a]
  BY <1>1
<1> HIDE DEF stored, refused, held, due
<1>12. a \in BurstRx
  BY <1>3, <1>6, <1>7, <1>8, <1>9 DEF BurstRx, Index
<1> HIDE DEF a
<1>13. brx' \in [Station -> BurstRx]
  BY <1>11, <1>12 DEF IInv, Typed, TypeOK
<1>14. asm' \in [Station -> [SW!Stream -> [1..AsmMax -> Unit \cup {None}]]]
  <2>1. asm[s] \in [SW!Stream -> [1..AsmMax -> Unit \cup {None}]]
    BY DEF IInv, Typed, TypeOK
  <2>2. [asm[s] EXCEPT !["bulk"] = buffer] \in
          [SW!Stream -> [1..AsmMax -> Unit \cup {None}]]
    BY <1>5, <2>1
  <2>3. asm' = [asm EXCEPT ![s] = [asm[s] EXCEPT !["bulk"] = buffer]]
    BY <1>1 DEF IInv, Typed, TypeOK
  <2> QED
    BY <2>2, <2>3 DEF IInv, Typed, TypeOK
<1>15. delivered_n' \in [Station -> 0..DeliveredMax]
  <2>1. delivered_n[s] \in 0..DeliveredMax
    BY DEF IInv, Typed, TypeOK
  <2>2. (IF stored THEN delivered_n[s] + 1 ELSE delivered_n[s])
          \in 0..DeliveredMax
    BY <1>10, <2>1, StationAssumption
  <2> QED
    BY <1>1, <2>2 DEF IInv, Typed, TypeOK
<1>16. BuffersKept
  BY <1>1, <1>13, <1>14, <1>15 DEF BuffersKept, IInv, Typed, TypeOK, AirType
<1>17. Heard(s, f) \in Handshake /\ ~Heard(s, f).inflight
  BY HeardType DEF IInv
<1>18. HandshakeKept(s)
  BY <1>1, <1>17 DEF HandshakeKept, IInv, Typed, TypeOK
<1>19. BurstKept(s)
  BY <1>1 DEF BurstKept, IInv, WindowInv, Typed, TypeOK
<1>20. MsgType'
  BY <1>1, RetireStep DEF IInv
<1> QED
  BY <1>16, <1>18, <1>19, <1>20

(* A data frame keeps to the buffer of its stream and to the log.          *)
LEMMA AcceptType ==
  ASSUME IInv, NEW s \in Station, NEW f \in Framed, f.kind = "data",
         Accept(s, f)
  PROVE  /\ asm' \in [Station ->
                     [SW!Stream -> [1..AsmMax -> Unit \cup {None}]]]
         /\ asm_len' \in [Station -> [SW!Stream -> 0..AsmMax]]
         /\ delivered_n' \in [Station -> 0..DeliveredMax]
<1> DEFINE c == f.stream
           old == asm_len[s][c]
           room == AsmMax - old
           units == IF Len(f.chunk) <= room THEN f.chunk
                    ELSE SubSeq(f.chunk, 1, room)
           len == old + Len(units)
           buffer == Overlay(asm[s][c], old, units)
           kept == HasRoom(s, len)
           new == IF f.last THEN 0 ELSE len
<1>1. /\ asm' = [asm EXCEPT ![s][c] = buffer]
      /\ asm_len' = [asm_len EXCEPT ![s][c] = new]
      /\ delivered_n' =
           [delivered_n EXCEPT ![s] = IF f.last /\ kept THEN @ + 1 ELSE @]
  BY DEF Accept
<1>2. c \in SW!Stream /\ f.chunk \in Seq(Unit)
  BY KindOf
<1>3. /\ asm[s] \in [SW!Stream -> [1..AsmMax -> Unit \cup {None}]]
      /\ asm_len[s] \in [SW!Stream -> 0..AsmMax]
      /\ delivered_n[s] \in 0..DeliveredMax
  BY DEF IInv, Typed, TypeOK
<1>4. old \in 0..AsmMax /\ AsmMax \in Nat
  BY <1>2, <1>3, StationAssumption
<1> HIDE DEF c, old
<1>5. room \in Nat /\ old + room = AsmMax
  BY <1>4
<1> HIDE DEF room
<1>6. units \in Seq(Unit) /\ Len(units) \in 0..room
  <2>1. CASE Len(f.chunk) <= room
    BY <1>2, <1>5, <2>1
  <2>2. CASE ~ (Len(f.chunk) <= room)
    <3>1. Len(f.chunk) \in Nat
      BY <1>2
    <3>2. /\ SubSeq(f.chunk, 1, room) \in Seq(Unit)
          /\ Len(SubSeq(f.chunk, 1, room)) = room
      BY <1>2, <1>5, <2>2, <3>1, SubSeqProperties
    <3> QED
      BY <1>5, <2>2, <3>2
  <2> QED
    BY <2>1, <2>2
<1> HIDE DEF units
<1>7. buffer \in [1..AsmMax -> Unit \cup {None}]
  <2>1. asm[s][c] \in [1..AsmMax -> Unit \cup {None}]
    BY <1>2, <1>3
  <2> QED
    BY <1>4, <1>6, <2>1, OverlayType
<1>8. new \in 0..AsmMax
  BY <1>4, <1>5, <1>6
<1>9. kept => delivered_n[s] < DeliveredMax
  BY DEF HasRoom
<1> HIDE DEF buffer, new, kept
<1>10. asm' \in [Station -> [SW!Stream -> [1..AsmMax -> Unit \cup {None}]]]
  <2>1. [asm[s] EXCEPT ![c] = buffer]
          \in [SW!Stream -> [1..AsmMax -> Unit \cup {None}]]
    BY <1>3, <1>7
  <2>2. asm' = [asm EXCEPT ![s] = [asm[s] EXCEPT ![c] = buffer]]
    BY <1>1 DEF IInv, Typed, TypeOK
  <2> QED
    BY <2>1, <2>2 DEF IInv, Typed, TypeOK
<1>11. asm_len' \in [Station -> [SW!Stream -> 0..AsmMax]]
  <2>1. [asm_len[s] EXCEPT ![c] = new] \in [SW!Stream -> 0..AsmMax]
    BY <1>3, <1>8
  <2>2. asm_len' = [asm_len EXCEPT ![s] = [asm_len[s] EXCEPT ![c] = new]]
    BY <1>1 DEF IInv, Typed, TypeOK
  <2> QED
    BY <2>1, <2>2 DEF IInv, Typed, TypeOK
<1>12. delivered_n' \in [Station -> 0..DeliveredMax]
  <2>1. (IF f.last /\ kept THEN delivered_n[s] + 1 ELSE delivered_n[s])
          \in 0..DeliveredMax
    BY <1>3, <1>9, StationAssumption
  <2> QED
    BY <1>1, <2>1 DEF IInv, Typed, TypeOK
<1> QED
  BY <1>10, <1>11, <1>12

LEMMA ReceiveDataType ==
  ASSUME IInv, NEW s \in Station, NEW f \in Framed, ReceiveData(s, f),
         UNCHANGED queue
  PROVE  BuffersKept /\ HandshakeKept(s) /\ BurstKept(s) /\ MsgType'
<1>1. f.kind = "data" /\ SW!Retire(s, f) /\ f.seq \in 0..3
  BY KindOf DEF ReceiveData
<1>2. /\ asm' \in [Station -> [SW!Stream -> [1..AsmMax -> Unit \cup {None}]]]
      /\ asm_len' \in [Station -> [SW!Stream -> 0..AsmMax]]
      /\ delivered_n' \in [Station -> 0..DeliveredMax]
  <2>1. CASE Accept(s, f)
    BY <1>1, <2>1, AcceptType
  <2>2. CASE UNCHANGED <<asm, asm_len, delivered_n>>
    BY <2>2 DEF IInv, Typed, TypeOK
  <2> QED
    BY <2>1, <2>2 DEF ReceiveData
<1>3. BuffersKept
  <2>1. /\ last_rx_seq' = [last_rx_seq EXCEPT ![s] = f.seq]
        /\ reply_due' = [reply_due EXCEPT ![s] = TRUE]
        /\ UNCHANGED brx
    BY DEF ReceiveData
  <2>2. /\ last_rx_seq' \in [Station -> -1..3]
        /\ reply_due' \in [Station -> BOOLEAN]
        /\ brx' \in [Station -> BurstRx]
    BY <1>1, <2>1 DEF IInv, Typed, TypeOK, AirType
  <2> QED
    BY <1>2, <2>2 DEF BuffersKept
<1>4. Heard(s, f) \in Handshake /\ ~Heard(s, f).inflight
  BY HeardType DEF IInv
<1>5. HandshakeKept(s)
  BY <1>4 DEF ReceiveData, HandshakeKept, IInv, Typed, TypeOK
<1>6. BurstKept(s)
  BY DEF ReceiveData, BurstKept, IInv, WindowInv, Typed, TypeOK
<1>7. MsgType'
  BY <1>1, RetireStep DEF IInv
<1> QED
  BY <1>3, <1>5, <1>6, <1>7

LEMMA ReceiveStep ==
  ASSUME IInv, NEW s \in Station, Receive(s)
  PROVE  IInv'
<1>1. air \in Framed
  BY DEF Receive, IInv, Typed, AirType
<1>2. UNCHANGED queue
  BY DEF Receive
<1>3. BuffersKept /\ HandshakeKept(s) /\ BurstKept(s) /\ MsgType'
  <2>1. CASE ReceiveCaps(s, air)
    BY <1>1, <1>2, <2>1, ReceiveCapsType
  <2>2. CASE ReceiveBurstAck(s, air)
    BY <1>1, <1>2, <2>2, ReceiveBurstAckType
  <2>3. CASE ReceiveBurst(s, air)
    BY <1>1, <1>2, <2>3, ReceiveBurstType
  <2>4. CASE ReceiveData(s, air)
    BY <1>1, <1>2, <2>4, ReceiveDataType
  <2>5. CASE ReceiveNoData(s, air)
    BY <1>1, <1>2, <2>5, ReceiveNoDataType
  <2> QED
    BY <2>1, <2>2, <2>3, <2>4, <2>5 DEF Receive
<1>4. /\ await' = [await EXCEPT ![s] = FALSE] /\ air' = None /\ seq' = seq
  BY DEF Receive
<1>5. TypeOK'
  BY <1>3, <1>4 DEF BuffersKept, HandshakeKept, BurstKept, IInv, Typed, TypeOK
<1>6. AirType'
  BY <1>3, <1>4 DEF BuffersKept, IInv, Typed, AirType
<1>7. \A t \in Station \ {s} : await'[t] = await[t]
  BY <1>4 DEF IInv, Typed, AirType
<1>8. WindowInv' /\ InflightAwaited'
  BY <1>3, <1>7, OneStation DEF HandshakeKept, BurstKept
<1> QED
  BY <1>3, <1>5, <1>6, <1>8 DEF IInv, Typed

-----------------------------------------------------------------------------
(* What the host does.                                                     *)
LEMMA SubmitStep ==
  ASSUME IInv, NEW s \in Station, NEW m \in Messages, Submit(s, m)
  PROVE  IInv'
<1> DEFINE q == QosOf[m]
<1>1. /\ queue' = [queue EXCEPT ![s][q] = Append(@, m)]
      /\ UNCHANGED <<cur, pending, seq, last_rx_seq, reply_due, delivered_n,
                     await, air>>
      /\ UNCHANGED <<asm, asm_len, btx, brx, caps>>
  BY DEF Submit, SW!Submit, SW!rxVars
<1>2. q \in SW!Class
  BY StationAssumption, Names
<1>3. queue[s] \in [SW!Class -> Seq(Messages)]
  BY DEF IInv, Typed, MsgType
<1> HIDE DEF q
<1>4. [queue[s] EXCEPT ![q] = Append(queue[s][q], m)]
        \in [SW!Class -> Seq(Messages)]
  BY <1>2, <1>3
<1>5. queue' = [queue EXCEPT ![s] =
                  [queue[s] EXCEPT ![q] = Append(queue[s][q], m)]]
  BY <1>1 DEF IInv, Typed, MsgType
<1>6. MsgType'
  BY <1>1, <1>4, <1>5 DEF IInv, Typed, MsgType
<1>7. TypeOK' /\ AirType'
  BY <1>1 DEF IInv, Typed, TypeOK, AirType
<1>8. WindowInv' /\ InflightAwaited'
  BY <1>1 DEF IInv, WindowInv, Missing, AllAcked, Candidates, InflightAwaited
<1> QED
  BY <1>6, <1>7, <1>8 DEF IInv, Typed

LEMMA DrainStep ==
  ASSUME IInv, NEW s \in Station, Drain(s)
  PROVE  IInv'
<1>1. 0 \in 0..DeliveredMax
  BY StationAssumption
<1>2. TypeOK'
  BY <1>1 DEF Drain, IInv, Typed, TypeOK, msgVars
<1>3. MsgType' /\ AirType'
  BY DEF Drain, IInv, Typed, MsgType, AirType, msgVars
<1>4. WindowInv' /\ InflightAwaited'
  BY DEF Drain, IInv, WindowInv, Missing, AllAcked, Candidates,
         InflightAwaited
<1> QED
  BY <1>2, <1>3, <1>4 DEF IInv, Typed

LEMMA HostCapsStep ==
  ASSUME IInv, NEW s \in Station, PushCaps(s) \/ KickCaps(s)
  PROVE  IInv'
<1>1. caps[s] \in Handshake
  BY DEF IInv, Typed, TypeOK
<1>2. /\ [caps[s] EXCEPT !.reply_due = TRUE] \in Handshake
      /\ [caps[s] EXCEPT !.reply_due = TRUE].inflight = caps[s].inflight
      /\ [caps[s] EXCEPT !.kick = TRUE] \in Handshake
      /\ [caps[s] EXCEPT !.kick = TRUE].inflight = caps[s].inflight
  BY <1>1 DEF Handshake
<1>3. /\ \/ caps' = [caps EXCEPT ![s] = [caps[s] EXCEPT !.reply_due = TRUE]]
         \/ caps' = [caps EXCEPT ![s] = [caps[s] EXCEPT !.kick = TRUE]]
      /\ UNCHANGED <<msgVars, inVars, reply_due, await, air, btx, brx>>
  BY DEF PushCaps, KickCaps, IInv, Typed, TypeOK
<1>4. /\ caps' \in [Station -> Handshake]
      /\ \A t \in Station : caps'[t].inflight = caps[t].inflight
  BY <1>2, <1>3 DEF IInv, Typed, TypeOK
<1>5. TypeOK' /\ MsgType' /\ AirType'
  BY <1>3, <1>4 DEF IInv, Typed, TypeOK, MsgType, AirType, msgVars, inVars
<1>6. WindowInv' /\ InflightAwaited'
  BY <1>3, <1>4 DEF IInv, WindowInv, Missing, AllAcked, Candidates,
                    InflightAwaited
<1> QED
  BY <1>5, <1>6 DEF IInv, Typed

LEMMA LoseStep ==
  ASSUME IInv, Lose \/ UNCHANGED vars
  PROVE  IInv'
<1>1. /\ air' \in Framed \cup {None}
      /\ UNCHANGED <<msgVars, inVars, reply_due, await, btx, brx, caps>>
  BY DEF Lose, vars, IInv, Typed, AirType
<1>2. TypeOK' /\ MsgType' /\ AirType'
  BY <1>1 DEF IInv, Typed, TypeOK, MsgType, AirType, msgVars, inVars
<1>3. WindowInv' /\ InflightAwaited'
  BY <1>1 DEF IInv, WindowInv, Missing, AllAcked, Candidates, InflightAwaited
<1> QED
  BY <1>2, <1>3 DEF IInv, Typed

LEMMA InitInv == Init => IInv
<1> SUFFICES ASSUME Init PROVE IInv
  OBVIOUS
<1>1. /\ Disengaged(0) \in BurstTx /\ NoTransfer \in BurstRx
      /\ Stranger \in Handshake
  BY StationAssumption
     DEF Disengaged, NoTransfer, Stranger, BurstTx, BurstRx, Handshake
<1>2. 0 \in 0..DeliveredMax /\ 0 \in 0..AsmMax
  BY StationAssumption
<1>3. TypeOK
  BY <1>1, <1>2 DEF Init, TypeOK
<1>4. MsgType
  BY DEF Init, MsgType, SW!NoFragment, SW!Nothing
<1>5. AirType
  BY DEF Init, AirType
<1>6. WindowInv
  BY DEF Init, WindowInv, Missing, Disengaged
<1>7. InflightAwaited
  BY DEF Init, InflightAwaited, Stranger
<1> QED
  BY <1>3, <1>4, <1>5, <1>6, <1>7 DEF IInv, Typed

LEMMA InvStep == IInv /\ [Next]_vars => IInv'
<1> SUFFICES ASSUME IInv, [Next]_vars PROVE IInv'
  OBVIOUS
<1>1. ASSUME NEW s \in Station, NEW m \in Messages, Submit(s, m) PROVE IInv'
  BY <1>1, SubmitStep
<1>2. ASSUME NEW s \in Station, Drain(s) PROVE IInv'
  BY <1>2, DrainStep
<1>3. ASSUME NEW s \in Station, PushCaps(s) \/ KickCaps(s) PROVE IInv'
  BY <1>3, HostCapsStep
<1>4. ASSUME NEW s \in Station, Poll(s) PROVE IInv'
  BY <1>4, PollStep
<1>5. ASSUME NEW s \in Station, Timeout(s) PROVE IInv'
  BY <1>5, TimeoutStep
<1>6. ASSUME NEW s \in Station, Receive(s) PROVE IInv'
  BY <1>6, ReceiveStep
<1>7. CASE Lose \/ UNCHANGED vars
  BY <1>7, LoseStep
<1> QED
  BY <1>1, <1>2, <1>3, <1>4, <1>5, <1>6, <1>7 DEF Next

LEMMA InvAlways == Spec => []IInv
  BY InitInv, InvStep, PTL DEF Spec

(* The bursts, the handshake, the buffers and the numbers of both stations *)
(* keep to their arrays and their bits, whatever is lost and whenever the  *)
(* rung changes.                                                           *)
THEOREM TypeCorrect == Spec => []TypeOK
<1>1. IInv => TypeOK
  BY DEF IInv, Typed
<1> QED
  BY <1>1, InvAlways, PTL

(* A capability frame taken for unanswered always has its reply timer      *)
(* armed (station_poll_tx, station_on_decoded), for every set of messages, *)
(* rungs and limits.                                                       *)
THEOREM InflightAwaitedAlways == Spec => []InflightAwaited
<1>1. IInv => InflightAwaited
  BY DEF IInv
<1> QED
  BY <1>1, InvAlways, PTL

(* An open window always has a fragment to send: burst_take_fragment never *)
(* meets an exhausted one, at every window, message and fragment size.     *)
THEOREM WindowHasCandidateAlways == Spec => []WindowHasCandidate
<1>1. IInv => WindowHasCandidate
  BY DEF IInv, WindowInv, Missing, WindowHasCandidate
<1> QED
  BY <1>1, InvAlways, PTL


-----------------------------------------------------------------------------
(* The extensions switched off: no window of more than one fragment, no    *)
(* handshake, and buffers no smaller than a message may be (ST_MSG_MAX,    *)
(* ST_ASM_MAX).                                                            *)
SwitchedOff ==
  /\ BurstWindow < 2 /\ CapsStations = {}
  /\ MsgMax \in Nat /\ MsgMax <= AsmMax
Inert == \A s \in Station : ~btx[s].active /\ ~brx[s].ack_due

(* What is proved of StopAndWait is used of the station's own state.       *)
SWP == INSTANCE StopAndWaitProofs WITH assembly <- assembled
SWInv == /\ SWP!TypeOK /\ SWP!PendingOpen /\ SWP!Core /\ SWP!StreamInv
         /\ SWP!SizesFit

LEMMA SameNames ==
  /\ SWP!Station = Station /\ SW!Station = Station
  /\ SWP!Class = SW!Class /\ SWP!Stream = SW!Stream /\ SWP!Unit = Unit
  /\ SWP!Nothing = SW!Nothing /\ SWP!NoFragment = SW!NoFragment
  /\ \A s : SWP!Peer(s) = SW!Peer(s)
  /\ SWP!vars = SW!vars
  BY DEF SWP!Station, SW!Station, Station, SWP!Class, SW!Class, SWP!Stream,
         SW!Stream, SWP!Unit, Unit, SWP!Nothing, SW!Nothing, SWP!NoFragment,
         SW!NoFragment, SWP!Peer, SW!Peer, SWP!vars, SW!vars, SWP!txVars,
         SW!txVars, SWP!rxVars, SW!rxVars, SWP!history, SW!history,
         SWP!QOS_BULK, SW!QOS_BULK, SWP!QOS_CONTROL, SW!QOS_CONTROL,
         SWP!QOS_INTERACTIVE, SW!QOS_INTERACTIVE

LEMMA SameInit == SW!Init <=> SWP!Init
  BY SameNames DEF SW!Init, SWP!Init

LEMMA SameSubmit ==
  ASSUME NEW s, NEW m
  PROVE  SW!Submit(s, m) <=> SWP!Submit(s, m)
  BY DEF SW!Submit, SWP!Submit, SW!pool_used, SWP!pool_used, SW!outbound,
         SWP!outbound, SW!rxVars, SWP!rxVars, SW!Nothing, SWP!Nothing,
         SWP!QOS_BULK, SW!QOS_BULK, SWP!QOS_CONTROL, SW!QOS_CONTROL,
         SWP!QOS_INTERACTIVE, SW!QOS_INTERACTIVE
LEMMA SameTransmit ==
  ASSUME NEW s
  PROVE  SW!Transmit(s) <=> SWP!Transmit(s)
  BY DEF SW!Transmit, SWP!Transmit, SW!SendPending, SWP!SendPending,
         SW!SendNew, SWP!SendNew, SW!SendAck, SWP!SendAck, SW!DataFrame,
         SWP!DataFrame, SW!NoDataFrame, SWP!NoDataFrame, SW!Cut, SWP!Cut,
         SW!Units, SWP!Units, SW!OpenedCur, SWP!OpenedCur, SW!OpenedQueue,
         SWP!OpenedQueue, SW!Opened, SWP!Opened, SW!AckField, SWP!AckField,
         SW!owes_ack, SWP!owes_ack, SW!has_traffic, SWP!has_traffic,
         SW!StreamOf, SWP!StreamOf, SW!Peer, SWP!Peer, SW!txVars, SWP!txVars,
         SW!Nothing, SWP!Nothing, SWP!QOS_BULK, SW!QOS_BULK, SWP!QOS_CONTROL,
         SW!QOS_CONTROL, SWP!QOS_INTERACTIVE, SW!QOS_INTERACTIVE, SW!Class,
         SWP!Class, SW!Stream, SWP!Stream
LEMMA SameReceive ==
  ASSUME NEW s
  PROVE  SW!Receive(s) <=> SWP!Receive(s)
  BY DEF SW!Receive, SWP!Receive, SW!Retire, SWP!Retire, SW!Retires,
         SWP!Retires, SW!RetiredCur, SWP!RetiredCur, SW!ReceiveData,
         SWP!ReceiveData, SW!ReceiveNoData, SWP!ReceiveNoData, SW!Accept,
         SWP!Accept, SW!outbound, SWP!outbound, SW!rxVars, SWP!rxVars,
         SW!NoFragment, SWP!NoFragment, SW!Nothing, SWP!Nothing,
         SWP!QOS_BULK, SW!QOS_BULK, SWP!QOS_CONTROL, SW!QOS_CONTROL,
         SWP!QOS_INTERACTIVE, SW!QOS_INTERACTIVE
LEMMA SameNext == SW!Next <=> SWP!Next
<1>1. \A s : SW!Drain(s) <=> SWP!Drain(s)
  BY DEF SW!Drain, SWP!Drain, SW!txVars, SWP!txVars, SW!history, SWP!history
<1>2. \A s : SW!Timeout(s) <=> SWP!Timeout(s)
  BY DEF SW!Timeout, SWP!Timeout, SW!txVars, SWP!txVars, SW!rxVars,
         SWP!rxVars, SW!history, SWP!history
<1>3. SW!Lose <=> SWP!Lose
  BY DEF SW!Lose, SWP!Lose, SW!txVars, SWP!txVars, SW!rxVars, SWP!rxVars,
         SW!history, SWP!history
<1> QED
  BY <1>1, <1>2, <1>3, SameNames, SameSubmit, SameTransmit, SameReceive
     DEF SW!Next, SWP!Next

(* The prefix of a buffer, with units laid over what follows it.           *)
LEMMA OverlayAppends ==
  ASSUME NEW buffer \in [1..AsmMax -> Unit \cup {None}], NEW at \in Nat,
         NEW units \in Seq(Unit), at + Len(units) <= AsmMax
  PROVE  LET all == SubSeq(Overlay(buffer, at, units), 1, at + Len(units))
         IN  /\ all = SubSeq(buffer, 1, at) \o units
             /\ Len(all) = at + Len(units)
<1> DEFINE S == Unit \cup {None}
           old == SubSeq(buffer, 1, at)
           n == Len(units)
           over == Overlay(buffer, at, units)
           new == SubSeq(over, 1, at + n)
           both == old \o units
<1>1. AsmMax \in Nat /\ n \in Nat /\ at <= AsmMax
  BY StationAssumption
<1>2. old = [i \in 1..at |-> buffer[i]]
  BY <1>1
<1>3. new = [i \in 1..at + n |-> over[i]]
  BY <1>1
<1>4. old \in Seq(S) /\ Len(old) = at
  BY <1>1, <1>2
<1>5. over \in [1..AsmMax -> S]
  BY OverlayType
<1>6. \A i \in 1..at + n : over[i] = IF i <= at THEN buffer[i]
                                     ELSE units[i - at]
  BY <1>1 DEF Overlay
<1> HIDE DEF n, over
<1>7. new \in Seq(S) /\ Len(new) = at + n
  BY <1>1, <1>3, <1>5 DEF n
<1>8. units \in Seq(S)
  <2> HIDE DEF S
  <2> QED
    BY Unit \subseteq S DEF S
<1> HIDE DEF S, old, new
<1>9. /\ both \in Seq(S) /\ Len(both) = at + n
      /\ \A i \in 1..at + n : both[i] = IF i <= at THEN old[i]
                                         ELSE units[i - at]
  BY <1>1, <1>4, <1>8, ConcatProperties DEF n
<1>10. \A i \in 1..at + n : both[i] = new[i]
  BY <1>1, <1>2, <1>3, <1>6, <1>9
<1> HIDE DEF both
<1>11. new = both
  BY <1>7, <1>9, <1>10, SeqEqual
<1> QED
  BY <1>7, <1>11 DEF new, both, old, over, n

(* Where the buffers reach, a fragment joins the message being reassembled *)
(* as in StopAndWait.                                                      *)
LEMMA AcceptIs ==
  ASSUME IInv, NEW s \in Station, NEW f, f.stream \in SW!Stream,
         f.chunk \in Seq(Unit), asm_len[s][f.stream] + Len(f.chunk) <= AsmMax,
         SW!Stream = {"prio", "bulk"}, Accept(s, f)
  PROVE  SW!Accept(s, f)
<1> DEFINE c == f.stream
           old == asm_len[s][c]
           room == AsmMax - old
           clipped == IF Len(f.chunk) <= room THEN f.chunk
                      ELSE SubSeq(f.chunk, 1, room)
           len == old + Len(f.chunk)
           buffer == Overlay(asm[s][c], old, f.chunk)
           units == assembled[s][c] \o f.chunk
           kept == /\ delivered_n[s] < DeliveredMax
                   /\ Len(units) <= MsgMax
                   /\ SW!outbound(s, cur'[s]) + delivered_n[s] < PoolSlots
           buffer1 == Overlay(asm[s][c], old, clipped)
           len1 == old + Len(clipped)
<1>1. /\ asm_len[s] \in [SW!Stream -> 0..AsmMax]
      /\ asm[s] \in [SW!Stream -> [1..AsmMax -> Unit \cup {None}]]
      /\ AsmMax \in Nat
  BY StationAssumption DEF IInv, Typed, TypeOK
<1>2. /\ old \in 0..AsmMax /\ Len(f.chunk) \in Nat
      /\ old + Len(f.chunk) <= AsmMax
  BY <1>1
<1>3. clipped = f.chunk
  BY <1>1, <1>2
<1>4. /\ asm' = [asm EXCEPT ![s][c] = buffer1]
      /\ asm_len' = [asm_len EXCEPT ![s][c] = IF f.last THEN 0 ELSE len1]
      /\ delivered_n' = [delivered_n EXCEPT ![s] =
                           IF f.last /\ HasRoom(s, len1) THEN @ + 1 ELSE @]
      /\ log' = [log EXCEPT ![s][c] =
                   IF f.last
                   THEN Append(@, [units |-> SubSeq(buffer1, 1, len1),
                                   kept |-> HasRoom(s, len1)])
                   ELSE @]
      /\ accepted' = [accepted EXCEPT ![s] =
                        Append(@, [active |-> TRUE, seq |-> f.seq,
                                   stream |-> c, chunk |-> f.chunk,
                                   last |-> f.last])]
  BY DEF Accept
<1>5. buffer1 = buffer /\ len1 = len
  BY <1>3
<1>6. assembled[s][c] = SubSeq(asm[s][c], 1, old)
  BY DEF assembled, Station
<1>7. SubSeq(buffer, 1, len) = units /\ Len(units) = len
  <2>1. asm[s][c] \in [1..AsmMax -> Unit \cup {None}]
    BY <1>1
  <2> HIDE DEF old, c
  <2>2. old \in Nat
    BY <1>1, <1>2
  <2>3. LET all == SubSeq(Overlay(asm[s][c], old, f.chunk), 1,
                          old + Len(f.chunk))
        IN  /\ all = SubSeq(asm[s][c], 1, old) \o f.chunk
            /\ Len(all) = old + Len(f.chunk)
    BY <1>2, <2>1, <2>2, OverlayAppends
  <2> QED
    BY <1>6, <2>3
<1>8. Len(units) = len
  BY <1>7
<1>12. SubSeq(buffer, 1, len) = units
  BY <1>7
<1> HIDE DEF buffer1, len1, clipped
<1>9. HasRoom(s, len) <=> kept
  BY <1>8 DEF HasRoom
<1>10. assembled' = [assembled EXCEPT ![s][c] = IF f.last THEN <<>> ELSE units]
  <2> DEFINE new == IF f.last THEN <<>> ELSE units
             after == [assembled EXCEPT ![s][c] = new]
             part == [t \in {A, B} |-> [d \in {"prio", "bulk"} |->
                        SubSeq(asm'[t][d], 1, asm_len'[t][d])]]
  <2>1. assembled' = part
    BY DEF assembled
  <2>2. after = [t \in {A, B} |-> [d \in {"prio", "bulk"} |->
                  IF t = s /\ d = c THEN new ELSE assembled[t][d]]]
    <3> HIDE DEF new, c
    <3> QED
      BY DEF assembled, Station
  <2>3. ASSUME NEW t \in {A, B}, NEW d \in {"prio", "bulk"}
        PROVE  part[t][d] = IF t = s /\ d = c THEN new ELSE assembled[t][d]
    <3>0. part[t][d] = SubSeq(asm'[t][d], 1, asm_len'[t][d])
      OBVIOUS
    <3> HIDE DEF part
    <3>1. CASE t = s /\ d = c
      <4>1. asm'[t][d] = buffer
            /\ asm_len'[t][d] = IF f.last THEN 0 ELSE len
        BY <1>1, <1>4, <1>5, <3>1 DEF IInv, Typed, TypeOK
      <4>2. SubSeq(buffer, 1, 0) = <<>>
        OBVIOUS
      <4> HIDE DEF buffer, len, units
      <4> QED
        BY <1>12, <3>0, <3>1, <4>1, <4>2
    <3>2. CASE ~(t = s /\ d = c)
      <4>1. asm'[t][d] = asm[t][d] /\ asm_len'[t][d] = asm_len[t][d]
        BY <1>4, <3>2 DEF IInv, Typed, TypeOK, Station
      <4>2. assembled[t][d] = SubSeq(asm[t][d], 1, asm_len[t][d])
        BY DEF assembled
      <4> QED
        BY <3>0, <3>2, <4>1, <4>2
    <3> QED
      BY <3>1, <3>2
  <2> DEFINE other == [t \in {A, B} |-> [d \in {"prio", "bulk"} |->
                         IF t = s /\ d = c THEN new ELSE assembled[t][d]]]
  <2>4. /\ part = [t \in {A, B} |-> [d \in {"prio", "bulk"} |-> part[t][d]]]
        /\ other = [t \in {A, B} |-> [d \in {"prio", "bulk"} |->
                                       other[t][d]]]
    <3> HIDE DEF new
    <3> QED
      OBVIOUS
  <2>5. \A t \in {A, B}, d \in {"prio", "bulk"} : part[t][d] = other[t][d]
    <3> HIDE DEF new, part
    <3> QED
      BY <2>3
  <2> HIDE DEF part, other
  <2>6. part = other
    BY <2>4, <2>5, Zenon
  <2> QED
    BY <2>1, <2>2, <2>6 DEF other
<1> HIDE DEF units, buffer, len, old
<1>11. /\ delivered_n' = [delivered_n EXCEPT ![s] =
                            IF f.last /\ kept THEN @ + 1 ELSE @]
       /\ log' = [log EXCEPT ![s][c] =
                    IF f.last THEN Append(@, [units |-> units, kept |-> kept])
                    ELSE @]
  <2>1. HasRoom(s, len) = kept
    BY <1>9 DEF HasRoom
  <2> HIDE DEF kept
  <2> QED
    BY <1>4, <1>5, <1>12, <2>1
<1> QED
  BY <1>4, <1>10, <1>11 DEF SW!Accept, units

(* Step by step: what the station does is what StopAndWait says.           *)
LEMMA OffPoll ==
  ASSUME SwitchedOff, IInv, Inert, NEW s \in Station, Poll(s)
  PROVE  (SW!Transmit(s) \/ UNCHANGED SW!vars) /\ UNCHANGED <<btx, brx>>
<1>1. /\ air = None /\ ~await[s] /\ ~brx[s].ack_due /\ ~btx[s].active
      /\ UNCHANGED <<inVars, submitted>>
  BY DEF Poll, Inert
<1>2. assembled' = assembled
  BY <1>1 DEF assembled, inVars
<1>3. ~SendBurstAck(s)
  BY <1>1 DEF SendBurstAck
<1>4. ~SendCaps(s)
  <2> SUFFICES ASSUME NEW p \in Probes(s), p.wanted PROVE FALSE
    BY DEF SendCaps
  <2>1. Probes(s) = {[caps |-> caps[s], wanted |-> FALSE, rare |-> rare]}
    BY DEF Probes, SwitchedOff
  <2> QED
    BY <2>1
<1>5. SendMessage(s)
  BY <1>3, <1>4 DEF Poll
<1>6. PICK r \in Rungs : \E b \in BurstAt(s, r) :
        SendBurstFrag(s, r, b) \/ DropBurst(s, r, b) \/ SendLegacy(s, r, b)
  BY <1>5 DEF SendMessage
<1>7. BurstWindow \in Nat /\ BurstWindow < 2
  BY StationAssumption DEF SwitchedOff
<1>8. BurstAt(s, r) = {btx[s]}
  BY <1>7 DEF BurstAt, MayEngage
<1>9. /\ SendLegacy(s, r, btx[s]) /\ ~Sending(btx[s])
  BY <1>1, <1>6, <1>8 DEF SendBurstFrag, DropBurst, Sending
<1>10. Refragged(btx[s], r) = btx[s]
  BY <1>9 DEF Refragged, Collapsed
<1>11. btx' = btx
  BY <1>9, <1>10 DEF SendLegacy, IInv, Typed, TypeOK
<1>12. brx' = brx
  BY <1>5 DEF SendMessage
<1>13. CASE /\ SW!SendPending(s) \/ SW!SendNew(s) \/ SW!SendAck(s)
            /\ reply_due' = [reply_due EXCEPT ![s] = FALSE]
  BY <1>1, <1>2, <1>11, <1>12, <1>13 DEF SW!Transmit, inVars
<1>14. CASE UNCHANGED <<msgVars, await, reply_due, air, taken>>
  BY <1>1, <1>2, <1>11, <1>12, <1>14
     DEF SW!vars, SW!txVars, SW!rxVars, SW!history, msgVars, inVars
<1> QED
  BY <1>9, <1>13, <1>14 DEF SendLegacy

LEMMA OffReceive ==
  ASSUME SwitchedOff, IInv, Inert, SWInv, NEW s \in Station, Receive(s)
  PROVE  SW!Receive(s) /\ UNCHANGED <<btx, brx>>
<1>1. /\ air # None /\ air.to = s
      /\ await' = [await EXCEPT ![s] = FALSE] /\ air' = None
      /\ UNCHANGED <<queue, seq, submitted, taken>>
  BY DEF Receive
<1>2. air \in SWP!Frame
  BY <1>1 DEF SWInv, SWP!TypeOK
<1>3. air.kind \in {"data", "nodata"}
  BY <1>2 DEF SWP!Frame
<1>4. ~ReceiveCaps(s, air) /\ ~ReceiveBurstAck(s, air) /\ ~ReceiveBurst(s, air)
  BY <1>3 DEF ReceiveCaps, ReceiveBurstAck, ReceiveBurst
<1>5. CASE ReceiveNoData(s, air)
  <2>1. air.kind = "nodata"
    BY <1>3, <1>5 DEF ReceiveNoData
  <2>2. assembled' = assembled
    BY <1>5 DEF ReceiveNoData, inVars, assembled
  <2> QED
    BY <1>1, <1>5, <2>1, <2>2
       DEF ReceiveNoData, SW!Receive, SW!ReceiveNoData, SW!rxVars, inVars
<1>6. CASE ReceiveData(s, air)
  <2>1. /\ air.kind = "data" /\ SW!Retire(s, air)
        /\ last_rx_seq' = [last_rx_seq EXCEPT ![s] = air.seq]
        /\ reply_due' = [reply_due EXCEPT ![s] = TRUE]
        /\ UNCHANGED <<btx, brx>>
    BY <1>6 DEF ReceiveData
  <2>2. CASE air.seq = last_rx_seq[s]
    <3>1. UNCHANGED <<asm, asm_len, delivered_n, log, accepted>>
      BY <1>6, <2>2 DEF ReceiveData
    <3>2. assembled' = assembled
      BY <3>1 DEF assembled
    <3> QED
      BY <1>1, <2>1, <2>2, <3>1, <3>2 DEF SW!Receive, SW!ReceiveData
  <2>3. CASE air.seq # last_rx_seq[s]
    <3> DEFINE c == air.stream
               x == asm_len[s][c]
    <3>1. Accept(s, air)
      BY <1>6, <2>3 DEF ReceiveData
    <3>2. /\ c \in SWP!Stream /\ air.chunk \in Seq(SWP!Unit)
          /\ Len(assembled[s][c]) + Len(air.chunk) <= MsgMax
      <4>1. SWP!StationAssumption
        BY StationAssumption DEF SWP!StationAssumption
      <4>2. MsgMax \in Nat /\ s \in SWP!Station
        BY SameNames DEF SwitchedOff
      <4> QED
        BY <1>1, <2>1, <2>3, <4>1, <4>2, SWP!NewFits DEF SWInv
    <3>3. c \in SW!Stream /\ c \in {"prio", "bulk"} /\ air.chunk \in Seq(Unit)
      BY <3>2, SameNames, Names
    <3>4. x \in 0..AsmMax /\ AsmMax \in Nat
      BY <3>3, StationAssumption DEF IInv, Typed, TypeOK
    <3>5. assembled[s][c] = SubSeq(asm[s][c], 1, x)
      BY <3>3 DEF assembled, Station
    <3> HIDE DEF x, c
    <3>6. Len(assembled[s][c]) = x
      BY <3>4, <3>5
    <3>7. x + Len(air.chunk) <= AsmMax
      <4>1. Len(air.chunk) \in Nat
        BY <3>3
      <4> QED
        BY <3>2, <3>4, <3>6, <4>1 DEF SwitchedOff
    <3>8. SW!Accept(s, air)
      BY <3>1, <3>3, <3>7, AcceptIs, Names DEF x, c
    <3> QED
      BY <1>1, <2>1, <2>3, <3>8 DEF SW!Receive, SW!ReceiveData
  <2> QED
    BY <2>2, <2>3
<1> QED
  BY <1>4, <1>5, <1>6 DEF Receive

LEMMA OffStep ==
  ASSUME SwitchedOff, IInv, Inert, SWInv, [Next]_vars
  PROVE  [SW!Next]_(SW!vars) /\ Inert'
<1>1. ASSUME NEW s \in Station, NEW m \in Messages, Submit(s, m)
      PROVE  [SW!Next]_(SW!vars) /\ Inert'
  BY <1>1, Names DEF Submit, SW!Next, Inert
<1>2. ASSUME NEW s \in Station, Drain(s)
      PROVE  [SW!Next]_(SW!vars) /\ Inert'
  <2>1. SW!Drain(s)
    BY <1>2 DEF Drain, SW!Drain, SW!txVars, SW!history, msgVars, assembled
  <2> QED
    BY <1>2, <2>1, Names DEF Drain, SW!Next, Inert
<1>3. ASSUME NEW s \in Station, PushCaps(s) \/ KickCaps(s)
      PROVE  [SW!Next]_(SW!vars) /\ Inert'
  <2>1. UNCHANGED SW!vars
    BY <1>3 DEF PushCaps, KickCaps, SW!vars, SW!txVars, SW!rxVars,
                SW!history, msgVars, inVars, assembled
  <2> QED
    BY <1>3, <2>1 DEF PushCaps, KickCaps, Inert
<1>4. ASSUME NEW s \in Station, Poll(s)
      PROVE  [SW!Next]_(SW!vars) /\ Inert'
  <2>1. (SW!Transmit(s) \/ UNCHANGED SW!vars) /\ UNCHANGED <<btx, brx>>
    BY <1>4, OffPoll
  <2> QED
    BY <2>1, Names DEF SW!Next, Inert
<1>5. ASSUME NEW s \in Station, Timeout(s)
      PROVE  [SW!Next]_(SW!vars) /\ Inert'
  <2>1. SW!Timeout(s)
    BY <1>5 DEF Timeout, SW!Timeout, SW!txVars, SW!rxVars, SW!history,
                msgVars, inVars, assembled
  <2>2. UNCHANGED <<btx, brx>>
    BY <1>5 DEF Timeout, Inert, IInv, Typed, TypeOK
  <2> QED
    BY <2>1, <2>2, Names DEF SW!Next, Inert
<1>6. ASSUME NEW s \in Station, Receive(s)
      PROVE  [SW!Next]_(SW!vars) /\ Inert'
  BY <1>6, OffReceive, Names DEF SW!Next, Inert
<1>7. CASE Lose
  <2>1. SW!Lose
    BY <1>7 DEF Lose, SW!Lose, SW!txVars, SW!rxVars, SW!history, msgVars,
                inVars, assembled
  <2> QED
    BY <1>7, <2>1 DEF Lose, SW!Next, Inert
<1>8. CASE UNCHANGED vars
  <2>1. UNCHANGED SW!vars
    BY <1>8 DEF vars, SW!vars, SW!txVars, SW!rxVars, SW!history, msgVars,
                inVars, assembled
  <2> QED
    BY <1>8, <2>1 DEF vars, Inert
<1> QED
  BY <1>1, <1>2, <1>3, <1>4, <1>5, <1>6, <1>7, <1>8 DEF Next

LEMMA OffInit == Init => SW!Init /\ Inert
<1> SUFFICES ASSUME Init PROVE SW!Init /\ Inert
  OBVIOUS
<1>1. Inert
  BY DEF Init, Inert, Disengaged, NoTransfer
<1>2. assembled = [s \in {A, B} |-> [c \in {"prio", "bulk"} |-> <<>>]]
  <2>1. \A s \in {A, B}, c \in {"prio", "bulk"} :
          SubSeq(asm[s][c], 1, asm_len[s][c]) = <<>>
    <3> TAKE s \in {A, B}, c \in {"prio", "bulk"}
    <3>1. asm_len[s][c] = 0
      BY Names DEF Init, Station
    <3> QED
      BY <3>1
  <2> QED
    BY <2>1 DEF assembled
<1> QED
  BY <1>1, <1>2, Names DEF Init, SW!Init, Station

(* Switched off, the extensions are inert: the whole of station_poll_tx    *)
(* and station_on_decoded does what the stop-and-wait exchange does, so    *)
(* what is proved of that exchange holds of the station.                   *)
THEOREM SwitchedOffIsStopAndWait ==
  ASSUME SwitchedOff
  PROVE  Spec => ImplementsStopAndWait
<1> DEFINE All == IInv /\ Inert /\ SWInv
<1>1. SWP!StationAssumption
  BY StationAssumption DEF SWP!StationAssumption
<1>2. Init => All /\ SW!Init
  <2>1. SWP!Init => SWInv
    BY <1>1, SWP!InitType, SWP!InitCore, SWP!StreamInit, SWP!SizesFitInit
       DEF SWInv
  <2> QED
    BY <2>1, InitInv, OffInit, SameInit
<1>3. All /\ [Next]_vars => All' /\ [SW!Next]_(SW!vars)
  <2> SUFFICES ASSUME All, [Next]_vars PROVE All' /\ [SW!Next]_(SW!vars)
    OBVIOUS
  <2>1. [SW!Next]_(SW!vars) /\ Inert'
    BY OffStep
  <2>2. [SWP!Next]_(SWP!vars)
    <3>1. UNCHANGED SW!vars => UNCHANGED SWP!vars
      BY DEF SW!vars, SWP!vars, SW!txVars, SWP!txVars, SW!rxVars, SWP!rxVars,
             SW!history, SWP!history
    <3> QED
      BY <2>1, <3>1, SameNext
  <2>3. SWInv'
    BY <1>1, <2>2, SWP!TypeStep, SWP!PendingOpenStep, SWP!CoreStep,
       SWP!StreamStep, SWP!SizesFitStep DEF SWInv
  <2> QED
    BY <2>1, <2>3, InvStep
<1> HIDE DEF All
<1> QED
  BY <1>2, <1>3, PTL DEF Spec, ImplementsStopAndWait, SW!Spec

LEMMA SamePromise ==
  /\ SWP!Promise!Init => SW!Promise!Init
  /\ [SWP!Promise!Next]_(SWP!Promise!rsVars)
       => [SW!Promise!Next]_(SW!Promise!rsVars)
<1>1. SWP!gone = SW!gone /\ SWP!gone' = SW!gone'
  BY DEF SWP!gone, SW!gone, SWP!StreamOf, SW!StreamOf, SWP!Station,
         SW!Station, SWP!Class, SW!Class, SWP!Nothing, SW!Nothing,
         SWP!QOS_BULK, SW!QOS_BULK, SWP!QOS_CONTROL, SW!QOS_CONTROL,
         SWP!QOS_INTERACTIVE, SW!QOS_INTERACTIVE
<1>2. SWP!Promise!Init => SW!Promise!Init
  BY <1>1 DEF SWP!Promise!Init, SW!Promise!Init, SWP!Promise!Station,
              SW!Promise!Station, SWP!Promise!Class, SW!Promise!Class
<1>3. \A s, m : SWP!Promise!Offer(s, m) => SW!Promise!Offer(s, m)
  BY <1>1 DEF SWP!Promise!Offer, SW!Promise!Offer
<1>4. \A s, q : SWP!Promise!Completed(s, q) = SW!Promise!Completed(s, q)
  BY DEF SWP!Promise!Completed, SW!Promise!Completed,
         SWP!Promise!StreamOf, SW!Promise!StreamOf,
         SWP!Promise!Cardinality, SW!Promise!Cardinality
<1>5. \A s, q : SWP!Promise!CompleteNext(s, q) => SW!Promise!CompleteNext(s, q)
  <2> SUFFICES ASSUME NEW s, NEW q, SWP!Promise!CompleteNext(s, q)
               PROVE  SW!Promise!CompleteNext(s, q)
    OBVIOUS
  <2>1. /\ SWP!Promise!StreamOf(q) = SW!Promise!StreamOf(q)
        /\ SWP!Promise!Peer(s) = SW!Promise!Peer(s)
        /\ \A m : SWP!Promise!Whole(m) = SW!Promise!Whole(m)
    BY DEF SWP!Promise!StreamOf, SW!Promise!StreamOf, SWP!Promise!Peer,
           SW!Promise!Peer, SWP!Promise!Whole, SW!Promise!Whole
  <2> QED
    BY <1>4, <2>1, Zenon
       DEF SWP!Promise!CompleteNext, SW!Promise!CompleteNext
<1>6. \A s, q : SWP!Promise!ReleaseNext(s, q) => SW!Promise!ReleaseNext(s, q)
  BY <1>1, <1>4 DEF SWP!Promise!ReleaseNext, SW!Promise!ReleaseNext,
                    SWP!Promise!Peer, SW!Promise!Peer
<1>7. SWP!Promise!Next => SW!Promise!Next
  BY <1>1, <1>3, <1>5, <1>6
     DEF SWP!Promise!Next, SW!Promise!Next, SWP!Promise!Both,
         SW!Promise!Both, SWP!Promise!Station, SW!Promise!Station,
         SWP!Promise!Class, SW!Promise!Class
<1>8. UNCHANGED SWP!Promise!rsVars => UNCHANGED SW!Promise!rsVars
  BY <1>1 DEF SWP!Promise!rsVars, SW!Promise!rsVars
<1> QED
  BY <1>2, <1>7, <1>8

(* And so it keeps the promise to the hosts: messages completed whole,     *)
(* once and in order, at any sizes and any fragment lengths.               *)
THEOREM SwitchedOffKeepsPromise ==
  ASSUME SwitchedOff
  PROVE  Spec => ImplementsStreams /\ []ExactlyOnce
<1>1. SWP!StationAssumption
  BY StationAssumption DEF SWP!StationAssumption
<1>2. [SW!Next]_(SW!vars) => [SWP!Next]_(SWP!vars)
  <2>1. UNCHANGED SW!vars => UNCHANGED SWP!vars
    BY DEF SW!vars, SWP!vars, SW!txVars, SWP!txVars, SW!rxVars, SWP!rxVars,
           SW!history, SWP!history
  <2> QED
    BY <2>1, SameNext
<1>3. SW!Spec => SWP!Spec
  BY <1>2, SameInit, PTL DEF SW!Spec, SWP!Spec
<1>4. SWP!Spec => SWP!Promise!Spec /\ []SWP!ExactlyOnce
  BY <1>1, SWP!StreamsImplemented, SWP!FragmentsExactlyOnce, PTL
     DEF SWP!ImplementsStreams
<1>5. SWP!ExactlyOnce => SW!ExactlyOnce
  BY DEF SWP!ExactlyOnce, SW!ExactlyOnce, SWP!Station, SW!Station, SWP!Peer,
         SW!Peer
<1>6. SWP!Promise!Spec => SW!Promise!Spec
  BY SamePromise, PTL DEF SWP!Promise!Spec, SW!Promise!Spec
<1>7. Spec => SW!Spec
  BY SwitchedOffIsStopAndWait DEF ImplementsStopAndWait
<1> QED
  BY <1>3, <1>4, <1>5, <1>6, <1>7, PTL DEF ImplementsStreams, ExactlyOnce

-----------------------------------------------------------------------------
(* One-way bursts: only a submits, every bulk message is sent as a burst   *)
(* at any rung, and no rung is too slow for the fragments of another; the  *)
(* handshake is off.                                                       *)
FragsOf(m, r) == (Size[m] + FragSize[r] - 1) \div FragSize[r]
OneWayBursts(a) ==
  /\ a \in Station
  /\ \A m \in Messages : From[m] = a
  /\ CapsStations = {} /\ BurstWindow >= 2
  /\ \A m \in Messages, r \in Rungs :
       QosOf[m] = BULK => FragSize[r] > 0 /\ FragsOf(m, r) <= MaxFrags
  /\ \A r, q \in Rungs : FragSize[r] <= FragMax[q]

(* The peer of a has nothing to say: it only answers. *)
Answers(a) ==
  /\ \A q \in SW!Class : queue[Peer(a)][q] = <<>> /\ submitted[Peer(a)][q] = <<>>
  /\ \A c \in SW!Stream : cur[Peer(a)][c] = SW!Nothing
  /\ ~pending[Peer(a)].active /\ ~btx[Peer(a)].active
  /\ last_rx_seq[a] = -1 /\ ~brx[a].ack_due
  /\ pending[a].active => pending[a].stream = "prio"

(* The bulk messages that were submitted are those that are gone, the open *)
(* one, and those that wait, in this order.                                *)
Bulk(a) == cur[a]["bulk"]
One(a) == IF Bulk(a) = SW!Nothing THEN 0 ELSE 1
Gone(a) == Len(submitted[a][BULK]) - Len(queue[a][BULK]) - One(a)
Line(a) ==
  /\ \A i \in 1..Len(queue[a][BULK]) : QosOf[queue[a][BULK][i]] = BULK
  /\ Bulk(a) # SW!Nothing => QosOf[Bulk(a).msg] = BULK
  /\ Gone(a) \in Nat
  /\ Bulk(a) # SW!Nothing => submitted[a][BULK][Gone(a) + 1] = Bulk(a).msg
  /\ \A i \in 1..Len(queue[a][BULK]) :
       submitted[a][BULK][Gone(a) + One(a) + i] = queue[a][BULK][i]

(* The burst is of the open message. *)
Cuts(b, m) ==
  /\ b.frag_size > 0 /\ b.n > 0 /\ b.last_len > 0
  /\ b.last_len <= b.frag_size
  /\ (b.n - 1) * b.frag_size + b.last_len = Size[m]
Engages(a) ==
  btx[a].active => /\ Bulk(a) # SW!Nothing
                   /\ Cuts(btx[a], Bulk(a).msg)
                   /\ \E r \in Rungs : btx[a].frag_size = FragSize[r]

(* The transfer the peer knows is the burst of a, or the one before it.    *)
Mine(a) == btx[a].active /\ brx[Peer(a)].id = btx[a].id
Knows(a) ==
  LET b == btx[a]
      r == brx[Peer(a)]
  IN  /\ ~b.active => r.id = b.id
      /\ b.active /\ ~Mine(a) => r.id = (b.id + 3) % 4 /\ b.acked = {}
      /\ Mine(a) => /\ r.active /\ r.n = b.n /\ r.frag_size = b.frag_size
                    /\ b.acked \subseteq r.have /\ r.have \subseteq 0..b.n - 1
                    /\ r.done <=> r.have = 0..b.n - 1
                    /\ r.last_len \in {0, b.last_len}
                    /\ b.n - 1 \in r.have => r.last_len = b.last_len

(* What the bitmap of the peer says is in its buffer.                      *)
Whole(a) ==
  Mine(a) =>
    \A i \in brx[Peer(a)].have :
      /\ i * btx[a].frag_size + FragLen(btx[a], i) <= AsmMax
      /\ \A j \in 1..FragLen(btx[a], i) :
           asm[Peer(a)]["bulk"][i * btx[a].frag_size + j]
             = <<Bulk(a).msg, i * btx[a].frag_size + j>>

(* What is on the channel.                                                 *)
OfBurst(a, f) ==
  LET b == btx[a]
  IN  /\ b.active /\ f.id = b.id /\ f.n = b.n /\ f.frag_size = b.frag_size
      /\ f.idx \in 0..b.n - 1
      /\ f.chunk = SW!Units(Bulk(a).msg, f.idx * b.frag_size, FragLen(b, f.idx))
OnAir(a) ==
  air # None =>
    \/ air.to = Peer(a) /\ air.kind = "data" /\ air.stream = "prio"
    \/ air.to = Peer(a) /\ air.kind = "burst" /\ OfBurst(a, air)
    \/ air.to = a /\ air.kind = "nodata"
    \/ /\ air.to = a /\ air.kind = "burst_ack"
       /\ air.ack = brx[Peer(a)].id /\ air.have = brx[Peer(a)].have

(* The peer has completed what is gone, and the open message if its        *)
(* transfer is done.                                                       *)
Entry == [units : Seq(Unit \cup {None}), kept : BOOLEAN]
Histories ==
  /\ submitted \in [Station -> [SW!Class -> Seq(Messages)]]
  /\ log \in [Station -> [SW!Stream -> Seq(Entry)]]
Complete(m) == [units |-> SW!Units(m, 0, Size[m]), kept |-> TRUE]
Done(a) == IF Mine(a) /\ brx[Peer(a)].done THEN 1 ELSE 0
Completed(a) ==
  /\ Len(log[Peer(a)]["bulk"]) = Gone(a) + Done(a)
  /\ \A i \in 1..Len(log[Peer(a)]["bulk"]) :
       /\ i <= Len(submitted[a][BULK])
       /\ log[Peer(a)]["bulk"][i] = Complete(submitted[a][BULK][i])
BulkInv(a) == Line(a) /\ Engages(a) /\ Knows(a) /\ Whole(a) /\ Completed(a)
BurstInv(a) == Histories /\ Answers(a) /\ BulkInv(a) /\ OnAir(a)

LEMMA Sides ==
  ASSUME NEW a \in Station
  PROVE  /\ Peer(a) \in Station /\ Peer(a) # a /\ Peer(Peer(a)) = a
         /\ \A s \in Station : s = a \/ s = Peer(a)
         /\ BULK = 2 /\ SW!QOS_BULK = 2 /\ BULK \in SW!Class
         /\ "bulk" \in SW!Stream /\ "prio" \in SW!Stream
  BY Names, StationAssumption DEF Station, Peer, SW!Peer

(* What the bulk side of a and its peer is: a step that leaves it alone    *)
(* keeps what is said of it.                                               *)
SameBurst(b, c) ==
  /\ b.active = c.active /\ b.id = c.id /\ b.n = c.n
  /\ b.frag_size = c.frag_size /\ b.last_len = c.last_len
  /\ b.acked = c.acked
SameTransfer(r, t) ==
  /\ r.active = t.active /\ r.id = t.id /\ r.n = t.n
  /\ r.frag_size = t.frag_size /\ r.last_len = t.last_len
  /\ r.have = t.have /\ r.done = t.done
BurstStays(a) ==
  /\ cur'[a]["bulk"] = cur[a]["bulk"]
  /\ SameBurst(btx'[a], btx[a]) /\ SameTransfer(brx'[Peer(a)], brx[Peer(a)])
  /\ asm'[Peer(a)]["bulk"] = asm[Peer(a)]["bulk"]
BulkStays(a) ==
  /\ BurstStays(a) /\ queue'[a][BULK] = queue[a][BULK]
  /\ submitted'[a][BULK] = submitted[a][BULK]
  /\ log'[Peer(a)]["bulk"] = log[Peer(a)]["bulk"]

LEMMA SideKept ==
  ASSUME NEW a \in Station, BulkInv(a), BurstStays(a)
  PROVE  /\ Engages(a)' /\ Knows(a)' /\ Whole(a)'
         /\ Bulk(a)' = Bulk(a) /\ One(a)' = One(a)
         /\ Mine(a)' = Mine(a) /\ Done(a)' = Done(a)
<1>1. Bulk(a)' = Bulk(a) /\ One(a)' = One(a)
  BY DEF BurstStays, Bulk, One
<1>2. Engages(a)'
  BY <1>1 DEF BulkInv, Engages, Cuts, BurstStays, SameBurst
<1>3. Mine(a)' = Mine(a) /\ Done(a)' = Done(a)
  BY DEF BurstStays, SameBurst, SameTransfer, Mine, Done
<1>4. Knows(a)'
  BY <1>3 DEF BulkInv, Knows, BurstStays, SameBurst, SameTransfer
<1>5. Whole(a)'
  BY <1>1, <1>3 DEF BulkInv, Whole, BurstStays, SameBurst, SameTransfer, FragLen
<1> QED
  BY <1>1, <1>2, <1>3, <1>4, <1>5

LEMMA BulkKept ==
  ASSUME NEW a \in Station, BulkInv(a), BulkStays(a)
  PROVE  BulkInv(a)'
<1>1. /\ Engages(a)' /\ Knows(a)' /\ Whole(a)'
      /\ Bulk(a)' = Bulk(a) /\ One(a)' = One(a) /\ Done(a)' = Done(a)
  BY SideKept DEF BulkStays
<1>2. Gone(a)' = Gone(a)
  BY <1>1 DEF BulkStays, Gone
<1>3. Line(a)'
  BY <1>1, <1>2 DEF BulkInv, Line, BulkStays
<1>4. Completed(a)'
  BY <1>1, <1>2 DEF BulkInv, Completed, BulkStays
<1> QED
  BY <1>1, <1>3, <1>4 DEF BulkInv

LEMMA RetiredBulk ==
  ASSUME NEW a \in Station, IInv, Answers(a), NEW f
  PROVE  /\ SW!RetiredCur(Peer(a), f) = cur[Peer(a)]
         /\ ~SW!Retires(Peer(a), f)
         /\ SW!RetiredCur(a, f)["bulk"] = cur[a]["bulk"]
<1>1. ~SW!Retires(Peer(a), f) /\ SW!RetiredCur(Peer(a), f) = cur[Peer(a)]
  BY DEF Answers, SW!Retires, SW!RetiredCur
<1>2. CASE SW!Retires(a, f)
  <2>1. pending[a].stream = "prio"
    BY <1>2 DEF Answers, SW!Retires
  <2>2. cur[a] \in [SW!Stream -> SW!Open \cup {SW!Nothing}]
    BY DEF IInv, Typed, MsgType
  <2> DEFINE p == pending[a]
             c == cur[a]["prio"]
             next == IF p.last THEN SW!Nothing
                     ELSE [msg |-> c.msg, off |-> c.off + Len(p.chunk)]
  <2>3. \/ SW!RetiredCur(a, f) = cur[a]
        \/ SW!RetiredCur(a, f) = [cur[a] EXCEPT !["prio"] = next]
    BY <2>1 DEF SW!RetiredCur
  <2> HIDE DEF next
  <2> QED
    BY <1>1, <2>2, <2>3, Sides
<1>3. CASE ~SW!Retires(a, f)
  BY <1>1, <1>3 DEF SW!RetiredCur
<1> QED
  BY <1>2, <1>3

-----------------------------------------------------------------------------
(* What the hosts do, and time.                                            *)
LEMMA OneWaySubmit ==
  ASSUME NEW a \in Station, OneWayBursts(a), IInv, BurstInv(a),
         NEW s \in Station, NEW m \in Messages, Submit(s, m)
  PROVE  BurstInv(a)'
<1> DEFINE q == QosOf[m]
<1>1. /\ queue' = [queue EXCEPT ![s][q] = Append(@, m)]
      /\ submitted' = [submitted EXCEPT ![s][q] = Append(@, m)]
      /\ UNCHANGED <<cur, pending, seq, last_rx_seq, reply_due, delivered_n,
                     await, air, log>>
      /\ UNCHANGED <<asm, asm_len, btx, brx, caps>>
  BY DEF Submit, SW!Submit, SW!rxVars
<1>2. s = a
  BY DEF OneWayBursts, Submit, SW!Submit
<1>3. q \in SW!Class
  BY StationAssumption, Names
<1>4. queue \in [Station -> [SW!Class -> Seq(Messages)]]
      /\ submitted \in [Station -> [SW!Class -> Seq(Messages)]]
  BY DEF IInv, Typed, MsgType, BurstInv, Histories
<1> HIDE DEF q
<1>5. /\ queue'[Peer(a)] = queue[Peer(a)]
      /\ submitted'[Peer(a)] = submitted[Peer(a)]
      /\ \A c \in SW!Class \ {q} : queue'[a][c] = queue[a][c]
                                   /\ submitted'[a][c] = submitted[a][c]
      /\ queue'[a][q] = Append(queue[a][q], m)
      /\ submitted'[a][q] = Append(submitted[a][q], m)
      /\ submitted' \in [Station -> [SW!Class -> Seq(Messages)]]
  <2>1. Append(submitted[a][q], m) \in Seq(Messages)
    BY <1>3, <1>4
  <2>2. [submitted[a] EXCEPT ![q] = Append(submitted[a][q], m)]
          \in [SW!Class -> Seq(Messages)]
    BY <1>3, <1>4, <2>1
  <2>3. submitted' = [submitted EXCEPT ![a] =
                  [submitted[a] EXCEPT ![q] = Append(submitted[a][q], m)]]
    BY <1>1, <1>2, <1>4
  <2> QED
    BY <1>1, <1>2, <1>3, <1>4, <2>2, <2>3, Sides
<1>6. Histories'
  BY <1>1, <1>5 DEF BurstInv, Histories
<1>7. Answers(a)'
  BY <1>1, <1>5 DEF BurstInv, Answers
<1>8. OnAir(a)'
  BY <1>1 DEF BurstInv, OnAir, OfBurst, Bulk, FragLen
<1>9. CASE q # BULK
  <2>1. BulkStays(a)
    BY <1>1, <1>5, <1>9, Sides DEF BulkStays, BurstStays, SameBurst,
                                      SameTransfer
  <2> QED
    BY <1>6, <1>7, <1>8, <2>1, BulkKept DEF BurstInv
<1>10. CASE q = BULK
  <2> DEFINE Q == queue[a][BULK]
             S == submitted[a][BULK]
             Q2 == queue'[a][BULK]
             S2 == submitted'[a][BULK]
  <2>1. /\ Q \in Seq(Messages) /\ S \in Seq(Messages)
        /\ Q2 = Append(Q, m) /\ S2 = Append(S, m) /\ QosOf[m] = BULK
    BY <1>4, <1>5, <1>10, Sides DEF q
  <2> HIDE DEF Q, S, Q2, S2
  <2>2. /\ Len(Q) \in Nat /\ Len(S) \in Nat
        /\ Len(Q2) = Len(Q) + 1 /\ Len(S2) = Len(S) + 1
        /\ \A i \in 1..Len(Q) : Q2[i] = Q[i]
        /\ \A i \in 1..Len(S) : S2[i] = S[i]
        /\ Q2[Len(Q) + 1] = m /\ S2[Len(S) + 1] = m
    BY <2>1
  <2> DEFINE o == One(a)
             g == Gone(a)
  <2>3. o \in 0..1 /\ One(a)' = o /\ Bulk(a)' = Bulk(a)
    BY <1>1 DEF One, Bulk
  <2>4. g = Len(S) - Len(Q) - o /\ Gone(a)' = Len(S2) - Len(Q2) - o
    BY <2>3 DEF Gone, S, Q, S2, Q2
  <2>5. Line(a)
    BY DEF BurstInv, BulkInv
  <2>6. g \in Nat /\ Gone(a)' = g
    BY <2>2, <2>3, <2>4, <2>5 DEF Line
  <2>7. /\ \A i \in 1..Len(Q) : QosOf[Q[i]] = BULK /\ S[g + o + i] = Q[i]
        /\ Bulk(a) # SW!Nothing => QosOf[Bulk(a).msg] = BULK
                                   /\ S[g + 1] = Bulk(a).msg /\ o = 1
    BY <2>5 DEF Line, Q, S, One
  <2> HIDE DEF o, g
  <2>8. \A i \in 1..Len(Q2) : QosOf[Q2[i]] = BULK /\ S2[g + o + i] = Q2[i]
    <3> SUFFICES ASSUME NEW i \in 1..Len(Q2)
                 PROVE  QosOf[Q2[i]] = BULK /\ S2[g + o + i] = Q2[i]
      OBVIOUS
    <3>1. CASE i \in 1..Len(Q)
      <4>1. g + o + i \in 1..Len(S)
        BY <2>2, <2>3, <2>4, <2>6, <3>1
      <4> QED
        BY <2>2, <2>7, <3>1, <4>1
    <3>2. CASE i = Len(Q) + 1
      <4>1. g + o + i = Len(S) + 1
        BY <2>2, <2>3, <2>4, <2>6, <3>2
      <4> QED
        BY <2>1, <2>2, <3>2, <4>1
    <3> QED
      BY <2>2, <3>1, <3>2
  <2>9. Bulk(a) # SW!Nothing => S2[g + 1] = Bulk(a).msg
    <3> SUFFICES ASSUME Bulk(a) # SW!Nothing PROVE S2[g + 1] = Bulk(a).msg
      OBVIOUS
    <3>1. g + 1 \in 1..Len(S)
      BY <2>2, <2>4, <2>6, <2>7
    <3> QED
      BY <2>2, <2>7, <3>1
  <2>10. Line(a)'
    <3>1. g \in Nat /\ Gone(a)' = g /\ One(a)' = o /\ Bulk(a)' = Bulk(a)
      BY <2>3, <2>6
    <3>2. \A i \in 1..Len(Q2) : QosOf[Q2[i]] = BULK
      BY <2>8
    <3>3. \A i \in 1..Len(Q2) : S2[g + o + i] = Q2[i]
      BY <2>8
    <3>4. Bulk(a) # SW!Nothing => QosOf[Bulk(a).msg] = BULK
      BY <2>7
    <3>5. queue'[a][BULK] = Q2 /\ submitted'[a][BULK] = S2
      BY DEF Q2, S2
    <3> QED
      BY <2>9, <3>1, <3>2, <3>3, <3>4, <3>5 DEF Line
  <2>11. Engages(a)' /\ Knows(a)' /\ Whole(a)'
    <3>1. BurstStays(a)
      BY <1>1 DEF BurstStays, SameBurst, SameTransfer
    <3> QED
      BY <3>1, SideKept DEF BurstInv
  <2>12. Completed(a)'
    <3>1. Done(a)' = Done(a)
      BY <1>1 DEF Done, Mine
    <3>2. Completed(a)
      BY DEF BurstInv, BulkInv
    <3>3. \A i \in 1..Len(log[Peer(a)]["bulk"]) :
            i <= Len(S2) /\ log[Peer(a)]["bulk"][i] = Complete(S2[i])
      <4> SUFFICES ASSUME NEW i \in 1..Len(log[Peer(a)]["bulk"])
                   PROVE  /\ i <= Len(S2)
                          /\ log[Peer(a)]["bulk"][i] = Complete(S2[i])
        OBVIOUS
      <4>1. i <= Len(S) /\ log[Peer(a)]["bulk"][i] = Complete(S[i])
        BY <3>2 DEF Completed, S
      <4>2. i \in 1..Len(S)
        <5>1. log[Peer(a)]["bulk"] \in Seq(Entry)
          BY Sides DEF BurstInv, Histories
        <5> QED
          BY <2>2, <4>1, <5>1
      <4> QED
        BY <2>2, <4>1, <4>2
    <3> QED
      BY <1>1, <2>6, <3>1, <3>2, <3>3 DEF Completed, g, S2, Complete
  <2> QED
    BY <1>6, <1>7, <1>8, <2>10, <2>11, <2>12 DEF BurstInv, BulkInv
<1> QED
  BY <1>9, <1>10

(* A step that leaves the messages, the bursts and what was received alone. *)
LEMMA OneWayIdle ==
  ASSUME NEW a \in Station, BurstInv(a), air' \in {air, None},
         UNCHANGED <<queue, cur, pending, last_rx_seq, asm, log, submitted,
                     btx, brx>>
  PROVE  BurstInv(a)'
<1>1. Histories' /\ Answers(a)'
  BY DEF BurstInv, Histories, Answers
<1>2. BulkStays(a)
  BY DEF BulkStays, BurstStays, SameBurst, SameTransfer
<1>3. OnAir(a)'
  BY DEF BurstInv, OnAir, OfBurst, Bulk, FragLen
<1> QED
  BY <1>1, <1>2, <1>3, BulkKept DEF BurstInv

LEMMA OneWayTimeout ==
  ASSUME NEW a \in Station, IInv, BurstInv(a), NEW s \in Station, Timeout(s)
  PROVE  BurstInv(a)'
<1>1. /\ UNCHANGED <<queue, cur, pending, last_rx_seq, asm, log, submitted, brx,
                     air>>
      /\ btx' = [btx EXCEPT ![s] = IF btx[s].active THEN Probe(btx[s])
                                   ELSE btx[s]]
  BY DEF Timeout, msgVars, inVars
<1>2. \A t \in Station : btx[t] \in BurstTx
  BY DEF IInv, Typed, TypeOK
<1>3. \A t \in Station : SameBurst(btx'[t], btx[t])
  <2> SUFFICES ASSUME NEW t \in Station PROVE SameBurst(btx'[t], btx[t])
    OBVIOUS
  <2>1. SameBurst(btx[t], btx[t]) /\ SameBurst(Probe(btx[t]), btx[t])
    BY <1>2 DEF SameBurst, Probe, BurstTx
  <2>2. btx'[t] = btx[t] \/ btx'[t] = Probe(btx[t])
    BY <1>1, <1>2 DEF IInv, Typed, TypeOK
  <2> QED
    BY <2>1, <2>2
<1>4. Histories' /\ Answers(a)'
  BY <1>1, <1>3, Sides DEF BurstInv, Histories, Answers, SameBurst
<1>5. BulkStays(a)
  BY <1>1, <1>3 DEF BulkStays, BurstStays, SameTransfer
<1>6. OnAir(a)'
  BY <1>1, <1>3 DEF BurstInv, OnAir, OfBurst, Bulk, FragLen, SameBurst
<1> QED
  BY <1>4, <1>5, <1>6, BulkKept DEF BurstInv

-----------------------------------------------------------------------------
(* What the peer of a sends: the bitmap it owes, or a frame without data.  *)
LEMMA NoProbe ==
  ASSUME NEW a \in Station, OneWayBursts(a), NEW s \in Station
  PROVE  /\ ~SendCaps(s)
         /\ SendMessage(s) =>
              /\ \E r \in Rungs : \E b \in BurstAt(s, r) :
                   \/ SendBurstFrag(s, r, b)
                   \/ DropBurst(s, r, b)
                   \/ SendLegacy(s, r, b)
              /\ UNCHANGED brx
<1>1. s \notin CapsStations
  BY DEF OneWayBursts
<1>2. \A p \in Probes(s) : ~p.wanted
  <2> DEFINE c == caps[s]
             old(event) == event \in Rare /\ rare < RareMax
             ages == IF c.valid /\ old("record") THEN BOOLEAN ELSE {FALSE}
             waits == CASE ~c.paced -> {TRUE}
                        [] c.paced /\ c.legacy /\ ~old("verdict") -> {FALSE}
                        [] OTHER -> BOOLEAN
             more(stale, expired) ==
               IF (c.valid /\ stale) \/ (c.legacy /\ expired)
               THEN rare + 1 ELSE rare
             probe(stale, expired) ==
               [caps |-> caps_probe_wanted(s, stale, expired).caps,
                wanted |-> caps_probe_wanted(s, stale, expired).wanted,
                rare |-> more(stale, expired)]
             X == {probe(stale, expired) : stale \in ages, expired \in waits}
             as_is(wanted) == [caps |-> c, wanted |-> wanted, rare |-> rare]
  <2>1. Probes(s) = CASE s \notin CapsStations -> {as_is(FALSE)}
                      [] s \in CapsStations /\ c.reply_due -> {as_is(TRUE)}
                      [] OTHER -> X
    BY DEF Probes
  <2> HIDE DEF X, as_is
  <2>2. Probes(s) = {as_is(FALSE)}
    BY <1>1, <2>1
  <2> QED
    BY <2>2 DEF as_is
<1>3. ~SendCaps(s)
  BY <1>2 DEF SendCaps
<1>4. SendMessage(s) => UNCHANGED brx
  BY DEF SendMessage
<1>5. ASSUME SendMessage(s)
      PROVE  \E r \in Rungs : \E b \in BurstAt(s, r) :
               \/ SendBurstFrag(s, r, b)
               \/ DropBurst(s, r, b)
               \/ SendLegacy(s, r, b)
  BY <1>5 DEF SendMessage
<1> QED
  BY <1>3, <1>4, <1>5

LEMMA OneWayPeerPoll ==
  ASSUME NEW a \in Station, OneWayBursts(a), IInv, BurstInv(a), Poll(Peer(a))
  PROVE  BurstInv(a)'
<1> DEFINE t == Peer(a)
<1>1. t \in Station /\ t # a /\ Peer(t) = a
  BY Sides
<1>2. /\ air = None /\ UNCHANGED <<last_rx_seq, asm, log, submitted>>
      /\ SendBurstAck(t) \/ SendCaps(t) \/ SendMessage(t)
  BY DEF Poll, inVars
<1>3. Answers(a)
  BY DEF BurstInv
<1>4. brx \in [Station -> BurstRx]
  BY DEF IInv, Typed, TypeOK
<1> HIDE DEF t
<1>5. CASE SendBurstAck(t)
  <2>1. /\ air' = [to |-> a, kind |-> "burst_ack", seq |-> seq[t],
                   ack |-> brx[t].id, have |-> brx[t].have]
        /\ brx' = [brx EXCEPT ![t].ack_due = FALSE]
        /\ UNCHANGED <<queue, cur, pending, btx>>
    BY <1>1, <1>5 DEF SendBurstAck, msgVars
  <2>2. brx'[a] = brx[a] /\ SameTransfer(brx'[t], brx[t])
    BY <1>1, <1>4, <2>1 DEF SameTransfer, BurstRx
  <2>3. Histories' /\ Answers(a)'
    BY <1>2, <1>3, <2>1, <2>2 DEF BurstInv, Histories, Answers
  <2>4. BulkStays(a)
    BY <1>2, <2>1, <2>2 DEF t, BulkStays, BurstStays, SameBurst
  <2>5. OnAir(a)'
    BY <2>1, <2>2 DEF t, OnAir, SameTransfer
  <2> QED
    BY <2>3, <2>4, <2>5, BulkKept DEF BurstInv
<1>6. CASE SendMessage(t)
  <2>0. PICK r \in Rungs : \E b \in BurstAt(t, r) :
               \/ SendBurstFrag(t, r, b)
               \/ DropBurst(t, r, b)
               \/ SendLegacy(t, r, b)
    BY <1>1, <1>6, NoProbe
  <2>01. PICK b \in BurstAt(t, r) :
               \/ SendBurstFrag(t, r, b)
               \/ DropBurst(t, r, b)
               \/ SendLegacy(t, r, b)
    BY <2>0
  <2>1. /\ \/ SendBurstFrag(t, r, b)
           \/ DropBurst(t, r, b)
           \/ SendLegacy(t, r, b)
        /\ UNCHANGED brx
    BY <1>1, <1>6, <2>01, NoProbe
  <2>2. SW!OpenedCur(t) = cur[t]
    BY <1>3, Sides, Names DEF t, Answers, SW!OpenedCur, SW!Opened
  <2>3. b = btx[t] /\ ~b.active
    BY <1>3, <2>1, <2>2, Sides DEF t, BurstAt, MayEngage, Answers
  <2>4. ~Sending(b)
    BY <2>3 DEF Sending
  <2>5. SendLegacy(t, r, b)
    BY <2>1, <2>4 DEF SendBurstFrag, DropBurst
  <2>6. btx' = [btx EXCEPT ![t] = btx[t]]
    BY <2>3, <2>4, <2>5 DEF SendLegacy, Refragged, Collapsed
  <2>7. UNCHANGED btx
    BY <2>6 DEF IInv, Typed, TypeOK
  <2>8. ~SW!SendPending(t) /\ ~SW!SendNew(t)
    BY <1>3, <2>2, Sides DEF t, Answers, SW!SendPending, SW!SendNew
  <2>9. \/ SW!SendAck(t)
        \/ UNCHANGED <<msgVars, await, reply_due, air, taken>>
    BY <2>5, <2>8 DEF SendLegacy
  <2>10. UNCHANGED <<queue, cur, pending>>
    BY <2>9 DEF SW!SendAck, SW!txVars, msgVars
  <2>11. CASE SW!SendAck(t)
    <3>1. air'.to = a /\ air'.kind = "nodata"
      BY <1>1, <2>11, Names DEF SW!SendAck, SW!NoDataFrame
    <3>2. Histories' /\ Answers(a)'
      BY <1>2, <1>3, <2>1, <2>7, <2>10 DEF BurstInv, Histories, Answers
    <3>3. BulkStays(a)
      BY <1>2, <2>1, <2>7, <2>10
         DEF BulkStays, BurstStays, SameBurst, SameTransfer
    <3>4. OnAir(a)'
      BY <3>1 DEF OnAir
    <3> QED
      BY <3>2, <3>3, <3>4, BulkKept DEF BurstInv
  <2>12. CASE UNCHANGED <<msgVars, await, reply_due, air, taken>>
    BY <1>2, <2>1, <2>7, <2>10, <2>12, OneWayIdle
  <2> QED
    BY <2>9, <2>11, <2>12
<1> QED
  BY <1>1, <1>2, <1>5, <1>6, NoProbe

-----------------------------------------------------------------------------
(* What a sends.  With no priority message to send, opening a message      *)
(* opens the next bulk one, if none is open.                               *)
LEMMA BulkOpened ==
  ASSUME NEW a \in Station, IInv, BurstInv(a), ~priority_waiting(a)
  PROVE  \/ /\ SW!OpenedCur(a) = cur[a] /\ SW!OpenedQueue(a) = queue[a]
         \/ /\ Bulk(a) = SW!Nothing /\ queue[a][BULK] # <<>>
            /\ SW!OpenedCur(a)["bulk"] = [msg |-> Head(queue[a][BULK]), off |-> 0]
            /\ SW!OpenedQueue(a)[BULK] = Tail(queue[a][BULK])
<1>1. /\ cur[a]["prio"] = SW!Nothing /\ queue[a][SW!QOS_CONTROL] = <<>>
      /\ queue[a][SW!QOS_INTERACTIVE] = <<>>
  BY DEF priority_waiting
<1>2. /\ cur[a] \in [SW!Stream -> SW!Open \cup {SW!Nothing}]
      /\ queue[a] \in [SW!Class -> Seq(Messages)]
  BY DEF IInv, Typed, MsgType
<1>3. SW!QOS_BULK = BULK /\ BULK \in SW!Class /\ BULK # None
      /\ "bulk" \in SW!Stream /\ SW!StreamOf(BULK) = "bulk"
  BY Sides, Names, StationAssumption DEF SW!StreamOf
<1>4. CASE cur[a]["bulk"] = SW!Nothing /\ queue[a][BULK] # <<>>
  <2>1. SW!Opened(a) = BULK
    BY <1>1, <1>3, <1>4 DEF SW!Opened
  <2>2. /\ SW!OpenedCur(a) = [cur[a] EXCEPT !["bulk"] =
                                [msg |-> Head(queue[a][BULK]), off |-> 0]]
        /\ SW!OpenedQueue(a) = [queue[a] EXCEPT ![BULK] = Tail(queue[a][BULK])]
    BY <1>3, <2>1 DEF SW!OpenedCur, SW!OpenedQueue
  <2> QED
    BY <1>2, <1>3, <1>4, <2>2 DEF Bulk
<1>5. CASE ~(cur[a]["bulk"] = SW!Nothing /\ queue[a][BULK] # <<>>)
  <2>1. SW!Opened(a) = None
    BY <1>1, <1>3, <1>5 DEF SW!Opened
  <2> QED
    BY <2>1 DEF SW!OpenedCur, SW!OpenedQueue
<1> QED
  BY <1>4, <1>5

(* The message opened is a bulk message, and the next one.                 *)
LEMMA OpenedNext ==
  ASSUME NEW a \in Station, IInv, BurstInv(a), ~priority_waiting(a),
         SW!OpenedCur(a)["bulk"] # SW!Nothing
  PROVE  /\ SW!OpenedCur(a)["bulk"].msg \in Messages
         /\ QosOf[SW!OpenedCur(a)["bulk"].msg] = BULK
<1>1. SW!OpenedCur(a)["bulk"].msg \in Messages
  <2>1. SW!OpenedCur(a)["bulk"] \in SW!Open
    BY OpenedType, Names DEF IInv, Typed
  <2> QED
    BY <2>1 DEF SW!Open
<1>2. Line(a)
  BY DEF BurstInv, BulkInv
<1>3. CASE SW!OpenedCur(a) = cur[a]
  BY <1>1, <1>2, <1>3 DEF Line, Bulk
<1>4. CASE /\ queue[a][BULK] # <<>>
           /\ SW!OpenedCur(a)["bulk"] = [msg |-> Head(queue[a][BULK]), off |-> 0]
  <2>1. queue[a][BULK] \in Seq(Messages)
    <3>1. queue \in [Station -> [SW!Class -> Seq(Messages)]]
      BY DEF IInv, Typed, MsgType
    <3> QED
      BY <3>1, Sides
  <2>2. 1 \in 1..Len(queue[a][BULK]) /\ Head(queue[a][BULK]) = queue[a][BULK][1]
    BY <1>4, <2>1
  <2> QED
    BY <1>1, <1>2, <1>4, <2>2 DEF Line
<1> QED
  BY <1>3, <1>4, BulkOpened

LEMMA LineOpens ==
  ASSUME NEW a \in Station, IInv, BurstInv(a), ~priority_waiting(a),
         SW!OpenedCur(a)["bulk"] # SW!Nothing,
         cur'[a] = SW!OpenedCur(a), queue'[a] = SW!OpenedQueue(a),
         submitted' = submitted
  PROVE  Line(a)' /\ Gone(a)' = Gone(a)
<1>1. Line(a)
  BY DEF BurstInv, BulkInv
<1>2. CASE SW!OpenedCur(a) = cur[a] /\ SW!OpenedQueue(a) = queue[a]
  <2>1. Bulk(a)' = Bulk(a) /\ One(a)' = One(a) /\ Gone(a)' = Gone(a)
    BY <1>2 DEF Bulk, One, Gone
  <2> QED
    BY <1>1, <1>2, <2>1 DEF Line
<1>3. CASE /\ Bulk(a) = SW!Nothing /\ queue[a][BULK] # <<>>
           /\ SW!OpenedCur(a)["bulk"] = [msg |-> Head(queue[a][BULK]), off |-> 0]
           /\ SW!OpenedQueue(a)[BULK] = Tail(queue[a][BULK])
  <2> DEFINE Q == queue[a][BULK]
             S == submitted[a][BULK]
             Q2 == queue'[a][BULK]
             g == Gone(a)
  <2>1. Q \in Seq(Messages) /\ S \in Seq(Messages) /\ Q # <<>> /\ Q2 = Tail(Q)
        /\ submitted'[a][BULK] = S
    <3>1. queue \in [Station -> [SW!Class -> Seq(Messages)]]
      BY DEF IInv, Typed, MsgType
    <3>2. submitted \in [Station -> [SW!Class -> Seq(Messages)]]
      BY DEF BurstInv, Histories
    <3> QED
      BY <1>3, <3>1, <3>2, Sides
  <2>2. Bulk(a)' = [msg |-> Head(Q), off |-> 0] /\ Bulk(a)' # SW!Nothing
    BY <1>3 DEF Bulk
  <2>3. One(a)' = 1 /\ One(a) = 0
    BY <1>3, <2>2 DEF One
  <2>4. g = Len(S) - Len(Q) - One(a)
        /\ Gone(a)' = Len(submitted'[a][BULK]) - Len(Q2) - One(a)'
    BY DEF Gone
  <2>5. /\ g \in Nat /\ \A i \in 1..Len(Q) : QosOf[Q[i]] = BULK
        /\ \A i \in 1..Len(Q) : S[g + One(a) + i] = Q[i]
    BY <1>1 DEF Line
  <2>6. Q2 = queue'[a][BULK] /\ submitted'[a][BULK] = S
    BY <2>1
  <2> HIDE DEF Q, S, Q2, g
  <2>7. /\ Len(Q) \in Nat /\ Len(Q) > 0 /\ Len(Q2) = Len(Q) - 1
        /\ Len(S) \in Nat /\ Head(Q) = Q[1]
        /\ \A i \in 1..Len(Q2) : Q2[i] = Q[i + 1]
    BY <2>1
  <2>8. Gone(a)' = g
    BY <2>1, <2>3, <2>4, <2>7
  <2>9. /\ \A i \in 1..Len(Q2) : QosOf[Q2[i]] = BULK
        /\ \A i \in 1..Len(Q2) : S[g + 1 + i] = Q2[i]
    <3> SUFFICES ASSUME NEW i \in 1..Len(Q2)
                 PROVE  QosOf[Q2[i]] = BULK /\ S[g + 1 + i] = Q2[i]
      OBVIOUS
    <3>1. i + 1 \in 1..Len(Q) /\ Q2[i] = Q[i + 1]
      BY <2>7
    <3>2. g + One(a) + (i + 1) = g + 1 + i
      BY <2>3, <2>5
    <3> QED
      BY <2>5, <3>1, <3>2
  <2>10. QosOf[Bulk(a)'.msg] = BULK /\ S[g + 1] = Bulk(a)'.msg
    <3>1. 1 \in 1..Len(Q) /\ g + One(a) + 1 = g + 1
      BY <2>3, <2>5, <2>7
    <3> QED
      BY <2>2, <2>5, <2>7, <3>1
  <2>11. Line(a)'
    BY <2>3, <2>5, <2>6, <2>8, <2>9, <2>10 DEF Line
  <2> QED
    BY <2>8, <2>11 DEF g
<1> QED
  BY <1>2, <1>3, BulkOpened

(* A burst that engages covers the message it opens.                       *)
LEMMA EngagedCuts ==
  ASSUME NEW a \in Station, IInv, NEW r \in Rungs, MayEngage(a, r),
         NEW b \in Engaged(a, r)
  PROVE  /\ b.active /\ b.id = (btx[a].id + 1) % 4 /\ b.acked = {}
         /\ Cuts(b, SW!OpenedCur(a)["bulk"].msg) /\ b.frag_size = FragSize[r]
         /\ Sending(b)
<1> DEFINE m == SW!OpenedCur(a)["bulk"].msg
           len == Size[m]
           fs == FragSize[r]
           n == (len + fs - 1) \div fs
           widest == IF n < BurstWindow THEN n ELSE BurstWindow
           last == len - (n - 1) * fs
<1>1. len \in Nat \ {0}
  <2>1. SW!OpenedCur(a)["bulk"] \in SW!Open
    BY OpenedType, Names DEF IInv, Typed, MayEngage
  <2>2. m \in Messages
    BY <2>1 DEF SW!Open
  <2> QED
    BY <2>2, StationAssumption
<1>2. fs \in Nat \ {0}
  BY StationAssumption DEF MayEngage
<1>3. n \in Nat \ {0} /\ last \in 1..fs
  <2> HIDE DEF len, fs
  <2> QED
    BY <1>1, <1>2, Fragments
<1>4. PICK w \in IF n > MaxFrags THEN {} ELSE 1..widest :
        b = [active |-> TRUE, id |-> (btx[a].id + 1) % 4, n |-> n,
             frag_size |-> fs, last_len |-> last, win |-> w,
             window_left |-> w, cursor |-> 0, acked |-> {}, sent |-> {}]
  BY DEF Engaged
<1>5. (n - 1) * fs + last = len
  <2> DEFINE x == (n - 1) * fs
  <2>1. x \in Nat
    <3>1. n - 1 \in Nat
      BY <1>3
    <3> HIDE DEF n, fs
    <3> QED
      BY <1>2, <3>1
  <2> HIDE DEF x, len
  <2> QED
    BY <1>1, <2>1 DEF x
<1>6. w > 0
  <2> HIDE DEF n
  <2> QED
    BY <1>3, <1>4, StationAssumption
<1> HIDE DEF n, last, fs, len, m
<1>7. /\ b.active /\ b.id = (btx[a].id + 1) % 4 /\ b.acked = {}
      /\ b.n = n /\ b.frag_size = fs /\ b.last_len = last
      /\ b.window_left = w
  BY <1>4
<1>8. Cuts(b, m)
  BY <1>2, <1>3, <1>5, <1>7 DEF Cuts, len
<1>9. Sending(b)
  BY <1>6, <1>7, EngagedType DEF Sending, Missing, IInv
<1> QED
  BY <1>7, <1>8, <1>9 DEF fs, m

(* A bulk message that may engage does.                                    *)
LEMMA AlwaysEngages ==
  ASSUME NEW a \in Station, OneWayBursts(a), IInv, BurstInv(a),
         NEW r \in Rungs, ~btx[a].active, ~pending[a].active,
         ~priority_waiting(a), SW!OpenedCur(a)["bulk"] # SW!Nothing,
         NEW b \in BurstAt(a, r)
  PROVE  MayEngage(a, r) /\ b \in Engaged(a, r)
<1> DEFINE m == SW!OpenedCur(a)["bulk"].msg
           len == Size[m]
           fs == FragSize[r]
           n == (len + fs - 1) \div fs
           widest == IF n < BurstWindow THEN n ELSE BurstWindow
           burst(w) == [active |-> TRUE, id |-> (btx[a].id + 1) % 4, n |-> n,
             frag_size |-> fs, last_len |-> len - (n - 1) * fs, win |-> w,
             window_left |-> w, cursor |-> 0, acked |-> {}, sent |-> {}]
<1>1. m \in Messages /\ QosOf[m] = BULK
  BY OpenedNext
<1>2. fs > 0 /\ n <= MaxFrags /\ BurstWindow >= 2
  BY <1>1 DEF OneWayBursts, FragsOf
<1>3. MayEngage(a, r)
  BY <1>2 DEF MayEngage
<1>4. len \in Nat \ {0} /\ fs \in Nat \ {0}
  BY <1>1, <1>2, StationAssumption
<1>5. n \in Nat \ {0}
  <2> HIDE DEF len, fs
  <2> QED
    BY <1>4, Fragments
<1>6. 1 \in IF n > MaxFrags THEN {} ELSE 1..widest
  <2> HIDE DEF n
  <2> QED
    BY <1>2, <1>5, StationAssumption
<1>7. Engaged(a, r) = {burst(w) : w \in IF n > MaxFrags THEN {} ELSE 1..widest}
  BY DEF Engaged
<1> HIDE DEF burst, n, widest
<1>8. Engaged(a, r) # {}
  BY <1>6, <1>7
<1> QED
  BY <1>3, <1>8 DEF BurstAt

(* A priority message that is opened becomes the current one, and leaves   *)
(* the bulk messages where they are.                                       *)
LEMMA PrioOpens ==
  ASSUME NEW a \in Station, IInv, SW!Opened(a) # None,
         SW!StreamOf(SW!Opened(a)) = "prio"
  PROVE  SW!OpenedCur(a)["prio"] # SW!Nothing
<1>1. cur[a] \in [SW!Stream -> SW!Open \cup {SW!Nothing}]
  BY DEF IInv, Typed, MsgType
<1>2. SW!Opened(a) \in SW!Class /\ queue[a][SW!Opened(a)] # <<>>
  BY Names DEF SW!Opened
<1>3. queue[a][SW!Opened(a)] \in Seq(Messages)
  BY <1>2 DEF IInv, Typed, MsgType
<1>4. Head(queue[a][SW!Opened(a)]) \in Messages
  BY <1>2, <1>3
<1>5. SW!OpenedCur(a)["prio"] = [msg |-> Head(queue[a][SW!Opened(a)]), off |-> 0]
  BY <1>1, Names DEF SW!OpenedCur
<1> QED
  BY <1>4, <1>5, StationAssumption DEF SW!Nothing

LEMMA PrioOnly ==
  ASSUME NEW a \in Station, IInv, SW!OpenedCur(a)["prio"] # SW!Nothing
  PROVE  /\ SW!OpenedCur(a)["bulk"] = cur[a]["bulk"]
         /\ SW!OpenedQueue(a)[BULK] = queue[a][BULK]
<1>1. /\ cur[a] \in [SW!Stream -> SW!Open \cup {SW!Nothing}]
      /\ queue[a] \in [SW!Class -> Seq(Messages)]
  BY DEF IInv, Typed, MsgType
<1>2. CASE SW!Opened(a) = None
  BY <1>2 DEF SW!OpenedCur, SW!OpenedQueue
<1>3. CASE SW!Opened(a) = BULK
  <2>1. cur[a]["prio"] = SW!Nothing
    BY <1>3, StationAssumption, Names DEF SW!Opened
  <2>2. SW!OpenedCur(a)["prio"] = cur[a]["prio"]
    BY <1>1, <1>3, Names DEF SW!OpenedCur, SW!StreamOf
  <2> QED
    BY <2>1, <2>2
<1>4. CASE SW!Opened(a) \in {SW!QOS_CONTROL, SW!QOS_INTERACTIVE}
  <2>1. SW!StreamOf(SW!Opened(a)) = "prio" /\ SW!Opened(a) # BULK
    BY <1>4, Names DEF SW!StreamOf
  <2> QED
    BY <1>1, <1>2, <2>1, Names DEF SW!OpenedCur, SW!OpenedQueue
<1> QED
  BY <1>2, <1>3, <1>4, Names DEF SW!Opened

(* No fragment is too long for a rung.                                     *)
LEMMA NeverTooLong ==
  ASSUME NEW a \in Station, OneWayBursts(a), NEW r \in Rungs, NEW q \in Rungs,
         NEW m, NEW b \in BurstTx, Cuts(b, m), b.frag_size = FragSize[q]
  PROVE  ~TooLong(b, r)
<1>1. FragSize[q] <= FragMax[r] /\ FragSize[q] \in Nat /\ FragMax[r] \in Nat
  BY StationAssumption DEF OneWayBursts
<1>2. b.last_len <= b.frag_size
  BY DEF Cuts
<1>3. FragLen(b, Candidate(b)) \in {b.last_len, b.frag_size}
  BY DEF FragLen
<1>4. b.last_len \in Nat
  BY DEF BurstTx
<1> DEFINE l == FragLen(b, Candidate(b))
<1> HIDE DEF l
<1> QED
  BY <1>1, <1>2, <1>3, <1>4 DEF TooLong, l

(* What the stop-and-wait path makes of the station: it sends priority     *)
(* messages only.                                                          *)
LEMMA OneWayLegacy ==
  ASSUME NEW a \in Station, OneWayBursts(a), IInv, BurstInv(a),
         NEW r \in Rungs, NEW b \in BurstAt(a, r), SendLegacy(a, r, b),
         air = None, UNCHANGED <<last_rx_seq, asm, log, submitted, brx>>
  PROVE  BurstInv(a)'
<1>1. Answers(a) /\ Engages(a) /\ Histories /\ Line(a)
  BY DEF BurstInv, BulkInv
<1>0. b \in BurstTx
  BY BurstAtType DEF IInv
<1>2. ~owes_ack(a)
  BY <1>1 DEF Answers, owes_ack, SW!owes_ack
<1>3. ~Sending(b)
  <2>1. CASE b = btx[a]
    <3>1. ASSUME Sending(b) PROVE FALSE
      <4>1. PICK q \in Rungs : b.frag_size = FragSize[q]
        BY <1>1, <2>1, <3>1 DEF Engages, Sending
      <4>2. Cuts(b, Bulk(a).msg)
        BY <1>1, <2>1, <3>1 DEF Engages, Sending
      <4>3. ~TooLong(b, r)
        BY <1>0, <4>1, <4>2, NeverTooLong
      <4> QED
        BY <3>1, <4>3 DEF SendLegacy
    <3> QED
      BY <3>1
  <2>2. CASE b # btx[a]
    <3>1. MayEngage(a, r) /\ b \in Engaged(a, r)
      BY <2>2 DEF BurstAt
    <3>2. Cuts(b, SW!OpenedCur(a)["bulk"].msg) /\ b.frag_size = FragSize[r]
          /\ Sending(b)
      BY <3>1, EngagedCuts
    <3>3. ~TooLong(b, r)
      BY <1>0, <3>2, NeverTooLong
    <3> QED
      BY <3>2, <3>3 DEF SendLegacy
  <2> QED
    BY <2>1, <2>2
<1>4. b = btx[a]
  <2>1. MayEngage(a, r) /\ b \in Engaged(a, r) => Sending(b)
    BY EngagedCuts
  <2> QED
    BY <1>3, <2>1 DEF BurstAt
<1>5. btx' = btx
  <2>1. btx' = [btx EXCEPT ![a] = btx[a]]
    BY <1>3, <1>4 DEF SendLegacy, Refragged, Collapsed
  <2> QED
    BY <2>1 DEF IInv, Typed, TypeOK
<1>6. Refragged(b, r) = btx[a]
  BY <1>3, <1>4 DEF Refragged, Collapsed
<1>7. CASE UNCHANGED <<msgVars, await, reply_due, air, taken>>
  BY <1>5, <1>7, OneWayIdle DEF msgVars
<1>8. CASE SW!SendPending(a)
  <2>1. UNCHANGED <<queue, cur, pending>> /\ pending[a].active
        /\ air' = SW!DataFrame(a, pending[a])
    BY <1>8 DEF SW!SendPending, SW!txVars
  <2>2. pending[a].stream = "prio"
    BY <1>1, <2>1 DEF Answers
  <2>3. air'.to = Peer(a) /\ air'.kind = "data" /\ air'.stream = "prio"
    BY <2>1, <2>2, Names DEF SW!DataFrame
  <2>4. OnAir(a)'
    BY <2>3 DEF OnAir
  <2>5. Histories' /\ Answers(a)'
    BY <1>1, <1>5, <2>1 DEF Histories, Answers
  <2>6. BulkStays(a)
    BY <1>5, <2>1 DEF BulkStays, BurstStays, SameBurst, SameTransfer
  <2> QED
    BY <2>4, <2>5, <2>6, BulkKept DEF BurstInv
<1>9. CASE SW!SendAck(a)
  BY <1>1, <1>9 DEF SW!SendAck, SW!owes_ack, Answers
<1>10. CASE SW!SendNew(a) /\ ~Owned(a, Refragged(b, r))
  <2> DEFINE oc == SW!OpenedCur(a)
  <2>1. ~pending[a].active /\ (oc["prio"] # SW!Nothing \/ oc["bulk"] # SW!Nothing)
    BY <1>10 DEF SW!SendNew
  <2>2. btx[a].active => priority_waiting(a)
    BY <1>2, <1>6, <1>10 DEF Owned
  <2>3. oc["prio"] # SW!Nothing
    <3> SUFFICES ASSUME oc["prio"] = SW!Nothing PROVE FALSE
      OBVIOUS
    <3>1. oc["bulk"] # SW!Nothing
      BY <2>1
    <3>2. ~priority_waiting(a)
      <4>1. CASE cur[a]["prio"] # SW!Nothing
        BY <4>1 DEF SW!OpenedCur, SW!Opened
      <4>2. CASE cur[a]["prio"] = SW!Nothing /\ queue[a][SW!QOS_CONTROL] # <<>>
        <5>1. SW!Opened(a) = SW!QOS_CONTROL /\ SW!Opened(a) # None
              /\ SW!StreamOf(SW!Opened(a)) = "prio"
          BY <4>2, Names, StationAssumption DEF SW!Opened, SW!StreamOf
        <5> QED
          BY <5>1, PrioOpens
      <4>3. CASE /\ cur[a]["prio"] = SW!Nothing /\ queue[a][SW!QOS_CONTROL] = <<>>
                 /\ queue[a][SW!QOS_INTERACTIVE] # <<>>
        <5>1. SW!Opened(a) = SW!QOS_INTERACTIVE /\ SW!Opened(a) # None
              /\ SW!StreamOf(SW!Opened(a)) = "prio"
          BY <4>3, Names, StationAssumption DEF SW!Opened, SW!StreamOf
        <5> QED
          BY <5>1, PrioOpens
      <4> QED
        BY <4>1, <4>2, <4>3 DEF priority_waiting
    <3>3. ~btx[a].active
      BY <2>2, <3>2
    <3>4. MayEngage(a, r) /\ b \in Engaged(a, r)
      BY <2>1, <3>1, <3>2, <3>3, AlwaysEngages
    <3> QED
      BY <1>3, <3>4, EngagedCuts
  <2>4. PICK cap \in ChunkCaps :
          LET f == SW!Cut(a, "prio", oc["prio"], cap)
          IN  /\ pending' = [pending EXCEPT ![a] = f]
              /\ air' = SW!DataFrame(a, f)
    BY <1>10, <2>3 DEF SW!SendNew
  <2>5. cur' = [cur EXCEPT ![a] = oc]
        /\ queue' = [queue EXCEPT ![a] = SW!OpenedQueue(a)]
    BY <1>10 DEF SW!SendNew
  <2> DEFINE f == SW!Cut(a, "prio", oc["prio"], cap)
  <2>6. f.stream = "prio"
    BY DEF SW!Cut
  <2>7. pending' = [pending EXCEPT ![a] = f] /\ air' = SW!DataFrame(a, f)
    BY <2>4
  <2> HIDE DEF f, oc
  <2>8. air'.to = Peer(a) /\ air'.kind = "data" /\ air'.stream = "prio"
    BY <2>6, <2>7, Names DEF SW!DataFrame
  <2>9. pending'[a] = f /\ pending'[Peer(a)] = pending[Peer(a)]
    BY <2>7, Sides DEF IInv, Typed, MsgType
  <2>10. cur'[a] = oc /\ cur'[Peer(a)] = cur[Peer(a)]
         /\ queue'[a] = SW!OpenedQueue(a) /\ queue'[Peer(a)] = queue[Peer(a)]
    BY <2>5, Sides DEF IInv, Typed, MsgType
  <2>11. oc["bulk"] = cur[a]["bulk"] /\ SW!OpenedQueue(a)[BULK] = queue[a][BULK]
    BY <2>3, PrioOnly DEF oc
  <2>12. OnAir(a)'
    BY <2>8 DEF OnAir
  <2>13. Histories' /\ Answers(a)'
    BY <1>1, <1>5, <2>6, <2>9, <2>10 DEF Histories, Answers
  <2>14. BulkStays(a)
    BY <1>5, <2>10, <2>11 DEF BulkStays, BurstStays, SameBurst, SameTransfer
  <2> QED
    BY <2>12, <2>13, <2>14, BulkKept DEF BurstInv
<1>11. \/ UNCHANGED <<msgVars, await, reply_due, air, taken>>
       \/ /\ ~Owned(a, Refragged(b, r))
          /\ SW!SendPending(a) \/ SW!SendNew(a) \/ SW!SendAck(a)
  BY DEF SendLegacy
<1> QED
  BY <1>7, <1>8, <1>9, <1>10, <1>11

(* A fragment of a burst: of one that goes on, or of one that engages on   *)
(* the next message.                                                       *)
LEMMA OneWayFragment ==
  ASSUME NEW a \in Station, OneWayBursts(a), IInv, BurstInv(a),
         NEW r \in Rungs, NEW b \in BurstAt(a, r), SendBurstFrag(a, r, b),
         air = None, UNCHANGED <<last_rx_seq, asm, log, submitted, brx>>
  PROVE  BurstInv(a)'
<1> DEFINE t == Peer(a)
           i == Candidate(b)
           open == IF btx[a].active THEN cur[a] ELSE SW!OpenedCur(a)
           m == open["bulk"].msg
           nb == [b EXCEPT !.cursor = i + 1, !.sent = @ \cup {i},
                           !.window_left = IF Asks(b) THEN 0 ELSE @ - 1]
<1>1. Answers(a) /\ Engages(a) /\ Histories /\ Line(a) /\ Knows(a)
      /\ Whole(a) /\ Completed(a)
  BY DEF BurstInv, BulkInv
<1>2. b \in BurstTx /\ Sending(b) /\ i \in 0..b.n - 1
  <2>1. b \in BurstTx /\ Sending(b)
    BY BurstAtType DEF IInv, SendBurstFrag
  <2> QED
    BY <2>1, CandidateIn DEF Sending
<1>3. /\ air' = [to |-> Peer(a), kind |-> "burst", id |-> b.id,
                 ack |-> SW!AckField(a), idx |-> i, n |-> b.n,
                 frag_size |-> b.frag_size, ack_req |-> Asks(b),
                 chunk |-> SW!Units(m, i * b.frag_size, FragLen(b, i))]
      /\ btx' = [btx EXCEPT ![a] = nb]
      /\ cur' = [cur EXCEPT ![a] = open]
      /\ queue' = [queue EXCEPT ![a] =
                     IF btx[a].active THEN @ ELSE SW!OpenedQueue(a)]
      /\ UNCHANGED pending
      /\ open["bulk"] # SW!Nothing
  BY DEF SendBurstFrag
<1> HIDE DEF i, open, m
<1>4. SameBurst(nb, b)
  BY <1>2 DEF SameBurst, BurstTx
<1> HIDE DEF nb
<1>5. /\ btx'[a] = nb /\ btx'[t] = btx[t]
      /\ cur'[a] = open /\ cur'[t] = cur[t] /\ queue'[t] = queue[t]
      /\ queue'[a] = IF btx[a].active THEN queue[a] ELSE SW!OpenedQueue(a)
  BY <1>3, Sides DEF IInv, Typed, TypeOK, MsgType
<1>6. Histories' /\ Answers(a)'
  BY <1>1, <1>3, <1>5 DEF Histories, Answers
<1>7. b.active
  BY <1>2 DEF Sending
<1>8. OnAir(a)'
  <2>1. Bulk(a)'.msg = m
    BY <1>5 DEF Bulk, m
  <2>2. /\ btx'[a].active /\ btx'[a].id = b.id /\ btx'[a].n = b.n
        /\ btx'[a].frag_size = b.frag_size /\ FragLen(btx'[a], i) = FragLen(b, i)
    BY <1>4, <1>5, <1>7 DEF SameBurst, FragLen
  <2>3. /\ air'.to = Peer(a) /\ air'.kind = "burst" /\ air'.id = b.id
        /\ air'.n = b.n /\ air'.frag_size = b.frag_size /\ air'.idx = i
        /\ air'.chunk = SW!Units(m, i * b.frag_size, FragLen(b, i))
    BY <1>3
  <2>4. OfBurst(a, air)'
    BY <1>2, <2>1, <2>2, <2>3 DEF OfBurst
  <2> QED
    BY <2>3, <2>4 DEF OnAir
<1>9. CASE btx[a].active
  <2>1. b = btx[a] /\ open = cur[a]
    BY <1>9 DEF BurstAt, MayEngage, open
  <2>2. BulkStays(a)
    BY <1>4, <1>5, <1>9, <2>1 DEF BulkStays, BurstStays, SameTransfer
  <2> QED
    BY <1>6, <1>8, <2>2, BulkKept DEF BurstInv
<1>10. CASE ~btx[a].active
  <2>1. MayEngage(a, r) /\ b \in Engaged(a, r)
    BY <1>7, <1>10 DEF BurstAt
  <2>2. open = SW!OpenedCur(a) /\ ~priority_waiting(a)
    BY <1>10, <2>1 DEF open, MayEngage
  <2>3. Line(a)' /\ Gone(a)' = Gone(a)
    BY <1>3, <1>5, <1>10, <2>2, LineOpens
  <2>4. /\ b.id = (btx[a].id + 1) % 4 /\ b.acked = {}
        /\ Cuts(b, m) /\ b.frag_size = FragSize[r]
    BY <2>1, <2>2, EngagedCuts DEF m
  <2>5. Engages(a)'
    <3>1. Bulk(a)' = open["bulk"] /\ Bulk(a)' # SW!Nothing /\ Bulk(a)'.msg = m
      BY <1>3, <1>5 DEF Bulk, m
    <3>2. Cuts(nb, m) /\ nb.frag_size = FragSize[r]
      BY <1>4, <2>4 DEF SameBurst, Cuts
    <3> QED
      BY <1>5, <3>1, <3>2 DEF Engages
  <2>6. brx[t].id = btx[a].id /\ btx[a].id \in 0..3
    BY <1>1, <1>10 DEF Knows, IInv, Typed, TypeOK, BurstTx
  <2>7. nb.id # btx[a].id /\ (nb.id + 3) % 4 = btx[a].id /\ nb.acked = {}
        /\ nb.active
    <3>1. nb.id = (btx[a].id + 1) % 4 /\ nb.acked = {} /\ nb.active
      BY <1>4, <1>7, <2>4 DEF SameBurst
    <3>2. btx[a].id = 0 \/ btx[a].id = 1 \/ btx[a].id = 2 \/ btx[a].id = 3
      BY <2>6
    <3> QED
      BY <3>1, <3>2
  <2>8. ~Mine(a)' /\ ~Mine(a)
    BY <1>5, <1>10, <2>6, <2>7 DEF Mine
  <2>9. Knows(a)'
    <3>1. brx'[t].id = btx[a].id /\ btx'[a] = nb
      BY <1>5, <2>6
    <3> QED
      BY <2>7, <2>8, <3>1 DEF Knows
  <2>10. Whole(a)'
    BY <2>8 DEF Whole
  <2>11. Done(a) = 0 /\ Done(a)' = 0
    BY <2>8 DEF Done
  <2>12. Completed(a)'
    BY <1>1, <2>3, <2>11 DEF Completed
  <2> QED
    BY <1>6, <1>8, <2>3, <2>5, <2>9, <2>10, <2>12 DEF BurstInv, BulkInv
<1> QED
  BY <1>9, <1>10

LEMMA OneWayPoll ==
  ASSUME NEW a \in Station, OneWayBursts(a), IInv, BurstInv(a), Poll(a)
  PROVE  BurstInv(a)'
<1>1. /\ air = None /\ UNCHANGED <<last_rx_seq, asm, log, submitted>>
      /\ SendBurstAck(a) \/ SendCaps(a) \/ SendMessage(a)
  BY DEF Poll, inVars
<1>2. SendMessage(a)
  BY <1>1, NoProbe DEF BurstInv, Answers, SendBurstAck
<1>3. PICK r \in Rungs : \E b \in BurstAt(a, r) :
        \/ SendBurstFrag(a, r, b)
        \/ DropBurst(a, r, b)
        \/ SendLegacy(a, r, b)
  BY <1>2, NoProbe
<1>4. PICK b \in BurstAt(a, r) :
        \/ SendBurstFrag(a, r, b)
        \/ DropBurst(a, r, b)
        \/ SendLegacy(a, r, b)
  BY <1>3
<1>5. UNCHANGED brx
  BY <1>2, NoProbe
<1>6. ~DropBurst(a, r, b)
  BY DEF DropBurst, BurstInv, BulkInv, Engages, Bulk
<1>7. CASE SendBurstFrag(a, r, b)
  BY <1>1, <1>5, <1>7, OneWayFragment
<1>8. CASE SendLegacy(a, r, b)
  BY <1>1, <1>5, <1>8, OneWayLegacy
<1> QED
  BY <1>4, <1>6, <1>7, <1>8

-----------------------------------------------------------------------------
(* What a hears: an answer, or the bitmap of the transfer.                 *)
LEMMA OneWayAnswer ==
  ASSUME NEW a \in Station, IInv, BurstInv(a), Receive(a)
  PROVE  BurstInv(a)'
<1> DEFINE t == Peer(a)
           after == SW!RetiredCur(a, air)
           b == btx[a]
           R == brx[t]
<1>1. Answers(a) /\ Engages(a) /\ Histories /\ Line(a) /\ Knows(a)
      /\ Whole(a) /\ Completed(a) /\ OnAir(a)
  BY DEF BurstInv, BulkInv
<1>2. /\ air # None /\ air.to = a /\ air' = None
      /\ UNCHANGED <<queue, submitted>>
      /\ \/ ReceiveCaps(a, air)
         \/ ReceiveBurstAck(a, air)
         \/ ReceiveBurst(a, air)
         \/ ReceiveData(a, air)
         \/ ReceiveNoData(a, air)
  BY DEF Receive
<1>3. \/ air.kind = "nodata"
      \/ air.kind = "burst_ack" /\ air.ack = brx[t].id /\ air.have = brx[t].have
  BY <1>1, <1>2, Sides DEF OnAir
<1>4. ReceiveBurstAck(a, air) \/ ReceiveNoData(a, air)
  BY <1>2, <1>3 DEF ReceiveCaps, ReceiveBurst, ReceiveData
<1>5. /\ pending' = [pending EXCEPT ![a] =
                       IF SW!Retires(a, air) THEN SW!NoFragment ELSE @]
      /\ UNCHANGED <<last_rx_seq, asm, log, brx>>
  BY <1>4 DEF ReceiveBurstAck, ReceiveNoData, RetirePending, SW!Retire, inVars
<1>6. /\ pending'[t] = pending[t]
      /\ pending'[a] = pending[a] \/ ~pending'[a].active
  BY <1>5, Sides DEF IInv, Typed, MsgType, SW!NoFragment
<1>7. after["bulk"] = cur[a]["bulk"]
      /\ after \in [SW!Stream -> SW!Open \cup {SW!Nothing}]
  <2>1. after["bulk"] = cur[a]["bulk"]
    BY <1>1, RetiredBulk
  <2> QED
    BY <2>1, RetireType DEF IInv
<1>8. OnAir(a)'
  BY <1>2 DEF OnAir
<1>9. ASSUME btx'[t] = btx[t], cur'[t] = cur[t]
      PROVE  Histories' /\ Answers(a)'
  <2>1. pending'[a].active => pending'[a].stream = "prio"
    BY <1>1, <1>6 DEF Answers
  <2> QED
    BY <1>1, <1>2, <1>5, <1>6, <1>9, <2>1 DEF Histories, Answers
<1>10. ASSUME cur'[a]["bulk"] = cur[a]["bulk"], cur'[t] = cur[t],
              btx'[t] = btx[t], SameBurst(btx'[a], btx[a])
       PROVE  BurstInv(a)'
  <2>1. BulkStays(a)
    BY <1>2, <1>5, <1>10 DEF BulkStays, BurstStays, SameTransfer
  <2> QED
    BY <1>8, <1>9, <1>10, <2>1, BulkKept DEF BurstInv
<1>11. CASE ReceiveNoData(a, air)
  <2>1. cur' = [cur EXCEPT ![a] = after] /\ UNCHANGED btx
    BY <1>11 DEF ReceiveNoData, SW!Retire
  <2> HIDE DEF after
  <2>2. cur'[a] = after /\ cur'[t] = cur[t]
    BY <2>1, Sides DEF IInv, Typed, MsgType
  <2> QED
    BY <1>7, <1>10, <2>1, <2>2 DEF SameBurst
<1>12. CASE ReceiveBurstAck(a, air) /\ air.kind = "burst_ack"
  <2> DEFINE acked == b.acked \cup air.have
             mine == b.active /\ air.ack = b.id
             all == AllAcked(b, acked)
             nb == CASE mine /\ all -> Disengaged(b.id)
                     [] mine /\ ~all -> [b EXCEPT !.acked = acked, !.sent = {},
                                                 !.window_left = b.win]
                     [] OTHER -> b
             nc == IF mine /\ all THEN [after EXCEPT !["bulk"] = SW!Nothing]
                   ELSE after
  <2>1. btx' = [btx EXCEPT ![a] = nb] /\ cur' = [cur EXCEPT ![a] = nc]
    BY <1>12 DEF ReceiveBurstAck
  <2>2. air.ack = R.id /\ air.have = R.have
    BY <1>3, <1>12
  <2>3. b \in BurstTx /\ R \in BurstRx
    BY Sides DEF IInv, Typed, TypeOK
  <2>4. mine <=> Mine(a)
    BY <2>2, <2>3 DEF Mine, BurstTx
  <2> HIDE DEF after, nb, nc
  <2>5. /\ btx'[a] = nb /\ btx'[t] = btx[t] /\ cur'[a] = nc /\ cur'[t] = cur[t]
    BY <2>1, Sides DEF IInv, Typed, TypeOK, MsgType
  <2>6. CASE ~mine
    BY <1>7, <1>10, <2>5, <2>6 DEF nb, nc, SameBurst
  <2>7. CASE mine
    <3>1. /\ R.active /\ R.n = b.n /\ R.frag_size = b.frag_size
          /\ b.acked \subseteq R.have /\ R.have \subseteq 0..b.n - 1
          /\ R.done <=> R.have = 0..b.n - 1
      BY <1>1, <2>4, <2>7 DEF Knows
    <3>2. acked = R.have
      BY <2>2, <3>1
    <3>3. b.active /\ Bulk(a) # SW!Nothing /\ R.id = b.id
      BY <1>1, <2>2, <2>7 DEF Engages
    <3> HIDE DEF acked
    <3>4. CASE ~all
      <4>1. nb = [b EXCEPT !.acked = acked, !.sent = {}, !.window_left = b.win]
            /\ nc = after
        BY <2>7, <3>4 DEF nb, nc
      <4>2. /\ nb.active = b.active /\ nb.id = b.id /\ nb.n = b.n
            /\ nb.frag_size = b.frag_size /\ nb.last_len = b.last_len
            /\ nb.acked = acked
        BY <2>3, <4>1 DEF BurstTx
      <4> HIDE DEF nb, nc
      <4>3. Bulk(a)' = Bulk(a) /\ One(a)' = One(a)
        BY <1>7, <2>5, <4>1 DEF Bulk, One
      <4>4. Gone(a)' = Gone(a)
        BY <1>2, <4>3 DEF Gone
      <4>5. Line(a)'
        BY <1>1, <1>2, <4>3, <4>4 DEF Line
      <4>6. Engages(a)'
        BY <1>1, <2>5, <4>2, <4>3 DEF Engages, Cuts
      <4>7. Mine(a)' = Mine(a)
        BY <1>5, <2>5, <4>2 DEF Mine
      <4>8. Mine(a)
        BY <2>4, <2>7
      <4>9. Knows(a)'
        BY <1>1, <1>5, <2>5, <3>1, <3>2, <3>3, <4>2, <4>7, <4>8 DEF Knows
      <4>10. Whole(a)'
        BY <1>1, <1>5, <2>5, <4>2, <4>3, <4>7 DEF Whole, FragLen
      <4>11. Done(a)' = Done(a)
        BY <1>5, <4>7 DEF Done
      <4>12. Completed(a)'
        BY <1>1, <1>2, <1>5, <4>4, <4>11 DEF Completed
      <4>13. Histories' /\ Answers(a)'
        BY <1>9, <2>5
      <4> QED
        BY <1>8, <4>5, <4>6, <4>9, <4>10, <4>12, <4>13 DEF BurstInv, BulkInv
    <3>5. CASE all
      <4>1. nb = Disengaged(b.id) /\ nc = [after EXCEPT !["bulk"] = SW!Nothing]
        BY <2>7, <3>5 DEF nb, nc
      <4>2. ~nb.active /\ nb.id = b.id
        BY <4>1 DEF Disengaged
      <4>3. nc["bulk"] = SW!Nothing
        BY <1>7, <4>1, Sides
      <4> HIDE DEF nb, nc
      <4>4. R.have = 0..b.n - 1 /\ R.done
        BY <3>1, <3>2, <3>5 DEF AllAcked
      <4>5. Done(a) = 1
        BY <2>4, <2>7, <4>4 DEF Done
      <4>6. One(a) = 1 /\ One(a)' = 0 /\ Bulk(a)' = SW!Nothing
        BY <2>5, <3>3, <4>3 DEF One, Bulk
      <4> DEFINE Q == queue[a][BULK]
                 S == submitted[a][BULK]
                 g == Gone(a)
      <4>7. Q \in Seq(Messages) /\ S \in Seq(Messages)
        <5>1. queue \in [Station -> [SW!Class -> Seq(Messages)]]
          BY DEF IInv, Typed, MsgType
        <5>2. submitted \in [Station -> [SW!Class -> Seq(Messages)]]
          BY <1>1 DEF Histories
        <5> QED
          BY <5>1, <5>2, Sides
      <4>8. g = Len(S) - Len(Q) - 1 /\ Gone(a)' = Len(S) - Len(Q) - 0
            /\ queue'[a][BULK] = Q /\ submitted'[a][BULK] = S
        BY <1>2, <4>6 DEF Gone
      <4>9. /\ g \in Nat /\ \A i \in 1..Len(Q) : QosOf[Q[i]] = BULK
            /\ \A i \in 1..Len(Q) : S[g + 1 + i] = Q[i]
        BY <1>1, <4>6 DEF Line
      <4> HIDE DEF Q, S, g
      <4>10. Gone(a)' = g + 1 /\ g + 1 \in Nat
        BY <4>7, <4>8, <4>9
      <4>11. \A i \in 1..Len(Q) : S[(g + 1) + 0 + i] = Q[i]
        <5> SUFFICES ASSUME NEW i \in 1..Len(Q)
                     PROVE  S[(g + 1) + 0 + i] = Q[i]
          OBVIOUS
        <5>1. (g + 1) + 0 + i = g + 1 + i
          BY <4>9
        <5> QED
          BY <4>9, <5>1
      <4>12. Line(a)'
        BY <4>6, <4>8, <4>9, <4>10, <4>11 DEF Line
      <4>13. ~Mine(a)' /\ Done(a)' = 0
        BY <2>5, <4>2 DEF Mine, Done
      <4>14. Engages(a)' /\ Whole(a)'
        BY <2>5, <4>2, <4>13 DEF Engages, Whole
      <4>15. Knows(a)'
        BY <1>5, <2>5, <3>3, <4>2, <4>13 DEF Knows
      <4>16. Completed(a)'
        <5>1. Len(log[t]["bulk"]) = g + 1
          BY <1>1, <4>5 DEF Completed, g
        <5>2. g + 1 = Gone(a)' + Done(a)'
          BY <4>9, <4>10, <4>13
        <5> QED
          BY <1>1, <1>2, <1>5, <5>1, <5>2 DEF Completed
      <4>17. Histories' /\ Answers(a)'
        BY <1>9, <2>5
      <4> QED
        BY <1>8, <4>12, <4>14, <4>15, <4>16, <4>17 DEF BurstInv, BulkInv
    <3> QED
      BY <3>4, <3>5
  <2> QED
    BY <2>6, <2>7
<1>13. ReceiveBurstAck(a, air) => air.kind = "burst_ack"
  BY DEF ReceiveBurstAck
<1> QED
  BY <1>4, <1>11, <1>12, <1>13

-----------------------------------------------------------------------------
(* Fragments that hold the units of a message at their places hold all of  *)
(* the message.                                                            *)
Placed(n, fs, last, c) ==
  \E i \in 0..n - 1 :
    \E j \in 1..(IF i = n - 1 THEN last ELSE fs) : c = i * fs + j
LEMMA FragmentsCover ==
  ASSUME NEW n \in Nat \ {0}, NEW fs \in Nat \ {0}, NEW last \in 1..fs,
         NEW c \in 1..(n - 1) * fs + last
  PROVE  Placed(n, fs, last, c)
<1> DEFINE p == c - 1
           q == p \div fs
           r == p % fs
           w == (n - 1) * fs
<1>1. w \in Nat
  <2>1. n - 1 \in Nat
    OBVIOUS
  <2> QED
    BY <2>1, SMTT(30)
<1>2. p \in Nat /\ c \in Nat /\ c <= w + last
  <2> HIDE DEF w
  <2> QED
    BY <1>1 DEF w
<1> HIDE DEF p
<1>3. p = fs * q + r /\ q \in Nat
  BY <1>2, Division
<1>4. r \in 0..fs - 1
  BY <1>2, ModRange
<1> HIDE DEF q, r
<1> DEFINE v == fs * q
<1>5. v \in Nat /\ q * fs = v
  BY <1>3, SMTT(30)
<1>6. c = v + (r + 1)
  <2> HIDE DEF v
  <2> QED
    BY <1>2, <1>3, <1>4, <1>5 DEF p, v
<1>7. q <= n - 1
  <2> SUFFICES ASSUME q > n - 1 PROVE FALSE
    BY <1>3
  <2> DEFINE d == q - (n - 1)
  <2>1. d \in Nat \ {0} /\ n - 1 \in Nat
    BY <1>3
  <2>2. fs * d >= fs
    <3> HIDE DEF d
    <3> QED
      BY <2>1, Grow
  <2>3. v = w + fs * d
    BY <1>3, SMTT(30)
  <2> DEFINE x == fs * d
  <2>4. x \in Int
    <3> HIDE DEF d
    <3> QED
      BY <2>1, SMTT(30)
  <2>5. x >= fs /\ v = w + x
    BY <2>2, <2>3
  <2> HIDE DEF x, v, w
  <2> QED
    BY <1>1, <1>2, <1>4, <1>5, <1>6, <2>4, <2>5
<1>8. CASE q = n - 1
  <2>1. v = w
    BY <1>5, <1>8
  <2> HIDE DEF v, w
  <2>2. r + 1 \in 1..last
    BY <1>1, <1>2, <1>4, <1>6, <2>1
  <2>3. c = q * fs + (r + 1)
    BY <1>5, <1>6
  <2>4. q \in 0..n - 1 /\ r + 1 \in 1..(IF q = n - 1 THEN last ELSE fs)
    BY <1>3, <1>7, <1>8, <2>2
  <2> QED
    BY <2>3, <2>4 DEF Placed
<1>9. CASE q # n - 1
  <2>1. r + 1 \in 1..fs /\ q \in 0..n - 1
    BY <1>3, <1>4, <1>7
  <2>2. c = q * fs + (r + 1)
    BY <1>5, <1>6
  <2> HIDE DEF v, w
  <2> QED
    BY <1>9, <2>1, <2>2 DEF Placed
<1> QED
  BY <1>8, <1>9

LEMMA SameUnits ==
  ASSUME NEW X, NEW s \in Seq(X), NEW t \in Seq(X), Len(s) = Len(t),
         \A i \in 1..Len(s) : s[i] = t[i]
  PROVE  s = t
  OBVIOUS

(* A buffer all of whose fragments are true begins with the message.       *)
LEMMA BufferWhole ==
  ASSUME NEW b \in BurstTx, NEW m \in Messages, Cuts(b, m),
         NEW buffer \in [1..AsmMax -> Unit \cup {None}],
         \A i \in 0..b.n - 1 :
           /\ i * b.frag_size + FragLen(b, i) <= AsmMax
           /\ \A j \in 1..FragLen(b, i) :
                buffer[i * b.frag_size + j] = <<m, i * b.frag_size + j>>
  PROVE  /\ Size[m] <= AsmMax
         /\ SubSeq(buffer, 1, Size[m]) = SW!Units(m, 0, Size[m])
<1> DEFINE n == b.n
           fs == b.frag_size
           last == b.last_len
           w == (n - 1) * fs
           len == Size[m]
<1>1. /\ n \in Nat \ {0} /\ fs \in Nat \ {0} /\ last \in 1..fs
      /\ w + last = len /\ len \in Nat \ {0} /\ AsmMax \in Nat
  <2>1. b.n \in Nat /\ b.frag_size \in Nat /\ b.last_len \in Nat
    BY StationAssumption DEF BurstTx
  <2> QED
    BY <2>1, StationAssumption DEF Cuts
<1>2. len <= AsmMax
  <2>1. n - 1 \in 0..b.n - 1 /\ FragLen(b, n - 1) = last
    BY <1>1 DEF FragLen
  <2> QED
    BY <1>1, <2>1
<1>3. ASSUME NEW c \in 1..len PROVE buffer[c] = <<m, c>>
  <2>1. c \in 1..(n - 1) * fs + last
    BY <1>1
  <2> HIDE DEF w, n, fs, last
  <2>2. Placed(n, fs, last, c)
    BY <1>1, <2>1, FragmentsCover
  <2>3. PICK i \in 0..n - 1 :
           \E j \in 1..(IF i = n - 1 THEN last ELSE fs) : c = i * fs + j
    BY <2>2 DEF Placed
  <2>4. PICK j \in 1..(IF i = n - 1 THEN last ELSE fs) : c = i * fs + j
    BY <2>3
  <2>5. FragLen(b, i) = IF i = n - 1 THEN last ELSE fs
    BY DEF FragLen, n, last, fs
  <2>6. i \in 0..b.n - 1 /\ j \in 1..FragLen(b, i)
    BY <2>5 DEF n
  <2>7. buffer[i * b.frag_size + j] = <<m, i * b.frag_size + j>>
    BY <2>6
  <2> QED
    BY <2>4, <2>7 DEF fs
<1> HIDE DEF len, w, n, fs, last
<1> DEFINE X == Unit \cup {None}
           s == SubSeq(buffer, 1, len)
           t == SW!Units(m, 0, len)
<1>4. buffer \in Seq(X) /\ Len(buffer) = AsmMax
  BY <1>1
<1>5. s \in Seq(X) /\ Len(s) = len /\ \A i \in 1..len : s[i] = buffer[i]
  BY <1>1, <1>2, <1>4
<1>6. t \in Seq(Unit) /\ Len(t) = len /\ \A i \in 1..len : t[i] = <<m, i>>
  <2>1. t \in Seq(Unit)
    BY <1>1, UnitsType
  <2>2. t = [i \in 1..len |-> <<m, 0 + i>>]
    BY DEF SW!Units
  <2> QED
    BY <1>1, <2>1, <2>2
<1>7. t \in Seq(X)
  <2> HIDE DEF t
  <2> QED
    BY <1>6
<1> HIDE DEF s, t, X
<1>8. s = t
  BY <1>3, <1>5, <1>6, <1>7, SameUnits
<1> QED
  BY <1>2, <1>8 DEF s, t, len

(* The transfer a fragment belongs to, before it is placed: the one that   *)
(* is known, or a new one of which nothing has come.                       *)
Before(a, T) ==
  LET b == btx[a]
  IN  /\ T.active /\ T.id = b.id /\ T.n = b.n /\ T.frag_size = b.frag_size
      /\ b.acked \subseteq T.have /\ T.have \subseteq 0..b.n - 1
      /\ T.done <=> T.have = 0..b.n - 1
      /\ T.last_len \in {0, b.last_len}
      /\ b.n - 1 \in T.have => T.last_len = b.last_len
      /\ \A i \in T.have :
           /\ i * b.frag_size + FragLen(b, i) <= AsmMax
           /\ \A j \in 1..FragLen(b, i) :
                asm[Peer(a)]["bulk"][i * b.frag_size + j]
                  = <<Bulk(a).msg, i * b.frag_size + j>>
      /\ Len(log[Peer(a)]["bulk"]) = Gone(a) + (IF T.done THEN 1 ELSE 0)

LEMMA TransferKnown ==
  ASSUME NEW a \in Station, IInv, BurstInv(a), NEW f, OfBurst(a, f)
  PROVE  Before(a, Transfer(Peer(a), f)) /\ Transfer(Peer(a), f) \in BurstRx
<1> DEFINE t == Peer(a)
           b == btx[a]
           R == brx[t]
<1>1. Engages(a) /\ Line(a) /\ Knows(a) /\ Whole(a) /\ Completed(a)
  BY DEF BurstInv, BulkInv
<1>2. b \in BurstTx /\ R \in BurstRx
  BY Sides DEF IInv, Typed, TypeOK
<1>3. b.active /\ f.id = b.id /\ f.n = b.n /\ f.frag_size = b.frag_size
  BY DEF OfBurst
<1>4. CASE Mine(a)
  <2>1. /\ R.active /\ R.id = b.id /\ R.n = b.n /\ R.frag_size = b.frag_size
        /\ b.acked \subseteq R.have /\ R.have \subseteq 0..b.n - 1
        /\ R.done <=> R.have = 0..b.n - 1
        /\ R.last_len \in {0, b.last_len}
        /\ b.n - 1 \in R.have => R.last_len = b.last_len
    BY <1>1, <1>4 DEF Knows, Mine
  <2>2. Transfer(t, f) = R
    BY <1>3, <2>1 DEF Transfer, Same
  <2>3. Len(log[t]["bulk"]) = Gone(a) + (IF R.done THEN 1 ELSE 0)
    BY <1>1, <1>4 DEF Completed, Done
  <2> QED
    BY <1>1, <1>2, <1>4, <2>1, <2>2, <2>3 DEF Before, Whole
<1>5. CASE ~Mine(a)
  <2> DEFINE T == [NoTransfer EXCEPT !.active = TRUE, !.id = f.id, !.n = f.n,
                                     !.frag_size = f.frag_size]
  <2>1. R.id # b.id /\ b.acked = {}
    BY <1>1, <1>3, <1>5 DEF Mine, Knows
  <2>2. Transfer(t, f) = T
    BY <1>3, <2>1 DEF Transfer, Same
  <2>3. /\ T.active /\ T.id = b.id /\ T.n = b.n /\ T.frag_size = b.frag_size
        /\ T.have = {} /\ ~T.done /\ T.last_len = 0
    BY <1>3 DEF NoTransfer
  <2>4. b.n > 0 /\ b.n \in Nat
    BY <1>1, <1>2, <1>3, StationAssumption DEF Engages, Cuts, BurstTx
  <2>5. 0 \in 0..b.n - 1
    BY <2>4
  <2>6. Len(log[t]["bulk"]) = Gone(a) + 0
    BY <1>1, <1>5 DEF Completed, Done
  <2>7. T \in BurstRx
    BY <1>2, <1>3, StationAssumption DEF NoTransfer, BurstRx, BurstTx
  <2> HIDE DEF T
  <2> QED
    BY <2>1, <2>2, <2>3, <2>5, <2>6, <2>7 DEF Before
<1> QED
  BY <1>4, <1>5

(* A fragment of the burst reaches the peer.  What it writes is of the     *)
(* message, at its place; a refusal takes back the fragment that came, not *)
(* one that was acknowledged; and what is stored is the message.           *)
LEMMA OneWayStored ==
  ASSUME NEW a \in Station, IInv, BurstInv(a), air # None, air.to = Peer(a),
         ReceiveBurst(Peer(a), air), air' = None, UNCHANGED <<queue, submitted>>
  PROVE  BurstInv(a)'
<1> DEFINE t == Peer(a)
           f == air
           b == btx[a]
           m == Bulk(a).msg
           T == Transfer(t, f)
           at == f.idx * f.frag_size
           fits == at + Len(f.chunk) <= AsmMax
           have == IF fits THEN T.have \cup {f.idx} ELSE T.have
           last_len == IF fits /\ f.idx = f.n - 1 THEN Len(f.chunk)
                       ELSE T.last_len
           old == asm[t]["bulk"]
           buffer == IF fits THEN Overlay(old, at, f.chunk) ELSE old
           len == (f.n - 1) * f.frag_size + last_len
           complete == ~T.done /\ last_len > 0 /\ have = 0..f.n - 1
           stored == complete /\ HasRoom(t, len)
           refused == complete /\ ~HasRoom(t, len)
           entry == [units |-> SubSeq(buffer, 1, len), kept |-> TRUE]
           nh == IF refused THEN GivenBack(have, f) ELSE have
           nt == [T EXCEPT !.have = nh, !.last_len = last_len,
                           !.ack_due = @ \/ f.ack_req \/ refused,
                           !.done = @ \/ stored]
<1>1. /\ f.kind = "burst" /\ SW!Retire(t, f)
      /\ asm' = [asm EXCEPT ![t]["bulk"] = buffer]
      /\ brx' = [brx EXCEPT ![t] = nt]
      /\ log' = [log EXCEPT ![t]["bulk"] =
                   IF stored THEN Append(@, entry) ELSE @]
      /\ UNCHANGED <<last_rx_seq, btx>>
  BY DEF ReceiveBurst
<1>2. Answers(a) /\ Engages(a) /\ Histories /\ Line(a) /\ Knows(a)
      /\ Whole(a) /\ Completed(a) /\ OnAir(a)
  BY DEF BurstInv, BulkInv
<1>3. OfBurst(a, f)
  BY <1>1, <1>2, Sides DEF OnAir
<1>4. Before(a, T) /\ T \in BurstRx
  BY <1>3, TransferKnown
<1>5. /\ b.active /\ f.id = b.id /\ f.n = b.n /\ f.frag_size = b.frag_size
      /\ f.idx \in 0..b.n - 1
      /\ f.chunk = SW!Units(m, f.idx * b.frag_size, FragLen(b, f.idx))
  BY <1>3 DEF OfBurst
<1>6. /\ Bulk(a) # SW!Nothing /\ Cuts(b, m) /\ m \in Messages /\ b \in BurstTx
  <2>1. Bulk(a) # SW!Nothing /\ Cuts(b, m)
    BY <1>2, <1>5 DEF Engages
  <2>2. Bulk(a) \in SW!Open \cup {SW!Nothing}
    BY Sides DEF IInv, Typed, MsgType, Bulk
  <2> QED
    BY <2>1, <2>2 DEF SW!Open, IInv, Typed, TypeOK
<1> DEFINE n == b.n
           fs == b.frag_size
           last == b.last_len
           L == FragLen(b, f.idx)
<1>7. /\ n \in Nat \ {0} /\ fs \in Nat \ {0} /\ last \in 1..fs
      /\ (n - 1) * fs + last = Size[m] /\ AsmMax \in Nat
  <2>1. b.n \in Nat /\ b.frag_size \in Nat /\ b.last_len \in Nat
    BY <1>6, StationAssumption DEF BurstTx
  <2> QED
    BY <1>6, <2>1, StationAssumption DEF Cuts
<1>8. UNCHANGED <<pending, cur>>
  <2>1. /\ pending' = [pending EXCEPT ![t] =
                         IF SW!Retires(t, f) THEN SW!NoFragment ELSE @]
        /\ cur' = [cur EXCEPT ![t] = SW!RetiredCur(t, f)]
    BY <1>1 DEF SW!Retire
  <2>2. SW!RetiredCur(t, f) = cur[t] /\ ~SW!Retires(t, f)
    BY <1>2, RetiredBulk
  <2> QED
    BY <2>1, <2>2 DEF IInv, Typed, MsgType
<1>9. L \in 1..fs /\ (f.idx = n - 1 => L = last)
  BY <1>7 DEF FragLen
<1>10. at \in Nat /\ at = f.idx * fs
  <2>1. f.idx \in Nat
    BY <1>5, <1>7
  <2>2. f.idx * fs \in Nat
    <3> HIDE DEF fs
    <3> QED
      BY <1>7, <2>1, SMTT(30)
  <2> QED
    BY <1>5, <2>2
<1> HIDE DEF at, L
<1>11. /\ Len(f.chunk) = L /\ \A k \in 1..L : f.chunk[k] = <<m, at + k>>
       /\ f.chunk \in Seq(Unit)
  <2>1. f.chunk = SW!Units(m, at, L)
    BY <1>5, <1>10 DEF L
  <2>2. f.chunk = [k \in 1..L |-> <<m, at + k>>]
    BY <2>1 DEF SW!Units
  <2>3. f.chunk \in Seq(Unit)
    BY <1>6, <1>9, <1>10, <2>1, UnitsType
  <2> QED
    BY <1>7, <1>9, <2>2, <2>3
<1>12. old \in [1..AsmMax -> Unit \cup {None}]
  BY Sides DEF IInv, Typed, TypeOK
<1>13. buffer \in [1..AsmMax -> Unit \cup {None}]
  <2> HIDE DEF f, old
  <2> QED
    BY <1>10, <1>11, <1>12, OverlayType
<1>14. /\ \A j \in 1..AsmMax : buffer[j] = old[j] \/ buffer[j] = <<m, j>>
       /\ fits => \A k \in 1..L : buffer[at + k] = <<m, at + k>>
  <2>1. CASE ~fits
    BY <2>1
  <2>2. CASE fits
    <3>1. buffer = [i \in 1..AsmMax |->
                      IF i \in at + 1..at + L THEN f.chunk[i - at] ELSE old[i]]
      BY <1>11, <2>2 DEF Overlay
    <3>2. at + L <= AsmMax
      BY <1>11, <2>2
    <3> HIDE DEF buffer, fits, f, old, b
    <3>3. ASSUME NEW j \in 1..AsmMax, j \in at + 1..at + L
          PROVE  buffer[j] = <<m, j>>
      <4>1. j - at \in 1..L /\ at + (j - at) = j
        BY <1>7, <1>9, <1>10, <3>3
      <4> QED
        BY <1>11, <3>1, <3>3, <4>1
    <3>4. \A k \in 1..L : at + k \in 1..AsmMax /\ at + k \in at + 1..at + L
      BY <1>7, <1>9, <1>10, <3>2
    <3> QED
      BY <3>1, <3>3, <3>4
  <2> QED
    BY <2>1, <2>2
<1> HIDE DEF buffer
<1>15. /\ T.active /\ T.id = b.id /\ T.n = n /\ T.frag_size = fs
       /\ b.acked \subseteq T.have /\ T.have \subseteq 0..n - 1
       /\ T.done <=> T.have = 0..n - 1
       /\ T.last_len \in {0, last}
       /\ n - 1 \in T.have => T.last_len = last
       /\ \A i \in T.have :
            /\ i * fs + FragLen(b, i) <= AsmMax
            /\ \A j \in 1..FragLen(b, i) : old[i * fs + j] = <<m, i * fs + j>>
       /\ Len(log[t]["bulk"]) = Gone(a) + (IF T.done THEN 1 ELSE 0)
  BY <1>4 DEF Before
<1> HIDE DEF T, old
<1>16. have \subseteq 0..n - 1 /\ T.have \subseteq have
  BY <1>5, <1>15
<1>17. /\ last_len \in {0, last}
       /\ n - 1 \in have => last_len = last
  BY <1>5, <1>9, <1>11, <1>15
<1>18. ASSUME NEW i \in have
       PROVE  /\ i * fs + FragLen(b, i) <= AsmMax
              /\ \A j \in 1..FragLen(b, i) : buffer[i * fs + j] = <<m, i * fs + j>>
  <2>1. CASE i \in T.have
    <3> DEFINE v == i * fs
               l == FragLen(b, i)
    <3>1. v \in Nat /\ l \in Nat
      <4>1. i \in Nat
        BY <1>7, <1>15, <2>1
      <4>2. l \in {last, fs}
        BY DEF FragLen
      <4>3. v \in Nat
        <5> HIDE DEF fs
        <5> QED
          BY <1>7, <4>1, SMTT(30)
      <4> QED
        BY <1>7, <4>2, <4>3
    <3>2. v + l <= AsmMax /\ \A j \in 1..l : old[v + j] = <<m, v + j>>
      BY <1>15, <2>1
    <3> HIDE DEF v, l, m, b
    <3>3. \A j \in 1..l : v + j \in 1..AsmMax
      BY <1>7, <3>1, <3>2
    <3>4. \A j \in 1..l : buffer[v + j] = <<m, v + j>>
      BY <1>14, <3>2, <3>3
    <3> QED
      BY <3>2, <3>4 DEF v, l, m, b
  <2>2. CASE i \notin T.have
    <3>1. fits /\ i = f.idx
      BY <2>2
    <3>2. i * fs = at /\ FragLen(b, i) = L
      BY <1>10, <3>1 DEF L
    <3>3. at + L <= AsmMax
      BY <1>11, <3>1
    <3> QED
      BY <1>14, <3>1, <3>2, <3>3
  <2> QED
    BY <2>1, <2>2
<1> HIDE DEF fits, have, last_len
<1>19. refused => nh = T.have
  <2>1. refused => ~T.done /\ have = 0..n - 1
    BY <1>5
  <2>2. ~T.done => T.have # 0..n - 1
    BY <1>15
  <2>3. have \subseteq T.have \cup {f.idx}
    BY DEF have
  <2> HIDE DEF f, n
  <2> QED
    BY <1>16, <2>1, <2>2, <2>3 DEF GivenBack
<1>20. /\ b.acked \subseteq nh /\ nh \subseteq have
       /\ (T.done \/ stored) <=> nh = 0..n - 1
  <2>1. CASE refused
    <3>1. ~T.done /\ ~stored /\ nh = T.have
      BY <1>19, <2>1
    <3> QED
      BY <1>15, <1>16, <3>1
  <2>2. CASE ~refused
    <3>1. nh = have
      BY <2>2
    <3>2. CASE T.done
      BY <1>15, <1>16, <3>1, <3>2
    <3>3. CASE ~T.done
      <4>1. have = 0..n - 1 => last_len = last
        <5>1. n - 1 \in 0..n - 1
          BY <1>7
        <5> QED
          BY <1>17, <5>1
      <4>2. complete <=> have = 0..n - 1
        BY <1>5, <1>7, <3>3, <4>1
      <4>3. stored <=> complete
        BY <2>2
      <4> QED
        BY <1>15, <1>16, <3>1, <3>3, <4>2, <4>3
    <3> QED
      BY <3>2, <3>3
  <2> QED
    BY <2>1, <2>2
<1>21. stored => /\ ~T.done /\ have = 0..n - 1 /\ last_len = last
                 /\ len = Size[m]
  <2> SUFFICES ASSUME stored
               PROVE  /\ ~T.done /\ have = 0..n - 1 /\ last_len = last
                      /\ len = Size[m]
    OBVIOUS
  <2>1. ~T.done /\ have = 0..n - 1
    BY <1>5
  <2>2. n - 1 \in 0..n - 1
    BY <1>7
  <2>3. last_len = last
    BY <1>17, <2>1, <2>2
  <2> QED
    BY <1>5, <1>7, <2>1, <2>3
<1>22. stored => entry = Complete(m)
  <2> SUFFICES ASSUME stored PROVE entry = Complete(m)
    OBVIOUS
  <2>1. \A i \in 0..b.n - 1 :
           /\ i * b.frag_size + FragLen(b, i) <= AsmMax
           /\ \A j \in 1..FragLen(b, i) :
                buffer[i * b.frag_size + j] = <<m, i * b.frag_size + j>>
    BY <1>18, <1>21
  <2>2. SubSeq(buffer, 1, Size[m]) = SW!Units(m, 0, Size[m])
    <3> HIDE DEF b, m
    <3> QED
      BY <1>6, <1>13, <2>1, BufferWhole
  <2> QED
    BY <1>21, <2>2 DEF Complete
<1> HIDE DEF stored, refused, nh, entry
<1>23. /\ nt.active /\ nt.id = b.id /\ nt.n = n /\ nt.frag_size = fs
       /\ nt.have = nh /\ nt.last_len = last_len
       /\ nt.done = (T.done \/ stored)
  BY <1>4, <1>15 DEF BurstRx
<1> HIDE DEF nt
<1>24. /\ brx'[t] = nt /\ brx'[a] = brx[a] /\ asm'[t]["bulk"] = buffer
       /\ log' \in [Station -> [SW!Stream -> Seq(Entry)]]
       /\ log'[t]["bulk"] = IF stored THEN Append(log[t]["bulk"], entry)
                            ELSE log[t]["bulk"]
       /\ log[t]["bulk"] \in Seq(Entry)
       /\ stored => entry \in Entry
  <2>1. brx'[t] = nt /\ brx'[a] = brx[a] /\ asm'[t]["bulk"] = buffer
    BY <1>1, Sides DEF IInv, Typed, TypeOK
  <2>2. Complete(m) \in Entry
    <3>1. SW!Units(m, 0, Size[m]) \in Seq(Unit)
      BY <1>6, UnitsType, StationAssumption
    <3>2. SW!Units(m, 0, Size[m]) \in Seq(Unit \cup {None})
      BY <3>1
    <3> QED
      BY <3>2 DEF Complete, Entry
  <2>3. stored => entry \in Entry
    BY <1>22, <2>2
  <2>4. log[t] \in [SW!Stream -> Seq(Entry)] /\ log[t]["bulk"] \in Seq(Entry)
    BY <1>2, Sides DEF Histories
  <2> DEFINE nl == IF stored THEN Append(log[t]["bulk"], entry)
                   ELSE log[t]["bulk"]
  <2>5. nl \in Seq(Entry)
    BY <2>3, <2>4
  <2>6. log' = [log EXCEPT ![t] = [log[t] EXCEPT !["bulk"] = nl]]
    BY <1>1, <1>2, Sides DEF Histories
  <2> HIDE DEF nl
  <2>7. [log[t] EXCEPT !["bulk"] = nl] \in [SW!Stream -> Seq(Entry)]
    BY <2>4, <2>5
  <2>8. log' \in [Station -> [SW!Stream -> Seq(Entry)]]
    BY <1>2, <2>6, <2>7 DEF Histories
  <2>9. log'[t]["bulk"] = nl
    BY <1>2, <2>4, <2>6, Sides DEF Histories
  <2> QED
    BY <2>1, <2>3, <2>4, <2>8, <2>9 DEF nl
<1>25. Histories' /\ Answers(a)' /\ OnAir(a)'
  BY <1>1, <1>2, <1>8, <1>24 DEF Histories, Answers, OnAir
<1>26. Bulk(a)' = Bulk(a) /\ One(a)' = One(a) /\ Gone(a)' = Gone(a)
  BY <1>8 DEF Bulk, One, Gone
<1>27. Line(a)'
  BY <1>2, <1>26 DEF Line
<1>28. Engages(a)'
  BY <1>1, <1>2, <1>26 DEF Engages
<1>29. Mine(a)'
  BY <1>1, <1>5, <1>23, <1>24 DEF Mine
<1>30. Knows(a)'
  <2> DEFINE b2 == btx'[a]
             r2 == brx'[t]
  <2>1. b2 = b /\ b2.active /\ b2.n = n /\ b2.frag_size = fs /\ b2.last_len = last
    BY <1>1, <1>5
  <2>2. /\ r2.active /\ r2.n = n /\ r2.frag_size = fs
        /\ r2.have = nh /\ r2.last_len = last_len /\ r2.done = (T.done \/ stored)
    BY <1>23, <1>24
  <2>3. r2.done <=> nh = 0..n - 1
    BY <1>20, <2>2
  <2>4. b2.acked \subseteq nh /\ nh \subseteq 0..n - 1
    BY <1>16, <1>20, <2>1
  <2>5. last_len \in {0, last} /\ (n - 1 \in nh => last_len = last)
    BY <1>17, <1>20
  <2> HIDE DEF b, n, fs, last, nh, nt
  <2>6. /\ r2.active /\ r2.n = b2.n /\ r2.frag_size = b2.frag_size
        /\ b2.acked \subseteq r2.have /\ r2.have \subseteq 0..b2.n - 1
        /\ r2.done <=> r2.have = 0..b2.n - 1
        /\ r2.last_len \in {0, b2.last_len}
        /\ b2.n - 1 \in r2.have => r2.last_len = b2.last_len
    BY <2>1, <2>2, <2>3, <2>4, <2>5
  <2>7. Mine(a)' /\ b2.active
    BY <1>29, <2>1
  <2> QED
    BY <2>6, <2>7, Zenon DEF Knows
<1>31. Whole(a)'
  <2>1. btx'[a] = b /\ brx'[t].have \subseteq have
    BY <1>1, <1>20, <1>23, <1>24
  <2> QED
    BY <1>18, <1>24, <1>26, <2>1 DEF Whole
<1>32. Completed(a)'
  <2>1. Done(a)' = IF T.done \/ stored THEN 1 ELSE 0
    BY <1>23, <1>24, <1>29 DEF Done
  <2> DEFINE S == submitted[a][BULK]
             g == Gone(a)
             l == log[t]["bulk"]
             l2 == log'[t]["bulk"]
  <2>2. /\ l \in Seq(Entry) /\ Len(l) = g + (IF T.done THEN 1 ELSE 0)
        /\ \A i \in 1..Len(l) : i <= Len(S) /\ l[i] = Complete(S[i])
    BY <1>2, <1>15, <1>24 DEF Completed
  <2>3. g \in Nat /\ S[g + 1] = m /\ g + 1 <= Len(S)
    <3>1. One(a) = 1 /\ g \in Nat /\ S[g + 1] = m
      BY <1>2, <1>6 DEF One, Line
    <3>2. S \in Seq(Messages) /\ queue[a][BULK] \in Seq(Messages)
      BY <1>2, Sides DEF Histories, IInv, Typed, MsgType
    <3>3. g = Len(S) - Len(queue[a][BULK]) - 1
      BY <3>1 DEF Gone
    <3> HIDE DEF g, S
    <3> QED
      BY <3>1, <3>2, <3>3
  <2> HIDE DEF l, S, g
  <2>4. CASE ~stored
    <3>1. l2 = l /\ Done(a)' = IF T.done THEN 1 ELSE 0
      BY <1>24, <2>1, <2>4 DEF l
    <3> QED
      BY <1>26, <2>2, <3>1 DEF Completed, S, g
  <2>5. CASE stored
    <3>1. l2 = Append(l, Complete(m)) /\ ~T.done /\ Done(a)' = 1
      BY <1>21, <1>22, <1>24, <2>1, <2>5 DEF l
    <3>2. Complete(m) \in Entry
      BY <1>22, <1>24, <2>5
    <3> HIDE DEF m, l2
    <3>3. Len(l) = g
      BY <2>2, <2>3, <3>1
    <3>4. /\ Len(l2) = g + 1 /\ l2[g + 1] = Complete(m)
          /\ \A i \in 1..g : l2[i] = l[i]
      BY <2>2, <3>1, <3>2, <3>3
    <3>5. \A i \in 1..Len(l2) : i <= Len(S) /\ l2[i] = Complete(S[i])
      <4> SUFFICES ASSUME NEW i \in 1..Len(l2)
                   PROVE  i <= Len(S) /\ l2[i] = Complete(S[i])
        OBVIOUS
      <4>1. CASE i \in 1..g
        BY <2>2, <3>3, <3>4, <4>1
      <4>2. CASE i = g + 1
        BY <2>3, <3>4, <4>2
      <4> QED
        BY <2>3, <3>4, <4>1, <4>2
    <3> QED
      BY <1>26, <3>1, <3>4, <3>5 DEF Completed, S, g, l2
  <2> QED
    BY <2>4, <2>5
<1> QED
  BY <1>25, <1>27, <1>28, <1>30, <1>31, <1>32 DEF BurstInv, BulkInv

(* What a stop-and-wait fragment does to the buffers and to the log of the *)
(* station that accepts it: only its own stream is touched.                *)
LEMMA AcceptApart ==
  ASSUME IInv, Histories, NEW s \in Station, NEW f \in Framed,
         f.kind = "data", Accept(s, f)
  PROVE  /\ log' \in [Station -> [SW!Stream -> Seq(Entry)]]
         /\ \A c \in SW!Stream : c # f.stream =>
              asm'[s][c] = asm[s][c] /\ log'[s][c] = log[s][c]
<1> DEFINE c == f.stream
           past == asm_len[s][c]
           room == AsmMax - past
           units == IF Len(f.chunk) <= room THEN f.chunk
                    ELSE SubSeq(f.chunk, 1, room)
           len == past + Len(units)
           buffer == Overlay(asm[s][c], past, units)
           kept == HasRoom(s, len)
           entry == [units |-> SubSeq(buffer, 1, len), kept |-> kept]
<1>1. /\ asm' = [asm EXCEPT ![s][c] = buffer]
      /\ log' = [log EXCEPT ![s][c] = IF f.last THEN Append(@, entry) ELSE @]
  BY DEF Accept
<1>2. c \in SW!Stream /\ f.chunk \in Seq(Unit)
  BY KindOf
<1>3. /\ asm[s] \in [SW!Stream -> [1..AsmMax -> Unit \cup {None}]]
      /\ asm_len[s] \in [SW!Stream -> 0..AsmMax]
  BY DEF IInv, Typed, TypeOK
<1>4. past \in 0..AsmMax /\ AsmMax \in Nat
  BY <1>2, <1>3, StationAssumption
<1> HIDE DEF c, past
<1>5. room \in Nat /\ past + room = AsmMax
  BY <1>4
<1> HIDE DEF room
<1>6. units \in Seq(Unit) /\ Len(units) \in 0..room
  <2>1. CASE Len(f.chunk) <= room
    BY <1>2, <1>5, <2>1
  <2>2. CASE ~ (Len(f.chunk) <= room)
    <3>1. Len(f.chunk) \in Nat
      BY <1>2
    <3>2. /\ SubSeq(f.chunk, 1, room) \in Seq(Unit)
          /\ Len(SubSeq(f.chunk, 1, room)) = room
      BY <1>2, <1>5, <2>2, <3>1, SubSeqProperties
    <3> QED
      BY <1>5, <2>2, <3>2
  <2> QED
    BY <2>1, <2>2
<1> HIDE DEF units
<1>7. buffer \in [1..AsmMax -> Unit \cup {None}]
  <2>1. asm[s][c] \in [1..AsmMax -> Unit \cup {None}]
    BY <1>2, <1>3 DEF c
  <2>2. past \in Nat
    BY <1>4
  <2> QED
    BY <1>6, <2>1, <2>2, OverlayType
<1>8. len \in 0..AsmMax
  BY <1>4, <1>5, <1>6
<1> HIDE DEF buffer, len
<1>9. SubSeq(buffer, 1, len) \in Seq(Unit \cup {None})
  <2>1. buffer \in Seq(Unit \cup {None}) /\ Len(buffer) = AsmMax
    BY <1>4, <1>7
  <2> QED
    BY <1>4, <1>8, <2>1, SubSeqProperties
<1>10. kept \in BOOLEAN
  BY DEF HasRoom
<1> HIDE DEF kept
<1>11. entry \in Entry
  BY <1>9, <1>10 DEF Entry
<1> HIDE DEF entry
<1> DEFINE nl == IF f.last THEN Append(log[s][c], entry) ELSE log[s][c]
<1>12. log[s] \in [SW!Stream -> Seq(Entry)] /\ nl \in Seq(Entry)
  BY <1>2, <1>11 DEF Histories, c
<1>13. log' = [log EXCEPT ![s] = [log[s] EXCEPT ![c] = nl]]
  BY <1>1 DEF Histories
<1> HIDE DEF nl
<1>14. [log[s] EXCEPT ![c] = nl] \in [SW!Stream -> Seq(Entry)]
  BY <1>12
<1>15. log' \in [Station -> [SW!Stream -> Seq(Entry)]]
  BY <1>13, <1>14 DEF Histories
<1>16. asm' = [asm EXCEPT ![s] = [asm[s] EXCEPT ![c] = buffer]]
  BY <1>1 DEF IInv, Typed, TypeOK
<1>17. ASSUME NEW d \in SW!Stream, d # f.stream
       PROVE  asm'[s][d] = asm[s][d] /\ log'[s][d] = log[s][d]
  <2>1. asm'[s] = [asm[s] EXCEPT ![c] = buffer]
    BY <1>16 DEF IInv, Typed, TypeOK
  <2>2. log'[s] = [log[s] EXCEPT ![c] = nl]
    BY <1>13 DEF Histories
  <2> QED
    BY <1>3, <1>12, <1>17, <2>1, <2>2 DEF c
<1> QED
  BY <1>15, <1>17

(* A message on the priority stream passes the burst by.                   *)
LEMMA OneWayData ==
  ASSUME NEW a \in Station, IInv, BurstInv(a), air # None, air.to = Peer(a),
         air.kind = "data", air.stream = "prio",
         ReceiveData(Peer(a), air), air' = None, UNCHANGED <<queue, submitted>>
  PROVE  BurstInv(a)'
<1> DEFINE t == Peer(a)
<1>1. /\ SW!Retire(t, air) /\ UNCHANGED <<btx, brx>>
      /\ \/ Accept(t, air)
         \/ UNCHANGED <<asm, log>>
      /\ last_rx_seq' = [last_rx_seq EXCEPT ![t] = air.seq]
  BY DEF ReceiveData
<1>2. Answers(a) /\ Histories /\ BulkInv(a)
  BY DEF BurstInv
<1>3. UNCHANGED <<pending, cur>>
  <2>1. /\ pending' = [pending EXCEPT ![t] =
                         IF SW!Retires(t, air) THEN SW!NoFragment ELSE @]
        /\ cur' = [cur EXCEPT ![t] = SW!RetiredCur(t, air)]
    BY <1>1 DEF SW!Retire
  <2>2. SW!RetiredCur(t, air) = cur[t] /\ ~SW!Retires(t, air)
    BY <1>2, RetiredBulk
  <2> QED
    BY <2>1, <2>2 DEF IInv, Typed, MsgType
<1>4. /\ log' \in [Station -> [SW!Stream -> Seq(Entry)]]
      /\ asm'[t]["bulk"] = asm[t]["bulk"] /\ log'[t]["bulk"] = log[t]["bulk"]
  <2>1. CASE Accept(t, air)
    <3>1. air \in Framed /\ t \in Station
      BY Sides DEF IInv, Typed, AirType
    <3> QED
      BY <1>2, <2>1, <3>1, Sides, AcceptApart
  <2>2. CASE UNCHANGED <<asm, log>>
    BY <1>2, <2>2 DEF Histories
  <2> QED
    BY <1>1, <2>1, <2>2
<1>5. Histories'
  BY <1>2, <1>4 DEF Histories
<1>6. Answers(a)'
  <2>1. last_rx_seq'[a] = last_rx_seq[a]
    BY <1>1, Sides DEF IInv, Typed, TypeOK
  <2> QED
    BY <1>1, <1>2, <1>3, <2>1 DEF Answers
<1>7. BulkStays(a)
  BY <1>1, <1>3, <1>4 DEF BulkStays, BurstStays, SameBurst, SameTransfer
<1>8. OnAir(a)'
  BY DEF OnAir
<1> QED
  BY <1>2, <1>5, <1>6, <1>7, <1>8, BulkKept DEF BurstInv

LEMMA OneWayHears ==
  ASSUME NEW a \in Station, IInv, BurstInv(a), Receive(Peer(a))
  PROVE  BurstInv(a)'
<1> DEFINE t == Peer(a)
<1>1. /\ air # None /\ air.to = t /\ air' = None
      /\ UNCHANGED <<queue, submitted>>
  BY DEF Receive
<1>2. \/ air.kind = "data" /\ air.stream = "prio"
      \/ air.kind = "burst"
  BY <1>1, Sides DEF BurstInv, OnAir
<1>3. \/ air.kind = "data" /\ air.stream = "prio" /\ ReceiveData(t, air)
      \/ ReceiveBurst(t, air)
  BY <1>2 DEF Receive, ReceiveCaps, ReceiveBurstAck, ReceiveBurst, ReceiveData,
              ReceiveNoData
<1> QED
  BY <1>1, <1>3, OneWayData, OneWayStored

-----------------------------------------------------------------------------
(* The other steps, and every step.                                        *)
LEMMA OneWayInit ==
  ASSUME NEW a \in Station, Init
  PROVE  BurstInv(a)
<1>1. Histories /\ Answers(a) /\ OnAir(a)
  <2>1. submitted \in [Station -> [SW!Class -> Seq(Messages)]]
    BY DEF Init
  <2>2. log \in [Station -> [SW!Stream -> Seq(Entry)]]
    BY DEF Init
  <2>3. Answers(a)
    BY Sides DEF Init, Answers, SW!NoFragment, Disengaged, NoTransfer
  <2> QED
    BY <2>1, <2>2, <2>3 DEF Histories, OnAir, Init
<1>2. ~btx[a].active /\ ~Mine(a) /\ btx[a].id = 0 /\ brx[Peer(a)].id = 0
  BY Sides DEF Init, Mine, Disengaged, NoTransfer
<1>3. Engages(a) /\ Knows(a) /\ Whole(a)
  BY <1>2 DEF Engages, Knows, Whole
<1>4. /\ Bulk(a) = SW!Nothing /\ queue[a][BULK] = <<>>
      /\ submitted[a][BULK] = <<>> /\ log[Peer(a)]["bulk"] = <<>>
  BY Sides DEF Init, Bulk
<1>5. One(a) = 0 /\ Gone(a) = 0 /\ Done(a) = 0
  BY <1>2, <1>4 DEF One, Gone, Done
<1>6. Line(a) /\ Completed(a)
  BY <1>4, <1>5 DEF Line, Completed
<1> QED
  BY <1>1, <1>3, <1>6 DEF BurstInv, BulkInv

LEMMA OneWayStep ==
  ASSUME NEW a \in Station, OneWayBursts(a), IInv, BurstInv(a), [Next]_vars
  PROVE  BurstInv(a)'
<1>1. ASSUME NEW s \in Station, NEW m \in Messages, Submit(s, m)
      PROVE  BurstInv(a)'
  BY <1>1, OneWaySubmit
<1>2. ASSUME NEW s \in Station, Poll(s) PROVE BurstInv(a)'
  BY <1>2, Sides, OneWayPoll, OneWayPeerPoll
<1>3. ASSUME NEW s \in Station, Timeout(s) PROVE BurstInv(a)'
  BY <1>3, OneWayTimeout
<1>4. ASSUME NEW s \in Station, Receive(s) PROVE BurstInv(a)'
  BY <1>4, Sides, OneWayAnswer, OneWayHears
<1>5. ASSUME NEW s \in Station, Drain(s) \/ PushCaps(s) \/ KickCaps(s)
      PROVE  BurstInv(a)'
  <2>1. UNCHANGED <<queue, cur, pending, last_rx_seq, asm, log, submitted,
                    btx, brx, air>>
    BY <1>5 DEF Drain, PushCaps, KickCaps, msgVars, inVars
  <2> QED
    BY <2>1, OneWayIdle
<1>6. CASE Lose \/ UNCHANGED vars
  <2>1. /\ UNCHANGED <<queue, cur, pending, last_rx_seq, asm, log, submitted,
                       btx, brx>>
        /\ air' \in {air, None}
    BY <1>6 DEF Lose, vars, msgVars, inVars
  <2> QED
    BY <2>1, OneWayIdle
<1> QED
  BY <1>1, <1>2, <1>3, <1>4, <1>5, <1>6 DEF Next

(* What the invariant says of the two promises: the bitmap is true, and a  *)
(* message that is gone was kept.                                          *)
LEMMA OneWayBitmap ==
  ASSUME NEW a \in Station, BurstInv(a), IInv
  PROVE  BitmapTrue
<1>1. Answers(a) /\ Engages(a) /\ Knows(a) /\ Whole(a)
  BY DEF BurstInv, BulkInv
<1> DEFINE Held(s) ==
             \A i \in btx[s].acked :
               /\ brx[Peer(s)].id = btx[s].id /\ i \in brx[Peer(s)].have
               /\ \A k \in 1..FragLen(btx[s], i) :
                    asm[Peer(s)]["bulk"][i * btx[s].frag_size + k]
                      = <<cur[s]["bulk"].msg, i * btx[s].frag_size + k>>
<1>2. ASSUME btx[a].active, NEW i \in btx[a].acked
      PROVE  /\ brx[Peer(a)].id = btx[a].id /\ i \in brx[Peer(a)].have
             /\ \A k \in 1..FragLen(btx[a], i) :
                  asm[Peer(a)]["bulk"][i * btx[a].frag_size + k]
                    = <<cur[a]["bulk"].msg, i * btx[a].frag_size + k>>
  <2>1. Mine(a)
    BY <1>1, <1>2 DEF Knows
  <2>2. brx[Peer(a)].id = btx[a].id /\ i \in brx[Peer(a)].have
    BY <1>1, <1>2, <2>1 DEF Knows, Mine
  <2> QED
    BY <1>1, <2>1, <2>2 DEF Whole, Bulk
<1>3. btx[a].active => Held(a)
  BY <1>2
<1>4. ~btx[Peer(a)].active
  BY <1>1 DEF Answers
<1> HIDE DEF Held
<1>5. \A s \in Station : btx[s].active => Held(s)
  BY <1>3, <1>4, Sides
<1> QED
  BY <1>5 DEF BitmapTrue, Held

LEMMA OneWayKept ==
  ASSUME NEW a \in Station, BurstInv(a), IInv
  PROVE  KeptBeforeReleased
<1>1. Answers(a) /\ Line(a) /\ Completed(a) /\ Histories
  BY DEF BurstInv, BulkInv
<1> DEFINE Kept(s) == {i \in 1..Len(log[Peer(s)]["bulk"]) :
                         log[Peer(s)]["bulk"][i].kept}
<1>3. \A s \in Station : Cardinality(Kept(s)) \in Nat
  <2> SUFFICES ASSUME NEW s \in Station PROVE Cardinality(Kept(s)) \in Nat
    OBVIOUS
  <2>1. Len(log[Peer(s)]["bulk"]) \in Nat
    BY <1>1, Sides DEF Histories
  <2>2. IsFiniteSet(1..Len(log[Peer(s)]["bulk"]))
    BY <2>1, FS_Interval
  <2> QED
    BY <2>2, FS_Subset, FS_CardinalityType
<1>4. SW!gone[a][BULK] <= Cardinality(Kept(a))
  <2> DEFINE l == log[Peer(a)]["bulk"]
  <2>1. SW!gone[a][BULK] = Gone(a)
    <3>1. SW!gone[a][BULK] =
            Len(submitted[a][BULK]) - Len(queue[a][BULK])
            - (IF cur[a]["bulk"] # SW!Nothing /\ QosOf[cur[a]["bulk"].msg] = BULK
               THEN 1 ELSE 0)
      BY Names, Sides DEF SW!gone, SW!StreamOf
    <3> QED
      BY <1>1, <3>1 DEF Gone, One, Bulk, Line
  <2>2. /\ Len(l) = Gone(a) + Done(a) /\ Gone(a) \in Nat
        /\ Done(a) \in {0, 1}
    <3>1. Done(a) \in {0, 1}
      BY DEF Done
    <3> QED
      BY <1>1, <3>1 DEF Completed, Line
  <2>3. \A i \in 1..Len(l) : l[i].kept
    <3>1. \A i \in 1..Len(l) : l[i] = Complete(submitted[a][BULK][i])
      BY <1>1 DEF Completed
    <3>2. \A x : Complete(x).kept
      BY DEF Complete
    <3> HIDE DEF l
    <3> QED
      BY <3>1, <3>2
  <2>4. Kept(a) = 1..Len(l)
    BY <2>3
  <2>5. Len(l) \in Nat
    BY <2>2
  <2>6. Cardinality(1..Len(l)) = Len(l)
    <3> HIDE DEF l
    <3> QED
      BY <2>5, FS_Interval
  <2>7. Cardinality(Kept(a)) = Gone(a) + Done(a)
    BY <2>2, <2>4, <2>6
  <2> HIDE DEF Kept
  <2> QED
    BY <2>1, <2>2, <2>7
<1>5. SW!gone[Peer(a)][BULK] = 0
  <2>1. SW!gone[Peer(a)][BULK] =
          Len(submitted[Peer(a)][BULK]) - Len(queue[Peer(a)][BULK])
          - (IF /\ cur[Peer(a)]["bulk"] # SW!Nothing
                /\ QosOf[cur[Peer(a)]["bulk"].msg] = BULK THEN 1 ELSE 0)
    BY Names, Sides DEF SW!gone, SW!StreamOf
  <2>2. submitted[Peer(a)][BULK] = <<>> /\ queue[Peer(a)][BULK] = <<>>
        /\ cur[Peer(a)]["bulk"] = SW!Nothing
    BY <1>1, Sides DEF Answers
  <2> QED
    BY <2>1, <2>2
<1>6. SW!gone[Peer(a)][BULK] <= Cardinality(Kept(Peer(a)))
  BY <1>3, <1>5, Sides
<1>7. \A s \in Station : SW!gone[s][BULK] <= Cardinality(Kept(s))
  BY <1>4, <1>6, Sides
<1> QED
  BY <1>7 DEF KeptBeforeReleased

(* The bulk messages completed at the peer are those that were submitted,  *)
(* whole, once each and in order (station_on_decoded, burst_on_fragment).  *)
BulkInOrder(a) ==
  \A i \in 1..Len(log[Peer(a)]["bulk"]) :
    /\ i <= Len(submitted[a][BULK])
    /\ log[Peer(a)]["bulk"][i] = Complete(submitted[a][BULK][i])

LEMMA BurstInvAlways ==
  ASSUME NEW a \in Station, OneWayBursts(a)
  PROVE  Spec => []BurstInv(a)
<1>1. Init => BurstInv(a)
  BY OneWayInit
<1>2. IInv /\ BurstInv(a) /\ [Next]_vars => BurstInv(a)'
  BY OneWayStep
<1> QED
  BY <1>1, <1>2, InvAlways, PTL DEF Spec

(* With one-way bursts, what a sender takes for acknowledged the peer      *)
(* holds, a message leaves its sender only once it is stored, and bulk     *)
(* messages are stored whole, once and in order: for every set of          *)
(* messages, rung table, window and store, and every loss.                 *)
THEOREM OneWayBurstsTrue ==
  ASSUME NEW a \in Station, OneWayBursts(a)
  PROVE  Spec => [](BitmapTrue /\ KeptBeforeReleased /\ BulkInOrder(a))
<1>1. IInv /\ BurstInv(a) => BitmapTrue /\ KeptBeforeReleased
  BY OneWayBitmap, OneWayKept
<1>2. BurstInv(a) => BulkInOrder(a)
  BY DEF BurstInv, BulkInv, Completed, BulkInOrder
<1> QED
  BY <1>1, <1>2, BurstInvAlways, InvAlways, PTL

-----------------------------------------------------------------------------
(* The priority half of the station: its state with the bulk messages and  *)
(* the bursts left out.  With one-way bursts it is the stop-and-wait       *)
(* exchange.                                                               *)
Blank(f, k, e) == [s \in Station |-> [f[s] EXCEPT ![k] = e]]
prioQueue == Blank(queue, BULK, <<>>)
prioCur == Blank(cur, "bulk", SW!Nothing)
prioAssembly == Blank(assembled, "bulk", <<>>)
prioSubmitted == Blank(submitted, BULK, <<>>)
prioLog == Blank(log, "bulk", <<>>)
prioAir == IF air = None THEN None
           ELSE IF air.kind \in {"burst", "burst_ack"} THEN None ELSE air
PV == INSTANCE StopAndWaitProofs
        WITH queue <- prioQueue, cur <- prioCur, assembly <- prioAssembly,
             submitted <- prioSubmitted, log <- prioLog, air <- prioAir
PrioInv == /\ PV!TypeOK /\ PV!PendingOpen /\ PV!Core /\ PV!StreamInv
           /\ PV!SizesFit

(* One thing at a time: while a burst is engaged no fragment is            *)
(* outstanding, and its window is open or its bitmap awaited; what the     *)
(* peer owes, or what is on the channel, is of the one or of the other.    *)
Phases(a) ==
  LET b == btx[a]
      t == Peer(a)
  IN  /\ b.active => /\ ~pending[a].active /\ b.win > 0
                     /\ b.window_left = 0 => await[a]
      /\ brx[t].ack_due => Mine(a)
      /\ reply_due[t] => pending[a].active
      /\ air # None =>
           /\ air.kind \in {"data", "nodata"} => pending[a].active
           /\ air.kind = "nodata" => ~reply_due[t]
           /\ air.kind = "burst_ack" => Mine(a) /\ ~brx[t].ack_due
BulkClass(a) ==
  \A i \in 1..Len(submitted[a][BULK]) : QosOf[submitted[a][BULK][i]] = BULK

(* A table of the stations, with one column blanked.                       *)
Table(f, K) == f = [s \in Station |-> [j \in K |-> f[s][j]]]

LEMMA Tables ==
  ASSUME NEW K, NEW V, NEW f \in [Station -> [K -> V]]
  PROVE  Table(f, K)
BY DEF Table

LEMMA BlankIs ==
  ASSUME NEW K, NEW k \in K, NEW e, NEW f, Table(f, K)
  PROVE  /\ Blank(f, k, e) = [s \in Station |-> [j \in K |->
                                IF j = k THEN e ELSE f[s][j]]]
         /\ \A s \in Station : /\ Blank(f, k, e)[s][k] = e
                               /\ \A j \in K : j # k =>
                                    Blank(f, k, e)[s][j] = f[s][j]
<1>1. \A s \in Station : f[s] = [j \in K |-> f[s][j]]
  BY DEF Table
<1>2. \A s \in Station :
        [f[s] EXCEPT ![k] = e] = [j \in K |-> IF j = k THEN e ELSE f[s][j]]
  <2> SUFFICES ASSUME NEW s \in Station
               PROVE  [f[s] EXCEPT ![k] = e]
                        = [j \in K |-> IF j = k THEN e ELSE f[s][j]]
    OBVIOUS
  <2> DEFINE g == f[s]
  <2>1. g = [j \in K |-> g[j]]
    BY <1>1
  <2> HIDE DEF g
  <2>2. [g EXCEPT ![k] = e] = [j \in K |-> IF j = k THEN e ELSE g[j]]
    BY <2>1
  <2> QED
    BY <2>2 DEF g
<1>3. Blank(f, k, e) = [s \in Station |-> [j \in K |->
                          IF j = k THEN e ELSE f[s][j]]]
  BY <1>2 DEF Blank
<1> QED
  BY <1>3

LEMMA BlankSame ==
  ASSUME NEW K, NEW k \in K, NEW e, NEW f, NEW g, Table(f, K), Table(g, K),
         \A s \in Station, j \in K : j # k => g[s][j] = f[s][j]
  PROVE  Blank(g, k, e) = Blank(f, k, e)
<1> DEFINE F == [s \in Station |-> [j \in K |-> IF j = k THEN e ELSE f[s][j]]]
           G == [s \in Station |-> [j \in K |-> IF j = k THEN e ELSE g[s][j]]]
<1>1. Blank(f, k, e) = F /\ Blank(g, k, e) = G
  BY BlankIs
<1>2. G = F
  OBVIOUS
<1> QED
  BY <1>1, <1>2

(* One row, or one cell of another column, is changed.                     *)
LEMMA BlankRow ==
  ASSUME NEW K, NEW k \in K, NEW e, NEW f, Table(f, K), NEW s \in Station,
         NEW h, h = [j \in K |-> h[j]]
  PROVE  /\ Blank([f EXCEPT ![s] = h], k, e)
              = [Blank(f, k, e) EXCEPT ![s] = [h EXCEPT ![k] = e]]
         /\ Table([f EXCEPT ![s] = h], K)
<1> DEFINE g == [f EXCEPT ![s] = h]
<1>1. /\ f = [r \in Station |-> f[r]]
      /\ g = [r \in Station |-> IF r = s THEN h ELSE f[r]]
  BY DEF Table
<1> HIDE DEF g
<1>2. Blank(g, k, e)
        = [r \in Station |-> IF r = s THEN [h EXCEPT ![k] = e]
                             ELSE [f[r] EXCEPT ![k] = e]]
  <2>1. \A r \in Station : [g[r] EXCEPT ![k] = e] =
          IF r = s THEN [h EXCEPT ![k] = e] ELSE [f[r] EXCEPT ![k] = e]
    BY <1>1
  <2> QED
    BY <2>1 DEF Blank
<1>3. [Blank(f, k, e) EXCEPT ![s] = [h EXCEPT ![k] = e]]
        = [r \in Station |-> IF r = s THEN [h EXCEPT ![k] = e]
                             ELSE [f[r] EXCEPT ![k] = e]]
  BY DEF Blank
<1>4. Table(g, K)
  <2>1. \A r \in Station : g[r] = [j \in K |-> g[r][j]]
    BY <1>1 DEF Table
  <2> QED
    BY <1>1, <2>1 DEF Table
<1> QED
  BY <1>2, <1>3, <1>4 DEF g

LEMMA BlankCell ==
  ASSUME NEW K, NEW k \in K, NEW e, NEW f, Table(f, K), NEW s \in Station,
         NEW j \in K, j # k, NEW v
  PROVE  Blank([f EXCEPT ![s][j] = v], k, e)
           = [Blank(f, k, e) EXCEPT ![s][j] = v]
<1> DEFINE h == [f[s] EXCEPT ![j] = v]
           x == [f[s] EXCEPT ![k] = e]
<1>1. f[s] = [i \in K |-> f[s][i]]
  BY DEF Table
<1>2. h = [i \in K |-> h[i]]
  BY <1>1
<1>3. [f EXCEPT ![s][j] = v] = [f EXCEPT ![s] = h]
  BY DEF Table
<1>4. Blank(f, k, e)[s] = x
  BY DEF Blank
<1>5. [h EXCEPT ![k] = e] = [x EXCEPT ![j] = v]
  <2> DEFINE g == f[s]
  <2>1. g = [i \in K |-> g[i]]
    BY <1>1
  <2> HIDE DEF g
  <2>2. [[g EXCEPT ![j] = v] EXCEPT ![k] = e]
          = [[g EXCEPT ![k] = e] EXCEPT ![j] = v]
    BY <2>1
  <2> QED
    BY <2>2 DEF g
<1> HIDE DEF h, x
<1>6. Blank([f EXCEPT ![s] = h], k, e)
        = [Blank(f, k, e) EXCEPT ![s] = [h EXCEPT ![k] = e]]
  BY <1>2, BlankRow
<1>7. Blank([f EXCEPT ![s][j] = v], k, e)
        = [Blank(f, k, e) EXCEPT ![s] = [x EXCEPT ![j] = v]]
  BY <1>3, <1>5, <1>6
<1> DEFINE z == Blank(f, k, e)
<1>8. z[s] = x /\ Blank([f EXCEPT ![s][j] = v], k, e)
                    = [z EXCEPT ![s] = [x EXCEPT ![j] = v]]
  BY <1>4, <1>7
<1> HIDE DEF z
<1>9. [z EXCEPT ![s][j] = v] = [z EXCEPT ![s] = [z[s] EXCEPT ![j] = v]]
  OBVIOUS
<1> QED
  BY <1>8, <1>9 DEF z

LEMMA PrioNames ==
  /\ PV!Station = Station /\ PV!Class = SW!Class /\ PV!Stream = SW!Stream
  /\ PV!Nothing = SW!Nothing /\ PV!NoFragment = SW!NoFragment
  /\ PV!Unit = SW!Unit /\ PV!Open = SW!Open /\ PV!Fragment = SW!Fragment
  /\ \A s : PV!Peer(s) = Peer(s)
  /\ PV!QOS_CONTROL = 0 /\ PV!QOS_INTERACTIVE = 1 /\ PV!QOS_BULK = 2
  /\ \A q : PV!StreamOf(q) = IF q = 2 THEN "bulk" ELSE "prio"
  /\ \A q : SW!StreamOf(q) = IF q = 2 THEN "bulk" ELSE "prio"
  BY DEF PV!Station, Station, PV!Class, SW!Class, PV!Stream, SW!Stream,
         PV!Nothing, SW!Nothing, PV!NoFragment, SW!NoFragment, PV!Unit,
         SW!Unit, PV!Open, SW!Open, PV!Fragment, SW!Fragment, PV!Peer, Peer,
         SW!Peer, PV!QOS_BULK, SW!QOS_BULK, PV!QOS_CONTROL, SW!QOS_CONTROL,
         PV!QOS_INTERACTIVE, SW!QOS_INTERACTIVE, PV!StreamOf, SW!StreamOf

(* The tables of a state, and their priority halves.                       *)
LEMMA StateTables ==
  ASSUME IInv, Histories
  PROVE  /\ Table(queue, SW!Class) /\ Table(cur, SW!Stream)
         /\ Table(assembled, SW!Stream) /\ Table(submitted, SW!Class)
         /\ Table(log, SW!Stream)
<1>1. /\ queue \in [Station -> [SW!Class -> Seq(Messages)]]
      /\ cur \in [Station -> [SW!Stream -> SW!Open \cup {SW!Nothing}]]
  BY DEF IInv, Typed, MsgType
<1>2. /\ submitted \in [Station -> [SW!Class -> Seq(Messages)]]
      /\ log \in [Station -> [SW!Stream -> Seq(Entry)]]
  BY DEF Histories
<1>3. Table(assembled, SW!Stream)
  <2>1. Station = {A, B} /\ SW!Stream = {"prio", "bulk"}
    BY Names DEF Station
  <2> QED
    BY <2>1 DEF Table, assembled
<1> QED
  BY <1>1, <1>2, <1>3, Tables

LEMMA PrioIs ==
  ASSUME IInv, Histories
  PROVE  \A s \in Station :
           /\ prioQueue[s][0] = queue[s][0] /\ prioQueue[s][1] = queue[s][1]
           /\ prioQueue[s][2] = <<>>
           /\ prioSubmitted[s][0] = submitted[s][0]
           /\ prioSubmitted[s][1] = submitted[s][1]
           /\ prioSubmitted[s][2] = <<>>
           /\ prioCur[s]["prio"] = cur[s]["prio"]
           /\ prioCur[s]["bulk"] = SW!Nothing
           /\ prioLog[s]["prio"] = log[s]["prio"] /\ prioLog[s]["bulk"] = <<>>
           /\ prioAssembly[s]["prio"] = assembled[s]["prio"]
           /\ prioAssembly[s]["bulk"] = <<>>
<1>1. /\ 0 \in SW!Class /\ 1 \in SW!Class /\ 2 \in SW!Class /\ BULK = 2
      /\ "prio" \in SW!Stream /\ "bulk" \in SW!Stream
  BY Names
<1>2. /\ Table(queue, SW!Class) /\ Table(cur, SW!Stream)
      /\ Table(assembled, SW!Stream) /\ Table(submitted, SW!Class)
      /\ Table(log, SW!Stream)
  BY StateTables
<1>3. \A s \in Station : /\ prioQueue[s][2] = <<>> /\ prioQueue[s][0] = queue[s][0]
                         /\ prioQueue[s][1] = queue[s][1]
  BY <1>1, <1>2, BlankIs DEF prioQueue
<1>4. \A s \in Station :
        /\ prioSubmitted[s][2] = <<>> /\ prioSubmitted[s][0] = submitted[s][0]
        /\ prioSubmitted[s][1] = submitted[s][1]
  BY <1>1, <1>2, BlankIs DEF prioSubmitted
<1>5. \A s \in Station : /\ prioCur[s]["prio"] = cur[s]["prio"]
                         /\ prioCur[s]["bulk"] = SW!Nothing
  BY <1>1, <1>2, BlankIs DEF prioCur
<1>6. \A s \in Station : /\ prioLog[s]["prio"] = log[s]["prio"]
                         /\ prioLog[s]["bulk"] = <<>>
  BY <1>1, <1>2, BlankIs DEF prioLog
<1>7. \A s \in Station : /\ prioAssembly[s]["prio"] = assembled[s]["prio"]
                         /\ prioAssembly[s]["bulk"] = <<>>
  BY <1>1, <1>2, BlankIs DEF prioAssembly
<1> QED
  BY <1>3, <1>4, <1>5, <1>6, <1>7

(* Opening a message, seen from the priority half: the same when it opens  *)
(* a priority message, nothing when none waits.                            *)
LEMMA PrioOpened ==
  ASSUME NEW a \in Station, IInv, Histories
  PROVE  /\ SW!OpenedCur(a)["prio"] # SW!Nothing =>
              /\ PV!OpenedCur(a) = [SW!OpenedCur(a) EXCEPT !["bulk"] = SW!Nothing]
              /\ PV!OpenedQueue(a) = [SW!OpenedQueue(a) EXCEPT ![BULK] = <<>>]
         /\ ~priority_waiting(a) =>
              /\ [SW!OpenedCur(a) EXCEPT !["bulk"] = SW!Nothing] = prioCur[a]
              /\ [SW!OpenedQueue(a) EXCEPT ![BULK] = <<>>] = prioQueue[a]
<1> DEFINE c == cur[a]
           Q == queue[a]
           q == SW!Opened(a)
           o == [msg |-> Head(Q[q]), off |-> 0]
<1>1. /\ c = [j \in SW!Stream |-> c[j]] /\ Q = [j \in SW!Class |-> Q[j]]
  BY StateTables DEF Table
<1>2. /\ prioCur[a] = [c EXCEPT !["bulk"] = SW!Nothing]
      /\ prioQueue[a] = [Q EXCEPT ![BULK] = <<>>]
  BY DEF prioCur, prioQueue, Blank
<1>3. /\ SW!OpenedCur(a) = IF q = None THEN c
                           ELSE [c EXCEPT ![SW!StreamOf(q)] = o]
      /\ SW!OpenedQueue(a) = IF q = None THEN Q ELSE [Q EXCEPT ![q] = Tail(Q[q])]
  BY DEF SW!OpenedCur, SW!OpenedQueue
<1>4. q = IF c["prio"] # SW!Nothing THEN None
          ELSE IF Q[0] # <<>> THEN 0 ELSE IF Q[1] # <<>> THEN 1
          ELSE IF c["bulk"] = SW!Nothing /\ Q[2] # <<>> THEN 2 ELSE None
  BY Names DEF SW!Opened
<1>5. /\ prioCur[a]["prio"] = c["prio"] /\ prioCur[a]["bulk"] = SW!Nothing
      /\ prioQueue[a][0] = Q[0] /\ prioQueue[a][1] = Q[1]
      /\ prioQueue[a][2] = <<>>
  BY PrioIs
<1>6. PV!Opened(a) = IF c["prio"] # SW!Nothing THEN None
                     ELSE IF Q[0] # <<>> THEN 0 ELSE IF Q[1] # <<>> THEN 1
                     ELSE None
  BY <1>5, PrioNames DEF PV!Opened
<1>7. /\ PV!OpenedCur(a) =
           IF PV!Opened(a) = None THEN prioCur[a]
           ELSE [prioCur[a] EXCEPT ![PV!StreamOf(PV!Opened(a))] =
                   [msg |-> Head(prioQueue[a][PV!Opened(a)]), off |-> 0]]
      /\ PV!OpenedQueue(a) =
           IF PV!Opened(a) = None THEN prioQueue[a]
           ELSE [prioQueue[a] EXCEPT ![PV!Opened(a)] =
                   Tail(prioQueue[a][PV!Opened(a)])]
  BY DEF PV!OpenedCur, PV!OpenedQueue
<1>8. /\ None # 0 /\ None # 1 /\ None # 2 /\ BULK = 2 /\ SW!Stream = {"prio", "bulk"}
      /\ SW!Class = 0..2
  BY Names, StationAssumption
<1> HIDE DEF c, Q, q
<1>9. CASE q = None
  <2>1. SW!OpenedCur(a) = c /\ SW!OpenedQueue(a) = Q
    BY <1>3, <1>9
  <2>2. c["prio"] # SW!Nothing => PV!Opened(a) = None
    BY <1>6
  <2> QED
    BY <1>2, <1>7, <2>1, <2>2
<1>10. CASE q = 0 \/ q = 1
  <2>1. PV!Opened(a) = q /\ q # None /\ q # 2 /\ q \in SW!Class
    BY <1>4, <1>6, <1>8, <1>10
  <2>2. prioQueue[a][q] = Q[q]
    BY <1>5, <1>10
  <2>3. PV!StreamOf(q) = "prio" /\ SW!StreamOf(q) = "prio"
    BY <2>1, PrioNames
  <2>4. priority_waiting(a)
    BY <1>4, <1>8, <1>10, Names DEF priority_waiting, c, Q
  <2>5. /\ PV!OpenedCur(a) = [[c EXCEPT !["bulk"] = SW!Nothing] EXCEPT !["prio"] = o]
        /\ PV!OpenedQueue(a) = [[Q EXCEPT ![2] = <<>>] EXCEPT ![q] = Tail(Q[q])]
    BY <1>2, <1>7, <1>8, <2>1, <2>2, <2>3
  <2>6. /\ SW!OpenedCur(a) = [c EXCEPT !["prio"] = o]
        /\ SW!OpenedQueue(a) = [Q EXCEPT ![q] = Tail(Q[q])]
    BY <1>3, <2>1, <2>3
  <2> HIDE DEF o
  <2>7. [[c EXCEPT !["bulk"] = SW!Nothing] EXCEPT !["prio"] = o]
          = [[c EXCEPT !["prio"] = o] EXCEPT !["bulk"] = SW!Nothing]
    BY <1>1
  <2> DEFINE y == Tail(Q[q])
  <2> HIDE DEF y
  <2>8. [[Q EXCEPT ![2] = <<>>] EXCEPT ![q] = y]
          = [[Q EXCEPT ![q] = y] EXCEPT ![2] = <<>>]
    BY <1>1, <2>1
  <2> QED
    BY <1>8, <2>4, <2>5, <2>6, <2>7, <2>8 DEF y
<1>11. CASE q = 2
  <2>1. c["prio"] = SW!Nothing
    BY <1>4, <1>8, <1>11
  <2>2. SW!OpenedCur(a) = [c EXCEPT !["bulk"] = o]
        /\ SW!OpenedQueue(a) = [Q EXCEPT ![2] = Tail(Q[2])]
    BY <1>3, <1>8, <1>11, PrioNames
  <2> HIDE DEF o
  <2>3. SW!OpenedCur(a)["prio"] = SW!Nothing
    BY <1>1, <1>8, <2>1, <2>2
  <2>4. [[c EXCEPT !["bulk"] = o] EXCEPT !["bulk"] = SW!Nothing]
          = [c EXCEPT !["bulk"] = SW!Nothing]
    BY <1>1
  <2> DEFINE y == Tail(Q[2])
  <2> HIDE DEF y
  <2>5. [[Q EXCEPT ![2] = y] EXCEPT ![2] = <<>>] = [Q EXCEPT ![2] = <<>>]
    BY <1>1
  <2> QED
    BY <1>2, <1>8, <2>2, <2>3, <2>4, <2>5 DEF y
<1>12. q = None \/ q = 0 \/ q = 1 \/ q = 2
  BY <1>4
<1> QED
  BY <1>9, <1>10, <1>11, <1>12

-----------------------------------------------------------------------------
(* What a poll and a frame can be, with one-way bursts.                    *)
LEMMA LegacyKinds ==
  ASSUME NEW a \in Station, OneWayBursts(a), IInv, BurstInv(a),
         NEW r \in Rungs, NEW b \in BurstAt(a, r), SendLegacy(a, r, b)
  PROVE  /\ ~Sending(btx[a]) /\ UNCHANGED btx
         /\ \/ UNCHANGED <<msgVars, await, reply_due, air, taken>>
            \/ /\ SW!SendPending(a)
               /\ reply_due' = [reply_due EXCEPT ![a] = FALSE]
            \/ /\ SW!SendNew(a) /\ SW!OpenedCur(a)["prio"] # SW!Nothing
               /\ reply_due' = [reply_due EXCEPT ![a] = FALSE]
<1>1. Answers(a) /\ Engages(a) /\ Histories /\ Line(a)
  BY DEF BurstInv, BulkInv
<1>0. b \in BurstTx
  BY BurstAtType DEF IInv
<1>2. ~owes_ack(a)
  BY <1>1 DEF Answers, owes_ack, SW!owes_ack
<1>3. ~Sending(b)
  <2>1. CASE b = btx[a]
    <3>1. ASSUME Sending(b) PROVE FALSE
      <4>1. PICK q \in Rungs : b.frag_size = FragSize[q]
        BY <1>1, <2>1, <3>1 DEF Engages, Sending
      <4>2. Cuts(b, Bulk(a).msg)
        BY <1>1, <2>1, <3>1 DEF Engages, Sending
      <4>3. ~TooLong(b, r)
        BY <1>0, <4>1, <4>2, NeverTooLong
      <4> QED
        BY <3>1, <4>3 DEF SendLegacy
    <3> QED
      BY <3>1
  <2>2. CASE b # btx[a]
    <3>1. MayEngage(a, r) /\ b \in Engaged(a, r)
      BY <2>2 DEF BurstAt
    <3>2. Cuts(b, SW!OpenedCur(a)["bulk"].msg) /\ b.frag_size = FragSize[r]
          /\ Sending(b)
      BY <3>1, EngagedCuts
    <3>3. ~TooLong(b, r)
      BY <1>0, <3>2, NeverTooLong
    <3> QED
      BY <3>2, <3>3 DEF SendLegacy
  <2> QED
    BY <2>1, <2>2
<1>4. b = btx[a]
  <2>1. MayEngage(a, r) /\ b \in Engaged(a, r) => Sending(b)
    BY EngagedCuts
  <2> QED
    BY <1>3, <2>1 DEF BurstAt
<1>5. btx' = btx
  <2>1. btx' = [btx EXCEPT ![a] = btx[a]]
    BY <1>3, <1>4 DEF SendLegacy, Refragged, Collapsed
  <2> QED
    BY <2>1 DEF IInv, Typed, TypeOK
<1>6. Refragged(b, r) = btx[a]
  BY <1>3, <1>4 DEF Refragged, Collapsed
<1>7. ~SW!SendAck(a)
  BY <1>1 DEF SW!SendAck, SW!owes_ack, Answers
<1>8. ASSUME SW!SendNew(a), ~Owned(a, Refragged(b, r))
      PROVE  SW!OpenedCur(a)["prio"] # SW!Nothing
  <2> DEFINE oc == SW!OpenedCur(a)
  <2>1. ~pending[a].active /\ (oc["prio"] # SW!Nothing \/ oc["bulk"] # SW!Nothing)
    BY <1>8 DEF SW!SendNew
  <2>2. btx[a].active => priority_waiting(a)
    BY <1>2, <1>6, <1>8 DEF Owned
  <2> SUFFICES ASSUME oc["prio"] = SW!Nothing PROVE FALSE
    OBVIOUS
  <2>3. oc["bulk"] # SW!Nothing
    BY <2>1
  <2>4. ~priority_waiting(a)
    <3>1. CASE cur[a]["prio"] # SW!Nothing
      BY <3>1 DEF SW!OpenedCur, SW!Opened
    <3>2. CASE cur[a]["prio"] = SW!Nothing /\ queue[a][SW!QOS_CONTROL] # <<>>
      <4>1. SW!Opened(a) = SW!QOS_CONTROL /\ SW!Opened(a) # None
            /\ SW!StreamOf(SW!Opened(a)) = "prio"
        BY <3>2, Names, StationAssumption DEF SW!Opened, SW!StreamOf
      <4> QED
        BY <4>1, PrioOpens
    <3>3. CASE /\ cur[a]["prio"] = SW!Nothing /\ queue[a][SW!QOS_CONTROL] = <<>>
               /\ queue[a][SW!QOS_INTERACTIVE] # <<>>
      <4>1. SW!Opened(a) = SW!QOS_INTERACTIVE /\ SW!Opened(a) # None
            /\ SW!StreamOf(SW!Opened(a)) = "prio"
        BY <3>3, Names, StationAssumption DEF SW!Opened, SW!StreamOf
      <4> QED
        BY <4>1, PrioOpens
    <3> QED
      BY <3>1, <3>2, <3>3 DEF priority_waiting
  <2>5. ~btx[a].active
    BY <2>2, <2>4
  <2>6. MayEngage(a, r) /\ b \in Engaged(a, r)
    BY <2>1, <2>3, <2>4, <2>5, AlwaysEngages
  <2> QED
    BY <1>3, <2>6, EngagedCuts
<1> QED
  BY <1>3, <1>4, <1>5, <1>7, <1>8 DEF SendLegacy

LEMMA PollKinds ==
  ASSUME NEW a \in Station, OneWayBursts(a), IInv, BurstInv(a), Poll(a)
  PROVE  /\ air = None /\ ~await[a] /\ UNCHANGED <<inVars, submitted, brx>>
         /\ \/ \E r \in Rungs : \E b \in BurstAt(a, r) : SendBurstFrag(a, r, b)
            \/ UNCHANGED <<msgVars, await, reply_due, air, taken, btx>>
            \/ /\ ~Sending(btx[a]) /\ UNCHANGED btx
               /\ SW!SendPending(a)
               /\ reply_due' = [reply_due EXCEPT ![a] = FALSE]
            \/ /\ ~Sending(btx[a]) /\ UNCHANGED btx
               /\ SW!SendNew(a) /\ SW!OpenedCur(a)["prio"] # SW!Nothing
               /\ reply_due' = [reply_due EXCEPT ![a] = FALSE]
<1>1. /\ air = None /\ ~await[a] /\ UNCHANGED <<inVars, submitted>>
      /\ SendBurstAck(a) \/ SendCaps(a) \/ SendMessage(a)
  BY DEF Poll
<1>2. SendMessage(a)
  BY <1>1, NoProbe DEF BurstInv, Answers, SendBurstAck
<1>3. PICK r \in Rungs : \E b \in BurstAt(a, r) :
        \/ SendBurstFrag(a, r, b)
        \/ DropBurst(a, r, b)
        \/ SendLegacy(a, r, b)
  BY <1>2, NoProbe
<1>4. PICK b \in BurstAt(a, r) :
        \/ SendBurstFrag(a, r, b)
        \/ DropBurst(a, r, b)
        \/ SendLegacy(a, r, b)
  BY <1>3
<1>5. UNCHANGED brx
  BY <1>2, NoProbe
<1>6. ~DropBurst(a, r, b)
  BY DEF DropBurst, BurstInv, BulkInv, Engages, Bulk
<1>7. CASE SendBurstFrag(a, r, b)
  BY <1>1, <1>5, <1>7
<1>8. CASE SendLegacy(a, r, b)
  <2>1. /\ ~Sending(btx[a]) /\ UNCHANGED btx
        /\ \/ UNCHANGED <<msgVars, await, reply_due, air, taken>>
           \/ /\ SW!SendPending(a)
              /\ reply_due' = [reply_due EXCEPT ![a] = FALSE]
           \/ /\ SW!SendNew(a) /\ SW!OpenedCur(a)["prio"] # SW!Nothing
              /\ reply_due' = [reply_due EXCEPT ![a] = FALSE]
    BY <1>8, LegacyKinds
  <2> QED
    BY <1>1, <1>5, <2>1
<1> QED
  BY <1>4, <1>6, <1>7, <1>8

LEMMA PeerKinds ==
  ASSUME NEW a \in Station, OneWayBursts(a), IInv, BurstInv(a), Poll(Peer(a))
  PROVE  /\ air = None /\ ~await[Peer(a)] /\ UNCHANGED <<inVars, submitted>>
         /\ UNCHANGED btx
         /\ \/ SendBurstAck(Peer(a))
            \/ /\ UNCHANGED <<msgVars, await, reply_due, air, taken, brx>>
            \/ /\ SW!SendAck(Peer(a)) /\ UNCHANGED brx
               /\ reply_due' = [reply_due EXCEPT ![Peer(a)] = FALSE]
<1> DEFINE t == Peer(a)
<1>1. t \in Station /\ t # a /\ Peer(t) = a
  BY Sides
<1>2. /\ air = None /\ ~await[t] /\ UNCHANGED <<inVars, submitted>>
      /\ SendBurstAck(t) \/ SendCaps(t) \/ SendMessage(t)
  BY DEF Poll
<1>3. Answers(a)
  BY DEF BurstInv
<1> HIDE DEF t
<1>4. CASE SendBurstAck(t)
  BY <1>2, <1>4 DEF SendBurstAck, t
<1>5. CASE SendMessage(t)
  <2>1. PICK r \in Rungs : \E b \in BurstAt(t, r) :
               \/ SendBurstFrag(t, r, b)
               \/ DropBurst(t, r, b)
               \/ SendLegacy(t, r, b)
    BY <1>1, <1>5, NoProbe
  <2>2. PICK b \in BurstAt(t, r) :
               \/ SendBurstFrag(t, r, b)
               \/ DropBurst(t, r, b)
               \/ SendLegacy(t, r, b)
    BY <2>1
  <2>3. UNCHANGED brx
    BY <1>1, <1>5, NoProbe
  <2>4. SW!OpenedCur(t) = cur[t]
    BY <1>3, Sides, Names DEF t, Answers, SW!OpenedCur, SW!Opened
  <2>5. b = btx[t] /\ ~b.active
    BY <1>3, <2>2, <2>4, Sides DEF t, BurstAt, MayEngage, Answers
  <2>6. ~Sending(b)
    BY <2>5 DEF Sending
  <2>7. SendLegacy(t, r, b)
    BY <2>2, <2>6 DEF SendBurstFrag, DropBurst
  <2>8. btx' = [btx EXCEPT ![t] = btx[t]]
    BY <2>5, <2>6, <2>7 DEF SendLegacy, Refragged, Collapsed
  <2>9. UNCHANGED btx
    BY <2>8 DEF IInv, Typed, TypeOK
  <2>10. ~SW!SendPending(t) /\ ~SW!SendNew(t)
    BY <1>3, <2>4, Sides DEF t, Answers, SW!SendPending, SW!SendNew
  <2>11. \/ SW!SendAck(t) /\ reply_due' = [reply_due EXCEPT ![t] = FALSE]
         \/ UNCHANGED <<msgVars, await, reply_due, air, taken>>
    BY <2>7, <2>10 DEF SendLegacy
  <2> QED
    BY <1>2, <2>3, <2>9, <2>11 DEF t
<1> QED
  BY <1>1, <1>2, <1>4, <1>5, NoProbe

LEMMA AnswerKinds ==
  ASSUME NEW a \in Station, IInv, BurstInv(a), Receive(a)
  PROVE  /\ air # None /\ air.to = a /\ air' = None
         /\ await' = [await EXCEPT ![a] = FALSE]
         /\ UNCHANGED <<queue, seq, submitted, taken>>
         /\ \/ air.kind = "nodata" /\ ReceiveNoData(a, air)
            \/ /\ air.kind = "burst_ack" /\ ReceiveBurstAck(a, air)
               /\ air.ack = brx[Peer(a)].id /\ air.have = brx[Peer(a)].have
<1>1. /\ air # None /\ air.to = a /\ air' = None
      /\ await' = [await EXCEPT ![a] = FALSE]
      /\ UNCHANGED <<queue, seq, submitted, taken>>
      /\ \/ ReceiveCaps(a, air)
         \/ ReceiveBurstAck(a, air)
         \/ ReceiveBurst(a, air)
         \/ ReceiveData(a, air)
         \/ ReceiveNoData(a, air)
  BY DEF Receive
<1>2. \/ air.kind = "nodata"
      \/ air.kind = "burst_ack" /\ air.ack = brx[Peer(a)].id
         /\ air.have = brx[Peer(a)].have
  BY <1>1, Sides DEF BurstInv, OnAir
<1>3. \/ air.kind = "nodata" /\ ReceiveNoData(a, air)
      \/ air.kind = "burst_ack" /\ ReceiveBurstAck(a, air)
  BY <1>1, <1>2 DEF ReceiveCaps, ReceiveBurst, ReceiveData, ReceiveBurstAck,
                    ReceiveNoData
<1> QED
  BY <1>1, <1>2, <1>3

LEMMA HearKinds ==
  ASSUME NEW a \in Station, IInv, BurstInv(a), Receive(Peer(a))
  PROVE  /\ air # None /\ air.to = Peer(a) /\ air' = None
         /\ await' = [await EXCEPT ![Peer(a)] = FALSE]
         /\ UNCHANGED <<queue, seq, submitted, taken, cur, pending, btx>>
         /\ \/ air.kind = "data" /\ air.stream = "prio" /\ ReceiveData(Peer(a), air)
            \/ /\ air.kind = "burst" /\ ReceiveBurst(Peer(a), air)
               /\ OfBurst(a, air)
<1> DEFINE t == Peer(a)
<1>1. /\ air # None /\ air.to = t /\ air' = None
      /\ await' = [await EXCEPT ![t] = FALSE]
      /\ UNCHANGED <<queue, seq, submitted, taken>>
  BY DEF Receive
<1>2. \/ air.kind = "data" /\ air.stream = "prio"
      \/ air.kind = "burst" /\ OfBurst(a, air)
  BY <1>1, Sides DEF BurstInv, OnAir
<1>3. \/ air.kind = "data" /\ air.stream = "prio" /\ ReceiveData(t, air)
      \/ air.kind = "burst" /\ ReceiveBurst(t, air) /\ OfBurst(a, air)
  BY <1>2 DEF Receive, ReceiveCaps, ReceiveBurstAck, ReceiveBurst, ReceiveData,
              ReceiveNoData
<1>4. SW!Retire(t, air) /\ UNCHANGED btx
  BY <1>3 DEF ReceiveData, ReceiveBurst
<1>5. /\ pending' = [pending EXCEPT ![t] =
                       IF SW!Retires(t, air) THEN SW!NoFragment ELSE @]
      /\ cur' = [cur EXCEPT ![t] = SW!RetiredCur(t, air)]
  BY <1>4 DEF SW!Retire
<1>6. SW!RetiredCur(t, air) = cur[t] /\ ~SW!Retires(t, air)
  BY RetiredBulk DEF BurstInv
<1>7. UNCHANGED <<pending, cur>>
  BY <1>5, <1>6 DEF IInv, Typed, MsgType
<1> QED
  BY <1>1, <1>3, <1>4, <1>7

-----------------------------------------------------------------------------
(* One thing at a time is kept.                                            *)
LEMMA PhasesFrame ==
  ASSUME NEW a \in Station, Phases(a), air' \in {air, None},
         UNCHANGED <<pending, reply_due, btx, brx, await>>
  PROVE  Phases(a)'
BY DEF Phases, Mine

LEMMA PhasesPoll ==
  ASSUME NEW a \in Station, OneWayBursts(a), IInv, BurstInv(a), Phases(a),
         Poll(a)
  PROVE  Phases(a)'
<1> DEFINE t == Peer(a)
<1>1. /\ air = None /\ ~await[a] /\ UNCHANGED <<inVars, submitted, brx>>
      /\ \/ \E r \in Rungs : \E b \in BurstAt(a, r) : SendBurstFrag(a, r, b)
         \/ UNCHANGED <<msgVars, await, reply_due, air, taken, btx>>
         \/ /\ ~Sending(btx[a]) /\ UNCHANGED btx
            /\ SW!SendPending(a)
            /\ reply_due' = [reply_due EXCEPT ![a] = FALSE]
         \/ /\ ~Sending(btx[a]) /\ UNCHANGED btx
            /\ SW!SendNew(a) /\ SW!OpenedCur(a)["prio"] # SW!Nothing
            /\ reply_due' = [reply_due EXCEPT ![a] = FALSE]
  BY PollKinds
<1>2. t \in Station /\ t # a
  BY Sides
<1>3. /\ btx[a] \in BurstTx /\ reply_due \in [Station -> BOOLEAN]
      /\ await \in [Station -> BOOLEAN]
      /\ pending \in [Station -> SW!Fragment \cup {SW!NoFragment}]
  BY DEF IInv, Typed, TypeOK, MsgType, AirType
<1>4. ~Sending(btx[a]) => ~btx[a].active
  <2> SUFFICES ASSUME ~Sending(btx[a]), btx[a].active PROVE FALSE
    OBVIOUS
  <2>1. btx[a].window_left # 0
    BY <1>1 DEF Phases
  <2>2. btx[a].window_left > 0
    BY <1>3, <2>1 DEF BurstTx
  <2>3. Candidates(btx[a]) # {}
    BY <2>2 DEF IInv, WindowInv, Missing
  <2> QED
    BY <2>2, <2>3 DEF Sending
<1>5. CASE UNCHANGED <<msgVars, await, reply_due, air, taken, btx>>
  BY <1>1, <1>5, PhasesFrame DEF msgVars
<1>6. CASE /\ ~Sending(btx[a]) /\ UNCHANGED btx
           /\ SW!SendPending(a) \/ SW!SendNew(a)
           /\ reply_due' = [reply_due EXCEPT ![a] = FALSE]
  <2>1. ~btx[a].active
    BY <1>4, <1>6
  <2>2. pending'[a].active /\ air'.kind = "data"
    <3>1. CASE SW!SendPending(a)
      BY <3>1 DEF SW!SendPending, SW!DataFrame, SW!txVars
    <3>2. CASE SW!SendNew(a)
      <4> DEFINE oc == SW!OpenedCur(a)
                 c == IF oc["prio"] # SW!Nothing THEN "prio" ELSE "bulk"
      <4>1. PICK cap \in ChunkCaps :
              LET f == SW!Cut(a, c, oc[c], cap)
              IN  /\ pending' = [pending EXCEPT ![a] = f]
                  /\ air' = SW!DataFrame(a, f)
        BY <3>2 DEF SW!SendNew
      <4> DEFINE f == SW!Cut(a, c, oc[c], cap)
      <4>2. pending' = [pending EXCEPT ![a] = f] /\ air' = SW!DataFrame(a, f)
        BY <4>1
      <4>3. f.active
        BY DEF SW!Cut
      <4> HIDE DEF f
      <4> QED
        BY <1>3, <4>2, <4>3 DEF SW!DataFrame
    <3> QED
      BY <1>6, <3>1, <3>2
  <2>3. reply_due'[t] = reply_due[t]
    BY <1>2, <1>3, <1>6
  <2>4. ~brx'[t].ack_due
    BY <1>1, <2>1 DEF Phases, Mine
  <2> QED
    BY <1>6, <2>1, <2>2, <2>4 DEF Phases
<1>7. ASSUME NEW r \in Rungs, NEW b \in BurstAt(a, r), SendBurstFrag(a, r, b)
      PROVE  Phases(a)'
  <2> DEFINE w == IF Asks(b) THEN 0 ELSE b.window_left - 1
             i == Candidate(b)
             nb == [b EXCEPT !.cursor = i + 1, !.sent = @ \cup {i},
                             !.window_left = w]
  <2>1. /\ btx' = [btx EXCEPT ![a] = nb] /\ Sending(b)
        /\ await' = [await EXCEPT ![a] = Asks(b)]
        /\ reply_due' = [reply_due EXCEPT ![a] = FALSE]
        /\ UNCHANGED pending
    BY <1>7 DEF SendBurstFrag
  <2>2. air'.kind = "burst"
    BY <1>7 DEF SendBurstFrag
  <2>3. b \in BurstTx
    BY BurstAtType DEF IInv
  <2> HIDE DEF i
  <2>4. /\ nb.active = b.active /\ nb.id = b.id /\ nb.win = b.win
        /\ nb.window_left = w
    BY <2>3 DEF BurstTx
  <2> HIDE DEF nb
  <2>5. btx'[a] = nb /\ await'[a] = Asks(b) /\ reply_due'[t] = reply_due[t]
    BY <1>2, <1>3, <2>1 DEF IInv, Typed, TypeOK, AirType
  <2>6. w = 0 => Asks(b)
    <3>1. ~Asks(b) => b.window_left # 1
      BY DEF Asks
    <3>2. b.window_left \in Nat
      BY <2>3 DEF BurstTx
    <3> QED
      BY <3>1, <3>2
  <2>7. /\ ~pending[a].active /\ b.win > 0
        /\ brx[t].ack_due => brx[t].id = b.id
    <3>1. CASE b = btx[a]
      <4>1. btx[a].active
        BY <2>1, <3>1 DEF Sending
      <4> QED
        BY <3>1, <4>1 DEF Phases, Mine
    <3>2. CASE b # btx[a]
      <4>1. MayEngage(a, r) /\ b \in Engaged(a, r)
        BY <3>2 DEF BurstAt
      <4>2. ~pending[a].active /\ ~btx[a].active
        BY <4>1 DEF MayEngage
      <4>3. ~brx[t].ack_due
        BY <4>2 DEF Phases, Mine
      <4>4. b.window_left > 0
        BY <2>1 DEF Sending
      <4>5. b.win = b.window_left
        BY <4>1 DEF Engaged
      <4> QED
        BY <4>2, <4>3, <4>4, <4>5
    <3> QED
      BY <3>1, <3>2
  <2>8. b.active
    BY <2>1 DEF Sending
  <2>9. brx'[t].ack_due => Mine(a)'
    BY <1>1, <2>4, <2>5, <2>7, <2>8 DEF Mine
  <2>10. reply_due'[t] => pending'[a].active
    BY <2>1, <2>5 DEF Phases
  <2>11. btx'[a].active => /\ ~pending'[a].active /\ btx'[a].win > 0
                           /\ btx'[a].window_left = 0 => await'[a]
    BY <2>1, <2>4, <2>5, <2>6, <2>7
  <2> HIDE DEF w
  <2> QED
    BY <2>2, <2>9, <2>10, <2>11 DEF Phases
<1> QED
  BY <1>1, <1>5, <1>6, <1>7

LEMMA PhasesPeerPoll ==
  ASSUME NEW a \in Station, OneWayBursts(a), IInv, BurstInv(a), Phases(a),
         Poll(Peer(a))
  PROVE  Phases(a)'
<1> DEFINE t == Peer(a)
<1>1. t \in Station /\ t # a
  BY Sides
<1>2. /\ air = None /\ ~await[t] /\ UNCHANGED <<inVars, submitted>>
      /\ UNCHANGED btx
      /\ \/ SendBurstAck(t)
         \/ /\ UNCHANGED <<msgVars, await, reply_due, air, taken, brx>>
         \/ /\ SW!SendAck(t) /\ UNCHANGED brx
            /\ reply_due' = [reply_due EXCEPT ![t] = FALSE]
  BY PeerKinds
<1>3. /\ brx \in [Station -> BurstRx] /\ reply_due \in [Station -> BOOLEAN]
      /\ await \in [Station -> BOOLEAN]
  BY DEF IInv, Typed, TypeOK, MsgType, AirType
<1> HIDE DEF t
<1>4. CASE SendBurstAck(t)
  <2>1. /\ air'.kind = "burst_ack" /\ brx[t].ack_due
        /\ brx' = [brx EXCEPT ![t].ack_due = FALSE]
        /\ await' = [await EXCEPT ![t] = FALSE]
        /\ reply_due' = [reply_due EXCEPT ![t] = FALSE] /\ UNCHANGED pending
    BY <1>4 DEF SendBurstAck, msgVars
  <2>2. /\ brx'[t].id = brx[t].id /\ ~brx'[t].ack_due
        /\ await'[a] = await[a] /\ ~reply_due'[t]
    BY <1>1, <1>3, <2>1 DEF BurstRx
  <2>3. Mine(a) /\ Mine(a)'
    BY <1>2, <2>1, <2>2 DEF Phases, Mine, t
  <2> QED
    BY <1>2, <2>1, <2>2, <2>3 DEF Phases, t
<1>5. CASE /\ SW!SendAck(t) /\ UNCHANGED brx
           /\ reply_due' = [reply_due EXCEPT ![t] = FALSE]
  <2>1. /\ air'.kind = "nodata" /\ reply_due[t] /\ UNCHANGED pending
        /\ await' = [await EXCEPT ![t] = FALSE]
    BY <1>5 DEF SW!SendAck, SW!NoDataFrame, SW!owes_ack, SW!txVars
  <2>2. await'[a] = await[a] /\ ~reply_due'[t] /\ pending[a].active
    BY <1>1, <1>3, <1>5, <2>1 DEF Phases, t
  <2> QED
    BY <1>2, <1>5, <2>1, <2>2 DEF Phases, Mine, t
<1>6. CASE UNCHANGED <<msgVars, await, reply_due, air, taken, brx>>
  BY <1>2, <1>6, PhasesFrame DEF msgVars
<1> QED
  BY <1>2, <1>4, <1>5, <1>6

LEMMA PhasesAnswer ==
  ASSUME NEW a \in Station, IInv, BurstInv(a), Phases(a), Receive(a)
  PROVE  Phases(a)'
<1> DEFINE t == Peer(a)
<1>1. t \in Station /\ t # a
  BY Sides
<1>2. /\ air # None /\ air.to = a /\ air' = None
      /\ await' = [await EXCEPT ![a] = FALSE]
      /\ \/ air.kind = "nodata" /\ ReceiveNoData(a, air)
         \/ /\ air.kind = "burst_ack" /\ ReceiveBurstAck(a, air)
            /\ air.ack = brx[t].id /\ air.have = brx[t].have
  BY AnswerKinds
<1>3. CASE air.kind = "nodata" /\ ReceiveNoData(a, air)
  <2>1. UNCHANGED <<btx, brx, reply_due>>
    BY <1>3 DEF ReceiveNoData
  <2>2. ~reply_due[t] /\ ~btx[a].active
    BY <1>2, <1>3 DEF Phases
  <2> QED
    BY <1>2, <2>1, <2>2 DEF Phases, Mine
<1>4. CASE air.kind = "burst_ack" /\ ReceiveBurstAck(a, air)
  <2> DEFINE b == btx[a]
             acked == b.acked \cup air.have
             nb == IF AllAcked(b, acked) THEN Disengaged(b.id)
                   ELSE [b EXCEPT !.acked = acked, !.sent = {},
                                  !.window_left = b.win]
  <2>1. Mine(a) /\ ~brx[t].ack_due
    BY <1>2, <1>4 DEF Phases
  <2>2. b.active /\ ~pending[a].active /\ ~reply_due[t] /\ b.win > 0
    BY <2>1 DEF Phases, Mine
  <2>3. b \in BurstTx
    BY DEF IInv, Typed, TypeOK
  <2>4. btx' = [btx EXCEPT ![a] = nb]
    <3>1. air.ack = b.id
      BY <1>2, <1>4, <2>1 DEF Mine
    <3> QED
      BY <1>4, <2>2, <3>1 DEF ReceiveBurstAck
  <2>5. /\ UNCHANGED <<reply_due, brx>>
        /\ pending' = [pending EXCEPT ![a] =
             IF SW!Retires(a, air) THEN SW!NoFragment ELSE pending[a]]
    BY <1>4 DEF ReceiveBurstAck, RetirePending
  <2>6. ~SW!Retires(a, air)
    BY <2>2 DEF SW!Retires
  <2>7. pending'[a] = pending[a] /\ btx'[a] = nb
    BY <2>4, <2>5, <2>6 DEF IInv, Typed, TypeOK, MsgType, AirType
  <2>8. nb.active => nb.window_left = b.win /\ nb.win = b.win
    BY <2>3 DEF Disengaged, BurstTx
  <2> HIDE DEF nb
  <2>9. nb.active => nb.win > 0 /\ nb.window_left # 0
    BY <2>2, <2>3, <2>8 DEF BurstTx
  <2> QED
    BY <1>2, <2>1, <2>2, <2>5, <2>7, <2>9 DEF Phases
<1> QED
  BY <1>2, <1>3, <1>4

LEMMA PhasesHears ==
  ASSUME NEW a \in Station, IInv, BurstInv(a), Phases(a), Receive(Peer(a)),
         BurstInv(a)'
  PROVE  Phases(a)'
<1> DEFINE t == Peer(a)
<1>1. t \in Station /\ t # a
  BY Sides
<1>2. /\ air # None /\ air' = None
      /\ await' = [await EXCEPT ![t] = FALSE] /\ UNCHANGED <<pending, btx>>
      /\ \/ air.kind = "data" /\ ReceiveData(t, air)
         \/ ReceiveBurst(t, air) /\ OfBurst(a, air)
  BY HearKinds
<1>3. await'[a] = await[a]
  BY <1>1, <1>2 DEF IInv, Typed, TypeOK, MsgType, AirType
<1>4. CASE air.kind = "data" /\ ReceiveData(t, air)
  <2>1. UNCHANGED brx
    BY <1>4 DEF ReceiveData
  <2> QED
    BY <1>2, <1>3, <1>4, <2>1 DEF Phases, Mine
<1>5. CASE ReceiveBurst(t, air) /\ OfBurst(a, air)
  <2>1. UNCHANGED reply_due
    BY <1>5 DEF ReceiveBurst
  <2>2. Before(a, Transfer(t, air)) /\ Transfer(t, air) \in BurstRx
    BY <1>5, TransferKnown
  <2> DEFINE T == Transfer(t, air)
  <2>3. T.id = btx[a].id /\ btx[a].active
    BY <1>5, <2>2 DEF Before, OfBurst
  <2>4. \E h, l, k, d :
          brx' = [brx EXCEPT ![t] = [T EXCEPT !.have = h, !.last_len = l,
                                              !.ack_due = k, !.done = d]]
    BY <1>5, Zenon DEF ReceiveBurst
  <2>5. PICK h, l, k, d :
          brx' = [brx EXCEPT ![t] = [T EXCEPT !.have = h, !.last_len = l,
                                              !.ack_due = k, !.done = d]]
    BY <2>4
  <2> HIDE DEF T
  <2>6. brx'[t].id = T.id
    BY <1>1, <2>2, <2>5 DEF IInv, Typed, TypeOK, BurstRx, T
  <2>7. Mine(a)'
    BY <1>2, <2>3, <2>6 DEF Mine
  <2> QED
    BY <1>2, <1>3, <2>1, <2>7 DEF Phases
<1> QED
  BY <1>2, <1>4, <1>5

LEMMA PhasesTimeout ==
  ASSUME NEW a \in Station, IInv, BurstInv(a), Phases(a), NEW s \in Station,
         Timeout(s)
  PROVE  Phases(a)'
<1>1. /\ UNCHANGED <<pending, reply_due, brx, air>>
      /\ await' = [await EXCEPT ![s] = FALSE]
      /\ btx' = [btx EXCEPT ![s] = IF btx[s].active THEN Probe(btx[s])
                                   ELSE btx[s]]
  BY DEF Timeout, msgVars
<1>2. /\ btx \in [Station -> BurstTx] /\ await \in [Station -> BOOLEAN]
  BY DEF IInv, Typed, TypeOK, MsgType, AirType
<1>3. CASE s = a
  <2>1. btx'[a] = IF btx[a].active THEN Probe(btx[a]) ELSE btx[a]
    BY <1>1, <1>2, <1>3
  <2>2. /\ Probe(btx[a]).active = btx[a].active /\ Probe(btx[a]).id = btx[a].id
        /\ Probe(btx[a]).win = btx[a].win /\ Probe(btx[a]).window_left = 1
    BY <1>2 DEF Probe, BurstTx
  <2>3. /\ btx'[a].active = btx[a].active /\ btx'[a].id = btx[a].id
        /\ btx'[a].win = btx[a].win
        /\ btx'[a].active => btx'[a].window_left # 0
    BY <2>1, <2>2
  <2> QED
    BY <1>1, <2>3 DEF Phases, Mine
<1>4. CASE s # a
  <2>1. await'[a] = await[a] /\ btx'[a] = btx[a]
    BY <1>1, <1>2, <1>4
  <2> QED
    BY <1>1, <2>1 DEF Phases, Mine
<1> QED
  BY <1>3, <1>4

LEMMA PhasesStep ==
  ASSUME NEW a \in Station, OneWayBursts(a), IInv, BurstInv(a), Phases(a),
         [Next]_vars
  PROVE  Phases(a)'
<1>1. ASSUME NEW s \in Station, Poll(s) PROVE Phases(a)'
  BY <1>1, Sides, PhasesPoll, PhasesPeerPoll
<1>2. ASSUME NEW s \in Station, Receive(s) PROVE Phases(a)'
  BY <1>2, Sides, OneWayStep, PhasesAnswer, PhasesHears
<1>3. ASSUME NEW s \in Station, NEW m \in Messages, Submit(s, m)
      PROVE  Phases(a)'
  BY <1>3, PhasesFrame DEF Submit, SW!Submit, SW!rxVars
<1>4. ASSUME NEW s \in Station, Drain(s) \/ PushCaps(s) \/ KickCaps(s)
      PROVE  Phases(a)'
  BY <1>4, PhasesFrame DEF Drain, PushCaps, KickCaps, msgVars
<1>5. CASE Lose \/ UNCHANGED vars
  BY <1>5, PhasesFrame DEF Lose, vars, msgVars
<1> QED
  BY <1>1, <1>2, <1>3, <1>4, <1>5, PhasesTimeout DEF Next

LEMMA PhasesInit ==
  ASSUME NEW a \in Station, Init
  PROVE  Phases(a)
<1>1. Peer(a) \in Station
  BY Sides
<1> QED
  BY <1>1 DEF Init, Phases, Disengaged, NoTransfer

-----------------------------------------------------------------------------
(* The promise of the station, and that of its priority half.              *)
GoneOf(S, Q, o, q) ==
  Len(S) - Len(Q) - (IF o # SW!Nothing /\ QosOf[o.msg] = q THEN 1 ELSE 0)
GoneFrom(S, Q, C) ==
  [s \in Station |-> [q \in SW!Class |->
     GoneOf(S[s][q], Q[s][q], C[s][SW!StreamOf(q)], q)]]

LEMMA PrioAssumption == PV!StationAssumption
  BY StationAssumption DEF PV!StationAssumption

LEMMA GoneForms ==
  /\ SW!gone = GoneFrom(submitted, queue, cur)
  /\ SW!gone' = GoneFrom(submitted', queue', cur')
  /\ PV!gone = GoneFrom(prioSubmitted, prioQueue, prioCur)
  /\ PV!gone' = GoneFrom(prioSubmitted', prioQueue', prioCur')
<1>1. /\ SW!gone = GoneFrom(submitted, queue, cur)
      /\ SW!gone' = GoneFrom(submitted', queue', cur')
  BY Names DEF SW!gone, GoneFrom, GoneOf, SW!Station, Station
<1>2. PV!gone = GoneFrom(prioSubmitted, prioQueue, prioCur)
  BY PrioNames DEF PV!gone, GoneFrom, GoneOf, PV!StreamOf, SW!StreamOf,
                   PV!QOS_BULK, SW!QOS_BULK
<1>3. PV!gone' = GoneFrom(prioSubmitted', prioQueue', prioCur')
  BY PrioNames DEF PV!gone, GoneFrom, GoneOf, PV!StreamOf, SW!StreamOf,
                   PV!QOS_BULK, SW!QOS_BULK
<1> QED
  BY <1>1, <1>2, <1>3

(* Column by column, what has been given up.                               *)
GoneHalves(a) ==
  /\ \A s \in Station : /\ PV!gone[s][0] = SW!gone[s][0]
                        /\ PV!gone[s][1] = SW!gone[s][1]
                        /\ PV!gone[s][2] = 0
  /\ SW!gone[a][2] = Gone(a) /\ SW!gone[Peer(a)][2] = 0
LogHalves ==
  \A s \in Station : prioLog[s]["prio"] = log[s]["prio"] /\ prioLog[s]["bulk"] = <<>>
Tabled == /\ Table(log, SW!Stream) /\ Table(submitted, SW!Class)
          /\ prioSubmitted \in [Station -> [SW!Class -> Seq(Messages)]]
          /\ \A s \in Station : prioSubmitted[s][2] = <<>>
          /\ \A s \in Station, q \in SW!Class : q # 2 =>
               prioSubmitted[s][q] = submitted[s][q]
Halved(a) == GoneHalves(a) /\ LogHalves /\ Tabled

LEMMA HalvedNow ==
  ASSUME NEW a \in Station, IInv, BurstInv(a)
  PROVE  Halved(a)
<1>1. Answers(a) /\ Line(a) /\ Histories
  BY DEF BurstInv, BulkInv
<1>2. LogHalves
  BY <1>1, PrioIs DEF LogHalves
<1>3. /\ SW!Class = 0..2 /\ 0 \in SW!Class /\ 1 \in SW!Class /\ 2 \in SW!Class
      /\ BULK = 2 /\ SW!StreamOf(0) = "prio" /\ SW!StreamOf(1) = "prio"
      /\ SW!StreamOf(2) = "bulk"
  BY Names, PrioNames
<1>4. Tabled
  <2>1. Table(log, SW!Stream) /\ Table(submitted, SW!Class)
    BY <1>1, StateTables
  <2>2. submitted \in [Station -> [SW!Class -> Seq(Messages)]]
    BY <1>1 DEF Histories
  <2>3. /\ prioSubmitted = [s \in Station |-> [q \in SW!Class |->
                              IF q = 2 THEN <<>> ELSE submitted[s][q]]]
        /\ \A s \in Station : /\ prioSubmitted[s][2] = <<>>
                              /\ \A q \in SW!Class : q # 2 =>
                                   prioSubmitted[s][q] = submitted[s][q]
    BY <1>3, <2>1, BlankIs DEF prioSubmitted
  <2>4. \A s \in Station, q \in SW!Class :
          (IF q = 2 THEN <<>> ELSE submitted[s][q]) \in Seq(Messages)
    BY <2>2
  <2>5. prioSubmitted \in [Station -> [SW!Class -> Seq(Messages)]]
    BY <2>3, <2>4
  <2> QED
    BY <2>1, <2>3, <2>5 DEF Tabled
<1>5. \A s \in Station, q \in SW!Class :
        /\ SW!gone[s][q] = GoneOf(submitted[s][q], queue[s][q],
                                  cur[s][SW!StreamOf(q)], q)
        /\ PV!gone[s][q] = GoneOf(prioSubmitted[s][q], prioQueue[s][q],
                                  prioCur[s][SW!StreamOf(q)], q)
  BY GoneForms DEF GoneFrom
<1>6. ASSUME NEW s \in Station, NEW q \in {0, 1} PROVE PV!gone[s][q] = SW!gone[s][q]
  <2>1. /\ prioQueue[s][q] = queue[s][q] /\ prioSubmitted[s][q] = submitted[s][q]
        /\ prioCur[s]["prio"] = cur[s]["prio"]
    BY <1>1, <1>6, PrioIs
  <2>2. SW!StreamOf(q) = "prio" /\ q \in SW!Class
    BY <1>3, <1>6
  <2> QED
    BY <1>5, <2>1, <2>2
<1>7. ASSUME NEW s \in Station PROVE PV!gone[s][2] = 0
  <2>1. /\ prioQueue[s][2] = <<>> /\ prioSubmitted[s][2] = <<>>
        /\ prioCur[s]["bulk"] = SW!Nothing
    BY <1>1, PrioIs
  <2>2. GoneOf(<<>>, <<>>, SW!Nothing, 2) = 0
    BY DEF GoneOf
  <2> QED
    BY <1>3, <1>5, <2>1, <2>2
<1>8. SW!gone[a][2] = Gone(a)
  <2>1. SW!gone[a][2] = GoneOf(submitted[a][2], queue[a][2], Bulk(a), 2)
    BY <1>3, <1>5 DEF Bulk
  <2>2. Bulk(a) # SW!Nothing => QosOf[Bulk(a).msg] = 2
    BY <1>1, <1>3 DEF Line
  <2> QED
    BY <1>3, <2>1, <2>2 DEF GoneOf, Gone, One
<1>9. SW!gone[Peer(a)][2] = 0
  <2>1. submitted[Peer(a)][2] = <<>> /\ queue[Peer(a)][2] = <<>>
        /\ cur[Peer(a)]["bulk"] = SW!Nothing
    BY <1>1, <1>3, Sides DEF Answers
  <2>2. GoneOf(<<>>, <<>>, SW!Nothing, 2) = 0
    BY DEF GoneOf
  <2> QED
    BY <1>3, <1>5, <2>1, <2>2, Sides
<1>10. GoneHalves(a)
  BY <1>6, <1>7, <1>8, <1>9 DEF GoneHalves
<1> QED
  BY <1>2, <1>4, <1>10 DEF Halved

LEMMA HalvedNext ==
  ASSUME NEW a \in Station
  PROVE  IInv' /\ BurstInv(a)' => Halved(a)'
<1>1. IInv /\ BurstInv(a) => Halved(a)
  BY HalvedNow
<1> QED
  BY <1>1, PTL

(* What has been completed, in either promise.                             *)
Counts(a) ==
  /\ \A s \in Station, q \in {0, 1} :
       PV!Promise!Completed(s, q) = SW!Promise!Completed(s, q)
  /\ \A s \in Station : PV!Promise!Completed(s, 2) = 0
  /\ SW!Promise!Completed(Peer(a), 2) = Len(log[Peer(a)]["bulk"])
LEMMA CompletedHalves ==
  ASSUME NEW a \in Station, IInv, BurstInv(a), BulkClass(a)
  PROVE  Counts(a)
<1>1. Completed(a) /\ Histories /\ LogHalves
  BY HalvedNow DEF BurstInv, BulkInv, Halved
<1>2. ASSUME NEW s \in Station, NEW q \in {0, 1}
      PROVE  PV!Promise!Completed(s, q) = SW!Promise!Completed(s, q)
  <2>1. PV!Promise!StreamOf(q) = "prio" /\ SW!Promise!StreamOf(q) = "prio"
    BY DEF PV!Promise!StreamOf, SW!Promise!StreamOf
  <2>2. prioLog[s]["prio"] = log[s]["prio"]
    BY <1>1 DEF LogHalves
  <2> QED
    BY <2>1, <2>2
       DEF PV!Promise!Completed, SW!Promise!Completed,
           PV!Promise!Cardinality, SW!Promise!Cardinality
<1>3. ASSUME NEW s \in Station PROVE PV!Promise!Completed(s, 2) = 0
  <2>1. PV!Promise!StreamOf(2) = "bulk"
    BY DEF PV!Promise!StreamOf
  <2>2. prioLog[s]["bulk"] = <<>>
    BY <1>1 DEF LogHalves
  <2>3. PV!Promise!Completed(s, 2) = PV!Count(<<>>, 2)
    BY <2>1, <2>2, PrioAssumption, PV!CompletedCount
  <2>4. PV!Places(<<>>, 2) = {}
    BY DEF PV!Places
  <2> QED
    BY <2>3, <2>4, FS_EmptySet DEF PV!Count, PV!Cardinality, Cardinality
<1>4. SW!Promise!Completed(Peer(a), 2) = Len(log[Peer(a)]["bulk"])
  <2> DEFINE l == log[Peer(a)]["bulk"]
             S == submitted[a][BULK]
             X == {i \in 1..Len(l) : QosOf[l[i].units[1][1]] = 2}
  <2>1. /\ l \in Seq(Entry) /\ S \in Seq(Messages)
        /\ \A i \in 1..Len(l) : i <= Len(S) /\ l[i] = Complete(S[i])
    BY <1>1, Sides DEF Completed, Histories
  <2>2. \A i \in 1..Len(S) : QosOf[S[i]] = 2
    BY Sides DEF BulkClass
  <2> HIDE DEF l, S
  <2>3. \A i \in 1..Len(l) : QosOf[l[i].units[1][1]] = 2
    <3> SUFFICES ASSUME NEW i \in 1..Len(l)
                 PROVE  QosOf[l[i].units[1][1]] = 2
      OBVIOUS
    <3>1. i \in 1..Len(S) /\ S[i] \in Messages /\ l[i] = Complete(S[i])
      BY <2>1
    <3>2. SW!Units(S[i], 0, Size[S[i]])[1][1] = S[i]
      <4>1. Size[S[i]] \in Nat \ {0}
        BY <3>1, StationAssumption
      <4> QED
        BY <4>1 DEF SW!Units
    <3>3. l[i].units[1][1] = S[i]
      BY <3>1, <3>2 DEF Complete
    <3> QED
      BY <2>2, <3>1, <3>3
  <2>4. X = 1..Len(l) /\ Len(l) \in Nat
    BY <2>1, <2>3
  <2>5. Cardinality(1..Len(l)) = Len(l)
    BY <2>4, FS_Interval
  <2>6. SW!Promise!Completed(Peer(a), 2) = Cardinality(X)
    <3>1. SW!Promise!StreamOf(2) = "bulk"
      BY DEF SW!Promise!StreamOf
    <3>2. SW!Promise!Completed(Peer(a), 2) =
            Cardinality({i \in 1..Len(log[Peer(a)][SW!Promise!StreamOf(2)]) :
              QosOf[log[Peer(a)][SW!Promise!StreamOf(2)][i].units[1][1]] = 2})
      BY Zenon DEF SW!Promise!Completed, SW!Promise!Cardinality, Cardinality
    <3> QED
      BY <3>1, <3>2 DEF l
  <2> HIDE DEF X
  <2> QED
    BY <2>4, <2>5, <2>6 DEF l
<1> QED
  BY <1>2, <1>3, <1>4 DEF Counts

(* Bulk messages wait among the bulk messages.                             *)
LEMMA SubmittedStep ==
  ASSUME [Next]_vars
  PROVE  \/ \E s \in Station, m \in Messages : Submit(s, m)
         \/ submitted' = submitted
<1>1. \A s \in Station : Poll(s) \/ Receive(s) \/ Drain(s) \/ PushCaps(s)
        \/ KickCaps(s) \/ Timeout(s) => submitted' = submitted
  BY DEF Poll, Receive, Drain, PushCaps, KickCaps, Timeout
<1>2. Lose \/ UNCHANGED vars => submitted' = submitted
  BY DEF Lose, vars
<1> QED
  BY <1>1, <1>2 DEF Next

LEMMA BulkClassStep ==
  ASSUME NEW a \in Station, OneWayBursts(a), Histories, BulkClass(a),
         [Next]_vars
  PROVE  BulkClass(a)'
<1>1. CASE submitted' = submitted
  BY <1>1 DEF BulkClass
<1>2. ASSUME NEW s \in Station, NEW m \in Messages, Submit(s, m)
      PROVE  BulkClass(a)'
  <2> DEFINE q == QosOf[m]
             S == submitted[a][BULK]
  <2>1. submitted' = [submitted EXCEPT ![s][q] = Append(@, m)] /\ s = a
    BY <1>2 DEF OneWayBursts, Submit, SW!Submit
  <2>2. submitted \in [Station -> [SW!Class -> Seq(Messages)]]
    BY DEF Histories
  <2>3. S \in Seq(Messages)
    BY <2>2, Sides
  <2>4. submitted'[a][BULK] = IF q = BULK THEN Append(S, m) ELSE S
    BY <2>1, <2>2, Sides
  <2>5. \A i \in 1..Len(S) : QosOf[S[i]] = BULK
    BY DEF BulkClass
  <2> HIDE DEF S
  <2>6. \A i \in 1..Len(Append(S, m)) :
           \/ i \in 1..Len(S) /\ Append(S, m)[i] = S[i]
           \/ Append(S, m)[i] = m
    BY <2>3
  <2> DEFINE S2 == submitted'[a][BULK]
  <2>7. \A i \in 1..Len(S2) : QosOf[S2[i]] = BULK
    BY <2>4, <2>5, <2>6
  <2> QED
    BY <2>7 DEF BulkClass
<1> QED
  BY <1>1, <1>2, SubmittedStep

-----------------------------------------------------------------------------
(* A step that leaves the priority half alone, and one that is a step of   *)
(* the stop-and-wait exchange.                                             *)
PrioStays ==
  /\ UNCHANGED <<prioQueue, prioCur, prioAssembly, prioSubmitted, prioLog>>
  /\ UNCHANGED <<pending, seq, last_rx_seq, taken, accepted>>
  /\ prioAir' \in {prioAir, None}

LEMMA PrioFrame ==
  ASSUME PrioInv, PrioStays, IInv'
  PROVE  PrioInv' /\ UNCHANGED PV!Promise!rsVars
<1>1. /\ UNCHANGED <<prioQueue, prioCur, prioAssembly, prioSubmitted, prioLog>>
      /\ UNCHANGED <<pending, seq, last_rx_seq, taken, accepted>>
      /\ prioAir' \in {prioAir, None}
  BY DEF PrioStays
<1>2. /\ PV!TypeOK /\ PV!PendingOpen /\ PV!Core /\ PV!StreamInv /\ PV!SizesFit
  BY DEF PrioInv
<1>3. PV!TypeOK'
  <2>1. /\ await' \in [Station -> BOOLEAN] /\ reply_due' \in [Station -> BOOLEAN]
        /\ delivered_n' \in [Station -> Nat]
    <3>1. /\ await' \in [Station -> BOOLEAN]
          /\ reply_due' \in [Station -> BOOLEAN]
          /\ delivered_n' \in [Station -> 0..DeliveredMax]
      BY DEF IInv, Typed, TypeOK, AirType
    <3>2. 0..DeliveredMax \subseteq Nat
      BY StationAssumption
    <3> QED
      BY <3>1, <3>2
  <2>2. prioAir' \in PV!Frame \cup {None}
    BY <1>1, <1>2 DEF PV!TypeOK
  <2> QED
    BY <1>1, <1>2, <2>1, <2>2, PrioNames DEF PV!TypeOK
<1>4. PV!PendingOpen'
  BY <1>1, <1>2 DEF PV!PendingOpen
<1>5. PV!Core'
  BY <1>1, <1>2, PrioAssumption, PV!CoreFrame
<1>6. PV!SizesFit'
  BY <1>1, <1>2 DEF PV!SizesFit
<1>7. \A s \in PV!Station : PV!Dir(s)' /\ PV!gone'[s] = PV!gone[s]
  <2> SUFFICES ASSUME NEW s \in PV!Station
               PROVE  PV!Dir(s)' /\ PV!gone'[s] = PV!gone[s]
    OBVIOUS
  <2>1. PV!Dir(s)
    BY <1>2 DEF PV!StreamInv
  <2> QED
    BY <1>1, <2>1, PrioAssumption, PV!DirFrame
<1>8. PV!StreamInv'
  BY <1>7 DEF PV!StreamInv
<1>9. PV!gone' = PV!gone
  BY <1>7, PrioAssumption, PV!GoneSame
<1> QED
  BY <1>1, <1>3, <1>4, <1>5, <1>6, <1>8, <1>9 DEF PrioInv, PV!Promise!rsVars

LEMMA PrioStep ==
  ASSUME PrioInv, [PV!Next]_(PV!vars)
  PROVE  PrioInv' /\ [PV!Promise!Next]_(PV!Promise!rsVars)
<1>1. /\ PV!TypeOK /\ PV!PendingOpen /\ PV!Core /\ PV!StreamInv /\ PV!SizesFit
  BY DEF PrioInv
<1>2. PV!TypeOK'
  BY <1>1, PrioAssumption, PV!TypeStep
<1>3. PV!PendingOpen'
  BY <1>1, PrioAssumption, PV!PendingOpenStep
<1>4. PV!Core'
  BY <1>1, PrioAssumption, PV!CoreStep
<1>5. PV!StreamInv' /\ [PV!Promise!Next]_(PV!Promise!rsVars)
  BY <1>1, PrioAssumption, PV!StreamStep
<1>6. PV!SizesFit'
  BY <1>1, PrioAssumption, PV!SizesFitStep
<1> QED
  BY <1>2, <1>3, <1>4, <1>5, <1>6 DEF PrioInv

LEMMA StateTablesNext ==
  IInv' /\ Histories' =>
    /\ Table(queue', SW!Class) /\ Table(cur', SW!Stream)
    /\ Table(assembled', SW!Stream) /\ Table(submitted', SW!Class)
    /\ Table(log', SW!Stream)
<1>1. IInv /\ Histories =>
        /\ Table(queue, SW!Class) /\ Table(cur, SW!Stream)
        /\ Table(assembled, SW!Stream) /\ Table(submitted, SW!Class)
        /\ Table(log, SW!Stream)
  BY StateTables
<1>2. (IInv /\ Histories)' =>
        (/\ Table(queue, SW!Class) /\ Table(cur, SW!Stream)
         /\ Table(assembled, SW!Stream) /\ Table(submitted, SW!Class)
         /\ Table(log, SW!Stream))'
  BY <1>1, PTL
<1> QED
  BY <1>2 DEF Table, SW!Class, SW!Stream

(* What leaves every priority column alone leaves the tables alone.        *)
LEMMA PrioSame ==
  ASSUME IInv, Histories, IInv', Histories',
         \A s \in Station :
           /\ queue'[s][0] = queue[s][0] /\ queue'[s][1] = queue[s][1]
           /\ submitted'[s][0] = submitted[s][0]
           /\ submitted'[s][1] = submitted[s][1]
           /\ cur'[s]["prio"] = cur[s]["prio"]
           /\ log'[s]["prio"] = log[s]["prio"]
           /\ assembled'[s]["prio"] = assembled[s]["prio"]
  PROVE  UNCHANGED <<prioQueue, prioCur, prioAssembly, prioSubmitted, prioLog>>
<1>1. /\ SW!Class = 0..2 /\ SW!Stream = {"prio", "bulk"} /\ BULK = 2
      /\ BULK \in SW!Class /\ "bulk" \in SW!Stream
  BY Names
<1>2. /\ Table(queue, SW!Class) /\ Table(cur, SW!Stream)
      /\ Table(assembled, SW!Stream) /\ Table(submitted, SW!Class)
      /\ Table(log, SW!Stream)
  BY StateTables
<1>3. /\ Table(queue', SW!Class) /\ Table(cur', SW!Stream)
      /\ Table(assembled', SW!Stream) /\ Table(submitted', SW!Class)
      /\ Table(log', SW!Stream)
  BY StateTablesNext
<1>4. \A j \in SW!Class : j # BULK => j = 0 \/ j = 1
  BY <1>1
<1>5. \A j \in SW!Stream : j # "bulk" => j = "prio"
  BY <1>1
<1>6. Blank(queue', BULK, <<>>) = Blank(queue, BULK, <<>>)
  <2>1. \A s \in Station, j \in SW!Class : j # BULK => queue'[s][j] = queue[s][j]
    BY <1>4
  <2> QED
    BY <1>1, <1>2, <1>3, <2>1, BlankSame
<1>7. Blank(submitted', BULK, <<>>) = Blank(submitted, BULK, <<>>)
  <2>1. \A s \in Station, j \in SW!Class :
          j # BULK => submitted'[s][j] = submitted[s][j]
    BY <1>4
  <2> QED
    BY <1>1, <1>2, <1>3, <2>1, BlankSame
<1>8. Blank(cur', "bulk", SW!Nothing) = Blank(cur, "bulk", SW!Nothing)
  <2>1. \A s \in Station, j \in SW!Stream : j # "bulk" => cur'[s][j] = cur[s][j]
    BY <1>5
  <2> QED
    BY <1>1, <1>2, <1>3, <2>1, BlankSame
<1>9. Blank(log', "bulk", <<>>) = Blank(log, "bulk", <<>>)
  <2>1. \A s \in Station, j \in SW!Stream : j # "bulk" => log'[s][j] = log[s][j]
    BY <1>5
  <2> QED
    BY <1>1, <1>2, <1>3, <2>1, BlankSame
<1>10. Blank(assembled', "bulk", <<>>) = Blank(assembled, "bulk", <<>>)
  <2>1. \A s \in Station, j \in SW!Stream :
          j # "bulk" => assembled'[s][j] = assembled[s][j]
    BY <1>5
  <2> QED
    BY <1>1, <1>2, <1>3, <2>1, BlankSame
<1>11. SW!Nothing' = SW!Nothing /\ BULK' = BULK
  BY DEF SW!Nothing, BULK, SW!QOS_BULK
<1> QED
  BY <1>6, <1>7, <1>8, <1>9, <1>10, <1>11
     DEF prioQueue, prioCur, prioAssembly, prioSubmitted, prioLog

(* The part of a step that changes none of the tables.                     *)
LEMMA TablesKept ==
  ASSUME UNCHANGED <<queue, cur, asm, asm_len, submitted, log>>
  PROVE  UNCHANGED <<prioQueue, prioCur, prioAssembly, prioSubmitted, prioLog>>
<1>1. assembled' = assembled
  BY DEF assembled
<1> QED
  BY <1>1 DEF prioQueue, prioCur, prioAssembly, prioSubmitted, prioLog, Blank,
              SW!Nothing, BULK, SW!QOS_BULK

LEMMA PrioAirs ==
  /\ air = None => prioAir = None
  /\ air.kind \in {"burst", "burst_ack"} => prioAir = None
  /\ air.kind \notin {"burst", "burst_ack"} => prioAir = air
  /\ air' = None => prioAir' = None
  /\ air'.kind \in {"burst", "burst_ack"} => prioAir' = None
  /\ air'.kind \notin {"burst", "burst_ack"} => prioAir' = air'
  /\ UNCHANGED air => UNCHANGED prioAir
  BY DEF prioAir

-----------------------------------------------------------------------------
(* Each step, seen from the priority half.                                 *)
Cell(f, s, j, v) == [f EXCEPT ![s][j] = v]
LEMMA BlankedCell ==
  ASSUME NEW K, NEW k \in K, NEW e, NEW f, Table(f, K), NEW s \in Station,
         NEW j \in K, j # k, NEW v
  PROVE  Blank(Cell(f, s, j, v), k, e) = Cell(Blank(f, k, e), s, j, v)
<1>1. Blank([f EXCEPT ![s][j] = v], k, e) = [Blank(f, k, e) EXCEPT ![s][j] = v]
  BY BlankCell
<1> QED
  BY <1>1 DEF Cell

LEMMA TableEqual ==
  ASSUME NEW K, NEW f, NEW g, Table(f, K), Table(g, K),
         \A s \in Station, j \in K : f[s][j] = g[s][j]
  PROVE  f = g
<1>1. \A s \in Station : [j \in K |-> f[s][j]] = [j \in K |-> g[s][j]]
  OBVIOUS
<1>2. f = [s \in Station |-> [j \in K |-> f[s][j]]]
      /\ g = [s \in Station |-> [j \in K |-> g[s][j]]]
  BY DEF Table
<1> QED
  BY <1>1, <1>2

LEMMA CellTable ==
  ASSUME NEW K, NEW f, Table(f, K), NEW s \in Station, NEW j \in K, NEW v
  PROVE  /\ Table(Cell(f, s, j, v), K)
         /\ \A r \in Station, i \in K :
              Cell(f, s, j, v)[r][i] = IF r = s /\ i = j THEN v ELSE f[r][i]
<1> DEFINE h == [f[s] EXCEPT ![j] = v]
           g == [f EXCEPT ![s] = h]
<1>1. f[s] = [i \in K |-> f[s][i]]
  BY DEF Table
<1>2. h = [i \in K |-> h[i]] /\ \A i \in K : h[i] = IF i = j THEN v ELSE f[s][i]
  BY <1>1
<1>3. Cell(f, s, j, v) = g
  BY DEF Cell, Table
<1> HIDE DEF h
<1>4. \A r \in Station : g[r] = IF r = s THEN h ELSE f[r]
  BY DEF Table
<1>5. \A r \in Station, i \in K : g[r][i] = IF r = s /\ i = j THEN v ELSE f[r][i]
  BY <1>2, <1>4
<1>6. Table(g, K)
  BY <1>2, BlankRow
<1> HIDE DEF g
<1> QED
  BY <1>3, <1>5, <1>6

LEMMA PrioSubmit ==
  ASSUME NEW a \in Station, OneWayBursts(a), PoolSlots \in Nat, IInv, Histories,
         IInv', Histories', NEW s \in Station, NEW m \in Messages, Submit(s, m)
  PROVE  PrioStays \/ PV!Submit(s, m)
<1> DEFINE q == QosOf[m]
           u == Append(queue[s][q], m)
           w == Append(submitted[s][q], m)
<1>1. /\ From[m] = s
      /\ \A i \in 1..Len(submitted[s][q]) : submitted[s][q][i] # m
      /\ Size[m] <= MsgMax
      /\ Len(queue[s][q]) < MaxMsgs
      /\ SW!pool_used(s) < PoolSlots
      /\ queue' = [queue EXCEPT ![s][q] = u]
      /\ submitted' = [submitted EXCEPT ![s][q] = w]
      /\ UNCHANGED <<cur, pending, seq, last_rx_seq, reply_due, assembled,
                     delivered_n, await, air, log, taken, accepted>>
  BY DEF Submit, SW!Submit, SW!rxVars
<1>2. /\ SW!Class = 0..2 /\ BULK = 2 /\ BULK \in SW!Class
      /\ SW!Stream = {"prio", "bulk"} /\ q \in 0..2
  BY Names, StationAssumption
<1>3. Table(queue, SW!Class) /\ Table(submitted, SW!Class)
  BY StateTables
<1>4. /\ queue \in [Station -> [SW!Class -> Seq(Messages)]]
      /\ submitted \in [Station -> [SW!Class -> Seq(Messages)]]
  BY DEF IInv, Typed, MsgType, Histories
<1>5. UNCHANGED <<prioCur, prioAssembly, prioLog, prioAir>>
  BY <1>1 DEF prioCur, prioAssembly, prioLog, prioAir, Blank, SW!Nothing
<1>6. CASE q = 2
  <2> HIDE DEF q, u, w
  <2>1. \A r \in Station : /\ queue'[r][0] = queue[r][0]
                           /\ queue'[r][1] = queue[r][1]
                           /\ submitted'[r][0] = submitted[r][0]
                           /\ submitted'[r][1] = submitted[r][1]
    <3>1. 0 \in SW!Class /\ 1 \in SW!Class /\ q \in SW!Class /\ q # 0 /\ q # 1
      BY <1>2, <1>6
    <3>2. queue' = Cell(queue, s, q, u) /\ submitted' = Cell(submitted, s, q, w)
      BY <1>1 DEF Cell
    <3>3. \A r \in Station, i \in SW!Class :
            Cell(queue, s, q, u)[r][i] = IF r = s /\ i = q THEN u ELSE queue[r][i]
      BY <1>3, <3>1, CellTable
    <3>4. \A r \in Station, i \in SW!Class :
            Cell(submitted, s, q, w)[r][i] =
              IF r = s /\ i = q THEN w ELSE submitted[r][i]
      BY <1>3, <3>1, CellTable
    <3> QED
      BY <3>1, <3>2, <3>3, <3>4
  <2>2. UNCHANGED <<prioQueue, prioCur, prioAssembly, prioSubmitted, prioLog>>
    BY <1>1, <2>1, PrioSame
  <2> QED
    BY <1>1, <1>5, <2>2 DEF PrioStays
<1>7. CASE q # 2
  <2>1. q \in SW!Class /\ q # BULK /\ (q = 0 \/ q = 1)
    BY <1>2, <1>7
  <2> HIDE DEF q
  <2>2. /\ prioQueue[s][q] = queue[s][q]
        /\ prioSubmitted[s][q] = submitted[s][q]
    BY <2>1, PrioIs
  <2> HIDE DEF u, w
  <2>8. /\ Table(queue, SW!Class) /\ Table(submitted, SW!Class)
        /\ BULK \in SW!Class
    BY <1>2, <1>3
  <2>3. prioQueue' = [prioQueue EXCEPT ![s][q] = u]
    <3>1. Blank(Cell(queue, s, q, u), BULK, <<>>)
            = Cell(Blank(queue, BULK, <<>>), s, q, u)
      BY <2>1, <2>8, BlankedCell
    <3>2. prioQueue' = Blank(queue', BULK, <<>>)
      BY DEF prioQueue, BULK, SW!QOS_BULK
    <3> QED
      BY <1>1, <3>1, <3>2 DEF prioQueue, Cell
  <2>4. prioSubmitted' = [prioSubmitted EXCEPT ![s][q] = w]
    <3>1. Blank(Cell(submitted, s, q, w), BULK, <<>>)
            = Cell(Blank(submitted, BULK, <<>>), s, q, w)
      BY <2>1, <2>8, BlankedCell
    <3>2. prioSubmitted' = Blank(submitted', BULK, <<>>)
      BY DEF prioSubmitted, BULK, SW!QOS_BULK
    <3> QED
      BY <1>1, <3>1, <3>2 DEF prioSubmitted, Cell
  <2>5. PV!pool_used(s) < PoolSlots
    <3> DEFINE n0 == Len(queue[s][0])
               n1 == Len(queue[s][1])
               n2 == Len(queue[s][2])
               p == IF cur[s]["prio"] = SW!Nothing THEN 0 ELSE 1
               k == IF cur[s]["bulk"] = SW!Nothing THEN 0 ELSE 1
    <3>1. SW!pool_used(s) = n0 + n1 + n2 + p + k + delivered_n[s]
      BY Names DEF SW!pool_used, SW!outbound
    <3>2. /\ prioQueue[s][0] = queue[s][0] /\ prioQueue[s][1] = queue[s][1]
          /\ prioQueue[s][2] = <<>>
          /\ prioCur[s]["prio"] = cur[s]["prio"]
          /\ prioCur[s]["bulk"] = SW!Nothing
      BY PrioIs
    <3>3. PV!pool_used(s) = n0 + n1 + Len(prioQueue[s][2]) + p + 0
                            + delivered_n[s]
      BY <3>2, PrioNames DEF PV!pool_used, PV!outbound
    <3>4. Len(prioQueue[s][2]) = 0
      BY <3>2
    <3>5. /\ n0 \in Nat /\ n1 \in Nat /\ n2 \in Nat
          /\ p \in {0, 1} /\ k \in {0, 1}
      <4>1. /\ queue[s][0] \in Seq(Messages) /\ queue[s][1] \in Seq(Messages)
            /\ queue[s][2] \in Seq(Messages)
        BY <1>2, <1>4
      <4> QED
        BY <4>1
    <3>6. delivered_n[s] \in Nat
      <4>1. delivered_n[s] \in 0..DeliveredMax /\ DeliveredMax \in Nat
        BY StationAssumption DEF IInv, Typed, TypeOK
      <4> QED
        BY <4>1
    <3> HIDE DEF n0, n1, n2, p, k
    <3> QED
      BY <1>1, <3>1, <3>3, <3>4, <3>5, <3>6
  <2>6. PV!Submit(s, m)
    BY <1>1, <1>5, <2>2, <2>3, <2>4, <2>5 DEF PV!Submit, PV!rxVars, q, u, w
  <2> QED
    BY <2>6
<1> QED
  BY <1>6, <1>7

(* A fragment of a burst opens no priority message.                        *)
LEMMA PrioFragment ==
  ASSUME NEW a \in Station, IInv, Histories, UNCHANGED <<inVars, submitted>>,
         NEW r \in Rungs, NEW b \in BurstAt(a, r), SendBurstFrag(a, r, b)
  PROVE  PrioStays
<1> DEFINE open == IF btx[a].active THEN cur[a] ELSE SW!OpenedCur(a)
           oq == IF btx[a].active THEN queue[a] ELSE SW!OpenedQueue(a)
<1>1. /\ air'.kind = "burst" /\ cur' = [cur EXCEPT ![a] = open]
      /\ queue' = [queue EXCEPT ![a] = oq]
      /\ UNCHANGED <<pending, seq, taken>> /\ Sending(b)
  BY DEF SendBurstFrag
<1>2. btx[a].active \/ ~priority_waiting(a)
  BY <1>1 DEF BurstAt, MayEngage, Sending
<1>3. /\ [open EXCEPT !["bulk"] = SW!Nothing] = prioCur[a]
      /\ [oq EXCEPT ![BULK] = <<>>] = prioQueue[a]
  <2>1. CASE btx[a].active
    BY <2>1 DEF prioCur, prioQueue, Blank
  <2>2. CASE ~btx[a].active
    BY <1>2, <2>2, PrioOpened
  <2> QED
    BY <2>1, <2>2
<1>4. /\ cur \in [Station -> [SW!Stream -> SW!Open \cup {SW!Nothing}]]
      /\ queue \in [Station -> [SW!Class -> Seq(Messages)]]
      /\ open \in [SW!Stream -> SW!Open \cup {SW!Nothing}]
      /\ oq \in [SW!Class -> Seq(Messages)]
  BY OpenedType DEF IInv, Typed, MsgType
<1> HIDE DEF open, oq
<1>5. /\ Blank([cur EXCEPT ![a] = open], "bulk", SW!Nothing)
           = [prioCur EXCEPT ![a] = prioCur[a]]
      /\ Blank([queue EXCEPT ![a] = oq], BULK, <<>>)
           = [prioQueue EXCEPT ![a] = prioQueue[a]]
  <2>1. /\ Table(cur, SW!Stream) /\ Table(queue, SW!Class)
        /\ open = [j \in SW!Stream |-> open[j]] /\ oq = [j \in SW!Class |-> oq[j]]
        /\ "bulk" \in SW!Stream /\ BULK \in SW!Class
    BY <1>4, StateTables, Sides
  <2>2. Blank([cur EXCEPT ![a] = open], "bulk", SW!Nothing)
          = [Blank(cur, "bulk", SW!Nothing) EXCEPT
               ![a] = [open EXCEPT !["bulk"] = SW!Nothing]]
    BY <2>1, BlankRow
  <2>3. Blank([queue EXCEPT ![a] = oq], BULK, <<>>)
          = [Blank(queue, BULK, <<>>) EXCEPT ![a] = [oq EXCEPT ![BULK] = <<>>]]
    BY <2>1, BlankRow
  <2> QED
    BY <1>3, <2>2, <2>3 DEF prioCur, prioQueue
<1>6. /\ [prioCur EXCEPT ![a] = prioCur[a]] = prioCur
      /\ [prioQueue EXCEPT ![a] = prioQueue[a]] = prioQueue
  BY DEF prioCur, prioQueue, Blank
<1>7. UNCHANGED <<prioCur, prioQueue>>
  BY <1>1, <1>5, <1>6 DEF prioCur, prioQueue, BULK, SW!QOS_BULK, SW!Nothing
<1>8. UNCHANGED <<prioAssembly, prioSubmitted, prioLog, last_rx_seq, accepted>>
  BY DEF inVars, prioAssembly, prioSubmitted, prioLog, Blank, assembled, BULK,
         SW!QOS_BULK
<1> QED
  BY <1>1, <1>7, <1>8, PrioAirs DEF PrioStays

(* The three sends of the stop-and-wait path.                              *)
LEMMA PrioPending ==
  ASSUME NEW a \in Station, air = None, ~await[a], UNCHANGED <<inVars, submitted>>,
         SW!SendPending(a), reply_due' = [reply_due EXCEPT ![a] = FALSE]
  PROVE  PV!Transmit(a)
<1>1. /\ pending[a].active /\ air' = SW!DataFrame(a, pending[a])
      /\ await' = [await EXCEPT ![a] = TRUE]
      /\ UNCHANGED <<queue, cur, pending, seq, taken>>
  BY DEF SW!SendPending, SW!txVars
<1>2. UNCHANGED <<prioQueue, prioCur, prioAssembly, prioSubmitted, prioLog>>
  BY <1>1, TablesKept DEF inVars
<1>3. air'.kind = "data" /\ air' = PV!DataFrame(a, pending[a])
  BY <1>1 DEF SW!DataFrame, PV!DataFrame, SW!Peer, PV!Peer, SW!AckField,
              PV!AckField
<1>4. prioAir = None /\ prioAir' = PV!DataFrame(a, pending[a])
  BY <1>3, PrioAirs
<1>5. PV!SendPending(a)
  BY <1>1, <1>2, <1>4 DEF PV!SendPending, PV!txVars
<1> QED
  BY <1>2, <1>4, <1>5 DEF PV!Transmit, inVars

LEMMA PrioNew ==
  ASSUME NEW a \in Station, IInv, Histories, air = None, ~await[a],
         UNCHANGED <<inVars, submitted>>, SW!SendNew(a),
         SW!OpenedCur(a)["prio"] # SW!Nothing,
         reply_due' = [reply_due EXCEPT ![a] = FALSE]
  PROVE  PV!Transmit(a)
<1> DEFINE oc == SW!OpenedCur(a)
           oq == SW!OpenedQueue(a)
<1>1. /\ ~pending[a].active
      /\ cur' = [cur EXCEPT ![a] = oc] /\ queue' = [queue EXCEPT ![a] = oq]
      /\ await' = [await EXCEPT ![a] = TRUE]
      /\ \E cap \in ChunkCaps :
           LET f == SW!Cut(a, "prio", oc["prio"], cap)
           IN  /\ pending' = [pending EXCEPT ![a] = f]
               /\ seq' = [seq EXCEPT ![a] = f.seq]
               /\ taken' = [taken EXCEPT ![a] = Append(@, f)]
               /\ air' = SW!DataFrame(a, f)
  BY DEF SW!SendNew
<1>2. PICK cap \in ChunkCaps :
        /\ pending' = [pending EXCEPT ![a] = SW!Cut(a, "prio", oc["prio"], cap)]
        /\ seq' = [seq EXCEPT ![a] = SW!Cut(a, "prio", oc["prio"], cap).seq]
        /\ taken' = [taken EXCEPT ![a] =
                       Append(@, SW!Cut(a, "prio", oc["prio"], cap))]
        /\ air' = SW!DataFrame(a, SW!Cut(a, "prio", oc["prio"], cap))
  BY <1>1
<1>3. /\ PV!OpenedCur(a) = [oc EXCEPT !["bulk"] = SW!Nothing]
      /\ PV!OpenedQueue(a) = [oq EXCEPT ![BULK] = <<>>]
  BY PrioOpened
<1>4. /\ oc \in [SW!Stream -> SW!Open \cup {SW!Nothing}]
      /\ oq \in [SW!Class -> Seq(Messages)]
  BY OpenedType DEF IInv, Typed, MsgType
<1>5. PV!OpenedCur(a)["prio"] = oc["prio"] /\ oc["prio"] # PV!Nothing
  BY <1>3, <1>4, Sides, PrioNames
<1> HIDE DEF oc, oq
<1>6. /\ prioCur' = [prioCur EXCEPT ![a] = PV!OpenedCur(a)]
      /\ prioQueue' = [prioQueue EXCEPT ![a] = PV!OpenedQueue(a)]
  <2>1. /\ Table(cur, SW!Stream) /\ Table(queue, SW!Class)
        /\ oc = [j \in SW!Stream |-> oc[j]] /\ oq = [j \in SW!Class |-> oq[j]]
        /\ "bulk" \in SW!Stream /\ BULK \in SW!Class
    BY <1>4, StateTables, Sides
  <2>2. Blank([cur EXCEPT ![a] = oc], "bulk", SW!Nothing)
          = [Blank(cur, "bulk", SW!Nothing) EXCEPT
               ![a] = [oc EXCEPT !["bulk"] = SW!Nothing]]
    BY <2>1, BlankRow
  <2>3. Blank([queue EXCEPT ![a] = oq], BULK, <<>>)
          = [Blank(queue, BULK, <<>>) EXCEPT ![a] = [oq EXCEPT ![BULK] = <<>>]]
    BY <2>1, BlankRow
  <2>4. /\ prioCur' = Blank(cur', "bulk", SW!Nothing)
        /\ prioQueue' = Blank(queue', BULK, <<>>)
    BY DEF prioCur, prioQueue, SW!Nothing, BULK, SW!QOS_BULK
  <2> QED
    BY <1>1, <1>3, <2>2, <2>3, <2>4 DEF prioCur, prioQueue
<1> DEFINE f == SW!Cut(a, "prio", oc["prio"], cap)
<1>7. f = PV!Cut(a, "prio", PV!OpenedCur(a)["prio"], cap)
  BY <1>5 DEF SW!Cut, PV!Cut, SW!Units, PV!Units
<1> HIDE DEF f
<1>8. air'.kind = "data" /\ air' = PV!DataFrame(a, f)
  BY <1>2 DEF f, SW!DataFrame, PV!DataFrame, SW!Peer, PV!Peer, SW!AckField,
              PV!AckField
<1>9. prioAir = None /\ prioAir' = PV!DataFrame(a, f)
  BY <1>8, PrioAirs
<1>10. UNCHANGED <<prioAssembly, prioSubmitted, prioLog>>
  BY DEF inVars, prioAssembly, prioSubmitted, prioLog, Blank, assembled, BULK,
         SW!QOS_BULK
<1>11. PV!SendNew(a)
  <2>1. /\ pending' = [pending EXCEPT ![a] = f] /\ seq' = [seq EXCEPT ![a] = f.seq]
        /\ taken' = [taken EXCEPT ![a] = Append(@, f)]
    BY <1>2 DEF f
  <2>2. \E c \in ChunkCaps :
          LET g == PV!Cut(a, "prio", PV!OpenedCur(a)["prio"], c)
          IN  /\ pending' = [pending EXCEPT ![a] = g]
              /\ seq' = [seq EXCEPT ![a] = g.seq]
              /\ taken' = [taken EXCEPT ![a] = Append(@, g)]
              /\ prioAir' = PV!DataFrame(a, g)
    BY <1>7, <1>9, <2>1
  <2> QED
    BY <1>1, <1>5, <1>6, <2>2 DEF PV!SendNew
<1> QED
  BY <1>9, <1>10, <1>11 DEF PV!Transmit, inVars

LEMMA PrioAck ==
  ASSUME NEW t \in Station, IInv, Histories, air = None, ~await[t],
         UNCHANGED <<inVars, submitted>>,
         SW!SendAck(t), reply_due' = [reply_due EXCEPT ![t] = FALSE]
  PROVE  PV!Transmit(t)
<1>1. /\ ~SW!has_traffic(t) /\ SW!owes_ack(t) /\ air' = SW!NoDataFrame(t)
      /\ await' = [await EXCEPT ![t] = FALSE]
      /\ UNCHANGED <<queue, cur, pending, seq, taken>>
  BY DEF SW!SendAck, SW!txVars
<1>2. UNCHANGED <<prioQueue, prioCur, prioAssembly, prioSubmitted, prioLog>>
  BY <1>1, TablesKept DEF inVars
<1>3. air'.kind = "nodata" /\ air' = PV!NoDataFrame(t)
  BY <1>1 DEF SW!NoDataFrame, PV!NoDataFrame, SW!Peer, PV!Peer, SW!AckField,
              PV!AckField
<1>4. prioAir = None /\ prioAir' = PV!NoDataFrame(t)
  BY <1>3, PrioAirs
<1>5. ~PV!has_traffic(t)
  <2>1. /\ ~pending[t].active /\ cur[t]["prio"] = SW!Nothing
        /\ queue[t][0] = <<>> /\ queue[t][1] = <<>>
    BY <1>1, Names DEF SW!has_traffic
  <2>2. /\ prioCur[t]["prio"] = SW!Nothing /\ prioCur[t]["bulk"] = SW!Nothing
        /\ prioQueue[t][0] = <<>> /\ prioQueue[t][1] = <<>>
        /\ prioQueue[t][2] = <<>>
    BY <2>1, PrioIs
  <2>3. /\ \A c \in PV!Stream : c = "prio" \/ c = "bulk"
        /\ \A q \in PV!Class : q = 0 \/ q = 1 \/ q = 2
    BY PrioNames, Names
  <2> QED
    BY <2>1, <2>2, <2>3, PrioNames DEF PV!has_traffic
<1>6. PV!SendAck(t)
  BY <1>1, <1>2, <1>4, <1>5 DEF PV!SendAck, PV!txVars, PV!owes_ack, SW!owes_ack
<1> QED
  BY <1>2, <1>4, <1>6 DEF PV!Transmit, inVars

(* What an acknowledgment does to the open priority message.               *)
LEMMA RetiredPrio ==
  ASSUME NEW s \in Station, IInv, Histories, NEW f,
         pending[s].active => pending[s].stream = "prio"
  PROVE  /\ PV!Retires(s, f) <=> SW!Retires(s, f)
         /\ [SW!RetiredCur(s, f) EXCEPT !["bulk"] = SW!Nothing]
              = PV!RetiredCur(s, f)
<1> DEFINE c == cur[s]
           d == prioCur[s]
           p == pending[s]
           next == IF p.last THEN SW!Nothing
                   ELSE [msg |-> c["prio"].msg, off |-> c["prio"].off + Len(p.chunk)]
<1>1. PV!Retires(s, f) <=> SW!Retires(s, f)
  BY DEF PV!Retires, SW!Retires
<1>2. /\ c = [j \in SW!Stream |-> c[j]] /\ d = [c EXCEPT !["bulk"] = SW!Nothing]
      /\ d["prio"] = c["prio"] /\ d = [j \in SW!Stream |-> d[j]]
  <2>1. c = [j \in SW!Stream |-> c[j]]
    BY StateTables DEF Table
  <2>2. d = [c EXCEPT !["bulk"] = SW!Nothing] /\ d["prio"] = c["prio"]
    BY PrioIs DEF prioCur, Blank
  <2> HIDE DEF c, d
  <2> QED
    BY <2>1, <2>2
<1>3. CASE ~SW!Retires(s, f) \/ c["prio"] = SW!Nothing
  <2>1. SW!RetiredCur(s, f) = c /\ PV!RetiredCur(s, f) = d
    BY <1>1, <1>2, <1>3, PrioNames
       DEF SW!RetiredCur, PV!RetiredCur, SW!Retires, PV!Retires
  <2> QED
    BY <1>1, <1>2, <2>1
<1>4. CASE SW!Retires(s, f) /\ c["prio"] # SW!Nothing
  <2>1. p.stream = "prio"
    BY <1>4 DEF SW!Retires
  <2>2. SW!RetiredCur(s, f) = [c EXCEPT !["prio"] = next]
    BY <1>4, <2>1 DEF SW!RetiredCur
  <2>3. PV!RetiredCur(s, f) = [d EXCEPT !["prio"] = next]
    BY <1>1, <1>2, <1>4, <2>1, PrioNames DEF PV!RetiredCur
  <2> HIDE DEF c, d, next
  <2>4. [[c EXCEPT !["prio"] = next] EXCEPT !["bulk"] = SW!Nothing]
          = [[c EXCEPT !["bulk"] = SW!Nothing] EXCEPT !["prio"] = next]
    BY <1>2
  <2> QED
    BY <1>1, <1>2, <2>2, <2>3, <2>4
<1> QED
  BY <1>3, <1>4

(* What a receives: an acknowledgment of a fragment, or a bitmap.          *)
LEMMA PrioAnswer ==
  ASSUME NEW a \in Station, IInv, BurstInv(a), Phases(a), IInv', Histories',
         Receive(a)
  PROVE  IF air.kind = "burst_ack" THEN PrioStays ELSE PV!Receive(a)
<1> DEFINE after == SW!RetiredCur(a, air)
           t == Peer(a)
<1>1. /\ air # None /\ air.to = a /\ air' = None
      /\ await' = [await EXCEPT ![a] = FALSE]
      /\ UNCHANGED <<queue, seq, submitted, taken>>
      /\ \/ air.kind = "nodata" /\ ReceiveNoData(a, air)
         \/ /\ air.kind = "burst_ack" /\ ReceiveBurstAck(a, air)
            /\ air.ack = brx[Peer(a)].id /\ air.have = brx[Peer(a)].have
  BY AnswerKinds
<1>2. /\ Histories /\ (pending[a].active => pending[a].stream = "prio")
  BY DEF BurstInv, Answers
<1>3. prioAir' = None
  BY <1>1, PrioAirs
<1>4. /\ cur \in [Station -> [SW!Stream -> SW!Open \cup {SW!Nothing}]]
      /\ after \in [SW!Stream -> SW!Open \cup {SW!Nothing}]
      /\ pending \in [Station -> SW!Fragment \cup {SW!NoFragment}]
  BY RetireType DEF IInv, Typed, MsgType
<1>5. CASE air.kind = "nodata" /\ ReceiveNoData(a, air)
  <2>1. /\ pending' = [pending EXCEPT ![a] =
                         IF SW!Retires(a, air) THEN SW!NoFragment ELSE @]
        /\ cur' = [cur EXCEPT ![a] = after]
        /\ UNCHANGED <<inVars, reply_due>>
    BY <1>5 DEF ReceiveNoData, SW!Retire
  <2>2. prioAir = air
    BY <1>5, PrioAirs
  <2>3. /\ PV!Retires(a, air) <=> SW!Retires(a, air)
        /\ [after EXCEPT !["bulk"] = SW!Nothing] = PV!RetiredCur(a, air)
    BY <1>2, RetiredPrio
  <2> HIDE DEF after
  <2>4. prioCur' = [prioCur EXCEPT ![a] = PV!RetiredCur(a, air)]
    <3>1. /\ Table(cur, SW!Stream) /\ "bulk" \in SW!Stream
          /\ after = [j \in SW!Stream |-> after[j]]
      BY <1>2, <1>4, StateTables, Sides
    <3>2. Blank([cur EXCEPT ![a] = after], "bulk", SW!Nothing)
            = [Blank(cur, "bulk", SW!Nothing) EXCEPT
                 ![a] = [after EXCEPT !["bulk"] = SW!Nothing]]
      BY <3>1, BlankRow
    <3>3. prioCur' = Blank(cur', "bulk", SW!Nothing)
      BY DEF prioCur, SW!Nothing
    <3> QED
      BY <2>1, <2>3, <3>2, <3>3 DEF prioCur
  <2>5. UNCHANGED <<prioQueue, prioAssembly, prioSubmitted, prioLog>>
    BY <1>1, <2>1 DEF inVars, prioQueue, prioAssembly, prioSubmitted, prioLog,
                      Blank, assembled, BULK, SW!QOS_BULK
  <2>6. PV!Retire(a, prioAir) /\ PV!ReceiveNoData(a, prioAir)
    BY <1>5, <2>1, <2>2, <2>3, <2>4, <2>5, PrioNames
       DEF PV!Retire, PV!ReceiveNoData, PV!rxVars, inVars
  <2>7. PV!Receive(a)
    BY <1>1, <1>3, <2>2, <2>5, <2>6 DEF PV!Receive
  <2> QED
    BY <1>5, <2>7
<1>6. CASE air.kind = "burst_ack" /\ ReceiveBurstAck(a, air)
  <2>1. ~pending[a].active
    BY <1>1, <1>6 DEF Phases, Mine
  <2>2. ~SW!Retires(a, air) /\ after = cur[a]
    BY <2>1 DEF SW!Retires, SW!RetiredCur
  <2>3. /\ UNCHANGED <<inVars, reply_due, pending>>
        /\ \/ cur' = [cur EXCEPT ![a] = cur[a]]
           \/ cur' = [cur EXCEPT ![a] = [cur[a] EXCEPT !["bulk"] = SW!Nothing]]
    BY <1>4, <1>6, <2>2 DEF ReceiveBurstAck, RetirePending
  <2>4. \A s \in Station : cur'[s]["prio"] = cur[s]["prio"]
    <3> DEFINE x == cur[a]
    <3>1. x \in [SW!Stream -> SW!Open \cup {SW!Nothing}]
      BY <1>4
    <3> HIDE DEF x
    <3>2. [x EXCEPT !["bulk"] = SW!Nothing]["prio"] = x["prio"]
      BY <3>1, Sides
    <3> QED
      BY <1>4, <2>3, <3>2 DEF x
  <2>5. UNCHANGED <<prioQueue, prioCur, prioAssembly, prioSubmitted, prioLog>>
    <3>1. assembled' = assembled
      BY <2>3 DEF inVars, assembled
    <3> QED
      BY <1>1, <1>2, <2>3, <2>4, <3>1, PrioSame DEF inVars
  <2> QED
    BY <1>1, <1>3, <1>6, <2>3, <2>5 DEF PrioStays, inVars
<1> QED
  BY <1>1, <1>5, <1>6

(* The room for a message, and a stop-and-wait fragment taken in.          *)
LEMMA PrioAccept ==
  ASSUME NEW a \in Station, IInv, BurstInv(a), PrioInv, IInv', BurstInv(a)',
         MsgMax \in Nat, MsgMax <= AsmMax, air # None, air.to = Peer(a),
         air.kind = "data", air.stream = "prio",
         air.seq # last_rx_seq[Peer(a)], UNCHANGED <<cur, queue>>,
         Accept(Peer(a), air)
  PROVE  PV!Accept(Peer(a), air)
<1> DEFINE t == Peer(a)
           x == asm_len[t]["prio"]
           f == air
           units == assembled[t]["prio"] \o f.chunk
           kept == /\ delivered_n[t] < DeliveredMax
                   /\ Len(units) <= MsgMax
                   /\ SW!outbound(t, cur'[t]) + delivered_n[t] < PoolSlots
           entry == [units |-> units, kept |-> kept]
<1>1. t \in Station /\ Histories /\ Answers(a)
  BY Sides DEF BurstInv
<1>2. prioAir = air /\ prioAir # None
  BY PrioAirs
<1>3. /\ f.chunk \in Seq(Unit) /\ Len(prioAssembly[t]["prio"]) + Len(f.chunk) <= MsgMax
  <2>1. t \in PV!Station
    BY <1>1, PrioNames
  <2> HIDE DEF t
  <2>2. /\ PV!TypeOK /\ PV!PendingOpen /\ PV!Core /\ PV!StreamInv /\ PV!SizesFit
    BY DEF PrioInv
  <2>3. /\ prioAir.stream \in PV!Stream /\ prioAir.chunk \in Seq(PV!Unit)
        /\ Len(prioAssembly[t][prioAir.stream]) + Len(prioAir.chunk) <= MsgMax
    <3>1. /\ prioAir.to = t /\ prioAir.kind = "data"
          /\ prioAir.seq # last_rx_seq[t]
      BY <1>2 DEF t
    <3> QED
      BY <1>2, <2>1, <2>2, <3>1, PrioAssumption, PV!NewFits
  <2> QED
    BY <1>2, <2>3, PrioNames, Names
<1>4. /\ prioAssembly[t]["prio"] = assembled[t]["prio"]
      /\ assembled[t]["prio"] = SubSeq(asm[t]["prio"], 1, x)
      /\ x \in 0..AsmMax /\ AsmMax \in Nat
  <2>1. prioAssembly[t]["prio"] = assembled[t]["prio"]
    BY <1>1, PrioIs
  <2>2. assembled[t]["prio"] = SubSeq(asm[t]["prio"], 1, x)
    BY <1>1 DEF assembled, Station
  <2>3. x \in 0..AsmMax /\ AsmMax \in Nat
    BY <1>1, Sides, StationAssumption DEF IInv, Typed, TypeOK
  <2> QED
    BY <2>1, <2>2, <2>3
<1>5. asm_len[t][f.stream] + Len(f.chunk) <= AsmMax
  <2> HIDE DEF x, t
  <2>1. Len(assembled[t]["prio"]) = x
    BY <1>4
  <2>2. Len(f.chunk) \in Nat
    BY <1>3
  <2> QED
    BY <1>3, <1>4, <2>1, <2>2 DEF x
<1>6. SW!Accept(t, f)
  BY <1>1, <1>3, <1>5, Names, Sides, AcceptIs
<1>7. /\ assembled' = [assembled EXCEPT ![t]["prio"] =
                         IF f.last THEN <<>> ELSE units]
      /\ delivered_n' = [delivered_n EXCEPT ![t] =
                           IF f.last /\ kept THEN @ + 1 ELSE @]
      /\ log' = [log EXCEPT ![t]["prio"] =
                   IF f.last THEN Append(@, entry) ELSE @]
      /\ accepted' = [accepted EXCEPT ![t] =
                        Append(@, [active |-> TRUE, seq |-> f.seq,
                                   stream |-> "prio", chunk |-> f.chunk,
                                   last |-> f.last])]
  BY <1>6 DEF SW!Accept
<1>8. PV!outbound(t, prioCur'[t]) = SW!outbound(t, cur'[t])
  <2>1. /\ \A q \in SW!Class : queue[t][q] = <<>>
        /\ \A c \in SW!Stream : cur'[t][c] = SW!Nothing
    BY <1>1 DEF Answers
  <2>2. /\ prioQueue[t][0] = <<>> /\ prioQueue[t][1] = <<>>
        /\ prioQueue[t][2] = <<>> /\ queue[t][0] = <<>> /\ queue[t][1] = <<>>
        /\ queue[t][2] = <<>>
    BY <1>1, <2>1, PrioIs, Names
  <2>3. prioCur' = prioCur
    BY DEF prioCur, Blank, SW!Nothing
  <2>4. /\ prioCur'[t]["prio"] = SW!Nothing /\ prioCur'[t]["bulk"] = SW!Nothing
        /\ cur'[t]["prio"] = SW!Nothing /\ cur'[t]["bulk"] = SW!Nothing
    BY <1>1, <2>1, <2>3, PrioIs, Sides
  <2> QED
    BY <2>2, <2>4, PrioNames, Names DEF PV!outbound, SW!outbound
<1>9. /\ Table(assembled, SW!Stream) /\ Table(log, SW!Stream)
      /\ "bulk" \in SW!Stream /\ "prio" \in SW!Stream /\ "prio" # "bulk"
  BY <1>1, StateTables, Sides
<1> DEFINE na == IF f.last THEN <<>> ELSE units
           nl == IF f.last THEN Append(log[t]["prio"], entry)
                 ELSE log[t]["prio"]
<1>10. prioAssembly' = [prioAssembly EXCEPT ![t]["prio"] = na]
  <2> HIDE DEF na, t
  <2>1. Blank(Cell(assembled, t, "prio", na), "bulk", <<>>)
          = Cell(Blank(assembled, "bulk", <<>>), t, "prio", na)
    BY <1>1, <1>9, BlankedCell
  <2>2. prioAssembly' = Blank(assembled', "bulk", <<>>)
    BY DEF prioAssembly
  <2>3. assembled' = Cell(assembled, t, "prio", na)
    BY <1>7 DEF Cell, na
  <2> QED
    BY <2>1, <2>2, <2>3 DEF prioAssembly, Cell
<1>11. prioLog' = [prioLog EXCEPT ![t]["prio"] = nl]
  <2> HIDE DEF entry, t, nl
  <2>1. Blank(Cell(log, t, "prio", nl), "bulk", <<>>)
          = Cell(Blank(log, "bulk", <<>>), t, "prio", nl)
    BY <1>1, <1>9, BlankedCell
  <2>2. prioLog' = Blank(log', "bulk", <<>>)
    BY DEF prioLog
  <2>3. log' = Cell(log, t, "prio", nl)
    BY <1>7 DEF Cell, nl
  <2> QED
    BY <2>1, <2>2, <2>3 DEF prioLog, Cell
<1>12. prioLog[t]["prio"] = log[t]["prio"]
  BY <1>1, PrioIs
<1>13. /\ units = prioAssembly[t]["prio"] \o f.chunk
       /\ kept <=> /\ delivered_n[t] < DeliveredMax
                   /\ Len(units) <= MsgMax
                   /\ PV!outbound(t, prioCur'[t]) + delivered_n[t] < PoolSlots
  BY <1>4, <1>8
<1> HIDE DEF t, kept, units, f
<1>14. prioLog' = [prioLog EXCEPT ![t]["prio"] =
                     IF f.last THEN Append(@, entry) ELSE @]
  BY <1>11, <1>12
<1>15. prioAssembly' = [prioAssembly EXCEPT ![t]["prio"] =
                         IF f.last THEN <<>> ELSE units]
  BY <1>10
<1>16. f.stream = "prio"
  BY DEF f
<1>17. PV!Accept(t, f)
  BY <1>7, <1>13, <1>14, <1>15, <1>16 DEF PV!Accept, kept
<1> QED
  BY <1>17 DEF t, f

(* What the peer of a receives.                                            *)
LEMMA PrioHears ==
  ASSUME NEW a \in Station, IInv, BurstInv(a), PrioInv, IInv', BurstInv(a)',
         MsgMax \in Nat, MsgMax <= AsmMax, Receive(Peer(a))
  PROVE  IF air.kind = "burst" THEN PrioStays ELSE PV!Receive(Peer(a))
<1> DEFINE t == Peer(a)
<1>1. /\ air # None /\ air.to = t /\ air' = None
      /\ await' = [await EXCEPT ![t] = FALSE]
      /\ UNCHANGED <<queue, seq, submitted, taken, cur, pending, btx>>
      /\ \/ air.kind = "data" /\ air.stream = "prio" /\ ReceiveData(t, air)
         \/ air.kind = "burst" /\ ReceiveBurst(t, air)
  BY HearKinds
<1>2. t \in Station /\ Histories /\ Histories' /\ Answers(a)
  BY Sides DEF BurstInv
<1>3. prioAir' = None
  BY <1>1, PrioAirs
<1>4. UNCHANGED <<prioQueue, prioCur, prioSubmitted>>
  BY <1>1 DEF prioQueue, prioCur, prioSubmitted, Blank, BULK, SW!QOS_BULK,
              SW!Nothing
<1>5. CASE air.kind = "data" /\ air.stream = "prio" /\ ReceiveData(t, air)
  <2>1. /\ last_rx_seq' = [last_rx_seq EXCEPT ![t] = air.seq]
        /\ reply_due' = [reply_due EXCEPT ![t] = TRUE]
        /\ IF air.seq # last_rx_seq[t] THEN Accept(t, air)
           ELSE UNCHANGED <<asm, asm_len, delivered_n, log, accepted>>
    BY <1>5 DEF ReceiveData
  <2>2. prioAir = air
    BY <1>5, PrioAirs
  <2>3. PV!Retire(t, air)
    <3>1. ~PV!Retires(t, air) /\ PV!RetiredCur(t, air) = prioCur[t]
      BY <1>2 DEF Answers, PV!Retires, PV!RetiredCur
    <3>2. pending' = [pending EXCEPT ![t] = pending[t]]
      BY <1>1 DEF IInv, Typed, MsgType
    <3>3. prioCur' = [prioCur EXCEPT ![t] = prioCur[t]]
      BY <1>4 DEF prioCur, Blank
    <3> QED
      BY <3>1, <3>2, <3>3 DEF PV!Retire
  <2>4. IF air.seq # last_rx_seq[t] THEN PV!Accept(t, air)
        ELSE UNCHANGED <<prioAssembly, delivered_n, prioLog, accepted>>
    <3>1. CASE air.seq # last_rx_seq[t]
      BY <1>1, <1>5, <2>1, <3>1, PrioAccept
    <3>2. CASE air.seq = last_rx_seq[t]
      BY <2>1, <3>2 DEF prioAssembly, prioLog, Blank, assembled
    <3> QED
      BY <3>1, <3>2
  <2>5. PV!ReceiveData(t, air)
    BY <1>5, <2>1, <2>4 DEF PV!ReceiveData
  <2>6. PV!Receive(t)
    BY <1>1, <1>3, <1>4, <2>2, <2>3, <2>5 DEF PV!Receive
  <2> QED
    BY <1>5, <2>6
<1>6. CASE air.kind = "burst" /\ ReceiveBurst(t, air)
  <2>1. /\ \E e : asm' = [asm EXCEPT ![t]["bulk"] = e]
        /\ \E e : log' = [log EXCEPT ![t]["bulk"] = e]
        /\ UNCHANGED <<last_rx_seq, asm_len, accepted>>
    BY <1>6 DEF ReceiveBurst
  <2>2. PICK e : asm' = [asm EXCEPT ![t]["bulk"] = e]
    BY <2>1
  <2>3. PICK g : log' = [log EXCEPT ![t]["bulk"] = g]
    BY <2>1
  <2>4. \A s \in Station : asm'[s]["prio"] = asm[s]["prio"]
                           /\ log'[s]["prio"] = log[s]["prio"]
    <3>1. /\ asm \in [Station -> [SW!Stream -> [1..AsmMax -> Unit \cup {None}]]]
          /\ log \in [Station -> [SW!Stream -> Seq(Entry)]]
      BY <1>2 DEF IInv, Typed, TypeOK, Histories
    <3> HIDE DEF t
    <3> QED
      BY <2>2, <2>3, <3>1, Sides
  <2>5. \A s \in Station : assembled'[s]["prio"] = assembled[s]["prio"]
    <3>1. \A s \in Station :
            /\ assembled[s]["prio"] = SubSeq(asm[s]["prio"], 1, asm_len[s]["prio"])
            /\ assembled'[s]["prio"] = SubSeq(asm'[s]["prio"], 1, asm_len'[s]["prio"])
      BY DEF assembled, Station
    <3>2. asm_len' = asm_len
      BY <2>1
    <3>3. \A s \in Station :
            assembled'[s]["prio"] = SubSeq(asm[s]["prio"], 1, asm_len[s]["prio"])
      BY <2>4, <3>1, <3>2
    <3> QED
      BY <3>1, <3>3
  <2>6. UNCHANGED <<prioQueue, prioCur, prioAssembly, prioSubmitted, prioLog>>
    BY <1>1, <1>2, <2>4, <2>5, PrioSame
  <2> QED
    BY <1>1, <1>3, <1>6, <2>1, <2>6 DEF PrioStays
<1> QED
  BY <1>1, <1>5, <1>6

(* Every step of the station is a step of its priority half, or leaves it. *)
LEMMA PrioMoves ==
  ASSUME NEW a \in Station, OneWayBursts(a), PoolSlots \in Nat,
         MsgMax \in Nat, MsgMax <= AsmMax, IInv, BurstInv(a), Phases(a),
         PrioInv, [Next]_vars, IInv', BurstInv(a)'
  PROVE  PrioStays \/ [PV!Next]_(PV!vars)
<1>1. Histories /\ Histories' /\ PV!Station = Station /\ Peer(a) \in Station
  BY PrioNames, Sides DEF BurstInv
<1>2. ASSUME NEW s \in Station, NEW m \in Messages, Submit(s, m)
      PROVE  PrioStays \/ PV!Next
  <2>1. PrioStays \/ PV!Submit(s, m)
    BY <1>1, <1>2, PrioSubmit
  <2> QED
    BY <1>1, <2>1 DEF PV!Next
<1>3. ASSUME NEW s \in Station, Poll(s) PROVE PrioStays \/ PV!Next
  <2>1. \A r \in Station : PV!Transmit(r) => PV!Next
    BY <1>1 DEF PV!Next
  <2>2. CASE s = a
    <3>1. /\ air = None /\ ~await[a] /\ UNCHANGED <<inVars, submitted, brx>>
          /\ \/ \E r \in Rungs : \E b \in BurstAt(a, r) : SendBurstFrag(a, r, b)
             \/ UNCHANGED <<msgVars, await, reply_due, air, taken, btx>>
             \/ /\ ~Sending(btx[a]) /\ UNCHANGED btx
                /\ SW!SendPending(a)
                /\ reply_due' = [reply_due EXCEPT ![a] = FALSE]
             \/ /\ ~Sending(btx[a]) /\ UNCHANGED btx
                /\ SW!SendNew(a) /\ SW!OpenedCur(a)["prio"] # SW!Nothing
                /\ reply_due' = [reply_due EXCEPT ![a] = FALSE]
      BY <1>3, <2>2, PollKinds
    <3>2. CASE \E r \in Rungs : \E b \in BurstAt(a, r) : SendBurstFrag(a, r, b)
      <4>1. PICK r \in Rungs : \E b \in BurstAt(a, r) : SendBurstFrag(a, r, b)
        BY <3>2
      <4>2. PICK b \in BurstAt(a, r) : SendBurstFrag(a, r, b)
        BY <4>1
      <4> QED
        BY <1>1, <3>1, <4>2, PrioFragment
    <3>3. CASE UNCHANGED <<msgVars, await, reply_due, air, taken, btx>>
      <4>1. UNCHANGED <<queue, cur, pending, seq, last_rx_seq, asm, asm_len,
                        log, accepted, air, taken, submitted>>
        BY <3>1, <3>3 DEF msgVars, inVars
      <4> QED
        BY <4>1, TablesKept, PrioAirs DEF PrioStays
    <3>4. CASE SW!SendPending(a) /\ reply_due' = [reply_due EXCEPT ![a] = FALSE]
      BY <2>1, <3>1, <3>4, PrioPending
    <3>5. CASE /\ SW!SendNew(a) /\ SW!OpenedCur(a)["prio"] # SW!Nothing
               /\ reply_due' = [reply_due EXCEPT ![a] = FALSE]
      BY <1>1, <2>1, <3>1, <3>5, PrioNew
    <3> QED
      BY <3>1, <3>2, <3>3, <3>4, <3>5
  <2>3. CASE s = Peer(a)
    <3>1. /\ air = None /\ ~await[s] /\ UNCHANGED <<inVars, submitted>>
          /\ \/ SendBurstAck(s)
             \/ UNCHANGED <<msgVars, await, reply_due, air, taken, brx>>
             \/ /\ SW!SendAck(s)
                /\ reply_due' = [reply_due EXCEPT ![s] = FALSE]
      BY <1>3, <2>3, PeerKinds
    <3>2. CASE SendBurstAck(s)
      <4>1. air'.kind = "burst_ack" /\ UNCHANGED <<msgVars, taken>>
        BY <3>2 DEF SendBurstAck
      <4>2. UNCHANGED <<queue, cur, pending, seq, last_rx_seq, asm, asm_len,
                        log, accepted, taken, submitted>>
        BY <3>1, <4>1 DEF msgVars, inVars
      <4> QED
        BY <4>1, <4>2, TablesKept, PrioAirs DEF PrioStays
    <3>3. CASE UNCHANGED <<msgVars, await, reply_due, air, taken, brx>>
      <4>1. UNCHANGED <<queue, cur, pending, seq, last_rx_seq, asm, asm_len,
                        log, accepted, air, taken, submitted>>
        BY <3>1, <3>3 DEF msgVars, inVars
      <4> QED
        BY <4>1, TablesKept, PrioAirs DEF PrioStays
    <3>4. CASE SW!SendAck(s) /\ reply_due' = [reply_due EXCEPT ![s] = FALSE]
      BY <1>1, <2>1, <3>1, <3>4, PrioAck
    <3> QED
      BY <3>1, <3>2, <3>3, <3>4
  <2> QED
    BY <2>2, <2>3, Sides
<1>4. ASSUME NEW s \in Station, Receive(s) PROVE PrioStays \/ PV!Next
  <2>1. \A r \in Station : PV!Receive(r) => PV!Next
    BY <1>1 DEF PV!Next
  <2>2. CASE s = a
    BY <1>1, <1>4, <2>1, <2>2, PrioAnswer
  <2>3. CASE s = Peer(a)
    BY <1>1, <1>4, <2>1, <2>3, PrioHears
  <2> QED
    BY <2>2, <2>3, Sides
<1>5. ASSUME NEW s \in Station,
             Drain(s) \/ PushCaps(s) \/ KickCaps(s) \/ Timeout(s)
      PROVE  PrioStays
  <2>1. UNCHANGED <<queue, cur, pending, seq, last_rx_seq, asm, asm_len,
                    log, accepted, air, taken, submitted>>
    BY <1>5 DEF Drain, PushCaps, KickCaps, Timeout, msgVars, inVars
  <2> QED
    BY <2>1, TablesKept, PrioAirs DEF PrioStays
<1>6. CASE Lose \/ UNCHANGED vars
  <2>1. /\ UNCHANGED <<queue, cur, pending, seq, last_rx_seq, asm, asm_len,
                       log, accepted, taken, submitted>>
        /\ air' = air \/ air' = None
    BY <1>6 DEF Lose, vars, msgVars, inVars
  <2> QED
    BY <2>1, TablesKept, PrioAirs DEF PrioStays
<1> QED
  BY <1>2, <1>3, <1>4, <1>5, <1>6 DEF Next

-----------------------------------------------------------------------------
(* A step of the priority half is a step of the whole, when nothing is     *)
(* completed or released of the bulk half.                                 *)
BulkStill(a) ==
  /\ Gone(a)' = Gone(a)
  /\ \A s \in Station : log'[s]["bulk"] = log[s]["bulk"]

LEMMA PromiseNames ==
  /\ SW!Promise!Station = Station /\ PV!Promise!Station = Station
  /\ SW!Promise!Class = 0..2 /\ PV!Promise!Class = 0..2
  /\ \A q : /\ SW!Promise!StreamOf(q) = IF q = 2 THEN "bulk" ELSE "prio"
            /\ PV!Promise!StreamOf(q) = IF q = 2 THEN "bulk" ELSE "prio"
  /\ \A s : SW!Promise!Peer(s) = Peer(s) /\ PV!Promise!Peer(s) = Peer(s)
  /\ \A m : PV!Promise!Whole(m) = SW!Promise!Whole(m)
  BY DEF SW!Promise!Station, PV!Promise!Station, Station, SW!Promise!Class,
         PV!Promise!Class, SW!Promise!StreamOf, PV!Promise!StreamOf,
         SW!Promise!Peer, PV!Promise!Peer, Peer, SW!Peer, SW!Promise!Whole,
         PV!Promise!Whole

LEMMA GoneTables ==
  /\ Table(SW!gone, SW!Class) /\ Table(SW!gone', SW!Class)
  /\ Table(PV!gone, SW!Class) /\ Table(PV!gone', SW!Class)
<1>1. \A S, Q, C : Table(GoneFrom(S, Q, C), SW!Class)
  BY DEF Table, GoneFrom
<1> QED
  BY <1>1, GoneForms

(* Of what is given up.                                                    *)
LEMMA GoneColumns ==
  ASSUME NEW a \in Station, Halved(a), Halved(a)'
  PROVE  /\ \A s \in Station, q \in {0, 1} :
              PV!gone[s][q] = SW!gone[s][q] /\ PV!gone'[s][q] = SW!gone'[s][q]
         /\ SW!gone[a][2] = Gone(a) /\ SW!gone'[a][2] = Gone(a)'
         /\ \A s \in Station : s # a => SW!gone'[s][2] = SW!gone[s][2]
<1>1. GoneHalves(a) /\ GoneHalves(a)'
  BY DEF Halved
<1>2. /\ \A s \in Station : /\ PV!gone'[s][0] = SW!gone'[s][0]
                            /\ PV!gone'[s][1] = SW!gone'[s][1]
      /\ SW!gone'[a][2] = Gone(a)' /\ SW!gone'[Peer(a)][2] = 0
  BY <1>1 DEF GoneHalves
<1>3. /\ \A s \in Station : /\ PV!gone[s][0] = SW!gone[s][0]
                            /\ PV!gone[s][1] = SW!gone[s][1]
      /\ SW!gone[a][2] = Gone(a) /\ SW!gone[Peer(a)][2] = 0
  BY <1>1 DEF GoneHalves
<1> QED
  BY <1>2, <1>3, Sides

LEMMA GoneStays ==
  ASSUME NEW a \in Station, Halved(a), Halved(a)', Gone(a)' = Gone(a),
         PV!gone' = PV!gone
  PROVE  SW!gone' = SW!gone
<1>1. \A s \in Station, q \in SW!Class : SW!gone'[s][q] = SW!gone[s][q]
  <2>1. \A q \in SW!Class : q \in {0, 1} \/ q = 2
    BY Names
  <2> QED
    BY <2>1, GoneColumns
<1> QED
  BY <1>1, GoneTables, TableEqual

LEMMA GoneLifts ==
  ASSUME NEW a \in Station, Halved(a), Halved(a)', Gone(a)' = Gone(a),
         NEW s \in Station, NEW q \in {0, 1},
         PV!gone' = [PV!gone EXCEPT ![s][q] = @ + 1]
  PROVE  SW!gone' = [SW!gone EXCEPT ![s][q] = @ + 1]
<1> DEFINE w == SW!gone[s][q] + 1
<1>1. PV!gone[s][q] = SW!gone[s][q] /\ q \in SW!Class /\ q # 2
  BY GoneColumns, Names
<1>2. PV!gone' = Cell(PV!gone, s, q, w)
  BY <1>1 DEF Cell
<1> HIDE DEF w
<1>3. \A r \in Station, i \in SW!Class :
        /\ PV!gone'[r][i] = IF r = s /\ i = q THEN w ELSE PV!gone[r][i]
        /\ Cell(SW!gone, s, q, w)[r][i] =
             IF r = s /\ i = q THEN w ELSE SW!gone[r][i]
  <2>1. Table(PV!gone, SW!Class) /\ Table(SW!gone, SW!Class)
    BY GoneTables
  <2>2. \A r \in Station, i \in SW!Class :
          Cell(PV!gone, s, q, w)[r][i] = IF r = s /\ i = q THEN w ELSE PV!gone[r][i]
    BY <1>1, <2>1, CellTable
  <2>3. \A r \in Station, i \in SW!Class :
          Cell(SW!gone, s, q, w)[r][i] = IF r = s /\ i = q THEN w ELSE SW!gone[r][i]
    BY <1>1, <2>1, CellTable
  <2>4. \A r \in Station, i \in SW!Class :
          PV!gone'[r][i] = Cell(PV!gone, s, q, w)[r][i]
    BY <1>2
  <2>5. \A r \in Station, i \in SW!Class :
          PV!gone'[r][i] = IF r = s /\ i = q THEN w ELSE PV!gone[r][i]
    BY <2>2, <2>4
  <2> QED
    BY <2>3, <2>5
<1>4. \A r \in Station, i \in SW!Class :
        SW!gone'[r][i] = Cell(SW!gone, s, q, w)[r][i]
  <2>1. \A i \in SW!Class : i \in {0, 1} \/ i = 2
    BY Names
  <2>2. \A r \in Station : SW!gone'[r][2] = SW!gone[r][2]
    BY GoneColumns
  <2>3. \A r \in Station, i \in {0, 1} :
          SW!gone'[r][i] = IF r = s /\ i = q THEN w ELSE SW!gone[r][i]
    <3>1. \A i \in {0, 1} : i \in SW!Class
      BY Names
    <3> QED
      BY <1>3, <3>1, GoneColumns
  <2> QED
    BY <1>1, <1>3, <2>1, <2>2, <2>3
<1>5. Table(Cell(SW!gone, s, q, w), SW!Class)
  BY <1>1, GoneTables, CellTable
<1>6. SW!gone' = Cell(SW!gone, s, q, w)
  BY <1>4, <1>5, GoneTables, TableEqual
<1> QED
  BY <1>6 DEF Cell, w

(* Of what is completed.                                                   *)
LEMMA LogColumns ==
  ASSUME NEW a \in Station, Halved(a), Halved(a)'
  PROVE  /\ Table(log, SW!Stream) /\ Table(log', SW!Stream)
         /\ \A s \in Station : prioLog[s]["prio"] = log[s]["prio"]
                               /\ prioLog'[s]["prio"] = log'[s]["prio"]
         /\ \A s \in Station : prioLog[s]["bulk"] = <<>>
                               /\ prioLog'[s]["bulk"] = <<>>
<1>1. LogHalves /\ Tabled
  BY DEF Halved
<1>2. LogHalves' /\ Tabled'
  BY DEF Halved
<1>3. Table(log', SW!Stream)
  BY <1>2 DEF Tabled, Table, SW!Stream
<1> QED
  BY <1>1, <1>2, <1>3 DEF LogHalves, Tabled

LEMMA LogStays ==
  ASSUME NEW a \in Station, Halved(a), Halved(a)', BulkStill(a),
         prioLog' = prioLog
  PROVE  log' = log
<1>1. \A s \in Station, c \in SW!Stream : log'[s][c] = log[s][c]
  <2>1. \A c \in SW!Stream : c = "prio" \/ c = "bulk"
    BY Names
  <2> QED
    BY <2>1, LogColumns DEF BulkStill
<1> QED
  BY <1>1, LogColumns, TableEqual

LEMMA LogLifts ==
  ASSUME NEW a \in Station, Halved(a), Halved(a)', BulkStill(a),
         NEW s \in Station, NEW e,
         prioLog' = [prioLog EXCEPT ![s]["prio"] = Append(@, e)]
  PROVE  log' = [log EXCEPT ![s]["prio"] = Append(@, e)]
<1> DEFINE w == Append(log[s]["prio"], e)
<1>1. prioLog[s]["prio"] = log[s]["prio"] /\ "prio" \in SW!Stream
      /\ Table(log, SW!Stream) /\ Table(log', SW!Stream)
  BY LogColumns, Sides
<1>2. prioLog' = Cell(prioLog, s, "prio", w)
  BY <1>1 DEF Cell
<1> HIDE DEF w
<1>3. Table(prioLog, SW!Stream)
  <2>1. Table(log, SW!Stream) /\ "bulk" \in SW!Stream
    BY <1>1, Sides
  <2>2. Blank(log, "bulk", <<>>) = [r \in Station |-> [j \in SW!Stream |->
                                      IF j = "bulk" THEN <<>> ELSE log[r][j]]]
    BY <2>1, BlankIs
  <2> QED
    BY <2>2 DEF prioLog, Table
<1>4. /\ \A r \in Station, i \in SW!Stream :
           Cell(prioLog, s, "prio", w)[r][i] =
             IF r = s /\ i = "prio" THEN w ELSE prioLog[r][i]
      /\ \A r \in Station, i \in SW!Stream :
           Cell(log, s, "prio", w)[r][i] =
             IF r = s /\ i = "prio" THEN w ELSE log[r][i]
      /\ Table(Cell(log, s, "prio", w), SW!Stream)
  BY <1>1, <1>3, CellTable
<1>5. \A r \in Station, i \in SW!Stream :
        log'[r][i] = Cell(log, s, "prio", w)[r][i]
  <2>1. \A i \in SW!Stream : i = "prio" \/ i = "bulk"
    BY Names
  <2>2. \A r \in Station : log'[r]["prio"] = IF r = s THEN w ELSE log[r]["prio"]
    <3>1. \A r \in Station :
            prioLog'[r]["prio"] = IF r = s THEN w ELSE prioLog[r]["prio"]
      BY <1>1, <1>2, <1>4
    <3> QED
      BY <3>1, LogColumns
  <2>3. \A r \in Station : log'[r]["bulk"] = log[r]["bulk"]
    BY DEF BulkStill
  <2> QED
    BY <1>4, <2>1, <2>2, <2>3
<1>6. log' = Cell(log, s, "prio", w)
  BY <1>1, <1>4, <1>5, TableEqual
<1> QED
  BY <1>6 DEF Cell, w

LEMMA LiftComplete ==
  ASSUME NEW a \in Station, Halved(a), Halved(a)', Counts(a), BulkStill(a),
         submitted' = submitted, NEW s \in Station, NEW q \in 0..2,
         PV!Promise!CompleteNext(s, q)
  PROVE  SW!Promise!CompleteNext(s, q)
<1> DEFINE n == PV!Promise!Completed(s, q) + 1
           from == prioSubmitted[Peer(s)][q]
<1>1. /\ n <= Len(from)
      /\ \E kept \in BOOLEAN :
           prioLog' = [prioLog EXCEPT ![s][PV!Promise!StreamOf(q)] =
                         Append(@, [units |-> PV!Promise!Whole(from[n]),
                                    kept |-> kept])]
  BY PromiseNames DEF PV!Promise!CompleteNext
<1>2. /\ \A r \in Station : prioSubmitted[r][2] = <<>>
      /\ \A r \in Station, p \in SW!Class : p # 2 =>
           prioSubmitted[r][p] = submitted[r][p]
  BY DEF Halved, Tabled
<1>3. q \in {0, 1}
  <2> SUFFICES ASSUME q = 2 PROVE FALSE
    OBVIOUS
  <2>1. n = 0 + 1 /\ from = <<>>
    BY <1>2, Sides DEF Counts
  <2> QED
    BY <1>1, <2>1
<1>4. /\ n = SW!Promise!Completed(s, q) + 1
      /\ from = submitted[SW!Promise!Peer(s)][q]
      /\ PV!Promise!StreamOf(q) = "prio" /\ SW!Promise!StreamOf(q) = "prio"
  <2>1. q \in SW!Class /\ q # 2 /\ Peer(s) \in Station
    BY <1>3, Names, Sides
  <2> QED
    BY <1>2, <1>3, <2>1, PromiseNames DEF Counts
<1> HIDE DEF n, from
<1>5. PICK kept \in BOOLEAN :
        prioLog' = [prioLog EXCEPT ![s]["prio"] =
                      Append(@, [units |-> SW!Promise!Whole(from[n]),
                                 kept |-> kept])]
  BY <1>1, <1>4, PromiseNames
<1>6. log' = [log EXCEPT ![s]["prio"] =
                Append(@, [units |-> SW!Promise!Whole(from[n]), kept |-> kept])]
  BY <1>5, LogLifts
<1>7. \E k \in BOOLEAN :
        log' = [log EXCEPT ![s][SW!Promise!StreamOf(q)] =
                  Append(@, [units |-> SW!Promise!Whole(from[n]), kept |-> k])]
  BY <1>4, <1>6
<1> QED
  BY <1>1, <1>4, <1>7 DEF SW!Promise!CompleteNext

LEMMA LiftRelease ==
  ASSUME NEW a \in Station, Halved(a), Halved(a)', Counts(a),
         Gone(a)' = Gone(a), submitted' = submitted, NEW s \in Station,
         NEW q \in 0..2, PV!Promise!ReleaseNext(s, q)
  PROVE  SW!Promise!ReleaseNext(s, q)
<1>1. /\ PV!gone[s][q] < PV!Promise!Completed(Peer(s), q)
      /\ PV!gone' = [PV!gone EXCEPT ![s][q] = @ + 1]
  BY PromiseNames DEF PV!Promise!ReleaseNext
<1>2. Peer(s) \in Station
  BY Sides
<1>3. q \in {0, 1}
  <2> SUFFICES ASSUME q = 2 PROVE FALSE
    OBVIOUS
  <2>1. PV!gone[s][2] = 0 /\ PV!Promise!Completed(Peer(s), 2) = 0
    BY <1>2 DEF Counts, Halved, GoneHalves
  <2> QED
    BY <1>1, <2>1
<1>4. /\ PV!Promise!Completed(Peer(s), q) = SW!Promise!Completed(Peer(s), q)
      /\ PV!gone[s][q] = SW!gone[s][q]
  BY <1>2, <1>3, GoneColumns DEF Counts
<1>5. SW!gone' = [SW!gone EXCEPT ![s][q] = @ + 1]
  BY <1>1, <1>3, GoneLifts
<1> QED
  BY <1>1, <1>4, <1>5, PromiseNames DEF SW!Promise!ReleaseNext

LEMMA LiftStep ==
  ASSUME NEW a \in Station, Halved(a), Halved(a)', Counts(a), BulkStill(a),
         submitted' = submitted, [PV!Promise!Next]_(PV!Promise!rsVars)
  PROVE  [SW!Promise!Next]_(SW!Promise!rsVars)
<1>0. /\ SW!Promise!Station = Station /\ PV!Promise!Station = Station
      /\ SW!Promise!Class = 0..2 /\ PV!Promise!Class = 0..2
      /\ Gone(a)' = Gone(a)
  BY PromiseNames DEF BulkStill
<1>1. prioLog' = prioLog => log' = log
  BY LogStays
<1>2. PV!gone' = PV!gone => SW!gone' = SW!gone
  BY <1>0, GoneStays
<1>3. CASE UNCHANGED PV!Promise!rsVars
  BY <1>1, <1>2, <1>3 DEF PV!Promise!rsVars, SW!Promise!rsVars
<1>4. ASSUME NEW s \in Station, NEW m \in Messages, PV!Promise!Offer(s, m)
      PROVE  FALSE
  <2> DEFINE q == QosOf[m]
             x == prioSubmitted[s][q]
  <2>1. prioSubmitted' = [prioSubmitted EXCEPT ![s][q] = Append(@, m)]
    BY <1>4 DEF PV!Promise!Offer
  <2>2. prioSubmitted' = prioSubmitted
    BY DEF prioSubmitted, Blank, BULK, SW!QOS_BULK
  <2>3. q \in SW!Class /\ prioSubmitted \in [Station -> [SW!Class -> Seq(Messages)]]
    BY StationAssumption, Names DEF Halved, Tabled
  <2> HIDE DEF q
  <2>4. prioSubmitted'[s][q] = Append(x, m) /\ x \in Seq(Messages)
    BY <2>1, <2>3
  <2>5. Append(x, m) = x
    BY <2>2, <2>4
  <2> HIDE DEF x
  <2>6. Len(Append(x, m)) = Len(x) + 1 /\ Len(x) \in Nat
    BY <2>4
  <2> QED
    BY <2>5, <2>6
<1>5. ASSUME NEW s \in Station, NEW q \in 0..2, PV!Promise!CompleteNext(s, q),
             UNCHANGED PV!gone
      PROVE  SW!Promise!Next
  <2>1. SW!Promise!CompleteNext(s, q)
    BY <1>5, LiftComplete
  <2> QED
    BY <1>0, <1>2, <1>5, <2>1 DEF SW!Promise!Next
<1>6. ASSUME NEW s \in Station, NEW q \in 0..2, PV!Promise!ReleaseNext(s, q),
             UNCHANGED prioLog
      PROVE  SW!Promise!Next
  <2>1. SW!Promise!ReleaseNext(s, q)
    BY <1>0, <1>6, LiftRelease
  <2> QED
    BY <1>0, <1>1, <1>6, <2>1 DEF SW!Promise!Next
<1>7. ASSUME NEW s \in Station, NEW p \in 0..2, NEW q \in 0..2,
             PV!Promise!Both(s, p, q)
      PROVE  SW!Promise!Next
  <2>1. SW!Promise!ReleaseNext(s, p) /\ SW!Promise!CompleteNext(s, q)
    BY <1>0, <1>7, LiftRelease, LiftComplete DEF PV!Promise!Both
  <2> QED
    BY <1>0, <2>1 DEF SW!Promise!Next, SW!Promise!Both
<1>8. CASE PV!Promise!Next
  BY <1>0, <1>4, <1>5, <1>6, <1>7, <1>8 DEF PV!Promise!Next
<1> QED
  BY <1>3, <1>8

(* The host hands over a message.                                          *)
LEMMA OfferStep ==
  ASSUME Histories, IInv, NEW s \in Station, NEW m \in Messages, Submit(s, m)
  PROVE  SW!Promise!Next
<1> DEFINE q == QosOf[m]
           u == Append(queue[s][q], m)
           w == Append(submitted[s][q], m)
<1>1. /\ From[m] = s /\ queue' = [queue EXCEPT ![s][q] = u]
      /\ submitted' = [submitted EXCEPT ![s][q] = w] /\ UNCHANGED <<cur, log>>
  BY DEF Submit, SW!Submit
<1>2. /\ queue \in [Station -> [SW!Class -> Seq(Messages)]]
      /\ submitted \in [Station -> [SW!Class -> Seq(Messages)]]
      /\ q \in SW!Class
  BY StationAssumption, Names DEF IInv, Typed, MsgType, Histories
<1>3. Len(u) = Len(queue[s][q]) + 1 /\ Len(w) = Len(submitted[s][q]) + 1
      /\ Len(queue[s][q]) \in Nat /\ Len(submitted[s][q]) \in Nat
  <2> HIDE DEF q
  <2>1. queue[s][q] \in Seq(Messages) /\ submitted[s][q] \in Seq(Messages)
    BY <1>2
  <2> QED
    BY <2>1
<1> HIDE DEF q, u, w
<1>4. Table(queue, SW!Class) /\ Table(submitted, SW!Class)
  BY StateTables
<1>5. queue' = Cell(queue, s, q, u) /\ submitted' = Cell(submitted, s, q, w)
  BY <1>1 DEF Cell
<1>6. /\ \A r \in Station, i \in SW!Class : Cell(queue, s, q, u)[r][i] =
           IF r = s /\ i = q THEN u ELSE queue[r][i]
      /\ \A r \in Station, i \in SW!Class : Cell(submitted, s, q, w)[r][i] =
           IF r = s /\ i = q THEN w ELSE submitted[r][i]
  BY <1>2, <1>4, CellTable
<1>7. ASSUME NEW r \in Station, NEW i \in SW!Class
      PROVE  SW!gone'[r][i] = SW!gone[r][i]
  <2> DEFINE o == cur[r][SW!StreamOf(i)]
             one == IF o # SW!Nothing /\ QosOf[o.msg] = i THEN 1 ELSE 0
  <2>1. /\ SW!gone[r][i] = GoneOf(submitted[r][i], queue[r][i], o, i)
        /\ SW!gone'[r][i] = GoneOf(submitted'[r][i], queue'[r][i], o, i)
    BY <1>1, GoneForms DEF GoneFrom
  <2>2. /\ SW!gone[r][i] = Len(submitted[r][i]) - Len(queue[r][i]) - one
        /\ SW!gone'[r][i] = Len(submitted'[r][i]) - Len(queue'[r][i]) - one
    BY <2>1 DEF GoneOf
  <2>3. one \in Int
    OBVIOUS
  <2> HIDE DEF one, o
  <2>4. CASE r = s /\ i = q
    <3>1. queue'[r][i] = u /\ submitted'[r][i] = w
      BY <1>2, <1>5, <1>6, <2>4
    <3>2. Len(queue'[r][i]) = Len(queue[r][i]) + 1
          /\ Len(submitted'[r][i]) = Len(submitted[r][i]) + 1
          /\ Len(queue[r][i]) \in Nat /\ Len(submitted[r][i]) \in Nat
      BY <1>3, <2>4, <3>1
    <3> QED
      BY <2>2, <2>3, <3>2
  <2>5. CASE ~(r = s /\ i = q)
    <3>1. queue'[r][i] = queue[r][i] /\ submitted'[r][i] = submitted[r][i]
      BY <1>5, <1>6, <2>5
    <3> QED
      BY <2>2, <3>1
  <2> QED
    BY <2>4, <2>5
<1>8. SW!gone' = SW!gone
  BY <1>7, GoneTables, TableEqual
<1>9. submitted' = [submitted EXCEPT ![s][QosOf[m]] = Append(@, m)]
  BY <1>1 DEF q, w
<1>10. SW!Promise!Offer(s, m)
  BY <1>1, <1>8, <1>9 DEF SW!Promise!Offer
<1> QED
  BY <1>10, PromiseNames DEF SW!Promise!Next

-----------------------------------------------------------------------------
(* The bulk half: a message is completed when its last fragment is stored, *)
(* and released when the bitmap says that all of it has arrived.           *)
LEMMA GoneKept ==
  ASSUME NEW a \in Station, cur'[a]["bulk"] = cur[a]["bulk"],
         queue'[a][BULK] = queue[a][BULK], submitted' = submitted
  PROVE  Gone(a)' = Gone(a)
BY DEF Gone, One, Bulk, BULK, SW!QOS_BULK, SW!Nothing

LEMMA StoredStep ==
  ASSUME NEW a \in Station, IInv, BurstInv(a), BulkClass(a), IInv',
         BurstInv(a)', PrioInv, PrioStays, Receive(Peer(a)), air.kind = "burst"
  PROVE  [SW!Promise!Next]_(SW!Promise!rsVars)
<1> DEFINE t == Peer(a)
           l == log[t]["bulk"]
           S == submitted[a][2]
           n == Len(l) + 1
<1>1. UNCHANGED <<queue, submitted, cur>> /\ ReceiveBurst(t, air)
  BY HearKinds
<1>2. /\ Halved(a) /\ Halved(a)' /\ Counts(a) /\ Histories /\ Completed(a)'
      /\ t \in Station
  BY HalvedNow, HalvedNext, CompletedHalves, Sides DEF BurstInv, BulkInv
<1>3. UNCHANGED PV!Promise!rsVars
  BY PrioFrame
<1>4. Gone(a)' = Gone(a)
  BY <1>1, GoneKept
<1>5. /\ l \in Seq(Entry) /\ S \in Seq(Messages)
      /\ log \in [Station -> [SW!Stream -> Seq(Entry)]]
  BY <1>2, Sides DEF Histories
<1>6. \/ log' = [log EXCEPT ![t]["bulk"] = @]
      \/ \E e : log' = [log EXCEPT ![t]["bulk"] = Append(@, e)]
  BY <1>1 DEF ReceiveBurst
<1>7. CASE log' = [log EXCEPT ![t]["bulk"] = @]
  <2>1. log' = log
    <3> HIDE DEF t
    <3> QED
      BY <1>2, <1>5, <1>7, Sides
  <2>2. BulkStill(a)
    BY <1>4, <2>1 DEF BulkStill
  <2> QED
    BY <1>1, <1>2, <1>3, <2>2, LiftStep
<1>8. CASE \E e : log' = [log EXCEPT ![t]["bulk"] = Append(@, e)]
  <2>1. PICK e : log' = [log EXCEPT ![t]["bulk"] = Append(@, e)]
    BY <1>8
  <2>2. log'[t]["bulk"] = Append(l, e)
    <3> HIDE DEF t
    <3> QED
      BY <1>2, <1>5, <2>1, Sides DEF l
  <2>3. /\ Len(Append(l, e)) = n /\ n \in 1..n /\ Append(l, e)[n] = e
    <3> HIDE DEF l
    <3> QED
      BY <1>5
  <2>4. n <= Len(S) /\ e = Complete(S[n])
    <3>1. \A i \in 1..Len(log'[t]["bulk"]) :
            /\ i <= Len(submitted'[a][BULK])
            /\ log'[t]["bulk"][i] = Complete(submitted'[a][BULK][i])
      BY <1>2 DEF Completed, Complete
    <3>2. submitted'[a][BULK] = S
      BY <1>1, Sides
    <3> HIDE DEF l, S, n, t
    <3> QED
      BY <2>2, <2>3, <3>1, <3>2
  <2>5. \A m : Complete(m) = [units |-> SW!Promise!Whole(m), kept |-> TRUE]
    <3> SUFFICES ASSUME NEW m PROVE SW!Units(m, 0, Size[m]) = SW!Promise!Whole(m)
      BY DEF Complete
    <3>1. \A i \in 1..Size[m] : 0 + i = i
      OBVIOUS
    <3>2. [i \in 1..Size[m] |-> <<m, 0 + i>>] = [i \in 1..Size[m] |-> <<m, i>>]
      BY <3>1
    <3> QED
      BY <3>2 DEF SW!Units, SW!Promise!Whole
  <2>6. n = SW!Promise!Completed(t, 2) + 1
    BY <1>2 DEF Counts
  <2>7. S = submitted[SW!Promise!Peer(t)][2] /\ SW!Promise!StreamOf(2) = "bulk"
    BY <1>2, PromiseNames, Sides
  <2>8. SW!Promise!CompleteNext(t, 2)
    <3> HIDE DEF l, S, n, t
    <3>1. log' = [log EXCEPT ![t][SW!Promise!StreamOf(2)] =
                    Append(@, [units |-> SW!Promise!Whole(S[n]), kept |-> TRUE])]
      BY <2>1, <2>4, <2>5, <2>7
    <3>2. \E k \in BOOLEAN :
            log' = [log EXCEPT ![t][SW!Promise!StreamOf(2)] =
                      Append(@, [units |-> SW!Promise!Whole(S[n]), kept |-> k])]
      BY <3>1
    <3> QED
      BY <1>1, <2>4, <2>6, <2>7, <3>2 DEF SW!Promise!CompleteNext
  <2>9. SW!gone' = SW!gone
    BY <1>2, <1>3, <1>4, GoneStays DEF PV!Promise!rsVars
  <2>10. t \in SW!Promise!Station /\ 2 \in SW!Promise!Class
    BY <1>2, PromiseNames
  <2> HIDE DEF t
  <2> QED
    BY <2>8, <2>9, <2>10 DEF SW!Promise!Next
<1> QED
  BY <1>6, <1>7, <1>8

LEMMA GoneReleases ==
  ASSUME NEW a \in Station, Halved(a), Halved(a)', Gone(a)' = Gone(a) + 1,
         PV!gone' = PV!gone
  PROVE  SW!gone' = [SW!gone EXCEPT ![a][2] = @ + 1]
<1> DEFINE w == SW!gone[a][2] + 1
<1>1. 2 \in SW!Class /\ \A i \in SW!Class : i \in {0, 1} \/ i = 2
  BY Names
<1>2. SW!gone[a][2] = Gone(a) /\ SW!gone'[a][2] = Gone(a)'
  BY GoneColumns
<1>3. SW!gone'[a][2] = w
  BY <1>2
<1> HIDE DEF w
<1>4. /\ \A r \in Station, i \in SW!Class :
           Cell(SW!gone, a, 2, w)[r][i] = IF r = a /\ i = 2 THEN w ELSE SW!gone[r][i]
      /\ Table(Cell(SW!gone, a, 2, w), SW!Class)
  BY <1>1, GoneTables, CellTable
<1>5. \A r \in Station : r # a => SW!gone'[r][2] = SW!gone[r][2]
  BY GoneColumns
<1>6. \A r \in Station, i \in {0, 1} : SW!gone'[r][i] = SW!gone[r][i]
  BY GoneColumns
<1>7. \A r \in Station, i \in SW!Class :
        SW!gone'[r][i] = Cell(SW!gone, a, 2, w)[r][i]
  BY <1>1, <1>3, <1>4, <1>5, <1>6
<1>8. SW!gone' = Cell(SW!gone, a, 2, w)
  BY <1>4, <1>7, GoneTables, TableEqual
<1> QED
  BY <1>8 DEF Cell, w

LEMMA ReleasedStep ==
  ASSUME NEW a \in Station, IInv, BurstInv(a), BulkClass(a), IInv',
         BurstInv(a)', PrioInv, PrioStays, Receive(a), air.kind = "burst_ack"
  PROVE  [SW!Promise!Next]_(SW!Promise!rsVars)
<1> DEFINE after == SW!RetiredCur(a, air)
           t == Peer(a)
<1>1. UNCHANGED <<queue, submitted>> /\ ReceiveBurstAck(a, air)
  BY AnswerKinds
<1>2. /\ Halved(a) /\ Halved(a)' /\ Counts(a) /\ Answers(a)
      /\ Completed(a)' /\ Line(a) /\ Line(a)' /\ Engages(a) /\ Histories /\ t \in Station
  BY HalvedNow, HalvedNext, CompletedHalves, Sides DEF BurstInv, BulkInv
<1>3. UNCHANGED PV!Promise!rsVars
  BY PrioFrame
<1>4. log' = log
  BY <1>1 DEF ReceiveBurstAck, inVars
<1>5. /\ cur \in [Station -> [SW!Stream -> SW!Open \cup {SW!Nothing}]]
      /\ after \in [SW!Stream -> SW!Open \cup {SW!Nothing}]
  BY RetireType DEF IInv, Typed, MsgType
<1>6. after["bulk"] = cur[a]["bulk"]
  BY <1>2, RetiredBulk
<1>7. \/ cur' = [cur EXCEPT ![a] = after]
      \/ /\ cur' = [cur EXCEPT ![a] = [after EXCEPT !["bulk"] = SW!Nothing]]
         /\ btx[a].active
  BY <1>1 DEF ReceiveBurstAck
<1> HIDE DEF after
<1>8. CASE cur' = [cur EXCEPT ![a] = after]
  <2>1. cur'[a]["bulk"] = cur[a]["bulk"]
    BY <1>5, <1>6, <1>8
  <2>2. BulkStill(a)
    BY <1>1, <1>4, <2>1, GoneKept DEF BulkStill
  <2> QED
    BY <1>1, <1>2, <1>3, <2>2, LiftStep
<1>9. CASE /\ cur' = [cur EXCEPT ![a] = [after EXCEPT !["bulk"] = SW!Nothing]]
           /\ btx[a].active
  <2>1. cur'[a]["bulk"] = SW!Nothing
    <3> "bulk" \in SW!Stream
      BY Sides
    <3> QED
      BY <1>5, <1>9
  <2>2. Bulk(a) # SW!Nothing
    BY <1>2, <1>9 DEF Engages
  <2>3. One(a) = 1 /\ One(a)' = 0
    BY <2>1, <2>2 DEF One, Bulk, SW!Nothing
  <2>4. /\ Gone(a) = Len(submitted[a][BULK]) - Len(queue[a][BULK]) - One(a)
        /\ Gone(a)' = Len(submitted[a][BULK]) - Len(queue[a][BULK]) - One(a)'
    BY <1>1 DEF Gone, BULK, SW!QOS_BULK
  <2>5. Len(submitted[a][BULK]) \in Nat /\ Len(queue[a][BULK]) \in Nat
    <3>1. queue \in [Station -> [SW!Class -> Seq(Messages)]]
      BY DEF IInv, Typed, MsgType
    <3>2. submitted \in [Station -> [SW!Class -> Seq(Messages)]]
      BY <1>2 DEF Histories
    <3>3. queue[a][BULK] \in Seq(Messages) /\ submitted[a][BULK] \in Seq(Messages)
      BY <3>1, <3>2, Sides
    <3> QED
      BY <3>3
  <2>6. Gone(a)' = Gone(a) + 1
    BY <2>3, <2>4, <2>5
  <2>7. SW!gone' = [SW!gone EXCEPT ![a][2] = @ + 1]
    BY <1>2, <1>3, <2>6, GoneReleases DEF PV!Promise!rsVars
  <2>8. Gone(a)' <= Len(log[t]["bulk"])
    <3>1. Len(log'[t]["bulk"]) = Gone(a)' + Done(a)' /\ Done(a)' \in {0, 1}
      BY <1>2 DEF Completed, Done
    <3>2. Gone(a)' \in Nat
      BY <1>2 DEF Line
    <3> QED
      BY <1>4, <3>1, <3>2
  <2>9. SW!gone[a][2] < SW!Promise!Completed(t, 2)
    <3>1. SW!gone[a][2] = Gone(a)
      BY <1>2, GoneColumns
    <3>2. SW!Promise!Completed(t, 2) = Len(log[t]["bulk"])
      BY <1>2 DEF Counts
    <3>3. Gone(a) \in Nat /\ Len(log[t]["bulk"]) \in Nat
      <4>1. log[t]["bulk"] \in Seq(Entry)
        BY <1>2, Sides DEF Histories
      <4> QED
        BY <1>2, <4>1 DEF Line
    <3> QED
      BY <2>6, <2>8, <3>1, <3>2, <3>3
  <2>10. SW!Promise!ReleaseNext(a, 2)
    BY <1>1, <2>7, <2>9, PromiseNames DEF SW!Promise!ReleaseNext
  <2>11. a \in SW!Promise!Station /\ 2 \in SW!Promise!Class
    BY PromiseNames
  <2> QED
    BY <1>4, <2>10, <2>11 DEF SW!Promise!Next
<1> QED
  BY <1>7, <1>8, <1>9

(* Every other step leaves the bulk half where it was.                     *)
LEMMA BulkSame ==
  ASSUME NEW a \in Station, UNCHANGED <<queue, cur, submitted, log>>
  PROVE  BulkStill(a)
BY GoneKept DEF BulkStill

LEMMA QuietPoll ==
  ASSUME NEW a \in Station, OneWayBursts(a), IInv, BurstInv(a), Poll(a)
  PROVE  BulkStill(a)
<1>1. /\ UNCHANGED <<inVars, submitted>>
      /\ \/ \E r \in Rungs : \E b \in BurstAt(a, r) : SendBurstFrag(a, r, b)
         \/ UNCHANGED <<msgVars, await, reply_due, air, taken, btx>>
         \/ SW!SendPending(a)
         \/ SW!SendNew(a) /\ SW!OpenedCur(a)["prio"] # SW!Nothing
  BY PollKinds
<1>2. log' = log /\ submitted' = submitted
  BY <1>1 DEF inVars
<1>3. /\ cur \in [Station -> [SW!Stream -> SW!Open \cup {SW!Nothing}]]
      /\ queue \in [Station -> [SW!Class -> Seq(Messages)]]
  BY DEF IInv, Typed, MsgType
<1>4. ASSUME NEW r \in Rungs, NEW b \in BurstAt(a, r), SendBurstFrag(a, r, b)
      PROVE  BulkStill(a)
  <2> DEFINE open == IF btx[a].active THEN cur[a] ELSE SW!OpenedCur(a)
             rest == IF btx[a].active THEN queue[a] ELSE SW!OpenedQueue(a)
  <2>1. /\ Sending(b) /\ open["bulk"] # SW!Nothing
        /\ cur' = [cur EXCEPT ![a] = open] /\ queue' = [queue EXCEPT ![a] = rest]
    BY <1>4 DEF SendBurstFrag
  <2>2. cur'[a] = open /\ queue'[a] = rest
    <3> HIDE DEF open, rest
    <3> QED
      BY <1>3, <2>1
  <2>3. CASE btx[a].active
    <3>1. cur'[a] = cur[a] /\ queue'[a] = queue[a]
      BY <2>2, <2>3
    <3> QED
      BY <1>2, <3>1, GoneKept DEF BulkStill
  <2>4. CASE ~btx[a].active
    <3>1. MayEngage(a, r)
      BY <2>1, <2>4 DEF BurstAt, Sending
    <3>2. ~priority_waiting(a)
      BY <3>1 DEF MayEngage
    <3>3. Gone(a)' = Gone(a)
      BY <1>2, <2>1, <2>2, <2>4, <3>2, LineOpens
    <3> QED
      BY <1>2, <3>3 DEF BulkStill
  <2> QED
    BY <2>3, <2>4
<1>5. CASE UNCHANGED msgVars
  BY <1>2, <1>5, BulkSame DEF msgVars
<1>6. CASE SW!SendPending(a)
  <2>1. UNCHANGED <<queue, cur>>
    BY <1>6 DEF SW!SendPending, SW!txVars
  <2> QED
    BY <1>2, <2>1, BulkSame
<1>7. CASE SW!SendNew(a) /\ SW!OpenedCur(a)["prio"] # SW!Nothing
  <2>1. /\ cur' = [cur EXCEPT ![a] = SW!OpenedCur(a)]
        /\ queue' = [queue EXCEPT ![a] = SW!OpenedQueue(a)]
    BY <1>7 DEF SW!SendNew
  <2>2. cur'[a] = SW!OpenedCur(a) /\ queue'[a] = SW!OpenedQueue(a)
    BY <1>3, <2>1
  <2>3. /\ SW!OpenedCur(a)["bulk"] = cur[a]["bulk"]
        /\ SW!OpenedQueue(a)[BULK] = queue[a][BULK]
    BY <1>7, PrioOnly
  <2> QED
    BY <1>2, <2>2, <2>3, GoneKept DEF BulkStill
<1> QED
  BY <1>1, <1>4, <1>5, <1>6, <1>7

LEMMA QuietPeerPoll ==
  ASSUME NEW a \in Station, OneWayBursts(a), IInv, BurstInv(a), Poll(Peer(a))
  PROVE  BulkStill(a)
<1>1. /\ UNCHANGED <<inVars, submitted>>
      /\ \/ SendBurstAck(Peer(a))
         \/ UNCHANGED <<msgVars, await, reply_due, air, taken, brx>>
         \/ SW!SendAck(Peer(a))
  BY PeerKinds
<1>2. log' = log /\ submitted' = submitted
  BY <1>1 DEF inVars
<1>3. UNCHANGED <<queue, cur>>
  BY <1>1 DEF SendBurstAck, msgVars, SW!SendAck, SW!txVars
<1> QED
  BY <1>2, <1>3, BulkSame

LEMMA QuietAnswer ==
  ASSUME NEW a \in Station, IInv, BurstInv(a), Receive(a),
         air.kind # "burst_ack"
  PROVE  BulkStill(a)
<1> DEFINE after == SW!RetiredCur(a, air)
<1>1. UNCHANGED <<queue, submitted>> /\ ReceiveNoData(a, air)
  BY AnswerKinds
<1>2. log' = log /\ cur' = [cur EXCEPT ![a] = after]
  BY <1>1 DEF ReceiveNoData, inVars, SW!Retire
<1>3. after["bulk"] = cur[a]["bulk"]
  BY RetiredBulk DEF BurstInv
<1>4. cur \in [Station -> [SW!Stream -> SW!Open \cup {SW!Nothing}]]
  BY DEF IInv, Typed, MsgType
<1> HIDE DEF after
<1>5. cur'[a]["bulk"] = cur[a]["bulk"]
  BY <1>2, <1>3, <1>4
<1> QED
  BY <1>1, <1>2, <1>5, GoneKept DEF BulkStill

LEMMA QuietHears ==
  ASSUME NEW a \in Station, IInv, BurstInv(a), Receive(Peer(a)),
         air.kind # "burst"
  PROVE  BulkStill(a)
<1> DEFINE t == Peer(a)
<1>1. /\ UNCHANGED <<queue, submitted, cur>>
      /\ air.stream = "prio" /\ ReceiveData(t, air)
  BY HearKinds
<1>2. log' = log \/ \E e : log' = [log EXCEPT ![t]["prio"] = e]
  BY <1>1 DEF ReceiveData, Accept
<1>3. log \in [Station -> [SW!Stream -> Seq(Entry)]]
  BY DEF BurstInv, Histories
<1>4. \A s \in Station : log'[s]["bulk"] = log[s]["bulk"]
  <2>1. CASE \E e : log' = [log EXCEPT ![t]["prio"] = e]
    <3>1. PICK e : log' = [log EXCEPT ![t]["prio"] = e]
      BY <2>1
    <3> HIDE DEF t
    <3> QED
      BY <1>3, <3>1, Sides
  <2> QED
    BY <1>2, <2>1
<1> QED
  BY <1>1, <1>4, GoneKept DEF BulkStill

(* A step that is not a submission, a stored message or a bitmap.          *)
LEMMA BulkQuiet ==
  ASSUME NEW a \in Station, OneWayBursts(a), IInv, BurstInv(a), [Next]_vars,
         submitted' = submitted,
         ~(Receive(Peer(a)) /\ air.kind = "burst"),
         ~(Receive(a) /\ air.kind = "burst_ack")
  PROVE  BulkStill(a) \/ \E s \in Station, m \in Messages : Submit(s, m)
<1>1. ASSUME NEW s \in Station, Poll(s) PROVE BulkStill(a)
  BY <1>1, Sides, QuietPoll, QuietPeerPoll
<1>2. ASSUME NEW s \in Station, Receive(s) PROVE BulkStill(a)
  BY <1>2, Sides, QuietAnswer, QuietHears
<1>3. ASSUME NEW s \in Station,
             Drain(s) \/ PushCaps(s) \/ KickCaps(s) \/ Timeout(s)
      PROVE  BulkStill(a)
  <2>1. UNCHANGED <<queue, cur, submitted, log>>
    BY <1>3 DEF Drain, PushCaps, KickCaps, Timeout, msgVars, inVars
  <2> QED
    BY <2>1, BulkSame
<1>4. CASE Lose \/ UNCHANGED vars
  <2>1. UNCHANGED <<queue, cur, submitted, log>>
    BY <1>4 DEF Lose, vars, msgVars, inVars
  <2> QED
    BY <2>1, BulkSame
<1> QED
  BY <1>1, <1>2, <1>3, <1>4 DEF Next

(* Every step of the station is one of the promise, or none.               *)
LEMMA KeepStep ==
  ASSUME NEW a \in Station, OneWayBursts(a), PoolSlots \in Nat,
         MsgMax \in Nat, MsgMax <= AsmMax, IInv, BurstInv(a), Phases(a),
         BulkClass(a), PrioInv, [Next]_vars, IInv', BurstInv(a)'
  PROVE  PrioInv' /\ [SW!Promise!Next]_(SW!Promise!rsVars)
<1>1. PrioStays \/ [PV!Next]_(PV!vars)
  BY PrioMoves
<1>2. PrioInv' /\ [PV!Promise!Next]_(PV!Promise!rsVars)
  BY <1>1, PrioFrame, PrioStep
<1>3. Halved(a) /\ Halved(a)' /\ Counts(a) /\ Histories /\ Histories'
  BY HalvedNow, HalvedNext, CompletedHalves DEF BurstInv
<1>4. CASE \E s \in Station, m \in Messages : Submit(s, m)
  BY <1>2, <1>3, <1>4, OfferStep
<1>5. CASE Receive(Peer(a)) /\ air.kind = "burst"
  <2>1. PrioStays
    BY <1>5, PrioHears
  <2> QED
    BY <1>2, <1>5, <2>1, StoredStep
<1>6. CASE Receive(a) /\ air.kind = "burst_ack"
  <2>1. PrioStays
    BY <1>3, <1>6, PrioAnswer
  <2> QED
    BY <1>2, <1>6, <2>1, ReleasedStep
<1>7. CASE BulkStill(a) /\ submitted' = submitted
  BY <1>2, <1>3, <1>7, LiftStep
<1> QED
  BY <1>2, <1>4, <1>5, <1>6, <1>7, BulkQuiet, SubmittedStep

LEMMA KeepInit ==
  ASSUME NEW a \in Station, Init
  PROVE  PrioInv /\ BulkClass(a) /\ Phases(a) /\ SW!Promise!Init
<1>1. /\ IInv /\ Histories
  BY InitInv, OneWayInit DEF Histories, Init
<1>2. /\ SW!Class = 0..2 /\ SW!Stream = {"prio", "bulk"} /\ BULK = 2
      /\ Station = {A, B}
  BY Names DEF Station
<1>3. /\ prioQueue = [s \in Station |-> [q \in SW!Class |-> <<>>]]
      /\ prioCur = [s \in Station |-> [c \in SW!Stream |-> SW!Nothing]]
      /\ prioSubmitted = [s \in Station |-> [q \in SW!Class |-> <<>>]]
      /\ prioLog = [s \in Station |-> [c \in SW!Stream |-> <<>>]]
      /\ prioAir = None
  BY <1>2 DEF Init, prioQueue, prioCur, prioSubmitted, prioLog, prioAir, Blank
<1>4. prioAssembly = [s \in Station |-> [c \in SW!Stream |-> <<>>]]
  <2>1. assembled = [s \in Station |-> [c \in SW!Stream |-> <<>>]]
    BY <1>2 DEF Init, assembled
  <2> QED
    BY <1>2, <2>1 DEF prioAssembly, Blank
<1>5. PV!Init
  BY <1>3, <1>4, PrioNames DEF Init, PV!Init
<1>6. PrioInv
  BY <1>5, PrioAssumption, PV!InitType, PV!InitCore, PV!StreamInit,
     PV!SizesFitInit DEF PrioInv
<1>7. BulkClass(a)
  BY <1>2 DEF Init, BulkClass
<1>8. SW!Promise!Init
  <2>1. \A s \in Station, q \in SW!Class : SW!gone[s][q] = 0
    <3>1. GoneOf(<<>>, <<>>, SW!Nothing, 2) = 0 /\ \A q : GoneOf(<<>>, <<>>, SW!Nothing, q) = 0
      BY DEF GoneOf
    <3>2. \A q \in SW!Class : SW!StreamOf(q) \in SW!Stream
      BY <1>2, PrioNames
    <3> QED
      BY <3>1, <3>2, GoneForms DEF GoneFrom, Init
  <2>2. SW!gone = [s \in Station |-> [q \in SW!Class |-> 0]]
    <3>1. Table([s \in Station |-> [q \in SW!Class |-> 0]], SW!Class)
      BY DEF Table
    <3> QED
      BY <2>1, <3>1, GoneTables, TableEqual
  <2> QED
    BY <1>2, <2>2, PromiseNames DEF SW!Promise!Init, Init
<1> QED
  BY <1>6, <1>7, <1>8, PhasesInit

(* With one-way bursts what station_poll_tx and station_on_decoded do      *)
(* keeps the promise to the hosts: in either stream messages are completed *)
(* whole, once each and in the order submitted, a message leaves its       *)
(* sender only after that, and the fragments of the stop-and-wait path are *)
(* still taken exactly once beside the bursts: for every set of messages,  *)
(* rung table, window and store, and every loss.                           *)
THEOREM OneWayBurstsKeepPromise ==
  ASSUME NEW a \in Station, OneWayBursts(a), PoolSlots \in Nat,
         MsgMax \in Nat, MsgMax <= AsmMax
  PROVE  Spec => ImplementsStreams /\ []ExactlyOnce
<1> DEFINE All == Phases(a) /\ BulkClass(a) /\ PrioInv
<1>1. Init => All /\ SW!Promise!Init
  BY KeepInit
<1>2. /\ IInv /\ BurstInv(a) /\ All /\ [Next]_vars /\ IInv' /\ BurstInv(a)'
         => All' /\ [SW!Promise!Next]_(SW!Promise!rsVars)
  BY KeepStep, PhasesStep, BulkClassStep DEF BurstInv
<1>3. All => ExactlyOnce
  <2>1. PrioInv => PV!ExactlyOnce
    BY DEF PrioInv, PV!Core
  <2>2. PV!ExactlyOnce => SW!ExactlyOnce
    BY DEF PV!ExactlyOnce, SW!ExactlyOnce, PV!Station, SW!Station, PV!Peer,
           SW!Peer
  <2> QED
    BY <2>1, <2>2 DEF ExactlyOnce
<1> HIDE DEF All
<1>4. Spec => [](IInv /\ BurstInv(a))
  BY InvAlways, BurstInvAlways, PTL
<1>5. Spec => []All /\ SW!Promise!Spec
  BY <1>1, <1>2, <1>4, PTL DEF Spec, SW!Promise!Spec
<1> QED
  BY <1>3, <1>5, PTL DEF ImplementsStreams
=============================================================================
