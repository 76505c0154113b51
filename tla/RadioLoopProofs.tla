--------------------------- MODULE RadioLoopProofs ---------------------------
(***************************************************************************)
(* Proofs about RadioLoop for FIFOs, frames and runs of every size: a      *)
(* frame leaves whole and in order, the station hears of the end of its    *)
(* own frames only, the receiver's stream has no seam.                     *)
(***************************************************************************)
EXTENDS RadioLoop, NaturalLemmas

-----------------------------------------------------------------------------
(* The level of a FIFO whose indexes wrap.                                 *)
LEMMA Level ==
  ASSUME NEW n \in Nat \ {0}, NEW w \in 0..n - 1, NEW r \in 0..n - 1
  PROVE  /\ (w - r + n) % n = IF r <= w THEN w - r ELSE w - r + n
         /\ (w - r + n) % n \in 0..n - 1
         /\ (r + ((w - r + n) % n)) % n = w
<1>1. (w - r + n) % n = IF r <= w THEN w - r ELSE w - r + n
  <2> DEFINE a == w - r + n
  <2>1. a \in Nat /\ a < 2 * n
    OBVIOUS
  <2> HIDE DEF a
  <2>2. (a < n => a % n = a) /\ (~ a < n => a % n = a - n)
    BY <2>1, Wrap
  <2> QED
    BY <2>2 DEF a
<1> DEFINE d == (w - r + n) % n
<1>2. d \in 0..n - 1
  BY <1>1
<1>3. d = IF r <= w THEN w - r ELSE w - r + n
  BY <1>1
<1> HIDE DEF d
<1>4. /\ r + d < n => (r + d) % n = r + d
      /\ ~ r + d < n => (r + d) % n = r + d - n
  <2> DEFINE a == r + d
  <2>1. a \in Nat /\ a < 2 * n
    BY <1>2
  <2> HIDE DEF a
  <2>2. (a < n => a % n = a) /\ (~ a < n => a % n = a - n)
    BY <2>1, Wrap
  <2> QED
    BY <1>2, <2>2 DEF a
<1>5. (r + d) % n = w
  BY <1>2, <1>3, <1>4
<1> QED
  BY <1>1, <1>2, <1>5 DEF d

(* The level after a write.                                                *)
LEMMA LevelGrows ==
  ASSUME NEW n \in Nat \ {0}, NEW w \in 0..n - 1, NEW r \in 0..n - 1,
         (w - r + n) % n < n - 1
  PROVE  /\ (w + 1) % n \in 0..n - 1
         /\ (((w + 1) % n) - r + n) % n = ((w - r + n) % n) + 1
<1> DEFINE x == (w + 1) % n
<1>1. x = IF w + 1 < n THEN w + 1 ELSE w + 1 - n
  <2> DEFINE a == w + 1
  <2>1. a \in Nat /\ a < 2 * n
    OBVIOUS
  <2> HIDE DEF a
  <2>2. (a < n => a % n = a) /\ (~ a < n => a % n = a - n)
    BY <2>1, Wrap
  <2> QED
    BY <2>2 DEF a
<1>2. x \in 0..n - 1
  BY <1>1
<1> HIDE DEF x
<1>3. (x - r + n) % n = IF r <= x THEN x - r ELSE x - r + n
  BY <1>2, Level
<1>4. (w - r + n) % n = IF r <= w THEN w - r ELSE w - r + n
  BY Level
<1>5. (x - r + n) % n = ((w - r + n) % n) + 1
  BY <1>1, <1>3, <1>4
<1> QED
  BY <1>2, <1>5 DEF x

(* The level after m reads.                                                *)
LEMMA LevelFalls ==
  ASSUME NEW n \in Nat \ {0}, NEW w \in 0..n - 1, NEW r \in 0..n - 1,
         NEW m \in Nat, m <= (w - r + n) % n
  PROVE  /\ (r + m) % n \in 0..n - 1
         /\ (w - ((r + m) % n) + n) % n = ((w - r + n) % n) - m
<1> DEFINE x == (r + m) % n
<1>4. (w - r + n) % n = IF r <= w THEN w - r ELSE w - r + n
  BY Level
<1>1. x = IF r + m < n THEN r + m ELSE r + m - n
  <2> DEFINE a == r + m
             l == (w - r + n) % n
  <2>1. l \in 0..n - 1
    BY Level
  <2> HIDE DEF l
  <2>2. a \in Nat /\ a < 2 * n
    BY <2>1 DEF l
  <2> HIDE DEF a
  <2>3. (a < n => a % n = a) /\ (~ a < n => a % n = a - n)
    BY <2>2, Wrap
  <2> QED
    BY <2>3 DEF a
<1>2. x \in 0..n - 1
  BY <1>1, <1>4
<1> HIDE DEF x
<1>3. (w - x + n) % n = IF x <= w THEN w - x ELSE w - x + n
  <2> QED
    BY ONLY n \in Nat \ {0}, w \in 0..n - 1, <1>2, Level
<1>5. (w - x + n) % n = ((w - r + n) % n) - m
  BY <1>1, <1>3, <1>4
<1> QED
  BY <1>2, <1>5 DEF x

(* The samples of a frame up to the next.                                  *)
LEMMA AppendNext ==
  ASSUME NEW u, NEW n \in Nat
  PROVE  Append([i \in 1..n |-> <<u, i>>], <<u, n + 1>>) =
           [i \in 1..n + 1 |-> <<u, i>>]
OBVIOUS

-----------------------------------------------------------------------------
(***************************************************************************)
(* The inductive invariant.  That a frame leaves whole depends on where    *)
(* each of its samples is at every step of tx_fill: still in the           *)
(* generator, written but behind the write index, in the FIFO, or played.  *)
(***************************************************************************)

(* TypeOK by parts.                                                        *)
Flags == /\ tx_on \in BOOLEAN /\ txs \in BOOLEAN /\ keying \in BOOLEAN
         /\ tx_is_bc \in BOOLEAN
         /\ pc \in Places /\ arena \in {"nobody", "rx", "tx"}
Cursors == /\ left \in Nat /\ tail \in Nat /\ promise \in Nat
           /\ txf_w \in Nat /\ txf_r \in 0..txf_w
           /\ txf_w + got - txf_r <= TXF_N
           /\ room \in 0..TXF_N /\ got \in 0..TXF_N
Levels == txf \in [0..TXF_N - 1 -> Nat \X Nat] /\ dac \in Nat \X Nat
Capture == /\ cap \in [0..CAP_N - 1 -> (0..CapIndex) \X Nat]
           /\ cap_w \in 0..CapIndex - 1 /\ cap_r \in 0..CapIndex - 1
           /\ CapLevel <= CAP_N
           /\ chunk \in Seq((0..CapIndex) \X Nat)
Histories == /\ kinds \in Seq(Kinds) /\ air \in Seq(Nat \X Nat)
             /\ ends \in Seq(BOOLEAN)

(* Which flags go with which place of the main loop.                       *)
Phase ==
  /\ keying => ~tx_on
  /\ keying => pc \in {"fill", "pull", "advance", "key_drop", "carrier"}
  /\ txs => keying \/ tx_on
  /\ pc \in {"pull", "advance"} => txs
  /\ pc \in {"key_drop", "carrier"} => keying
  /\ pc \in {"tx_end", "push"} => ~tx_on

(* The locals of tx_fill stay within what the FIFO has free.               *)
Locals ==
  /\ pc # "pull" => room = 0
  /\ pc # "advance" => got = 0
  /\ pc = "pull" => /\ 0 < room
                    /\ room <= TXF_N - (txf_w - txf_r)
                    /\ room <= TXF_N - (txf_w % TXF_N)

(* Every sample that was promised is accounted for.                        *)
Counts ==
  /\ InProgress => /\ 0 < promise /\ 0 < Keyups
                   /\ txf_w + got + left + tail = promise
  /\ InProgress /\ ~txs => left = 0 /\ tail = 0
  /\ pc = "tx_end" => txf_r = txf_w /\ ~txs
  /\ pc \in {"key_drop", "carrier"} => 0 < txf_w
  /\ keying => txf_r = 0

(* What is in the FIFO is what has to be played next.                      *)
Fifo ==
  InProgress => \A k \in txf_r..(txf_w + got - 1) :
                  txf[k % TXF_N] = <<Keyups, k + 1>>

(* What was played is the beginning of the frame.                          *)
Played == InProgress => air = [i \in 1..txf_r |-> <<Keyups, i>>]

(* Whose transmission it is.                                               *)
Party ==
  /\ tx_on \/ pc = "tx_end" => (tx_is_bc <=> kinds[Keyups] = "group")
  /\ ~tx_on /\ pc # "tx_end" => ~tx_is_bc

(* While the receiver may be fed, the capture FIFO holds the samples of    *)
(* its indexes, all captured since the last transmission.                  *)
Fresh ==
  ~tx_on /\ pc # "tx_end" =>
    \A j \in 0..CapLevel - 1 :
      cap[(cap_r + j) % CAP_N] = <<(cap_r + j) % CapIndex, Len(ends)>>

(* A chunk is given back to the interrupt after it was copied.             *)
Taken ==
  /\ pc # "push" => chunk = <<>>
  /\ Len(chunk) <= CapLevel
  /\ ChunkTrue

IInv == /\ Flags /\ Cursors /\ Levels /\ Capture /\ Histories
        /\ Phase /\ Locals /\ Counts /\ Fifo /\ Played /\ Party
        /\ EndsTold /\ HalfDuplex /\ ArmedFull /\ Parked /\ Fresh /\ Taken

-----------------------------------------------------------------------------
(* What the DAC plays is the next sample of the frame.                     *)
LEMMA NextSample ==
  ASSUME IInv, TickPlay
  PROVE  /\ dac' \in Nat \X Nat
         /\ InProgress /\ dac' = <<Keyups, txf_r + 1>>
<1>1. txf_r % TXF_N \in 0..TXF_N - 1
  BY RadioLoopAssumption, ModRange DEF IInv, Cursors
<1>2. dac' \in Nat \X Nat
  BY <1>1 DEF IInv, Levels, TickPlay
<1>3. InProgress /\ txf_r \in txf_r..(txf_w + got - 1)
  BY RadioLoopAssumption DEF IInv, Cursors, InProgress, TickPlay
<1>4. dac' = <<Keyups, txf_r + 1>>
  BY <1>3 DEF IInv, Fifo, TickPlay
<1> QED
  BY <1>2, <1>3, <1>4

(* The room tx_fill takes is free and ends with the array at the latest.   *)
LEMMA RoomTaken ==
  ASSUME IInv, FillMore
  PROVE  /\ room' \in 1..TXF_N
         /\ room' <= TXF_N - (txf_w - txf_r)
         /\ room' <= TXF_N - (txf_w % TXF_N)
<1>1. txf_w % TXF_N \in 0..TXF_N - 1
  BY RadioLoopAssumption, ModRange DEF IInv, Cursors
<1> DEFINE wi == txf_w % TXF_N
<1>2. room' = Lesser(TXF_N - (txf_w - txf_r), TXF_N - wi)
  BY DEF FillMore, FreeRun
<1>3. Slack \in Nat /\ txf_w - txf_r + Slack < TXF_N
  BY RadioLoopAssumption DEF FillMore, WantsMore, Slack
<1> HIDE DEF wi
<1>4. wi \in 0..TXF_N - 1
  BY <1>1 DEF wi
<1>5. /\ room' \in 1..TXF_N
      /\ room' <= TXF_N - (txf_w - txf_r)
      /\ room' <= TXF_N - wi
  BY <1>2, <1>3, <1>4, RadioLoopAssumption DEF IInv, Cursors, Lesser
<1> QED
  BY <1>5 DEF wi

(* What is written is the next of the frame and spares what is to be       *)
(* played.                                                                 *)
LEMMA WrittenCells ==
  ASSUME IInv, pc = "pull", NEW n \in Nat, n <= room
  PROVE  /\ InProgress /\ promise - left - tail = txf_w /\ got = 0
         /\ Written(n) \in [0..TXF_N - 1 -> Nat \X Nat]
         /\ \A k \in txf_w..(txf_w + n - 1) :
              Written(n)[k % TXF_N] = <<Keyups, k + 1>>
         /\ \A k \in txf_r..(txf_w - 1) :
              Written(n)[k % TXF_N] = txf[k % TXF_N]
<1> DEFINE wi == txf_w % TXF_N
<1>1. InProgress /\ got = 0
  BY DEF IInv, Phase, Locals, InProgress
<1>2. promise - left - tail = txf_w
  BY <1>1 DEF IInv, Counts, Cursors
<1>3. wi \in 0..TXF_N - 1
  BY RadioLoopAssumption, ModRange DEF IInv, Cursors
<1>4. Keyups \in Nat
  BY DEF IInv, Histories, Keyups
<1>5. Written(n) = [i \in 0..TXF_N - 1 |->
                      IF wi <= i /\ i < wi + n
                      THEN <<Keyups, promise - left - tail + i - wi + 1>>
                      ELSE txf[i]]
  BY DEF Written
<1>6. /\ room <= TXF_N - (txf_w - txf_r) /\ room <= TXF_N - wi
      /\ room \in Nat /\ txf_w \in Nat /\ txf_r \in 0..txf_w
  BY RadioLoopAssumption DEF IInv, Cursors, Locals
<1>7. TXF_N \in Nat \ {0}
  BY RadioLoopAssumption
<1> HIDE DEF wi
<1>8. Written(n) \in [0..TXF_N - 1 -> Nat \X Nat]
  <2>1. ASSUME NEW i \in 0..TXF_N - 1, wi <= i
        PROVE  <<Keyups, promise - left - tail + i - wi + 1>> \in Nat \X Nat
    BY <2>1, <1>2, <1>3, <1>4, <1>6, <1>7
  <2>2. ASSUME NEW i \in 0..TXF_N - 1
        PROVE  txf[i] \in Nat \X Nat
    BY DEF IInv, Levels
  <2> QED
    BY <1>5, <2>1, <2>2
<1>9. ASSUME NEW k \in txf_w..(txf_w + n - 1)
      PROVE  Written(n)[k % TXF_N] = <<Keyups, k + 1>>
  <2>1. /\ k - txf_w \in Nat /\ txf_w + (k - txf_w) = k
        /\ k - txf_w < n /\ wi + (k - txf_w) < TXF_N
    BY <1>3, <1>6, <1>7
  <2>2. (txf_w + (k - txf_w)) % TXF_N = wi + (k - txf_w)
    BY <2>1, <1>6, <1>7, Shift DEF wi
  <2>3. k % TXF_N = wi + (k - txf_w)
    BY <2>1, <2>2
  <2> DEFINE i == k % TXF_N
  <2>4. /\ i \in 0..TXF_N - 1 /\ wi <= i /\ i < wi + n
        /\ promise - left - tail + i - wi + 1 = k + 1
    BY <2>1, <2>3, <1>2, <1>3, <1>6, <1>7
  <2> HIDE DEF i
  <2>5. Written(n)[i] = <<Keyups, k + 1>>
    BY <1>5, <2>4
  <2> QED
    BY <2>5 DEF i
<1>10. ASSUME NEW k \in txf_r..(txf_w - 1)
       PROVE  Written(n)[k % TXF_N] = txf[k % TXF_N]
  <2> DEFINE i == k % TXF_N
  <2>1. k \in Nat /\ i \in 0..TXF_N - 1
    <3>1. k \in Nat
      BY <1>6
    <3> QED
      BY <3>1, <1>7, ModRange
  <2>2. ~(wi <= i /\ i < wi + n)
    <3> SUFFICES ASSUME wi <= i, i < wi + n
                 PROVE  FALSE
      OBVIOUS
    <3> HIDE DEF i
    <3>1. /\ i - wi \in Nat /\ wi + (i - wi) < TXF_N
          /\ wi + (i - wi) = i
      BY <1>3, <1>6, <1>7, <2>1
    <3> DEFINE b == txf_w + (i - wi)
    <3>2. b % TXF_N = i
      BY <3>1, <1>6, <1>7, Shift DEF wi
    <3>3. b \in Nat /\ k < b /\ b - k < TXF_N
      BY <3>1, <1>3, <1>6, <1>7
    <3> HIDE DEF b
    <3>4. k % TXF_N # b % TXF_N
      BY <2>1, <3>3, <1>7, Differ
    <3> QED
      BY <3>2, <3>4 DEF i
  <2> HIDE DEF i
  <2>3. Written(n)[i] = txf[i]
    BY <1>5, <2>1, <2>2
  <2> QED
    BY <2>3 DEF i
<1> QED
  BY <1>1, <1>2, <1>8, <1>9, <1>10

(* How the level of the capture FIFO changes.                              *)
LEMMA CapLevelNow ==
  ASSUME IInv
  PROVE  /\ CapLevel \in 0..CapIndex - 1
         /\ (cap_r + CapLevel) % CapIndex = cap_w
         /\ (cap_r + CapLevel) % CAP_N = cap_w % CAP_N
         /\ CapIndex \in Nat \ {0} /\ cap_r \in Nat /\ cap_w \in Nat
<1>1. /\ CapIndex \in Nat \ {0} /\ CAP_N \in Nat \ {0}
      /\ CapIndex % CAP_N = 0
      /\ cap_w \in 0..CapIndex - 1 /\ cap_r \in 0..CapIndex - 1
  BY RadioLoopAssumption DEF IInv, Capture
<1>2. /\ CapLevel \in 0..CapIndex - 1
      /\ (cap_r + CapLevel) % CapIndex = cap_w
  <2>1. (cap_w - cap_r + CapIndex) % CapIndex \in 0..CapIndex - 1
    BY <1>1, Level
  <2>2. (cap_r + ((cap_w - cap_r + CapIndex) % CapIndex)) % CapIndex = cap_w
    BY <1>1, Level
  <2> QED
    BY <2>1, <2>2 DEF CapLevel
<1> DEFINE a == cap_r + CapLevel
<1>3. a \in Nat
  BY <1>1, <1>2
<1> HIDE DEF a
<1>4. (a % CapIndex) % CAP_N = a % CAP_N
  BY <1>1, <1>3, WholeRounds
<1>5. a % CapIndex = cap_w
  BY <1>2 DEF a
<1>6. a % CAP_N = cap_w % CAP_N
  BY <1>4, <1>5
<1> QED
  BY <1>1, <1>2, <1>6 DEF a

(* It grows by a capture, falls by a push and is dropped around a          *)
(* transmission.                                                           *)
LEMMA CapLevelNext ==
  ASSUME IInv
  PROVE  /\ TickCapture => /\ CapLevel' = CapLevel + 1
                           /\ cap_w' \in 0..CapIndex - 1
         /\ TxEnd \/ KeyDrop => CapLevel' = 0
         /\ rxs_push => /\ CapLevel' = CapLevel - Len(chunk)
                        /\ cap_r' \in 0..CapIndex - 1
<1>1. /\ CapIndex \in Nat \ {0} /\ CAP_N \in Nat \ {0} /\ CapIndex > CAP_N
      /\ cap_w \in 0..CapIndex - 1 /\ cap_r \in 0..CapIndex - 1
      /\ CapLevel \in 0..CapIndex - 1
  BY RadioLoopAssumption, CapLevelNow DEF IInv, Capture
<1>2. ASSUME TickCapture
      PROVE  CapLevel' = CapLevel + 1 /\ cap_w' \in 0..CapIndex - 1
  <2>1. CapLevel < CapIndex - 1
    BY <1>1, <1>2 DEF TickCapture, CapHasRoom
  <2>2. cap_w' = (cap_w + 1) % CapIndex /\ cap_r' = cap_r
    BY <1>2 DEF TickCapture
  <2> QED
    BY <1>1, <2>1, <2>2, LevelGrows DEF CapLevel
<1>3. ASSUME TxEnd \/ KeyDrop
      PROVE  CapLevel' = 0
  <2>1. cap_r' = cap_w /\ cap_w' = cap_w
    BY <1>3 DEF TxEnd, KeyDrop
  <2>2. (cap_w - cap_w + CapIndex) % CapIndex = cap_w - cap_w
    BY <1>1, Level
  <2> QED
    BY <1>1, <2>1, <2>2 DEF CapLevel
<1>4. ASSUME rxs_push
      PROVE  /\ CapLevel' = CapLevel - Len(chunk)
             /\ cap_r' \in 0..CapIndex - 1
  <2>1. Len(chunk) \in Nat /\ Len(chunk) <= CapLevel
    BY DEF IInv, Capture, Taken
  <2>2. cap_r' = (cap_r + Len(chunk)) % CapIndex /\ cap_w' = cap_w
    BY <1>4 DEF rxs_push
  <2> QED
    BY <1>1, <2>1, <2>2, LevelFalls DEF CapLevel
<1> QED
  BY <1>2, <1>3, <1>4

(* It changes with the indexes only.                                       *)
LEMMA CapLevelSame ==
  ASSUME UNCHANGED <<cap_w, cap_r>>
  PROVE  CapLevel' = CapLevel
BY DEF CapLevel

(* Cells and indexes do not show where the index wrapped.                  *)
LEMMA CapRounds ==
  ASSUME NEW a \in Nat, NEW j \in Nat
  PROVE  /\ ((a % CapIndex) + j) % CAP_N = (a + j) % CAP_N
         /\ ((a % CapIndex) + j) % CapIndex = (a + j) % CapIndex
<1>1. ASSUME NEW n \in Nat \ {0}, NEW m \in Nat \ {0}, m % n = 0
      PROVE  ((a % m) + j) % n = (a + j) % n
  BY <1>1, m % n = 0, Rounds, Zenon
<1>2. CapIndex \in Nat \ {0} /\ CAP_N \in Nat \ {0} /\ CapIndex % CAP_N = 0
  BY RadioLoopAssumption
<1>3. ((a % CapIndex) + j) % CAP_N = (a + j) % CAP_N
  BY <1>1, <1>2
<1>4. ((a % CapIndex) + j) % CapIndex = (a + j) % CapIndex
  BY <1>2, Turn
<1> QED
  BY <1>3, <1>4

(* Every flag keeps its type, the main loop its places.                    *)
LEMMA FlagsStep ==
  ASSUME IInv, [Next]_vars
  PROVE  Flags'
<1> USE RadioLoopAssumption
      DEF IInv, Flags, Places, Put, txfVars, genVars, capVars
<1>1. CASE CarrierOn
  BY <1>1 DEF CarrierOn
<1>2. ASSUME NEW kind \in Kinds, NEW len \in Lengths, NEW t \in Tails,
             KeyUp(kind, len, t)
      PROVE  Flags'
  BY <1>2 DEF KeyUp
<1>3. CASE TickPlay \/ TickUnderrun \/ TickCapture \/ FillMore
  BY <1>3 DEF TickPlay, TickUnderrun, TickCapture, FillMore
<1>4. CASE FillDone \/ txs_pull \/ chanimp_flush \/ Exhausted
  BY <1>4 DEF FillDone, txs_pull, chanimp_flush, Exhausted
<1>5. CASE Advance \/ CarrierOff \/ NotYet \/ TxEnd
  BY <1>5 DEF Advance, CarrierOff, NotYet, TxEnd
<1>6. CASE Copy \/ NothingToHear \/ rxs_push \/ Pass
  BY <1>6 DEF Copy, NothingToHear, rxs_push, Pass
<1>7. CASE KeyDrop
  BY <1>7 DEF KeyDrop
<1>8. CASE UNCHANGED vars
  BY <1>8 DEF vars
<1> QED
  BY <1>1, <1>2, <1>3, <1>4, <1>5, <1>6, <1>7, <1>8
     DEF Next, Tick, MainLoop, Gate, Kinds

(* What was keyed, played and told only grows.                             *)
LEMMA HistoriesStep ==
  ASSUME IInv, [Next]_vars
  PROVE  Histories'
<1> USE RadioLoopAssumption
      DEF IInv, Flags, Histories, Put, Kinds, txfVars, genVars, capVars
<1>1. CASE TickPlay
  BY <1>1, NextSample DEF TickPlay
<1>2. CASE TxEnd
  BY <1>2 DEF TxEnd
<1>3. ASSUME NEW kind \in Kinds, NEW len \in Lengths, NEW t \in Tails,
             KeyUp(kind, len, t)
      PROVE  Histories'
  BY <1>3 DEF KeyUp
<1>4. CASE TickUnderrun \/ TickCapture \/ FillMore \/ FillDone
  BY <1>4 DEF TickUnderrun, TickCapture, FillMore, FillDone
<1>5. CASE txs_pull \/ chanimp_flush \/ Exhausted \/ Advance
  BY <1>5 DEF txs_pull, chanimp_flush, Exhausted, Advance
<1>6. CASE CarrierOff \/ NotYet \/ Copy \/ NothingToHear
  BY <1>6 DEF CarrierOff, NotYet, Copy, NothingToHear
<1>7. CASE rxs_push \/ Pass \/ KeyDrop \/ CarrierOn
  BY <1>7 DEF rxs_push, Pass, KeyDrop, CarrierOn
<1>8. CASE UNCHANGED vars
  BY <1>8 DEF vars
<1> QED
  BY <1>1, <1>2, <1>3, <1>4, <1>5, <1>6, <1>7, <1>8
     DEF Next, Tick, MainLoop, Gate, Kinds

(* Neither index passes the other, by however much was written.            *)
LEMMA CursorsStep ==
  ASSUME IInv, [Next]_vars
  PROVE  Cursors'
<1> USE RadioLoopAssumption
      DEF IInv, Cursors, Locals, Phase, Put, Pullable, Lesser, txfVars,
          genVars, capVars
<1>1. CASE TickPlay
  BY <1>1 DEF TickPlay
<1>2. CASE FillMore
  BY <1>2, RoomTaken DEF FillMore
<1>3. CASE txs_pull
  BY <1>3 DEF txs_pull
<1>4. CASE chanimp_flush
  BY <1>4 DEF chanimp_flush
<1>5. CASE Advance
  BY <1>5 DEF Advance
<1>6. ASSUME NEW kind \in Kinds, NEW len \in Lengths, NEW t \in Tails,
             KeyUp(kind, len, t)
      PROVE  Cursors'
  BY <1>6 DEF KeyUp
<1>7. CASE TickUnderrun \/ TickCapture \/ FillDone \/ Exhausted
  BY <1>7 DEF TickUnderrun, TickCapture, FillDone, Exhausted
<1>8. CASE CarrierOff \/ NotYet \/ TxEnd \/ Copy
  BY <1>8 DEF CarrierOff, NotYet, TxEnd, Copy
<1>9. CASE NothingToHear \/ rxs_push \/ Pass \/ KeyDrop
  BY <1>9 DEF NothingToHear, rxs_push, Pass, KeyDrop
<1>10. CASE CarrierOn
  BY <1>10 DEF CarrierOn
<1>11. CASE UNCHANGED vars
  BY <1>11 DEF vars
<1> QED
  BY <1>1, <1>2, <1>3, <1>4, <1>5, <1>6, <1>7, <1>8, <1>9, <1>10, <1>11
     DEF Next, Tick, MainLoop, Gate, Kinds

(* What is written and what is played are samples of a frame.              *)
LEMMA LevelsStep ==
  ASSUME IInv, [Next]_vars
  PROVE  Levels'
<1> USE RadioLoopAssumption DEF IInv, Levels, txfVars, genVars, capVars
<1>1. CASE TickPlay
  BY <1>1, NextSample DEF TickPlay
<1>2. CASE TickUnderrun
  BY <1>2 DEF TickUnderrun, Mid
<1>3. CASE TxEnd
  BY <1>3 DEF TxEnd, Mid
<1>4. CASE txs_pull
  <2>1. PICK n \in Nat : n <= room /\ Put(n)
    BY <1>4 DEF txs_pull, Cursors, Locals, Pullable, Lesser
  <2> QED
    BY <1>4, <2>1, WrittenCells DEF txs_pull, Put
<1>5. CASE chanimp_flush
  <2>1. PICK n \in Nat : n <= room /\ Put(n)
    BY <1>5 DEF chanimp_flush, Cursors, Locals, Pullable, Lesser
  <2> QED
    BY <1>5, <2>1, WrittenCells DEF chanimp_flush, Put
<1>6. ASSUME NEW kind \in Kinds, NEW len \in Lengths, NEW t \in Tails,
             KeyUp(kind, len, t)
      PROVE  Levels'
  BY <1>6 DEF KeyUp
<1>7. CASE TickCapture \/ FillMore \/ FillDone \/ Exhausted
  BY <1>7 DEF TickCapture, FillMore, FillDone, Exhausted
<1>8. CASE Advance \/ CarrierOff \/ NotYet \/ Copy
  BY <1>8 DEF Advance, CarrierOff, NotYet, Copy
<1>9. CASE NothingToHear \/ rxs_push \/ Pass \/ KeyDrop
  BY <1>9 DEF NothingToHear, rxs_push, Pass, KeyDrop
<1>10. CASE CarrierOn
  BY <1>10 DEF CarrierOn
<1>11. CASE UNCHANGED vars
  BY <1>11 DEF vars
<1> QED
  BY <1>1, <1>2, <1>3, <1>4, <1>5, <1>6, <1>7, <1>8, <1>9, <1>10, <1>11
     DEF Next, Tick, MainLoop, Gate, Kinds

(* Which flags go with which place of the main loop.                       *)
LEMMA PhaseStep ==
  ASSUME IInv, [Next]_vars
  PROVE  Phase'
<1> USE RadioLoopAssumption
      DEF IInv, Flags, Phase, Counts, InProgress, Put, WantsMore, AllPlayed,
          Listening, txfVars, genVars, capVars
<1>1. CASE FillMore
  BY <1>1 DEF FillMore
<1>2. CASE CarrierOff
  BY <1>2 DEF CarrierOff
<1>3. CASE Copy
  BY <1>3 DEF Copy
<1>4. ASSUME NEW kind \in Kinds, NEW len \in Lengths, NEW t \in Tails,
             KeyUp(kind, len, t)
      PROVE  Phase'
  BY <1>4 DEF KeyUp
<1>5. CASE TickPlay \/ TickUnderrun \/ TickCapture \/ FillDone
  BY <1>5 DEF TickPlay, TickUnderrun, TickCapture, FillDone
<1>6. CASE txs_pull \/ chanimp_flush \/ Exhausted \/ Advance
  BY <1>6 DEF txs_pull, chanimp_flush, Exhausted, Advance
<1>7. CASE NotYet \/ TxEnd \/ NothingToHear \/ rxs_push
  BY <1>7 DEF NotYet, TxEnd, NothingToHear, rxs_push
<1>8. CASE Pass \/ KeyDrop \/ CarrierOn
  BY <1>8 DEF Pass, KeyDrop, CarrierOn
<1>9. CASE UNCHANGED vars
  BY <1>9 DEF vars
<1> QED
  BY <1>1, <1>2, <1>3, <1>4, <1>5, <1>6, <1>7, <1>8, <1>9
     DEF Next, Tick, MainLoop, Gate, Kinds

(* The interrupt only adds to the room that was read.                      *)
LEMMA LocalsStep ==
  ASSUME IInv, [Next]_vars
  PROVE  Locals'
<1> USE RadioLoopAssumption
      DEF IInv, Flags, Cursors, Phase, Locals, Put, txfVars, genVars, capVars
<1>1. CASE TickPlay
  BY <1>1 DEF TickPlay
<1>2. CASE FillMore
  BY <1>2, RoomTaken DEF FillMore
<1>3. ASSUME NEW kind \in Kinds, NEW len \in Lengths, NEW t \in Tails,
             KeyUp(kind, len, t)
      PROVE  Locals'
  BY <1>3 DEF KeyUp
<1>4. CASE TickUnderrun \/ TickCapture \/ FillDone \/ txs_pull
  BY <1>4 DEF TickUnderrun, TickCapture, FillDone, txs_pull
<1>5. CASE chanimp_flush \/ Exhausted \/ Advance \/ CarrierOff
  BY <1>5 DEF chanimp_flush, Exhausted, Advance, CarrierOff
<1>6. CASE NotYet \/ TxEnd \/ Copy \/ NothingToHear
  BY <1>6 DEF NotYet, TxEnd, Copy, NothingToHear
<1>7. CASE rxs_push \/ Pass \/ KeyDrop \/ CarrierOn
  BY <1>7 DEF rxs_push, Pass, KeyDrop, CarrierOn
<1>8. CASE UNCHANGED vars
  BY <1>8 DEF vars
<1> QED
  BY <1>1, <1>2, <1>3, <1>4, <1>5, <1>6, <1>7, <1>8
     DEF Next, Tick, MainLoop, Gate, Kinds

(* Where the samples are: each action moves some, none makes or loses any. *)
LEMMA CountsStep ==
  ASSUME IInv, [Next]_vars
  PROVE  Counts'
<1> USE RadioLoopAssumption
      DEF IInv, Flags, Cursors, Histories, Phase, Locals, Counts, HalfDuplex,
          InProgress, Keyups, WantsMore, Slack, Put, Pullable, Lesser,
          AllPlayed, txfVars, genVars, capVars
<1>1. CASE TickPlay
  BY <1>1 DEF TickPlay
<1>2. CASE TickUnderrun
  BY <1>2 DEF TickUnderrun
<1>3. CASE TickCapture
  BY <1>3 DEF TickCapture
<1>4. CASE FillMore
  BY <1>4 DEF FillMore
<1>5. CASE FillDone
  BY <1>5 DEF FillDone
<1>6. CASE txs_pull
  BY <1>6 DEF txs_pull
<1>7. CASE chanimp_flush
  BY <1>7 DEF chanimp_flush
<1>8. CASE Exhausted
  BY <1>8 DEF Exhausted
<1>9. CASE Advance
  BY <1>9 DEF Advance
<1>10. CASE CarrierOff
  BY <1>10 DEF CarrierOff
<1>11. CASE NotYet
  BY <1>11 DEF NotYet
<1>12. CASE TxEnd
  BY <1>12 DEF TxEnd
<1>13. CASE Copy
  BY <1>13 DEF Copy
<1>14. CASE NothingToHear
  BY <1>14 DEF NothingToHear
<1>15. CASE rxs_push
  BY <1>15 DEF rxs_push
<1>16. CASE Pass
  BY <1>16 DEF Pass
<1>17. CASE KeyDrop
  BY <1>17 DEF KeyDrop
<1>18. CASE CarrierOn
  BY <1>18 DEF CarrierOn
<1>19. ASSUME NEW kind \in Kinds, NEW len \in Lengths, NEW t \in Tails,
             KeyUp(kind, len, t)
      PROVE  Counts'
  BY <1>19 DEF KeyUp
<1>20. CASE UNCHANGED vars
  BY <1>20 DEF vars
<1> QED
  BY <1>1, <1>2, <1>3, <1>4, <1>5, <1>6, <1>7, <1>8, <1>9, <1>10, <1>11,
     <1>12, <1>13, <1>14, <1>15, <1>16, <1>17, <1>18, <1>19, <1>20
     DEF Next, Tick, MainLoop, Gate, Kinds

(* The interrupt plays the frame in order.                                 *)
LEMMA PlayedStep ==
  ASSUME IInv, [Next]_vars
  PROVE  Played'
<1> USE RadioLoopAssumption
      DEF IInv, Flags, Phase, Counts, Played, InProgress, Keyups, Put,
          AllPlayed, txfVars, genVars, capVars
<1>1. CASE TickPlay
  <2>1. InProgress /\ dac' = <<Keyups, txf_r + 1>>
    BY <1>1, NextSample
  <2>2. /\ air' = Append(air, <<Keyups, txf_r + 1>>)
        /\ txf_r' = txf_r + 1 /\ txf_r \in Nat
    BY <1>1, <2>1 DEF TickPlay, Cursors
  <2>3. air = [i \in 1..txf_r |-> <<Keyups, i>>]
    BY <2>1
  <2>4. Append([i \in 1..txf_r |-> <<Keyups, i>>], <<Keyups, txf_r + 1>>) =
          [i \in 1..txf_r + 1 |-> <<Keyups, i>>]
    BY <2>2, AppendNext
  <2> QED
    BY <1>1, <2>2, <2>3, <2>4 DEF TickPlay
<1>2. CASE CarrierOff
  BY <1>2 DEF CarrierOff
<1>3. ASSUME NEW kind \in Kinds, NEW len \in Lengths, NEW t \in Tails,
             KeyUp(kind, len, t)
      PROVE  Played'
  BY <1>3 DEF KeyUp
<1>4. CASE TickUnderrun \/ TickCapture \/ FillMore \/ FillDone
  BY <1>4 DEF TickUnderrun, TickCapture, FillMore, FillDone
<1>5. CASE txs_pull \/ chanimp_flush \/ Exhausted \/ Advance
  BY <1>5 DEF txs_pull, chanimp_flush, Exhausted, Advance
<1>6. CASE NotYet \/ TxEnd \/ Copy \/ NothingToHear
  BY <1>6 DEF NotYet, TxEnd, Copy, NothingToHear
<1>7. CASE rxs_push \/ Pass \/ KeyDrop \/ CarrierOn
  BY <1>7 DEF rxs_push, Pass, KeyDrop, CarrierOn
<1>8. CASE UNCHANGED vars
  BY <1>8 DEF vars
<1> QED
  BY <1>1, <1>2, <1>3, <1>4, <1>5, <1>6, <1>7, <1>8
     DEF Next, Tick, MainLoop, Gate, Kinds

(* The kind is set with the carrier and reset at its end.                  *)
LEMMA PartyStep ==
  ASSUME IInv, [Next]_vars
  PROVE  Party'
<1> USE RadioLoopAssumption
      DEF IInv, Flags, Phase, Counts, Party, InProgress, Keyups, Put,
          AllPlayed, txfVars, genVars, capVars
<1>1. CASE CarrierOff
  BY <1>1 DEF CarrierOff
<1>2. CASE TxEnd
  BY <1>2 DEF TxEnd
<1>3. ASSUME NEW kind \in Kinds, NEW len \in Lengths, NEW t \in Tails,
             KeyUp(kind, len, t)
      PROVE  Party'
  BY <1>3 DEF KeyUp
<1>4. CASE TickPlay \/ TickUnderrun \/ TickCapture \/ FillMore
  BY <1>4 DEF TickPlay, TickUnderrun, TickCapture, FillMore
<1>5. CASE FillDone \/ txs_pull \/ chanimp_flush \/ Exhausted
  BY <1>5 DEF FillDone, txs_pull, chanimp_flush, Exhausted
<1>6. CASE Advance \/ NotYet \/ Copy \/ NothingToHear
  BY <1>6 DEF Advance, NotYet, Copy, NothingToHear
<1>7. CASE rxs_push \/ Pass \/ KeyDrop \/ CarrierOn
  BY <1>7 DEF rxs_push, Pass, KeyDrop, CarrierOn
<1>8. CASE UNCHANGED vars
  BY <1>8 DEF vars
<1> QED
  BY <1>1, <1>2, <1>3, <1>4, <1>5, <1>6, <1>7, <1>8
     DEF Next, Tick, MainLoop, Gate, Kinds

(* Told at the end of a transmission, of its own kind.                     *)
LEMMA EndsToldStep ==
  ASSUME IInv, [Next]_vars
  PROVE  EndsTold'
<1> USE RadioLoopAssumption
      DEF IInv, Flags, Histories, Phase, Counts, Party, EndsTold, InProgress,
          Keyups, Put, AllPlayed, txfVars, genVars, capVars
<1>1. CASE TickPlay
  BY <1>1 DEF TickPlay
<1>2. CASE TickUnderrun
  BY <1>2 DEF TickUnderrun
<1>3. CASE TickCapture
  BY <1>3 DEF TickCapture
<1>4. CASE FillMore
  BY <1>4 DEF FillMore
<1>5. CASE CarrierOff
  BY <1>5 DEF CarrierOff
<1>6. CASE TxEnd
  <2>1. Len(ends) = Keyups - 1 /\ Keyups \in Nat \ {0}
    BY <1>6 DEF TxEnd
  <2>2. ~tx_is_bc <=> kinds[Keyups] = "station"
    BY <1>6, <2>1 DEF TxEnd, Kinds
  <2>3. /\ ends' = Append(ends, ~tx_is_bc) /\ kinds' = kinds
        /\ ~InProgress'
    BY <1>6 DEF TxEnd
  <2>4. Len(ends') = Keyups
    BY <2>1, <2>3
  <2>5. ASSUME NEW k \in 1..Len(ends')
        PROVE  ends'[k] <=> kinds'[k] = "station"
    <3>1. CASE k = Keyups
      <4>1. ends'[k] = ~tx_is_bc /\ kinds'[k] = kinds[Keyups]
        BY <2>1, <2>3, <3>1
      <4> QED
        BY <2>2, <4>1, Zenon
    <3>2. CASE k # Keyups
      BY <2>1, <2>3, <2>4, <3>2
    <3> QED
      BY <3>1, <3>2
  <2> QED
    BY <2>3, <2>4, <2>5
<1>7. ASSUME NEW kind \in Kinds, NEW len \in Lengths, NEW t \in Tails,
             KeyUp(kind, len, t)
      PROVE  EndsTold'
  BY <1>7 DEF KeyUp
<1>8. CASE FillDone \/ txs_pull \/ chanimp_flush \/ Exhausted
  BY <1>8 DEF FillDone, txs_pull, chanimp_flush, Exhausted
<1>9. CASE Advance \/ NotYet \/ Copy \/ NothingToHear
  BY <1>9 DEF Advance, NotYet, Copy, NothingToHear
<1>10. CASE rxs_push \/ Pass \/ KeyDrop \/ CarrierOn
  BY <1>10 DEF rxs_push, Pass, KeyDrop, CarrierOn
<1>11. CASE UNCHANGED vars
  BY <1>11 DEF vars
<1> QED
  BY <1>1, <1>2, <1>3, <1>4, <1>5, <1>6, <1>7, <1>8, <1>9, <1>10, <1>11
     DEF Next, Tick, MainLoop, Gate, Kinds

(* No push while a generator is open.                                      *)
LEMMA HalfDuplexStep ==
  ASSUME IInv, [Next]_vars
  PROVE  HalfDuplex'
<1> USE RadioLoopAssumption
      DEF IInv, Flags, Phase, Counts, HalfDuplex, Listening, Put, txfVars,
          genVars, capVars
<1>1. ASSUME NEW kind \in Kinds, NEW len \in Lengths, NEW t \in Tails,
             KeyUp(kind, len, t)
      PROVE  HalfDuplex'
  BY <1>1 DEF KeyUp
<1>2. CASE TickPlay \/ TickUnderrun \/ TickCapture \/ FillMore
  BY <1>2 DEF TickPlay, TickUnderrun, TickCapture, FillMore
<1>3. CASE FillDone \/ txs_pull \/ chanimp_flush \/ Exhausted
  BY <1>3 DEF FillDone, txs_pull, chanimp_flush, Exhausted
<1>4. CASE Advance \/ CarrierOff \/ NotYet \/ TxEnd
  BY <1>4 DEF Advance, CarrierOff, NotYet, TxEnd
<1>5. CASE Copy \/ NothingToHear \/ rxs_push \/ Pass
  BY <1>5 DEF Copy, NothingToHear, rxs_push, Pass
<1>6. CASE KeyDrop \/ CarrierOn
  BY <1>6 DEF KeyDrop, CarrierOn
<1>7. CASE UNCHANGED vars
  BY <1>7 DEF vars
<1> QED
  BY <1>1, <1>2, <1>3, <1>4, <1>5, <1>6, <1>7
     DEF Next, Tick, MainLoop, Gate, Kinds

(* The first fill is not empty and nothing is played before the carrier.   *)
LEMMA ArmedFullStep ==
  ASSUME IInv, [Next]_vars
  PROVE  ArmedFull'
<1> USE RadioLoopAssumption
      DEF IInv, Flags, Cursors, Histories, Phase, Counts, ArmedFull,
          InProgress, Put, txfVars, genVars, capVars
<1>1. CASE TickPlay
  <2>1. air' # <<>>
    BY <1>1, NextSample DEF TickPlay
  <2> QED
    BY <2>1
<1>2. CASE Advance
  BY <1>2 DEF Advance
<1>3. CASE CarrierOn
  BY <1>3 DEF CarrierOn
<1>4. ASSUME NEW kind \in Kinds, NEW len \in Lengths, NEW t \in Tails,
             KeyUp(kind, len, t)
      PROVE  ArmedFull'
  BY <1>4 DEF KeyUp
<1>5. CASE TickUnderrun \/ TickCapture \/ FillMore \/ FillDone
  BY <1>5 DEF TickUnderrun, TickCapture, FillMore, FillDone
<1>6. CASE txs_pull \/ chanimp_flush \/ Exhausted \/ CarrierOff
  BY <1>6 DEF txs_pull, chanimp_flush, Exhausted, CarrierOff
<1>7. CASE NotYet \/ TxEnd \/ Copy \/ NothingToHear
  BY <1>7 DEF NotYet, TxEnd, Copy, NothingToHear
<1>8. CASE rxs_push \/ Pass \/ KeyDrop
  BY <1>8 DEF rxs_push, Pass, KeyDrop
<1>9. CASE UNCHANGED vars
  BY <1>9 DEF vars
<1> QED
  BY <1>1, <1>2, <1>3, <1>4, <1>5, <1>6, <1>7, <1>8, <1>9
     DEF Next, Tick, MainLoop, Gate, Kinds

(* Only a tick while transmitting moves the DAC.                           *)
LEMMA ParkedStep ==
  ASSUME IInv, [Next]_vars
  PROVE  Parked'
<1> USE RadioLoopAssumption
      DEF IInv, Flags, Phase, Parked, Put, txfVars, genVars, capVars
<1>1. ASSUME NEW kind \in Kinds, NEW len \in Lengths, NEW t \in Tails,
             KeyUp(kind, len, t)
      PROVE  Parked'
  BY <1>1 DEF KeyUp
<1>2. CASE TickPlay \/ TickUnderrun \/ TickCapture \/ FillMore
  BY <1>2 DEF TickPlay, TickUnderrun, TickCapture, FillMore
<1>3. CASE FillDone \/ txs_pull \/ chanimp_flush \/ Exhausted
  BY <1>3 DEF FillDone, txs_pull, chanimp_flush, Exhausted
<1>4. CASE Advance \/ CarrierOff \/ NotYet \/ TxEnd
  BY <1>4 DEF Advance, CarrierOff, NotYet, TxEnd
<1>5. CASE Copy \/ NothingToHear \/ rxs_push \/ Pass
  BY <1>5 DEF Copy, NothingToHear, rxs_push, Pass
<1>6. CASE KeyDrop \/ CarrierOn
  BY <1>6 DEF KeyDrop, CarrierOn
<1>7. CASE UNCHANGED vars
  BY <1>7 DEF vars
<1> QED
  BY <1>1, <1>2, <1>3, <1>4, <1>5, <1>6, <1>7
     DEF Next, Tick, MainLoop, Gate, Kinds

(* Written ahead of what is to be played, played from behind.              *)
LEMMA FifoStep ==
  ASSUME IInv, [Next]_vars
  PROVE  Fifo'
<1> USE RadioLoopAssumption
      DEF IInv, Fifo, Flags, Phase, InProgress, Keyups, AllPlayed, txfVars,
          genVars, capVars
<1>1. CASE TickPlay
  <2>1. /\ txf_r' = txf_r + 1 /\ txf_r \in Nat
        /\ UNCHANGED <<txf, txf_w, got, kinds>> /\ InProgress
    BY <1>1 DEF TickPlay, Cursors
  <2>2. ASSUME NEW k \in txf_r'..(txf_w' + got' - 1)
        PROVE  txf'[k % TXF_N] = <<Keyups', k + 1>>
    <3>1. k \in txf_r..(txf_w + got - 1)
      BY <2>1 DEF Cursors
    <3> QED
      BY <2>1, <3>1
  <2> QED
    BY <2>2
<1>2. CASE txs_pull
  <2>1. PICK n \in Nat : n <= room /\ Put(n)
    BY <1>2 DEF txs_pull, Cursors, Locals, Pullable, Lesser
  <2>2. InProgress /\ got = 0 /\ txf' = Written(n) /\ pc = "pull"
    BY <1>2, <2>1, WrittenCells DEF txs_pull, Put
  <2>3. /\ got' = n /\ txf_w' = txf_w /\ txf_r' = txf_r /\ kinds' = kinds
        /\ txf_w \in Nat /\ txf_r \in Nat
    BY <2>1 DEF Put, Cursors
  <2>4. ASSUME NEW k \in txf_r'..(txf_w' + got' - 1)
        PROVE  txf'[k % TXF_N] = <<Keyups', k + 1>>
    <3>1. k \in txf_r..(txf_w - 1) \/ k \in txf_w..(txf_w + n - 1)
      BY <2>3
    <3>2. CASE k \in txf_r..(txf_w - 1)
      <4>1. k \in txf_r..(txf_w + got - 1)
        BY <2>2, <2>3, <3>2
      <4>2. txf[k % TXF_N] = <<Keyups, k + 1>>
        BY <2>2, <4>1
      <4>3. Written(n)[k % TXF_N] = txf[k % TXF_N]
        BY <2>1, <2>2, <3>2, WrittenCells
      <4> QED
        BY <2>2, <2>3, <4>2, <4>3
    <3>3. CASE k \in txf_w..(txf_w + n - 1)
      <4>1. Written(n)[k % TXF_N] = <<Keyups, k + 1>>
        BY <2>1, <2>2, <3>3, WrittenCells
      <4> QED
        BY <2>2, <2>3, <4>1
    <3> QED
      BY <3>1, <3>2, <3>3
  <2> QED
    BY <2>4
<1>3. CASE chanimp_flush
  <2>1. PICK n \in Nat : n <= room /\ Put(n)
    BY <1>3 DEF chanimp_flush, Cursors, Locals, Pullable, Lesser
  <2>2. InProgress /\ got = 0 /\ txf' = Written(n) /\ pc = "pull"
    BY <1>3, <2>1, WrittenCells DEF chanimp_flush, Put
  <2>3. /\ got' = n /\ txf_w' = txf_w /\ txf_r' = txf_r /\ kinds' = kinds
        /\ txf_w \in Nat /\ txf_r \in Nat
    BY <2>1 DEF Put, Cursors
  <2>4. ASSUME NEW k \in txf_r'..(txf_w' + got' - 1)
        PROVE  txf'[k % TXF_N] = <<Keyups', k + 1>>
    <3>1. k \in txf_r..(txf_w - 1) \/ k \in txf_w..(txf_w + n - 1)
      BY <2>3
    <3>2. CASE k \in txf_r..(txf_w - 1)
      <4>1. k \in txf_r..(txf_w + got - 1)
        BY <2>2, <2>3, <3>2
      <4>2. txf[k % TXF_N] = <<Keyups, k + 1>>
        BY <2>2, <4>1
      <4>3. Written(n)[k % TXF_N] = txf[k % TXF_N]
        BY <2>1, <2>2, <3>2, WrittenCells
      <4> QED
        BY <2>2, <2>3, <4>2, <4>3
    <3>3. CASE k \in txf_w..(txf_w + n - 1)
      <4>1. Written(n)[k % TXF_N] = <<Keyups, k + 1>>
        BY <2>1, <2>2, <3>3, WrittenCells
      <4> QED
        BY <2>2, <2>3, <4>1
    <3> QED
      BY <3>1, <3>2, <3>3
  <2> QED
    BY <2>4
<1>4. CASE Advance
  <2>1. /\ txf_w' + got' - 1 = txf_w + got - 1
        /\ UNCHANGED <<txf, txf_r, kinds>> /\ InProgress
    BY <1>4 DEF Advance, Cursors
  <2>2. ASSUME NEW k \in txf_r'..(txf_w' + got' - 1)
        PROVE  txf'[k % TXF_N] = <<Keyups', k + 1>>
    <3>1. k \in txf_r..(txf_w + got - 1)
      BY <2>1
    <3> QED
      BY <2>1, <3>1
  <2> QED
    BY <2>2
<1>5. CASE CarrierOff
  BY <1>5 DEF CarrierOff
<1>6. ASSUME NEW kind \in Kinds, NEW len \in Lengths, NEW t \in Tails,
             KeyUp(kind, len, t)
      PROVE  Fifo'
  BY <1>6 DEF KeyUp, Locals
<1>7. CASE TickUnderrun \/ TickCapture \/ FillMore \/ FillDone
  BY <1>7 DEF TickUnderrun, TickCapture, FillMore, FillDone
<1>8. CASE Exhausted \/ NotYet \/ TxEnd \/ Copy
  BY <1>8 DEF Exhausted, NotYet, TxEnd, Copy
<1>9. CASE NothingToHear \/ rxs_push \/ Pass \/ KeyDrop
  BY <1>9 DEF NothingToHear, rxs_push, Pass, KeyDrop
<1>10. CASE CarrierOn
  BY <1>10 DEF CarrierOn
<1>11. CASE UNCHANGED vars
  BY <1>11 DEF vars
<1> QED
  BY <1>1, <1>2, <1>3, <1>4, <1>5, <1>6, <1>7, <1>8, <1>9, <1>10, <1>11
     DEF Next, Tick, MainLoop, Gate, Kinds

(* A captured sample finds a free cell.                                    *)
LEMMA CaptureStep ==
  ASSUME IInv, [Next]_vars
  PROVE  Capture'
<1> USE RadioLoopAssumption DEF IInv, Capture, Put, txfVars, genVars, capVars
<1>1. CASE TickCapture
  <2>1. cap_w % CAP_N \in 0..CAP_N - 1
    BY CapLevelNow, ModRange
  <2>2. cap_w \in 0..CapIndex /\ Len(ends) \in Nat
    BY DEF Histories
  <2>3. cap' \in [0..CAP_N - 1 -> (0..CapIndex) \X Nat]
    BY <1>1, <2>1, <2>2 DEF TickCapture
  <2>4. CapLevel < CAP_N /\ CapLevel' = CapLevel + 1 /\ CapLevel \in Nat
    BY <1>1, CapLevelNow, CapLevelNext DEF TickCapture, CapHasRoom
  <2>5. cap_w' \in 0..CapIndex - 1
    BY <1>1, CapLevelNext
  <2> QED
    BY <1>1, <2>3, <2>4, <2>5 DEF TickCapture
<1>2. CASE TxEnd
  <2>1. CapLevel' = 0
    BY <1>2, CapLevelNext
  <2> QED
    BY <1>2, <2>1 DEF TxEnd
<1>3. CASE KeyDrop
  <2>1. CapLevel' = 0
    BY <1>3, CapLevelNext
  <2> QED
    BY <1>3, <2>1 DEF KeyDrop
<1>4. CASE Copy
  <2> DEFINE n == Lesser(CapLevel, Chunk)
  <2>1. n \in Nat
    BY CapLevelNow DEF Lesser
  <2>2. ASSUME NEW k \in 1..n
        PROVE  cap[(cap_r + k - 1) % CAP_N] \in (0..CapIndex) \X Nat
    <3>1. cap_r + k - 1 \in Nat
      OBVIOUS
    <3>2. (cap_r + k - 1) % CAP_N \in 0..CAP_N - 1
      BY <3>1, ModRange
    <3> QED
      BY <3>2
  <2>3. chunk' = [k \in 1..n |-> cap[(cap_r + k - 1) % CAP_N]]
    BY <1>4 DEF Copy
  <2> HIDE DEF n
  <2>4. chunk' \in Seq((0..CapIndex) \X Nat)
    BY <2>1, <2>2, <2>3
  <2>5. CapLevel' = CapLevel
    BY <1>4 DEF Copy, CapLevel
  <2> QED
    BY <1>4, <2>4, <2>5 DEF Copy
<1>5. CASE rxs_push
  <2>1. CapLevel' = CapLevel - Len(chunk) /\ cap_r' \in 0..CapIndex - 1
    BY <1>5, CapLevelNext
  <2>2. Len(chunk) \in Nat /\ CapLevel \in Nat
    BY CapLevelNow
  <2>3. CapLevel' <= CAP_N
    BY <2>1, <2>2
  <2> QED
    BY <1>5, <2>1, <2>3 DEF rxs_push
<1>6. ASSUME NEW kind \in Kinds, NEW len \in Lengths, NEW t \in Tails,
             KeyUp(kind, len, t)
      PROVE  Capture'
  BY <1>6, CapLevelSame DEF KeyUp
<1>7. CASE TickPlay \/ TickUnderrun \/ FillMore \/ FillDone
  BY <1>7, CapLevelSame DEF TickPlay, TickUnderrun, FillMore, FillDone
<1>8. CASE txs_pull \/ chanimp_flush \/ Exhausted \/ Advance
  BY <1>8, CapLevelSame DEF txs_pull, chanimp_flush, Exhausted, Advance
<1>9. CASE CarrierOff \/ NotYet \/ NothingToHear \/ Pass
  BY <1>9, CapLevelSame DEF CarrierOff, NotYet, NothingToHear, Pass
<1>10. CASE CarrierOn
  BY <1>10, CapLevelSame DEF CarrierOn
<1>11. CASE UNCHANGED vars
  BY <1>11, CapLevelSame DEF vars
<1> QED
  BY <1>1, <1>2, <1>3, <1>4, <1>5, <1>6, <1>7, <1>8, <1>9, <1>10, <1>11
     DEF Next, Tick, MainLoop, Gate, Kinds

(* A cell is written again only after its sample was given back.           *)
LEMMA FreshStep ==
  ASSUME IInv, [Next]_vars
  PROVE  Fresh'
<1> USE RadioLoopAssumption
      DEF IInv, Fresh, Flags, Phase, Put, txfVars, genVars, capVars
<1>1. CASE TickCapture
  <2>1. /\ cap' = [cap EXCEPT ![cap_w % CAP_N] = <<cap_w, Len(ends)>>]
        /\ CapLevel < CAP_N /\ cap_r' = cap_r /\ ends' = ends
        /\ ~tx_on /\ pc' = pc
    BY <1>1 DEF TickCapture, CapHasRoom
  <2>2. CapLevel' = CapLevel + 1
    BY <1>1, CapLevelNext
  <2>3. /\ CapLevel \in Nat /\ cap_r \in Nat
        /\ (cap_r + CapLevel) % CAP_N = cap_w % CAP_N
        /\ (cap_r + CapLevel) % CapIndex = cap_w
    BY CapLevelNow
  <2>4. cap_w % CAP_N \in 0..CAP_N - 1
    BY CapLevelNow, ModRange
  <2> SUFFICES ASSUME pc # "tx_end", NEW j \in 0..CapLevel' - 1
               PROVE  cap'[(cap_r' + j) % CAP_N] =
                        <<(cap_r' + j) % CapIndex, Len(ends')>>
    BY <2>1
  <2>5. CASE j = CapLevel
    BY <2>1, <2>3, <2>4, <2>5 DEF Capture
  <2>6. CASE j # CapLevel
    <3>1. j \in 0..CapLevel - 1
      BY <2>2, <2>3, <2>6
    <3> DEFINE a == cap_r + j
               b == cap_r + CapLevel
               c == a % CAP_N
    <3>2. a \in Nat /\ b \in Nat /\ a < b /\ b - a < CAP_N
      BY <2>1, <2>3, <3>1
    <3>3. b % CAP_N = cap_w % CAP_N
      BY <2>3
    <3> HIDE DEF a, b
    <3>4. a % CAP_N # b % CAP_N /\ a % CAP_N \in 0..CAP_N - 1
      BY <3>2, Differ, ModRange
    <3>5. c # cap_w % CAP_N /\ c \in 0..CAP_N - 1
      BY <3>3, <3>4
    <3> HIDE DEF c
    <3>6. cap'[c] = cap[c]
      BY <2>1, <3>5 DEF Capture
    <3>7. cap[(cap_r + j) % CAP_N] = <<(cap_r + j) % CapIndex, Len(ends)>>
      BY <2>1, <3>1
    <3> QED
      BY <2>1, <3>6, <3>7 DEF c, a
  <2> QED
    BY <2>5, <2>6
<1>2. CASE CarrierOff
  BY <1>2 DEF CarrierOff
<1>3. CASE TxEnd
  BY <1>3, CapLevelNext
<1>4. CASE KeyDrop
  BY <1>4, CapLevelNext
<1>5. CASE rxs_push
  <2> DEFINE a == cap_r + Len(chunk)
             x == a % CapIndex
  <2>1. /\ CapLevel' = CapLevel - Len(chunk)
        /\ cap' = cap /\ ends' = ends /\ cap_r' = x
        /\ ~tx_on /\ pc = "push" /\ tx_on' = tx_on
    BY <1>5, CapLevelNext DEF rxs_push
  <2>2. Len(chunk) \in Nat /\ CapLevel \in Nat /\ cap_r \in Nat
    BY CapLevelNow DEF Capture
  <2>3. /\ CapIndex \in Nat \ {0} /\ CAP_N \in Nat \ {0}
        /\ CapIndex % CAP_N = 0 /\ a \in Nat
    BY <2>2
  <2> SUFFICES ASSUME NEW j \in 0..CapLevel' - 1
               PROVE  cap[(x + j) % CAP_N] = <<(x + j) % CapIndex, Len(ends)>>
    BY <2>1
  <2>4. j \in Nat /\ Len(chunk) + j \in 0..CapLevel - 1
    BY <2>1, <2>2
  <2>5. cap[(cap_r + (Len(chunk) + j)) % CAP_N] =
          <<(cap_r + (Len(chunk) + j)) % CapIndex, Len(ends)>>
    BY <2>1, <2>4
  <2>6. cap_r + (Len(chunk) + j) = a + j
    BY <2>2, <2>4
  <2> HIDE DEF a
  <2>7. ((a % CapIndex) + j) % CAP_N = (a + j) % CAP_N
    BY <2>3, <2>4, CapRounds
  <2>8. ((a % CapIndex) + j) % CapIndex = (a + j) % CapIndex
    BY <2>3, <2>4, CapRounds
  <2> HIDE DEF x
  <2>9. cap[(a + j) % CAP_N] = <<(a + j) % CapIndex, Len(ends)>>
    BY <2>5, <2>6
  <2> QED
    BY <2>7, <2>8, <2>9 DEF x
<1>6. ASSUME NEW kind \in Kinds, NEW len \in Lengths, NEW t \in Tails,
             KeyUp(kind, len, t)
      PROVE  Fresh'
  BY <1>6, CapLevelSame DEF KeyUp
<1>7. CASE TickPlay \/ TickUnderrun \/ FillMore \/ FillDone
  BY <1>7, CapLevelSame DEF TickPlay, TickUnderrun, FillMore, FillDone
<1>8. CASE txs_pull \/ chanimp_flush \/ Exhausted \/ Advance
  BY <1>8, CapLevelSame DEF txs_pull, chanimp_flush, Exhausted, Advance
<1>9. CASE NotYet \/ Copy \/ NothingToHear \/ Pass
  BY <1>9, CapLevelSame DEF NotYet, Copy, NothingToHear, Pass
<1>10. CASE CarrierOn
  BY <1>10, CapLevelSame DEF CarrierOn
<1>11. CASE UNCHANGED vars
  BY <1>11, CapLevelSame DEF vars
<1> QED
  BY <1>1, <1>2, <1>3, <1>4, <1>5, <1>6, <1>7, <1>8, <1>9, <1>10, <1>11
     DEF Next, Tick, MainLoop, Gate, Kinds

(* What is copied is in the FIFO until it was pushed.                      *)
LEMMA TakenStep ==
  ASSUME IInv, [Next]_vars
  PROVE  Taken'
<1> USE RadioLoopAssumption
      DEF IInv, Taken, ChunkTrue, Flags, Phase, Put, txfVars, genVars,
          capVars
<1>1. CASE TickCapture
  <2>1. CapLevel' = CapLevel + 1
    BY <1>1, CapLevelNext
  <2>2. UNCHANGED <<chunk, cap_r, ends, pc>>
    BY <1>1 DEF TickCapture
  <2>3. ChunkTrue'
    BY <2>2
  <2>4. Len(chunk) \in Nat /\ CapLevel \in Nat
    BY CapLevelNow DEF Capture
  <2> QED
    BY <2>1, <2>2, <2>3, <2>4
<1>2. CASE TxEnd
  <2>1. CapLevel' = 0
    BY <1>2, CapLevelNext
  <2> QED
    BY <1>2, <2>1 DEF TxEnd
<1>3. CASE KeyDrop
  <2>1. CapLevel' = 0
    BY <1>3, CapLevelNext
  <2> QED
    BY <1>3, <2>1 DEF KeyDrop
<1>4. CASE Copy
  <2> DEFINE n == Lesser(CapLevel, Chunk)
  <2>1. n \in Nat /\ n <= CapLevel /\ CapLevel \in Nat /\ cap_r \in Nat
    BY CapLevelNow DEF Lesser
  <2>2. /\ chunk' = [k \in 1..n |-> cap[(cap_r + k - 1) % CAP_N]]
        /\ cap_r' = cap_r /\ ends' = ends /\ pc' = "push"
        /\ ~tx_on /\ pc = "rx"
    BY <1>4 DEF Copy, Listening
  <2>3. CapLevel' = CapLevel
    BY <1>4 DEF Copy, CapLevel
  <2> HIDE DEF n
  <2>4. Len(chunk') = n
    BY <2>1, <2>2
  <2>5. ASSUME NEW k \in 1..n
        PROVE  chunk'[k] = <<(cap_r' + k - 1) % CapIndex, Len(ends')>>
    <3>1. k - 1 \in 0..CapLevel - 1 /\ cap_r + (k - 1) = cap_r + k - 1
      BY <2>1
    <3>2. cap[(cap_r + (k - 1)) % CAP_N] =
            <<(cap_r + (k - 1)) % CapIndex, Len(ends)>>
      BY <2>2, <3>1 DEF Fresh
    <3> QED
      BY <2>2, <3>1, <3>2
  <2> QED
    BY <2>1, <2>2, <2>3, <2>4, <2>5
<1>5. CASE rxs_push
  <2>1. CapLevel' = CapLevel - Len(chunk)
    BY <1>5, CapLevelNext
  <2>2. Len(chunk) \in Nat /\ CapLevel \in Nat
    BY CapLevelNow DEF Capture
  <2>3. CapLevel' \in Nat
    BY <2>1, <2>2
  <2>4. chunk' = <<>>
    BY <1>5 DEF rxs_push
  <2> QED
    BY <2>3, <2>4
<1>6. ASSUME NEW kind \in Kinds, NEW len \in Lengths, NEW t \in Tails,
             KeyUp(kind, len, t)
      PROVE  Taken'
  BY <1>6, CapLevelSame DEF KeyUp
<1>7. CASE TickPlay \/ TickUnderrun \/ FillMore \/ FillDone
  BY <1>7, CapLevelSame DEF TickPlay, TickUnderrun, FillMore, FillDone
<1>8. CASE txs_pull \/ chanimp_flush \/ Exhausted \/ Advance
  BY <1>8, CapLevelSame DEF txs_pull, chanimp_flush, Exhausted, Advance
<1>9. CASE CarrierOff \/ NotYet \/ NothingToHear \/ Pass
  BY <1>9, CapLevelSame DEF CarrierOff, NotYet, NothingToHear, Pass
<1>10. CASE CarrierOn
  BY <1>10, CapLevelSame DEF CarrierOn
<1>11. CASE UNCHANGED vars
  BY <1>11, CapLevelSame DEF vars
<1> QED
  BY <1>1, <1>2, <1>3, <1>4, <1>5, <1>6, <1>7, <1>8, <1>9, <1>10, <1>11
     DEF Next, Tick, MainLoop, Gate, Kinds

-----------------------------------------------------------------------------
(* The station starts silent with nothing captured.                        *)
LEMMA Initially ==
  Init => IInv
<1> SUFFICES ASSUME Init
             PROVE  IInv
  OBVIOUS
<1> USE RadioLoopAssumption DEF Init
<1>1. CapLevel = 0
  <2>1. CapLevel = CapIndex % CapIndex
    BY DEF CapLevel
  <2>2. CapIndex = CapIndex * 1 + 0 /\ 0 \in 0..CapIndex - 1
    OBVIOUS
  <2>3. CapIndex % CapIndex = 0
    BY <2>2, Remainder
  <2> QED
    BY <2>1, <2>3
<1>2. Flags /\ Phase /\ Locals
  <2>1. Flags
    BY DEF Flags, Places
  <2>2. Phase
    BY DEF Phase
  <2>3. Locals
    BY DEF Locals
  <2> QED
    BY <2>1, <2>2, <2>3
<1>3. Cursors /\ Histories
  BY DEF Cursors, Histories
<1>4. Levels
  BY DEF Levels, Mid
<1>5. Capture
  BY <1>1 DEF Capture, Blank
<1>6. ~InProgress
  BY DEF InProgress
<1>7. Counts /\ Fifo /\ Played /\ Party
  BY <1>6 DEF Counts, Fifo, Played, Party
<1>8. EndsTold /\ HalfDuplex /\ ArmedFull /\ Parked
  BY <1>6 DEF EndsTold, Keyups, HalfDuplex, ArmedFull, Parked
<1>9. Fresh /\ Taken
  BY <1>1 DEF Fresh, Taken, ChunkTrue
<1> QED
  BY <1>2, <1>3, <1>4, <1>5, <1>7, <1>8, <1>9 DEF IInv

(* The invariant holds in every state: of a frame on the air every sample  *)
(* is where tx_fill, the FIFO's indexes and the interrupt say (427-454).   *)
THEOREM Inductive ==
  Spec => []IInv
<1>1. Init => IInv
  BY Initially
<1>2. IInv /\ [Next]_vars => IInv'
  <2> SUFFICES ASSUME IInv, [Next]_vars
               PROVE  IInv'
    OBVIOUS
  <2>1. Flags' /\ Cursors' /\ Levels' /\ Capture' /\ Histories'
    BY FlagsStep, CursorsStep, LevelsStep, CaptureStep, HistoriesStep
  <2>2. Phase' /\ Locals' /\ Counts' /\ Fifo' /\ Played' /\ Party'
    BY PhaseStep, LocalsStep, CountsStep, FifoStep, PlayedStep, PartyStep
  <2>3. EndsTold' /\ HalfDuplex' /\ ArmedFull' /\ Parked'
    BY EndsToldStep, HalfDuplexStep, ArmedFullStep, ParkedStep
  <2>4. Fresh' /\ Taken'
    BY FreshStep, TakenStep
  <2> QED
    BY <2>1, <2>2, <2>3, <2>4 DEF IInv
<1> QED
  BY <1>1, <1>2, PTL DEF Spec

(* Every variable has its type and neither FIFO is ever past full          *)
(* (232-244, 427-441).                                                     *)
THEOREM TypeCorrect ==
  Spec => []TypeOK
<1>1. IInv => TypeOK
  BY DEF IInv, Flags, Cursors, Levels, Capture, Histories, TypeOK
<1> QED
  BY <1>1, Inductive, PTL

(* The receiver's scratch memory is never the generator's (arena.h:9-18).  *)
THEOREM HalfDuplexAlways ==
  Spec => []HalfDuplex
<1>1. IInv => HalfDuplex
  BY DEF IInv
<1> QED
  BY <1>1, Inductive, PTL

(* The interrupt never starts on an empty FIFO (1962-1972, 1987).          *)
THEOREM ArmedFullAlways ==
  Spec => []ArmedFull
<1>1. IInv => ArmedFull
  BY DEF IInv
<1> QED
  BY <1>1, Inductive, PTL

(* The station hears of the end of its own transmissions, of each once     *)
(* (632-638, 1562-1579).                                                   *)
THEOREM EndsToldAlways ==
  Spec => []EndsTold
<1>1. IInv => EndsTold
  BY DEF IInv
<1> QED
  BY <1>1, Inductive, PTL

(* The receiver's stream is in order and has no seam (1542, 1589-1597,     *)
(* 1974-1979), although its indexes wrap.                                  *)
THEOREM ChunkTrueAlways ==
  Spec => []ChunkTrue
<1>1. IInv => ChunkTrue
  BY DEF IInv, Taken
<1> QED
  BY <1>1, Inductive, PTL

(* The DAC rests at mid-rail (1528-1541).                                  *)
THEOREM ParkedAlways ==
  Spec => []Parked
<1>1. IInv => Parked
  BY DEF IInv
<1> QED
  BY <1>1, Inductive, PTL

(* A frame of any length leaves whole and in order through a FIFO of any   *)
(* size before the carrier goes (427-454, 1515-1527).                      *)
THEOREM FrameWholeAlways ==
  Spec => FrameWhole
<1>1. IInv /\ [Next]_vars =>
        [tx_on /\ ~tx_on' => air = [i \in 1..promise |-> <<Keyups, i>>]]_vars
  <2> SUFFICES ASSUME IInv, Next, tx_on, ~tx_on'
               PROVE  air = [i \in 1..promise |-> <<Keyups, i>>]
    OBVIOUS
  <2>1. CarrierOff
    BY DEF Next, Tick, TickPlay, TickUnderrun, TickCapture, MainLoop,
           FillMore, FillDone, txs_pull, chanimp_flush, Put, Exhausted,
           Advance, CarrierOff, NotYet, TxEnd, Copy, NothingToHear, rxs_push,
           Gate, KeyUp, Pass, KeyDrop, CarrierOn
  <2>2. /\ InProgress /\ ~txs /\ txf_r = txf_w
        /\ got = 0 /\ left = 0 /\ tail = 0
    BY <2>1 DEF IInv, Phase, Locals, Counts, CarrierOff, AllPlayed,
                InProgress
  <2>3. txf_r = promise
    BY <2>2 DEF IInv, Counts, Cursors
  <2> QED
    BY <2>2, <2>3 DEF IInv, Played
<1> QED
  BY <1>1, Inductive, PTL DEF Spec, FrameWhole
=============================================================================
