----------------------------- MODULE RadioLoop -----------------------------
(***************************************************************************)
(* The board's transmit and receive paths (cport/usb/usb_radio_main.c):    *)
(* one main loop, which opens a generator for a frame, keeps the DAC's     *)
(* FIFO filled from it, ends the transmission and feeds the receiver, and  *)
(* the sample interrupt, which plays from the one FIFO or captures into    *)
(* the other.  The interrupt runs whole, between any two steps of the      *)
(* loop; a step of the loop touches what they share once.                  *)
(*                                                                         *)
(* A sample is its place in its frame; a captured one is its index and the *)
(* number of transmissions that had ended.  Whether the gate is open, what *)
(* is keyed and how long it is are choices: carrier sense, the burst walks *)
(* and the clock are not modelled.                                         *)
(***************************************************************************)
EXTENDS Integers, Sequences

CONSTANTS
  TXF_N,        \* samples in the DAC's FIFO
  FillSlack,    \* what the loop leaves of it unfilled: tx_fill(256)
  CAP_N,        \* samples in the capture FIFO
  CapIndex,     \* 2^32: its indexes are of 32 bits
  Chunk,        \* samples given to the receiver in a pass
  Lengths,      \* samples of a frame, as txs_open promises them
  Tails,        \* samples of the channel's tail, as chanimp_start sets it
  MaxKeyups     \* bound: transmissions in a run

ASSUME RadioLoopAssumption ==
  /\ TXF_N \in Nat \ {0} /\ CAP_N \in Nat \ {0} /\ Chunk \in Nat \ {0}
  /\ FillSlack \in 0..TXF_N - 1
  /\ CapIndex \in Nat /\ CapIndex > CAP_N /\ CapIndex % CAP_N = 0
  /\ Lengths \subseteq Nat \ {0} /\ Tails \subseteq Nat
  /\ MaxKeyups \in Nat

VARIABLES
  tx_on,         \* the interrupt plays (TRUE) or captures
  txs,           \* a generator is open
  left, tail,    \* samples it, and then the channel's tail, have to give
  txf, txf_w, txf_r,   \* the DAC's FIFO
  tx_is_bc,      \* what is on the air is not a frame of the station
  cap, cap_w, cap_r,   \* the capture FIFO
  arena,         \* who used the shared scratch memory last
  dac,           \* the level of the DAC
  pc,            \* where the main loop is
  keying,        \* inside the key-up
  room, got,     \* locals of tx_fill
  chunk,         \* local: samples copied out of the capture FIFO
  kinds,         \* history: what was keyed
  promise,       \* history: samples of the frame keyed last, with its tail
  air,           \* history: samples of it the DAC has played
  ends           \* history: at the end of each transmission, was the
                 \* station told

txfVars == <<txf, txf_w, txf_r>>
capVars == <<cap, cap_w, cap_r, chunk>>
genVars == <<txs, left, tail, promise, arena>>
vars == <<tx_on, txfVars, genVars, tx_is_bc, capVars, dac, pc, keying, room,
          got, kinds, air, ends>>

Mid == <<0, 0>>              \* DAC_DHR12R1 = 2048
Blank == <<CapIndex, 0>>     \* a cell never written
Lesser(a, b) == IF a < b THEN a ELSE b
CapLevel == (cap_w - cap_r + CapIndex) % CapIndex
Keyups == Len(kinds)

Init ==
  /\ tx_on = FALSE /\ txs = FALSE /\ left = 0 /\ tail = 0
  /\ txf = [i \in 0..TXF_N - 1 |-> Mid] /\ txf_w = 0 /\ txf_r = 0
  /\ cap = [i \in 0..CAP_N - 1 |-> Blank] /\ cap_w = 0 /\ cap_r = 0
  /\ tx_is_bc = FALSE /\ arena = "nobody" /\ dac = Mid
  /\ pc = "fill" /\ keying = FALSE /\ room = 0 /\ got = 0 /\ chunk = <<>>
  /\ kinds = <<>> /\ promise = 0 /\ air = <<>> /\ ends = <<>>

-----------------------------------------------------------------------------
(* tim6_isr.  A sample that finds the capture FIFO full is counted and     *)
(* lost: a step that changes nothing here.                                 *)
TickPlay ==
  /\ tx_on /\ txf_r # txf_w
  /\ dac' = txf[txf_r % TXF_N]
  /\ air' = Append(air, dac')
  /\ txf_r' = txf_r + 1
  /\ UNCHANGED <<tx_on, txf, txf_w, genVars, tx_is_bc, capVars, pc, keying,
                 room, got, kinds, ends>>

TickUnderrun ==
  /\ tx_on /\ txf_r = txf_w
  /\ dac' = Mid
  /\ UNCHANGED <<tx_on, txfVars, genVars, tx_is_bc, capVars, pc, keying,
                 room, got, kinds, air, ends>>

(* Mutant of CapHasRoom: one too many.                                     *)
CapHasRoomOff == CapLevel <= CAP_N

CapHasRoom == CapLevel < CAP_N

TickCapture ==
  /\ ~tx_on /\ CapHasRoom
  /\ cap' = [cap EXCEPT ![cap_w % CAP_N] = <<cap_w, Len(ends)>>]
  /\ cap_w' = (cap_w + 1) % CapIndex
  /\ UNCHANGED <<tx_on, txfVars, genVars, tx_is_bc, cap_r, chunk, dac, pc,
                 keying, room, got, kinds, air, ends>>

Tick == TickPlay \/ TickUnderrun \/ TickCapture

-----------------------------------------------------------------------------
(* tx_fill: from the generator while it gives, then the channel's tail, as *)
(* much at a time as is free up to the end of the array.  What the         *)
(* generator gives is its promise, unless the receiver has used the        *)
(* scratch memory since.  The FIFO's room was read before the interrupt's  *)
(* next ticks, which can only make it larger.                              *)
Slack == IF keying THEN 0 ELSE FillSlack
WantsMore == txs /\ txf_w - txf_r + Slack < TXF_N
FreeRun == Lesser(TXF_N - (txf_w - txf_r), TXF_N - (txf_w % TXF_N))

FillMore ==
  /\ pc = "fill" /\ WantsMore
  /\ room' = FreeRun
  /\ pc' = "pull"
  /\ UNCHANGED <<tx_on, txfVars, genVars, tx_is_bc, capVars, dac, keying,
                 got, kinds, air, ends>>

FillDone ==
  /\ pc = "fill" /\ ~WantsMore
  /\ pc' = IF keying THEN "key_drop" ELSE "tx_check"
  /\ UNCHANGED <<tx_on, txfVars, genVars, tx_is_bc, capVars, dac, keying,
                 room, got, kinds, air, ends>>

Pullable == IF arena = "tx" THEN left ELSE 0

(* The frame's next n samples, from the write index on.                    *)
Written(n) ==
  LET wi == txf_w % TXF_N
  IN  [i \in 0..TXF_N - 1 |->
         IF wi <= i /\ i < wi + n
         THEN <<Keyups, promise - left - tail + i - wi + 1>>
         ELSE txf[i]]

Put(n) ==
  /\ txf' = Written(n)
  /\ got' = n
  /\ room' = 0
  /\ pc' = "advance"
  /\ UNCHANGED <<tx_on, txf_w, txf_r, txs, promise, arena, tx_is_bc,
                 capVars, dac, keying, kinds, air, ends>>

txs_pull ==
  /\ pc = "pull" /\ Pullable > 0
  /\ LET n == Lesser(room, Pullable)
     IN  Put(n) /\ left' = left - n /\ UNCHANGED tail

chanimp_flush ==
  /\ pc = "pull" /\ Pullable = 0 /\ tail > 0
  /\ LET n == Lesser(room, tail)
     IN  Put(n) /\ tail' = tail - n /\ UNCHANGED left

(* Mutant of Exhausted: the generator is not let go.                       *)
ExhaustedKept ==
  /\ pc = "pull" /\ Pullable = 0 /\ tail = 0
  /\ room' = 0
  /\ pc' = "fill"
  /\ UNCHANGED <<tx_on, txfVars, genVars, tx_is_bc, capVars, dac, keying,
                 got, kinds, air, ends>>

Exhausted ==
  /\ pc = "pull" /\ Pullable = 0 /\ tail = 0
  /\ txs' = FALSE
  /\ room' = 0
  /\ pc' = "fill"
  /\ UNCHANGED <<tx_on, txfVars, left, tail, promise, arena, tx_is_bc,
                 capVars, dac, keying, got, kinds, air, ends>>

Advance ==
  /\ pc = "advance"
  /\ txf_w' = txf_w + got
  /\ got' = 0
  /\ pc' = "fill"
  /\ UNCHANGED <<tx_on, txf, txf_r, genVars, tx_is_bc, capVars, dac, keying,
                 room, kinds, air, ends>>

-----------------------------------------------------------------------------
(* The end of a transmission: the carrier goes, and then the DAC is        *)
(* parked, what was captured is dropped and the station is told, unless    *)
(* the frame was not its own.                                              *)
(* Mutant of AllPlayed: an empty FIFO passes for a finished frame.         *)
AllPlayedEmpty == tx_on /\ txf_r = txf_w

AllPlayed == tx_on /\ ~txs /\ txf_r = txf_w

CarrierOff ==
  /\ pc = "tx_check" /\ AllPlayed
  /\ tx_on' = FALSE
  /\ pc' = "tx_end"
  /\ UNCHANGED <<txfVars, genVars, tx_is_bc, capVars, dac, keying, room,
                 got, kinds, air, ends>>

NotYet ==
  /\ pc = "tx_check" /\ ~AllPlayed
  /\ pc' = "rx"
  /\ UNCHANGED <<tx_on, txfVars, genVars, tx_is_bc, capVars, dac, keying,
                 room, got, kinds, air, ends>>

(* Mutants of TxEnd: what leaked into the capture FIFO stays in it; the    *)
(* kind of the transmission outlives it; the DAC holds its last sample.    *)
TxEndLeaky ==
  /\ pc = "tx_end"
  /\ dac' = Mid
  /\ ends' = Append(ends, ~tx_is_bc)
  /\ tx_is_bc' = FALSE
  /\ pc' = "rx"
  /\ UNCHANGED <<tx_on, txfVars, genVars, capVars, keying, room, got, kinds,
                 air>>

TxEndStale ==
  /\ pc = "tx_end"
  /\ dac' = Mid
  /\ cap_r' = cap_w
  /\ ends' = Append(ends, ~tx_is_bc)
  /\ pc' = "rx"
  /\ UNCHANGED <<tx_on, txfVars, genVars, tx_is_bc, cap, cap_w, chunk,
                 keying, room, got, kinds, air>>

TxEndHeld ==
  /\ pc = "tx_end"
  /\ cap_r' = cap_w
  /\ ends' = Append(ends, ~tx_is_bc)
  /\ tx_is_bc' = FALSE
  /\ pc' = "rx"
  /\ UNCHANGED <<tx_on, txfVars, genVars, cap, cap_w, chunk, dac, keying,
                 room, got, kinds, air>>

TxEnd ==
  /\ pc = "tx_end"
  /\ dac' = Mid
  /\ cap_r' = cap_w
  /\ ends' = Append(ends, ~tx_is_bc)
  /\ tx_is_bc' = FALSE
  /\ pc' = "rx"
  /\ UNCHANGED <<tx_on, txfVars, genVars, cap, cap_w, chunk, keying, room,
                 got, kinds, air>>

-----------------------------------------------------------------------------
(* One chunk a pass is copied, given back to the interrupt and pushed      *)
(* through the receivers.                                                  *)
(* Mutant of Listening: also while transmitting.                           *)
ListeningAlways == cap_r # cap_w

Listening == ~tx_on /\ cap_r # cap_w

Copy ==
  /\ pc = "rx" /\ Listening
  /\ chunk' = [k \in 1..Lesser(CapLevel, Chunk) |->
                 cap[(cap_r + k - 1) % CAP_N]]
  /\ pc' = "push"
  /\ UNCHANGED <<tx_on, txfVars, genVars, tx_is_bc, cap, cap_w, cap_r, dac,
                 keying, room, got, kinds, air, ends>>

NothingToHear ==
  /\ pc = "rx" /\ ~Listening
  /\ pc' = "gate"
  /\ UNCHANGED <<tx_on, txfVars, genVars, tx_is_bc, capVars, dac, keying,
                 room, got, kinds, air, ends>>

rxs_push ==
  /\ pc = "push"
  /\ cap_r' = (cap_r + Len(chunk)) % CapIndex
  /\ chunk' = <<>>
  /\ arena' = "rx"
  /\ pc' = "gate"
  /\ UNCHANGED <<tx_on, txfVars, txs, left, tail, promise, tx_is_bc, cap,
                 cap_w, dac, keying, room, got, kinds, air, ends>>

-----------------------------------------------------------------------------
(* The transmit gate, about once a millisecond: a statistics reply, a      *)
(* broadcast group or a frame of the station is keyed, or nothing.  The    *)
(* generator is opened and the FIFO filled before the interrupt is told    *)
(* to play; the capture FIFO is emptied in between.                        *)
(* Mutant of KeyUp: the carrier before the FIFO is filled.                 *)
KeyUpEmpty(kind, len, t) ==
  /\ pc = "gate" /\ ~tx_on /\ ~txs
  /\ Keyups < MaxKeyups
  /\ txs' = TRUE
  /\ left' = len
  /\ tail' = t
  /\ arena' = "tx"
  /\ txf_w' = 0
  /\ txf_r' = 0
  /\ tx_on' = TRUE
  /\ keying' = TRUE
  /\ pc' = "fill"
  /\ kinds' = Append(kinds, kind)
  /\ promise' = len + t
  /\ air' = <<>>
  /\ UNCHANGED <<txf, tx_is_bc, capVars, dac, room, got, ends>>

KeyUp(kind, len, t) ==
  /\ pc = "gate" /\ ~tx_on /\ ~txs
  /\ Keyups < MaxKeyups
  /\ txs' = TRUE
  /\ left' = len
  /\ tail' = t
  /\ arena' = "tx"
  /\ txf_w' = 0
  /\ txf_r' = 0
  /\ keying' = TRUE
  /\ pc' = "fill"
  /\ kinds' = Append(kinds, kind)
  /\ promise' = len + t
  /\ air' = <<>>
  /\ UNCHANGED <<tx_on, txf, tx_is_bc, capVars, dac, room, got, ends>>

Pass ==
  /\ pc = "gate"
  /\ pc' = "fill"
  /\ UNCHANGED <<tx_on, txfVars, genVars, tx_is_bc, capVars, dac, keying,
                 room, got, kinds, air, ends>>

KeyDrop ==
  /\ pc = "key_drop"
  /\ cap_r' = cap_w
  /\ pc' = "carrier"
  /\ UNCHANGED <<tx_on, txfVars, genVars, tx_is_bc, cap, cap_w, chunk, dac,
                 keying, room, got, kinds, air, ends>>

CarrierOn ==
  /\ pc = "carrier"
  /\ tx_on' = TRUE
  /\ tx_is_bc' = (tx_is_bc \/ kinds[Keyups] = "group")
  /\ keying' = FALSE
  /\ pc' = "fill"
  /\ UNCHANGED <<txfVars, genVars, capVars, dac, room, got, kinds, air,
                 ends>>

Gate ==
  \/ \E kind \in {"station", "group"}, len \in Lengths, t \in Tails :
       KeyUp(kind, len, t)
  \/ Pass

MainLoop ==
  \/ FillMore \/ FillDone \/ txs_pull \/ chanimp_flush \/ Exhausted \/ Advance
  \/ CarrierOff \/ NotYet \/ TxEnd
  \/ Copy \/ NothingToHear \/ rxs_push
  \/ Gate \/ KeyDrop \/ CarrierOn

Next == Tick \/ MainLoop

Spec == Init /\ [][Next]_vars

(* The loop never blocks and the timer never stops.                        *)
FairSpec == Spec /\ WF_vars(MainLoop) /\ WF_vars(Tick)

-----------------------------------------------------------------------------
Kinds == {"station", "group"}
Places == {"fill", "pull", "advance", "tx_check", "tx_end", "rx", "push",
           "gate", "key_drop", "carrier"}

(* Every variable has the type of its declaration in C, and neither FIFO   *)
(* is ever past full (g_txf, g_cap, lines 232-244, 427-441).               *)
TypeOK ==
  /\ tx_on \in BOOLEAN /\ txs \in BOOLEAN /\ keying \in BOOLEAN
  /\ left \in Nat /\ tail \in Nat /\ promise \in Nat
  /\ txf \in [0..TXF_N - 1 -> Nat \X Nat]
  /\ txf_w \in Nat /\ txf_r \in 0..txf_w /\ txf_w + got - txf_r <= TXF_N
  /\ tx_is_bc \in BOOLEAN
  /\ cap \in [0..CAP_N - 1 -> (0..CapIndex) \X Nat]
  /\ cap_w \in 0..CapIndex - 1 /\ cap_r \in 0..CapIndex - 1
  /\ CapLevel <= CAP_N
  /\ arena \in {"nobody", "rx", "tx"}
  /\ dac \in Nat \X Nat
  /\ pc \in Places
  /\ room \in 0..TXF_N /\ got \in 0..TXF_N
  /\ chunk \in Seq((0..CapIndex) \X Nat)
  /\ kinds \in Seq(Kinds)
  /\ air \in Seq(Nat \X Nat)
  /\ ends \in Seq(BOOLEAN)

(* The generator and the receiver share their scratch memory on the        *)
(* promise that no receive phase runs while a generator is open            *)
(* (arena.h:9-18): the receiver is not pushed to, and has not been since   *)
(* the generator was opened.                                               *)
HalfDuplex == txs => arena = "tx" /\ pc # "push"

(* The carrier does not go before every sample the generator and the       *)
(* channel's tail promised has left the DAC, each once and in order, none  *)
(* overwritten in the FIFO on the way and none of another frame            *)
(* (tx_fill 427-454, the end of a transmission 1515-1527).                 *)
FrameWhole ==
  [][tx_on /\ ~tx_on' =>
       air = [i \in 1..promise |-> <<Keyups, i>>]]_vars

(* When the interrupt starts to play there is something to play: the FIFO  *)
(* is filled before the carrier is turned on (1962-1972, 1987).            *)
ArmedFull == tx_on /\ air = <<>> => txf_r < txf_w

(* The end of every transmission of the station is reported to it, once,   *)
(* and the end of no other: a stale expectation of an answer must not be   *)
(* timed from the end of a broadcast group (632-638, 1562-1579).           *)
InProgress == keying \/ tx_on \/ pc = "tx_end"
EndsTold ==
  /\ Len(ends) = Keyups - (IF InProgress THEN 1 ELSE 0)
  /\ \A k \in 1..Len(ends) : ends[k] <=> kinds[k] = "station"

(* The receiver is fed the samples of the capture FIFO, in order, none     *)
(* twice and none overwritten, and none that was captured before the last  *)
(* transmission ended: its stream has no seam (1542, 1589-1597, 1974-1979).*)
ChunkTrue ==
  \A k \in 1..Len(chunk) :
    chunk[k] = <<(cap_r + k - 1) % CapIndex, Len(ends)>>

(* The DAC rests at mid-rail whenever the station does not transmit, or    *)
(* the peer's carrier sense would read its last sample as a carrier        *)
(* (1528-1541).                                                            *)
Parked == ~tx_on /\ pc # "tx_end" => dac = Mid

(* Every transmission ends and gives the station back to the receiver: the *)
(* generator is never left open, the carrier never left on.                *)
GivenBack == (txs \/ tx_on) ~> (~txs /\ ~tx_on)
=============================================================================
