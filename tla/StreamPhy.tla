------------------------------ MODULE StreamPhy ------------------------------
(***************************************************************************)
(* A stream of data blocks behind one preamble and one header              *)
(* (ofdm_phy/transceiver.py and its integer twin under ofdm_phy/fixed).    *)
(* The receiver finds the tones, then the Zadoff-Chu block behind them,    *)
(* decodes the header and walks the blocks at the offsets of the layout,   *)
(* locking its timing again on the Zadoff-Chu block before every           *)
(* resync_every-th.  A stream that lost blocks may be sent again, once;    *)
(* the soft values kept of a lost block are combined with the new ones.    *)
(*                                                                         *)
(* Positions count cyclic prefixes; a base symbol is FftBins of them.      *)
(* Position 0 is the end of the preamble at the receiver.  A block decodes *)
(* when the receiver is at most one prefix early for it and not late: the  *)
(* demodulator drops the prefix.  The two clocks slip by `slip' a block.   *)
(* What noise does to a part of the signal is open, within bounds.         *)
(***************************************************************************)
EXTENDS Integers, Sequences, FiniteSets, SequencesExt

CONSTANTS
  Counts,        \* numbers of blocks a stream may have
  Periods,       \* values of resync_every; 0: no resync
  Slips,
  Extra,         \* blocks the receiver may be told of beyond those sent
  FftBins, Tile, \* the base symbol, and how often a symbol repeats it
  ToneTile,      \* _newman_preamble_tile
  FloatDetectFft, FixedDetectFft, \* detect_fft_len, in base symbols
  HdrSymbols, BlockSymbols,
  MaxFaults,     \* bound: parts hit by noise, in both attempts
  OpenEnded      \* n_blocks is None

StreamAssumption ==
  /\ Counts \subseteq Nat \ {0} /\ Periods \subseteq Nat
  /\ Slips \subseteq Int /\ Extra \subseteq Nat
  /\ {FftBins, Tile, ToneTile, HdrSymbols, BlockSymbols} \subseteq Nat \ {0}
  /\ \A d \in {FloatDetectFft, FixedDetectFft}: d \in Nat \ {0} /\ ToneTile % d = 0
  /\ MaxFaults \in Nat /\ OpenEnded \notin Nat

VARIABLES
  chain,         \* "float" or "fixed"
  sent,          \* blocks in the stream
  every,         \* resync_every, the same at both ends
  slip,
  n_blocks,      \* what the link layer told the receiver
  cut,           \* blocks of the stream the recording holds; -1: no header
  attempt,       \* 1, or 2 for the stream sent again
  pc,            \* "acquire", "header", "walk", "done" or "error"
  k, pos,
  packets,       \* per block: the block it decoded to, or Lost
  llrs,          \* per block: the block its soft values tell of, or Lost
  prev_llrs,     \* the same, of the first attempt
  faults,        \* parts noise has hit
  preamble_hit,  \* history: noise hit the preamble or the header
  anchor,        \* history: block of the last true lock, NoAnchor after a
                 \*          false one
  heard          \* history: per block, what noise did and the anchor

link == <<chain, sent, every, slip, n_blocks>>
vars == <<link, cut, attempt, pc, k, pos, packets, llrs, prev_llrs, faults,
          preamble_hit, anchor, heard>>

Lost == -1
NoAnchor == -1

-----------------------------------------------------------------------------
Prefix == 1
Symbol == Prefix + Tile * FftBins
(* As many Zadoff-Chu symbols as tiles in every mode. *)
ZcLength == Symbol
Header == HdrSymbols * Symbol
Block == BlockSymbols * Symbol
Tones == 3 * ToneTile * FftBins

(* build_stream: the parts behind the preamble, in order. *)
HasZc(i) == every # 0 /\ i # 0 /\ i % every = 0
BlockParts(i) == IF HasZc(i) THEN <<ZcLength, Block>> ELSE <<Block>>
FloatParts ==
  <<Header>> \o FlattenSeq([i \in 1 .. sent |-> BlockParts(i - 1)])
(* build_stream of the integer transmitter: its Zadoff-Chu block is the    *)
(* last symbol of the preamble's table.                                    *)
FixedParts ==
  <<Header>> \o FlattenSeq(
    [i \in 1 .. sent |-> (IF HasZc(i - 1) THEN <<Symbol>> ELSE <<>>)
                           \o <<Block>>])
Parts == IF chain = "float" THEN FloatParts ELSE FixedParts
Length(parts) == FoldLeft(LAMBDA n, p: n + p, 0, parts)

(* stream_layout: what the link layer plans the air time with. *)
LayoutTotal ==
  Header + sent * Block
    + (IF every = 0 THEN 0 ELSE (sent - 1) \div every) * ZcLength

(* Where block i starts at the receiver: behind the parts before it. *)
TrueStart(i) ==
  Length(FlattenSeq([n \in 1 .. i |-> BlockParts(n - 1)]))
    + Header + (IF HasZc(i) THEN ZcLength ELSE 0) + i * slip

(* A symbol of zeroes is appended to the recording. *)
SignalLength ==
  (CASE cut = -1 -> 0
     [] cut = 0 -> Header
     [] OTHER -> TrueStart(cut - 1) + Block) + Symbol

StartAfresh ==
  /\ pc = "acquire" /\ k = 0 /\ pos = 0
  /\ packets = <<>> /\ llrs = <<>>
  /\ faults = 0 /\ preamble_hit = FALSE /\ anchor = 0 /\ heard = <<>>

Init ==
  /\ chain \in {"float", "fixed"}
  /\ sent \in Counts
  /\ every \in Periods
  /\ slip \in Slips
  /\ n_blocks \in {sent + x: x \in Extra} \cup {OpenEnded}
  /\ cut \in -1 .. sent
  /\ attempt = 1 /\ prev_llrs = <<>>
  /\ StartAfresh

-----------------------------------------------------------------------------
Noise == faults < MaxFaults

(* The tone stage looks at whole blocks and answers the one the tones best *)
(* fill: one on either side of where they begin, `lead' samples into the   *)
(* recording.                                                              *)
DetectBlock == FftBins * (IF chain = "float" THEN FloatDetectFft ELSE FixedDetectFft)
CoarseStarts(lead) ==
  {b * DetectBlock: b \in 0 .. 2} \cap lead - DetectBlock .. lead + DetectBlock

(* The second stage searches for the Zadoff-Chu symbols from there on.     *)
Window == Tones + Symbol + 4 * FftBins + DetectBlock
InWindow(from, lead) ==
  LET zc == lead + Tones + Prefix
  IN  from <= zc /\ zc + Tile * FftBins <= from + Window

Fail(hit) ==
  /\ pc' = "error"
  /\ preamble_hit' = hit
  /\ faults' = IF hit THEN faults + 1 ELSE faults
  /\ UNCHANGED <<link, cut, attempt, k, pos, packets, llrs, prev_llrs,
                 anchor, heard>>

(* detect_preamble: without tones or a Zadoff-Chu block there is no        *)
(* stream; a false peak of the matched filter leads to a bad header.       *)
DetectPreamble ==
  \/ Noise /\ Fail(TRUE)
  \/ \E lead \in 0 .. DetectBlock: \E from \in CoarseStarts(lead):
       \/ ~InWindow(from, lead) /\ Fail(FALSE)
       \/ /\ InWindow(from, lead)
          /\ pc' = "header"
          /\ UNCHANGED <<link, cut, attempt, k, pos, packets, llrs,
                         prev_llrs, faults, preamble_hit, anchor, heard>>
FloatDetectPreamble == pc = "acquire" /\ chain = "float" /\ DetectPreamble
FixedDetectPreamble == pc = "acquire" /\ chain = "fixed" /\ DetectPreamble

HeaderTooShort == pos + Header > SignalLength
DecodeHeader ==
  \/ HeaderTooShort /\ Fail(FALSE)
  \/ ~HeaderTooShort /\ Noise /\ Fail(TRUE)
  \/ /\ ~HeaderTooShort
     /\ pc' = "walk"
     /\ pos' = pos + Header
     /\ UNCHANGED <<link, cut, attempt, k, packets, llrs, prev_llrs,
                    faults, preamble_hit, anchor, heard>>
FloatHeader == pc = "header" /\ chain = "float" /\ DecodeHeader
FixedHeader == pc = "header" /\ chain = "fixed" /\ DecodeHeader

-----------------------------------------------------------------------------
(* _stream_resync.  What the matched filter may find in the samples around *)
(* the block: the true symbol when all of it is there, at times another    *)
(* place or nothing.  A find counts within the window of the nominal       *)
(* position; else the block runs on the nominal one.                       *)
ResyncWin == IF 4 * Prefix > Symbol \div 8 THEN 4 * Prefix ELSE Symbol \div 8
NominalForgotten == pos
Nominal == pos + ZcLength
From == IF pos > ResyncWin THEN pos - ResyncWin ELSE 0
Until(end) == IF end < SignalLength THEN end ELSE SignalLength
Plausible(p) == p \in Nominal - ResyncWin .. Nominal + ResyncWin

Relocks(from, until) ==
  LET true == {p \in (IF k < cut THEN {TrueStart(k)} ELSE {}):
                 p - ZcLength + Prefix >= from /\ p <= until}
      false == IF Noise THEN from + ZcLength - Prefix .. until ELSE {}
      quiet == true = {} \/ Noise
  IN  {[pos |-> p, lock |-> "true"]: p \in {q \in true: Plausible(q)}}
        \cup {[pos |-> p, lock |-> "false"]:
                p \in {q \in false: Plausible(q)} \ true}
        \cup (IF quiet \/ \E q \in true: ~Plausible(q)
              THEN {[pos |-> Nominal, lock |-> "none"]} ELSE {})

FloatResync ==
  LET until == Until(pos + ZcLength + ResyncWin)
  IN  IF until - From >= ZcLength THEN Relocks(From, until)
      ELSE {[pos |-> Nominal, lock |-> "none"]}
(* The integer chain does not look when the window passes the samples. *)
FixedResync ==
  LET until == pos + Symbol + ResyncWin
  IN  IF until <= SignalLength THEN Relocks(From, until)
      ELSE {[pos |-> Nominal, lock |-> "none"]}

Resyncs ==
  CASE ~HasZc(k) -> {[pos |-> pos, lock |-> "none"]}
    [] chain = "float" -> FloatResync
    [] OTHER -> FixedResync

-----------------------------------------------------------------------------
EarlyBy(p, j) == TrueStart(j) - p
Aligned(p, j) == EarlyBy(p, j) \in 0 .. Prefix
At(p) == {j \in 0 .. cut - 1: Aligned(p, j)}
Meant(p) == IF At(p) = {} THEN Lost ELSE CHOOSE j \in At(p): TRUE

Prior == k + 1
Kept == IF Prior \in DOMAIN prev_llrs THEN prev_llrs[Prior] ELSE Lost

(* What comes of the block at p: soft values of a weak one decode together *)
(* with those kept of the first attempt.                                   *)
Decoded(p, noise) ==
  CASE noise = "clean" -> Meant(p)
    [] noise = "weak" /\ Kept = Meant(p) -> Kept
    [] OTHER -> Lost
Soft(p, noise) == IF noise = "weak" THEN Meant(p) ELSE Lost

Heard(noise, lock) ==
  /\ anchor' = CASE lock = "true" -> k [] lock = "false" -> NoAnchor
                 [] OTHER -> anchor
  /\ heard' = Append(heard, [noise |-> noise, anchor |-> anchor'])
  /\ faults' = faults + (IF noise = "clean" THEN 0 ELSE 1)
                      + (IF lock = "false" \/ (lock = "none" /\ HasZc(k))
                         THEN 1 ELSE 0)
Result(packet, soft) ==
  /\ packets' = Append(packets, packet)
  /\ llrs' = Append(llrs, soft)
StepOn(p) == pos' = p + Block /\ k' = k + 1

Expecting == IF n_blocks = OpenEnded THEN TRUE ELSE k < n_blocks
Fits(p) == p + Block <= SignalLength
Noises == IF Noise THEN {"clean", "weak", "dead"} ELSE {"clean"}

DemodBlock ==
  /\ pc = "walk" /\ Expecting
  /\ \E r \in Resyncs: \E noise \in Noises:
       /\ Fits(r.pos)
       /\ Heard(noise, r.lock)
       /\ LET got == Decoded(r.pos, noise)
          IN  Result(got, IF got = Lost THEN Soft(r.pos, noise) ELSE Lost)
       /\ StepOn(r.pos)
  /\ UNCHANGED <<link, cut, attempt, pc, prev_llrs, preamble_hit>>
FloatBlock == chain = "float" /\ DemodBlock
FixedBlock == chain = "fixed" /\ DemodBlock

(* A block that cannot be demodulated at all costs only itself. *)
UnlistedLoss(p) == UNCHANGED <<packets, llrs>> /\ StepOn(p)
Loss(p) == Result(Lost, Lost) /\ StepOn(p)
FloatBroken ==
  /\ pc = "walk" /\ chain = "float" /\ Expecting /\ Noise
  /\ \E r \in Resyncs:
       /\ Fits(r.pos)
       /\ Heard("dead", r.lock)
       /\ Loss(r.pos)
  /\ UNCHANGED <<link, cut, attempt, pc, prev_llrs, preamble_hit>>

(* The walk ends with the blocks expected or with the samples; blocks the  *)
(* recording does not hold are listed as lost.                             *)
Unpadded == packets
Padded ==
  IF n_blocks = OpenEnded THEN packets
  ELSE packets \o [i \in 1 .. n_blocks - Len(packets) |-> Lost]
OutOfSamples ==
  \E r \in Resyncs:
    /\ ~Fits(r.pos)
    /\ anchor' = IF r.lock = "false" THEN NoAnchor ELSE anchor
FinishWalk ==
  /\ pc = "walk"
  /\ IF Expecting THEN OutOfSamples ELSE UNCHANGED anchor
  /\ pc' = "done"
  /\ packets' = Padded
  /\ UNCHANGED <<link, cut, attempt, k, pos, llrs, prev_llrs, faults,
                 preamble_hit, heard>>

(* The peer sends the stream again; the link layer hands over the soft     *)
(* values of the blocks that failed.                                       *)
Again ==
  /\ pc \in {"done", "error"} /\ attempt = 1
  /\ pc = "done" => Lost \in {packets[i]: i \in DOMAIN packets}
  /\ attempt' = 2
  /\ prev_llrs' = llrs
  /\ pc' = "acquire" /\ k' = 0 /\ pos' = 0
  /\ packets' = <<>> /\ llrs' = <<>>
  /\ preamble_hit' = FALSE /\ anchor' = 0 /\ heard' = <<>>
  /\ cut' \in {cut, sent}
  /\ UNCHANGED <<link, faults>>

Next ==
  \/ FloatDetectPreamble \/ FixedDetectPreamble \/ FloatHeader \/ FixedHeader
  \/ FloatBlock \/ FloatBroken \/ FixedBlock \/ FinishWalk \/ Again
Spec == Init /\ [][Next]_vars

-----------------------------------------------------------------------------
(* With the timing true at block `anchor', the receiver is early for a     *)
(* later block by what the clocks slipped since.                           *)
InStep(i) ==
  /\ heard[i].anchor # NoAnchor
  /\ (i - 1 - heard[i].anchor) * slip \in 0 .. Prefix
NeverFooled ==
  anchor # NoAnchor /\ \A i \in DOMAIN heard: heard[i].anchor # NoAnchor

(* A block is listed in its own place or as lost, and so are its soft      *)
(* values: neither a block that could not be demodulated nor as many false *)
(* locks as the bound allows move another into its place.  A receiver told *)
(* the number of blocks lists that many; one left to find the end of the   *)
(* samples lists the blocks that were recorded, unless a false lock took   *)
(* it off the grid.                                                        *)
BlockTrue ==
  /\ \A i \in DOMAIN packets: packets[i] \in {Lost, i - 1}
  /\ \A i \in DOMAIN llrs: llrs[i] \in {Lost, i - 1}
  /\ pc = "done" =>
       Len(packets) = (IF n_blocks # OpenEnded THEN n_blocks
                       ELSE IF NeverFooled THEN cut ELSE Len(packets))

(* Errors do not cascade: a recorded block that noise left alone decodes   *)
(* whatever became of the blocks before it, as long as the last lock was   *)
(* true and the clocks slipped less than a prefix since.                   *)
NoCascade ==
  \A i \in DOMAIN heard:
    heard[i].noise = "clean" /\ i <= cut /\ InStep(i) => packets[i] = i - 1

(* A block that came through weak in both attempts decodes in the second.  *)
RetryHelps ==
  \A i \in DOMAIN heard \cap DOMAIN prev_llrs:
    heard[i].noise = "weak" /\ prev_llrs[i] = i - 1 /\ InStep(i)
      => packets[i] = i - 1

(* The two stages of the preamble detector fit together: when noise left   *)
(* the preamble alone, whichever block the tones were found in, the search *)
(* for the Zadoff-Chu symbols covers them.                                 *)
Acquired == pc = "error" /\ cut # -1 => preamble_hit

(* The air time the link layer plans is that of the stream both            *)
(* transmitters build.                                                     *)
LayoutTrue == LayoutTotal = Length(FloatParts) /\ FloatParts = FixedParts
=============================================================================
