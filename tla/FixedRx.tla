------------------------------ MODULE FixedRx ------------------------------
(***************************************************************************)
(* The fixed-point chain on samples (ofdm_phy/fixed/tx.py, rx.py): a       *)
(* recording is made of a frame -- two tone combs, the Zadoff-Chu symbol,  *)
(* a header block and a data block of tiled OFDM symbols -- turned by a    *)
(* frequency offset that drifts, faded symbol by symbol, with a carrier    *)
(* that another station sits on; and one receiver finds, tunes to,         *)
(* demodulates, weights and decodes the frames of one recording after      *)
(* another.  Everything is integer arithmetic of the widths of FixedPoint. *)
(*                                                                         *)
(* Left out: the Hilbert filter and the transmitter's clipping and         *)
(* low-pass filter (recordings here are analytic already), and what        *)
(* BlockCodec has: packets, interleaver, scrambler, puncturing and LDPC.   *)
(***************************************************************************)
EXTENDS FixedPoint, FiniteSets

CONSTANTS
  N,             \* fft_bins
  Tiles,         \* sym_tile, and the repetitions of the ZC symbol
  T,             \* newman_preamble_tile
  DetectFft,     \* detection block
  CyclicPrefix,  \* cyclic_prefix
  Channel,       \* channel_indices
  Pilots,        \* positions of the pilots in Channel
  PilotRoot, ZcRoot,
  Comb, CombShift,   \* _newman_preamble_bins, and the shift of the second
  ZcGroup,       \* repetitions of the ZC symbol correlated at once
  ZcHyps,        \* zc_hyp_words
  MaxCfo,        \* max_cfo, in subcarriers
  ToneThreshold, ZcThreshold,   \* over 16
  SearchWords,   \* search_words
  Target,        \* bits a block is scaled to before its transform
  Amplitude,     \* of a carrier
  RecalRom,      \* reliability of a calibrated soft value
  NotchR, MaxNotches, MinToneBlocks,
  Sessions       \* sequences of recordings, see Heard: what one receiver
                 \* is given

FixedRxAssumption ==
  /\ DetectFft % N = 0 /\ (T * N) % DetectFft = 0 /\ Tiles % ZcGroup = 0
  /\ {N, Tiles, T, DetectFft, CyclicPrefix, MaxCfo} \subseteq Nat

VARIABLES
  session,       \* recordings still to come
  rec,           \* the one being received
  samples,       \* its samples
  stage,         \* "idle", "heard", "tuned", "head", "done" or "lost"
  tuned,         \* what _detect found
  last_hyp,      \* _last_hyp, 0 for None
  head, data,    \* demodulated blocks
  decoded,       \* the decoded blocks
  snr,           \* _estimate_snr_db, in sixteenths of an octave
  words          \* last_notch_words

vars == <<session, rec, samples, stage, tuned, last_hyp, head, data, decoded,
          snr, words>>

SymbolLen == CyclicPrefix + Tiles * N
Zero == <<0, 0>>
Repeated(x, n) == Tuple([i \in 1 .. n * Len(x) |-> x[((i - 1) % Len(x)) + 1]])
Plus(a, b) == <<a[1] + b[1], a[2] + b[2]>>
Times(z, a) == <<rshift_round(z[1] * a, Q), rshift_round(z[2] * a, Q)>>
Joined(parts) == FoldLeft(LAMBDA all, x: all \o x, <<>>, parts)
Floor(v, shift) == v \div 2 ^ Least(shift, 30)

-----------------------------------------------------------------------------
(* The transmitter.  A coefficient at part / whole of a turn.              *)
Unit(part, whole) ==
  LET i == (part * RomSize + whole \div 2) \div whole
  IN <<Cosine(i), Sine(i)>>
zc_seq(root, len) ==
  [n \in 1 .. len |-> Unit(-(root * (n - 1) * (n - 1 + (len % 2))), 2 * len)]
newman_phases(m) == [k \in 1 .. m |-> Unit((k - 1) * (k - 1), 2 * m)]
pilot_values == Tuple(zc_seq(PilotRoot, Len(Pilots)))

(* The samples of one symbol: values on the bins, nothing on the others.   *)
Waveform(bins, values) ==
  Tuple(ifft_fixed(Tuple([b \in 1 .. N |->
    LET j == SelectInSeq(bins, LAMBDA c: c = b - 1)
    IN IF j = 0 THEN Zero ELSE Times(values[j], Amplitude)])))
WithPrefix(x) ==
  LET tiled == Repeated(x, Tiles)
  IN SubSeq(tiled, Len(tiled) - CyclicPrefix + 1, Len(tiled)) \o tiled

newman_preamble ==
  LET comb(shift) ==
        Waveform([j \in DOMAIN Comb |-> Comb[j] + shift],
                 [j \in DOMAIN Comb |->
                    LET z == newman_phases(Len(Comb))[j]
                    IN <<2 * z[1], 2 * z[2]>>])
  IN Repeated(comb(0), 2 * T) \o Repeated(comb(CombShift), T)
zc_symbol == Waveform(Channel, zc_seq(ZcRoot, Len(Channel)))
zc_preamble == WithPrefix(zc_symbol)

Level == [bits \in {<<0, 0>>, <<0, 1>>, <<1, 1>>, <<1, 0>>} |->
            CASE bits = <<0, 0>> -> -3 [] bits = <<0, 1>> -> -1
              [] bits = <<1, 1>> -> 1 [] OTHER -> 3]
One == 2 ^ Q - 1
Qpsk == (One * 7) \div 10
Qam16 == (One * 6) \div 19
map_bits(b, mu) ==
  [k \in 1 .. Len(b) \div mu |->
     CASE mu = 1 -> <<One * (2 * b[k] - 1), 0>>
       [] mu = 2 -> <<Qpsk * (2 * b[2 * k - 1] - 1),
                      Qpsk * (2 * b[2 * k] - 1)>>
       [] mu = 4 -> <<Qam16 * Level[<<b[4 * k - 3], b[4 * k - 2]>>],
                      Qam16 * Level[<<b[4 * k - 1], b[4 * k]>>]>>]

IsPilot(c) == \E p \in DOMAIN Pilots: Pilots[p] = c
DataCarriers == SelectSeq([c \in DOMAIN Channel |-> c], LAMBDA c: ~IsPilot(c))
(* The carrier in the place of hit is sat on by another station.           *)
modulate_symbol(b, mu, hit) ==
  LET points == map_bits(b, mu)
      value(c) ==
        IF IsPilot(c) THEN pilot_values[SelectInSeq(Pilots, LAMBDA p: p = c)]
        ELSE LET z == points[SelectInSeq(DataCarriers, LAMBDA d: d = c)]
             IN IF c = hit THEN Plus(z, <<One, 2 * One>>) ELSE z
  IN WithPrefix(Waveform(Channel, [c \in DOMAIN Channel |-> value(c)]))

(* A convolutional code of four states, and its decoder.                   *)
Outputs(state, bit) == <<(state \div 2 + state + bit) % 2,
                         (state \div 2 + bit) % 2>>
encode(b) ==
  FoldLeft(LAMBDA acc, bit: [out |-> acc.out \o Outputs(acc.state, bit),
                             state |-> (2 * acc.state + bit) % 4],
           [out |-> <<>>, state |-> 0], b \o <<0, 0>>).out
viterbi_decode_int(soft) ==
  LET branch(state, bit, rx) ==
        Total([j \in 1 .. 2 |-> (2 * Outputs(state, bit)[j] - 1) * rx[j]])
      step(paths, rx) ==
        Tuple([n \in 1 .. 4 |->
          LET bit == (n - 1) % 2
              before(p) == [metric |-> paths[p + 1].metric
                                         + branch(p, bit, rx),
                            bits |-> Append(paths[p + 1].bits, bit)]
              one == before((n - 1) \div 2)
              two == before((n - 1) \div 2 + 2)
          IN IF one.metric >= two.metric THEN one ELSE two])
      final == FoldLeft(step,
                        [n \in 1 .. 4 |-> [metric |-> IF n = 1 THEN 0
                                                      ELSE -(10 ^ 8),
                                           bits |-> <<>>]],
                        [k \in 1 .. Len(soft) \div 2 |->
                           SubSeq(soft, 2 * k - 1, 2 * k)])
      best == final[ArgLargest([n \in 1 .. 4 |-> final[n].metric])]
  IN SubSeq(best.bits, 1, Len(soft) \div 2 - 2)

(* The bits of a block of three symbols, from a seed.                      *)
SymbolsOf == 3
Sent(seed, mu) ==
  [i \in 1 .. (SymbolsOf * Len(DataCarriers) * mu) \div 2 - 2 |->
     (((seed + i) * (seed + 2 * i)) \div 3) % 2]
HeadSent(f) == Tuple(Sent(f.seed, 1))
DataSent(f) == Tuple(Sent(f.seed + 2, f.mu))
BlockWaves(b, mu, hit) ==
  LET coded == encode(b)
      cap == Len(DataCarriers) * mu
  IN [k \in 1 .. SymbolsOf |->
        modulate_symbol(SubSeq(coded, (k - 1) * cap + 1, k * cap), mu, hit)]
build_frame(f) ==
  <<newman_preamble \o zc_preamble>>
    \o BlockWaves(HeadSent(f), 1, f.hit)
    \o BlockWaves(DataSent(f), f.mu, f.hit)

-----------------------------------------------------------------------------
(* A recording: silence, a frame that has been turned by f.cfo and by a    *)
(* drift of so many search steps in each symbol, faded and echoed (in      *)
(* quarters), and carriers that last from end to end; its first f.late and *)
(* last f.cut samples are missing.                                         *)
Turned(f) ==
  LET step == SearchWords[2] - SearchWords[1]
      word(k) == f.cfo + (IF k = 1 THEN 0 ELSE f.drift[k - 1] * step)
      loud(z, k) ==
        IF k = 1 THEN z
        ELSE <<(z[1] * f.loud[k - 1]) \div 4, (z[2] * f.loud[k - 1]) \div 4>>
      add(acc, part) ==
        LET x == derotate(part, -word(acc.k), -acc.phase)
        IN [out |-> acc.out \o Tuple([i \in DOMAIN x |-> loud(x[i], acc.k)]),
            phase |-> (acc.phase + word(acc.k) * Len(x)) % Turn,
            k |-> acc.k + 1]
  IN FoldLeft(add, [out |-> <<>>, phase |-> 0, k |-> 1], build_frame(f)).out
Echoed(x, quarters) ==
  Tuple([i \in DOMAIN x |->
    IF i = 1 THEN x[1]
    ELSE Plus(x[i], <<(x[i - 1][1] * quarters) \div 4,
                      (x[i - 1][2] * quarters) \div 4>>)])
Heard(f) ==
  LET clean == [i \in 1 .. f.lead |-> Zero]
                 \o Echoed(Turned(f), f.echo)
      tone(i) == FoldLeft(LAMBDA z, t:
                   LET at == ((t.word * i) % Turn) \div (Turn \div RomSize)
                   IN Plus(z, <<(t.loud * Cosine(at)) \div 4,
                                (t.loud * Sine(at)) \div 4>>), Zero, f.tones)
      all == [i \in DOMAIN clean |-> Plus(clean[i], tone(i))]
  IN Tuple(SubSeq(all, f.late + 1, Len(all) - f.cut))
Start(f) == f.lead + Len(newman_preamble) + Len(zc_preamble)

-----------------------------------------------------------------------------
(* Carriers present through the whole recording. *)
Part(x, b, n) == SubSeq(x, b * n + 1, (b + 1) * n)
Power(bins) == Tuple([k \in DOMAIN bins |-> bins[k][1] * bins[k][1]
                                              + bins[k][2] * bins[k][2]])
Count(P) == Total(Tuple([i \in DOMAIN P |-> IF P[i] THEN 1 ELSE 0]))

Spectra(x) ==
  Tuple([b \in 1 .. Len(x) \div DetectFft |->
           fft_bfp(Part(x, b - 1, DetectFft), Target)])
Real(x) == Tuple([i \in DOMAIN x |-> <<x[i][1], 0>>])
TonePower(spectra) ==
  Tuple([b \in DOMAIN spectra |->
           SubSeq(Power(spectra[b].bins), 1, DetectFft \div 2)])
(* In how many blocks each bin stands out, and by how much.                *)
ToneBins(pw, mean) ==
  Tuple([k \in 1 .. DetectFft \div 2 |->
    [hits |-> Count([b \in DOMAIN pw |-> k > 1 /\ pw[b][k] * 2 > 3 * mean[b]]),
     ratio |-> Total(Tuple([b \in DOMAIN pw |->
                 IF k = 1 \/ mean[b] = 0 THEN 0
                 ELSE (pw[b][k] * 256) \div mean[b]]))]])
MeanPower(pw) ==
  Tuple([b \in DOMAIN pw |->
           (Total(pw[b]) - pw[b][1]) \div (DetectFft \div 2 - 1)])
(* A bin whose neighbours a subcarrier away are busy is modulated.         *)
modulated(bins, k, nb) ==
  LET S == DetectFft \div N
  IN \E n \in {k - S, k + S} \cap (2 .. DetectFft \div 2):
       bins[n].hits * 2 >= nb /\ bins[n].ratio * 8 >= bins[k].ratio
standing_out(bins, nb) ==
  {k \in 2 .. DetectFft \div 2: /\ bins[k].hits * 20 >= 17 * nb
                                /\ bins[k].ratio >= 640 * nb
                                /\ ~modulated(bins, k, nb)}
(* The strongest bin of each run of neighbours.                            *)
strongest(bins, kept) ==
  {k \in kept: \A j \in kept:
     (\A i \in Least(j, k) .. Most(j, k): i \in kept) =>
       \/ bins[j].ratio < bins[k].ratio
       \/ bins[j].ratio = bins[k].ratio /\ k <= j}
(* How far a bin turns from block to block.                                *)
advance(spectra, k) ==
  LET at(b) == spectra[b].bins[k]
      n == Len(spectra) - 1
  IN <<Total(Tuple([b \in 1 .. n |-> at(b)[1] * at(b + 1)[1]
                                       + at(b)[2] * at(b + 1)[2]])),
       Total(Tuple([b \in 1 .. n |-> at(b)[1] * at(b + 1)[2]
                                       - at(b)[2] * at(b + 1)[1]]))>>
tone_word(k, turn) ==
  IF turn = <<0, 0>> THEN <<>>
  ELSE <<(((k - 1) * Turn + cordic_atan2(turn[2], turn[1])
             + DetectFft \div 2) \div DetectFft) % Turn>>
tone_words(spectra, chosen) ==
  Joined([k \in 1 .. DetectFft \div 2 |->
            IF k \in chosen THEN tone_word(k, advance(spectra, k)) ELSE <<>>])
tones_in(spectra, bins) ==
  tone_words(spectra, strongest(bins, standing_out(bins, Len(spectra))))
tones_of(spectra, pw) == tones_in(spectra, ToneBins(pw, MeanPower(pw)))
_find_tones(x) ==
  LET found(spectra) == tones_of(spectra, TonePower(spectra))
      first(words_) == SubSeq(words_, 1, Least(MaxNotches, Len(words_)))
  IN IF Len(x) \div DetectFft < MinToneBlocks THEN <<>>
     ELSE first(found(Spectra(Real(x))))

(* The filter is linear: it is run over both components.                   *)
notched(x, found) ==
  LET part(c) == notch_words([i \in DOMAIN x |-> x[i][c]], found, NotchR)
      both(re, im) == Tuple([i \in DOMAIN x |-> <<re[i], im[i]>>])
  IN [words |-> found,
      samples |-> IF found = <<>> THEN x ELSE both(part(1), part(2))]
_excise(x) == notched(x, _find_tones(x))

-----------------------------------------------------------------------------
(* The tones of the preamble. *)
mask(j) ==
  LET halfwidth == IF DetectFft = N THEN 0 ELSE 1
      centres == {(Comb[i] + (j - 1) * CombShift) * (DetectFft \div N):
                    i \in DOMAIN Comb}
  IN UNION {Most(b - halfwidth, 1)
              .. Least(b + halfwidth, DetectFft \div 2 - 1): b \in centres}
Sorted(s) == SortSeq(s, LAMBDA a, b: a < b)
Median(s) ==
  LET o == Sorted(s)
      n == Len(s)
  IN IF n % 2 = 1 THEN o[(n + 1) \div 2]
     ELSE (o[n \div 2] + o[n \div 2 + 1]) \div 2
SumOver(f, S) ==
  LET q == SelectSeq([i \in 1 .. DetectFft |-> i], LAMBDA i: i \in S)
  IN Total(Tuple([j \in DOMAIN q |-> f[q[j]]]))

(* near bins away from the best: noise takes a neighbour, which is a near  *)
(* tie.                                                                    *)
ResidualShort(x) == lag_word(x, N)
Residual(x) ==
  LET fine == lag_word(x, N)
      ambig == Turn \div N
  IN fine + ambig * div_round(lag_word(x, N \div 2) - fine, ambig)
(* The blocks' spectra at the exponent of the loudest.                     *)
Common(spectra, e_min) ==
  Tuple([b \in DOMAIN spectra |->
    LET shift == 2 * (spectra[b].exp - e_min)
        p == Power(spectra[b].bins)
    IN Tuple([k \in DOMAIN p |-> Floor(p[k], shift)])])
LeastExp(blocks) == -Largest([b \in DOMAIN blocks |-> -blocks[b].exp])
ToneBlocks == <<(2 * T * N) \div DetectFft, (T * N) \div DetectFft>>
Sums(pows, lo, hi) ==
  Tuple([k \in 1 .. DetectFft |->
           Total(Tuple([b \in 1 .. hi - lo + 1 |-> pows[lo + b - 1][k]]))])
Windows(pows) ==
  Tuple([o \in 1 .. Len(pows) - ToneBlocks[1] - ToneBlocks[2] + 1 |->
           <<Sums(pows, o, o + ToneBlocks[1] - 1),
             Sums(pows, o + ToneBlocks[1],
                  o + ToneBlocks[1] + ToneBlocks[2] - 1)>>])
band == 2 .. DetectFft \div 2
rolled(j, sh) == {((k + sh) % DetectFft) + 1: k \in mask(j)}
contrast(all, sig, floor, j) ==
  (sig * Cardinality(band) * 16)
    \div ((Most(all - sig, 1) + (floor * ToneBlocks[j]) \div 100)
            * Cardinality(mask(1)))
Contrast(win, floor, j, sh) ==
  contrast(SumOver(win[j], band), SumOver(win[j], rolled(j, sh)), floor, j)
Metric(windows, floor, sh) ==
  Tuple([o \in DOMAIN windows |-> Contrast(windows[o], floor, 1, sh)
                                    * Contrast(windows[o], floor, 2, sh)])
Better(old, m, o, sh) ==
  IF m[o] > old.metric THEN [metric |-> m[o], off |-> o - 1, sh |-> sh]
  ELSE old
BestShift(windows, floor) ==
  LET max_shift == MaxCfo * (DetectFft \div N)
      pick(old, sh) == LET one(m) == Better(old, m, ArgLargest(m), sh)
                       IN one(Metric(windows, floor, sh))
  IN FoldLeft(pick, [metric |-> -1, off |-> 0, sh |-> 0],
              [i \in 1 .. 2 * max_shift + 1 |-> i - 1 - max_shift])
NoiseFloor(pows) == Median([b \in DOMAIN pows |-> SumOver(pows[b], band)])

Coarse(x, first, word) ==
  [found |-> TRUE, sample |-> first,
   word |-> word + Residual(derotate(
     SubSeq(x, first + 1, Least(Len(x), first + 2 * T * N)), word, 0))]
_detect_newman(x, near) ==
  LET aligned(spectra) == Common(spectra, LeastExp(spectra))
      search(pows) == BestShift(Windows(pows), NoiseFloor(pows))
      take(b) ==
        IF b.metric < ToneThreshold * ToneThreshold THEN [found |-> FALSE]
        ELSE Coarse(x, b.off * DetectFft,
                    (b.sh + near) * (Turn \div DetectFft))
  IN IF Len(x) \div DetectFft < ToneBlocks[1] + ToneBlocks[2]
     THEN [found |-> FALSE]
     ELSE take(search(aligned(Spectra(x))))

-----------------------------------------------------------------------------
(* The Zadoff-Chu symbol: the correlation with its coefficients, the parts *)
(* of a group added as they are and the groups by their magnitude; the     *)
(* code's shifts between the factors keep its products within a word.      *)
zc_kernel == Repeated(Waveform(Channel, [j \in DOMAIN Channel |->
  LET z == zc_seq(ZcRoot, Len(Channel))[j]
  IN <<div_round(z[1] * One, Amplitude), div_round(z[2] * One, Amplitude)>>]),
  ZcGroup)
Energy(x) == Tuple([i \in DOMAIN x |-> x[i][1] * x[i][1] + x[i][2] * x[i][2]])
zc_threshold(cc, peak) ==
  LET floor == Total(cc) \div Len(cc) + 1
      ptf == (peak * 16) \div floor
  IN IF ptf < 56
     THEN Least(ZcThreshold + (ZcThreshold * (56 - ptf)) \div 32,
                (ZcThreshold * 9) \div 4)
     ELSE ZcThreshold
preamble_len == Tiles * N
Magnitude(a, b) == Most(a, b) + Least(a, b) \div 2
Against(x, k) ==
  Tuple([n \in 1 .. Len(x) - Len(k) + 1 |->
    Magnitude(
      Abs(rshift_round(Total(Tuple([i \in DOMAIN k |->
            x[n + i - 1][1] * k[i][1] + x[n + i - 1][2] * k[i][2]])), Q)),
      Abs(rshift_round(Total(Tuple([i \in DOMAIN k |->
            x[n + i - 1][2] * k[i][1] - x[n + i - 1][1] * k[i][2]])), Q)))])
Groups == Tiles \div ZcGroup
Grouped(mag) ==
  Tuple([n \in 1 .. Len(mag) - (Groups - 1) * ZcGroup * N |->
           Total([g \in 1 .. Groups |-> mag[n + (g - 1) * ZcGroup * N]])])
RunningEnergy(energy) ==
  Tuple([n \in 1 .. Len(energy) - preamble_len + 1 |->
           Total(SubSeq(energy, n, n + preamble_len - 1))])
Metric2(cc, we, ref_energy) ==
  Tuple([n \in DOMAIN cc |->
           (cc[n] * cc[n] * 16)
             \div Most(((we[n] \div 16) * Groups * ref_energy) \div 2 ^ Q, 1)])
Passing(m, thr, idx, w) ==
  [metric |-> IF m >= thr * thr THEN m ELSE -1, idx |-> idx - 1, word |-> w]
Hypothesis(cc, we, w) ==
  LET at(m, j) == Passing(m[j], zc_threshold(cc, cc[j]), j, w)
      judge(m) == at(m, ArgLargest(m))
  IN judge(Metric2(cc, we, Total(Energy(zc_kernel)) \div 2 ^ Q))
FineWord(x, idx, word) ==
  word + lag_word(derotate(SubSeq(x, idx + 1, idx + preamble_len), word, 0), N)
_detect_zc(x) ==
  LET higher(old, new) == IF new.metric > old.metric THEN new ELSE old
      search(we) ==
        FoldLeft(LAMBDA old, w: higher(old, Hypothesis(
                   Grouped(Against(x, derotate(zc_kernel, -w, 0))), we, w)),
                 [metric |-> -1, idx |-> 0, word |-> 0], ZcHyps)
      take(b) ==
        IF b.metric < 0 THEN [found |-> FALSE]
        ELSE [found |-> TRUE, word |-> FineWord(x, b.idx, b.word),
              sample |-> b.idx - CyclicPrefix + SymbolLen]
  IN IF Len(x) < preamble_len + CyclicPrefix THEN [found |-> FALSE]
     ELSE take(search(RunningEnergy(Energy(x))))
_detect(x, near) ==
  LET win == 3 * T * N + SymbolLen + 4 * N + DetectFft
      tuned_to(c) ==
        derotate(SubSeq(x, c.sample + 1, Least(Len(x), c.sample + win)),
                 c.word, 0)
      both(c, z) ==
        IF ~z.found THEN z
        ELSE [found |-> TRUE, sample |-> c.sample + z.sample,
              word |-> c.word + z.word]
      after(c) == IF ~c.found THEN c ELSE both(c, _detect_zc(tuned_to(c)))
  IN after(_detect_newman(x, near))

-----------------------------------------------------------------------------
(* Channel estimates between the pilots. *)
interp == Tuple([c \in DOMAIN Channel |->
  LET pk == [p \in DOMAIN Pilots |-> Channel[Pilots[p]]]
      n == Len(pk)
      hi == SelectInSeq(pk, LAMBDA k: k >= Channel[c])
  IN CASE hi = 1 -> <<1, 1, 0>>
       [] hi = 0 -> <<n, n, 0>>
       [] OTHER -> <<hi - 1, hi, ((Channel[c] - pk[hi - 1]) * 2 ^ Q)
                                   \div (pk[hi] - pk[hi - 1])>>])
estimate(bins) ==
  LET hp == Tuple([p \in DOMAIN Pilots |->
              LET v == pilot_values[p]
              IN cmul(bins[Channel[Pilots[p]] + 1], <<v[1], -v[2]>>)])
      mix(a, b, w) == (a * (2 ^ Q - w) + b * w) \div 2 ^ Q
  IN Tuple([c \in DOMAIN Channel |->
       LET i == interp[c]
       IN <<mix(hp[i[1]][1], hp[i[2]][1], i[3]),
            mix(hp[i[1]][2], hp[i[2]][2], i[3])>>])

(* Soft values of one carrier, l the matched output and t the reference    *)
(* amplitude; and how far l is from the nearest point.                     *)
soft(l, t, mu) ==
  CASE mu = 1 -> <<l[1]>>
    [] mu = 2 -> <<l[1], l[2]>>
    [] mu = 4 -> <<l[1], t - Abs(l[1]), l[2], t - Abs(l[2])>>
residual(l, t, mu) ==
  LET off(v) == IF mu = 2 THEN Abs(Abs(v) - t)
                ELSE Least(Abs(Abs(v) - t \div 2),
                           Abs(Abs(v) - (t + t \div 2)))
  IN IF mu = 1 THEN Abs(l[2]) ELSE off(l[1]) + off(l[2])

(* The spectrum of the symbol at pos under one frequency hypothesis.       *)
Folded(d) ==
  LET at(t, i) == d[CyclicPrefix + (t - 1) * N + i]
  IN Tuple([i \in 1 .. N |->
       <<Total([t \in 1 .. Tiles |-> at(t, i)[1]]),
         Total([t \in 1 .. Tiles |-> at(t, i)[2]])>>])
InChannel(power) ==
  Total(Tuple([c \in DOMAIN Channel |-> power[Channel[c] + 1]]))
hypothesis(x, pos, word, k) ==
  LET of(s) == [e |-> InChannel(Power(s.bins)), bins |-> s.bins,
                exp |-> s.exp, k |-> k]
  IN of(fft_bfp(Folded(derotate(SubSeq(x, pos + 1, pos + SymbolLen), word,
                                (word * pos) % Turn)), Target))
Chosen(tried, e_min) ==
  tried[ArgLargest([i \in DOMAIN tried |->
                      Floor(tried[i].e, 2 * (tried[i].exp - e_min))])]
Matched(y, h) == <<y[1] * h[1] + y[2] * h[2], y[2] * h[1] - y[1] * h[2]>>
Products(bins, h) ==
  Tuple([i \in DOMAIN DataCarriers |->
           Matched(bins[Channel[DataCarriers[i]] + 1], h[DataCarriers[i]])])
Gains(h) == Power(Tuple([i \in DOMAIN DataCarriers |-> h[DataCarriers[i]]]))
Reference(l, h2) ==
  (Total([i \in DOMAIN l |-> Abs(l[i][1]) + Abs(l[i][2])]) * 256)
    \div (2 * Most(Total(h2), 1))
SoftOf(l, h2, ratio, mu) ==
  LET t(i) == (h2[i] * ratio) \div 256
  IN [llr |-> Joined([i \in DOMAIN l |-> soft(l[i], t(i), mu)]),
      rho |-> Tuple([i \in DOMAIN l |->
                residual(l[i], t(i), mu) \div Most(isqrt(h2[i]), 1)])]
_demod_symbol(x, pos, cfo_word, mu, window) ==
  LET of(l, h2) == SoftOf(l, h2, Reference(l, h2), mu)
      read(s, h) == of(Products(s.bins, h), Gains(h))
                      @@ [exp |-> s.exp, hyp |-> s.k]
      take(s) == read(s, estimate(s.bins))
      pick(tried) == take(Chosen(tried, LeastExp(tried)))
  IN pick(Tuple([i \in DOMAIN window |->
                   hypothesis(x, pos, cfo_word + SearchWords[window[i]],
                              window[i])]))

(* WeightAcc: what each carrier and each symbol is worth.                  *)
AccumulateAsItComes(acc, rho, exp) ==
  [acc |-> IF acc.sym = <<>> THEN rho
           ELSE Tuple([k \in DOMAIN rho |-> acc.acc[k] + rho[k]]),
   exp |-> IF acc.sym = <<>> THEN exp ELSE Least(acc.exp, exp),
   sym |-> Append(acc.sym, <<Total(rho), exp>>)]
Accumulate(acc, rho, exp) ==
  LET sums == Append(acc.sym, <<Total(rho), exp>>)
  IN CASE acc.sym = <<>> -> [acc |-> rho, exp |-> exp, sym |-> sums]
       [] acc.sym # <<>> /\ exp < acc.exp ->
            [acc |-> Tuple([k \in DOMAIN rho |->
                       Floor(acc.acc[k], acc.exp - exp) + rho[k]]),
             exp |-> exp, sym |-> sums]
       [] OTHER -> [acc |-> Tuple([k \in DOMAIN rho |->
                              acc.acc[k] + Floor(rho[k], exp - acc.exp)]),
                    exp |-> acc.exp, sym |-> sums]
worth(med, v) ==
  IF v <= 0 THEN 2 ^ Q
  ELSE LET q == (med * 2 ^ Q) \div v
       IN IF q >= 2 ^ Q THEN 2 ^ Q
          ELSE Most((q * q) \div 2 ^ Q, 2 ^ Q \div 64)
Middle(s) == Sorted(s)[Len(s) \div 2 + 1]
weights(acc) ==
  LET e_min == -Largest([s \in DOMAIN acc.sym |-> -acc.sym[s][2]])
      m == Tuple([s \in DOMAIN acc.sym |->
                    Floor(acc.sym[s][1], acc.sym[s][2] - e_min)])
  IN [sym |-> Tuple([s \in DOMAIN m |-> worth(Middle(m), m[s])]),
      car |-> Tuple([k \in DOMAIN acc.acc |->
                       worth(Middle(acc.acc), acc.acc[k])])]
weighted(arr, w, mu) ==
  LET n_car == Len(w.car)
  IN Tuple([i \in DOMAIN arr |->
       LET s == (i - 1) \div (n_car * mu) + 1
           k == (((i - 1) \div mu) % n_car) + 1
       IN rshift_round(arr[i] * ((w.sym[s] * w.car[k]) \div 2 ^ Q), Q)])

(* A block of symbols, followed from search word to neighbouring word.     *)
Window(hyp) ==
  IF hyp = 0 THEN [i \in DOMAIN SearchWords |-> i]
  ELSE LET lo == Most(1, hyp - 2)
       IN [i \in 1 .. Least(Len(SearchWords), hyp + 2) - lo + 1 |-> lo + i - 1]
AddSymbol(st, d) ==
  [raw |-> Append(st.raw, d.llr), exps |-> Append(st.exps, d.exp),
   rhos |-> Append(st.rhos, d.rho),
   acc |-> Accumulate(st.acc, d.rho, d.exp), hyp |-> d.hyp]
AtOneScale(raw, exps, e_min) ==
  Joined([k \in DOMAIN raw |->
            [i \in DOMAIN raw[k] |-> Floor(raw[k][i], 2 * (exps[k] - e_min))]])
Block(st, e_min, mu) ==
  [arr |-> weighted(AtOneScale(st.raw, st.exps, e_min), weights(st.acc), mu),
   scale |-> 2 * e_min, hyp |-> st.hyp, acc |-> st.acc, rhos |-> st.rhos,
   exps |-> st.exps]
_demod_block(x, start, cfo_word, mu, hyp) ==
  LET step(st, k) ==
        AddSymbol(st, _demod_symbol(x, start + (k - 1) * SymbolLen, cfo_word,
                                    mu, Window(st.hyp)))
      close(st) ==
        Block(st, -Largest([k \in DOMAIN st.exps |-> -st.exps[k]]), mu)
  IN close(FoldLeft(step, [raw |-> <<>>, exps |-> <<>>, rhos |-> <<>>,
                           acc |-> [acc |-> <<>>, exp |-> 0, sym |-> <<>>],
                           hyp |-> hyp],
                    [k \in 1 .. SymbolsOf |-> k]))

-----------------------------------------------------------------------------
(* Soft values for the decoder, of six bits, or eight for 16-QAM.          *)
Peak(arr) == Largest([i \in DOMAIN arr |-> Abs(arr[i])])
_quantize(arr, mu) ==
  LET bits == IF mu = 4 THEN 7 ELSE 5
      shift == Most(0, BitLength(Peak(arr)) - bits)
      top == 2 ^ bits - 1
  IN Tuple([i \in DOMAIN arr |-> Most(-top, Least(top, Floor(arr[i], shift)))])

(* A temperature from the header, whose bits are known once it is decoded. *)
_known_ref(b) == [i \in DOMAIN encode(b) |-> 2 * encode(b)[i] - 1]
_fit_alpha(h, b) ==
  LET ref == Tuple(_known_ref(b))
      shift == Most(0, BitLength(Peak(h)) - 8)
      lx == Tuple([i \in DOMAIN ref |-> Floor(h[i], shift) * ref[i]])
      n == Len(lx)
      m == Total(lx)
      den == n * Total(Tuple([i \in DOMAIN lx |-> lx[i] * lx[i]])) - m * m
  IN [alpha |-> IF den <= 0 \/ m <= 0 THEN 0
                ELSE Most(((2 * m * n) * 2 ^ 12) \div den, 1),
      shift |-> shift]
_calibrated_llrs(d, scale, fit, header_scale) ==
  LET shift == scale - header_scale - fit.shift
      value(v) == (fit.alpha * Shifted(v, -shift)) \div 2 ^ 10
      sign(v) == IF v > 0 THEN 1 ELSE IF v < 0 THEN -1 ELSE 0
      top == Len(RecalRom)
  IN Tuple([i \in DOMAIN d |->
       LET v == value(d[i])
       IN sign(v) * RecalRom[Least(Abs(v) \div 4, top - 1) + 1]])

(* Moments of a block per column, a symbol weighted by its gain.           *)
_snr_block_moments(arr, ref, cap) ==
  LET shift == Most(0, BitLength(Peak(arr)) - 4)
      hf == Tuple([i \in DOMAIN ref |-> Floor(arr[i], shift)])
      row(s) == (s - 1) * cap
      g == Tuple([s \in 1 .. Len(ref) \div cap |->
             Total([c \in 1 .. cap |-> Abs(hf[row(s) + c])]) \div cap])
      keep == SelectSeq([s \in DOMAIN g |-> s], LAMBDA s: g[s] > 0)
      s_c(c) == Total(Tuple([j \in DOMAIN keep |->
                  g[keep[j]] * hf[row(keep[j]) + c] * ref[row(keep[j]) + c]]))
      p_c(c) == Total(Tuple([j \in DOMAIN keep |->
                  hf[row(keep[j]) + c] * hf[row(keep[j]) + c]]))
      w == Total(Tuple([j \in DOMAIN keep |-> g[keep[j]] * g[keep[j]]]))
      num == Total(Tuple([c \in 1 .. cap |-> s_c(c) * s_c(c)]))
      den == w * Total(Tuple([c \in 1 .. cap |-> p_c(c)])) - num
  IN IF Len(keep) < 2 \/ num <= 0 \/ den <= 0 THEN <<0, 0>> ELSE <<num, den>>
_log2_q4(v) ==
  LET bl == BitLength(v)
      mant == IF bl >= 5 THEN (v \div 2 ^ (bl - 5)) % 16
              ELSE (v * 2 ^ (5 - bl)) % 16
  IN (bl - 1) * 16 + <<0, 1, 3, 4, 5, 6, 7, 8, 9, 10, 11, 12, 13, 14, 15,
                       15>>[mant + 1]
_estimate_snr(blocks) ==
  LET m == Tuple([i \in DOMAIN blocks |->
             _snr_block_moments(blocks[i].arr, blocks[i].ref, blocks[i].cap)])
      num == Total([i \in DOMAIN m |-> m[i][1]])
      den == Total([i \in DOMAIN m |-> m[i][2]])
  IN IF num <= 0 \/ den <= 0 THEN <<>> ELSE <<_log2_q4(num) - _log2_q4(den)>>

-----------------------------------------------------------------------------
Init ==
  /\ session \in Sessions
  /\ rec = <<>> /\ samples = <<>> /\ stage = "idle" /\ tuned = <<0, 0>>
  /\ last_hyp = 0 /\ head = <<>> /\ data = <<>> /\ decoded = <<>>
  /\ snr = <<>> /\ words = <<>>

(* receive: the carriers are taken out, *)
TakeIn(f, e) ==
  rec' = f /\ samples' = e.samples /\ words' = e.words /\ stage' = "heard"
Excise ==
  /\ stage \in {"idle", "done", "lost"} /\ session # <<>>
  /\ TakeIn(Head(session), _excise(Heard(Head(session))))
  /\ session' = Tail(session)
  /\ decoded' = <<>> /\ head' = <<>> /\ data' = <<>> /\ snr' = <<>>
  /\ UNCHANGED <<tuned, last_hyp>>

(* the frame found and the tracker reset, *)
TuneTo(d) ==
  IF ~d.found
  THEN stage' = "lost" /\ UNCHANGED <<tuned, last_hyp, samples>>
  ELSE /\ stage' = "tuned" /\ tuned' = <<d.sample, d.word>> /\ last_hyp' = 0
       /\ samples' = samples \o [i \in 1 .. SymbolLen |-> Zero]
Detect ==
  /\ stage = "heard"
  /\ TuneTo(_detect(samples, rec.near))
  /\ UNCHANGED <<session, rec, head, data, decoded, snr, words>>

(* the header's symbols demodulated and decoded, and checked, *)
Demod(pos, mu) == _demod_block(samples, pos, tuned[2], mu, last_hyp)
Fits(pos) == pos + SymbolsOf * SymbolLen <= Len(samples)
TakeHead(d, b) ==
  /\ head' = d /\ last_hyp' = d.hyp /\ decoded' = <<b>>
  /\ stage' = IF b = HeadSent(rec) THEN "head" ELSE "lost"
DemodHead ==
  LET decode(d) == TakeHead(d, viterbi_decode_int(_quantize(d.arr, 1)))
  IN /\ stage = "tuned"
     /\ IF Fits(tuned[1]) THEN decode(Demod(tuned[1], 1))
        ELSE stage' = "lost" /\ UNCHANGED <<head, last_hyp, decoded>>
     /\ UNCHANGED <<session, rec, samples, tuned, data, snr, words>>

(* and the data block with what the header told.                           *)
DataSoft(d, fit) ==
  IF rec.calibrate /\ rec.mu <= 2 /\ fit.alpha # 0
  THEN _calibrated_llrs(d.arr, d.scale, fit, head.scale)
  ELSE _quantize(d.arr, rec.mu)
Known(arr, b, mu) ==
  [arr |-> arr, ref |-> Tuple(_known_ref(b)), cap |-> Len(DataCarriers) * mu]
TakeData(d, b) ==
  /\ data' = d /\ last_hyp' = d.hyp /\ decoded' = Append(decoded, b)
  /\ IF b = DataSent(rec)
     THEN /\ stage' = "done"
          /\ snr' = _estimate_snr(
               <<Known(head.arr, decoded[1], 1)>>
                 \o (IF rec.mu <= 2 THEN <<Known(d.arr, b, rec.mu)>>
                     ELSE <<>>))
     ELSE stage' = "lost" /\ snr' = <<>>
DemodData ==
  LET pos == tuned[1] + SymbolsOf * SymbolLen
      decode(d) == TakeData(d, viterbi_decode_int(
                     DataSoft(d, _fit_alpha(head.arr, decoded[1]))))
  IN /\ stage = "head"
     /\ IF Fits(pos) THEN decode(Demod(pos, rec.mu))
        ELSE stage' = "lost" /\ UNCHANGED <<data, last_hyp, decoded, snr>>
     /\ UNCHANGED <<session, rec, samples, tuned, head, words>>

Next == Excise \/ Detect \/ DemodHead \/ DemodData
Spec == Init /\ [][Next]_vars

-----------------------------------------------------------------------------
(* A frame is found where it starts and tuned to what it was turned by,    *)
(* whichever neighbour the coarse search took, and its blocks come out as  *)
(* they were sent, however the oscillator drifts within reach of the       *)
(* tracker, wherever the last recording left that, and whatever the symbol *)
(* gains and the carrier hit are; a recording cut short is given up        *)
(* (FixedReceiver.receive).                                                *)
Received ==
  (stage # "idle" /\ rec.tones = <<>> /\ rec.late = 0) =>
    /\ stage \notin {"heard"} /\ rec.cut = 0 => stage # "lost"
    /\ stage \in {"tuned", "head", "done"} =>
         /\ tuned[1] = Start(rec)
         /\ Abs(tuned[2] - rec.cfo) <= 32
    /\ stage = "done" => decoded = <<HeadSent(rec), DataSent(rec)>>

(* The carriers taken out are those that lasted from end to end, to a      *)
(* sixteenth of a bin, and never the subcarriers of a frame (_find_tones). *)
Excised ==
  stage # "idle" =>
    /\ Len(words) = Len(rec.tones)
    /\ \A i \in DOMAIN words: \E j \in DOMAIN rec.tones:
         Abs(words[i] - rec.tones[j].word) <= Turn \div (16 * DetectFft)

(* The sum of a carrier's residuals is theirs at the exponent of the       *)
(* loudest symbol, less what was rounded away, in whatever order loud and  *)
(* soft symbols come; and the carrier another station sits on counts for   *)
(* less than any other (WeightAcc).                                        *)
Aligned(d) ==
  LET top == Largest(d.exps)
      exact(k) == Total([s \in DOMAIN d.rhos |->
                           d.rhos[s][k] * 2 ^ (top - d.exps[s])])
      lost == 2 ^ (top - d.acc.exp)
  IN \A k \in DOMAIN d.acc.acc:
       /\ d.acc.acc[k] * lost <= exact(k)
       /\ exact(k) <= (d.acc.acc[k] + Len(d.rhos)) * lost
Weighted ==
  /\ head # <<>> => Aligned(head)
  /\ data # <<>> => Aligned(data)
  /\ (data # <<>> /\ rec.hit # 0) =>
       LET w == weights(data.acc).car
           h == SelectInSeq(DataCarriers, LAMBDA c: c = rec.hit)
       IN \A k \in DOMAIN w \ {h}: w[k] > w[h]

(* Fading is not taken for noise: a frame nobody disturbs reads as a good  *)
(* one, however its symbols fade (_snr_block_moments).                     *)
Measured ==
  (stage = "done" /\ rec.hit = 0 /\ rec.tones = <<>>) =>
    /\ snr # <<>> /\ snr[1] >= 64
=============================================================================
