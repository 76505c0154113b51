----------------------------- MODULE FreqSearch -----------------------------
(***************************************************************************)
(* How the receivers find what is left of a frequency offset (ofdm.py,     *)
(* fixed/rx.py).  After the coarse bin: a wide but rough estimate, from    *)
(* the spectrum of the tones or from a short lag, says on which turn the   *)
(* precise phase over N samples lies.  In a symbol: a parabola through the *)
(* phases between few tiles, or for many tiles the best of a grid of       *)
(* hypotheses, of which a quarter of the symbol may shortlist some.        *)
(* Frequencies are counted in parts of a subcarrier spacing, phases in the *)
(* same parts of a turn.                                                   *)
(***************************************************************************)
EXTENDS Integers, Sequences, FiniteSetsExt, SequencesExt

CONSTANTS
  Stride,      \* bins of the long transform in a subcarrier spacing
  Sub,         \* parts in one of them
  CombBins,    \* _newman_preamble_bins
  CombPeriod,  \* STF_PERIOD_BINS
  Few,         \* tiles of a symbol with phases, and parts of their turn
  Circle,
  Many,        \* tiles of a symbol that is searched
  CosRom, RomSize,
  Hyps,        \* hypotheses, a quarter turn over the symbol apart
  Offsets      \* what a behaviour starts with, see Init

Bin == Stride * Sub
FreqAssumption ==
  /\ {Stride, Sub, CombPeriod, Hyps} \subseteq Nat \ {0}
  /\ Few > 3 /\ Circle % 2 = 0 /\ Bin % 2 = 0
  /\ RomSize = 4 * Many

VARIABLES case, answer
vars == <<case, answer>>

-----------------------------------------------------------------------------
Size(x) == IF x < 0 THEN -x ELSE x
Sum(f(_), S) == MapThenSumSet(f, S)
(* The angle of a phase, above minus half a turn and up to half.           *)
Angle(x, turn) ==
  LET r == x % turn IN IF r > turn \div 2 THEN r - turn ELSE r
(* a / b to the nearest, a tie to the even (np.round).                     *)
Nearest(a, b) ==
  LET up == (2 * a + b) \div (2 * b)
  IN IF (2 * a + b) % (2 * b) = 0 /\ up % 2 = 1 THEN up - 1 ELSE up
(* The precise estimate moved by whole turns next to the wide one, n / d.  *)
Unwrapped(fine, n, d) == fine + Nearest(n - fine * d, Bin * d) * Bin

(* The long transform of tones that are off by f: the main lobe of each,   *)
(* and what noise adds to one bin.                                         *)
Lobe(x) == IF Size(x) < 2 * Sub THEN (2 * Sub - Size(x)) ^ 2 ELSE 0
spectrum(f, bump) ==
  [j \in Int |->
     Sum(LAMBDA b: Lobe(j * Sub - b * Bin - f), CombBins)
       + (IF j = bump.bin THEN bump.size ELSE 0)]
max_off == (3 * Stride) \div 2
tone_score(s) ==
  [o \in -max_off .. max_off |-> Sum(LAMBDA b: s[b * Stride + o], CombBins)]
Peak(score) ==
  CHOOSE d \in DOMAIN score:
    /\ \A o \in DOMAIN score: score[o] <= score[d]
    /\ \A o \in DOMAIN score: o < d => score[o] < score[d]
(* The vertex of the parabola through the peak and its neighbours, as a    *)
(* fraction of parts.                                                      *)
Vertex(score, d) ==
  IF d \in {-max_off, max_off} THEN <<d * Sub, 1>>
  ELSE LET den == 2 * score[d] - score[d - 1] - score[d + 1]
       IN IF den = 0 THEN <<d * Sub, 1>>
          ELSE <<2 * d * Sub * den + Sub * (score[d + 1] - score[d - 1]),
                 2 * den>>
LagN(c) == Angle(c.f + c.fine, Bin)
FromPeak(c) ==
  LET score == tone_score(spectrum(c.f, c.bump))
      wide == Vertex(score, Peak(score))
  IN Unwrapped(LagN(c), wide[1], wide[2])

(* The short lag: a comb period is that much shorter, and so much rougher. *)
FromShortLag(c) ==
  LET wide == Angle(c.f + CombPeriod * c.short, CombPeriod * Bin)
  IN Unwrapped(LagN(c), wide, 1)

-----------------------------------------------------------------------------
(* Phases between the tiles of a symbol that turns by f from tile to tile, *)
(* each measured with an error of its own.                                 *)
max_step == 3
Pairs == {p \in (0 .. Few - 1) \X (0 .. Few - 1): p[2] - p[1] \in 1 .. max_step}
phase_diffs(c) ==
  [p \in Pairs |-> Angle((p[2] - p[1]) * c.f + c.err[p], Circle)]
Chain(d, target) == Sum(LAMBDA i: d[<<i, i + 1>>], 0 .. target - 1)
Leaps(d, target) ==
  Sum(LAMBDA i: d[<<i - 2, i>>],
      {i \in 2 .. target: (target - i) % 2 = 0})
    + (IF target % 2 = 1 THEN d[<<0, 1>>] ELSE 0)
PointsAt(d, target) ==
  (IF target <= max_step THEN <<<<target, d[<<0, target>>]>>>> ELSE <<>>)
    \o <<<<target, Chain(d, target)>>>>
    \o (IF target >= 2 THEN <<<<target, Leaps(d, target)>>>> ELSE <<>>)
Points(d) ==
  <<<<0, 0>>>> \o FlattenSeq([t \in 1 .. Few - 1 |-> PointsAt(d, t)])

(* The parabola of least squares through the points: its slope and its     *)
(* curvature, over the determinant of the normal equations.                *)
det3(a, b, c) ==
  a[1] * (b[2] * c[3] - b[3] * c[2]) - b[1] * (a[2] * c[3] - a[3] * c[2])
    + c[1] * (a[2] * b[3] - a[3] * b[2])
polyfit(pts) ==
  LET power(i, n) == IF n = 0 THEN 1 ELSE pts[i][1] ^ n
      s(n) == Sum(LAMBDA i: power(i, n), DOMAIN pts)
      r(n) == Sum(LAMBDA i: power(i, n) * pts[i][2], DOMAIN pts)
      col(n) == <<s(n), s(n + 1), s(n + 2)>>
      rhs == <<r(0), r(1), r(2)>>
  IN [b |-> det3(col(0), rhs, col(2)), c |-> det3(col(0), col(1), rhs),
      det |-> det3(col(0), col(1), col(2))]
TrackPhases(c) == polyfit(Points(phase_diffs(c)))

-----------------------------------------------------------------------------
(* The first tiles of a symbol that turns by half of g per tile of a grid  *)
(* step, turned back by hypothesis k and added up: tiles that fade, and    *)
(* vectors that noise adds.                                                *)
cos(p) == CosRom[p % RomSize]
sin(p) == CosRom[(p + (3 * RomSize) \div 4) % RomSize]
Middle == (Hyps - 1) \div 2
score(c, k, tiles) ==
  LET back(t) == (k - Middle) * t
      part(rom(_)) ==
        Sum(LAMBDA t: (IF t \in c.fade THEN 0 ELSE rom((c.g * t) \div 2 - back(t))),
            0 .. tiles - 1)
        + Sum(LAMBDA h: h.size * rom(h.phase - back(h.tile)),
              {h \in c.hits: h.tile < tiles})
  IN part(cos) ^ 2 + part(sin) ^ 2

Gate == 36                            \* COARSE_GATE_Q4
ranked(c) ==
  SortSeq([i \in 1 .. (Hyps + 3) \div 4 |->
             <<score(c, 4 * (i - 1), IF Many < 16 THEN 4 ELSE Many \div 4),
               4 * (i - 1)>>],
          LAMBDA x, y: x[1] > y[1] \/ (x[1] = y[1] /\ x[2] > y[2]))
Decisive(r) ==
  LET median == r[Len(r) \div 2 + 1][1]
  IN (r[1][1] * 16) \div (IF median = 0 THEN 1 ELSE median) >= Gate
Around(r) ==
  UNION {{k \in 0 .. Hyps - 1: k - r[i][2] \in -5 .. 5}: i \in 1 .. 3}
Shortlist(r) == IF Decisive(r) THEN Around(r) ELSE 0 .. Hyps - 1
Best(c, indices) ==
  LET of == [k \in indices |-> score(c, k, Many)]
  IN CHOOSE k \in indices: \A j \in indices:
       of[j] < of[k] \/ (of[j] = of[k] /\ k <= j)

-----------------------------------------------------------------------------
Init == case \in Offsets /\ answer = [stage |-> "asked"]

(* _estimate_residual_cfo of either modem,                                 *)
Residual ==
  /\ case.kind \in {"tones", "comb"} /\ answer.stage = "asked"
  /\ answer' = [stage |-> "done",
                f |-> IF case.kind = "tones" THEN FromPeak(case)
                      ELSE FromShortLag(case)]
  /\ UNCHANGED case

(* _demodulate_signal of a symbol of few tiles,                            *)
Track ==
  /\ case.kind = "tiles" /\ answer.stage = "asked"
  /\ answer' = [stage |-> "done", fit |-> TrackPhases(case)]
  /\ UNCHANGED case

(* and of many: _coarse_freq_window, then the hypotheses it leaves.        *)
Coarse ==
  /\ case.kind = "grid" /\ answer.stage = "asked"
  /\ answer' = [stage |-> "listed", indices |-> Shortlist(ranked(case))]
  /\ UNCHANGED case
Search ==
  /\ answer.stage = "listed"
  /\ answer' = [stage |-> "done", k |-> Best(case, answer.indices)]
  /\ UNCHANGED case

Next == Residual \/ Track \/ Coarse \/ Search
Spec == Init /\ [][Next]_vars

-----------------------------------------------------------------------------
(* The estimate is the offset with the error of the precise phase only:    *)
(* neither a coarse bin that is one off, nor a peak between two bins, nor  *)
(* noise on the spectrum or on the short lag puts it on a wrong turn.      *)
OnTheRightTurn ==
  (answer.stage = "done" /\ case.kind \in {"tones", "comb"}) =>
    answer.f = case.f + case.fine

(* The phase taken out of a tile is its own to a sixteenth of a turn, so   *)
(* the tiles add up.                                                       *)
TilesAddUp ==
  (answer.stage = "done" /\ case.kind = "tiles") =>
    \A i \in 1 .. Few - 1:
      Size(answer.fit.b * i + answer.fit.c * i * i - answer.fit.det * i * case.f)
        * 16 <= answer.fit.det * Circle

(* The shortlist costs nothing: what the quick look leaves holds the       *)
(* hypothesis the whole grid would give.                                   *)
GateLossless ==
  (answer.stage = "done" /\ case.kind = "grid") =>
    score(case, answer.k, Many)
      = score(case, Best(case, 0 .. Hyps - 1), Many)
=============================================================================
