----------------------------- MODULE FixedPoint -----------------------------
(***************************************************************************)
(* The integer arithmetic of the fixed-point chain (ofdm_phy/fixed: fxp.py,*)
(* fft.py, dsp.py), with the widths as parameters: a coefficient is an     *)
(* integer over 2^Q, a phase an integer over Turn, a sample a pair of an   *)
(* in-phase and a quadrature component.  A right shift rounds down, as in  *)
(* the code.                                                               *)
(***************************************************************************)
EXTENDS Integers, Sequences, SequencesExt

CONSTANTS
  Q,           \* fraction bits of a coefficient (15)
  Turn,        \* PHASE_ONE
  CosRom,      \* cosine of 0 .. RomSize - 1 of RomSize parts of a turn
  RomSize,
  AtanRom      \* arcs whose tangents are 1, 1/2, 1/4, ..., over Turn

(* A sequence, written out. *)
Tuple(s) == s \o <<>>

RECURSIVE TotalOf(_, _, _)
TotalOf(s, lo, hi) ==
  CASE lo > hi -> 0
    [] lo = hi -> s[lo]
    [] OTHER -> LET mid == (lo + hi) \div 2
                IN TotalOf(s, lo, mid) + TotalOf(s, mid + 1, hi)
Total(s) == TotalOf(s, 1, Len(s))

RECURSIVE LargestOf(_, _, _)
LargestOf(s, lo, hi) ==
  IF lo = hi THEN s[lo]
  ELSE LET mid == (lo + hi) \div 2
           a == LargestOf(s, lo, mid)
           b == LargestOf(s, mid + 1, hi)
       IN IF a >= b THEN a ELSE b
Largest(s) == LargestOf(s, 1, Len(s))
(* The first position of the largest element.                              *)
ArgLargest(s) == LET m == Largest(s) IN SelectInSeq(s, LAMBDA v: v = m)

Abs(x) == IF x < 0 THEN -x ELSE x
Least(a, b) == IF a < b THEN a ELSE b
Most(a, b) == IF a > b THEN a ELSE b

-----------------------------------------------------------------------------
BitLength(n) ==
  IF n = 0 THEN 0 ELSE CHOOSE b \in 1 .. 31: n \div 2 ^ (b - 1) = 1
Shifted(x, left) ==
  IF left >= 0 THEN x * 2 ^ left ELSE x \div 2 ^ (-left)
sat(x, bits) == Most(-(2 ^ (bits - 1)), Least(2 ^ (bits - 1) - 1, x))
rshift_round(x, shift) ==
  IF shift <= 0 THEN x * 2 ^ (-shift)
  ELSE (x + 2 ^ (shift - 1)) \div 2 ^ shift
cmul(a, b) ==
  <<rshift_round(a[1] * b[1] - a[2] * b[2], Q),
    rshift_round(a[1] * b[2] + a[2] * b[1], Q)>>
block_exponent(x, target_bits) ==
  LET m == Most(1, Largest([i \in DOMAIN x |-> Most(Abs(x[i][1]),
                                                     Abs(x[i][2]))]))
  IN target_bits - BitLength(m)

RECURSIVE RootIn(_, _, _)
RootIn(v, lo, hi) ==
  IF lo = hi THEN lo
  ELSE LET mid == (lo + hi + 1) \div 2
       IN IF mid * mid <= v THEN RootIn(v, mid, hi) ELSE RootIn(v, lo, mid - 1)
isqrt(v) == RootIn(v, 0, 46340)

(* Signed division to the nearest. *)
div_round(a, b) ==
  IF a >= 0 THEN (a + b \div 2) \div b ELSE -((b \div 2 - a) \div b)

-----------------------------------------------------------------------------
(* The oscillator's table, and the twiddle of k parts in n of a turn.      *)
Cosine(i) == CosRom[i % RomSize]
Sine(i) == CosRom[(i + (3 * RomSize) \div 4) % RomSize]
twiddle(n, k) ==
  LET i == k * (RomSize \div n) IN <<Cosine(i), -Sine(i)>>

bit_reverse(n) ==
  LET bits == BitLength(n) - 1
      rev(i) == Total([b \in 1 .. bits |->
                         ((i \div 2 ^ (b - 1)) % 2) * 2 ^ (bits - b)])
  IN Tuple([i \in 1 .. n |-> rev(i - 1) + 1])

(* A butterfly halves what it adds: over its stages a transform of n       *)
(* points is divided by n.                                                 *)
fft_fixed(x) ==
  LET n == Len(x)
      rev == bit_reverse(n)
      stage(y, half) ==
        Tuple([i \in 1 .. n |->
          LET place == (i - 1) % (2 * half)
              lo == IF place < half THEN i ELSE i - half
              t == cmul(y[lo + half], twiddle(2 * half, place % half))
          IN IF place < half
             THEN <<rshift_round(y[lo][1] + t[1], 1),
                    rshift_round(y[lo][2] + t[2], 1)>>
             ELSE <<rshift_round(y[lo][1] - t[1], 1),
                    rshift_round(y[lo][2] - t[2], 1)>>])
  IN FoldLeft(stage, Tuple([i \in 1 .. n |-> x[rev[i]]]),
              [s \in 1 .. BitLength(n) - 1 |-> 2 ^ (s - 1)])
conj(x) == [i \in DOMAIN x |-> <<x[i][1], -x[i][2]>>]
ifft_fixed(x) == conj(fft_fixed(Tuple(conj(x))))

(* In block floating point: the spectrum and its exponent.                 *)
fft_bfp(x, target_bits) ==
  LET exp == block_exponent(x, target_bits)
      scale(v) == IF exp >= 0 THEN v * 2 ^ exp ELSE rshift_round(v, -exp)
  IN [bins |-> fft_fixed(Tuple([i \in DOMAIN x |->
                                  <<scale(x[i][1]), scale(x[i][2])>>])),
      exp |-> exp]

-----------------------------------------------------------------------------
(* Sample n is turned back by start + n * word. *)
derotate(x, word, start) ==
  LET turned(i) ==
        LET at == ((start + word * (i - 1)) % Turn) \div (Turn \div RomSize)
        IN cmul(x[i], <<Cosine(at), -Sine(at)>>)
  IN Tuple([i \in DOMAIN x |-> turned(i)])

(* The angle of x + jy, within half a turn either way.                     *)
RECURSIVE vectored(_, _, _, _)
vectored(x, y, angle, i) ==
  IF i > Len(AtanRom) THEN angle
  ELSE LET down == 2 ^ (i - 1)
       IN IF y > 0
          THEN vectored(x + (y \div down), y - (x \div down),
                        angle + AtanRom[i], i + 1)
          ELSE vectored(x - (y \div down), y + (x \div down),
                        angle - AtanRom[i], i + 1)
cordic_atan2(y, x) ==
  CASE x >= 0 -> vectored(x, y, 0, 1)
    [] x < 0 /\ y >= 0 -> vectored(y, -x, Turn \div 4, 1)
    [] OTHER -> vectored(-y, x, -(Turn \div 4), 1)

(* The correlation of a run of samples with itself lag samples later, as   *)
(* the angle it has turned by in one sample.                               *)
lag_word(x, lag) ==
  LET n == Len(x) - lag
      rr == Total(Tuple([i \in 1 .. n |-> x[i][1] * x[i + lag][1]
                                           + x[i][2] * x[i + lag][2]]))
      ri == Total(Tuple([i \in 1 .. n |-> x[i][1] * x[i + lag][2]
                                           - x[i][2] * x[i + lag][1]]))
  IN div_round(cordic_atan2(ri, rr), lag)

-----------------------------------------------------------------------------
(* A real second-order notch, radius r over 2^Q, run over x[lo .. hi]. *)
RECURSIVE notch_run(_, _, _, _, _)
notch_run(x, notch, lo, hi, st) ==
  IF lo = hi
  THEN LET acc == (x[lo] + st.x2) * 2 ^ Q + notch.b1 * st.x1
                    + notch.a1 * st.y1 - notch.a2 * st.y2
           y == sat(rshift_round(acc, Q), 16)
       IN [out |-> <<y>>,
           st |-> [x1 |-> x[lo], x2 |-> st.x1, y1 |-> y, y2 |-> st.y1]]
  ELSE LET mid == (lo + hi) \div 2
           one == notch_run(x, notch, lo, mid, st)
           two == notch_run(x, notch, mid + 1, hi, one.st)
       IN [out |-> one.out \o two.out, st |-> two.st]
NotchAt(word, r) ==
  LET c == Cosine((word % Turn) \div (Turn \div RomSize))
  IN [b1 |-> -2 * c, a1 |-> rshift_round(2 * r * c, Q),
      a2 |-> rshift_round(r * r, Q)]
notch_words(x, words, r) ==
  FoldLeft(LAMBDA y, w: notch_run(y, NotchAt(w, r), 1, Len(y),
                                  [x1 |-> 0, x2 |-> 0, y1 |-> 0,
                                   y2 |-> 0]).out,
           x, words)
=============================================================================
