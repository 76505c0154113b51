------------------------------ MODULE SsbChain ------------------------------
(***************************************************************************)
(* The streaming filters of demoapp/sdr_driver.py: audio is made analytic, *)
(* raised to the rate of the radio and shifted, and taken back down, in    *)
(* whatever chunks the samples come.  Every filter carries state from one  *)
(* chunk to the next.  Samples are Gaussian integers, the taps are short   *)
(* and the oscillator has four phases; averages are left as sums.          *)
(***************************************************************************)
EXTENDS Integers, Sequences, SequencesExt

CONSTANTS
  Inputs,      \* audio streams
  Cuts,        \* lengths a chunk may have
  HilbertTaps, LowTaps,
  R1, R2, R3,  \* the factors of the rate
  Step         \* of the oscillator, in quarter turns

ChainAssumption == {R1, R2, R3, Step} \subseteq Nat \ {0}

VARIABLES
  input,       \* the stream
  taken,       \* samples of it handed over
  mod, dem,    \* the filters' states
  iq, audio    \* history: what came out so far

vars == <<input, taken, mod, dem, iq, audio>>

Zero == <<0, 0>>
Plus(a, b) == <<a[1] + b[1], a[2] + b[2]>>
Scaled(k, a) == <<k * a[1], k * a[2]>>
Written(s) == s \o <<>>
Sum(s) == FoldLeft(Plus, Zero, s)
Turned(a, k) ==
  CASE k % 4 = 0 -> a [] k % 4 = 1 -> <<-a[2], a[1]>>
    [] k % 4 = 2 -> <<-a[1], -a[2]>> [] OTHER -> <<a[2], -a[1]>>

(* _split_ratio: small factors for the filters, the rest for the cheap     *)
(* stage.                                                                  *)
SmallFactor(n) ==
  IF \E d \in 2 .. 5: n % d = 0
  THEN CHOOSE d \in 2 .. 5: n % d = 0 /\ \A e \in d + 1 .. 5: n % e # 0 ELSE 1
_split_ratio(ratio) ==
  LET r1 == SmallFactor(ratio)
      r2 == SmallFactor(ratio \div r1)
  IN <<r1, r2, (ratio \div r1) \div r2>>

-----------------------------------------------------------------------------
(* Each filter: its state and a chunk give what comes out and a new state. *)
(* FIR: the partial sums of the outputs to come.  Mutant: they are not     *)
(* carried over.                                                           *)
Quiet(taps) == [i \in 1 .. Len(taps) - 1 |-> Zero]
Filtered(taps, z, x) ==
  FoldLeft(LAMBDA st, v:
             [out |-> Append(st.out, Plus(Scaled(taps[1], v), st.z[1])),
              z |-> Written([i \in DOMAIN st.z |->
                       Plus(Scaled(taps[i + 1], v),
                            IF i < Len(st.z) THEN st.z[i + 1] ELSE Zero)])],
           [out |-> <<>>, z |-> z], x)
FIRForgetful(taps, z, x) == Filtered(taps, Quiet(taps), x)
FIR(taps, z, x) == Filtered(taps, z, x)
Delay(held, x) ==
  LET both == held \o x
  IN [out |-> SubSeq(both, 1, Len(x)),
      buf |-> SubSeq(both, Len(x) + 1, Len(both))]
Analytic(st, x) ==
  LET i == Delay(st.i, x)
      q == FIR(HilbertTaps, st.q, x)
  IN [out |-> Written([n \in DOMAIN x |-> Plus(i.out[n], Turned(q.out[n], 1))]),
      st |-> [i |-> i.buf, q |-> q.z]]
NCO(phase, step, x) ==
  [out |-> Written([n \in DOMAIN x |-> Turned(x[n], phase + step * (n - 1))]),
   phase |-> (phase + step * Len(x)) % 4]
FIRDecimator(factor, st, x) ==
  LET y == FIR(LowTaps, st.z, x)
      n == IF st.phase >= Len(x) THEN 0
           ELSE (Len(x) - st.phase + factor - 1) \div factor
  IN [out |-> [k \in 1 .. n |-> y.out[st.phase + factor * (k - 1) + 1]],
      st |-> [z |-> y.z, phase |-> st.phase + factor * n - Len(x)]]
BoxcarDecimator(factor, rem, x) ==
  LET all == rem \o x
      n == Len(all) \div factor
  IN [out |-> [k \in 1 .. n |->
                 Sum(SubSeq(all, (k - 1) * factor + 1, k * factor))],
      rem |-> SubSeq(all, n * factor + 1, Len(all))]
FIRInterpolator(factor, z, x) ==
  FIR([k \in DOMAIN LowTaps |-> factor * LowTaps[k]], z,
      [n \in 1 .. factor * Len(x) |->
         IF n % factor = 1 % factor THEN x[(n - 1) \div factor + 1] ELSE Zero])
ZOHInterpolator(factor, x) ==
  [n \in 1 .. factor * Len(x) |-> x[(n - 1) \div factor + 1]]

(* SSBModulator and SSBDemodulator. *)
Modulated(st, x) ==
  LET a == Analytic(st.analytic, x)
      u1 == FIRInterpolator(R1, st.up1, a.out)
      u2 == FIRInterpolator(R2, st.up2, u1.out)
      z == NCO(st.nco, Step, ZOHInterpolator(R3, u2.out))
  IN [out |-> z.out,
      st |-> [analytic |-> a.st, up1 |-> u1.z, up2 |-> u2.z, nco |-> z.phase]]
Demodulated(st, x) ==
  LET z == NCO(st.nco, 4 - (Step % 4), x)
      slow == BoxcarDecimator(R3, st.rem, z.out)
      half == FIRDecimator(R2, st.down2, Written(slow.out))
      low == FIRDecimator(R1, st.down3, Written(half.out))
  IN [out |-> Written([n \in DOMAIN low.out |-> low.out[n][1]]),
      st |-> [nco |-> z.phase, rem |-> slow.rem, down2 |-> half.st,
              down3 |-> low.st]]
FreshMod ==
  [analytic |-> [i |-> Written([k \in 1 .. (Len(HilbertTaps) - 1) \div 2 |->
                                  Zero]),
                 q |-> Written(Quiet(HilbertTaps))],
   up1 |-> Written(Quiet(LowTaps)), up2 |-> Written(Quiet(LowTaps)), nco |-> 0]
FreshDem ==
  LET fir == [z |-> Written(Quiet(LowTaps)), phase |-> 0]
  IN [nco |-> 0, rem |-> <<>>, down2 |-> fir, down3 |-> fir]

Init ==
  /\ input \in Inputs
  /\ taken = 0 /\ mod = FreshMod /\ dem = FreshDem
  /\ iq = <<>> /\ audio = <<>>

(* A chunk goes up, and what the radio has heard so far comes down in      *)
(* chunks of other lengths.                                                *)
Up ==
  \E n \in Cuts:
    /\ taken + n <= Len(input)
    /\ LET m == Modulated(mod, SubSeq(input, taken + 1, taken + n))
       IN mod' = m.st /\ iq' = iq \o m.out
    /\ taken' = taken + n
    /\ UNCHANGED <<input, dem, audio>>
Down ==
  \E n \in Cuts:
    /\ n <= Len(iq)
    /\ LET d == Demodulated(dem, SubSeq(iq, 1, n))
       IN dem' = d.st /\ audio' = audio \o d.out
    /\ iq' = SubSeq(iq, n + 1, Len(iq))
    /\ UNCHANGED <<input, taken, mod>>
Next == Up \/ Down
Spec == Init /\ [][Next]_vars
-----------------------------------------------------------------------------
(* The formulas: convolution, stuffing, holding, averaging over the whole  *)
(* stream.                                                                 *)
At(x, n) == IF n \in DOMAIN x THEN x[n] ELSE Zero
Convolved(taps, x) ==
  Written([n \in DOMAIN x |->
    Sum(Written([k \in DOMAIN taps |-> Scaled(taps[k], At(x, n - k + 1))]))])
Sampled(x, factor) ==
  Written([k \in 1 .. (Len(x) + factor - 1) \div factor |->
             x[factor * (k - 1) + 1]])
Stuffed(x, factor) ==
  Written([n \in 1 .. factor * Len(x) |->
     IF (n - 1) % factor = 0 THEN Scaled(factor, x[(n - 1) \div factor + 1])
     ELSE Zero])
Shifted(x, step) == Written([n \in DOMAIN x |-> Turned(x[n], step * (n - 1))])
WholeUp(x) ==
  LET half == (Len(HilbertTaps) - 1) \div 2
      a == Written([n \in DOMAIN x |->
             Plus(At(x, n - half), Turned(Convolved(HilbertTaps, x)[n], 1))])
      u == Convolved(LowTaps, Stuffed(Convolved(LowTaps, Stuffed(a, R1)), R2))
  IN Shifted(Written(ZOHInterpolator(R3, u)), Step)
WholeDown(x) ==
  LET z == Shifted(x, 4 - (Step % 4))
      b == Written([k \in 1 .. Len(z) \div R3 |->
                      Sum(SubSeq(z, R3 * (k - 1) + 1, R3 * k))])
      d == Sampled(Convolved(LowTaps, Sampled(Convolved(LowTaps, b), R2)), R1)
  IN Written([n \in DOMAIN d |-> d[n][1]])

(* In whatever chunks a stream goes through the filters, what comes out is *)
(* what the formulas give for the whole of it (the selftest's "chunked ==  *)
(* one-shot"); and the stages make up the rate.                            *)
ChunkFree ==
  LET sent == WholeUp(SubSeq(input, 1, taken))
      gone == Len(sent) - Len(iq)
  IN /\ gone >= 0 /\ iq = SubSeq(sent, gone + 1, Len(sent))
     /\ audio = WholeDown(SubSeq(sent, 1, gone))
     /\ \A ratio \in 1 .. 60:
          LET r == _split_ratio(ratio) IN r[1] * r[2] * r[3] = ratio
=============================================================================
