------------------------------ MODULE PhyCases ------------------------------
(***************************************************************************)
(* Values for the constants of BlockCodec: the shipped convolutional code  *)
(* and masks (coding.py), small codes of the same construction, and the    *)
(* packets that go with each.                                              *)
(***************************************************************************)
EXTENDS Integers, Sequences, FiniteSets

MCQthBases == <<18, 18, 10, 10, 24, 24>>

Small(mask, carriers, d) ==
  [kind |-> "cc", K |-> 3, taps |-> <<{0, 1, 2}, {0, 2}, {0, 1, 2}>>,
   mask |-> mask, carriers |-> carriers, distance |-> d, fades |-> FALSE,
   counted |-> FALSE]
Shipped(mask, d, counted) ==
  [kind |-> "cc", K |-> 7,
   taps |-> <<{0, 1, 3, 4, 6}, {0, 3, 4, 5, 6}, {0, 2, 4, 5, 6}>>,
   mask |-> mask, carriers |-> 16, distance |-> d, fades |-> ~counted,
   counted |-> counted]
R13 == <<<<1>>, <<1>>, <<1>>>>
R12 == <<<<1, 1>>, <<1, 0>>, <<0, 1>>>>
R23 == <<<<1, 1>>, <<1, 0>>, <<0, 0>>>>
R34 == <<<<1, 1, 1>>, <<1, 0, 0>>, <<0, 0, 0>>>>
Ira == [kind |-> "ldpc", k_max |-> 4, iters |-> 4, carriers |-> 4,
        checks |-> <<{1, 2}, {3}, {1, 4}, {2, 3}, {4}, {1, 3}, {2, 4}>>,
        distance |-> 3, fades |-> FALSE, counted |-> FALSE]

Raw(n) == {[kind |-> "raw", bits |-> b]: b \in [1 .. n -> {0, 1}]}
HeaderOf(typ, mod, spd) ==
  [kind |-> "header", ver |-> 1, typ |-> typ, mod |-> mod, spd |-> spd,
   len |-> 90]
Corners == {0, 1}
Beacons ==
  {[kind |-> "beacon", call |-> c,
    qth |-> [i \in 1 .. 6 |-> IF i \in top THEN MCQthBases[i] - 1 ELSE i % 2]]:
   c \in {<<21, 19, 1, 11>>, <<37, 0, 12, 1, 37>>}, top \in SUBSET (1 .. 6)}
Datas ==
  {[kind |-> "data", reserved |-> r, payload |-> p]:
   r \in {0, 1048575, 74565}, p \in {<<0>>, <<255, 1>>, <<90, 165, 60>>}}

MCCases ==
  {[packets |-> Raw(1), codes |-> {Small(R13, 3, 6)}, mus |-> {1}],
   [packets |-> Raw(2), codes |-> {Small(R13, 2, 5)}, mus |-> {2, 4}],
   [packets |-> Raw(3), codes |-> {Small(R12, 4, 3)}, mus |-> {1, 2, 4}],
   [packets |-> Raw(4), codes |-> {Small(R23, 4, 1), Small(R34, 4, 1)},
    mus |-> {1, 2, 4}],
   [packets |-> Raw(2) \cup Raw(4), codes |-> {Ira}, mus |-> {1, 2}],
   [packets |-> {HeaderOf(4, 1, 3), HeaderOf(6, 2, 0), HeaderOf(0, 0, 2)},
    codes |-> {Small(R13, 16, 1)}, mus |-> {1}],
   [packets |-> {HeaderOf(4, 1, 3)}, codes |-> {Shipped(R13, 1, FALSE)},
    mus |-> {1}],
   [packets |-> {[kind |-> "raw", bits |-> <<1>>]},
    codes |-> {Shipped(m, 1, TRUE): m \in {R13, R12, R23, R34}},
    mus |-> {1, 2, 4}],
   [packets |-> Beacons, codes |-> {Small(R12, 16, 1)}, mus |-> {2}],
   [packets |-> Datas, codes |-> {Small(R34, 16, 1)}, mus |-> {4}]}

Level(b0, b1) ==
  IF b0 = 0 THEN IF b1 = 0 THEN -3 ELSE -1 ELSE IF b1 = 1 THEN 1 ELSE 3
MCLevels ==
  [m \in {1, 2, 4} |-> [b \in [1 .. m -> {0, 1}] |->
     CASE m = 1 -> <<2 * b[1] - 1, 0>>
       [] m = 2 -> <<2 * b[1] - 1, 2 * b[2] - 1>>
       [] m = 4 -> <<Level(b[1], b[2]), Level(b[3], b[4])>>]]

=============================================================================
