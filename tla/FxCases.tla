------------------------------ MODULE FxCases ------------------------------
(***************************************************************************)
(* Values for the constants of FixedRx: the tables of a small chain, and   *)
(* the recordings its receivers are given.                                 *)
(***************************************************************************)
EXTENDS Integers, Sequences

Quarter == <<127, 126, 125, 122, 117, 112, 106, 98, 90, 81, 71, 60, 49, 37, 25,
             12, 0>>
MCCosRom ==
  [i \in 0 .. 63 |-> CASE i <= 16 -> Quarter[i + 1]
                       [] i > 16 /\ i <= 32 -> -Quarter[33 - i]
                       [] i > 32 /\ i <= 48 -> -Quarter[i - 31]
                       [] OTHER -> Quarter[65 - i]]
MCAtanRom == <<8192, 4836, 2555, 1297, 651, 326, 163, 81, 41, 20, 10, 5, 3, 1,
               1, 0>>
MCRecalRom == <<2, 2, 2, 3, 5, 5, 6, 6, 7, 7, 7, 8, 8, 9, 9, 10, 10, 11, 11,
                12, 12, 13, 13, 13, 14, 14, 14, 15, 15, 15, 15, 15>>
MCChannel == <<1, 2, 3, 4, 5, 6, 7>>
MCPilots == <<1, 4, 7>>
MCComb == <<2, 5>>
MCZcHyps == <<0>>
MCSearchWords == [k \in 1 .. 17 |-> (k - 9) * 227]

Quiet == [mu |-> 1, seed |-> 1, lead |-> 40, cfo |-> 700, near |-> 0,
          drift |-> <<0, 0, 0, 0, 0, 0>>, loud |-> <<4, 4, 4, 4, 4, 4>>,
          hit |-> 0, echo |-> 0, calibrate |-> FALSE, tones |-> <<>>,
          late |-> 0, cut |-> 0]
Up == [Quiet EXCEPT !.drift = <<-2, 0, 2, 4, 6, 8>>, !.cfo = -3000]
Low == [Quiet EXCEPT !.drift = <<-8, -8, -7, -6, -6, -5>>, !.seed = 7]
Down == [Quiet EXCEPT !.drift = <<4, 3, 1, -1, -3, -5>>, !.seed = 2]
Fading == [Quiet EXCEPT !.loud = <<4, 8, 12, 2, 4, 1>>, !.lead = 5,
                        !.drift = <<1, 1, 2, 2, 3, 3>>, !.seed = 4]
Echoing == [Quiet EXCEPT !.echo = 1, !.cfo = 2500, !.seed = 5,
                         !.loud = <<6, 4, 2, 2, 4, 6>>]
Hit == [Quiet EXCEPT !.hit = 3, !.seed = 3, !.loud = <<2, 4, 8, 8, 1, 4>>]
Ringing == [Echoing EXCEPT !.echo = 2, !.loud = <<4, 4, 4, 4, 4, 4>>,
                            !.cfo = 100]
HitLate == [Hit EXCEPT !.hit = 6, !.loud = <<8, 4, 4, 1, 8, 2>>, !.seed = 6]
Frames ==
  {[f EXCEPT !.mu = mu, !.near = near, !.calibrate = (near = 1)]:
     f \in {Quiet, Up, Down, Fading, Echoing}, mu \in {1, 2, 4},
     near \in -1 .. 1}
    \cup {[f EXCEPT !.mu = mu]: f \in {Hit, HitLate}, mu \in {1, 2, 4}}
Tone(word, loud) == [word |-> word, loud |-> loud]
Tones ==
  {[Quiet EXCEPT !.tones = <<Tone(w, l)>>]:
     w \in {1500, 10240, 10500, 18000, 30800}, l \in {2, 4}}
    \cup {[Quiet EXCEPT !.tones = <<Tone(6150, 2), Tone(22528, 3)>>],
          [Quiet EXCEPT !.tones = <<Tone(20000, 2), Tone(30500, 3)>>]}
Late ==
  {[f EXCEPT !.late = 172, !.mu = mu]: f \in {Quiet, Low, Ringing},
                                      mu \in {1, 2}}
MCSessions ==
  {<<f>>: f \in Frames \cup Tones \cup Late}
    \cup {<<[Down EXCEPT !.cut = c], Down>>: c \in {30, 60, 150}}
    \cup {<<Up, Low>>, <<Down, Up>>}

(* For FreqSearch: bins off by up to a spacing and a half, combs by more;  *)
(* symbols of few tiles and of many.                                       *)
Tones3 == {-72, -60, -49, -47, -25, -12, -1, 0, 5, 24, 36, 48, 66, 72}
TonesOff ==
  {[kind |-> "tones", f |-> f, fine |-> e, bump |-> [bin |-> b, size |-> z]]:
     f \in Tones3, e \in {-5, 5}, b \in 2 .. 14, z \in {60, 200}}
CombsOff ==
  {[kind |-> "comb", f |-> 5 * i, fine |-> e, short |-> s]:
     i \in -34 .. 34, e \in {-3, 3}, s \in {-2, 0, 2}}
Steps ==
  {<<0, 1>>, <<1, 2>>, <<2, 3>>, <<0, 2>>, <<1, 3>>, <<0, 3>>}
TilesOff ==
  {[kind |-> "tiles", f |-> f,
    err |-> [p \in Steps |-> IF p[2] = p[1] + 1 THEN e[p[2]]
                             ELSE e[p[2]] + x[p[2] - p[1] - 1]]]:
     f \in {-6, -3, 0, 5, 6}, e \in [1 .. 3 -> -1 .. 1], x \in [1 .. 2 -> {-1, 1}]}
GridsOff ==
  {[kind |-> "grid", g |-> g, fade |-> f,
    hits |-> IF t < 0 THEN {} ELSE {[tile |-> t, size |-> 1, phase |-> 21]}]:
     g \in {-40, -33, -20, 0, 3, 29, 40}, t \in {-1, 0, 5},
     f \in {{}, {0, 1, 2, 3}, {1, 5, 9, 12}, 6 .. 11}}
MCOffsets == TonesOff \cup CombsOff \cup TilesOff \cup GridsOff
=============================================================================
