----------------------------- MODULE BlockCodec -----------------------------
(***************************************************************************)
(* From a packet to the carriers of a block and back: the packet formats   *)
(* and their CRCs (ofdm_phy/packets.py, crc.py), the convolutional code    *)
(* with puncturing (coding.py), the LDPC code (ldpc.py), the interleaver,  *)
(* the scrambler and the constellations, put together as the transceiver   *)
(* does (transceiver.py encode_block, decode_block).                     *)
(*                                                                         *)
(* Noise takes a carrier of a symbol for a neighbouring point or wipes it  *)
(* out.  The codes are parameters, so that the shipped ones are checked on *)
(* a few blocks and small ones of the same construction on all.            *)
(***************************************************************************)
EXTENDS Integers, Sequences, FiniteSets, SequencesExt, Functions

CONSTANTS
  Cases,       \* sets of packets and codes that go together, see Init
  Levels,      \* Levels[mu]: point of each bit pattern of a mapper
  Keys,        \* net keys
  Amp,         \* magnitude of a soft value
  ScramblerSeed,   \* DEFAULT_SEED, as the set of its bits
  CallLen, CallBits, CallBase, QthBases,   \* of a beacon
  BeaconMode, PublicTypes, Types,
  Erased

(* A code: [kind |-> "cc", K, taps, mask] or [kind |-> "ldpc", checks,     *)
(* k_max, iters]; with carriers, and in distance the number of wrong bits  *)
(* it cannot always correct, twice.                                        *)
VARIABLES
  packet, code, mu,
  tx_key, rx_key,
  stage,       \* "built", "air", "soft" or "done"
  air,         \* points, symbol after symbol
  heard,       \* the same as received
  soft,        \* soft values of the coded bits
  damage,      \* bits spoilt: two for a wrong one, one for a lost one
  bits,        \* decoded bits
  got          \* the packet decoded, if any

given == <<packet, code, mu, tx_key, rx_key>>
vars == <<given, stage, air, heard, damage, soft, bits, got>>

Ceil(a, b) == (a + b - 1) \div b
Parity(S) == Cardinality(S) % 2
(* A sequence, written out. *)
Tuple(s) == s \o <<>>

-----------------------------------------------------------------------------
(* packets.py: _to_bits, _from_bits. *)
Bits(val, n) == [i \in 1 .. n |-> (val \div 2 ^ (n - i)) % 2]
Value(b) == FoldLeft(LAMBDA v, x: 2 * v + x, 0, b)

(* crc.py: a register shifted left, the polynomial added on a one.         *)
crc(b, poly, seed) ==
  LET step(reg, bit) ==
        LET shifted == Append(Tail(reg), 0)
        IN IF Head(reg) = bit THEN shifted
           ELSE Tuple([i \in DOMAIN reg |-> (shifted[i] + poly[i]) % 2])
  IN FoldLeft(step, seed, b)
crc8_lte(b) == crc(b, Bits(7, 8), Bits(255, 8))
crc16_ccitt(b) == crc(b, Bits(4129, 16), [i \in 1 .. 16 |-> 1])

(* The header's CRC is seeded with 0xFF ^ key.                             *)
crc_keyed(b, key) ==
  crc(b, Bits(7, 8), [i \in 1 .. 8 |-> 1 - Bits(key, 8)[i]])

callsign_to_int(call) ==
  FoldLeft(LAMBDA v, c: v * CallBase + c, 0,
           call \o [i \in 1 .. CallLen - Len(call) |-> 0])
int_to_callsign(val) ==
  LET digits == [i \in 1 .. CallLen |->
                   (val \div CallBase ^ (CallLen - i)) % CallBase]
      used == {i \in 1 .. CallLen: digits[i] # 0}
  IN IF used = {} THEN <<>>
     ELSE SubSeq(digits, CHOOSE i \in used: \A j \in used: i <= j,
                         CHOOSE i \in used: \A j \in used: j <= i)

(* A mixed-radix number of six digits, lon_field first.                    *)
qth6_to_int(q) ==
  FoldLeft(LAMBDA v, i: v * QthBases[i] + q[i], 0, [i \in 1 .. 6 |-> i])
int_to_qth6(val) ==
  FoldLeft(LAMBDA s, i: [v |-> s.v \div QthBases[i],
                         q |-> <<s.v % QthBases[i]>> \o s.q],
           [v |-> val, q |-> <<>>], [i \in 1 .. 6 |-> 7 - i]).q

-----------------------------------------------------------------------------
HeaderBits(p) ==
  Bits(p.ver, 2) \o Bits(p.typ, 3) \o Bits(p.mod, 2) \o Bits(p.spd, 2)
    \o Bits(p.len, 8)
BeaconBits(p) ==
  Bits(callsign_to_int(p.call), CallBits) \o Bits(qth6_to_int(p.qth), 25)
    \o Bits(BeaconMode, 4)
DataBits(p) ==
  Bits(p.reserved, 20) \o FlattenSeq([i \in DOMAIN p.payload |->
                                        Bits(p.payload[i], 8)])

(* A raw block stands for the bits of any packet. *)
EncodePacket(p, key) ==
  CASE p.kind = "raw" -> p.bits
    [] p.kind = "header" -> HeaderBits(p) \o crc_keyed(HeaderBits(p), key)
    [] p.kind = "beacon" -> BeaconBits(p) \o crc8_lte(BeaconBits(p))
    [] p.kind = "data" -> DataBits(p) \o crc16_ccitt(DataBits(p))

(* A keyed receiver takes public types under key 0 too.                    *)
HeaderCrcOkAnyType(data, their, key) ==
  their \in {crc_keyed(data, key), crc_keyed(data, 0)}
HeaderCrcOk(data, their, key) ==
  \/ crc_keyed(data, key) = their
  \/ /\ key # 0 /\ Value(SubSeq(data, 3, 5)) \in PublicTypes
     /\ crc_keyed(data, 0) = their
DecodeHeader(b, key) ==
  LET data == SubSeq(b, 1, 17)
      field(i, j) == Value(SubSeq(data, i, j))
  IN IF ~HeaderCrcOk(data, SubSeq(b, 18, 25), key) THEN {}
     ELSE IF field(3, 5) \notin Types \/ field(6, 7) > 2 THEN {}
     ELSE {[kind |-> "header", ver |-> field(1, 2), typ |-> field(3, 5),
           mod |-> field(6, 7), spd |-> field(8, 9), len |-> field(10, 17)]}
DecodeBeacon(b) ==
  LET n == Len(b) - 8
      data == SubSeq(b, 1, n)
      field(i, j) == Value(SubSeq(data, i, j))
  IN IF crc8_lte(data) # SubSeq(b, n + 1, n + 8) THEN {}
     ELSE IF field(n - 3, n) # BeaconMode THEN {}
     ELSE {[kind |-> "beacon", call |-> int_to_callsign(field(1, CallBits)),
           qth |-> int_to_qth6(field(CallBits + 1, CallBits + 25))]}
DecodeData(b) ==
  LET n == Len(b) - 16
      data == SubSeq(b, 1, n)
  IN IF crc16_ccitt(data) # SubSeq(b, n + 1, n + 16) THEN {}
     ELSE {[kind |-> "data", reserved |-> Value(SubSeq(data, 1, 20)),
           payload |-> [i \in 1 .. (n - 20) \div 8 |->
                          Value(SubSeq(data, 8 * i + 13, 8 * i + 20))]]}
DecodePacket(kind, b, key) ==
  CASE kind = "raw" -> {[kind |-> "raw", bits |-> b]}
    [] kind = "header" -> DecodeHeader(b, key)
    [] kind = "beacon" -> DecodeBeacon(b)
    [] kind = "data" -> DecodeData(b)

-----------------------------------------------------------------------------
(* coding.py. An input bit enters the register at bit 0; an output is the  *)
(* parity of the register at a polynomial's taps. The block is followed by *)
(* K - 1 zeros. Outputs the mask has no one for are not sent.              *)
Period(c) == Len(c.mask[1])
Speed(c) == Len(c.taps)
Sent(c, t, p) == c.mask[p][((t - 1) % Period(c)) + 1] = 1
Kept(c, t) == {p \in 1 .. Speed(c): Sent(c, t, p)}
Outputs(c, steps) ==
  SelectSeq([i \in 1 .. steps * Speed(c) |->
               <<Ceil(i, Speed(c)), ((i - 1) % Speed(c)) + 1>>],
            LAMBDA o: Sent(c, o[1], o[2]))
ConvEncode(c, b) ==
  LET out(t, p) == Parity({j \in c.taps[p]: t - j \in DOMAIN b /\ b[t - j] = 1})
      order == Outputs(c, Len(b) + c.K - 1)
  IN [i \in DOMAIN order |-> out(order[i][1], order[i][2])]
PeriodElements(c) ==
  Cardinality({<<p, t>> \in (1 .. Speed(c)) \X (1 .. Period(c)):
                 c.mask[p][t] = 1})
ConvElements(c, count) ==
  Ceil(count + c.K - 1, Period(c)) * PeriodElements(c)
(* The length the encoder puts out. *)
ConvLength(c, count) == Len(Outputs(c, count + c.K - 1))

(* depuncture: soft values in the places of the mask, 0 elsewhere and when *)
(* they run out.                                                           *)
Depunctured(c, values, count) ==
  LET steps == Ceil(count + c.K - 1, Period(c)) * Period(c)
      before(t) == (t \div Period(c)) * PeriodElements(c)
        + Cardinality({<<p, u>> \in (1 .. Speed(c)) \X (1 .. t % Period(c)):
                         c.mask[p][u] = 1})
      place(t, p) ==
        before(t - 1) + Cardinality({q \in Kept(c, t): q <= p})
  IN Tuple([t \in 1 .. steps |-> Tuple([p \in 1 .. Speed(c) |->
        IF ~Sent(c, t, p) \/ place(t, p) > Len(values) THEN 0
        ELSE values[place(t, p)]])])

NumStates(c) == 2 ^ (c.K - 1)
(* By register s, bit at its end: entry 2s + bit + 1. *)
EXPECTED_SYMS(c) ==
  Tuple([r \in 1 .. 2 ^ c.K |-> Tuple([p \in 1 .. Speed(c) |->
    2 * Parity({j \in c.taps[p]: ((r - 1) \div 2 ^ j) % 2 = 1}) - 1])])
Unreached == -1000000
Dot(x, y) == FoldLeft(LAMBDA v, i: v + x[i] * y[i], 0, [i \in DOMAIN x |-> i])

(* A step of the Viterbi decoder: the metric of each state by the better   *)
(* of its two predecessors, and which that is. State n has entry n + 1.    *)
Branch(syms, metrics, rx, from, bit) ==
  metrics[from + 1] + Dot(syms[2 * from + bit + 1], rx)
ViterbiStep(c, syms, metrics, rx) ==
  Tuple([e \in 1 .. NumStates(c) |->
    LET n == e - 1
        prev0 == n \div 2
        prev1 == prev0 + NumStates(c) \div 2
        m0 == Branch(syms, metrics, rx, prev0, n % 2)
        m1 == Branch(syms, metrics, rx, prev1, n % 2)
    IN IF m0 >= m1 THEN [metric |-> m0, prev |-> prev0]
       ELSE [metric |-> m1, prev |-> prev1]])
Viterbi(c, values, count) ==
  LET steps == count + c.K - 1
      syms == EXPECTED_SYMS(c)
      forward(acc, t) ==
        LET next == ViterbiStep(c, syms, acc.metrics, values[t])
        IN [metrics |-> Tuple([e \in DOMAIN next |-> next[e].metric]),
            prev |-> Append(acc.prev, [e \in DOMAIN next |-> next[e].prev])]
      end == FoldLeft(forward,
        [metrics |-> [e \in 1 .. NumStates(c) |-> IF e = 1 THEN 0
                                                  ELSE Unreached],
         prev |-> <<>>], [t \in 1 .. steps |-> t])
      best(m) == CHOOSE n \in 0 .. NumStates(c) - 1:
        \A o \in 0 .. NumStates(c) - 1:
          /\ m[o + 1] <= m[n + 1]
          /\ o < n => m[o + 1] < m[n + 1]
      back(prev, acc, i) ==
        [state |-> prev[steps + 1 - i][acc.state + 1],
         out |-> <<acc.state % 2>> \o acc.out]
      traced(e) == FoldLeft(LAMBDA acc, i: back(e.prev, acc, i),
                            [state |-> best(e.metrics), out |-> <<>>],
                            [i \in 1 .. steps |-> i]).out
  \* e \in {end}: the way forward is computed before the way back starts.
  IN CHOOSE out \in {traced(e): e \in {end}}: TRUE
ConvDecode(c, values, count) ==
  SubSeq(Viterbi(c, Depunctured(c, values, count), count), 1, count)

-----------------------------------------------------------------------------
(* ldpc.py. Check i sums the information bits checks[i], its parity bit    *)
(* and the parity bit before; information positions beyond the block are   *)
(* zero and not sent.                                                      *)
LdpcLength(c, count) == count + Len(c.checks)
LdpcEncode(c, b) ==
  LET sum(i) == Parity({v \in c.checks[i]: v <= Len(b) /\ b[v] = 1})
      parity == FoldLeft(LAMBDA s, i:
                  Append(s, (sum(i) + (IF i = 1 THEN 0 ELSE s[i - 1])) % 2),
                  <<>>, [i \in DOMAIN c.checks |-> i])
  IN b \o parity
(* Columns of check i. *)
Row(c, i) ==
  c.checks[i] \cup {c.k_max + i} \cup (IF i = 1 THEN {} ELSE {c.k_max + i - 1})

Abs(x) == IF x < 0 THEN -x ELSE x
Least(S) == CHOOSE x \in S: \A y \in S: x <= y
Greater(a, b) == IF a > b THEN a ELSE b
(* What check i tells column v: the sign of the others and three quarters  *)
(* of the least magnitude among them. A column of its own does not count.  *)
Scaled(values) ==
  LET m == Least({Abs(x): x \in Range(values)})
      odd == Parity({u \in DOMAIN values: values[u] < 0}) = 1
  IN (IF odd THEN -1 ELSE 1) * (m - m \div 4)
TellsItself(c, i, v, v2c) == Scaled([u \in Row(c, i) |-> v2c[u]])
Tells(c, i, v, v2c) == Scaled([u \in Row(c, i) \ {v} |-> v2c[u]])
min_sum_int(c, llr) ==
  LET checks == DOMAIN c.checks
      hard(t) == {v \in DOMAIN t: t[v] < 0}
      clean(h) == \A i \in checks: Parity(Row(c, i) \cap h) = 0
      overEdges(f(_, _)) ==
        Tuple([i \in checks |-> Tuple([v \in DOMAIN llr |->
          IF v \in Row(c, i) THEN f(i, v) ELSE 0])])
      iterate(acc, n) ==
        IF acc.done THEN acc
        ELSE LET c2v == overEdges(LAMBDA i, v: Tells(c, i, v, acc.v2c[i]))
                 total == Tuple([v \in DOMAIN llr |-> FoldLeft(
                   LAMBDA x, row: x + row[v], llr[v], c2v)])
             IN [done |-> clean(hard(total)), total |-> total,
                 v2c |-> overEdges(LAMBDA i, v: total[v] - c2v[i][v])]
  IN hard(FoldLeft(iterate,
            [done |-> FALSE, total |-> llr,
             v2c |-> overEdges(LAMBDA i, v: llr[v])],
            [n \in 1 .. c.iters |-> n]).total)
(* Known zeros are pinned by four times the strongest value.               *)
ldpc_decode_int(c, values, count) ==
  LET M == Len(c.checks)
      at(i) == IF i <= Len(values) THEN values[i] ELSE 0
      pin == Greater(1024, 4 * FoldLeft(LAMBDA v, x: Greater(v, Abs(x)), 0,
                                        values))
      llr == [v \in 1 .. c.k_max + M |->
                IF v <= count THEN at(v)
                ELSE IF v <= c.k_max THEN -pin ELSE at(count + v - c.k_max)]
      ones == min_sum_int(c, [v \in DOMAIN llr |-> -llr[v]])
  IN [v \in 1 .. count |-> IF v \in ones THEN 1 ELSE 0]

-----------------------------------------------------------------------------
CodedLength(c, count) ==
  IF c.kind = "cc" THEN ConvLength(c, count) ELSE LdpcLength(c, count)
calc_cc_elements(c, count) ==
  IF c.kind = "cc" THEN ConvElements(c, count) ELSE LdpcLength(c, count)
Encode(c, b) == IF c.kind = "cc" THEN ConvEncode(c, b) ELSE LdpcEncode(c, b)
Decode(c, values, count) ==
  IF c.kind = "cc" THEN ConvDecode(c, values, count)
  ELSE ldpc_decode_int(c, values, count)

(* interleaver.py: rows of n elements are written and columns read. Order  *)
(* lists the elements read, of len.                                        *)
Order(len, n) ==
  LET rows == Ceil(len, n)
  IN SelectSeq([i \in 1 .. rows * n |->
                  ((i - 1) % rows) * n + (i - 1) \div rows],
               LAMBDA e: e < len)
interleave(b, n) ==
  LET order == Order(Len(b), n) IN Tuple([i \in DOMAIN b |-> b[order[i] + 1]])
deinterleave(s, n) ==
  LET order == Order(Len(s), n)
      from(e) == CHOOSE i \in DOMAIN order: order[i] = e
  IN Tuple([i \in DOMAIN s |-> s[from(i - 1)]])

(* scrambler.py: bit 0 goes out, and bits 6 and 3 added come in there; so  *)
(* a bit is the sum of those seven and four before it.                     *)
PRBS(len) ==
  LET seed == [i \in 1 .. 7 |-> IF 7 - i \in ScramblerSeed THEN 1 ELSE 0]
      step(s, i) == Append(s, (s[i] + s[i + 3]) % 2)
  IN SubSeq(FoldLeft(step, Tuple(seed), [i \in 1 .. len |-> i]), 7, len + 6)
scramble(b) ==
  LET prbs == PRBS(Len(b)) IN Tuple([i \in DOMAIN b |-> (b[i] + prbs[i]) % 2])
descramble(s) ==
  LET prbs == PRBS(Len(s))
  IN Tuple([i \in DOMAIN s |-> IF prbs[i] = 1 THEN -s[i] ELSE s[i]])

-----------------------------------------------------------------------------
Capacity(c, m) == c.carriers * m
num_symbols(c, m, len) == Ceil(len, Capacity(c, m))
encode_block(c, m, b) ==
  LET coded == Encode(c, b)
      pad == num_symbols(c, m, Len(coded)) * Capacity(c, m) - Len(coded)
  IN scramble(interleave(coded \o [i \in 1 .. pad |-> 0], c.carriers))
(* The coded elements out of a block's soft values, without the padding.   *)
cropped(c, values, count) ==
  LET rows == deinterleave(descramble(values), c.carriers)
  IN SubSeq(rows, 1, Least({Len(rows), calc_cc_elements(c, count)}))

(* Points of a block's bits, and soft values of points.                    *)
Points(m, b) ==
  [i \in 1 .. Len(b) \div m |-> Levels[m][SubSeq(b, m * (i - 1) + 1, m * i)]]
SoftPoint(m, point) ==
  IF point = Erased THEN [j \in 1 .. m |-> 0]
  ELSE LET b == CHOOSE b \in DOMAIN Levels[m]: Levels[m][b] = point
       IN [j \in 1 .. m |-> Amp * (2 * b[j] - 1)]
SoftOf(m, points) ==
  Tuple([i \in 1 .. m * Len(points) |->
     SoftPoint(m, points[Ceil(i, m)])[((i - 1) % m) + 1]])
Neighbours(m, point) ==
  {q \in Range(Levels[m]):
     Abs(q[1] - point[1]) + Abs(q[2] - point[2]) = 2}

-----------------------------------------------------------------------------
Init ==
  /\ \E c \in Cases:
       packet \in c.packets /\ code \in c.codes /\ mu \in c.mus
  /\ tx_key \in Keys /\ rx_key \in Keys
  /\ packet.kind # "header" => tx_key = 0 /\ rx_key = 0
  /\ stage = "built"
  /\ air = <<>> /\ heard = <<>> /\ soft = <<>> /\ damage = 0 /\ bits = <<>> /\ got = {}

build_frame ==
  /\ stage = "built"
  /\ stage' = "air"
  /\ air' = Points(mu, encode_block(code, mu, EncodePacket(packet, tx_key)))
  /\ heard' = air'
  /\ UNCHANGED <<given, damage, soft, bits, got>>

(* The last point hit, so that hits come in order. *)
LastHit ==
  LET hit == {i \in DOMAIN air: heard[i] # air[i]}
  IN IF hit = {} THEN 0 ELSE CHOOSE i \in hit: \A j \in hit: j <= i
Hit ==
  /\ stage = "air"
  /\ \E i \in LastHit + 1 .. Len(air):
     \E q \in Neighbours(mu, air[i]) \cup {Erased}:
       /\ heard' = [heard EXCEPT ![i] = q]
       /\ damage' = damage + (IF q = Erased THEN mu ELSE 2)
  /\ damage' < code.distance
  /\ UNCHANGED <<given, stage, air, soft, bits, got>>
(* A carrier that is excised or faded in every symbol, or a symbol lost.   *)
Wipe(S) ==
  /\ stage = "air" /\ heard = air
  /\ heard' = [i \in DOMAIN air |-> IF i - 1 \in S THEN Erased ELSE air[i]]
  /\ UNCHANGED <<given, stage, air, damage, soft, bits, got>>
Carrier(j) == {i \in 0 .. Len(air) - 1: i % code.carriers = j}
SymbolOf(s) == {i \in 0 .. Len(air) - 1: i \div code.carriers = s}
Fade ==
  /\ code.fades
  /\ \E S \in {Carrier(j): j \in 0 .. code.carriers - 1}
          \cup {SymbolOf(s): s \in 0 .. Len(air) \div code.carriers - 1}: Wipe(S)

(* The receiver knows how many bits there are, and thereby how many        *)
(* symbols to take.                                                        *)
BitsCount == Len(EncodePacket(packet, tx_key))
demod_symbols ==
  /\ stage = "air"
  /\ stage' = "soft"
  /\ LET symbols == num_symbols(code, mu, calc_cc_elements(code, BitsCount))
         points == SubSeq(heard, 1, Least({Len(heard), symbols * code.carriers}))
     IN soft' = cropped(code, SoftOf(mu, points), BitsCount)
  /\ UNCHANGED <<given, air, heard, damage, bits, got>>
decode_block ==
  /\ stage = "soft"
  /\ stage' = "done"
  /\ bits' = Decode(code, soft, BitsCount)
  /\ got' = DecodePacket(packet.kind, bits', rx_key)
  /\ UNCHANGED <<given, air, heard, damage, soft>>

Next == build_frame \/ Hit \/ Fade \/ demod_symbols \/ decode_block
Spec == Init /\ [][Next]_vars

-----------------------------------------------------------------------------
SentBits == EncodePacket(packet, tx_key)
(* A packet comes back field by field when the code can correct what was   *)
(* hit: each point taken for a neighbour costs one bit (Gray mapping), and *)
(* a faded carrier or a lost symbol is spread over the block by the        *)
(* interleaver.                                                            *)
Corrects ==
  stage = "done" =>
    /\ bits = SentBits
    /\ got \subseteq {packet}
    /\ packet.kind # "header" => got = {packet}

(* The decoder's path is the best of all paths through the trellis.        *)
Metric(values, path) ==
  LET syms == EXPECTED_SYMS(code)
      state(t) == Value(SubSeq([i \in 1 .. code.K - 1 |-> 0] \o path,
                               t, t + code.K - 2))
  IN FoldLeft(LAMBDA v, t: v + Dot(syms[2 * state(t) + path[t] + 1], values[t]),
              0, [t \in DOMAIN path |-> t])
BestPath ==
  stage = "soft" /\ code.kind = "cc" /\ BitsCount + code.K - 1 <= 6 =>
    LET received == Depunctured(code, soft, BitsCount)
        n == BitsCount + code.K - 1
        found == Metric(received, Viterbi(code, received, BitsCount))
    IN \A path \in [1 .. n -> {0, 1}]: Metric(received, path) <= found

(* A link frame is read by the holders of its key; a beacon or a broadcast *)
(* sent in the open by everyone (PUBLIC_TYPES).                            *)
KeyRule ==
  stage = "done" /\ packet.kind = "header" =>
    (got # {} <=> \/ tx_key = rx_key
                  \/ tx_key = 0 /\ packet.typ \in PublicTypes)

(* Transmitter and receiver count a block's symbols alike, although the    *)
(* one goes by the bits the encoder puts out and the other by whole        *)
(* periods of the mask: for every beacon and every length of a data packet *)
(* (build_frame, demod_frame), not for every number of bits.               *)
BlockLengths == {90} \cup {20 + 8 * n + 16: n \in 1 .. 27}
SymbolsAgree ==
  stage = "built" /\ code.counted => \A count \in BlockLengths:
    num_symbols(code, mu, CodedLength(code, count))
      = num_symbols(code, mu, calc_cc_elements(code, count))
=============================================================================
