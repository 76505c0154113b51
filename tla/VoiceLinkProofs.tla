--------------------------- MODULE VoiceLinkProofs ---------------------------
(***************************************************************************)
(* Proofs about VoiceLink and about VoiceStream.                           *)
(*                                                                         *)
(* VoiceLink, for any number of posts, resets and presses of STOP, and for *)
(* every size of a chunk and of whole bytes: what is handed to the board   *)
(* is what was said, one broadcast carries it, and STOP cuts nothing, as    *)
(* long as one STOP runs at a time (Solo); and, whatever overlaps, a       *)
(* recording has what arrived.  The invariant of the first splits in two:  *)
(* while one encoder runs, what it holds, what waits and what was encoded  *)
(* are what was heard, in order (SaidTrue); with a second one that outlived *)
(* its join, no post is in two places (Apart, Mine).                       *)
(*                                                                         *)
(* VoiceStream, for any size of a chunk, of a group of tokens, of a token  *)
(* that fits its bits, and of a byte: what the receiver unpacks is what    *)
(* was said.                                                               *)
(***************************************************************************)
EXTENDS VoiceLink, NaturalLemmas, SequenceTheorems, FiniteSetTheorems, TLAPS

-----------------------------------------------------------------------------
(* The voice server.  Sequences first: what begins another one, and the    *)
(* tokens that posts stand for.                                            *)
Begins(s, t) == Len(s) <= Len(t) /\ \A i \in 1..Len(s) : s[i] = t[i]

LEMMA PrefixIsBegins ==
  ASSUME NEW X, NEW s \in Seq(X), NEW t \in Seq(X)
  PROVE  IsPrefix(s, t) <=> Begins(s, t)
<1>1. SubSeq(s, 1, Len(s)) = s
  OBVIOUS
<1>2. ASSUME Len(s) <= Len(t)
      PROVE  /\ SubSeq(t, 1, Len(s)) \in Seq(X)
             /\ Len(SubSeq(t, 1, Len(s))) = Len(s)
             /\ \A i \in 1..Len(s) : SubSeq(t, 1, Len(s))[i] = t[i]
  BY <1>2
<1>3. ASSUME Len(s) <= Len(t), \A i \in 1..Len(s) : s[i] = t[i]
      PROVE  s = SubSeq(t, 1, Len(s))
  <2> DEFINE u == SubSeq(t, 1, Len(s))
  <2>1. u \in Seq(X) /\ Len(u) = Len(s) /\ \A i \in 1..Len(s) : u[i] = s[i]
    BY <1>2, <1>3
  <2> HIDE DEF u
  <2>2. s = u
    BY <2>1, SeqEqual
  <2> QED
    BY <2>2 DEF u
<1> QED
  BY <1>1, <1>2, <1>3 DEF IsPrefix, Begins

LEMMA Concatenated ==
  ASSUME NEW X, NEW s \in Seq(X), NEW t \in Seq(X)
  PROVE  /\ s \o t \in Seq(X) /\ Len(s \o t) = Len(s) + Len(t)
         /\ \A i \in 1..Len(s) : (s \o t)[i] = s[i]
         /\ \A i \in 1..Len(t) : (s \o t)[Len(s) + i] = t[i]
  OBVIOUS

LEMMA Pieced ==
  ASSUME NEW X, NEW s \in Seq(X), NEW t \in Seq(X), NEW u \in Seq(X),
         Len(u) = Len(s) + Len(t), \A i \in 1..Len(s) : u[i] = s[i],
         \A i \in 1..Len(t) : u[Len(s) + i] = t[i]
  PROVE  u = s \o t
<1>1. s \o t \in Seq(X) /\ Len(s \o t) = Len(u)
  BY Concatenated
<1>2. \A i \in 1..Len(u) : u[i] = (s \o t)[i]
  <2> SUFFICES ASSUME NEW i \in 1..Len(u) PROVE u[i] = (s \o t)[i]
    OBVIOUS
  <2>1. CASE i <= Len(s)
    BY <2>1
  <2>2. CASE ~ i <= Len(s)
    <3>1. i - Len(s) \in 1..Len(t) /\ i = Len(s) + (i - Len(s))
      BY <2>2
    <3>2. u[i] = t[i - Len(s)]
      BY <3>1
    <3> QED
      BY <3>1, <3>2
  <2> QED
    BY <2>1, <2>2
<1> QED
  BY <1>1, <1>2, SeqEqual

LEMMA BeginsTrans ==
  ASSUME NEW X, NEW s \in Seq(X), NEW t \in Seq(X), NEW u \in Seq(X),
         Begins(s, t), Begins(t, u)
  PROVE  Begins(s, u)
  BY DEF Begins

LEMMA BeginsConcat ==
  ASSUME NEW X, NEW s \in Seq(X), NEW t \in Seq(X)
  PROVE  Begins(s, s \o t)
  BY DEF Begins

LEMMA BeginsCut ==
  ASSUME NEW X, NEW s \in Seq(X), NEW n \in 0..Len(s)
  PROVE  /\ SubSeq(s, 1, n) \in Seq(X) /\ Len(SubSeq(s, 1, n)) = n
         /\ \A i \in 1..n : SubSeq(s, 1, n)[i] = s[i]
         /\ Begins(SubSeq(s, 1, n), s)
<1>1. SubSeq(s, 1, n) \in Seq(X) /\ Len(SubSeq(s, 1, n)) = n
  OBVIOUS
<1>2. \A i \in 1..n : SubSeq(s, 1, n)[i] = s[i]
  OBVIOUS
<1> QED
  BY <1>1, <1>2 DEF Begins

(* Which post a token is of.                                               *)
LEMMA PostOf ==
  ASSUME NEW T \in Nat \ {0}, NEW n \in Nat
  PROVE  /\ n * T \in Nat
         /\ \A i \in 1..n * T : (i - 1) \div T + 1 \in 1..n
         /\ \A i \in 1..T : (n * T + i - 1) \div T + 1 = n + 1
         /\ (n + 1) * T = n * T + T
<1>1. n * T \in Nat /\ (n + 1) * T = n * T + T
  BY SMTT(30)
<1>2. ASSUME NEW i \in 1..n * T PROVE (i - 1) \div T + 1 \in 1..n
  <2> DEFINE q == (i - 1) \div T
             r == (i - 1) % T
  <2>1. i - 1 \in Nat /\ i - 1 < n * T
    BY <1>1
  <2>2. i - 1 = T * q + r /\ q \in Nat /\ r \in 0..T - 1
    BY <2>1, Division, ModRange
  <2> HIDE DEF q, r
  <2>3. ~ q >= n
    <3> SUFFICES ASSUME q >= n PROVE FALSE
      OBVIOUS
    <3>1. T * q >= n * T
      BY <2>2, SMTT(30)
    <3> QED
      BY <2>1, <2>2, <3>1, <1>1, T * q \in Nat
  <2> QED
    BY <2>2, <2>3 DEF q
<1>3. ASSUME NEW i \in 1..T PROVE (n * T + i - 1) \div T + 1 = n + 1
  <2> DEFINE a == n * T + (i - 1)
             q == a \div T
             r == a % T
  <2>1. a \in Nat /\ i - 1 \in 0..T - 1
    BY <1>1
  <2>2. a = T * n + (i - 1)
    BY SMTT(30)
  <2> HIDE DEF a
  <2>3. a = T * q + r /\ q \in Nat /\ r \in 0..T - 1
    BY <2>1, Division, ModRange
  <2> HIDE DEF q, r
  <2>4. q = n
    BY <2>1, <2>2, <2>3, Unique
  <2>5. a = n * T + i - 1
    BY <1>1 DEF a
  <2> QED
    BY <2>4, <2>5 DEF q
<1> QED
  BY <1>1, <1>2, <1>3

LEMMA SpeechTyped ==
  ASSUME VoiceAssumption, NEW s \in Seq(Nat)
  PROVE  /\ Speech(s) \in Seq(Nat)
         /\ Len(Speech(s)) = Len(s) * TokensPerPost
         /\ \A i \in 1..Len(s) * TokensPerPost :
              Speech(s)[i] = s[(i - 1) \div TokensPerPost + 1]
<1> DEFINE T == TokensPerPost
           n == Len(s)
           m == n * T
<1>1. T \in Nat \ {0} /\ n \in Nat
  BY DEF VoiceAssumption
<1>2. Speech(s) = [i \in 1..m |-> s[(i - 1) \div T + 1]]
  BY DEF Speech
<1>3. \A i \in 1..n : s[i] \in Nat
  OBVIOUS
<1> HIDE DEF T, n
<1>4. m \in Nat /\ \A i \in 1..m : (i - 1) \div T + 1 \in 1..n
  BY <1>1, PostOf
<1> HIDE DEF m
<1>5. \A i \in 1..m : s[(i - 1) \div T + 1] \in Nat
  BY <1>3, <1>4
<1>6. Speech(s) \in Seq(Nat) /\ Len(Speech(s)) = m
  BY <1>2, <1>4, <1>5
<1>7. \A i \in 1..m : Speech(s)[i] = s[(i - 1) \div T + 1]
  BY <1>2
<1> QED
  BY <1>6, <1>7 DEF m, n, T

(* More posts, more tokens.                                                *)
LEMMA SpeechBegins ==
  ASSUME VoiceAssumption, NEW s \in Seq(Nat), NEW t \in Seq(Nat), Begins(s, t)
  PROVE  Begins(Speech(s), Speech(t))
<1> DEFINE n == Len(s)
           m == Len(t)
           T == TokensPerPost
<1>1. T \in Nat \ {0}
  BY DEF VoiceAssumption
<1>2. n \in Nat /\ m \in Nat /\ n <= m /\ \A i \in 1..n : s[i] = t[i]
  BY DEF Begins
<1>3. n * T \in Nat /\ m * T \in Nat /\ n * T <= m * T
  <2> HIDE DEF n, m, T
  <2> QED
    BY <1>1, <1>2, SMTT(30)
<1>4. \A i \in 1..n * T : (i - 1) \div T + 1 \in 1..n
  BY <1>1, <1>2, PostOf
<1>5. /\ Len(Speech(s)) = n * T /\ Len(Speech(t)) = m * T
      /\ \A i \in 1..n * T : Speech(s)[i] = s[(i - 1) \div T + 1]
      /\ \A i \in 1..m * T : Speech(t)[i] = t[(i - 1) \div T + 1]
  BY SpeechTyped
<1> HIDE DEF T, n, m
<1>6. \A i \in 1..n * T : i \in 1..m * T
  BY <1>3
<1> QED
  BY <1>2, <1>3, <1>4, <1>5, <1>6 DEF Begins

(* One more post, its tokens after the others.                             *)
LEMMA SpeechGrows ==
  ASSUME VoiceAssumption, NEW b \in Seq(Nat), NEW j \in Nat, j + 1 <= Len(b)
  PROVE  /\ Tokens(b[j + 1]) \in Seq(Nat)
         /\ Len(Tokens(b[j + 1])) = TokensPerPost
         /\ Speech(SubSeq(b, 1, j + 1))
              = Speech(SubSeq(b, 1, j)) \o Tokens(b[j + 1])
<1> DEFINE T == TokensPerPost
           p == SubSeq(b, 1, j)
           q == SubSeq(b, 1, j + 1)
           x == Tokens(b[j + 1])
<1>1. T \in Nat \ {0}
  BY DEF VoiceAssumption
<1>2. /\ p \in Seq(Nat) /\ q \in Seq(Nat) /\ Len(p) = j /\ Len(q) = j + 1
      /\ \A i \in 1..j : p[i] = b[i]
      /\ \A i \in 1..j + 1 : q[i] = b[i]
  BY BeginsCut
<1>3. x = [i \in 1..T |-> b[j + 1]] /\ b[j + 1] \in Nat
  BY DEF Tokens
<1>4. x \in Seq(Nat) /\ Len(x) = T /\ \A i \in 1..T : x[i] = b[j + 1]
  BY <1>1, <1>3
<1> DEFINE a == j * T
<1>5. /\ a \in Nat /\ (j + 1) * T = a + T
      /\ \A i \in 1..a : (i - 1) \div T + 1 \in 1..j
      /\ \A i \in 1..T : (a + i - 1) \div T + 1 = j + 1
  BY <1>1, PostOf
<1>6. /\ Speech(p) \in Seq(Nat) /\ Len(Speech(p)) = a
      /\ Speech(q) \in Seq(Nat) /\ Len(Speech(q)) = a + T
      /\ \A i \in 1..a : Speech(p)[i] = p[(i - 1) \div T + 1]
      /\ \A i \in 1..a + T : Speech(q)[i] = q[(i - 1) \div T + 1]
  <2> HIDE DEF p, q
  <2>1. /\ Speech(p) \in Seq(Nat) /\ Len(Speech(p)) = j * T
        /\ \A i \in 1..j * T : Speech(p)[i] = p[(i - 1) \div T + 1]
    BY <1>2, SpeechTyped
  <2>2. /\ Speech(q) \in Seq(Nat) /\ Len(Speech(q)) = (j + 1) * T
        /\ \A i \in 1..(j + 1) * T : Speech(q)[i] = q[(i - 1) \div T + 1]
    BY <1>2, SpeechTyped
  <2> QED
    BY <2>1, <2>2, <1>5
<1> DEFINE u == Speech(p)
           v == Speech(q)
<1> HIDE DEF T, p, q, x, a, u, v
<1>7. \A i \in 1..a : v[i] = u[i]
  <2> SUFFICES ASSUME NEW i \in 1..a PROVE v[i] = u[i]
    OBVIOUS
  <2> DEFINE c == (i - 1) \div T + 1
  <2>1. i \in 1..a + T
    BY <1>1, <1>5
  <2>2. v[i] = q[c] /\ u[i] = p[c] /\ c \in 1..j
    BY <1>5, <1>6, <2>1 DEF u, v
  <2> HIDE DEF c
  <2>3. c \in 1..j + 1
    BY <2>2
  <2> QED
    BY <1>2, <2>2, <2>3
<1>8. \A i \in 1..T : v[a + i] = b[j + 1]
  <2> SUFFICES ASSUME NEW i \in 1..T PROVE v[a + i] = b[j + 1]
    OBVIOUS
  <2>1. a + i \in 1..a + T /\ a + i - 1 = (a + i) - 1
    BY <1>1, <1>5
  <2>2. v[a + i] = q[j + 1]
    BY <1>5, <1>6, <2>1 DEF v
  <2> QED
    BY <1>2, <2>2
<1>9. v = u \o x
  <2>1. /\ u \in Seq(Nat) /\ Len(u) = a /\ v \in Seq(Nat)
        /\ Len(v) = a + T
    BY <1>6 DEF u, v
  <2>2. x \in Seq(Nat) /\ Len(x) = T
    BY <1>4
  <2>3. \A i \in 1..Len(u) : v[i] = u[i]
    BY <1>7, <2>1
  <2>4. \A i \in 1..Len(x) : v[Len(u) + i] = x[i]
    BY <1>4, <1>8, <2>1, <2>2
  <2>5. Len(v) = Len(u) + Len(x)
    BY <2>1, <2>2
  <2> QED
    BY <2>1, <2>2, <2>3, <2>4, <2>5, Pieced
<1> QED
  BY <1>4, <1>9 DEF u, v, p, q, x, T

(* What the threads hold, and what the fields may be.                      *)
Work ==
  [pc : {"off", "idle", "taken", "feed"}, batch : Seq(Nat), g : Nat]
Vocoding ==
  [pc : {"off", "idle", "looked", "vocoded"}, avail : Nat, g : Nat, lo : Nat,
   hi : Nat, y : Seq(Int), seen : Nat]
Finishing ==
  [pc : {"idle", "drain", "lock", "flush", "wait", "snap", "write"},
   data : Seq(Int), done : Nat, head : Seq(Int)]
Controlling ==
  [pc : {"idle", "join", "open", "reset", "clear", "talk"}, talk : BOOLEAN]
OnTheAir == [eos : BOOLEAN, raw : Seq(Int)]
CommandType == [cont : BOOLEAN, final : BOOLEAN]

Counted ==
  /\ gen \in Nat /\ resets \in Nat /\ k \in Nat /\ dec_pos \in Nat
  /\ posted \in Nat
Flagged ==
  /\ closed \in BOOLEAN /\ bc_open \in BOOLEAN /\ tail_marker \in BOOLEAN
  /\ talking \in BOOLEAN /\ enc_busy \in BOOLEAN /\ boards \in BOOLEAN
  /\ onair \in BOOLEAN /\ gaveup \in BOOLEAN /\ early \in BOOLEAN
  /\ crossed \in BOOLEAN /\ outlived \in BOOLEAN
Queued ==
  /\ buf \in Seq(Nat) /\ inq \in Seq(Nat) /\ heard \in Seq(Nat)
  /\ pressed \in Seq(Nat)
Streamed ==
  /\ pending \in Seq(Nat) /\ tokcarry \in Seq(Nat) /\ tx_stream \in Seq(Int)
  /\ air \in Seq(OnTheAir) /\ cmds \in Seq(CommandType)
Recorded == rx_bytes \in Seq(Int) /\ pcm_out \in Seq(Int)
Threads ==
  /\ enc \in [Encoders -> Work] /\ dec \in [Decoders -> Vocoding]
  /\ fin \in [Stops -> Finishing] /\ ctl \in Controlling
VoiceType == Counted /\ Flagged /\ Queued /\ Streamed /\ Recorded /\ Threads

(* A thread moves on.                                                      *)
LEMMA EncoderMoves ==
  ASSUME NEW f \in [Encoders -> Work], NEW e \in Encoders,
         NEW p \in {"off", "idle", "taken", "feed"}
  PROVE  /\ [f EXCEPT ![e].pc = p] \in [Encoders -> Work]
         /\ [f EXCEPT ![e].pc = p][e].pc = p
         /\ [f EXCEPT ![e].pc = p][e].batch = f[e].batch
         /\ [f EXCEPT ![e].pc = p][e].g = f[e].g
         /\ \A x \in Encoders \ {e} : [f EXCEPT ![e].pc = p][x] = f[x]
  BY DEF Work

LEMMA StopMoves ==
  ASSUME NEW f \in [Stops -> Finishing], NEW s \in Stops,
         NEW p \in {"idle", "drain", "lock", "flush", "wait", "snap", "write"}
  PROVE  /\ [f EXCEPT ![s].pc = p] \in [Stops -> Finishing]
         /\ [f EXCEPT ![s].pc = p][s].pc = p
         /\ [f EXCEPT ![s].pc = p][s].data = f[s].data
         /\ \A x \in Stops \ {s} : [f EXCEPT ![s].pc = p][x] = f[x]
  BY DEF Finishing

LEMMA ControlMoves ==
  ASSUME NEW c \in Controlling,
         NEW p \in {"idle", "join", "open", "reset", "clear", "talk"}
  PROVE  /\ [c EXCEPT !.pc = p] \in Controlling
         /\ [c EXCEPT !.pc = p].pc = p /\ [c EXCEPT !.pc = p].talk = c.talk
  BY DEF Controlling

LEMMA IdleTyped ==
  IdleEnc \in Work /\ IdleDec \in Vocoding /\ IdleFin \in Finishing
<1>1. <<>> \in Seq(Nat) /\ <<>> \in Seq(Int)
  OBVIOUS
<1> QED
  BY <1>1 DEF IdleEnc, IdleDec, IdleFin, Work, Vocoding, Finishing

(* What decodes, byte by byte: more bytes never change what decoded.       *)
LEMMA DecodesUp ==
  ASSUME NEW b \in Seq(Int)
  PROVE  \E d \in [0..Len(b) -> Seq(Int)] :
           d = [i \in 0..Len(b) |->
                  IF i = 0 THEN <<>>
                  ELSE IF b[i] = Marker THEN d[i - 1]
                  ELSE Append(d[i - 1], b[i])]
<1> DEFINE R(d, m) == d = [i \in 0..m |->
                             IF i = 0 THEN <<>>
                             ELSE IF b[i] = Marker THEN d[i - 1]
                             ELSE Append(d[i - 1], b[i])]
           T == {m \in Nat : m <= Len(b) =>
                               \E d \in [0..m -> Seq(Int)] : R(d, m)}
<1>1. 0 \in T
  <2> DEFINE d == [i \in 0..0 |-> <<>>]
  <2>1. d \in [0..0 -> Seq(Int)] /\ R(d, 0)
    OBVIOUS
  <2> HIDE DEF R, d
  <2> QED
    BY <2>1
<1> HIDE DEF R
<1>2. ASSUME NEW m \in Nat, m \in T PROVE m + 1 \in T
  <2> SUFFICES ASSUME m + 1 <= Len(b)
               PROVE  \E d \in [0..m + 1 -> Seq(Int)] : R(d, m + 1)
    OBVIOUS
  <2>1. PICK d \in [0..m -> Seq(Int)] : R(d, m)
    BY <1>2
  <2> DEFINE h == [i \in 0..m + 1 |->
                     IF i = m + 1
                     THEN IF b[m + 1] = Marker THEN d[m]
                          ELSE Append(d[m], b[m + 1])
                     ELSE d[i]]
  <2>2. b[m + 1] \in Int /\ d[m] \in Seq(Int)
    OBVIOUS
  <2>3. h \in [0..m + 1 -> Seq(Int)]
    BY <2>2
  <2>4. ASSUME NEW i \in 0..m + 1
        PROVE  h[i] = IF i = 0 THEN <<>>
                      ELSE IF b[i] = Marker THEN h[i - 1]
                      ELSE Append(h[i - 1], b[i])
    <3>1. CASE i = m + 1
      <4>1. h[i - 1] = d[m] /\ i # 0
        BY <3>1
      <4> QED
        BY <3>1, <4>1
    <3>2. CASE i # m + 1
      <4>1. i \in 0..m /\ h[i] = d[i] /\ (i # 0 => h[i - 1] = d[i - 1])
        BY <3>2
      <4>2. d[i] = IF i = 0 THEN <<>>
                   ELSE IF b[i] = Marker THEN d[i - 1]
                   ELSE Append(d[i - 1], b[i])
        BY <2>1, <4>1 DEF R
      <4> QED
        BY <4>1, <4>2
    <3> QED
      BY <3>1, <3>2
  <2>5. R(h, m + 1)
    BY <2>3, <2>4 DEF R
  <2> HIDE DEF h
  <2> QED
    BY <2>3, <2>5
<1> HIDE DEF T
<1>3. Len(b) \in T
  BY <1>1, <1>2, Induct
<1>4. \E d \in [0..Len(b) -> Seq(Int)] : R(d, Len(b))
  BY <1>3 DEF T
<1> QED
  BY <1>4, Zenon DEF R

LEMMA DecodesBy ==
  ASSUME NEW b \in Seq(Int)
  PROVE  \E d \in [0..Len(b) -> Seq(Int)] :
           /\ d[0] = <<>>
           /\ \A i \in 1..Len(b) :
                d[i] = IF b[i] = Marker THEN d[i - 1]
                       ELSE Append(d[i - 1], b[i])
           /\ Decodable(b) = d[Len(b)]
<1> DEFINE R(d) == d = [i \in 0..Len(b) |->
                          IF i = 0 THEN <<>>
                          ELSE IF b[i] = Marker THEN d[i - 1]
                          ELSE Append(d[i - 1], b[i])]
           up == CHOOSE d : R(d)
<1>1. Decodable(b) = up[Len(b)]
  BY DEF Decodable
<1>2. PICK d \in [0..Len(b) -> Seq(Int)] : R(d)
  BY DecodesUp, Zenon
<1>3. R(up)
  BY <1>2, Zenon
<1>4. up = d
  <2> DEFINE T == {m \in Nat : m <= Len(b) => up[m] = d[m]}
  <2> HIDE DEF up
  <2>1. 0 \in T
    BY <1>2, <1>3
  <2>2. ASSUME NEW m \in Nat, m \in T PROVE m + 1 \in T
    <3> SUFFICES ASSUME m + 1 <= Len(b) PROVE up[m + 1] = d[m + 1]
      OBVIOUS
    <3>1. up[m] = d[m]
      BY <2>2
    <3> DEFINE i == m + 1
    <3>2. i \in 0..Len(b) /\ i # 0 /\ i - 1 = m
      OBVIOUS
    <3> HIDE DEF i
    <3>3. up[i] = IF b[i] = Marker THEN up[i - 1] ELSE Append(up[i - 1], b[i])
      BY <1>3, <3>2
    <3>4. d[i] = IF b[i] = Marker THEN d[i - 1] ELSE Append(d[i - 1], b[i])
      BY <1>2, <3>2
    <3> QED
      BY <3>1, <3>2, <3>3, <3>4 DEF i
  <2> HIDE DEF T
  <2>3. \A m \in Nat : m \in T
    BY <2>1, <2>2, Induct
  <2>4. \A m \in 0..Len(b) : up[m] = d[m]
    BY <2>3 DEF T
  <2>5. up = [m \in 0..Len(b) |-> up[m]] /\ d = [m \in 0..Len(b) |-> d[m]]
    BY <1>2, <1>3
  <2>6. [m \in 0..Len(b) |-> up[m]] = [m \in 0..Len(b) |-> d[m]]
    BY <2>4
  <2> QED
    BY <2>5, <2>6, Zenon
<1> HIDE DEF up
<1>5. d[0] = <<>>
  BY <1>2
<1>6. ASSUME NEW i \in 1..Len(b)
      PROVE  d[i] = IF b[i] = Marker THEN d[i - 1] ELSE Append(d[i - 1], b[i])
  BY <1>2, i \in 0..Len(b), i # 0
<1> HIDE DEF R
<1> QED
  BY <1>1, <1>4, <1>5, <1>6

LEMMA DecodableGrows ==
  ASSUME NEW b \in Seq(Int), NEW c \in Seq(Int), Begins(b, c)
  PROVE  /\ Decodable(b) \in Seq(Int) /\ Decodable(c) \in Seq(Int)
         /\ Begins(Decodable(b), Decodable(c))
<1>1. PICK d \in [0..Len(b) -> Seq(Int)] :
        /\ d[0] = <<>>
        /\ \A i \in 1..Len(b) :
             d[i] = IF b[i] = Marker THEN d[i - 1] ELSE Append(d[i - 1], b[i])
        /\ Decodable(b) = d[Len(b)]
  BY DecodesBy
<1>2. PICK f \in [0..Len(c) -> Seq(Int)] :
        /\ f[0] = <<>>
        /\ \A i \in 1..Len(c) :
             f[i] = IF c[i] = Marker THEN f[i - 1] ELSE Append(f[i - 1], c[i])
        /\ Decodable(c) = f[Len(c)]
  BY DecodesBy
<1> DEFINE m == Len(b)
           n == Len(c)
<1>3. m \in Nat /\ n \in Nat /\ m <= n /\ \A i \in 1..m : b[i] = c[i]
  BY DEF Begins
<1> HIDE DEF m, n
<1> DEFINE T == {i \in Nat : i <= m => d[i] = f[i]}
<1>4. 0 \in T
  BY <1>1, <1>2
<1>5. ASSUME NEW i \in Nat, i \in T PROVE i + 1 \in T
  <2> SUFFICES ASSUME i + 1 <= m PROVE d[i + 1] = f[i + 1]
    OBVIOUS
  <2>1. d[i] = f[i]
    BY <1>3, <1>5
  <2>2. i + 1 \in 1..m /\ i + 1 \in 1..n /\ (i + 1) - 1 = i
    BY <1>3
  <2>3. d[i + 1] = IF b[i + 1] = Marker THEN d[i] ELSE Append(d[i], b[i + 1])
    BY <1>1, <2>2 DEF m
  <2>4. f[i + 1] = IF c[i + 1] = Marker THEN f[i] ELSE Append(f[i], c[i + 1])
    BY <1>2, <2>2 DEF n
  <2> QED
    BY <1>3, <2>1, <2>2, <2>3, <2>4
<1> HIDE DEF T
<1>6. m \in T
  BY <1>3, <1>4, <1>5, Induct
<1>7. d[m] = f[m]
  BY <1>3, <1>6 DEF T
<1> DEFINE U == {i \in Nat : m + i <= n => Begins(f[m], f[m + i])}
<1>8. 0 \in U
  BY <1>3 DEF Begins
<1>9. ASSUME NEW i \in Nat, i \in U PROVE i + 1 \in U
  <2> SUFFICES ASSUME m + (i + 1) <= n PROVE Begins(f[m], f[m + (i + 1)])
    OBVIOUS
  <2> DEFINE j == m + i
  <2>1. j \in Nat /\ j + 1 \in 1..n /\ m + (i + 1) = j + 1 /\ (j + 1) - 1 = j
    BY <1>3
  <2>2. Begins(f[m], f[j])
    BY <1>3, <1>9
  <2>3. f[m] \in Seq(Int) /\ f[j] \in Seq(Int) /\ c[j + 1] \in Int
    <3>1. m \in 0..n /\ j \in 0..n /\ j + 1 \in 1..n
      BY <1>3, <2>1
    <3> HIDE DEF j
    <3>2. \A x \in 0..n : f[x] \in Seq(Int)
      BY DEF n
    <3>3. c[j + 1] \in Int
      BY <3>1 DEF n
    <3> QED
      BY <3>1, <3>2, <3>3
  <2>4. f[j + 1] = IF c[j + 1] = Marker THEN f[j] ELSE Append(f[j], c[j + 1])
    BY <1>2, <2>1 DEF n
  <2> HIDE DEF j
  <2>5. Begins(f[m], f[j + 1])
    <3> DEFINE g == Append(f[j], c[j + 1])
               l == f[m]
               r == f[j]
    <3>1. Len(g) = Len(r) + 1 /\ \A x \in 1..Len(r) : g[x] = r[x]
      BY <2>3
    <3>2. Len(l) \in Nat /\ Len(r) \in Nat
      BY <2>3
    <3>3. Len(l) <= Len(r) /\ \A x \in 1..Len(l) : l[x] = r[x]
      BY <2>2 DEF Begins
    <3> HIDE DEF g, l, r
    <3>4. Begins(l, g)
      BY <3>1, <3>2, <3>3 DEF Begins
    <3> QED
      BY <2>2, <2>4, <3>4 DEF g, l
  <2> QED
    BY <2>1, <2>5
<1> HIDE DEF U
<1>10. n - m \in U
  <2>1. \A i \in Nat : i \in U
    BY <1>8, <1>9, Induct
  <2> QED
    BY <1>3, <2>1
<1>11. Begins(f[m], f[n])
  BY <1>3, <1>10, m + (n - m) = n DEF U
<1> QED
  BY <1>1, <1>2, <1>3, <1>7, <1>11 DEF m, n

(* A command to the board.                                                 *)
LEMMA SendTyped ==
  ASSUME Streamed, Flagged, NEW raw \in Seq(Int), NEW final \in BOOLEAN,
         SendChunk(raw, final)
  PROVE  /\ closed' \in BOOLEAN /\ bc_open' \in BOOLEAN /\ onair' \in BOOLEAN
         /\ tx_stream' \in Seq(Int) /\ air' \in Seq(OnTheAir)
         /\ cmds' \in Seq(CommandType)
<1>1. CASE closed /\ ~final
  BY <1>1 DEF SendChunk, Streamed, Flagged
<1>2. CASE ~(closed /\ ~final)
  <2>1. /\ cmds' = Append(cmds, [cont |-> bc_open, final |-> final])
        /\ \/ UNCHANGED <<onair, air>>
           \/ /\ air' = air \o (IF onair /\ ~bc_open THEN <<EndOfStream>>
                                                      ELSE <<>>)
                             \o <<Data(raw)>>
                             \o (IF final THEN <<EndOfStream>> ELSE <<>>)
              /\ onair' = ~final
        /\ bc_open' = ~final /\ closed' = (closed \/ final)
        /\ tx_stream' = tx_stream \o raw
    BY <1>2 DEF SendChunk
  <2>2. onair' \in BOOLEAN /\ bc_open' \in BOOLEAN /\ closed' \in BOOLEAN
    BY <2>1 DEF Flagged
  <2>3. tx_stream' \in Seq(Int)
    BY <2>1 DEF Streamed
  <2>4. [cont |-> bc_open, final |-> final] \in CommandType
    BY DEF CommandType, Flagged
  <2>5. cmds' \in Seq(CommandType)
    BY <2>1, <2>4 DEF Streamed
  <2>6. EndOfStream \in OnTheAir /\ Data(raw) \in OnTheAir
    BY DEF EndOfStream, Data, OnTheAir
  <2> DEFINE before == IF onair /\ ~bc_open THEN <<EndOfStream>> ELSE <<>>
             after == IF final THEN <<EndOfStream>> ELSE <<>>
             piece == <<Data(raw)>>
  <2>7. /\ before \in Seq(OnTheAir) /\ after \in Seq(OnTheAir)
        /\ piece \in Seq(OnTheAir)
    BY <2>6
  <2>8. /\ air \in Seq(OnTheAir)
        /\ \/ air' = air
           \/ air' = ((air \o before) \o piece) \o after
    BY <2>1 DEF Streamed
  <2> HIDE DEF before, after, piece
  <2>9. air' \in Seq(OnTheAir)
    <3>1. air \o before \in Seq(OnTheAir)
      BY <2>7, <2>8, Concatenated
    <3>2. (air \o before) \o piece \in Seq(OnTheAir)
      BY <2>7, <3>1, Concatenated
    <3>3. ((air \o before) \o piece) \o after \in Seq(OnTheAir)
      BY <2>7, <3>2, Concatenated
    <3> QED
      BY <2>8, <3>3
  <2> QED
    BY <2>2, <2>3, <2>5, <2>9
<1> QED
  BY <1>1, <1>2

(* Whole bytes of what waits, and the rest.                                *)
LEMMA WholeBytes ==
  ASSUME VoiceAssumption, NEW l \in Nat
  PROVE  (l \div Align) * Align \in 0..l
<1>1. Align \in Nat \ {0}
  BY DEF VoiceAssumption
<1>2. l = Align * (l \div Align) + (l % Align) /\ l \div Align \in Nat
  BY <1>1, Division
<1>3. l % Align \in Nat
  BY <1>1
<1> DEFINE q == l \div Align
           r == l % Align
<1> HIDE DEF q, r
<1>4. q * Align = Align * q /\ q * Align \in Nat
  BY <1>1, <1>2, SMTT(30) DEF q
<1>5. q * Align \in 0..l
  BY <1>2, <1>3, <1>4 DEF q, r
<1> QED
  BY <1>5 DEF q

(* A chunk is encoded: its tokens follow those before, in the stream or in *)
(* what waits to fill a group or a byte.                                   *)
LEMMA ChunkEncoded ==
  ASSUME VoiceAssumption, VoiceType, EncodeChunk
  PROVE  /\ k' = k + 1 /\ k + 2 <= Len(buf)
         /\ UNCHANGED <<tail_marker, buf, boards>>
         /\ pending' \in Seq(Nat) /\ tokcarry' \in Seq(Nat)
         /\ \/ /\ UNCHANGED <<closed, bc_open, tx_stream, onair, air, cmds>>
               /\ ~closed => tokcarry' \o pending' =
                    (tokcarry \o pending) \o Tokens(buf[k + 1])
            \/ \E raw \in Seq(Nat) :
                 /\ SendChunk(raw, FALSE) /\ raw # <<>>
                 /\ raw \o (tokcarry' \o pending') =
                      (tokcarry \o pending) \o Tokens(buf[k + 1])
<1> DEFINE x == Tokens(buf[k + 1])
           group == pending \o x
<1>1. /\ k' = k + 1 /\ k + 2 <= Len(buf)
      /\ UNCHANGED <<tail_marker, buf, boards>>
      /\ k + 1 \in 1..Len(buf) /\ k \in Nat /\ buf \in Seq(Nat)
      /\ k + 1 <= Len(buf)
  BY DEF EncodeChunk, Encodable, VoiceType, Counted, Queued
<1>2. x \in Seq(Nat)
  BY <1>1, SpeechGrows
<1>3. pending \in Seq(Nat) /\ tokcarry \in Seq(Nat)
  BY DEF VoiceType, Streamed
<1>4. \/ pending' = <<>> /\ Send(group)
      \/ /\ pending' = group
         /\ UNCHANGED <<tokcarry, closed, bc_open, tx_stream, onair, air,
                        cmds>>
  BY DEF EncodeChunk
<1> HIDE DEF x
<1>5. group \in Seq(Nat) /\ tokcarry \o group = (tokcarry \o pending) \o x
  BY <1>2, <1>3
<1>6. CASE /\ pending' = group
           /\ UNCHANGED <<tokcarry, closed, bc_open, tx_stream, onair, air,
                          cmds>>
  <2> HIDE DEF group
  <2>1. tokcarry' \o pending' = (tokcarry \o pending) \o x
    BY <1>5, <1>6
  <2> QED
    BY <1>1, <1>3, <1>5, <1>6, <2>1 DEF x
<1>7. CASE pending' = <<>> /\ Send(group)
  <2> HIDE DEF group
  <2> DEFINE all2 == tokcarry \o group
             n == (Len(all2) \div Align) * Align
  <2>1. all2 \in Seq(Nat)
    BY <1>3, <1>5, Concatenated
  <2>2. /\ tokcarry' = SubSeq(all2, n + 1, Len(all2))
        /\ IF n = 0
           THEN UNCHANGED <<closed, bc_open, tx_stream, onair, air, cmds>>
           ELSE SendChunk(SubSeq(all2, 1, n), FALSE)
    BY <1>7 DEF Send
  <2> HIDE DEF all2
  <2>3. n \in 0..Len(all2)
    <3>1. Len(all2) \in Nat
      BY <2>1
    <3> DEFINE l == Len(all2)
    <3> HIDE DEF l
    <3>2. (l \div Align) * Align \in 0..l
      BY <3>1, WholeBytes DEF l
    <3> QED
      BY <3>2 DEF l
  <2> HIDE DEF n
  <2> DEFINE raw == SubSeq(all2, 1, n)
             rest == SubSeq(all2, n + 1, Len(all2))
  <2>4. /\ raw \in Seq(Nat) /\ rest \in Seq(Nat) /\ Len(raw) = n
        /\ Len(rest) = Len(all2) - n
        /\ \A i \in 1..Len(raw) : all2[i] = raw[i]
        /\ \A i \in 1..Len(rest) : all2[n + i] = rest[i]
    BY <2>1, <2>3
  <2>5. raw \o rest = all2
    <3> HIDE DEF raw, rest
    <3>1. Len(all2) = Len(raw) + Len(rest)
      BY <2>1, <2>3, <2>4
    <3> QED
      BY <2>1, <2>4, <3>1, Pieced
  <2>6. tokcarry' = rest /\ tokcarry' \o pending' = rest
    BY <1>7, <2>2, <2>4
  <2>7. all2 = (tokcarry \o pending) \o x
    BY <1>5 DEF all2
  <2>8. CASE n = 0
    <3>1. rest = all2
      BY <2>1, <2>8
    <3> HIDE DEF rest, raw
    <3>2. tokcarry' \o pending' = (tokcarry \o pending) \o x
      BY <2>6, <2>7, <3>1
    <3>3. UNCHANGED <<closed, bc_open, tx_stream, onair, air, cmds>>
      BY <2>2, <2>8
    <3> QED
      BY <1>1, <1>7, <2>4, <2>6, <3>2, <3>3 DEF x
  <2>9. CASE n # 0
    <3>1. SendChunk(raw, FALSE)
      BY <2>2, <2>9
    <3> HIDE DEF raw, rest
    <3>2. raw # <<>>
      BY <2>3, <2>4, <2>9
    <3>3. raw \o (tokcarry' \o pending') = (tokcarry \o pending) \o x
      BY <2>5, <2>6, <2>7
    <3>4. pending' \in Seq(Nat) /\ tokcarry' \in Seq(Nat)
      BY <1>7, <2>4, <2>6
    <3> QED
      BY <1>1, <2>4, <3>1, <3>2, <3>3, <3>4 DEF x
  <2> QED
    BY <2>8, <2>9
<1> QED
  BY <1>4, <1>6, <1>7

LEMMA DecodableTyped ==
  ASSUME NEW b \in Seq(Int)
  PROVE  Decodable(b) \in Seq(Int)
  BY DecodableGrows DEF Begins

(* A whole chunk, and the last one of the stream, keep the types.          *)
LEMMA ChunkTyped ==
  ASSUME VoiceAssumption, VoiceType, EncodeChunk
  PROVE  /\ k' \in Nat /\ closed' \in BOOLEAN /\ bc_open' \in BOOLEAN
         /\ onair' \in BOOLEAN /\ UNCHANGED <<tail_marker, buf, boards>>
         /\ pending' \in Seq(Nat) /\ tokcarry' \in Seq(Nat)
         /\ tx_stream' \in Seq(Int) /\ air' \in Seq(OnTheAir)
         /\ cmds' \in Seq(CommandType)
<1>1. /\ k' = k + 1 /\ UNCHANGED <<tail_marker, buf, boards>>
      /\ pending' \in Seq(Nat) /\ tokcarry' \in Seq(Nat)
      /\ \/ UNCHANGED <<closed, bc_open, tx_stream, onair, air, cmds>>
         \/ \E raw \in Seq(Nat) : SendChunk(raw, FALSE)
  BY ChunkEncoded
<1>2. k' \in Nat
  BY <1>1 DEF VoiceType, Counted
<1>3. CASE UNCHANGED <<closed, bc_open, tx_stream, onair, air, cmds>>
  BY <1>1, <1>2, <1>3 DEF VoiceType, Flagged, Streamed
<1>4. CASE \E raw \in Seq(Nat) : SendChunk(raw, FALSE)
  <2>1. PICK raw \in Seq(Nat) : SendChunk(raw, FALSE)
    BY <1>4
  <2>2. raw \in Seq(Int)
    OBVIOUS
  <2>3. Streamed /\ Flagged
    BY DEF VoiceType
  <2> QED
    BY <1>1, <1>2, <2>1, <2>2, <2>3, SendTyped
<1> QED
  BY <1>1, <1>3, <1>4

LEMMA PaddedTyped ==
  ASSUME VoiceAssumption, NEW t \in Seq(Nat), t # <<>>
  PROVE  /\ Padded(t) \in Seq(Nat) /\ Begins(t, Padded(t))
         /\ Len(Padded(t)) <= Len(t) + (Align - 1)
<1> DEFINE r == Len(t) % Align
<1>0. Len(t) \in Nat /\ Align \in Nat \ {0}
  BY DEF VoiceAssumption
<1>1. r \in 0..Align - 1 /\ Align \in Nat
  BY <1>0, ModRange
<1>2. Padded(t) = IF r = 0 THEN t
                    ELSE t \o [i \in 1..Align - r |-> t[Len(t)]]
  BY DEF Padded
<1>3. t[Len(t)] \in Nat /\ Len(t) \in Nat
  OBVIOUS
<1> HIDE DEF r
<1>4. CASE r = 0
  BY <1>1, <1>2, <1>3, <1>4 DEF Begins
<1>5. CASE r # 0
  <2> DEFINE x == [i \in 1..Align - r |-> t[Len(t)]]
  <2>1. x \in Seq(Nat) /\ Len(x) = Align - r
    BY <1>1, <1>3
  <2>2. Padded(t) = t \o x
    BY <1>2, <1>5
  <2> HIDE DEF x
  <2>3. t \o x \in Seq(Nat) /\ Len(t \o x) = Len(t) + Len(x)
    BY <2>1, Concatenated
  <2>4. Begins(t, t \o x)
    BY <2>1, BeginsConcat
  <2> QED
    BY <1>1, <1>3, <1>5, <2>1, <2>2, <2>3, <2>4
<1> QED
  BY <1>4, <1>5

LEMMA CloseTyped ==
  ASSUME VoiceAssumption, VoiceType, NEW s \in Stops, StopClose(s)
  PROVE  /\ closed' \in BOOLEAN /\ bc_open' \in BOOLEAN /\ onair' \in BOOLEAN
         /\ tail_marker' \in BOOLEAN
         /\ pending' \in Seq(Nat) /\ tokcarry' \in Seq(Nat)
         /\ tx_stream' \in Seq(Int) /\ air' \in Seq(OnTheAir)
         /\ cmds' \in Seq(CommandType)
<1> DEFINE t == tokcarry \o pending
<1>1. t \in Seq(Nat)
  BY Concatenated DEF VoiceType, Streamed
<1>2. /\ pending' \in Seq(Nat) /\ tokcarry' \in Seq(Nat)
      /\ tail_marker' \in BOOLEAN
  <2>1. <<>> \in Seq(Nat)
    OBVIOUS
  <2>2. pending' = <<>> /\ tokcarry' = <<>>
    BY DEF StopClose
  <2>3. tail_marker' = tail_marker \/ tail_marker' = TRUE
    BY DEF StopClose
  <2> QED
    BY <2>1, <2>2, <2>3 DEF VoiceType, Flagged
<1>3. \/ t # <<>> /\ SendChunk(Padded(t), TRUE)
      \/ SendChunk(<<Marker>>, TRUE)
      \/ UNCHANGED <<closed, bc_open, tx_stream, onair, air, cmds>>
  BY DEF StopClose
<1>4. t # <<>> => Padded(t) \in Seq(Int)
  <2> HIDE DEF t
  <2>1. t # <<>> => Padded(t) \in Seq(Nat)
    BY <1>1, PaddedTyped
  <2> QED
    BY <2>1
<1>5. <<Marker>> \in Seq(Int) /\ TRUE \in BOOLEAN
  BY DEF Marker
<1>6. Streamed /\ Flagged
  BY DEF VoiceType
<1> HIDE DEF t
<1>7. ASSUME NEW raw \in Seq(Int), SendChunk(raw, TRUE)
      PROVE  /\ closed' \in BOOLEAN /\ bc_open' \in BOOLEAN
             /\ onair' \in BOOLEAN
             /\ tx_stream' \in Seq(Int) /\ air' \in Seq(OnTheAir)
             /\ cmds' \in Seq(CommandType)
  BY <1>6, <1>7, SendTyped
<1>8. CASE UNCHANGED <<closed, bc_open, tx_stream, onair, air, cmds>>
  BY <1>2, <1>6, <1>8 DEF Streamed, Flagged
<1> QED
  BY <1>2, <1>3, <1>4, <1>5, <1>7, <1>8

LEMMA VoiceTyped ==
  ASSUME VoiceAssumption, VoiceType, Next
  PROVE  VoiceType'
<1>1. ASSUME Ingest
      PROVE  VoiceType'
  <2>1. UNCHANGED <<closed, bc_open, tail_marker, talking, enc_busy, boards,
                    onair, early, crossed, outlived, gaveup, pending, tokcarry,
                    tx_stream, air, cmds, rx_bytes, pcm_out, enc, dec, fin,
                    ctl>>
    BY <1>1 DEF Ingest, stream, ingest, listen, decoded, world,
                ghosts
  <2>2. Counted'
    BY <1>1 DEF Ingest, stream, ingest, listen, decoded, world,
                ghosts, VoiceType, Counted
  <2>3. Queued'
    <3>1. /\ inq' = Append(inq, posted + 1)
          /\ heard' = heard \/ heard' = Append(heard, posted + 1)
          /\ UNCHANGED <<buf, pressed>>
      BY <1>1 DEF Ingest, stream, ingest, listen, decoded, world, ghosts
    <3>2. posted + 1 \in Nat
      BY DEF VoiceType, Counted
    <3>3. inq' \in Seq(Nat) /\ Append(heard, posted + 1) \in Seq(Nat)
      BY <3>1, <3>2 DEF VoiceType, Queued
    <3> QED
      BY <3>1, <3>3 DEF VoiceType, Queued
  <2> QED
    BY <2>1, <2>2, <2>3 DEF VoiceType, Flagged, Streamed, Recorded, Threads
<1>2. ASSUME NEW e \in Encoders, EncTake(e)
      PROVE  VoiceType'
  <2>1. UNCHANGED <<gen, resets, k, dec_pos, posted, pending, tokcarry,
                    tx_stream, air, cmds, rx_bytes, pcm_out>>
    BY <1>2 DEF EncTake, IdleEnc, stream, ingest, listen,
                decoded, world, ghosts
  <2>2. Flagged'
    BY <1>2 DEF EncTake, IdleEnc, stream, ingest, listen,
                decoded, world, ghosts, VoiceType, Flagged
  <2>3. Queued'
    BY <1>2 DEF EncTake, IdleEnc, stream, ingest, listen,
                decoded, world, ghosts, VoiceType, Queued
  <2>4. Threads'
    <3>1. /\ IdleEnc \in Work
          /\ [pc |-> "taken", batch |-> inq, g |-> gen] \in Work
      BY IdleTyped DEF Work, VoiceType, Queued, Counted
    <3>2. UNCHANGED <<dec, fin, ctl>>
      BY <1>2 DEF EncTake, stream, ingest, listen, decoded, world, ghosts
    <3>3. \E w \in Work : enc' = [enc EXCEPT ![e] = w]
      BY <1>2, <3>1 DEF EncTake
    <3>4. enc' \in [Encoders -> Work]
      BY <3>3 DEF VoiceType, Threads
    <3> QED
      BY <3>2, <3>4 DEF VoiceType, Threads
  <2> QED
    BY <2>1, <2>2, <2>3, <2>4 DEF VoiceType, Counted, Streamed, Recorded
<1>3. ASSUME NEW e \in Encoders, EncExit(e)
      PROVE  VoiceType'
  <2>1. UNCHANGED <<gen, resets, k, dec_pos, posted, closed, bc_open,
                    tail_marker, talking, enc_busy, boards, onair, early,
                    crossed, outlived, gaveup, buf, inq, heard, pressed,
                    pending, tokcarry, tx_stream, air, cmds, rx_bytes,
                    pcm_out>>
    BY <1>3 DEF EncExit, stream, ingest, listen, decoded, world,
                ghosts
  <2>2. Threads'
    <3>1. UNCHANGED <<dec, fin, ctl>> /\ enc' = [enc EXCEPT ![e].pc = "off"]
      BY <1>3 DEF EncExit, stream, ingest, listen, decoded, world, ghosts
    <3> QED
      BY <3>1, EncoderMoves DEF VoiceType, Threads
  <2> QED
    BY <2>1, <2>2 DEF VoiceType, Counted, Flagged, Queued, Streamed, Recorded
<1>4. ASSUME NEW e \in Encoders, FeedEnter(e)
      PROVE  VoiceType'
  <2>1. UNCHANGED <<gen, resets, k, dec_pos, posted, pending, tokcarry,
                    tx_stream, air, cmds, rx_bytes, pcm_out>>
    BY <1>4 DEF FeedEnter, EncDone, stream, ingest, listen,
                decoded, world, ghosts
  <2>2. Flagged'
    BY <1>4 DEF FeedEnter, EncDone, stream, ingest, listen,
                decoded, world, ghosts, VoiceType, Flagged
  <2>3. Queued'
    <3>1. enc[e].batch \in Seq(Nat)
      BY DEF VoiceType, Threads, Work
    <3>2. /\ buf' = buf \/ buf' = buf \o enc[e].batch
          /\ UNCHANGED <<inq, heard, pressed>>
      BY <1>4 DEF FeedEnter, stream, ingest, listen, decoded, world, ghosts
    <3> DEFINE x == enc[e].batch
    <3>3. buf \o x \in Seq(Nat)
      BY <3>1, Concatenated DEF VoiceType, Queued
    <3> QED
      BY <3>2, <3>3 DEF VoiceType, Queued
  <2>4. Threads'
    <3>1. /\ UNCHANGED <<dec, fin, ctl>>
          /\ \/ enc' = [enc EXCEPT ![e].pc = "feed"]
             \/ enc' = [enc EXCEPT ![e] = IdleEnc]
      BY <1>4 DEF FeedEnter, EncDone, stream, ingest, listen, decoded, world,
                  ghosts
    <3>2. [enc EXCEPT ![e].pc = "feed"] \in [Encoders -> Work]
      BY EncoderMoves DEF VoiceType, Threads
    <3>3. [enc EXCEPT ![e] = IdleEnc] \in [Encoders -> Work]
      BY IdleTyped DEF VoiceType, Threads
    <3> QED
      BY <3>1, <3>2, <3>3 DEF VoiceType, Threads
  <2> QED
    BY <2>1, <2>2, <2>3, <2>4 DEF VoiceType, Counted, Streamed, Recorded
<1>5. ASSUME NEW e \in Encoders, FeedChunk(e)
      PROVE  VoiceType'
  <2>1. UNCHANGED <<rx_bytes, pcm_out, enc, dec, fin, ctl>>
    BY <1>5 DEF FeedChunk, stream, ingest, listen, decoded, world,
                ghosts
  <2>2. Counted'
    BY <1>5, ChunkTyped DEF FeedChunk, stream, ingest, listen, decoded, world,
                            ghosts, VoiceType, Counted
  <2>3. Flagged'
    BY <1>5, ChunkTyped DEF FeedChunk, stream, ingest, listen, decoded, world,
                            ghosts, VoiceType, Flagged
  <2>4. Queued'
    BY <1>5, ChunkTyped DEF FeedChunk, stream, ingest, listen, decoded, world,
                            ghosts, VoiceType, Queued
  <2>5. Streamed'
    BY <1>5, ChunkTyped DEF FeedChunk, stream, ingest, listen, decoded, world,
                            ghosts, VoiceType, Streamed
  <2> QED
    BY <2>1, <2>2, <2>3, <2>4, <2>5 DEF VoiceType, Recorded, Threads
<1>6. ASSUME NEW e \in Encoders, FeedLeave(e)
      PROVE  VoiceType'
  <2>1. UNCHANGED <<gen, resets, k, dec_pos, posted, buf, inq, heard, pressed,
                    pending, tokcarry, tx_stream, air, cmds, rx_bytes,
                    pcm_out>>
    BY <1>6 DEF FeedLeave, EncDone, stream, ingest, listen,
                decoded, world, ghosts
  <2>2. Flagged'
    BY <1>6 DEF FeedLeave, EncDone, stream, ingest, listen,
                decoded, world, ghosts, VoiceType, Flagged
  <2>3. Threads'
    <3>1. /\ UNCHANGED <<dec, fin, ctl>>
          /\ enc' = [enc EXCEPT ![e] = IdleEnc]
      BY <1>6 DEF FeedLeave, EncDone, stream, ingest, listen, decoded, world,
                  ghosts
    <3> QED
      BY <3>1, IdleTyped DEF VoiceType, Threads
  <2> QED
    BY <2>1, <2>2, <2>3 DEF VoiceType, Counted, Queued, Streamed, Recorded
<1>7. ASSUME Receive
      PROVE  VoiceType'
  <2>1. UNCHANGED <<gen, resets, k, dec_pos, posted, closed, bc_open,
                    tail_marker, talking, enc_busy, boards, onair, early,
                    crossed, outlived, gaveup, buf, inq, heard, pressed, enc,
                    dec, fin, ctl>>
    BY <1>7 DEF Receive, stream, ingest, listen, decoded, world,
                ghosts
  <2>2. Streamed'
    BY <1>7 DEF Receive, stream, ingest, listen, decoded, world, ghosts,
                VoiceType, Streamed
  <2>3. Recorded'
    <3>1. Head(air) \in OnTheAir
      BY <1>7 DEF Receive, VoiceType, Streamed
    <3>2. Head(air).raw \in Seq(Int)
      BY <3>1 DEF OnTheAir
    <3>3. rx_bytes \o Head(air).raw \in Seq(Int)
      BY <3>2, Concatenated DEF VoiceType, Recorded
    <3>4. /\ rx_bytes' = rx_bytes \/ rx_bytes' = rx_bytes \o Head(air).raw
          /\ pcm_out' = pcm_out
      BY <1>7 DEF Receive, stream, ingest, listen, decoded, world, ghosts
    <3> QED
      BY <3>3, <3>4 DEF VoiceType, Recorded
  <2> QED
    BY <2>1, <2>2, <2>3 DEF VoiceType, Counted, Flagged, Queued, Threads
<1>8. ASSUME Fade
      PROVE  VoiceType'
  <2>1. UNCHANGED <<gen, resets, k, dec_pos, posted, closed, bc_open,
                    tail_marker, talking, enc_busy, boards, onair, early,
                    crossed, outlived, gaveup, buf, inq, heard, pressed,
                    rx_bytes, pcm_out, enc, dec, fin, ctl>>
    BY <1>8 DEF Fade, stream, ingest, listen, decoded, world,
                ghosts
  <2>2. Streamed'
    BY <1>8 DEF Fade, stream, ingest, listen, decoded, world, ghosts,
                VoiceType, Streamed
  <2> QED
    BY <2>1, <2>2 DEF VoiceType, Counted, Flagged, Queued, Recorded, Threads
<1>9. ASSUME NEW d \in Decoders, DecLook(d)
      PROVE  VoiceType'
  <2>1. UNCHANGED <<gen, resets, k, dec_pos, posted, closed, bc_open,
                    tail_marker, talking, enc_busy, boards, onair, early,
                    crossed, outlived, gaveup, buf, inq, heard, pressed,
                    pending, tokcarry, tx_stream, air, cmds, rx_bytes,
                    pcm_out>>
    BY <1>9 DEF DecLook, stream, ingest, listen, decoded, world,
                ghosts
  <2>2. Threads'
    <3>1. UNCHANGED <<enc, fin, ctl>>
      BY <1>9 DEF DecLook, stream, ingest, listen, decoded, world, ghosts
    <3>2. dec' \in [Decoders -> Vocoding]
      <4>1. Len(Decodable(rx_bytes)) \in Nat /\ resets \in Nat
        BY DecodableTyped DEF VoiceType, Recorded, Counted
      <4> DEFINE n == Len(Decodable(rx_bytes))
      <4>2. dec' = [dec EXCEPT ![d].pc = "looked", ![d].avail = n,
                               ![d].seen = resets]
        BY <1>9 DEF DecLook
      <4> HIDE DEF n
      <4> QED
        BY <4>1, <4>2 DEF n, VoiceType, Threads, Vocoding
    <3> QED
      BY <3>1, <3>2 DEF VoiceType, Threads
  <2> QED
    BY <2>1, <2>2 DEF VoiceType, Counted, Flagged, Queued, Streamed, Recorded
<1>10. ASSUME NEW d \in Decoders, DecVocode(d)
      PROVE  VoiceType'
  <2>1. UNCHANGED <<gen, resets, k, dec_pos, posted, buf, inq, heard, pressed,
                    pending, tokcarry, tx_stream, air, cmds, rx_bytes,
                    pcm_out>>
    BY <1>10 DEF DecVocode, stream, ingest, listen, decoded, world,
                 ghosts
  <2>2. Flagged'
    BY <1>10 DEF DecVocode, stream, ingest, listen, decoded, world,
                 ghosts, VoiceType, Flagged
  <2>3. Threads'
    <3>1. UNCHANGED <<enc, fin, ctl>>
      BY <1>10 DEF DecVocode, stream, ingest, listen, decoded, world, ghosts
    <3>2. dec' \in [Decoders -> Vocoding]
      <4>1. /\ Decodable(rx_bytes) \in Seq(Int)
            /\ dec[d].avail \in Nat /\ dec_pos \in Nat /\ gen \in Nat
            /\ Ahead \in Nat /\ TokenChunk \in Nat \ {0}
        BY DecodableTyped
        DEF VoiceType, Recorded, Counted, Threads, Vocoding, VoiceAssumption
      <4> DEFINE usable == dec[d].avail - Ahead
                 steps == (usable - dec_pos) \div TokenChunk
                 hi == dec_pos + steps * TokenChunk
                 tokens == Decodable(rx_bytes)
                 clamped == IF hi < Len(tokens) THEN hi ELSE Len(tokens)
                 w == [pc |-> "vocoded", avail |-> 0, g |-> gen,
                       lo |-> dec_pos, hi |-> hi,
                       y |-> SubSeq(tokens, dec_pos + 1, clamped), seen |-> 0]
      <4>2. \/ dec' = [dec EXCEPT ![d] = IdleDec]
            \/ dec' = [dec EXCEPT ![d] = w] /\ ~ clamped <= dec_pos
        BY <1>10 DEF DecVocode
      <4>3. hi \in Int
        <5>1. steps \in Int
          BY <4>1
        <5> HIDE DEF steps
        <5>2. steps * TokenChunk \in Int
          BY <4>1, <5>1, SMTT(30)
        <5> DEFINE more == steps * TokenChunk
        <5> HIDE DEF more
        <5>3. dec_pos + more \in Int
          BY <4>1, <5>2 DEF more
        <5> QED
          BY <5>3 DEF more
      <4> HIDE DEF hi, tokens
      <4>4. ~ clamped <= dec_pos => w \in Vocoding
        <5> SUFFICES ASSUME ~ clamped <= dec_pos PROVE w \in Vocoding
          OBVIOUS
        <5>1. tokens \in Seq(Int) /\ Len(tokens) \in Nat
          BY <4>1 DEF tokens
        <5>2. hi \in Nat /\ clamped \in Nat /\ clamped <= Len(tokens)
          BY <4>1, <4>3, <5>1
        <5> HIDE DEF clamped
        <5>3. SubSeq(tokens, dec_pos + 1, clamped) \in Seq(Int)
          BY <4>1, <5>1, <5>2
        <5> QED
          BY <4>1, <5>2, <5>3 DEF Vocoding
      <4> HIDE DEF w, clamped
      <4> QED
        BY <4>2, <4>4, IdleTyped DEF VoiceType, Threads
    <3> QED
      BY <3>1, <3>2 DEF VoiceType, Threads
  <2> QED
    BY <2>1, <2>2, <2>3 DEF VoiceType, Counted, Queued, Streamed, Recorded
<1>11. ASSUME NEW d \in Decoders, DecCommit(d)
      PROVE  VoiceType'
  <2>1. UNCHANGED <<closed, bc_open, tail_marker, talking, enc_busy, boards,
                    onair, early, crossed, outlived, gaveup, buf, inq, heard,
                    pressed, pending, tokcarry, tx_stream, air, cmds>>
    BY <1>11 DEF DecCommit, stream, ingest, listen, decoded, world,
                 ghosts
  <2>2. Counted'
    BY <1>11 DEF DecCommit, stream, ingest, listen, decoded, world, ghosts,
                 VoiceType, Counted, Threads, Vocoding
  <2>3. Recorded'
    <3>1. dec[d].y \in Seq(Int)
      BY DEF VoiceType, Threads, Vocoding
    <3> QED
      <4>1. pcm_out \o dec[d].y \in Seq(Int)
        BY <3>1, Concatenated DEF VoiceType, Recorded
      <4>2. /\ pcm_out' = pcm_out \/ pcm_out' = pcm_out \o dec[d].y
            /\ rx_bytes' = rx_bytes
        BY <1>11 DEF DecCommit, stream, ingest, listen, decoded, world, ghosts
      <4> QED
        BY <4>1, <4>2 DEF VoiceType, Recorded
  <2>4. Threads'
    BY <1>11, IdleTyped DEF DecCommit, stream, ingest, listen, decoded, world,
                            ghosts, VoiceType, Threads
  <2> QED
    BY <2>1, <2>2, <2>3, <2>4 DEF VoiceType, Flagged, Queued, Streamed
<1>12. ASSUME NEW d \in Decoders, DecExit(d)
      PROVE  VoiceType'
  <2>1. UNCHANGED <<gen, resets, k, dec_pos, posted, closed, bc_open,
                    tail_marker, talking, enc_busy, boards, onair, early,
                    crossed, outlived, gaveup, buf, inq, heard, pressed,
                    pending, tokcarry, tx_stream, air, cmds, rx_bytes,
                    pcm_out>>
    BY <1>12 DEF DecExit, stream, ingest, listen, decoded, world,
                 ghosts
  <2>2. Threads'
    <3>1. UNCHANGED <<enc, fin, ctl>> /\ dec' = [dec EXCEPT ![d].pc = "off"]
      BY <1>12 DEF DecExit, stream, ingest, listen, decoded, world, ghosts
    <3>2. dec' \in [Decoders -> Vocoding]
      BY <3>1 DEF VoiceType, Threads, Vocoding
    <3> QED
      BY <3>1, <3>2 DEF VoiceType, Threads
  <2> QED
    BY <2>1, <2>2 DEF VoiceType, Counted, Flagged, Queued, Streamed, Recorded
<1>13. ASSUME NEW s \in Stops, StopPressed(s)
      PROVE  VoiceType'
  <2>1. UNCHANGED <<gen, resets, k, dec_pos, posted, pending, tokcarry,
                    tx_stream, air, cmds, rx_bytes, pcm_out>>
    BY <1>13 DEF StopPressed, stream, ingest, listen, decoded,
                 world, ghosts
  <2>2. Flagged'
    BY <1>13 DEF StopPressed, stream, ingest, listen, decoded,
                 world, ghosts, VoiceType, Flagged
  <2>3. Queued'
    BY <1>13 DEF StopPressed, stream, ingest, listen, decoded,
                 world, ghosts, VoiceType, Queued
  <2>4. Threads'
    <3>1. UNCHANGED <<enc, dec, ctl>> /\ fin' = [fin EXCEPT ![s].pc = "drain"]
      BY <1>13 DEF StopPressed, stream, ingest, listen, decoded, world, ghosts
    <3>2. [fin EXCEPT ![s].pc = "drain"] \in [Stops -> Finishing]
      BY DEF VoiceType, Threads, Finishing
    <3> QED
      BY <3>1, <3>2 DEF VoiceType, Threads
  <2> QED
    BY <2>1, <2>2, <2>3, <2>4 DEF VoiceType, Counted, Streamed, Recorded
<1>14. ASSUME NEW s \in Stops, StopDrained(s)
      PROVE  VoiceType'
  <2>1. UNCHANGED <<gen, resets, k, dec_pos, posted, closed, bc_open,
                    tail_marker, talking, enc_busy, boards, onair, early,
                    crossed, outlived, gaveup, buf, inq, heard, pressed,
                    pending, tokcarry, tx_stream, air, cmds, rx_bytes,
                    pcm_out>>
    BY <1>14 DEF StopDrained, stream, ingest, listen, decoded,
                 world, ghosts
  <2>2. Threads'
    <3>1. UNCHANGED <<enc, dec, ctl>> /\ fin' = [fin EXCEPT ![s].pc = "lock"]
      BY <1>14 DEF StopDrained, stream, ingest, listen, decoded, world, ghosts
    <3>2. [fin EXCEPT ![s].pc = "lock"] \in [Stops -> Finishing]
      BY DEF VoiceType, Threads, Finishing
    <3> QED
      BY <3>1, <3>2 DEF VoiceType, Threads
  <2> QED
    BY <2>1, <2>2 DEF VoiceType, Counted, Flagged, Queued, Streamed, Recorded
<1>15. ASSUME NEW s \in Stops, StopGivesUp(s)
      PROVE  VoiceType'
  <2>1. UNCHANGED <<gen, resets, k, dec_pos, posted, buf, inq, heard, pressed,
                    pending, tokcarry, tx_stream, air, cmds, rx_bytes,
                    pcm_out>>
    BY <1>15 DEF StopGivesUp, stream, ingest, listen, decoded,
                 world, ghosts
  <2>2. Flagged'
    BY <1>15 DEF StopGivesUp, stream, ingest, listen, decoded,
                 world, ghosts, VoiceType, Flagged
  <2>3. Threads'
    <3>1. UNCHANGED <<enc, dec, ctl>> /\ fin' = [fin EXCEPT ![s].pc = "lock"]
      BY <1>15 DEF StopGivesUp, stream, ingest, listen, decoded, world, ghosts
    <3>2. [fin EXCEPT ![s].pc = "lock"] \in [Stops -> Finishing]
      BY DEF VoiceType, Threads, Finishing
    <3> QED
      BY <3>1, <3>2 DEF VoiceType, Threads
  <2> QED
    BY <2>1, <2>2, <2>3 DEF VoiceType, Counted, Queued, Streamed, Recorded
<1>16. ASSUME NEW s \in Stops, StopFlush(s)
      PROVE  VoiceType'
  <2>1. UNCHANGED <<gen, resets, k, dec_pos, posted, pending, tokcarry,
                    tx_stream, air, cmds, rx_bytes, pcm_out>>
    BY <1>16 DEF StopFlush, stream, ingest, listen, decoded, world,
                 ghosts
  <2>2. Flagged'
    BY <1>16 DEF StopFlush, stream, ingest, listen, decoded, world,
                 ghosts, VoiceType, Flagged
  <2>3. Queued'
    <3>1. <<Silence, Silence>> \in Seq(Nat)
      BY DEF Silence
    <3>2. buf' \in Seq(Nat) /\ UNCHANGED <<inq, heard, pressed>>
      BY <1>16, <3>1 DEF StopFlush, stream, ingest, listen, decoded, world,
                         ghosts, VoiceType, Queued
    <3> QED
      BY <3>2 DEF VoiceType, Queued
  <2>4. Threads'
    <3>1. UNCHANGED <<enc, dec, ctl>> /\ fin' = [fin EXCEPT ![s].pc = "flush"]
      BY <1>16 DEF StopFlush, stream, ingest, listen, decoded, world, ghosts
    <3>2. [fin EXCEPT ![s].pc = "flush"] \in [Stops -> Finishing]
      BY DEF VoiceType, Threads, Finishing
    <3> QED
      BY <3>1, <3>2 DEF VoiceType, Threads
  <2> QED
    BY <2>1, <2>2, <2>3, <2>4 DEF VoiceType, Counted, Streamed, Recorded
<1>17. ASSUME NEW s \in Stops, StopChunk(s)
      PROVE  VoiceType'
  <2>1. UNCHANGED <<rx_bytes, pcm_out, enc, dec, fin, ctl>>
    BY <1>17 DEF StopChunk, stream, ingest, listen, decoded, world,
                 ghosts
  <2>2. Counted'
    BY <1>17, ChunkTyped DEF StopChunk, stream, ingest, listen, decoded, world,
                             ghosts, VoiceType, Counted
  <2>3. Flagged'
    BY <1>17, ChunkTyped DEF StopChunk, stream, ingest, listen, decoded, world,
                             ghosts, VoiceType, Flagged
  <2>4. Queued'
    BY <1>17, ChunkTyped DEF StopChunk, stream, ingest, listen, decoded, world,
                             ghosts, VoiceType, Queued
  <2>5. Streamed'
    BY <1>17, ChunkTyped DEF StopChunk, stream, ingest, listen, decoded, world,
                             ghosts, VoiceType, Streamed
  <2> QED
    BY <2>1, <2>2, <2>3, <2>4, <2>5 DEF VoiceType, Recorded, Threads
<1>18. ASSUME NEW s \in Stops, StopClose(s)
      PROVE  VoiceType'
  <2>1. UNCHANGED <<gen, resets, k, dec_pos, posted, buf, inq, heard, pressed,
                    rx_bytes, pcm_out>>
    BY <1>18 DEF StopClose, Answer, stream, ingest, listen,
                 decoded, world, ghosts
  <2>2. Flagged'
    BY <1>18, CloseTyped DEF StopClose, stream, ingest, listen, decoded, world,
                             ghosts, VoiceType, Flagged
  <2>3. Streamed'
    BY <1>18, CloseTyped DEF StopClose, stream, ingest, listen, decoded, world,
                             ghosts, VoiceType, Streamed
  <2>4. Threads'
    <3>1. /\ UNCHANGED <<enc, dec, ctl>>
          /\ \/ fin' = [fin EXCEPT ![s].pc = "wait"]
             \/ fin' = [fin EXCEPT ![s] = IdleFin]
      BY <1>18 DEF StopClose, Answer, stream, ingest, listen, decoded, world,
                   ghosts
    <3>2. [fin EXCEPT ![s].pc = "wait"] \in [Stops -> Finishing]
      BY DEF VoiceType, Threads, Finishing
    <3>3. [fin EXCEPT ![s] = IdleFin] \in [Stops -> Finishing]
      BY IdleTyped DEF VoiceType, Threads
    <3> QED
      BY <3>1, <3>2, <3>3 DEF VoiceType, Threads
  <2> QED
    BY <2>1, <2>2, <2>3, <2>4 DEF VoiceType, Counted, Queued, Recorded
<1>19. ASSUME NEW s \in Stops, StopRaises(s)
      PROVE  VoiceType'
  <2>1. UNCHANGED <<gen, resets, k, dec_pos, posted, closed, bc_open,
                    tail_marker, talking, enc_busy, boards, onair, early,
                    crossed, outlived, gaveup, buf, inq, heard, pressed,
                    pending, tokcarry, tx_stream, air, cmds, rx_bytes,
                    pcm_out>>
    BY <1>19 DEF StopRaises, Answer, stream, ingest, listen,
                 decoded, world, ghosts
  <2>2. Threads'
    BY <1>19, IdleTyped DEF StopRaises, stream, ingest, listen, decoded, world,
                            ghosts, Answer, VoiceType, Threads
  <2> QED
    BY <2>1, <2>2 DEF VoiceType, Counted, Flagged, Queued, Streamed, Recorded
<1>20. ASSUME NEW s \in Stops, StopWaited(s)
      PROVE  VoiceType'
  <2>1. UNCHANGED <<gen, resets, k, dec_pos, posted, closed, bc_open,
                    tail_marker, talking, enc_busy, boards, onair, early,
                    crossed, outlived, gaveup, buf, inq, heard, pressed,
                    pending, tokcarry, tx_stream, air, cmds, rx_bytes,
                    pcm_out>>
    BY <1>20 DEF StopWaited, Answer, stream, ingest, listen,
                 decoded, world, ghosts
  <2>2. Threads'
    <3> DEFINE b == IF tail_marker THEN Front(rx_bytes) ELSE rx_bytes
               w == Decodable(b)
    <3>1. /\ UNCHANGED <<enc, dec, ctl>>
          /\ \/ /\ fin' = [fin EXCEPT ![s].pc = "snap", ![s].data = w]
                /\ rx_bytes # <<>>
             \/ fin' = [fin EXCEPT ![s] = IdleFin]
      BY <1>20 DEF StopWaited, Answer, stream, ingest, listen, decoded, world,
                   ghosts
    <3>2. rx_bytes # <<>> => b \in Seq(Int)
      BY DEF VoiceType, Recorded, Front
    <3>3. rx_bytes # <<>> => w \in Seq(Int)
      BY <3>2, DecodableTyped
    <3> HIDE DEF w
    <3>4. CASE fin' = [fin EXCEPT ![s] = IdleFin]
      BY <3>1, <3>4, IdleTyped DEF VoiceType, Threads
    <3>5. CASE /\ fin' = [fin EXCEPT ![s].pc = "snap", ![s].data = w]
               /\ rx_bytes # <<>>
      <4>1. fin' \in [Stops -> Finishing]
        BY <3>3, <3>5 DEF VoiceType, Threads, Finishing
      <4> QED
        BY <3>1, <4>1 DEF VoiceType, Threads
    <3> QED
      BY <3>1, <3>4, <3>5
  <2> QED
    BY <2>1, <2>2 DEF VoiceType, Counted, Flagged, Queued, Streamed, Recorded
<1>21. ASSUME NEW s \in Stops, StopSnapshot(s)
      PROVE  VoiceType'
  <2>1. UNCHANGED <<gen, resets, k, dec_pos, posted, closed, bc_open,
                    tail_marker, talking, enc_busy, boards, onair, early,
                    crossed, outlived, gaveup, buf, inq, heard, pressed,
                    pending, tokcarry, tx_stream, air, cmds, rx_bytes,
                    pcm_out>>
    BY <1>21 DEF StopSnapshot, stream, ingest, listen, decoded,
                 world, ghosts
  <2>2. Threads'
    <3> DEFINE n == Len(fin[s].data)
               done == IF dec_pos < n THEN dec_pos ELSE n
               upto == IF done < Len(pcm_out) THEN done ELSE Len(pcm_out)
               h == SubSeq(pcm_out, 1, upto)
    <3>1. /\ UNCHANGED <<enc, dec, ctl>>
          /\ fin' = [fin EXCEPT ![s].pc = "write", ![s].done = done,
                                ![s].head = h]
      BY <1>21 DEF StopSnapshot, stream, ingest, listen, decoded, world, ghosts
    <3>2. n \in Nat /\ pcm_out \in Seq(Int) /\ dec_pos \in Nat
      BY DEF VoiceType, Threads, Finishing, Recorded, Counted
    <3>3. done \in Nat
      BY <3>2
    <3> HIDE DEF done
    <3>4. h \in Seq(Int)
      BY <3>2, <3>3
    <3> HIDE DEF h
    <3>5. fin' \in [Stops -> Finishing]
      BY <3>1, <3>3, <3>4 DEF VoiceType, Threads, Finishing
    <3> QED
      BY <3>1, <3>5 DEF VoiceType, Threads
  <2> QED
    BY <2>1, <2>2 DEF VoiceType, Counted, Flagged, Queued, Streamed, Recorded
<1>22. ASSUME NEW s \in Stops, StopWrite(s)
      PROVE  VoiceType'
  <2>1. UNCHANGED <<gen, resets, k, dec_pos, posted, closed, bc_open,
                    tail_marker, talking, enc_busy, boards, onair, early,
                    crossed, outlived, gaveup, buf, inq, heard, pressed,
                    pending, tokcarry, tx_stream, air, cmds, rx_bytes,
                    pcm_out>>
    BY <1>22 DEF StopWrite, Answer, stream, ingest, listen,
                 decoded, world, ghosts
  <2>2. Threads'
    BY <1>22, IdleTyped DEF StopWrite, stream, ingest, listen, decoded, world,
                            ghosts, Answer, VoiceType, Threads
  <2> QED
    BY <2>1, <2>2 DEF VoiceType, Counted, Flagged, Queued, Streamed, Recorded
<1>23. ASSUME NEW talk \in BOOLEAN, ResetBegins(talk)
      PROVE  VoiceType'
  <2>1. UNCHANGED <<pending, tokcarry, tx_stream, air, cmds>>
    BY <1>23 DEF ResetBegins, stream, ingest, listen, decoded,
                 world, ghosts
  <2>2. Counted'
    BY <1>23 DEF ResetBegins, stream, ingest, listen, decoded,
                 world, ghosts, VoiceType, Counted
  <2>3. Flagged'
    BY <1>23 DEF ResetBegins, stream, ingest, listen, decoded,
                 world, ghosts, VoiceType, Flagged
  <2>4. Queued'
    BY <1>23 DEF ResetBegins, stream, ingest, listen, decoded,
                 world, ghosts, VoiceType, Queued
  <2>5. Recorded'
    BY <1>23 DEF ResetBegins, stream, ingest, listen, decoded,
                 world, ghosts, VoiceType, Recorded
  <2>6. Threads'
    BY <1>23 DEF ResetBegins, stream, ingest, listen, decoded, world, ghosts,
                 VoiceType, Threads, Controlling
  <2> QED
    BY <2>1, <2>2, <2>3, <2>4, <2>5, <2>6 DEF VoiceType, Streamed
<1>24. ASSUME ResetEnds
      PROVE  VoiceType'
  <2>1. UNCHANGED <<>>
    BY <1>24 DEF ResetEnds, stream, ingest, listen, decoded, world,
                 ghosts
  <2>2. Counted'
    BY <1>24 DEF ResetEnds, stream, ingest, listen, decoded, world,
                 ghosts, VoiceType, Counted
  <2>3. Flagged'
    BY <1>24 DEF ResetEnds, stream, ingest, listen, decoded, world,
                 ghosts, VoiceType, Flagged
  <2>4. Queued'
    BY <1>24 DEF ResetEnds, stream, ingest, listen, decoded, world,
                 ghosts, VoiceType, Queued
  <2>5. Streamed'
    BY <1>24 DEF ResetEnds, stream, ingest, listen, decoded, world,
                 ghosts, VoiceType, Streamed
  <2>6. Recorded'
    BY <1>24 DEF ResetEnds, stream, ingest, listen, decoded, world,
                 ghosts, VoiceType, Recorded
  <2>7. Threads'
    <3>1. ctl.talk \in BOOLEAN /\ UNCHANGED <<enc, dec, fin>>
      BY <1>24 DEF ResetEnds, stream, ingest, listen, decoded, world, ghosts,
                   VoiceType, Threads, Controlling
    <3>2. ctl' \in Controlling
      BY <1>24, ControlMoves DEF ResetEnds, VoiceType, Threads
    <3> QED
      BY <3>1, <3>2 DEF VoiceType, Threads
  <2> QED
    BY <2>1, <2>2, <2>3, <2>4, <2>5, <2>6, <2>7 DEF VoiceType
<1>25. ASSUME Talk
      PROVE  VoiceType'
  <2>1. UNCHANGED <<gen, resets, k, dec_pos, posted, buf, inq, heard, pressed,
                    pending, tokcarry, tx_stream, air, cmds, rx_bytes,
                    pcm_out>>
    BY <1>25 DEF Talk, stream, ingest, listen, decoded, world,
                 ghosts
  <2>2. Flagged'
    BY <1>25 DEF Talk, stream, ingest, listen, decoded, world,
                 ghosts, VoiceType, Flagged
  <2>3. Threads'
    BY <1>25, ControlMoves DEF Talk, stream, ingest, listen, decoded, world,
                               ghosts, VoiceType, Threads
  <2> QED
    BY <2>1, <2>2, <2>3 DEF VoiceType, Counted, Queued, Streamed, Recorded
<1>26. ASSUME SelectPressed
      PROVE  VoiceType'
  <2>1. UNCHANGED <<gen, resets, k, dec_pos, posted, closed, bc_open,
                    tail_marker, talking, enc_busy, boards, onair, early,
                    crossed, outlived, gaveup, buf, inq, heard, pressed,
                    pending, tokcarry, tx_stream, air, cmds, rx_bytes,
                    pcm_out>>
    BY <1>26 DEF SelectPressed, stream, ingest, listen, decoded,
                 world, ghosts
  <2>2. Threads'
    BY <1>26 DEF SelectPressed, stream, ingest, listen, decoded, world, ghosts,
                 VoiceType, Threads, Controlling
  <2> QED
    BY <2>1, <2>2 DEF VoiceType, Counted, Flagged, Queued, Streamed, Recorded
<1>27. ASSUME Joined
      PROVE  VoiceType'
  <2>1. UNCHANGED <<gen, resets, k, dec_pos, posted, buf, inq, heard, pressed,
                    pending, tokcarry, tx_stream, air, cmds, rx_bytes,
                    pcm_out>>
    BY <1>27 DEF Joined, stream, ingest, listen, decoded, world,
                 ghosts
  <2>2. Flagged'
    BY <1>27 DEF Joined, stream, ingest, listen, decoded, world,
                 ghosts, VoiceType, Flagged
  <2>3. Threads'
    BY <1>27, ControlMoves DEF Joined, stream, ingest, listen, decoded, world,
                               ghosts, VoiceType, Threads
  <2> QED
    BY <2>1, <2>2, <2>3 DEF VoiceType, Counted, Queued, Streamed, Recorded
<1>28. ASSUME Opened
      PROVE  VoiceType'
  <2>1. UNCHANGED <<gen, resets, k, dec_pos, posted, buf, inq, heard, pressed,
                    rx_bytes, pcm_out>>
    BY <1>28 DEF Opened, stream, ingest, listen, decoded, world,
                 ghosts
  <2>2. Flagged'
    BY <1>28 DEF Opened, stream, ingest, listen, decoded, world,
                 ghosts, VoiceType, Flagged
  <2>3. Streamed'
    BY <1>28 DEF Opened, stream, ingest, listen, decoded, world,
                 ghosts, VoiceType, Streamed
  <2>4. Threads'
    <3>1. /\ UNCHANGED fin
          /\ enc' = [enc EXCEPT ![Unused(enc)] = IdleEnc]
          /\ dec' = [dec EXCEPT ![Unused(dec)] = IdleDec]
          /\ ctl' = [ctl EXCEPT !.pc = "reset"]
      BY <1>28 DEF Opened
    <3>2. ctl' \in Controlling
      BY <3>1, ControlMoves DEF VoiceType, Threads
    <3>3. enc' \in [Encoders -> Work] /\ dec' \in [Decoders -> Vocoding]
      BY <3>1, IdleTyped DEF VoiceType, Threads
    <3> QED
      BY <3>1, <3>2, <3>3 DEF VoiceType, Threads
  <2> QED
    BY <2>1, <2>2, <2>3, <2>4 DEF VoiceType, Counted, Queued, Recorded
<1> QED
  BY <1>1, <1>2, <1>3, <1>4, <1>5, <1>6, <1>7, <1>8, <1>9, <1>10, <1>11, <1>12,
     <1>13, <1>14, <1>15, <1>16, <1>17, <1>18, <1>19, <1>20, <1>21, <1>22,
     <1>23, <1>24, <1>25, <1>26, <1>27, <1>28
     DEF Next, Encoding, Decoding, Stopping, Control

-----------------------------------------------------------------------------
(* The threads of the voice server: at most one encoder works, the airlock  *)
(* is held by the thread that says so, the boards are closed only between  *)
(* two links, and a batch is never of a generation to come.                *)
Locked == {"flush", "wait", "snap", "write"}
Takes(e) == enc[e].pc = "taken" /\ enc[e].g = gen
Flushing == \E s \in Stops : fin[s].pc = "flush"

Workers ==
  ~outlived =>
    /\ \A e, f \in Encoders : enc[e].pc # "off" /\ enc[f].pc # "off" => e = f
    /\ \A e \in Encoders : enc[e].pc = "taken" => enc_busy
Locks ==
  /\ \A e \in Encoders : enc[e].pc = "feed" <=> airlock = e
  /\ \A s \in Stops : fin[s].pc \in Locked <=> airlock = s
  /\ ctl.pc = "clear" <=> airlock = "ctl"
  /\ boards <=> ctl.pc # "open"
Generations ==
  /\ resets <= gen
  /\ ctl.pc = "clear" <=> resets # gen
  /\ \A e \in Encoders : enc[e].pc = "taken" => enc[e].g <= gen
  /\ ctl.pc = "clear" =>
       ~closed /\ buf = <<>>

(* What open starts: one worker of each kind that was not running.         *)
LEMMA OpenedStarts ==
  ASSUME VoiceType, Opened
  PROVE  /\ \E e \in Encoders : /\ enc[e].pc = "off"
                               /\ enc' = [enc EXCEPT ![e] = IdleEnc]
         /\ \E d \in Decoders : /\ dec[d].pc = "off"
                               /\ dec' = [dec EXCEPT ![d] = IdleDec]
<1>1. DOMAIN enc = Encoders /\ DOMAIN dec = Decoders
  BY DEF VoiceType, Threads
<1>2. Unused(enc) \in Encoders /\ enc[Unused(enc)].pc = "off"
  BY <1>1 DEF Opened, Unused
<1>3. Unused(dec) \in Decoders /\ dec[Unused(dec)].pc = "off"
  BY <1>1 DEF Opened, Unused
<1>4. /\ enc' = [enc EXCEPT ![Unused(enc)] = IdleEnc]
      /\ dec' = [dec EXCEPT ![Unused(dec)] = IdleDec]
  BY DEF Opened
<1> QED
  BY <1>2, <1>3, <1>4

LEMMA WorkersStep ==
  ASSUME VoiceType, Workers, Next
  PROVE  Workers'
<1>1. ASSUME NEW e \in Encoders, EncTake(e)
      PROVE  Workers'
  BY <1>1 DEF EncTake, IdleEnc, stream, ingest, listen,
              decoded, world, ghosts, VoiceType, Threads, Work, Workers
<1>2. ASSUME NEW e \in Encoders, EncExit(e)
      PROVE  Workers'
  BY <1>2 DEF EncExit, stream, ingest, listen, decoded, world,
              ghosts, VoiceType, Threads, Work, Workers
<1>3. ASSUME NEW e \in Encoders, FeedEnter(e)
      PROVE  Workers'
  <2>1. /\ enc[e].pc = "taken" /\ airlock = Nobody
        /\ UNCHANGED outlived
        /\ \/ /\ enc' = [enc EXCEPT ![e] = IdleEnc]
              /\ enc_busy' = FALSE /\ UNCHANGED airlock
           \/ /\ enc' = [enc EXCEPT ![e].pc = "feed"]
              /\ airlock' = e /\ UNCHANGED enc_busy
    BY <1>3 DEF FeedEnter, EncDone, stream, ingest, listen, decoded, world,
                ghosts
  <2>2. CASE /\ enc' = [enc EXCEPT ![e] = IdleEnc]
             /\ enc_busy' = FALSE /\ UNCHANGED airlock
    BY <2>1, <2>2 DEF IdleEnc, VoiceType, Threads, Work, Workers
  <2>3. CASE /\ enc' = [enc EXCEPT ![e].pc = "feed"]
             /\ airlock' = e /\ UNCHANGED enc_busy
    BY <2>1, <2>3 DEF VoiceType, Threads, Work, Workers
  <2> QED
    BY <2>1, <2>2, <2>3
<1>4. ASSUME NEW e \in Encoders, FeedLeave(e)
      PROVE  Workers'
  BY <1>4 DEF FeedLeave, EncDone, IdleEnc, stream, ingest, listen,
              decoded, world, ghosts, VoiceType, Threads, Work, Workers
<1>5. ASSUME NEW talk \in BOOLEAN, ResetBegins(talk)
      PROVE  Workers'
  BY <1>5 DEF ResetBegins, stream, ingest, listen, decoded, world,
              ghosts, VoiceType, Threads, Work, Workers
<1>6. ASSUME ResetEnds
      PROVE  Workers'
  BY <1>6 DEF ResetEnds, stream, ingest, listen, decoded, world,
              ghosts, VoiceType, Threads, Work, Workers
<1>7. ASSUME Talk
      PROVE  Workers'
  BY <1>7 DEF Talk, stream, ingest, listen, decoded, world,
              ghosts, VoiceType, Threads, Work, Workers
<1>8. ASSUME SelectPressed
      PROVE  Workers'
  BY <1>8 DEF SelectPressed, stream, ingest, listen, decoded,
              world, ghosts, VoiceType, Threads, Work,
              Workers
<1>9. ASSUME Joined
      PROVE  Workers'
  BY <1>9 DEF Joined, stream, ingest, listen, decoded, world,
              ghosts, VoiceType, Threads, Work, Workers
<1>10. ASSUME Opened
      PROVE  Workers'
  BY <1>10 DEF Opened, IdleEnc, IdleDec, stream, ingest, listen,
               decoded, world, ghosts, VoiceType, Threads, Work, Workers
<1>11. CASE UNCHANGED <<enc, enc_busy, outlived>>
  BY <1>11 DEF Workers
<1>12. ASSUME Ingest
      PROVE  UNCHANGED <<enc, enc_busy, outlived>>
  BY <1>12 DEF Ingest, stream, ingest, listen, decoded, world,
               ghosts
<1>13. ASSUME Receive
      PROVE  UNCHANGED <<enc, enc_busy, outlived>>
  BY <1>13 DEF Receive, stream, ingest, listen, decoded, world,
               ghosts
<1>14. ASSUME Fade
      PROVE  UNCHANGED <<enc, enc_busy, outlived>>
  BY <1>14 DEF Fade, stream, ingest, listen, decoded, world,
               ghosts
<1>15. ASSUME NEW e \in Encoders, FeedChunk(e)
      PROVE  UNCHANGED <<enc, enc_busy, outlived>>
  BY <1>15 DEF FeedChunk, EncodeChunk, stream, ingest, listen,
               decoded, world, ghosts
<1>16. ASSUME NEW d \in Decoders, DecLook(d)
      PROVE  UNCHANGED <<enc, enc_busy, outlived>>
  BY <1>16 DEF DecLook, stream, ingest, listen, decoded, world,
               ghosts
<1>17. ASSUME NEW d \in Decoders, DecVocode(d)
      PROVE  UNCHANGED <<enc, enc_busy, outlived>>
  BY <1>17 DEF DecVocode, stream, ingest, listen, decoded, world,
               ghosts
<1>18. ASSUME NEW d \in Decoders, DecCommit(d)
      PROVE  UNCHANGED <<enc, enc_busy, outlived>>
  BY <1>18 DEF DecCommit, stream, ingest, listen, decoded, world,
               ghosts
<1>19. ASSUME NEW d \in Decoders, DecExit(d)
      PROVE  UNCHANGED <<enc, enc_busy, outlived>>
  BY <1>19 DEF DecExit, stream, ingest, listen, decoded, world,
               ghosts
<1>20. ASSUME NEW s \in Stops, StopPressed(s)
      PROVE  UNCHANGED <<enc, enc_busy, outlived>>
  BY <1>20 DEF StopPressed, stream, ingest, listen, decoded, world,
               ghosts
<1>21. ASSUME NEW s \in Stops, StopDrained(s)
      PROVE  UNCHANGED <<enc, enc_busy, outlived>>
  BY <1>21 DEF StopDrained, stream, ingest, listen, decoded, world,
               ghosts
<1>22. ASSUME NEW s \in Stops, StopGivesUp(s)
      PROVE  UNCHANGED <<enc, enc_busy, outlived>>
  BY <1>22 DEF StopGivesUp, stream, ingest, listen, decoded, world,
               ghosts
<1>23. ASSUME NEW s \in Stops, StopFlush(s)
      PROVE  UNCHANGED <<enc, enc_busy, outlived>>
  BY <1>23 DEF StopFlush, stream, ingest, listen, decoded, world,
               ghosts
<1>24. ASSUME NEW s \in Stops, StopChunk(s)
      PROVE  UNCHANGED <<enc, enc_busy, outlived>>
  BY <1>24 DEF StopChunk, EncodeChunk, stream, ingest, listen,
               decoded, world, ghosts
<1>25. ASSUME NEW s \in Stops, StopClose(s)
      PROVE  UNCHANGED <<enc, enc_busy, outlived>>
  BY <1>25 DEF StopClose, Answer, stream, ingest, listen, decoded,
               world, ghosts
<1>26. ASSUME NEW s \in Stops, StopRaises(s)
      PROVE  UNCHANGED <<enc, enc_busy, outlived>>
  BY <1>26 DEF StopRaises, Answer, stream, ingest, listen, decoded,
               world, ghosts
<1>27. ASSUME NEW s \in Stops, StopWaited(s)
      PROVE  UNCHANGED <<enc, enc_busy, outlived>>
  BY <1>27 DEF StopWaited, Answer, stream, ingest, listen, decoded,
               world, ghosts
<1>28. ASSUME NEW s \in Stops, StopSnapshot(s)
      PROVE  UNCHANGED <<enc, enc_busy, outlived>>
  BY <1>28 DEF StopSnapshot, stream, ingest, listen, decoded,
               world, ghosts
<1>29. ASSUME NEW s \in Stops, StopWrite(s)
      PROVE  UNCHANGED <<enc, enc_busy, outlived>>
  BY <1>29 DEF StopWrite, Answer, stream, ingest, listen, decoded,
               world, ghosts
<1> QED
  BY <1>1, <1>2, <1>3, <1>4, <1>5, <1>6, <1>7, <1>8, <1>9, <1>10, <1>11, <1>12,
     <1>13, <1>14, <1>15, <1>16, <1>17, <1>18, <1>19, <1>20, <1>21, <1>22,
     <1>23, <1>24, <1>25, <1>26, <1>27, <1>28, <1>29 DEF Next, Encoding,
     Decoding, Stopping, Control

LEMMA LocksStep ==
  ASSUME VoiceAssumption, VoiceType, Locks, Next
  PROVE  Locks'
<1>1. ASSUME NEW e \in Encoders, EncTake(e)
      PROVE  Locks'
  BY <1>1 DEF EncTake, IdleEnc, stream, ingest, listen,
              decoded, world, ghosts, VoiceType, Threads, Work,
              Finishing, Controlling, Locks, Locked, VoiceAssumption
<1>2. ASSUME NEW e \in Encoders, EncExit(e)
      PROVE  Locks'
  BY <1>2 DEF EncExit, stream, ingest, listen, decoded, world,
              ghosts, VoiceType, Threads, Work, Finishing, Controlling,
              Locks, Locked, VoiceAssumption
<1>3. ASSUME NEW e \in Encoders, FeedEnter(e)
      PROVE  Locks'
  <2>1. /\ enc[e].pc = "taken" /\ airlock = Nobody
        /\ UNCHANGED <<fin, ctl, boards>>
        /\ \/ /\ enc' = [enc EXCEPT ![e] = IdleEnc]
              /\ enc_busy' = FALSE /\ UNCHANGED airlock
           \/ /\ enc' = [enc EXCEPT ![e].pc = "feed"]
              /\ airlock' = e /\ UNCHANGED enc_busy
    BY <1>3 DEF FeedEnter, EncDone, stream, ingest, listen, decoded, world,
                ghosts
  <2>2. CASE /\ enc' = [enc EXCEPT ![e] = IdleEnc]
             /\ enc_busy' = FALSE /\ UNCHANGED airlock
    BY <2>1, <2>2 DEF IdleEnc, VoiceType, Threads, Work, Finishing,
                      Controlling, Locks, Locked, VoiceAssumption
  <2>3. CASE /\ enc' = [enc EXCEPT ![e].pc = "feed"]
             /\ airlock' = e /\ UNCHANGED enc_busy
    BY <2>1, <2>3 DEF VoiceType, Threads, Work, Finishing, Controlling, Locks,
                      Locked, VoiceAssumption
  <2> QED
    BY <2>1, <2>2, <2>3
<1>4. ASSUME NEW e \in Encoders, FeedLeave(e)
      PROVE  Locks'
  BY <1>4 DEF FeedLeave, EncDone, IdleEnc, stream, ingest, listen,
              decoded, world, ghosts, VoiceType, Threads, Work,
              Finishing, Controlling, Locks, Locked, VoiceAssumption
<1>5. ASSUME NEW s \in Stops, StopPressed(s)
      PROVE  Locks'
  BY <1>5 DEF StopPressed, stream, ingest, listen, decoded, world,
              ghosts, VoiceType, Threads, Work, Finishing, Controlling,
              Locks, Locked, VoiceAssumption
<1>6. ASSUME NEW s \in Stops, StopDrained(s)
      PROVE  Locks'
  BY <1>6 DEF StopDrained, stream, ingest, listen, decoded, world,
              ghosts, VoiceType, Threads, Work, Finishing, Controlling,
              Locks, Locked, VoiceAssumption
<1>7. ASSUME NEW s \in Stops, StopGivesUp(s)
      PROVE  Locks'
  BY <1>7 DEF StopGivesUp, stream, ingest, listen, decoded, world,
              ghosts, VoiceType, Threads, Work, Finishing, Controlling,
              Locks, Locked, VoiceAssumption
<1>8. ASSUME NEW s \in Stops, StopFlush(s)
      PROVE  Locks'
  BY <1>8 DEF StopFlush, stream, ingest, listen, decoded, world,
              ghosts, VoiceType, Threads, Work, Finishing, Controlling,
              Locks, Locked, VoiceAssumption
<1>9. ASSUME NEW s \in Stops, StopClose(s)
      PROVE  Locks'
  <2>1. /\ fin[s].pc = "flush" /\ UNCHANGED <<enc, ctl, boards>>
        /\ \/ fin' = [fin EXCEPT ![s] = IdleFin] /\ airlock' = Nobody
           \/ fin' = [fin EXCEPT ![s].pc = "wait"] /\ UNCHANGED airlock
    BY <1>9 DEF StopClose, Answer, stream, ingest, listen, decoded, world,
                ghosts
  <2>2. CASE fin' = [fin EXCEPT ![s] = IdleFin] /\ airlock' = Nobody
    BY <2>1, <2>2 DEF IdleFin, VoiceType, Threads, Work, Finishing,
                      Controlling, Locks, Locked, VoiceAssumption
  <2>3. CASE fin' = [fin EXCEPT ![s].pc = "wait"] /\ UNCHANGED airlock
    BY <2>1, <2>3 DEF VoiceType, Threads, Work, Finishing, Controlling, Locks,
                      Locked, VoiceAssumption
  <2> QED
    BY <2>1, <2>2, <2>3
<1>10. ASSUME NEW s \in Stops, StopRaises(s)
      PROVE  Locks'
  BY <1>10 DEF StopRaises, Answer, IdleFin, stream, ingest, listen,
               decoded, world, ghosts, VoiceType, Threads, Work,
               Finishing, Controlling, Locks, Locked, VoiceAssumption
<1>11. ASSUME NEW s \in Stops, StopWaited(s)
      PROVE  Locks'
  <2> DEFINE w == Decodable(IF tail_marker THEN Front(rx_bytes)
                              ELSE rx_bytes)
  <2>1. /\ fin[s].pc = "wait" /\ UNCHANGED <<enc, ctl, boards>>
        /\ \/ fin' = [fin EXCEPT ![s] = IdleFin] /\ airlock' = Nobody
           \/ /\ fin' = [fin EXCEPT ![s].pc = "snap", ![s].data = w]
              /\ UNCHANGED airlock
    BY <1>11 DEF StopWaited, Answer, stream, ingest, listen, decoded, world,
                 ghosts
  <2> HIDE DEF w
  <2>2. CASE fin' = [fin EXCEPT ![s] = IdleFin] /\ airlock' = Nobody
    BY <2>1, <2>2 DEF IdleFin, VoiceType, Threads, Work, Finishing,
                      Controlling, Locks, Locked, VoiceAssumption
  <2>3. CASE /\ fin' = [fin EXCEPT ![s].pc = "snap", ![s].data = w]
             /\ UNCHANGED airlock
    BY <2>1, <2>3 DEF VoiceType, Threads, Work, Finishing, Controlling, Locks,
                      Locked, VoiceAssumption
  <2> QED
    BY <2>1, <2>2, <2>3
<1>12. ASSUME NEW s \in Stops, StopSnapshot(s)
      PROVE  Locks'
  BY <1>12 DEF StopSnapshot, stream, ingest, listen, decoded,
               world, ghosts, VoiceType, Threads, Work, Finishing,
               Controlling, Locks, Locked, VoiceAssumption
<1>13. ASSUME NEW s \in Stops, StopWrite(s)
      PROVE  Locks'
  BY <1>13 DEF StopWrite, Answer, IdleFin, stream, ingest, listen,
               decoded, world, ghosts, VoiceType, Threads, Work,
               Finishing, Controlling, Locks, Locked, VoiceAssumption
<1>14. ASSUME NEW talk \in BOOLEAN, ResetBegins(talk)
      PROVE  Locks'
  BY <1>14 DEF ResetBegins, stream, ingest, listen, decoded, world,
               ghosts, VoiceType, Threads, Work, Finishing, Controlling,
               Locks, Locked, VoiceAssumption
<1>15. ASSUME ResetEnds
      PROVE  Locks'
  BY <1>15 DEF ResetEnds, stream, ingest, listen, decoded, world,
               ghosts, VoiceType, Threads, Work, Finishing, Controlling,
               Locks, Locked, VoiceAssumption
<1>16. ASSUME Talk
      PROVE  Locks'
  BY <1>16 DEF Talk, stream, ingest, listen, decoded, world,
               ghosts, VoiceType, Threads, Work, Finishing, Controlling,
               Locks, Locked, VoiceAssumption
<1>17. ASSUME SelectPressed
      PROVE  Locks'
  BY <1>17 DEF SelectPressed, stream, ingest, listen, decoded,
               world, ghosts, VoiceType, Threads, Work, Finishing,
               Controlling, Locks, Locked, VoiceAssumption
<1>18. ASSUME Joined
      PROVE  Locks'
  BY <1>18 DEF Joined, stream, ingest, listen, decoded, world,
               ghosts, VoiceType, Threads, Work, Finishing, Controlling,
               Locks, Locked, VoiceAssumption
<1>19. ASSUME Opened
      PROVE  Locks'
  <2>1. PICK e \in Encoders : /\ enc[e].pc = "off"
                              /\ enc' = [enc EXCEPT ![e] = IdleEnc]
    BY <1>19, OpenedStarts
  <2>2. /\ UNCHANGED <<fin, airlock>> /\ ctl.pc = "open" /\ boards' = TRUE
        /\ ctl' = [ctl EXCEPT !.pc = "reset"]
    BY <1>19 DEF Opened
  <2> QED
    BY <2>1, <2>2 DEF IdleEnc, VoiceType, Threads, Work, Controlling, Locks
<1>20. CASE UNCHANGED <<enc, fin, airlock, ctl, boards>>
  BY <1>20 DEF Locks
<1>21. ASSUME Ingest
      PROVE  UNCHANGED <<enc, fin, airlock, ctl, boards>>
  BY <1>21 DEF Ingest, stream, ingest, listen, decoded, world,
               ghosts
<1>22. ASSUME Receive
      PROVE  UNCHANGED <<enc, fin, airlock, ctl, boards>>
  BY <1>22 DEF Receive, stream, ingest, listen, decoded, world,
               ghosts
<1>23. ASSUME Fade
      PROVE  UNCHANGED <<enc, fin, airlock, ctl, boards>>
  BY <1>23 DEF Fade, stream, ingest, listen, decoded, world,
               ghosts
<1>24. ASSUME NEW e \in Encoders, FeedChunk(e)
      PROVE  UNCHANGED <<enc, fin, airlock, ctl, boards>>
  BY <1>24 DEF FeedChunk, EncodeChunk, stream, ingest, listen,
               decoded, world, ghosts
<1>25. ASSUME NEW d \in Decoders, DecLook(d)
      PROVE  UNCHANGED <<enc, fin, airlock, ctl, boards>>
  BY <1>25 DEF DecLook, stream, ingest, listen, decoded, world,
               ghosts
<1>26. ASSUME NEW d \in Decoders, DecVocode(d)
      PROVE  UNCHANGED <<enc, fin, airlock, ctl, boards>>
  BY <1>26 DEF DecVocode, stream, ingest, listen, decoded, world,
               ghosts
<1>27. ASSUME NEW d \in Decoders, DecCommit(d)
      PROVE  UNCHANGED <<enc, fin, airlock, ctl, boards>>
  BY <1>27 DEF DecCommit, stream, ingest, listen, decoded, world,
               ghosts
<1>28. ASSUME NEW d \in Decoders, DecExit(d)
      PROVE  UNCHANGED <<enc, fin, airlock, ctl, boards>>
  BY <1>28 DEF DecExit, stream, ingest, listen, decoded, world,
               ghosts
<1>29. ASSUME NEW s \in Stops, StopChunk(s)
      PROVE  UNCHANGED <<enc, fin, airlock, ctl, boards>>
  BY <1>29 DEF StopChunk, EncodeChunk, stream, ingest, listen,
               decoded, world, ghosts
<1> QED
  BY <1>1, <1>2, <1>3, <1>4, <1>5, <1>6, <1>7, <1>8, <1>9, <1>10, <1>11, <1>12,
     <1>13, <1>14, <1>15, <1>16, <1>17, <1>18, <1>19, <1>20, <1>21, <1>22,
     <1>23, <1>24, <1>25, <1>26, <1>27, <1>28, <1>29 DEF Next, Encoding,
     Decoding, Stopping, Control

LEMMA GenerationsStep ==
  ASSUME VoiceAssumption, VoiceType, Locks, Generations, Next
  PROVE  Generations'
<1>1. ASSUME NEW e \in Encoders, EncTake(e)
      PROVE  Generations'
  BY <1>1 DEF EncTake, IdleEnc, stream, ingest, listen,
              decoded, world, ghosts, VoiceType, Threads, Counted,
              Flagged, Work, Controlling, Locks, Locked, Generations, Takes
<1>2. ASSUME NEW e \in Encoders, EncExit(e)
      PROVE  Generations'
  BY <1>2 DEF EncExit, stream, ingest, listen, decoded, world,
              ghosts, VoiceType, Threads, Counted, Flagged, Work,
              Controlling, Locks, Locked, Generations, Takes
<1>3. ASSUME NEW e \in Encoders, FeedEnter(e)
      PROVE  Generations'
  <2>1. /\ enc[e].pc = "taken" /\ airlock = Nobody
        /\ UNCHANGED <<gen, resets, ctl, closed>>
        /\ \/ enc' = [enc EXCEPT ![e] = IdleEnc]
           \/ enc' = [enc EXCEPT ![e].pc = "feed"]
    BY <1>3 DEF FeedEnter, EncDone, stream, ingest, listen, decoded, world,
                ghosts
  <2>2. ctl.pc # "clear"
    BY <2>1 DEF Locks, VoiceAssumption
  <2>3. \A x \in Encoders :
          enc'[x].pc = "taken" => enc'[x].g = enc[x].g /\ enc[x].pc = "taken"
    BY <2>1 DEF IdleEnc, VoiceType, Threads, Work
  <2> QED
    BY <2>1, <2>2, <2>3 DEF Generations
<1>4. ASSUME NEW e \in Encoders, FeedChunk(e)
      PROVE  Generations'
  <2>1. ctl.pc # "clear"
    BY <1>4 DEF FeedChunk, Locks, Locked, VoiceAssumption
  <2>2. UNCHANGED <<gen, resets, ctl, enc>>
    BY <1>4 DEF FeedChunk, EncodeChunk, stream, ingest, listen, decoded, world,
                ghosts
  <2> QED
    BY <2>1, <2>2 DEF Generations, Takes
<1>5. ASSUME NEW e \in Encoders, FeedLeave(e)
      PROVE  Generations'
  BY <1>5 DEF FeedLeave, EncDone, IdleEnc, stream, ingest, listen,
              decoded, world, ghosts, VoiceType, Threads, Counted,
              Flagged, Work, Controlling, Locks, Locked, Generations, Takes
<1>6. ASSUME NEW d \in Decoders, DecVocode(d)
      PROVE  Generations'
  BY <1>6 DEF DecVocode, stream, ingest, listen, decoded, world,
              ghosts, VoiceType, Threads, Counted, Flagged, Work,
              Controlling, Locks, Locked, Generations, Takes
<1>7. ASSUME NEW s \in Stops, StopFlush(s)
      PROVE  Generations'
  BY <1>7 DEF StopFlush, stream, ingest, listen, decoded, world,
              ghosts, VoiceType, Threads, Counted, Flagged, Work,
              Controlling, Locks, Locked, Generations, Takes
<1>8. ASSUME NEW s \in Stops, StopChunk(s)
      PROVE  Generations'
  <2>1. ctl.pc # "clear"
    BY <1>8 DEF StopChunk, Locks, Locked, VoiceAssumption
  <2>2. UNCHANGED <<gen, resets, ctl, enc>>
    BY <1>8 DEF StopChunk, EncodeChunk, stream, ingest, listen, decoded, world,
                ghosts
  <2> QED
    BY <2>1, <2>2 DEF Generations, Takes
<1>9. ASSUME NEW s \in Stops, StopClose(s)
      PROVE  Generations'
  <2>1. ctl.pc # "clear"
    BY <1>9 DEF StopClose, Locks, Locked, VoiceAssumption
  <2>2. UNCHANGED <<gen, resets, ctl, enc>>
    BY <1>9 DEF StopClose, EncodeChunk, stream, ingest, listen, decoded, world,
                ghosts
  <2> QED
    BY <2>1, <2>2 DEF Generations, Takes
<1>10. ASSUME NEW talk \in BOOLEAN, ResetBegins(talk)
      PROVE  Generations'
  BY <1>10 DEF ResetBegins, stream, ingest, listen, decoded, world,
               ghosts, VoiceType, Threads, Counted, Flagged, Work,
               Controlling, Locks, Locked, Generations, Takes
<1>11. ASSUME ResetEnds
      PROVE  Generations'
  BY <1>11 DEF ResetEnds, stream, ingest, listen, decoded, world,
               ghosts, VoiceType, Threads, Counted, Flagged, Work,
               Controlling, Locks, Locked, Generations, Takes
<1>12. ASSUME Talk
      PROVE  Generations'
  BY <1>12 DEF Talk, stream, ingest, listen, decoded, world,
               ghosts, VoiceType, Threads, Counted, Flagged, Work,
               Controlling, Locks, Locked, Generations, Takes
<1>13. ASSUME SelectPressed
      PROVE  Generations'
  BY <1>13 DEF SelectPressed, stream, ingest, listen, decoded,
               world, ghosts, VoiceType, Threads, Counted, Flagged, Work,
               Controlling, Locks, Locked, Generations, Takes
<1>14. ASSUME Joined
      PROVE  Generations'
  BY <1>14 DEF Joined, stream, ingest, listen, decoded, world,
               ghosts, VoiceType, Threads, Counted, Flagged, Work,
               Controlling, Locks, Locked, Generations, Takes
<1>15. ASSUME Opened
      PROVE  Generations'
  BY <1>15 DEF Opened, IdleEnc, IdleDec, stream, ingest, listen,
               decoded, world, ghosts, VoiceType, Threads, Counted,
               Flagged, Work, Controlling, Locks, Locked, Generations, Takes
<1>16. CASE UNCHANGED <<gen, resets, closed, buf, ctl, enc>>
  BY <1>16 DEF Generations, Takes
<1>17. ASSUME Ingest
      PROVE  UNCHANGED <<gen, resets, closed, buf, ctl, enc>>
  BY <1>17 DEF Ingest, stream, ingest, listen, decoded, world,
               ghosts
<1>18. ASSUME Receive
      PROVE  UNCHANGED <<gen, resets, closed, buf, ctl, enc>>
  BY <1>18 DEF Receive, stream, ingest, listen, decoded, world,
               ghosts
<1>19. ASSUME Fade
      PROVE  UNCHANGED <<gen, resets, closed, buf, ctl, enc>>
  BY <1>19 DEF Fade, stream, ingest, listen, decoded, world,
               ghosts
<1>20. ASSUME NEW d \in Decoders, DecLook(d)
      PROVE  UNCHANGED <<gen, resets, closed, buf, ctl, enc>>
  BY <1>20 DEF DecLook, stream, ingest, listen, decoded, world,
               ghosts
<1>21. ASSUME NEW d \in Decoders, DecCommit(d)
      PROVE  UNCHANGED <<gen, resets, closed, buf, ctl, enc>>
  BY <1>21 DEF DecCommit, stream, ingest, listen, decoded, world,
               ghosts
<1>22. ASSUME NEW d \in Decoders, DecExit(d)
      PROVE  UNCHANGED <<gen, resets, closed, buf, ctl, enc>>
  BY <1>22 DEF DecExit, stream, ingest, listen, decoded, world,
               ghosts
<1>23. ASSUME NEW s \in Stops, StopPressed(s)
      PROVE  UNCHANGED <<gen, resets, closed, buf, ctl, enc>>
  BY <1>23 DEF StopPressed, stream, ingest, listen, decoded, world,
               ghosts
<1>24. ASSUME NEW s \in Stops, StopDrained(s)
      PROVE  UNCHANGED <<gen, resets, closed, buf, ctl, enc>>
  BY <1>24 DEF StopDrained, stream, ingest, listen, decoded, world,
               ghosts
<1>25. ASSUME NEW s \in Stops, StopGivesUp(s)
      PROVE  UNCHANGED <<gen, resets, closed, buf, ctl, enc>>
  BY <1>25 DEF StopGivesUp, stream, ingest, listen, decoded, world,
               ghosts
<1>26. ASSUME NEW s \in Stops, StopRaises(s)
      PROVE  UNCHANGED <<gen, resets, closed, buf, ctl, enc>>
  BY <1>26 DEF StopRaises, Answer, stream, ingest, listen, decoded,
               world, ghosts
<1>27. ASSUME NEW s \in Stops, StopWaited(s)
      PROVE  UNCHANGED <<gen, resets, closed, buf, ctl, enc>>
  BY <1>27 DEF StopWaited, Answer, stream, ingest, listen, decoded,
               world, ghosts
<1>28. ASSUME NEW s \in Stops, StopSnapshot(s)
      PROVE  UNCHANGED <<gen, resets, closed, buf, ctl, enc>>
  BY <1>28 DEF StopSnapshot, stream, ingest, listen, decoded,
               world, ghosts
<1>29. ASSUME NEW s \in Stops, StopWrite(s)
      PROVE  UNCHANGED <<gen, resets, closed, buf, ctl, enc>>
  BY <1>29 DEF StopWrite, Answer, stream, ingest, listen, decoded,
               world, ghosts
<1> QED
  BY <1>1, <1>2, <1>3, <1>4, <1>5, <1>6, <1>7, <1>8, <1>9, <1>10, <1>11, <1>12,
     <1>13, <1>14, <1>15, <1>16, <1>17, <1>18, <1>19, <1>20, <1>21, <1>22,
     <1>23, <1>24, <1>25, <1>26, <1>27, <1>28, <1>29 DEF Next, Encoding,
     Decoding, Stopping, Control

(* Nothing was sent, and nothing waits, before the encoder got a post.     *)
Blank ==
  ctl.pc # "clear" /\ buf = <<>> =>
    /\ k = 0 /\ pending = <<>> /\ tokcarry = <<>> /\ tx_stream = <<>>
    /\ cmds = <<>> /\ ~bc_open /\ ~closed

(* A stream is closed only by a STOP, which ends the talking; the commands  *)
(* of a session are one broadcast, closed by its last command.  Both hold  *)
(* with one STOP at a time.                                                *)
Solo == \A s, t \in Stops : s = t

StopTrue ==
  ~early =>
    /\ closed => ~talking /\ ctl.pc # "talk"
    /\ \A s \in Stops : fin[s].pc \in {"drain", "lock", "flush"} => ~closed
    /\ Flushing => (~talking /\ ctl.pc # "talk") \/ buf = <<>>

CommandsTrue ==
  /\ closed <=> cmds # <<>> /\ cmds[Len(cmds)].final
  /\ bc_open <=> cmds # <<>> /\ ~closed
  /\ tx_stream # <<>> => cmds # <<>>
OneTrue == OneStream /\ (~early /\ ctl.pc # "clear" => CommandsTrue)

LEMMA ChunkNotLast ==
  ASSUME VoiceAssumption, VoiceType, EncodeChunk
  PROVE  closed' = closed
<1>1. \/ UNCHANGED closed
      \/ \E raw \in Seq(Nat) : SendChunk(raw, FALSE)
  BY ChunkEncoded
<1>2. ASSUME NEW raw, SendChunk(raw, FALSE)
      PROVE  closed' = closed
  <2>1. closed' = closed \/ closed' = (closed \/ FALSE)
    BY <1>2 DEF SendChunk
  <2>2. closed \in BOOLEAN
    BY DEF VoiceType, Flagged
  <2> QED
    BY <2>1, <2>2, Zenon
<1> QED
  BY <1>1, <1>2

LEMMA CommandSent ==
  ASSUME VoiceType, NEW raw \in Seq(Int), NEW final \in BOOLEAN,
         SendChunk(raw, final), ~closed, CommandsTrue, OneStream, ~early,
         UNCHANGED early
  PROVE  /\ CommandsTrue' /\ OneStream' /\ closed' = final
         /\ tx_stream' = tx_stream \o raw
<1> DEFINE c == [cont |-> bc_open, final |-> final]
<1>1. /\ cmds' = Append(cmds, c) /\ bc_open' = ~final
      /\ closed' = (closed \/ final) /\ tx_stream' = tx_stream \o raw
  BY DEF SendChunk
<1>2. cmds \in Seq(CommandType) /\ bc_open \in BOOLEAN
  BY DEF VoiceType, Flagged, Streamed
<1>3. c \in CommandType /\ c.cont = bc_open /\ c.final = final
  BY <1>2 DEF CommandType
<1>4. closed' = final /\ bc_open' = ~final
  BY <1>1, Zenon
<1> HIDE DEF c
<1>5. /\ cmds' # <<>> /\ Len(cmds') = Len(cmds) + 1
      /\ DOMAIN cmds' = 1..Len(cmds')
      /\ cmds'[Len(cmds')] = c /\ \A i \in 1..Len(cmds) : cmds'[i] = cmds[i]
      /\ Len(cmds) \in Nat /\ DOMAIN cmds = 1..Len(cmds)
  <2>1. Len(cmds') = Len(cmds) + 1 /\ cmds' \in Seq(CommandType)
    BY <1>1, <1>2, <1>3
  <2>2. Len(cmds) \in Nat /\ DOMAIN cmds = 1..Len(cmds)
    BY <1>2
  <2>3. cmds' # <<>> /\ DOMAIN cmds' = 1..Len(cmds')
    BY <2>1, <2>2
  <2>4. cmds'[Len(cmds')] = c /\ \A i \in 1..Len(cmds) : cmds'[i] = cmds[i]
    BY <1>1, <1>2, <1>3, <2>1
  <2> QED
    BY <2>1, <2>2, <2>3, <2>4
<1>6. CommandsTrue'
  <2>1. cmds'[Len(cmds')].final = final
    BY <1>3, <1>5
  <2>2. closed' <=> cmds' # <<>> /\ cmds'[Len(cmds')].final
    BY <1>4, <1>5, <2>1, Zenon
  <2>3. bc_open' <=> cmds' # <<>> /\ ~closed'
    BY <1>4, <1>5, Zenon
  <2>4. tx_stream' # <<>> => cmds' # <<>>
    BY <1>5
  <2> QED
    BY <2>2, <2>3, <2>4 DEF CommandsTrue
<1>7. OneStream'
  <2> SUFFICES ASSUME NEW i \in DOMAIN cmds'
               PROVE  /\ cmds'[i].cont <=> (i > 1)
                      /\ cmds'[i].final => i = Len(cmds')
    BY DEF OneStream
  <2>1. CASE i \in 1..Len(cmds)
    <3>1. cmds'[i] = cmds[i] /\ i \in DOMAIN cmds
      BY <1>5, <2>1
    <3>2. (cmds[i].cont <=> i > 1) /\ (cmds[i].final => i = Len(cmds))
      BY <3>1, Zenon DEF OneStream
    <3>3. cmds # <<>> /\ ~ cmds[Len(cmds)].final
      <4>1. cmds # <<>>
        BY <1>2, <2>1
      <4> QED
        BY <4>1 DEF CommandsTrue
    <3> QED
      BY <3>1, <3>2, <3>3
  <2>2. CASE i = Len(cmds) + 1
    <3>1. cmds = <<>> <=> Len(cmds) = 0
      BY <1>2
    <3>2. bc_open <=> cmds # <<>>
      BY DEF CommandsTrue
    <3>3. cmds'[i] = c /\ i = Len(cmds')
      BY <1>5, <2>2
    <3>4. c.cont <=> i > 1
      <4>1. i > 1 <=> Len(cmds) # 0
        BY <1>5, <2>2
      <4> QED
        BY <1>3, <3>1, <3>2, <4>1, Zenon
    <3> QED
      BY <3>3, <3>4
  <2> QED
    BY <1>5, <2>1, <2>2
<1> QED
  BY <1>1, <1>4, <1>6, <1>7

(* A STOP that finds the encoder blank sends nothing.                      *)
LEMMA BlankCloses ==
  ASSUME VoiceAssumption, VoiceType, Locks, Blank, NEW s \in Stops,
         StopClose(s), buf = <<>>
  PROVE  UNCHANGED <<closed, bc_open, tx_stream, cmds>>
<1>1. fin[s].pc = "flush"
  BY DEF StopClose
<1>2. ctl.pc # "clear"
  BY <1>1 DEF Locks, Locked, VoiceAssumption
<1>3. pending = <<>> /\ tokcarry = <<>> /\ ~bc_open
  BY <1>2 DEF Blank
<1>4. tokcarry \o pending = <<>>
  BY <1>3
<1> QED
  BY <1>3, <1>4 DEF StopClose

LEMMA BlankStep ==
  ASSUME VoiceAssumption, VoiceType, Locks, Generations, Blank, Next
  PROVE  Blank'
<1>1. ASSUME NEW e \in Encoders, FeedEnter(e)
      PROVE  Blank'
  <2>1. /\ UNCHANGED <<ctl, k, pending, tokcarry, tx_stream, cmds, bc_open,
                       closed>>
        /\ buf' = buf \/ buf' = buf \o enc[e].batch
    BY <1>1 DEF FeedEnter, world, ghosts
  <2>2. buf' = <<>> => buf = <<>>
    <3>1. buf \in Seq(Nat) /\ enc[e].batch \in Seq(Nat)
      BY DEF VoiceType, Queued, Threads, Work
    <3> DEFINE t == enc[e].batch
    <3> HIDE DEF t
    <3>2. Len(buf \o t) = Len(buf) + Len(t) /\ Len(t) \in Nat
      BY <3>1 DEF t
    <3> QED
      BY <2>1, <3>1, <3>2 DEF t
  <2> QED
    BY <2>1, <2>2 DEF Blank
<1>2. ASSUME EncodeChunk
      PROVE  Blank'
  <2>1. k + 2 <= Len(buf) /\ UNCHANGED buf
    BY <1>2 DEF EncodeChunk, Encodable
  <2>2. buf # <<>>
    BY <2>1 DEF VoiceType, Counted
  <2> QED
    BY <2>1, <2>2 DEF Blank
<1>3. ASSUME NEW s \in Stops, StopFlush(s)
      PROVE  Blank'
  <2>1. /\ UNCHANGED <<ctl, k, pending, tokcarry, tx_stream, cmds, bc_open,
                       closed>>
        /\ buf' = IF Len(buf) > k THEN buf \o <<Silence, Silence>> ELSE buf
    BY <1>3 DEF StopFlush, world, ghosts
  <2>2. buf' = <<>> => buf = <<>>
    <3>1. buf \in Seq(Nat) /\ <<Silence, Silence>> \in Seq(Nat)
      BY DEF VoiceType, Queued, Silence
    <3> DEFINE t == <<Silence, Silence>>
    <3>2. Len(t) = 2
      OBVIOUS
    <3> HIDE DEF t
    <3>3. Len(buf \o t) = Len(buf) + Len(t)
      BY <3>1 DEF t
    <3> QED
      BY <2>1, <3>1, <3>2, <3>3 DEF t
  <2> QED
    BY <2>1, <2>2 DEF Blank
<1>4. ASSUME NEW s \in Stops, StopClose(s)
      PROVE  Blank'
  <2>1. UNCHANGED <<ctl, buf, k>> /\ pending' = <<>> /\ tokcarry' = <<>>
    BY <1>4 DEF StopClose
  <2>2. buf = <<>> => UNCHANGED <<closed, bc_open, tx_stream, cmds>>
    BY <1>4, BlankCloses
  <2> QED
    BY <2>1, <2>2 DEF Blank
<1>5. ASSUME NEW talk \in BOOLEAN, ResetBegins(talk)
      PROVE  Blank'
  BY <1>5 DEF ResetBegins, Blank
<1>6. ASSUME ResetEnds
      PROVE  Blank'
  <2>1. ctl.pc = "clear" /\ UNCHANGED <<closed, buf>>
    BY <1>6 DEF ResetEnds
  <2>2. ~closed
    BY <2>1 DEF Generations
  <2> QED
    BY <1>6, <2>1, <2>2 DEF ResetEnds, Blank
<1>7. ASSUME ctl.pc # "clear",
             UNCHANGED <<buf, k, pending, tokcarry, tx_stream, cmds, bc_open,
                         closed>>
      PROVE  Blank'
  BY <1>7 DEF Blank
<1>8. ASSUME Talk
      PROVE  Blank'
  <2>1. /\ ctl.pc # "clear"
        /\ UNCHANGED <<buf, k, pending, tokcarry, tx_stream, cmds, bc_open,
                       closed>>
    BY <1>8 DEF Talk, stream, ghosts
  <2> QED
    BY <2>1, <1>7
<1>9. ASSUME SelectPressed
      PROVE  Blank'
  <2>1. /\ ctl.pc # "clear"
        /\ UNCHANGED <<buf, k, pending, tokcarry, tx_stream, cmds, bc_open,
                       closed>>
    BY <1>9 DEF SelectPressed, stream, ghosts
  <2> QED
    BY <2>1, <1>7
<1>10. ASSUME Joined
      PROVE  Blank'
  <2>1. /\ ctl.pc # "clear"
        /\ UNCHANGED <<buf, k, pending, tokcarry, tx_stream, cmds, bc_open,
                       closed>>
    BY <1>10 DEF Joined, stream, ghosts
  <2> QED
    BY <2>1, <1>7
<1>11. ASSUME Opened
      PROVE  Blank'
  <2>1. /\ ctl.pc # "clear"
        /\ UNCHANGED <<buf, k, pending, tokcarry, tx_stream, cmds, bc_open,
                       closed>>
    BY <1>11 DEF Opened, stream, ghosts
  <2> QED
    BY <2>1, <1>7
<1>12. CASE UNCHANGED <<ctl, buf, k, pending, tokcarry, tx_stream, cmds,
                        bc_open, closed>>
  BY <1>12 DEF Blank
<1>13. ASSUME Ingest
      PROVE  UNCHANGED <<ctl, buf, k, pending, tokcarry, tx_stream, cmds,
                         bc_open, closed>>
  BY <1>13 DEF Ingest, stream, world, ghosts
<1>14. ASSUME NEW e \in Encoders, EncTake(e)
      PROVE  UNCHANGED <<ctl, buf, k, pending, tokcarry, tx_stream, cmds,
                         bc_open, closed>>
  BY <1>14 DEF EncTake, stream, world, ghosts
<1>15. ASSUME NEW e \in Encoders, EncExit(e)
      PROVE  UNCHANGED <<ctl, buf, k, pending, tokcarry, tx_stream, cmds,
                         bc_open, closed>>
  BY <1>15 DEF EncExit, stream, world, ghosts
<1>16. ASSUME NEW e \in Encoders, FeedLeave(e)
      PROVE  UNCHANGED <<ctl, buf, k, pending, tokcarry, tx_stream, cmds,
                         bc_open, closed>>
  BY <1>16 DEF FeedLeave, stream, world, ghosts
<1>17. ASSUME Receive
      PROVE  UNCHANGED <<ctl, buf, k, pending, tokcarry, tx_stream, cmds,
                         bc_open, closed>>
  BY <1>17 DEF Receive, stream, world, ghosts
<1>18. ASSUME Fade
      PROVE  UNCHANGED <<ctl, buf, k, pending, tokcarry, tx_stream, cmds,
                         bc_open, closed>>
  BY <1>18 DEF Fade, stream, world, ghosts
<1>19. ASSUME NEW d \in Decoders, DecLook(d)
      PROVE  UNCHANGED <<ctl, buf, k, pending, tokcarry, tx_stream, cmds,
                         bc_open, closed>>
  BY <1>19 DEF DecLook, stream, world, ghosts
<1>20. ASSUME NEW d \in Decoders, DecVocode(d)
      PROVE  UNCHANGED <<ctl, buf, k, pending, tokcarry, tx_stream, cmds,
                         bc_open, closed>>
  BY <1>20 DEF DecVocode, stream, world, ghosts
<1>21. ASSUME NEW d \in Decoders, DecCommit(d)
      PROVE  UNCHANGED <<ctl, buf, k, pending, tokcarry, tx_stream, cmds,
                         bc_open, closed>>
  BY <1>21 DEF DecCommit, stream, world, ghosts
<1>22. ASSUME NEW d \in Decoders, DecExit(d)
      PROVE  UNCHANGED <<ctl, buf, k, pending, tokcarry, tx_stream, cmds,
                         bc_open, closed>>
  BY <1>22 DEF DecExit, stream, world, ghosts
<1>23. ASSUME NEW s \in Stops, StopPressed(s)
      PROVE  UNCHANGED <<ctl, buf, k, pending, tokcarry, tx_stream, cmds,
                         bc_open, closed>>
  BY <1>23 DEF StopPressed, stream, world, ghosts
<1>24. ASSUME NEW s \in Stops, StopDrained(s)
      PROVE  UNCHANGED <<ctl, buf, k, pending, tokcarry, tx_stream, cmds,
                         bc_open, closed>>
  BY <1>24 DEF StopDrained, stream, world, ghosts
<1>25. ASSUME NEW s \in Stops, StopGivesUp(s)
      PROVE  UNCHANGED <<ctl, buf, k, pending, tokcarry, tx_stream, cmds,
                         bc_open, closed>>
  BY <1>25 DEF StopGivesUp, stream, world, ghosts
<1>26. ASSUME NEW s \in Stops, StopRaises(s)
      PROVE  UNCHANGED <<ctl, buf, k, pending, tokcarry, tx_stream, cmds,
                         bc_open, closed>>
  BY <1>26 DEF StopRaises, stream, world, ghosts
<1>27. ASSUME NEW s \in Stops, StopWaited(s)
      PROVE  UNCHANGED <<ctl, buf, k, pending, tokcarry, tx_stream, cmds,
                         bc_open, closed>>
  BY <1>27 DEF StopWaited, stream, world, ghosts
<1>28. ASSUME NEW s \in Stops, StopSnapshot(s)
      PROVE  UNCHANGED <<ctl, buf, k, pending, tokcarry, tx_stream, cmds,
                         bc_open, closed>>
  BY <1>28 DEF StopSnapshot, stream, world, ghosts
<1>29. ASSUME NEW s \in Stops, StopWrite(s)
      PROVE  UNCHANGED <<ctl, buf, k, pending, tokcarry, tx_stream, cmds,
                         bc_open, closed>>
  BY <1>29 DEF StopWrite, stream, world, ghosts
<1> QED
  BY <1>1, <1>2, <1>3, <1>4, <1>5, <1>6, <1>7, <1>8, <1>9, <1>10, <1>11,
     <1>12, <1>13, <1>14, <1>15, <1>16, <1>17, <1>18, <1>19, <1>20, <1>21,
     <1>22, <1>23, <1>24, <1>25, <1>26, <1>27, <1>28, <1>29
     DEF Next, Encoding, Decoding, Stopping, Control, FeedChunk, StopChunk

LEMMA StopStep ==
  ASSUME VoiceAssumption, Solo, VoiceType, Locks, Generations, Blank, StopTrue,
         Next
  PROVE  StopTrue'
<1>1. ASSUME NEW e \in Encoders, EncTake(e)
      PROVE  StopTrue'
  BY <1>1 DEF EncTake, IdleEnc, stream, ingest, listen,
              decoded, world, ghosts, VoiceType, Threads, Flagged,
              Counted, Finishing, Controlling, Locks, Locked, Generations,
              StopTrue, Flushing, Solo
<1>2. ASSUME NEW e \in Encoders, FeedChunk(e)
      PROVE  StopTrue'
  <2>1. closed' = closed
    BY <1>2, ChunkNotLast DEF FeedChunk
  <2>2. UNCHANGED <<early, talking, ctl, fin, buf>>
    BY <1>2 DEF FeedChunk, EncodeChunk, ghosts
  <2> QED
    BY <2>1, <2>2 DEF StopTrue, Flushing
<1>3. ASSUME NEW d \in Decoders, DecVocode(d)
      PROVE  StopTrue'
  BY <1>3 DEF DecVocode, stream, ingest, listen, decoded, world,
              ghosts, VoiceType, Threads, Flagged, Counted, Finishing,
              Controlling, Locks, Locked, Generations, StopTrue, Flushing, Solo
<1>4. ASSUME NEW s \in Stops, StopPressed(s)
      PROVE  StopTrue'
  BY <1>4 DEF StopPressed, stream, ingest, listen, decoded, world,
              ghosts, VoiceType, Threads, Flagged, Counted, Finishing,
              Controlling, Locks, Locked, Generations, StopTrue, Flushing, Solo
<1>5. ASSUME NEW s \in Stops, StopDrained(s)
      PROVE  StopTrue'
  BY <1>5 DEF StopDrained, stream, ingest, listen, decoded, world,
              ghosts, VoiceType, Threads, Flagged, Counted, Finishing,
              Controlling, Locks, Locked, Generations, StopTrue, Flushing, Solo
<1>6. ASSUME NEW s \in Stops, StopGivesUp(s)
      PROVE  StopTrue'
  BY <1>6 DEF StopGivesUp, stream, ingest, listen, decoded, world,
              ghosts, VoiceType, Threads, Flagged, Counted, Finishing,
              Controlling, Locks, Locked, Generations, StopTrue, Flushing, Solo
<1>7. ASSUME NEW s \in Stops, StopFlush(s)
      PROVE  StopTrue'
  <2>1. /\ fin[s].pc = "lock" /\ talking' = FALSE /\ UNCHANGED <<closed, ctl>>
        /\ early' = (early \/ (ctl.pc = "talk" /\ buf # <<>>))
        /\ buf' = IF Len(buf) > k THEN buf \o <<Silence, Silence>> ELSE buf
    BY <1>7 DEF StopFlush
  <2>2. buf = <<>> => buf' = <<>>
    BY <2>1 DEF VoiceType, Counted
  <2>3. \A x \in Stops : x = s
    BY DEF Solo
  <2>4. ~early' => ~closed /\ (ctl.pc = "talk" => buf = <<>>)
    BY <2>1 DEF StopTrue
  <2> QED
    BY <2>1, <2>2, <2>4 DEF StopTrue
<1>8. ASSUME NEW s \in Stops, StopChunk(s)
      PROVE  StopTrue'
  <2>1. closed' = closed
    BY <1>8, ChunkNotLast DEF StopChunk
  <2>2. UNCHANGED <<early, talking, ctl, fin, buf>>
    BY <1>8 DEF StopChunk, EncodeChunk, ghosts
  <2> QED
    BY <2>1, <2>2 DEF StopTrue, Flushing
<1>9. ASSUME NEW s \in Stops, StopClose(s)
      PROVE  StopTrue'
  <2>1. /\ fin[s].pc = "flush" /\ UNCHANGED <<early, talking, ctl, buf>>
        /\ \/ fin' = [fin EXCEPT ![s] = IdleFin]
           \/ fin' = [fin EXCEPT ![s].pc = "wait"]
    BY <1>9 DEF StopClose, Answer, stream, ingest, listen, decoded, world,
                ghosts
  <2>2. \A x \in Stops : fin'[x].pc \in {"idle", "wait"}
    BY <2>1 DEF IdleFin, VoiceType, Threads, Flagged, Counted, Finishing,
                Controlling, Locks, Locked, Generations, StopTrue, Flushing,
                Solo
  <2>3. ~early => (~talking /\ ctl.pc # "talk") \/ buf = <<>>
    BY <2>1 DEF StopTrue, Flushing
  <2>4. ASSUME buf = <<>>
        PROVE  ~closed'
    <3>1. ctl.pc # "clear"
      BY <2>1 DEF Locks, Locked, VoiceAssumption
    <3>2. pending = <<>> /\ tokcarry = <<>> /\ ~bc_open /\ ~closed
      BY <2>4, <3>1 DEF Blank
    <3>3. tokcarry \o pending = <<>>
      BY <3>2
    <3> QED
      BY <1>9, <3>2, <3>3 DEF StopClose
  <2> QED
    BY <2>1, <2>2, <2>3, <2>4 DEF StopTrue, Flushing
<1>10. ASSUME NEW s \in Stops, StopRaises(s)
      PROVE  StopTrue'
  BY <1>10 DEF StopRaises, Answer, IdleFin, stream, ingest, listen,
               decoded, world, ghosts, VoiceType, Threads, Flagged,
               Counted, Finishing, Controlling, Locks, Locked, Generations,
               StopTrue, Flushing, Solo
<1>11. ASSUME NEW s \in Stops, StopWaited(s)
      PROVE  StopTrue'
  BY <1>11 DEF StopWaited, Answer, IdleFin, stream, ingest, listen,
               decoded, world, ghosts, VoiceType, Threads, Flagged,
               Counted, Finishing, Controlling, Locks, Locked, Generations,
               StopTrue, Flushing, Solo
<1>12. ASSUME NEW s \in Stops, StopSnapshot(s)
      PROVE  StopTrue'
  BY <1>12 DEF StopSnapshot, stream, ingest, listen, decoded,
               world, ghosts, VoiceType, Threads, Flagged, Counted,
               Finishing, Controlling, Locks, Locked, Generations, StopTrue,
               Flushing, Solo
<1>13. ASSUME NEW s \in Stops, StopWrite(s)
      PROVE  StopTrue'
  BY <1>13 DEF StopWrite, Answer, IdleFin, stream, ingest, listen,
               decoded, world, ghosts, VoiceType, Threads, Flagged,
               Counted, Finishing, Controlling, Locks, Locked, Generations,
               StopTrue, Flushing, Solo
<1>14. ASSUME NEW talk \in BOOLEAN, ResetBegins(talk)
      PROVE  StopTrue'
  BY <1>14 DEF ResetBegins, stream, ingest, listen, decoded, world,
               ghosts, VoiceType, Threads, Flagged, Counted, Finishing,
               Controlling, Locks, Locked, Generations, StopTrue, Flushing,
               Solo
<1>15. ASSUME ResetEnds
      PROVE  StopTrue'
  <2>1. /\ closed' = closed /\ ctl.pc = "clear" /\ UNCHANGED fin
        /\ talking' = FALSE
    BY <1>15 DEF ResetEnds, stream, ingest, listen, decoded, world, ghosts
  <2>2. ~closed /\ airlock = "ctl"
    BY <2>1 DEF Generations, Locks
  <2>3. \A s \in Stops : fin[s].pc # "flush"
    BY <2>2 DEF Locks, Locked, VoiceAssumption
  <2> QED
    BY <2>1, <2>2, <2>3 DEF StopTrue, Flushing
<1>16. ASSUME Talk
      PROVE  StopTrue'
  BY <1>16 DEF Talk, stream, ingest, listen, decoded, world,
               ghosts, VoiceType, Threads, Flagged, Counted, Finishing,
               Controlling, Locks, Locked, Generations, StopTrue, Flushing,
               Solo
<1>17. ASSUME SelectPressed
      PROVE  StopTrue'
  BY <1>17 DEF SelectPressed, stream, ingest, listen, decoded,
               world, ghosts, VoiceType, Threads, Flagged, Counted,
               Finishing, Controlling, Locks, Locked, Generations, StopTrue,
               Flushing, Solo
<1>18. ASSUME Joined
      PROVE  StopTrue'
  BY <1>18 DEF Joined, stream, ingest, listen, decoded, world,
               ghosts, VoiceType, Threads, Flagged, Counted, Finishing,
               Controlling, Locks, Locked, Generations, StopTrue, Flushing,
               Solo
<1>19. ASSUME Opened
      PROVE  StopTrue'
  BY <1>19 DEF Opened, IdleEnc, IdleDec, stream, ingest, listen,
               decoded, world, ghosts, VoiceType, Threads, Flagged,
               Counted, Finishing, Controlling, Locks, Locked, Generations,
               StopTrue, Flushing, Solo
<1>20. CASE UNCHANGED <<early, closed, talking, ctl, fin, buf>>
  BY <1>20 DEF StopTrue, Flushing
<1>21. ASSUME Ingest
      PROVE  UNCHANGED <<early, closed, talking, ctl, fin, buf>>
  BY <1>21 DEF Ingest, stream, ingest, listen, decoded, world,
               ghosts
<1>22. ASSUME Receive
      PROVE  UNCHANGED <<early, closed, talking, ctl, fin, buf>>
  BY <1>22 DEF Receive, stream, ingest, listen, decoded, world,
               ghosts
<1>23. ASSUME Fade
      PROVE  UNCHANGED <<early, closed, talking, ctl, fin, buf>>
  BY <1>23 DEF Fade, stream, ingest, listen, decoded, world,
               ghosts
<1>24. ASSUME NEW e \in Encoders, EncExit(e)
      PROVE  UNCHANGED <<early, closed, talking, ctl, fin, buf>>
  BY <1>24 DEF EncExit, stream, ingest, listen, decoded, world,
               ghosts
<1>25. ASSUME NEW e \in Encoders, FeedEnter(e)
      PROVE  StopTrue'
  <2>1. airlock = Nobody /\ UNCHANGED <<early, closed, talking, ctl, fin>>
    BY <1>25 DEF FeedEnter, ghosts
  <2>2. ~Flushing
    BY <2>1 DEF Flushing, Locks, Locked, VoiceAssumption
  <2> QED
    BY <2>1, <2>2 DEF StopTrue, Flushing
<1>26. ASSUME NEW e \in Encoders, FeedLeave(e)
      PROVE  UNCHANGED <<early, closed, talking, ctl, fin, buf>>
  BY <1>26 DEF FeedLeave, EncDone, stream, ingest, listen, decoded,
               world, ghosts
<1>27. ASSUME NEW d \in Decoders, DecLook(d)
      PROVE  UNCHANGED <<early, closed, talking, ctl, fin, buf>>
  BY <1>27 DEF DecLook, stream, ingest, listen, decoded, world,
               ghosts
<1>28. ASSUME NEW d \in Decoders, DecCommit(d)
      PROVE  UNCHANGED <<early, closed, talking, ctl, fin, buf>>
  BY <1>28 DEF DecCommit, stream, ingest, listen, decoded, world,
               ghosts
<1>29. ASSUME NEW d \in Decoders, DecExit(d)
      PROVE  UNCHANGED <<early, closed, talking, ctl, fin, buf>>
  BY <1>29 DEF DecExit, stream, ingest, listen, decoded, world,
               ghosts
<1> QED
  BY <1>1, <1>2, <1>3, <1>4, <1>5, <1>6, <1>7, <1>8, <1>9, <1>10, <1>11, <1>12,
     <1>13, <1>14, <1>15, <1>16, <1>17, <1>18, <1>19, <1>20, <1>21, <1>22,
     <1>23, <1>24, <1>25, <1>26, <1>27, <1>28, <1>29 DEF Next, Encoding,
     Decoding, Stopping, Control


(* What the closing of a stream sends.                                     *)
LEMMA Closing ==
  ASSUME VoiceAssumption, VoiceType, NEW s \in Stops, StopClose(s)
  PROVE  \/ UNCHANGED <<closed, bc_open, tx_stream, cmds>>
         \/ \E raw \in Seq(Int) : SendChunk(raw, TRUE)
<1> DEFINE t == tokcarry \o pending
<1>1. t \in Seq(Nat)
  BY Concatenated DEF VoiceType, Streamed
<1>2. \/ t # <<>> /\ SendChunk(Padded(t), TRUE)
      \/ SendChunk(<<Marker>>, TRUE)
      \/ UNCHANGED <<closed, bc_open, tx_stream, cmds>>
  BY DEF StopClose
<1> HIDE DEF t
<1>3. t # <<>> => Padded(t) \in Seq(Nat)
  BY <1>1, PaddedTyped
<1>4. t # <<>> => Padded(t) \in Seq(Int)
  BY <1>3
<1>5. <<Marker>> \in Seq(Int)
  BY DEF Marker
<1> QED
  BY <1>2, <1>4, <1>5

LEMMA OneStep ==
  ASSUME VoiceAssumption, VoiceType, Locks, Generations, StopTrue, OneTrue,
         Next
  PROVE  OneTrue'
<1>1. ASSUME NEW e \in Encoders, EncTake(e)
      PROVE  OneTrue'
  BY <1>1 DEF EncTake, IdleEnc, stream, ingest, listen,
              decoded, world, ghosts, VoiceType, Threads, Flagged,
              Controlling, Generations, OneTrue, CommandsTrue, OneStream
<1>2. ASSUME NEW e \in Encoders, FeedChunk(e)
      PROVE  OneTrue'
  <2>1. UNCHANGED <<early, ctl>>
    BY <1>2 DEF FeedChunk, stream, ingest, listen, decoded, world, ghosts
  <2>2. ctl.pc # "clear"
    BY <1>2 DEF FeedChunk, Locks, Locked, VoiceAssumption
  <2>3. \/ UNCHANGED <<closed, bc_open, tx_stream, cmds>>
        \/ \E raw \in Seq(Nat) : SendChunk(raw, FALSE)
    BY <1>2, ChunkEncoded DEF FeedChunk
  <2>4. CASE UNCHANGED <<closed, bc_open, tx_stream, cmds>>
    BY <2>1, <2>4 DEF OneTrue, OneStream, CommandsTrue
  <2>5. CASE \E raw \in Seq(Nat) : SendChunk(raw, FALSE)
    <3>1. PICK raw \in Seq(Nat) : SendChunk(raw, FALSE)
      BY <2>5
    <3>2. raw \in Seq(Int)
      OBVIOUS
    <3>3. CASE closed
      BY <2>1, <3>1, <3>3 DEF OneTrue, OneStream, CommandsTrue, SendChunk
    <3>4. CASE early
      BY <2>1, <3>4 DEF OneTrue, OneStream
    <3>5. CASE ~closed /\ ~early
      <4>1. CommandsTrue /\ OneStream
        BY <2>2, <3>5 DEF OneTrue
      <4>2. CommandsTrue' /\ OneStream'
        BY <2>1, <3>1, <3>2, <3>5, <4>1, CommandSent
      <4> QED
        BY <4>2 DEF OneTrue
    <3> QED
      BY <3>3, <3>4, <3>5
  <2> QED
    BY <2>3, <2>4, <2>5
<1>3. ASSUME NEW d \in Decoders, DecVocode(d)
      PROVE  OneTrue'
  BY <1>3 DEF DecVocode, stream, ingest, listen, decoded, world,
              ghosts, VoiceType, Threads, Flagged, Controlling, Generations,
              OneTrue, CommandsTrue, OneStream
<1>4. ASSUME NEW s \in Stops, StopFlush(s)
      PROVE  OneTrue'
  BY <1>4 DEF StopFlush, stream, ingest, listen, decoded, world,
              ghosts, VoiceType, Threads, Flagged, Controlling, Generations,
              OneTrue, CommandsTrue, OneStream
<1>5. ASSUME NEW s \in Stops, StopChunk(s)
      PROVE  OneTrue'
  <2>1. UNCHANGED <<early, ctl>>
    BY <1>5 DEF StopChunk, stream, ingest, listen, decoded, world, ghosts
  <2>2. ctl.pc # "clear"
    BY <1>5 DEF StopChunk, Locks, Locked, VoiceAssumption
  <2>3. \/ UNCHANGED <<closed, bc_open, tx_stream, cmds>>
        \/ \E raw \in Seq(Nat) : SendChunk(raw, FALSE)
    BY <1>5, ChunkEncoded DEF StopChunk
  <2>4. CASE UNCHANGED <<closed, bc_open, tx_stream, cmds>>
    BY <2>1, <2>4 DEF OneTrue, OneStream, CommandsTrue
  <2>5. CASE \E raw \in Seq(Nat) : SendChunk(raw, FALSE)
    <3>1. PICK raw \in Seq(Nat) : SendChunk(raw, FALSE)
      BY <2>5
    <3>2. raw \in Seq(Int)
      OBVIOUS
    <3>3. CASE closed
      BY <2>1, <3>1, <3>3 DEF OneTrue, OneStream, CommandsTrue, SendChunk
    <3>4. CASE early
      BY <2>1, <3>4 DEF OneTrue, OneStream
    <3>5. CASE ~closed /\ ~early
      <4>1. CommandsTrue /\ OneStream
        BY <2>2, <3>5 DEF OneTrue
      <4>2. CommandsTrue' /\ OneStream'
        BY <2>1, <3>1, <3>2, <3>5, <4>1, CommandSent
      <4> QED
        BY <4>2 DEF OneTrue
    <3> QED
      BY <3>3, <3>4, <3>5
  <2> QED
    BY <2>3, <2>4, <2>5
<1>6. ASSUME NEW s \in Stops, StopClose(s)
      PROVE  OneTrue'
  <2> DEFINE t == tokcarry \o pending
  <2>1. UNCHANGED <<early, ctl>> /\ fin[s].pc = "flush"
    BY <1>6 DEF StopClose, stream, ingest, listen, decoded, world, ghosts
  <2>2. ctl.pc # "clear" /\ (~early => ~closed)
    BY <2>1 DEF StopTrue, Locks, Locked, VoiceAssumption
  <2>3. \/ UNCHANGED <<closed, bc_open, tx_stream, cmds>>
        \/ \E raw \in Seq(Int) : SendChunk(raw, TRUE)
    BY <1>6, Closing
  <2>4. CASE UNCHANGED <<closed, bc_open, tx_stream, cmds>>
    BY <2>1, <2>4 DEF OneTrue, OneStream, CommandsTrue
  <2>5. CASE early
    BY <2>1, <2>5 DEF OneTrue, OneStream
  <2>6. CASE ~early /\ \E raw \in Seq(Int) : SendChunk(raw, TRUE)
    <3>1. PICK raw \in Seq(Int) : SendChunk(raw, TRUE)
      BY <2>6
    <3>2. CommandsTrue /\ OneStream /\ ~closed
      BY <2>2, <2>6 DEF OneTrue
    <3>3. CommandsTrue' /\ OneStream'
      BY <2>1, <2>6, <3>1, <3>2, CommandSent
    <3> QED
      BY <3>3 DEF OneTrue
  <2> QED
    BY <2>3, <2>4, <2>5, <2>6
<1>7. ASSUME NEW talk \in BOOLEAN, ResetBegins(talk)
      PROVE  OneTrue'
  BY <1>7 DEF ResetBegins, stream, ingest, listen, decoded, world,
              ghosts, VoiceType, Threads, Flagged, Controlling, Generations,
              OneTrue, CommandsTrue, OneStream
<1>8. ASSUME ResetEnds
      PROVE  OneTrue'
  BY <1>8 DEF ResetEnds, stream, ingest, listen, decoded, world,
              ghosts, VoiceType, Threads, Flagged, Controlling, Generations,
              OneTrue, CommandsTrue, OneStream
<1>9. ASSUME Talk
      PROVE  OneTrue'
  BY <1>9 DEF Talk, stream, ingest, listen, decoded, world,
              ghosts, VoiceType, Threads, Flagged, Controlling, Generations,
              OneTrue, CommandsTrue, OneStream
<1>10. ASSUME SelectPressed
      PROVE  OneTrue'
  BY <1>10 DEF SelectPressed, stream, ingest, listen, decoded,
               world, ghosts, VoiceType, Threads, Flagged, Controlling,
               Generations, OneTrue, CommandsTrue, OneStream
<1>11. ASSUME Joined
      PROVE  OneTrue'
  BY <1>11 DEF Joined, stream, ingest, listen, decoded, world,
               ghosts, VoiceType, Threads, Flagged, Controlling, Generations,
               OneTrue, CommandsTrue, OneStream
<1>12. ASSUME Opened
      PROVE  OneTrue'
  BY <1>12 DEF Opened, IdleEnc, IdleDec, stream, ingest, listen,
               decoded, world, ghosts, VoiceType, Threads, Flagged,
               Controlling, Generations, OneTrue, CommandsTrue, OneStream
<1>13. CASE UNCHANGED <<early, ctl, closed, bc_open, cmds,
                        tx_stream>>
  BY <1>13 DEF OneTrue, CommandsTrue, OneStream
<1>14. ASSUME Ingest
      PROVE  UNCHANGED <<early, ctl, closed, bc_open, cmds,
                         tx_stream>>
  BY <1>14 DEF Ingest, stream, ingest, listen, decoded, world,
               ghosts
<1>15. ASSUME Receive
      PROVE  UNCHANGED <<early, ctl, closed, bc_open, cmds,
                         tx_stream>>
  BY <1>15 DEF Receive, stream, ingest, listen, decoded, world,
               ghosts
<1>16. ASSUME Fade
      PROVE  UNCHANGED <<early, ctl, closed, bc_open, cmds,
                         tx_stream>>
  BY <1>16 DEF Fade, stream, ingest, listen, decoded, world,
               ghosts
<1>17. ASSUME NEW e \in Encoders, EncExit(e)
      PROVE  UNCHANGED <<early, ctl, closed, bc_open, cmds,
                         tx_stream>>
  BY <1>17 DEF EncExit, stream, ingest, listen, decoded, world,
               ghosts
<1>18. ASSUME NEW e \in Encoders, FeedEnter(e)
      PROVE  UNCHANGED <<early, ctl, closed, bc_open, cmds,
                         tx_stream>>
  BY <1>18 DEF FeedEnter, EncDone, stream, ingest, listen, decoded,
               world, ghosts
<1>19. ASSUME NEW e \in Encoders, FeedLeave(e)
      PROVE  UNCHANGED <<early, ctl, closed, bc_open, cmds,
                         tx_stream>>
  BY <1>19 DEF FeedLeave, EncDone, stream, ingest, listen, decoded,
               world, ghosts
<1>20. ASSUME NEW d \in Decoders, DecLook(d)
      PROVE  UNCHANGED <<early, ctl, closed, bc_open, cmds,
                         tx_stream>>
  BY <1>20 DEF DecLook, stream, ingest, listen, decoded, world,
               ghosts
<1>21. ASSUME NEW d \in Decoders, DecCommit(d)
      PROVE  UNCHANGED <<early, ctl, closed, bc_open, cmds,
                         tx_stream>>
  BY <1>21 DEF DecCommit, stream, ingest, listen, decoded, world,
               ghosts
<1>22. ASSUME NEW d \in Decoders, DecExit(d)
      PROVE  UNCHANGED <<early, ctl, closed, bc_open, cmds,
                         tx_stream>>
  BY <1>22 DEF DecExit, stream, ingest, listen, decoded, world,
               ghosts
<1>23. ASSUME NEW s \in Stops, StopPressed(s)
      PROVE  UNCHANGED <<early, ctl, closed, bc_open, cmds,
                         tx_stream>>
  BY <1>23 DEF StopPressed, stream, ingest, listen, decoded, world,
               ghosts
<1>24. ASSUME NEW s \in Stops, StopDrained(s)
      PROVE  UNCHANGED <<early, ctl, closed, bc_open, cmds,
                         tx_stream>>
  BY <1>24 DEF StopDrained, stream, ingest, listen, decoded, world,
               ghosts
<1>25. ASSUME NEW s \in Stops, StopGivesUp(s)
      PROVE  UNCHANGED <<early, ctl, closed, bc_open, cmds,
                         tx_stream>>
  BY <1>25 DEF StopGivesUp, stream, ingest, listen, decoded, world,
               ghosts
<1>26. ASSUME NEW s \in Stops, StopRaises(s)
      PROVE  UNCHANGED <<early, ctl, closed, bc_open, cmds,
                         tx_stream>>
  BY <1>26 DEF StopRaises, Answer, stream, ingest, listen, decoded,
               world, ghosts
<1>27. ASSUME NEW s \in Stops, StopWaited(s)
      PROVE  UNCHANGED <<early, ctl, closed, bc_open, cmds,
                         tx_stream>>
  BY <1>27 DEF StopWaited, Answer, stream, ingest, listen, decoded,
               world, ghosts
<1>28. ASSUME NEW s \in Stops, StopSnapshot(s)
      PROVE  UNCHANGED <<early, ctl, closed, bc_open, cmds,
                         tx_stream>>
  BY <1>28 DEF StopSnapshot, stream, ingest, listen, decoded,
               world, ghosts
<1>29. ASSUME NEW s \in Stops, StopWrite(s)
      PROVE  UNCHANGED <<early, ctl, closed, bc_open, cmds,
                         tx_stream>>
  BY <1>29 DEF StopWrite, Answer, stream, ingest, listen, decoded,
               world, ghosts
<1> QED
  BY <1>1, <1>2, <1>3, <1>4, <1>5, <1>6, <1>7, <1>8, <1>9, <1>10, <1>11, <1>12,
     <1>13, <1>14, <1>15, <1>16, <1>17, <1>18, <1>19, <1>20, <1>21, <1>22,
     <1>23, <1>24, <1>25, <1>26, <1>27, <1>28, <1>29 DEF Next, Encoding,
     Decoding, Stopping, Control

LEMMA Together ==
  ASSUME NEW X, NEW s \in Seq(X), NEW t \in Seq(X), NEW u \in Seq(X)
  PROVE  (s \o t) \o u = s \o (t \o u)
<1> DEFINE a == s \o t
           b == t \o u
           c == a \o u
<1>1. /\ a \in Seq(X) /\ Len(a) = Len(s) + Len(t)
      /\ \A i \in 1..Len(s) : a[i] = s[i]
      /\ \A i \in 1..Len(t) : a[Len(s) + i] = t[i]
  BY Concatenated
<1>2. /\ b \in Seq(X) /\ Len(b) = Len(t) + Len(u)
      /\ \A i \in 1..Len(t) : b[i] = t[i]
      /\ \A i \in 1..Len(u) : b[Len(t) + i] = u[i]
  BY Concatenated
<1> HIDE DEF a, b
<1>3. /\ c \in Seq(X) /\ Len(c) = Len(a) + Len(u)
      /\ \A i \in 1..Len(a) : c[i] = a[i]
      /\ \A i \in 1..Len(u) : c[Len(a) + i] = u[i]
  <2>1. a \in Seq(X)
    BY <1>1
  <2> QED
    BY <2>1, Concatenated
<1> HIDE DEF c
<1>4. Len(s) \in Nat /\ Len(t) \in Nat /\ Len(u) \in Nat
  OBVIOUS
<1>5. Len(c) = Len(s) + Len(b) /\ \A i \in 1..Len(s) : c[i] = s[i]
  BY <1>1, <1>2, <1>3, <1>4
<1>6. \A i \in 1..Len(b) : c[Len(s) + i] = b[i]
  <2> SUFFICES ASSUME NEW i \in 1..Len(b) PROVE c[Len(s) + i] = b[i]
    OBVIOUS
  <2>1. CASE i \in 1..Len(t)
    <3>1. Len(s) + i \in 1..Len(a)
      BY <1>1, <1>4, <2>1
    <3>2. c[Len(s) + i] = a[Len(s) + i]
      BY <1>3, <3>1
    <3>3. a[Len(s) + i] = t[i] /\ b[i] = t[i]
      BY <1>1, <1>2, <2>1
    <3> QED
      BY <3>2, <3>3
  <2>2. CASE i \notin 1..Len(t)
    <3> DEFINE j == i - Len(t)
    <3>1. j \in 1..Len(u) /\ i = Len(t) + j /\ Len(s) + i = Len(a) + j
      BY <1>1, <1>2, <1>4, <2>2
    <3> HIDE DEF j
    <3> QED
      BY <1>2, <1>3, <3>1
  <2> QED
    BY <2>1, <2>2
<1>7. c = s \o b
  BY <1>2, <1>3, <1>5, <1>6, Pieced
<1> QED
  BY <1>7 DEF a, b, c

LEMMA Strung ==
  ASSUME NEW s \in Seq(Int), NEW t \in Seq(Int), NEW u \in Seq(Int)
  PROVE  (s \o t) \o u = s \o (t \o u)
  BY Together

LEMMA SameCut ==
  ASSUME NEW X, NEW s \in Seq(X), NEW t \in Seq(X), Begins(s, t),
         NEW n \in 0..Len(s)
  PROVE  SubSeq(t, 1, n) = SubSeq(s, 1, n)
<1>1. n \in 0..Len(t)
  BY DEF Begins
<1>2. /\ SubSeq(s, 1, n) \in Seq(X) /\ Len(SubSeq(s, 1, n)) = n
      /\ \A i \in 1..n : SubSeq(s, 1, n)[i] = s[i]
  BY BeginsCut
<1>3. /\ SubSeq(t, 1, n) \in Seq(X) /\ Len(SubSeq(t, 1, n)) = n
      /\ \A i \in 1..n : SubSeq(t, 1, n)[i] = t[i]
  BY <1>1, BeginsCut
<1>4. \A i \in 1..n : s[i] = t[i]
  BY DEF Begins
<1> DEFINE u == SubSeq(t, 1, n)
           v == SubSeq(s, 1, n)
<1> HIDE DEF u, v
<1>5. Len(u) = Len(v) /\ \A i \in 1..Len(u) : u[i] = v[i]
  BY <1>2, <1>3, <1>4 DEF u, v
<1> QED
  BY <1>2, <1>3, <1>5, SeqEqual DEF u, v

-----------------------------------------------------------------------------
(* What is said while a session lasts: the posts handed to the encoder, the *)
(* batch taken and the queue are what was heard; the tokens sent and those *)
(* that wait are the speech of the posts encoded.                          *)
Session == ctl.pc \in {"idle", "talk", "join"}
Spoken == IF Flushing /\ buf # <<>> THEN SubSeq(buf, 1, Len(buf) - 2) ELSE buf

Encoded ==
  /\ k <= Len(buf) /\ (buf = <<>> \/ k < Len(buf))
  /\ tx_stream \o (tokcarry \o pending) = Speech(SubSeq(buf, 1, k))
  /\ Flushing /\ buf # <<>> =>
       Len(buf) >= 3 /\ buf[Len(buf)] = 0 /\ buf[Len(buf) - 1] = 0
Complete ==
  /\ \A e \in Encoders : Takes(e) => heard = Spoken \o (enc[e].batch \o inq)
  /\ (\A e \in Encoders : ~Takes(e)) => heard = Spoken \o inq
Awaited ==
  \A s \in Stops :
    fin[s].pc \in {"lock", "flush"} /\ ~gaveup => Len(pressed) <= Len(Spoken)
(* One encoder: all that was heard is known, in order.                      *)
Told == Begins(pressed, heard) /\ (~closed => Complete /\ Awaited)
SaidTrue ==
  ~early /\ Session => (~closed => Encoded) /\ (~outlived => Told)

(* In the middle of a reset the one encoder may hold a batch of the session *)
(* before, which passes for one of the session to come.                    *)
Strayed ==
  ctl.pc = "clear" /\ ~outlived =>
    /\ \A e \in Encoders : Takes(e) => heard = enc[e].batch
    /\ (\A e \in Encoders : ~Takes(e)) => heard = <<>>

LEMMA EncodedStays ==
  ASSUME UNCHANGED <<k, buf, tx_stream, tokcarry, pending, fin>>
  PROVE  /\ Encoded => Encoded'
         /\ Spoken' = Spoken
  BY DEF Encoded, Spoken, Flushing

LEMMA SpokenTyped ==
  ASSUME VoiceType, Encoded
  PROVE  Spoken \in Seq(Nat) /\ Len(Spoken) \in Nat
<1>1. buf \in Seq(Nat)
  BY DEF VoiceType, Queued
<1>2. CASE Flushing /\ buf # <<>>
  <2>1. Len(buf) - 2 \in 0..Len(buf)
    BY <1>1, <1>2 DEF Encoded
  <2>2. Spoken = SubSeq(buf, 1, Len(buf) - 2)
    BY <1>2 DEF Spoken
  <2>3. SubSeq(buf, 1, Len(buf) - 2) \in Seq(Nat)
    BY <1>1, <2>1, BeginsCut
  <2> QED
    BY <2>2, <2>3
<1>3. CASE ~(Flushing /\ buf # <<>>)
  BY <1>1, <1>3 DEF Spoken
<1> QED
  BY <1>2, <1>3

LEMMA Heard ==
  ASSUME VoiceType, Ingest, ctl.pc # "clear", Encoded, Complete
  PROVE  Complete'
<1> DEFINE x == posted + 1
<1>1. /\ inq' = Append(inq, x) /\ heard' = Append(heard, x)
      /\ UNCHANGED <<gen, enc, fin, buf>>
  BY DEF Ingest, stream
<1>2. x \in Nat /\ inq \in Seq(Nat) /\ heard \in Seq(Nat)
  BY DEF VoiceType, Counted, Queued
<1>3. Spoken \in Seq(Nat) /\ Spoken' = Spoken
  BY <1>1, SpokenTyped DEF Spoken, Flushing
<1> HIDE DEF x
<1>4. ASSUME NEW t \in Seq(Nat)
      PROVE  t \o Append(inq, x) = Append(t \o inq, x)
  BY <1>2
<1>5. ASSUME NEW e \in Encoders, Takes(e)'
      PROVE  heard' = Spoken \o (enc[e].batch \o inq')
  <2>1. Takes(e) /\ enc[e].batch \in Seq(Nat)
    BY <1>1, <1>5 DEF Takes, VoiceType, Threads, Work
  <2> DEFINE b == enc[e].batch
  <2>2. heard = Spoken \o (b \o inq)
    BY <2>1 DEF Complete
  <2> HIDE DEF b
  <2>3. b \in Seq(Nat) /\ b \o inq \in Seq(Nat)
    BY <1>2, <2>1 DEF b
  <2> DEFINE q == b \o inq
  <2>4. b \o Append(inq, x) = Append(q, x)
    BY <1>4, <2>3
  <2> HIDE DEF q
  <2>5. Spoken \o Append(q, x) = Append(Spoken \o q, x)
    BY <1>2, <1>3, <2>3 DEF q
  <2> QED
    BY <1>1, <2>2, <2>4, <2>5 DEF q, b
<1>6. ASSUME \A e \in Encoders : ~Takes(e)'
      PROVE  heard' = Spoken \o inq'
  <2>1. \A e \in Encoders : ~Takes(e)
    BY <1>1, <1>6 DEF Takes
  <2>2. heard = Spoken \o inq
    BY <2>1 DEF Complete
  <2> QED
    BY <1>1, <1>3, <1>4, <2>2
<1>7. \A e \in Encoders : enc'[e].batch = enc[e].batch
  BY <1>1
<1> QED
  BY <1>3, <1>5, <1>6, <1>7 DEF Complete

LEMMA Taken ==
  ASSUME VoiceType, Workers, NEW e \in Encoders, EncTake(e), ~outlived,
         ctl.pc # "clear", Encoded, Complete
  PROVE  Complete'
<1>1. /\ enc[e].pc = "idle" /\ inq' = <<>>
      /\ UNCHANGED <<gen, fin, buf, heard>>
      /\ \/ inq = <<>> /\ enc' = [enc EXCEPT ![e] = IdleEnc]
         \/ enc' = [enc EXCEPT ![e] =
                      [pc |-> "taken", batch |-> inq, g |-> gen]]
  BY DEF EncTake, stream
<1>2. inq \in Seq(Nat) /\ enc \in [Encoders -> Work]
  BY DEF VoiceType, Queued, Threads
<1>3. Spoken \in Seq(Nat) /\ Spoken' = Spoken
  BY <1>1, SpokenTyped DEF Spoken, Flushing
<1>4. \A x \in Encoders : ~Takes(x)
  BY <1>1 DEF Workers, Takes
<1>5. heard = Spoken \o inq
  BY <1>4 DEF Complete
<1>6. CASE inq = <<>> /\ enc' = [enc EXCEPT ![e] = IdleEnc]
  <2>1. \A x \in Encoders : ~Takes(x)'
    BY <1>1, <1>2, <1>4, <1>6 DEF Takes, IdleEnc
  <2> QED
    BY <1>1, <1>3, <1>5, <1>6, <2>1 DEF Complete
<1>7. CASE enc' = [enc EXCEPT ![e] =
                     [pc |-> "taken", batch |-> inq, g |-> gen]]
  <2>1. /\ Takes(e)' /\ enc'[e].batch = inq
        /\ \A x \in Encoders \ {e} : ~Takes(x)'
    BY <1>1, <1>2, <1>4, <1>7 DEF Takes
  <2>2. inq \o inq' = inq
    BY <1>1, <1>2
  <2> QED
    BY <1>1, <1>3, <1>5, <2>1, <2>2 DEF Complete
<1> QED
  BY <1>1, <1>6, <1>7

(* A batch of this session goes to the encoder, behind what it has.        *)
LEMMA FedGrows ==
  ASSUME VoiceAssumption, VoiceType, Locks, NEW e \in Encoders, FeedEnter(e),
         Encoded
  PROVE  /\ ~Flushing /\ ~Flushing' /\ Encoded'
         /\ buf' \in Seq(Nat) /\ Begins(buf, buf')
<1>1. /\ enc[e].pc = "taken" /\ airlock = Nobody
      /\ UNCHANGED <<fin, k, pending, tokcarry, tx_stream>>
      /\ buf' = buf \/ buf' = buf \o enc[e].batch
  BY DEF FeedEnter
<1>2. buf \in Seq(Nat) /\ k \in Nat /\ enc[e].batch \in Seq(Nat)
  BY DEF VoiceType, Queued, Threads, Counted, Work
<1>3. ~Flushing /\ ~Flushing'
  BY <1>1 DEF Flushing, Locks, Locked, VoiceAssumption
<1>4. k <= Len(buf) /\ (buf = <<>> \/ k < Len(buf))
  BY DEF Encoded
<1>5. CASE buf' = buf
  BY <1>1, <1>2, <1>3, <1>5 DEF Encoded, Begins
<1>6. CASE buf' = buf \o enc[e].batch
  <2> DEFINE b == enc[e].batch
  <2> HIDE DEF b
  <2>1. /\ buf' \in Seq(Nat) /\ Len(buf') = Len(buf) + Len(b) /\ Len(b) \in Nat
        /\ Len(buf) \in Nat /\ Begins(buf, buf')
    BY <1>2, <1>6, Concatenated, BeginsConcat DEF b
  <2>2. k <= Len(buf') /\ (buf' = <<>> \/ k < Len(buf'))
    <3>1. CASE buf = <<>>
      <4>1. Len(buf) = 0 /\ k = 0
        BY <1>2, <1>4, <3>1
      <4> QED
        BY <2>1, <4>1
    <3>2. CASE k < Len(buf)
      BY <1>2, <2>1, <3>2
    <3> QED
      BY <1>4, <3>1, <3>2
  <2>3. SubSeq(buf', 1, k) = SubSeq(buf, 1, k)
    BY <1>2, <1>4, <2>1, SameCut
  <2>4. Encoded'
    BY <1>1, <1>3, <2>2, <2>3 DEF Encoded
  <2> QED
    BY <1>3, <2>1, <2>4
<1> QED
  BY <1>1, <1>5, <1>6

LEMMA Fed ==
  ASSUME VoiceAssumption, VoiceType, Workers, Locks, NEW e \in Encoders,
         FeedEnter(e), ~outlived, Encoded, Complete, Awaited
  PROVE  Complete' /\ Awaited'
<1>1. /\ enc[e].pc = "taken"
      /\ UNCHANGED <<gen, fin, inq, heard, gaveup, pressed>>
  BY DEF FeedEnter, ghosts
<1>2. enc \in [Encoders -> Work] /\ buf \in Seq(Nat) /\ inq \in Seq(Nat)
  BY DEF VoiceType, Queued, Threads
<1>3. buf' \in Seq(Nat) /\ Begins(buf, buf')
  BY FedGrows
<1>4. Spoken = buf /\ Spoken' = buf'
  BY FedGrows DEF Spoken
<1>5. \A x \in Encoders \ {e} : enc[x].pc = "off"
  BY <1>1 DEF Workers
<1>6. CASE enc[e].g # gen
  <2>1. UNCHANGED buf /\ enc' = [enc EXCEPT ![e] = IdleEnc]
    BY <1>6 DEF FeedEnter, EncDone
  <2>2. \A x \in Encoders : ~Takes(x)
    BY <1>5, <1>6 DEF Takes
  <2>3. \A x \in Encoders : ~Takes(x)'
    BY <1>1, <1>2, <1>5, <2>1 DEF Takes, IdleEnc
  <2>4. Complete'
    BY <1>1, <1>4, <2>1, <2>2, <2>3 DEF Complete
  <2>5. Awaited'
    BY <1>1, <1>4, <2>1 DEF Awaited
  <2> QED
    BY <2>4, <2>5
<1>7. CASE enc[e].g = gen
  <2> DEFINE b == enc[e].batch
  <2>1. buf' = buf \o b /\ enc' = [enc EXCEPT ![e].pc = "feed"]
    BY <1>7 DEF FeedEnter
  <2>2. b \in Seq(Nat) /\ Takes(e)
    BY <1>1, <1>2, <1>7 DEF Work, Takes
  <2>3. heard = buf \o (b \o inq)
    BY <1>4, <2>2 DEF Complete
  <2> HIDE DEF b
  <2>4. heard = buf' \o inq
    <3>1. (buf \o b) \o inq = buf \o (b \o inq)
      BY <1>2, <2>2, Together
    <3> QED
      BY <2>1, <2>3, <3>1
  <2>5. \A x \in Encoders : ~Takes(x)'
    BY <1>1, <1>2, <1>5, <2>1 DEF Takes, Work
  <2>6. Complete'
    BY <1>1, <1>4, <2>4, <2>5 DEF Complete
  <2>7. Len(buf) <= Len(buf') /\ Len(buf) \in Nat /\ Len(buf') \in Nat
    BY <1>2, <1>3 DEF Begins
  <2>8. Awaited'
    BY <1>1, <1>4, <2>7 DEF Awaited, VoiceType, Queued
  <2> QED
    BY <2>6, <2>8
<1> QED
  BY <1>6, <1>7

(* The encoder moves on by one post.                                       *)
LEMMA Encodes ==
  ASSUME VoiceAssumption, VoiceType, EncodeChunk, ~closed, Encoded,
         UNCHANGED fin
  PROVE  Encoded'
<1> DEFINE x == Tokens(buf[k + 1])
           w == tokcarry \o pending
           v == tokcarry' \o pending'
<1>1. /\ k' = k + 1 /\ k + 2 <= Len(buf) /\ UNCHANGED buf
      /\ pending' \in Seq(Nat) /\ tokcarry' \in Seq(Nat)
      /\ \/ tx_stream' = tx_stream /\ v = w \o x
         \/ \E raw \in Seq(Nat) :
              SendChunk(raw, FALSE) /\ raw \o v = w \o x
  BY ChunkEncoded
<1>2. /\ k \in Nat /\ buf \in Seq(Nat) /\ tx_stream \in Seq(Int)
      /\ Len(buf) \in Nat
  BY DEF VoiceType, Counted, Queued, Streamed
<1>3. w \in Seq(Nat) /\ v \in Seq(Nat)
  BY <1>1, Concatenated DEF VoiceType, Streamed
<1>4. /\ x \in Seq(Nat)
      /\ Speech(SubSeq(buf, 1, k + 1)) = Speech(SubSeq(buf, 1, k)) \o x
  <2>1. k + 1 <= Len(buf)
    BY <1>1, <1>2
  <2> QED
    BY <1>2, <2>1, SpeechGrows
<1>5. tx_stream \o w = Speech(SubSeq(buf, 1, k))
  BY DEF Encoded
<1> HIDE DEF x, w, v
<1>6. w \in Seq(Int) /\ v \in Seq(Int) /\ x \in Seq(Int)
  BY <1>3, <1>4
<1>11. tx_stream \in Seq(Int)
  BY <1>2
<1>7. tx_stream' \o v = (tx_stream \o w) \o x
  <2>1. (tx_stream \o w) \o x = tx_stream \o (w \o x)
    BY <1>11, <1>6, Strung
  <2>2. CASE tx_stream' = tx_stream /\ v = w \o x
    BY <2>1, <2>2
  <2>3. ASSUME NEW raw \in Seq(Nat), SendChunk(raw, FALSE), raw \o v = w \o x
        PROVE  tx_stream' \o v = (tx_stream \o w) \o x
    <3>1. tx_stream' = tx_stream \o raw
      BY <2>3 DEF SendChunk
    <3>2. raw \in Seq(Int)
      OBVIOUS
    <3>3. (tx_stream \o raw) \o v = tx_stream \o (raw \o v)
      BY <1>11, <1>6, <3>2, Strung
    <3> QED
      BY <2>1, <2>3, <3>1, <3>3
  <2> QED
    BY <1>1, <2>2, <2>3
<1>8. tx_stream' \o (tokcarry' \o pending') = Speech(SubSeq(buf', 1, k'))
  BY <1>1, <1>4, <1>5, <1>7 DEF v
<1>9. k' <= Len(buf') /\ k' < Len(buf')
  BY <1>1, <1>2
<1>10. Flushing' <=> Flushing
  BY DEF Flushing
<1> QED
  BY <1>1, <1>8, <1>9, <1>10 DEF Encoded

(* The STOP thread moves, and nothing else does.                           *)
LEMMA StopMovesOn ==
  ASSUME UNCHANGED <<heard, k, buf, tx_stream, tokcarry, pending, inq, gen,
                     enc>>,
         \A s \in Stops : fin'[s].pc = "flush" <=> fin[s].pc = "flush",
         Encoded
  PROVE  Encoded' /\ (Complete => Complete') /\ Spoken' = Spoken
<1>1. Flushing' <=> Flushing
  BY DEF Flushing
<1>2. Spoken' = Spoken
  BY <1>1 DEF Spoken
<1> QED
  BY <1>1, <1>2 DEF Encoded, Complete, Takes

(* An idle encoder or one that has fed its batch holds nothing.            *)
LEMMA EncoderLeaves ==
  ASSUME VoiceType, Workers, ~outlived, NEW e \in Encoders,
         enc[e].pc \in {"idle", "feed"}, NEW w \in Work, w.pc # "taken",
         enc' = [enc EXCEPT ![e] = w],
         UNCHANGED <<heard, buf, inq, gen, fin, pressed, gaveup>>,
         Complete, Awaited
  PROVE  Complete' /\ Awaited'
<1>1. enc \in [Encoders -> Work]
  BY DEF VoiceType, Threads
<1>2. (\A x \in Encoders : ~Takes(x)) /\ (\A x \in Encoders : ~Takes(x)')
  BY <1>1 DEF Workers, Takes
<1>3. Spoken' = Spoken /\ (Flushing' <=> Flushing)
  BY DEF Spoken, Flushing
<1> QED
  BY <1>2, <1>3 DEF Complete, Awaited

(* STOP finds the encoder idle: all that was heard is with the encoder.    *)
LEMMA Drained ==
  ASSUME Solo, VoiceType, Workers, ~outlived, NEW s \in Stops,
         StopDrained(s), Begins(pressed, heard), Encoded, Complete
  PROVE  Awaited'
<1>1. /\ fin[s].pc = "drain" /\ inq = <<>> /\ ~enc_busy
      /\ fin' = [fin EXCEPT ![s].pc = "lock"]
      /\ UNCHANGED <<heard, pressed, buf>>
  BY DEF StopDrained, EncoderIdle, stream, ghosts
<1>2. \A x \in Encoders : ~Takes(x)
  BY <1>1 DEF Workers, Takes
<1>3. Spoken \in Seq(Nat)
  BY SpokenTyped
<1>4. heard = Spoken
  BY <1>1, <1>2, <1>3 DEF Complete
<1>5. \A x \in Stops : fin'[x].pc # "flush" /\ fin[x].pc # "flush"
  BY <1>1 DEF Solo, VoiceType, Threads, Finishing
<1>6. Spoken' = Spoken
  BY <1>1, <1>5 DEF Spoken, Flushing
<1>7. Len(pressed) <= Len(Spoken)
  BY <1>4 DEF Begins
<1> QED
  BY <1>1, <1>6, <1>7 DEF Awaited

(* STOP puts silence behind what the encoder has.                          *)
LEMMA Flushed ==
  ASSUME VoiceAssumption, Solo, VoiceType, Locks, NEW s \in Stops,
         StopFlush(s), Encoded
  PROVE  Encoded' /\ (Complete => Complete') /\ (Awaited => Awaited')
<1>1. /\ fin[s].pc = "lock" /\ airlock = Nobody
      /\ fin' = [fin EXCEPT ![s].pc = "flush"]
      /\ buf' = IF Len(buf) > k THEN buf \o <<0, 0>> ELSE buf
      /\ UNCHANGED <<heard, pressed, k, tx_stream, tokcarry, pending, inq, gen,
                     enc, gaveup>>
  BY DEF StopFlush, ghosts, ingest, Silence
<1>2. buf \in Seq(Nat) /\ k \in Nat /\ Len(buf) \in Nat
  BY DEF VoiceType, Queued, Counted
<1>3. ~Flushing
  BY <1>1 DEF Flushing, Locks, Locked, VoiceAssumption
<1>4. Spoken = buf
  BY <1>3 DEF Spoken
<1>5. \A x \in Stops : x = s /\ fin'[x].pc = "flush"
  BY <1>1 DEF Solo, VoiceType, Threads, Finishing
<1>6. Flushing'
  BY <1>5 DEF Flushing
<1>7. \A x \in Encoders : Takes(x)' <=> Takes(x)
  BY <1>1 DEF Takes
<1>8. k <= Len(buf) /\ (buf = <<>> \/ k < Len(buf))
  BY DEF Encoded
<1>9. CASE buf = <<>>
  <2>1. buf' = buf /\ buf' = <<>>
    BY <1>1, <1>2, <1>8, <1>9
  <2>2. Spoken' = Spoken
    BY <1>4, <2>1 DEF Spoken
  <2>3. Encoded'
    BY <1>1, <1>8, <2>1 DEF Encoded
  <2>4. Complete => Complete'
    BY <1>1, <1>7, <2>2 DEF Complete
  <2>5. Awaited => Awaited'
    BY <1>1, <1>5, <2>2 DEF Awaited
  <2> QED
    BY <2>3, <2>4, <2>5
<1>10. CASE buf # <<>>
  <2> DEFINE z == <<0, 0>>
  <2>1. buf' = buf \o z
    BY <1>1, <1>2, <1>8, <1>10
  <2>2. z \in Seq(Nat) /\ Len(z) = 2 /\ z[1] = 0 /\ z[2] = 0
    OBVIOUS
  <2> HIDE DEF z
  <2>3. /\ buf' \in Seq(Nat) /\ Len(buf') = Len(buf) + 2 /\ Begins(buf, buf')
        /\ buf'[Len(buf) + 1] = 0 /\ buf'[Len(buf) + 2] = 0
    <3>1. /\ buf \o z \in Seq(Nat) /\ Len(buf \o z) = Len(buf) + 2
          /\ \A i \in 1..2 : (buf \o z)[Len(buf) + i] = z[i]
      <4>1. /\ buf \o z \in Seq(Nat) /\ Len(buf \o z) = Len(buf) + Len(z)
            /\ \A i \in 1..Len(z) : (buf \o z)[Len(buf) + i] = z[i]
        <5>1. buf \in Seq(Nat) /\ z \in Seq(Nat)
          BY <1>2, <2>2
        <5> QED
          BY <5>1, Concatenated
      <4> QED
        BY <2>2, <4>1
    <3>2. Begins(buf, buf \o z)
      BY <1>2, <2>2, BeginsConcat
    <3> QED
      BY <2>1, <2>2, <3>1, <3>2
  <2>4. Len(buf) >= 1 /\ Len(buf') >= 3 /\ Len(buf') - 2 = Len(buf)
    BY <1>2, <1>10, <2>3
  <2>5. buf'[Len(buf')] = 0 /\ buf'[Len(buf') - 1] = 0
    <3>1. Len(buf') = Len(buf) + 2 /\ Len(buf') - 1 = Len(buf) + 1
      BY <1>2, <2>3
    <3> QED
      BY <2>3, <3>1
  <2>6. SubSeq(buf', 1, Len(buf)) = SubSeq(buf, 1, Len(buf))
    BY <1>2, <2>3, SameCut
  <2>7. SubSeq(buf, 1, Len(buf)) = buf
    BY <1>2
  <2>8. Spoken' = Spoken
    <3>1. buf' # <<>>
      BY <2>3, <2>4
    <3>2. Spoken' = SubSeq(buf', 1, Len(buf') - 2)
      BY <1>6, <3>1 DEF Spoken
    <3> QED
      BY <1>4, <2>4, <2>6, <2>7, <3>2
  <2>9. SubSeq(buf', 1, k) = SubSeq(buf, 1, k)
    BY <1>2, <1>8, <2>3, SameCut
  <2>10. k <= Len(buf') /\ k < Len(buf')
    BY <1>2, <1>8, <2>3
  <2>11. Encoded'
    BY <1>1, <2>4, <2>5, <2>9, <2>10 DEF Encoded
  <2>12. Complete => Complete'
    BY <1>1, <1>7, <2>8 DEF Complete
  <2>13. Awaited => Awaited'
    BY <1>1, <1>5, <2>8 DEF Awaited
  <2> QED
    BY <2>11, <2>12, <2>13
<1> QED
  BY <1>9, <1>10

(* A STOP that closes nothing had nothing to send.                         *)
LEMMA ClosedNothing ==
  ASSUME VoiceAssumption, Solo, VoiceType, NEW s \in Stops, StopClose(s),
         ~closed, ~closed', Encoded, CommandsTrue
  PROVE  buf = <<>> /\ UNCHANGED tx_stream
<1> DEFINE t == tokcarry \o pending
<1>1. /\ fin[s].pc = "flush" /\ ~Encodable
      /\ \/ t # <<>> /\ SendChunk(Padded(t), TRUE)
         \/ bc_open /\ SendChunk(<<Marker>>, TRUE)
         \/ t = <<>> /\ ~bc_open /\ UNCHANGED tx_stream
  BY DEF StopClose
<1>2. ASSUME NEW raw, SendChunk(raw, TRUE)
      PROVE  FALSE
  BY <1>2, Zenon DEF SendChunk
<1>3. t = <<>> /\ ~bc_open /\ UNCHANGED tx_stream
  BY <1>1, <1>2
<1>4. cmds = <<>> /\ tx_stream = <<>>
  BY <1>3 DEF CommandsTrue
<1> HIDE DEF t
<1>5. Speech(SubSeq(buf, 1, k)) = <<>>
  <2>1. tx_stream \o t = Speech(SubSeq(buf, 1, k))
    BY DEF Encoded, t
  <2>2. <<>> \o <<>> = <<>>
    OBVIOUS
  <2> QED
    BY <1>3, <1>4, <2>1, <2>2
<1>6. buf \in Seq(Nat) /\ k \in Nat /\ k <= Len(buf) /\ Len(buf) \in Nat
  BY DEF VoiceType, Queued, Counted, Encoded
<1>7. k = 0
  <2>1. SubSeq(buf, 1, k) \in Seq(Nat) /\ Len(SubSeq(buf, 1, k)) = k
    BY <1>6, BeginsCut
  <2> DEFINE b == SubSeq(buf, 1, k)
             n == k * TokensPerPost
  <2> HIDE DEF b
  <2>2. Len(Speech(b)) = n
    BY <2>1, SpeechTyped DEF b
  <2>3. n = 0
    BY <1>5, <2>2 DEF b
  <2>4. TokensPerPost \in Nat \ {0}
    BY DEF VoiceAssumption
  <2> QED
    BY <1>6, <2>3, <2>4, SMTT(30)
<1>8. ~ Len(buf) >= 2
  BY <1>1, <1>6, <1>7 DEF Encodable
<1>9. Flushing
  BY <1>1 DEF Flushing
<1>10. buf # <<>> => Len(buf) >= 3
  BY <1>9 DEF Encoded
<1> QED
  BY <1>3, <1>6, <1>8, <1>10


LEMMA SilentSpeech ==
  ASSUME VoiceAssumption
  PROVE  Speech(<<>>) = <<>>
<1>1. <<>> \in Seq(Nat) /\ Len(<<>>) = 0
  OBVIOUS
<1>2. 0 * TokensPerPost = 0
  BY DEF VoiceAssumption
<1> DEFINE u == Speech(<<>>)
<1>3. u \in Seq(Nat) /\ Len(u) = Len(<<>>) * TokensPerPost
  BY <1>1, SpeechTyped
<1> HIDE DEF u
<1>4. Len(u) = 0
  BY <1>1, <1>2, <1>3
<1>5. u = <<>>
  BY <1>3, <1>4
<1> QED
  BY <1>5 DEF u

LEMMA SaidStep ==
  ASSUME VoiceAssumption, Solo, VoiceType, Workers, Locks, Generations,
         StopTrue, OneTrue, SaidTrue, Strayed, Next
  PROVE  SaidTrue'
<1>1. ASSUME Ingest
      PROVE  SaidTrue'
  <2> SUFFICES ASSUME ~early', Session'
               PROVE  (~closed' => Encoded') /\ (~outlived' => Told')
    BY DEF SaidTrue
  <2>1. ~early /\ Session /\ outlived' = outlived
    BY <1>1 DEF Ingest, stream, ingest, listen, decoded, world, ghosts,
                Session
  <2>2. (~closed => Encoded) /\ (~outlived => Told)
    BY <2>1 DEF SaidTrue
  <2>3. /\ UNCHANGED <<gen, closed, k, buf, tx_stream, tokcarry, pending, enc,
                       fin, pressed, gaveup>>
        /\ heard' = Append(heard, posted + 1)
    BY <1>1, <2>1 DEF Ingest, stream, Session
  <2>4. pressed \in Seq(Nat) /\ heard \in Seq(Nat) /\ posted + 1 \in Nat
    BY DEF VoiceType, Queued, Counted
  <2>5. Begins(pressed, heard) => Begins(pressed, heard')
    <3>1. /\ Len(Append(heard, posted + 1)) = Len(heard) + 1
          /\ \A i \in 1..Len(heard) : Append(heard, posted + 1)[i] = heard[i]
      BY <2>4
    <3>2. Begins(heard, heard') /\ heard' \in Seq(Nat)
      BY <2>3, <2>4, <3>1 DEF Begins
    <3> QED
      BY <2>4, <3>2, BeginsTrans
  <2>6. Spoken' = Spoken /\ (Flushing' <=> Flushing)
    BY <2>3 DEF Spoken, Flushing
  <2>7. (Encoded => Encoded') /\ (Awaited => Awaited')
    BY <2>3, <2>6 DEF Encoded, Awaited
  <2>8. Encoded /\ Complete => Complete'
    BY <1>1, <2>1, Heard DEF Session
  <2> QED
    BY <2>1, <2>2, <2>3, <2>5, <2>7, <2>8 DEF Told
<1>2. ASSUME NEW e \in Encoders, EncTake(e)
      PROVE  SaidTrue'
  <2> SUFFICES ASSUME ~early', Session'
               PROVE  (~closed' => Encoded') /\ (~outlived' => Told')
    BY DEF SaidTrue
  <2>1. ~early /\ Session /\ outlived' = outlived
    BY <1>2 DEF EncTake, stream, ingest, listen, decoded, world, ghosts,
                Session
  <2>2. (~closed => Encoded) /\ (~outlived => Told)
    BY <2>1 DEF SaidTrue
  <2>3. UNCHANGED <<gen, closed, k, buf, tx_stream, tokcarry, pending, heard,
                    fin, pressed, gaveup>>
    BY <1>2, <2>1 DEF Session, EncTake, stream, ingest, listen, decoded, world, ghosts
  <2>6. Spoken' = Spoken /\ (Flushing' <=> Flushing)
    BY <2>3 DEF Spoken, Flushing
  <2>7. (Encoded => Encoded') /\ (Awaited => Awaited')
    BY <2>3, <2>6 DEF Encoded, Awaited
  <2>8. ~outlived /\ Encoded /\ Complete => Complete'
    BY <1>2, <2>1, Taken DEF Session
  <2> QED
    BY <2>1, <2>2, <2>3, <2>7, <2>8 DEF Told
<1>3. ASSUME NEW e \in Encoders, EncExit(e)
      PROVE  SaidTrue'
  <2> SUFFICES ASSUME ~early', Session'
               PROVE  (~closed' => Encoded') /\ (~outlived' => Told')
    BY DEF SaidTrue
  <2>1. ~early /\ Session /\ outlived' = outlived
    BY <1>3 DEF EncExit, stream, ingest, listen, decoded, world, ghosts,
                Session
  <2>2. (~closed => Encoded) /\ (~outlived => Told)
    BY <2>1 DEF SaidTrue
  <2>3. /\ enc[e].pc \in {"idle", "feed"} /\ enc[e] \in Work
        /\ UNCHANGED <<heard, pressed, k, buf, tx_stream, tokcarry, pending,
                       inq,
                       gen, gaveup, closed>>
        /\ UNCHANGED fin
    BY <1>3 DEF EncExit, stream, ingest, listen, decoded, world, ghosts,
                EncDone, VoiceType, Threads
  <2> DEFINE w == [enc[e] EXCEPT !.pc = "off"]
  <2>4. w \in Work /\ w.pc # "taken" /\ enc' = [enc EXCEPT ![e] = w]
    BY <1>3, <2>3 DEF EncExit, Work
  <2> HIDE DEF w
  <2>5. Encoded => Encoded'
    BY <2>3, EncodedStays
  <2>6. ~outlived /\ Complete /\ Awaited => Complete' /\ Awaited'
    BY <2>3, <2>4, EncoderLeaves
  <2> QED
    BY <2>1, <2>2, <2>3, <2>5, <2>6 DEF Told
<1>4. ASSUME NEW e \in Encoders, FeedEnter(e)
      PROVE  SaidTrue'
  <2> SUFFICES ASSUME ~early', Session'
               PROVE  (~closed' => Encoded') /\ (~outlived' => Told')
    BY DEF SaidTrue
  <2>1. ~early /\ Session /\ outlived' = outlived
    BY <1>4 DEF FeedEnter, stream, ingest, listen, decoded, world, ghosts,
                Session
  <2>2. (~closed => Encoded) /\ (~outlived => Told)
    BY <2>1 DEF SaidTrue
  <2>3. UNCHANGED <<closed, heard, pressed>>
    BY <1>4 DEF FeedEnter, stream, ingest, listen, decoded, world, ghosts
  <2>4. Encoded => Encoded'
    BY <1>4, FedGrows
  <2>5. ~outlived /\ Encoded /\ Complete /\ Awaited => Complete' /\ Awaited'
    BY <1>4, Fed
  <2> QED
    BY <2>1, <2>2, <2>3, <2>4, <2>5 DEF Told
<1>5. ASSUME NEW e \in Encoders, FeedChunk(e)
      PROVE  SaidTrue'
  <2> SUFFICES ASSUME ~early', Session'
               PROVE  (~closed' => Encoded') /\ (~outlived' => Told')
    BY DEF SaidTrue
  <2>1. ~early /\ Session /\ outlived' = outlived
    BY <1>5 DEF FeedChunk, stream, ingest, listen, decoded, world, ghosts,
                Session
  <2>2. (~closed => Encoded) /\ (~outlived => Told)
    BY <2>1 DEF SaidTrue
  <2>3. UNCHANGED <<heard, pressed, inq, gen, gaveup, enc, fin>>
    BY <1>5 DEF FeedChunk, stream, ingest, listen, decoded, world, ghosts
  <2>4. closed' = closed /\ UNCHANGED buf
    BY <1>5, ChunkNotLast DEF FeedChunk, EncodeChunk
  <2>5. ~closed' => Encoded'
    BY <1>5, <2>2, <2>3, <2>4, Encodes DEF FeedChunk
  <2>6. Spoken' = Spoken
    BY <2>3, <2>4 DEF Spoken, Flushing
  <2>7. (Complete => Complete') /\ (Awaited => Awaited')
    BY <2>3, <2>4, <2>6 DEF Complete, Takes, Awaited
  <2> QED
    BY <2>1, <2>2, <2>3, <2>4, <2>5, <2>7 DEF Told
<1>6. ASSUME NEW e \in Encoders, FeedLeave(e)
      PROVE  SaidTrue'
  <2> SUFFICES ASSUME ~early', Session'
               PROVE  (~closed' => Encoded') /\ (~outlived' => Told')
    BY DEF SaidTrue
  <2>1. ~early /\ Session /\ outlived' = outlived
    BY <1>6 DEF FeedLeave, stream, ingest, listen, decoded, world, ghosts,
                Session
  <2>2. (~closed => Encoded) /\ (~outlived => Told)
    BY <2>1 DEF SaidTrue
  <2>3. /\ enc[e].pc \in {"idle", "feed"} /\ enc[e] \in Work
        /\ UNCHANGED <<heard, pressed, k, buf, tx_stream, tokcarry, pending,
                       inq,
                       gen, gaveup, closed>>
        /\ UNCHANGED fin
    BY <1>6 DEF FeedLeave, stream, ingest, listen, decoded, world, ghosts,
                EncDone, VoiceType, Threads
  <2> DEFINE w == IdleEnc
  <2>4. w \in Work /\ w.pc # "taken" /\ enc' = [enc EXCEPT ![e] = w]
    <3>1. w.pc = "idle"
      BY DEF IdleEnc
    <3> QED
      BY <1>6, <3>1, IdleTyped DEF FeedLeave, EncDone
  <2> HIDE DEF w
  <2>5. Encoded => Encoded'
    BY <2>3, EncodedStays
  <2>6. ~outlived /\ Complete /\ Awaited => Complete' /\ Awaited'
    BY <2>3, <2>4, EncoderLeaves
  <2> QED
    BY <2>1, <2>2, <2>3, <2>5, <2>6 DEF Told
<1>7. ASSUME NEW d \in Decoders, DecVocode(d)
      PROVE  UNCHANGED <<early, outlived, ctl, closed, pressed, heard, k, buf,
                         tx_stream, tokcarry, pending, inq, gen, enc, fin,
                         gaveup>>
  BY <1>7 DEF DecVocode, stream, ingest
<1>8. ASSUME NEW s \in Stops, StopPressed(s)
      PROVE  SaidTrue'
  <2> SUFFICES ASSUME ~early', Session'
               PROVE  (~closed' => Encoded') /\ (~outlived' => Told')
    BY DEF SaidTrue
  <2>1. ~early /\ Session /\ outlived' = outlived
    BY <1>8 DEF StopPressed, stream, ingest, listen, decoded, world, ghosts,
                Session
  <2>2. (~closed => Encoded) /\ (~outlived => Told)
    BY <2>1 DEF SaidTrue
  <2>3. /\ UNCHANGED <<heard, k, buf, tx_stream, tokcarry, pending, inq, gen,
                       closed, enc>>
        /\ pressed' = heard /\ fin[s].pc = "idle"
        /\ fin' = [fin EXCEPT ![s].pc = "drain"]
    BY <1>8 DEF StopPressed, stream, ingest, listen, decoded, world, ghosts
  <2>4. \A x \in Stops : fin[x].pc = "idle" /\ fin'[x].pc = "drain"
    BY <2>3 DEF Solo, VoiceType, Threads, Finishing
  <2>5. Encoded => Encoded' /\ (Complete => Complete')
    BY <2>3, <2>4, StopMovesOn
  <2>6. Awaited' /\ Begins(heard, heard)
    BY <2>4 DEF Awaited, Begins, VoiceType, Queued
  <2> QED
    BY <2>1, <2>2, <2>3, <2>5, <2>6 DEF Told
<1>9. ASSUME NEW s \in Stops, StopDrained(s)
      PROVE  SaidTrue'
  <2> SUFFICES ASSUME ~early', Session'
               PROVE  (~closed' => Encoded') /\ (~outlived' => Told')
    BY DEF SaidTrue
  <2>1. ~early /\ Session /\ outlived' = outlived
    BY <1>9 DEF StopDrained, stream, ingest, listen, decoded, world, ghosts,
                Session
  <2>2. (~closed => Encoded) /\ (~outlived => Told)
    BY <2>1 DEF SaidTrue
  <2>3. /\ UNCHANGED <<heard, pressed, k, buf, tx_stream, tokcarry, pending,
                       inq,
                       gen, gaveup, closed>>
        /\ UNCHANGED enc /\ fin[s].pc = "drain"
        /\ fin' = [fin EXCEPT ![s].pc = "lock"]
    BY <1>9 DEF StopDrained, stream, ingest, listen, decoded, world, ghosts
  <2>4. \A x \in Stops : fin'[x].pc = "flush" <=> fin[x].pc = "flush"
    BY <2>3 DEF VoiceType, Threads, Finishing
  <2>5. Encoded => Encoded' /\ (Complete => Complete')
    BY <2>3, <2>4, StopMovesOn
  <2>6. ~outlived /\ Begins(pressed, heard) /\ Encoded /\ Complete => Awaited'
    BY <1>9, Drained
  <2> QED
    BY <2>1, <2>2, <2>3, <2>5, <2>6 DEF Told
<1>10. ASSUME NEW s \in Stops, StopGivesUp(s)
      PROVE  SaidTrue'
  <2> SUFFICES ASSUME ~early', Session'
               PROVE  (~closed' => Encoded') /\ (~outlived' => Told')
    BY DEF SaidTrue
  <2>1. ~early /\ Session /\ outlived' = outlived
    BY <1>10 DEF StopGivesUp, stream, ingest, listen, decoded, world, ghosts,
                 Session
  <2>2. (~closed => Encoded) /\ (~outlived => Told)
    BY <2>1 DEF SaidTrue
  <2>3. /\ UNCHANGED <<heard, pressed, k, buf, tx_stream, tokcarry, pending,
                       inq,
                       gen, closed>>
        /\ gaveup' = TRUE /\ UNCHANGED enc /\ fin[s].pc = "drain"
        /\ fin' = [fin EXCEPT ![s].pc = "lock"]
    BY <1>10 DEF StopGivesUp, stream, ingest, listen, decoded, world, ghosts
  <2>4. \A x \in Stops : fin'[x].pc = "flush" <=> fin[x].pc = "flush"
    BY <2>3 DEF VoiceType, Threads, Finishing
  <2>5. Encoded => Encoded' /\ (Complete => Complete')
    BY <2>3, <2>4, StopMovesOn
  <2>6. Awaited'
    BY <2>3 DEF Awaited
  <2> QED
    BY <2>1, <2>2, <2>3, <2>5, <2>6 DEF Told
<1>11. ASSUME NEW s \in Stops, StopFlush(s)
      PROVE  SaidTrue'
  <2> SUFFICES ASSUME ~early', Session'
               PROVE  (~closed' => Encoded') /\ (~outlived' => Told')
    BY DEF SaidTrue
  <2>1. ~early /\ Session /\ outlived' = outlived
    BY <1>11 DEF StopFlush, stream, ingest, listen, decoded, world, ghosts,
                 Session
  <2>2. (~closed => Encoded) /\ (~outlived => Told)
    BY <2>1 DEF SaidTrue
  <2>3. UNCHANGED <<closed, heard, pressed>>
    BY <1>11 DEF StopFlush, stream, ingest, listen, decoded, world, ghosts
  <2>4. Encoded => Encoded' /\ (Complete => Complete') /\ (Awaited => Awaited')
    BY <1>11, Flushed
  <2> QED
    BY <2>1, <2>2, <2>3, <2>4 DEF Told
<1>12. ASSUME NEW s \in Stops, StopChunk(s)
      PROVE  SaidTrue'
  <2> SUFFICES ASSUME ~early', Session'
               PROVE  (~closed' => Encoded') /\ (~outlived' => Told')
    BY DEF SaidTrue
  <2>1. ~early /\ Session /\ outlived' = outlived
    BY <1>12 DEF StopChunk, stream, ingest, listen, decoded, world, ghosts,
                 Session
  <2>2. (~closed => Encoded) /\ (~outlived => Told)
    BY <2>1 DEF SaidTrue
  <2>3. UNCHANGED <<heard, pressed, inq, gen, gaveup, enc, fin>>
    BY <1>12 DEF StopChunk, stream, ingest, listen, decoded, world, ghosts
  <2>4. closed' = closed /\ UNCHANGED buf
    BY <1>12, ChunkNotLast DEF StopChunk, EncodeChunk
  <2>5. ~closed' => Encoded'
    BY <1>12, <2>2, <2>3, <2>4, Encodes DEF StopChunk
  <2>6. Spoken' = Spoken
    BY <2>3, <2>4 DEF Spoken, Flushing
  <2>7. (Complete => Complete') /\ (Awaited => Awaited')
    BY <2>3, <2>4, <2>6 DEF Complete, Takes, Awaited
  <2> QED
    BY <2>1, <2>2, <2>3, <2>4, <2>5, <2>7 DEF Told
<1>13. ASSUME NEW s \in Stops, StopClose(s)
      PROVE  SaidTrue'
  <2> SUFFICES ASSUME ~early', Session'
               PROVE  (~closed' => Encoded') /\ (~outlived' => Told')
    BY DEF SaidTrue
  <2>1. ~early /\ Session /\ outlived' = outlived
    BY <1>13 DEF StopClose, stream, ingest, listen, decoded, world, ghosts,
                 Session
  <2>2. (~closed => Encoded) /\ (~outlived => Told)
    BY <2>1 DEF SaidTrue
  <2>3. /\ UNCHANGED <<heard, pressed, k, buf, inq, gen, gaveup, enc, ctl>>
        /\ fin[s].pc = "flush" /\ pending' = <<>> /\ tokcarry' = <<>>
        /\ \/ fin' = [fin EXCEPT ![s] = IdleFin]
           \/ fin' = [fin EXCEPT ![s].pc = "wait"]
    BY <1>13 DEF StopClose, Answer, stream, ingest, listen, decoded, world,
                 ghosts
  <2>4. ~closed /\ CommandsTrue
    BY <2>1, <2>3 DEF StopTrue, OneTrue, Session
  <2>5. CASE closed'
    BY <2>1, <2>2, <2>3, <2>5 DEF Told
  <2>6. CASE ~closed'
    <3>1. buf = <<>> /\ UNCHANGED tx_stream
      BY <1>13, <2>2, <2>4, <2>6, ClosedNothing
    <3>2. \A x \in Stops : fin'[x].pc \in {"idle", "wait"}
      BY <2>3 DEF Solo, IdleFin, VoiceType, Threads, Finishing
    <3>3. Spoken' = Spoken
      BY <2>3, <3>1 DEF Spoken
    <3>4. (Complete => Complete') /\ Awaited'
      BY <2>3, <3>1, <3>2, <3>3 DEF Complete, Takes, Awaited
    <3>5. Encoded'
      <4>1. k = 0 /\ SubSeq(buf, 1, 0) = <<>>
        BY <2>2, <2>4, <3>1 DEF Encoded, VoiceType, Counted
      <4>2. tx_stream \o (tokcarry \o pending) = Speech(<<>>)
        BY <2>2, <2>4, <4>1 DEF Encoded
      <4>3. Speech(<<>>) = <<>>
        BY SilentSpeech
      <4>4. tx_stream = <<>>
        <5> DEFINE t == tokcarry \o pending
        <5>1. t \in Seq(Int) /\ tx_stream \in Seq(Int)
          BY Concatenated DEF VoiceType, Streamed
        <5>2. Len(tx_stream \o t) = 0
          BY <4>2, <4>3
        <5> HIDE DEF t
        <5>3. Len(tx_stream \o t) = Len(tx_stream) + Len(t)
          BY <5>1, Concatenated
        <5> QED
          BY <5>1, <5>2, <5>3
      <4>5. <<>> \o (<<>> \o <<>>) = <<>>
        OBVIOUS
      <4>6. tx_stream' \o (tokcarry' \o pending') = <<>>
        BY <2>3, <3>1, <4>4, <4>5
      <4>7. SubSeq(buf', 1, k') = <<>>
        BY <2>3, <3>1, <4>1
      <4>8. tx_stream' \o (tokcarry' \o pending') = Speech(SubSeq(buf', 1, k'))
        BY <4>3, <4>6, <4>7
      <4>9. k' <= Len(buf') /\ buf' = <<>>
        BY <2>3, <3>1, <4>1
      <4> QED
        BY <4>8, <4>9 DEF Encoded
    <3> QED
      BY <2>1, <2>2, <2>3, <2>4, <3>4, <3>5 DEF Told
  <2> QED
    BY <2>5, <2>6
<1>14. ASSUME NEW s \in Stops, StopRaises(s)
      PROVE  SaidTrue'
  <2> SUFFICES ASSUME ~early', Session'
               PROVE  (~closed' => Encoded') /\ (~outlived' => Told')
    BY DEF SaidTrue
  <2>1. ~early /\ Session /\ outlived' = outlived
    BY <1>14 DEF StopRaises, stream, ingest, listen, decoded, world, ghosts,
                 Session
  <2>2. (~closed => Encoded) /\ (~outlived => Told)
    BY <2>1 DEF SaidTrue
  <2>3. ~boards
    BY <1>14 DEF StopRaises
  <2> QED
    BY <2>1, <2>3 DEF Session, Locks
<1>15. ASSUME NEW s \in Stops, StopWaited(s)
      PROVE  SaidTrue'
  <2> SUFFICES ASSUME ~early', Session'
               PROVE  (~closed' => Encoded') /\ (~outlived' => Told')
    BY DEF SaidTrue
  <2>1. ~early /\ Session /\ outlived' = outlived
    BY <1>15 DEF StopWaited, stream, ingest, listen, decoded, world, ghosts,
                 Session
  <2>2. (~closed => Encoded) /\ (~outlived => Told)
    BY <2>1 DEF SaidTrue
  <2>3. /\ UNCHANGED <<heard, pressed, k, buf, tx_stream, tokcarry, pending,
                       inq,
                       gen, gaveup, closed>>
        /\ UNCHANGED enc
    BY <1>15 DEF StopWaited, stream, ingest, listen, decoded, world, ghosts
  <2> DEFINE w == Decodable(IF tail_marker THEN Front(rx_bytes)
                              ELSE rx_bytes)
  <2>7. /\ fin[s].pc = "wait"
        /\ \/ fin' = [fin EXCEPT ![s] = IdleFin]
           \/ fin' = [fin EXCEPT ![s].pc = "snap", ![s].data = w]
    BY <1>15 DEF StopWaited, Answer
  <2> HIDE DEF w
  <2>8. /\ fin'[s].pc \in {"idle", "snap"}
        /\ \A x \in Stops : x # s => fin'[x] = fin[x]
    <3>1. CASE fin' = [fin EXCEPT ![s] = IdleFin]
      BY <3>1 DEF IdleFin, VoiceType, Threads
    <3>2. CASE fin' = [fin EXCEPT ![s].pc = "snap", ![s].data = w]
      BY <3>2 DEF VoiceType, Threads, Finishing
    <3> QED
      BY <2>7, <3>1, <3>2
  <2>4. \A x \in Stops : fin'[x].pc \in {"flush", "lock"} <=>
                           fin[x].pc \in {"flush", "lock"}
    BY <2>7, <2>8
  <2>5. \A x \in Stops : fin'[x].pc = "flush" <=> fin[x].pc = "flush"
    BY <2>7, <2>8
  <2>6. Encoded => Encoded' /\ (Complete => Complete') /\ Spoken' = Spoken
    BY <2>3, <2>5, StopMovesOn
  <2>9. Encoded /\ Awaited => Awaited'
    BY <2>3, <2>4, <2>6 DEF Awaited
  <2> QED
    BY <2>1, <2>2, <2>3, <2>6, <2>9 DEF Told
<1>16. ASSUME NEW s \in Stops, StopSnapshot(s)
      PROVE  SaidTrue'
  <2> SUFFICES ASSUME ~early', Session'
               PROVE  (~closed' => Encoded') /\ (~outlived' => Told')
    BY DEF SaidTrue
  <2>1. ~early /\ Session /\ outlived' = outlived
    BY <1>16 DEF StopSnapshot, stream, ingest, listen, decoded, world, ghosts,
                 Session
  <2>2. (~closed => Encoded) /\ (~outlived => Told)
    BY <2>1 DEF SaidTrue
  <2>3. /\ UNCHANGED <<heard, pressed, k, buf, tx_stream, tokcarry, pending,
                       inq,
                       gen, gaveup, closed>>
        /\ UNCHANGED enc
    BY <1>16 DEF StopSnapshot, stream, ingest, listen, decoded, world, ghosts
  <2>4. \A x \in Stops : fin'[x].pc \in {"flush", "lock"} <=>
                           fin[x].pc \in {"flush", "lock"}
    BY <1>16 DEF StopSnapshot, Answer, IdleFin, VoiceType, Threads, Finishing
  <2>5. \A x \in Stops : fin'[x].pc = "flush" <=> fin[x].pc = "flush"
    BY <1>16 DEF StopSnapshot, Answer, IdleFin, VoiceType, Threads, Finishing
  <2>6. Encoded => Encoded' /\ (Complete => Complete') /\ Spoken' = Spoken
    BY <2>3, <2>5, StopMovesOn
  <2>9. Encoded /\ Awaited => Awaited'
    BY <2>3, <2>4, <2>6 DEF Awaited
  <2> QED
    BY <2>1, <2>2, <2>3, <2>6, <2>9 DEF Told
<1>17. ASSUME NEW s \in Stops, StopWrite(s)
      PROVE  SaidTrue'
  <2> SUFFICES ASSUME ~early', Session'
               PROVE  (~closed' => Encoded') /\ (~outlived' => Told')
    BY DEF SaidTrue
  <2>1. ~early /\ Session /\ outlived' = outlived
    BY <1>17 DEF StopWrite, stream, ingest, listen, decoded, world, ghosts,
                 Session
  <2>2. (~closed => Encoded) /\ (~outlived => Told)
    BY <2>1 DEF SaidTrue
  <2>3. /\ UNCHANGED <<heard, pressed, k, buf, tx_stream, tokcarry, pending,
                       inq,
                       gen, gaveup, closed>>
        /\ UNCHANGED enc
    BY <1>17 DEF StopWrite, stream, ingest, listen, decoded, world, ghosts
  <2>4. \A x \in Stops : fin'[x].pc \in {"flush", "lock"} <=>
                           fin[x].pc \in {"flush", "lock"}
    BY <1>17 DEF StopWrite, Answer, IdleFin, VoiceType, Threads, Finishing
  <2>5. \A x \in Stops : fin'[x].pc = "flush" <=> fin[x].pc = "flush"
    BY <1>17 DEF StopWrite, Answer, IdleFin, VoiceType, Threads, Finishing
  <2>6. Encoded => Encoded' /\ (Complete => Complete') /\ Spoken' = Spoken
    BY <2>3, <2>5, StopMovesOn
  <2>9. Encoded /\ Awaited => Awaited'
    BY <2>3, <2>4, <2>6 DEF Awaited
  <2> QED
    BY <2>1, <2>2, <2>3, <2>6, <2>9 DEF Told
<1>18. ASSUME NEW talk \in BOOLEAN, ResetBegins(talk)
      PROVE  SaidTrue'
  BY <1>18 DEF ResetBegins, stream, ingest, listen, decoded, world, ghosts,
               SaidTrue, Session, VoiceType, Threads, Controlling
<1>19. ASSUME ResetEnds
      PROVE  SaidTrue'
  <2>1. /\ ctl.pc = "clear" /\ UNCHANGED <<enc, gen, buf, heard, outlived>>
        /\ k' = 0 /\ pending' = <<>> /\ tokcarry' = <<>> /\ tx_stream' = <<>>
        /\ inq' = <<>> /\ pressed' = <<>>
    BY <1>19 DEF ResetEnds
  <2>2. buf' = <<>>
    BY <2>1 DEF Generations
  <2>3. Spoken' = <<>>
    BY <2>2 DEF Spoken
  <2>4. \A u \in Seq(Nat) : <<>> \o (u \o <<>>) = u
    OBVIOUS
  <2>5. ASSUME ~outlived'
        PROVE  Told'
    <3>1. Strayed
      OBVIOUS
    <3>2. \A e \in Encoders : Takes(e)' <=> Takes(e)
      BY <2>1 DEF Takes
    <3>3. \A e \in Encoders : enc[e].batch \in Seq(Nat)
      BY DEF VoiceType, Threads, Work
    <3>4. \A e \in Encoders :
            Takes(e)' => heard' = Spoken' \o (enc'[e].batch \o inq')
      BY <2>1, <2>3, <2>4, <2>5, <3>1, <3>2, <3>3 DEF Strayed
    <3>5. (\A e \in Encoders : ~Takes(e)') => heard' = Spoken' \o inq'
      BY <2>1, <2>3, <2>5, <3>1, <3>2 DEF Strayed
    <3>6. Len(pressed') = 0 /\ Len(Spoken') = 0 /\ Len(heard') \in Nat
      BY <2>1, <2>3 DEF VoiceType, Queued
    <3>7. Begins(pressed', heard') /\ Awaited'
      BY <3>6 DEF Begins, Awaited
    <3> QED
      BY <3>4, <3>5, <3>7 DEF Told, Complete
  <2>6. Speech(<<>>) = <<>> /\ SubSeq(<<>>, 1, 0) = <<>>
    BY SilentSpeech
  <2>7. /\ SubSeq(buf', 1, k') = <<>>
        /\ tx_stream' \o (tokcarry' \o pending') = <<>>
    BY <2>1, <2>2, <2>6
  <2>8. tx_stream' \o (tokcarry' \o pending') = Speech(SubSeq(buf', 1, k'))
    BY <2>6, <2>7
  <2>9. k' <= Len(buf')
    BY <2>1, <2>2
  <2>10. Encoded'
    BY <2>2, <2>8, <2>9 DEF Encoded
  <2> QED
    BY <2>5, <2>10 DEF SaidTrue
<1>20. ASSUME Talk
      PROVE  SaidTrue'
  <2> SUFFICES ASSUME ~early', Session'
               PROVE  (~closed' => Encoded') /\ (~outlived' => Told')
    BY DEF SaidTrue
  <2>1. ~early /\ Session /\ outlived' = outlived
    BY <1>20 DEF Talk, stream, ingest, listen, decoded, world, ghosts, Session
  <2>2. (~closed => Encoded) /\ (~outlived => Told)
    BY <2>1 DEF SaidTrue
  <2>3. UNCHANGED <<heard, pressed, k, buf, tx_stream, tokcarry, pending, inq,
                    gen, gaveup, closed, enc, fin>>
    BY <1>20 DEF Talk, stream, ingest, listen, decoded, world, ghosts
  <2>4. Spoken' = Spoken /\ (Flushing' <=> Flushing)
    BY <2>3 DEF Spoken, Flushing
  <2> QED
    BY <2>1, <2>2, <2>3, <2>4 DEF Told, Encoded, Complete, Takes, Awaited
<1>21. ASSUME SelectPressed
      PROVE  SaidTrue'
  <2> SUFFICES ASSUME ~early', Session'
               PROVE  (~closed' => Encoded') /\ (~outlived' => Told')
    BY DEF SaidTrue
  <2>1. ~early /\ Session /\ outlived' = outlived
    BY <1>21 DEF SelectPressed, stream, ingest, listen, decoded, world, ghosts,
                 Session
  <2>2. (~closed => Encoded) /\ (~outlived => Told)
    BY <2>1 DEF SaidTrue
  <2>3. UNCHANGED <<heard, pressed, k, buf, tx_stream, tokcarry, pending, inq,
                    gen, gaveup, closed, enc, fin>>
    BY <1>21 DEF SelectPressed, stream, ingest, listen, decoded, world, ghosts
  <2>4. Spoken' = Spoken /\ (Flushing' <=> Flushing)
    BY <2>3 DEF Spoken, Flushing
  <2> QED
    BY <2>1, <2>2, <2>3, <2>4 DEF Told, Encoded, Complete, Takes, Awaited
<1>22. ASSUME Joined
      PROVE  SaidTrue'
  BY <1>22 DEF Joined, stream, ingest, listen, decoded, world, ghosts,
               SaidTrue, Session, VoiceType, Threads, Controlling
<1>23. ASSUME Opened
      PROVE  SaidTrue'
  BY <1>23 DEF Opened, stream, ingest, listen, decoded, world, ghosts,
               SaidTrue, Session, VoiceType, Threads, Controlling
<1>24. CASE UNCHANGED <<early, outlived, ctl, closed, pressed, heard, k, buf,
                         tx_stream, tokcarry, pending, inq, gen, enc, fin,
                         gaveup>>
  BY <1>24 DEF SaidTrue, Told, Session, Encoded, Complete, Takes, Awaited, Spoken,
               Flushing
<1>25. ASSUME Receive
      PROVE  UNCHANGED <<early, outlived, ctl, closed, pressed, heard, k, buf,
                         tx_stream, tokcarry, pending, inq, gen, enc, fin,
                         gaveup>>
  BY <1>25 DEF Receive, stream, ingest, listen, decoded, world,
               ghosts
<1>26. ASSUME Fade
      PROVE  UNCHANGED <<early, outlived, ctl, closed, pressed, heard, k, buf,
                         tx_stream, tokcarry, pending, inq, gen, enc, fin,
                         gaveup>>
  BY <1>26 DEF Fade, stream, ingest, listen, decoded, world,
               ghosts
<1>27. ASSUME NEW d \in Decoders, DecLook(d)
      PROVE  UNCHANGED <<early, outlived, ctl, closed, pressed, heard, k, buf,
                         tx_stream, tokcarry, pending, inq, gen, enc, fin,
                         gaveup>>
  BY <1>27 DEF DecLook, stream, ingest, listen, decoded, world,
               ghosts
<1>28. ASSUME NEW d \in Decoders, DecCommit(d)
      PROVE  UNCHANGED <<early, outlived, ctl, closed, pressed, heard, k, buf,
                         tx_stream, tokcarry, pending, inq, gen, enc, fin,
                         gaveup>>
  BY <1>28 DEF DecCommit, stream, ingest, listen, decoded, world,
               ghosts
<1>29. ASSUME NEW d \in Decoders, DecExit(d)
      PROVE  UNCHANGED <<early, outlived, ctl, closed, pressed, heard, k, buf,
                         tx_stream, tokcarry, pending, inq, gen, enc, fin,
                         gaveup>>
  BY <1>29 DEF DecExit, stream, ingest, listen, decoded, world,
               ghosts
<1> QED
  BY <1>1, <1>2, <1>3, <1>4, <1>5, <1>6, <1>7, <1>8, <1>9, <1>10, <1>11, <1>12,
     <1>13, <1>14, <1>15, <1>16, <1>17, <1>18, <1>19, <1>20, <1>21, <1>22,
     <1>23, <1>24, <1>25, <1>26, <1>27, <1>28, <1>29 DEF Next, Encoding,
     Decoding, Stopping, Control

LEMMA StrayStep ==
  ASSUME VoiceAssumption, VoiceType, Workers, Locks, Generations, Strayed, Next
  PROVE  Strayed'
<1>1. ASSUME NEW e \in Encoders, EncTake(e)
      PROVE  Strayed'
  <2> SUFFICES ASSUME ctl.pc = "clear", ~outlived
               PROVE  /\ \A x \in Encoders : Takes(x)' => heard' = enc'[x].batch
                      /\ (\A x \in Encoders : ~Takes(x)') => heard' = <<>>
    BY <1>1 DEF EncTake, Strayed
  <2>1. /\ enc[e].pc = "idle" /\ heard' = heard \o inq /\ UNCHANGED gen
        /\ \/ inq = <<>> /\ enc' = [enc EXCEPT ![e] = IdleEnc]
           \/ inq # <<>> /\ enc' = [enc EXCEPT ![e] =
                        [pc |-> "taken", batch |-> inq, g |-> gen]]
    BY <1>1 DEF EncTake
  <2>2. enc \in [Encoders -> Work] /\ inq \in Seq(Nat)
    BY DEF VoiceType, Threads, Queued
  <2>3. \A x \in Encoders : ~Takes(x)
    BY <2>1 DEF Workers, Takes
  <2>4. heard' = inq
    <3>1. heard = <<>>
      BY <2>3 DEF Strayed
    <3> QED
      BY <2>1, <2>2, <3>1
  <2>5. CASE inq = <<>> /\ enc' = [enc EXCEPT ![e] = IdleEnc]
    <3>1. \A x \in Encoders : ~Takes(x)'
      BY <2>1, <2>2, <2>3, <2>5 DEF Takes, IdleEnc
    <3> QED
      BY <2>4, <2>5, <3>1
  <2>6. CASE enc' = [enc EXCEPT ![e] =
                       [pc |-> "taken", batch |-> inq, g |-> gen]]
    <3>1. /\ Takes(e)' /\ enc'[e].batch = inq
          /\ \A x \in Encoders \ {e} : ~Takes(x)'
      BY <2>1, <2>2, <2>3, <2>6 DEF Takes
    <3> QED
      BY <2>4, <3>1
  <2> QED
    BY <2>1, <2>5, <2>6
<1>2. ASSUME NEW talk \in BOOLEAN, ResetBegins(talk)
      PROVE  Strayed'
  <2>1. gen' = gen + 1 /\ heard' = <<>> /\ UNCHANGED enc
    BY <1>2 DEF ResetBegins
  <2>2. \A e \in Encoders : enc[e].g \in Nat /\ gen \in Nat
    BY DEF VoiceType, Threads, Work, Counted
  <2>3. \A e \in Encoders : ~Takes(e)'
    BY <2>1, <2>2 DEF Takes, Generations
  <2> QED
    BY <2>1, <2>3 DEF Strayed
<1>3. ASSUME ctl'.pc # "clear"
      PROVE  Strayed'
  BY <1>3 DEF Strayed
<1>4. ASSUME UNCHANGED ctl, airlock # "ctl"
      PROVE  Strayed'
  BY <1>4 DEF Strayed, Locks
<1>5. CASE UNCHANGED <<ctl, outlived, enc, gen, heard>>
  BY <1>5 DEF Strayed, Takes
<1>6. ASSUME Ingest
      PROVE  Strayed'
  BY <1>6 DEF Ingest, Strayed, Takes
<1>7. ASSUME NEW e \in Encoders, EncExit(e)
      PROVE  Strayed'
  BY <1>7 DEF EncExit, Strayed, Takes, VoiceType, Threads, Work, ghosts
<1>8. ASSUME NEW e \in Encoders, FeedEnter(e)
      PROVE  UNCHANGED ctl /\ airlock # "ctl"
  BY <1>8 DEF FeedEnter, VoiceAssumption
<1>9. ASSUME NEW e \in Encoders, FeedLeave(e)
      PROVE  UNCHANGED ctl /\ airlock # "ctl"
  BY <1>9 DEF FeedLeave, Locks, VoiceAssumption
<1>10. ASSUME ResetEnds
      PROVE  ctl'.pc # "clear"
  BY <1>10 DEF ResetEnds, VoiceType, Threads, Controlling
<1>11. ASSUME Talk
      PROVE  ctl'.pc # "clear"
  BY <1>11 DEF Talk, VoiceType, Threads, Controlling
<1>12. ASSUME Joined
      PROVE  ctl'.pc # "clear"
  BY <1>12 DEF Joined, VoiceType, Threads, Controlling
<1>13. ASSUME Opened
      PROVE  ctl'.pc # "clear"
  BY <1>13 DEF Opened, VoiceType, Threads, Controlling
<1>14. ASSUME SelectPressed
      PROVE  ctl'.pc # "clear"
  BY <1>14 DEF SelectPressed, VoiceType, Threads, Controlling
<1>15. ASSUME Receive
      PROVE  UNCHANGED <<ctl, outlived, enc, gen, heard>>
  BY <1>15 DEF Receive, ghosts, world
<1>16. ASSUME Fade
      PROVE  UNCHANGED <<ctl, outlived, enc, gen, heard>>
  BY <1>16 DEF Fade, ghosts, world
<1>17. ASSUME NEW e \in Encoders, FeedChunk(e)
      PROVE  UNCHANGED <<ctl, outlived, enc, gen, heard>>
  BY <1>17 DEF FeedChunk
<1>18. ASSUME NEW d \in Decoders, DecLook(d)
      PROVE  UNCHANGED <<ctl, outlived, enc, gen, heard>>
  BY <1>18 DEF DecLook, ghosts
<1>19. ASSUME NEW d \in Decoders, DecVocode(d)
      PROVE  UNCHANGED <<ctl, outlived, enc, gen, heard>>
  BY <1>19 DEF DecVocode, ghosts
<1>20. ASSUME NEW d \in Decoders, DecCommit(d)
      PROVE  UNCHANGED <<ctl, outlived, enc, gen, heard>>
  BY <1>20 DEF DecCommit, ghosts
<1>21. ASSUME NEW d \in Decoders, DecExit(d)
      PROVE  UNCHANGED <<ctl, outlived, enc, gen, heard>>
  BY <1>21 DEF DecExit, ghosts
<1>22. ASSUME NEW s \in Stops, StopPressed(s)
      PROVE  UNCHANGED <<ctl, outlived, enc, gen, heard>>
  BY <1>22 DEF StopPressed, ghosts
<1>23. ASSUME NEW s \in Stops, StopDrained(s)
      PROVE  UNCHANGED <<ctl, outlived, enc, gen, heard>>
  BY <1>23 DEF StopDrained, ghosts
<1>24. ASSUME NEW s \in Stops, StopGivesUp(s)
      PROVE  UNCHANGED <<ctl, outlived, enc, gen, heard>>
  BY <1>24 DEF StopGivesUp, ghosts
<1>25. ASSUME NEW s \in Stops, StopFlush(s)
      PROVE  UNCHANGED <<ctl, outlived, enc, gen, heard>>
  BY <1>25 DEF StopFlush, ghosts
<1>26. ASSUME NEW s \in Stops, StopChunk(s)
      PROVE  UNCHANGED <<ctl, outlived, enc, gen, heard>>
  BY <1>26 DEF StopChunk, ghosts
<1>27. ASSUME NEW s \in Stops, StopClose(s)
      PROVE  UNCHANGED <<ctl, outlived, enc, gen, heard>>
  BY <1>27 DEF StopClose, ghosts
<1>28. ASSUME NEW s \in Stops, StopRaises(s)
      PROVE  UNCHANGED <<ctl, outlived, enc, gen, heard>>
  BY <1>28 DEF StopRaises, ghosts
<1>29. ASSUME NEW s \in Stops, StopWaited(s)
      PROVE  UNCHANGED <<ctl, outlived, enc, gen, heard>>
  BY <1>29 DEF StopWaited, ghosts
<1>30. ASSUME NEW s \in Stops, StopSnapshot(s)
      PROVE  UNCHANGED <<ctl, outlived, enc, gen, heard>>
  BY <1>30 DEF StopSnapshot, ghosts
<1>31. ASSUME NEW s \in Stops, StopWrite(s)
      PROVE  UNCHANGED <<ctl, outlived, enc, gen, heard>>
  BY <1>31 DEF StopWrite, ghosts
<1> QED
  BY <1>1, <1>2, <1>3, <1>4, <1>5, <1>6, <1>7, <1>8, <1>9, <1>10, <1>11,
     <1>12, <1>13, <1>14, <1>15, <1>16, <1>17, <1>18, <1>19, <1>20, <1>21,
     <1>22, <1>23, <1>24, <1>25, <1>26, <1>27, <1>28, <1>29, <1>30, <1>31 DEF
     Next, Encoding, Decoding, Stopping, Control

-----------------------------------------------------------------------------
(* Every post is in one place: in the queue, in the batch of one encoder or *)
(* in what is encoded, once; and what is there in a session was heard in   *)
(* it.  This needs no order, and holds whoever outlives a join.            *)
Holds(q, x) == \E i \in 1..Len(q) : q[i] = x
Single(q) == \A i, j \in 1..Len(q) : q[i] = q[j] /\ q[i] # 0 => i = j
Disjoint(q, r) == \A x \in Nat \ {0} : ~(Holds(q, x) /\ Holds(r, x))
Past(q) == \A x \in Nat \ {0} : Holds(q, x) => x <= posted
Known(q) == \A x \in Nat \ {0} : Holds(q, x) => Holds(heard, x)

Apart ==
  /\ Single(inq) /\ Single(buf) /\ Past(inq) /\ Past(buf) /\ Disjoint(inq, buf)
  /\ \A e \in Encoders : enc[e].pc = "taken" =>
       /\ Single(enc[e].batch) /\ Past(enc[e].batch)
       /\ Disjoint(enc[e].batch, inq) /\ Disjoint(enc[e].batch, buf)
  /\ \A e, f \in Encoders :
       e # f /\ enc[e].pc = "taken" /\ enc[f].pc = "taken" =>
         Disjoint(enc[e].batch, enc[f].batch)
Mine ==
  /\ ctl.pc # "clear" => Known(inq) /\ Known(buf)
  /\ \A e \in Encoders : Takes(e) => Known(enc[e].batch)

LEMMA HoldsOf ==
  ASSUME NEW q \in Seq(Nat), NEW r \in Seq(Nat), NEW y \in Nat,
         NEW n \in 0..Len(q)
  PROVE  /\ \A x : Holds(q \o r, x) <=> Holds(q, x) \/ Holds(r, x)
         /\ \A x : Holds(Append(q, y), x) <=> Holds(q, x) \/ x = y
         /\ \A x : ~Holds(<<>>, x)
         /\ \A x : Holds(SubSeq(q, 1, n), x) => Holds(q, x)
<1>1. ASSUME NEW x PROVE Holds(q \o r, x) <=> Holds(q, x) \/ Holds(r, x)
  <2> DEFINE s == q \o r
  <2>1. /\ Len(s) = Len(q) + Len(r) /\ Len(q) \in Nat /\ Len(r) \in Nat
        /\ \A i \in 1..Len(q) : s[i] = q[i]
        /\ \A i \in 1..Len(r) : s[Len(q) + i] = r[i]
    BY Concatenated
  <2> HIDE DEF s
  <2>2. ASSUME NEW i \in 1..Len(s), s[i] = x
        PROVE  Holds(q, x) \/ Holds(r, x)
    <3>1. CASE i <= Len(q)
      BY <2>1, <2>2, <3>1 DEF Holds
    <3>2. CASE ~ i <= Len(q)
      <4>1. i - Len(q) \in 1..Len(r) /\ i = Len(q) + (i - Len(q))
        BY <2>1, <3>2
      <4>2. r[i - Len(q)] = x
        BY <2>1, <2>2, <4>1
      <4> QED
        BY <4>1, <4>2 DEF Holds
    <3> QED
      BY <3>1, <3>2
  <2>3. ASSUME NEW i \in 1..Len(q), q[i] = x PROVE Holds(s, x)
    BY <2>1, <2>3 DEF Holds
  <2>4. ASSUME NEW i \in 1..Len(r), r[i] = x PROVE Holds(s, x)
    <3>1. Len(q) + i \in 1..Len(s) /\ s[Len(q) + i] = x
      BY <2>1, <2>4
    <3> QED
      BY <3>1 DEF Holds
  <2>5. Holds(s, x) <=> Holds(q, x) \/ Holds(r, x)
    BY <2>2, <2>3, <2>4 DEF Holds
  <2> QED
    BY <2>5 DEF s
<1>2. ASSUME NEW x PROVE Holds(Append(q, y), x) <=> Holds(q, x) \/ x = y
  <2> DEFINE s == Append(q, y)
  <2>1. /\ Len(s) = Len(q) + 1 /\ Len(q) \in Nat /\ s[Len(q) + 1] = y
        /\ \A i \in 1..Len(q) : s[i] = q[i]
    OBVIOUS
  <2> HIDE DEF s
  <2>2. \A i \in 1..Len(s) : i \in 1..Len(q) \/ i = Len(q) + 1
    BY <2>1
  <2>3. Len(q) + 1 \in 1..Len(s) /\ \A i \in 1..Len(q) : i \in 1..Len(s)
    BY <2>1
  <2>4. Holds(s, x) => Holds(q, x) \/ x = y
    BY <2>1, <2>2 DEF Holds
  <2>5. Holds(q, x) => Holds(s, x)
    BY <2>1, <2>3 DEF Holds
  <2>6. Holds(s, y)
    BY <2>1, <2>3 DEF Holds
  <2>7. Holds(s, x) <=> Holds(q, x) \/ x = y
    BY <2>4, <2>5, <2>6
  <2> QED
    BY <2>7 DEF s
<1>3. \A x : ~Holds(<<>>, x)
  BY DEF Holds
<1>4. ASSUME NEW x PROVE Holds(SubSeq(q, 1, n), x) => Holds(q, x)
  <2> DEFINE s == SubSeq(q, 1, n)
  <2>1. Len(s) = n /\ Len(q) \in Nat /\ \A i \in 1..n : s[i] = q[i]
    BY BeginsCut
  <2> HIDE DEF s
  <2>2. Holds(s, x) => Holds(q, x)
    BY <2>1 DEF Holds
  <2> QED
    BY <2>2 DEF s
<1> QED
  BY <1>1, <1>2, <1>3, <1>4

LEMMA SingleOf ==
  ASSUME NEW q \in Seq(Nat), NEW r \in Seq(Nat), NEW y \in Nat,
         NEW n \in 0..Len(q), Single(q)
  PROVE  /\ Single(r) /\ Disjoint(r, q) => Single(q \o r)
         /\ y = 0 \/ ~Holds(q, y) => Single(Append(q, y))
         /\ Single(SubSeq(q, 1, n)) /\ Single(<<>>)
<1>1. ASSUME Single(r), Disjoint(r, q) PROVE Single(q \o r)
  <2> DEFINE s == q \o r
  <2>1. /\ Len(s) = Len(q) + Len(r) /\ Len(q) \in Nat /\ Len(r) \in Nat
        /\ \A i \in 1..Len(q) : s[i] = q[i]
        /\ \A i \in 1..Len(r) : s[Len(q) + i] = r[i]
    BY Concatenated
  <2> HIDE DEF s
  <2> SUFFICES ASSUME NEW i \in 1..Len(s), NEW j \in 1..Len(s),
                      s[i] = s[j], s[i] # 0, i < j
               PROVE  FALSE
    <3>1. \A i, j \in 1..Len(s) : i = j \/ i < j \/ j < i
      BY <2>1
    <3> QED
      BY <3>1 DEF Single, s
  <2>2. \A a \in 1..Len(s) :
          \/ a \in 1..Len(q) /\ s[a] = q[a]
          \/ a - Len(q) \in 1..Len(r) /\ s[a] = r[a - Len(q)]
    <3> SUFFICES ASSUME NEW a \in 1..Len(s), ~ a <= Len(q)
                 PROVE  a - Len(q) \in 1..Len(r) /\ s[a] = r[a - Len(q)]
      BY <2>1
    <3>1. a - Len(q) \in 1..Len(r) /\ a = Len(q) + (a - Len(q))
      BY <2>1
    <3> QED
      BY <2>1, <3>1
  <2>3. CASE j \in 1..Len(q) /\ s[j] = q[j]
    <3>1. i \in 1..Len(q) /\ s[i] = q[i]
      BY <2>1, <2>3
    <3> QED
      BY <2>3, <3>1 DEF Single
  <2>4. CASE j - Len(q) \in 1..Len(r) /\ s[j] = r[j - Len(q)]
    <3>1. CASE i \in 1..Len(q) /\ s[i] = q[i]
      <4>1. Holds(q, s[i]) /\ Holds(r, s[i]) /\ s[i] \in Nat \ {0}
        BY <2>4, <3>1 DEF Holds
      <4> QED
        BY <1>1, <4>1 DEF Disjoint
    <3>2. CASE i - Len(q) \in 1..Len(r) /\ s[i] = r[i - Len(q)]
      <4>1. i - Len(q) = j - Len(q)
        BY <1>1, <2>4, <3>2 DEF Single
      <4> QED
        BY <2>1, <4>1
    <3> QED
      BY <2>2, <3>1, <3>2
  <2> QED
    BY <2>2, <2>3, <2>4
<1>2. ASSUME y = 0 \/ ~Holds(q, y) PROVE Single(Append(q, y))
  <2> DEFINE s == Append(q, y)
  <2>1. /\ Len(s) = Len(q) + 1 /\ Len(q) \in Nat /\ s[Len(q) + 1] = y
        /\ \A i \in 1..Len(q) : s[i] = q[i]
    OBVIOUS
  <2> HIDE DEF s
  <2>3. \A i \in 1..Len(s) : i \in 1..Len(q) \/ i = Len(q) + 1
    BY <2>1
  <2>4. y = 0 \/ \A i \in 1..Len(q) : q[i] # y
    BY <1>2 DEF Holds
  <2>5. \A i, j \in 1..Len(q) : q[i] = q[j] /\ q[i] # 0 => i = j
    BY DEF Single
  <2> DEFINE m == Len(q) + 1
  <2>6. s[m] = y /\ \A i \in 1..Len(s) : i \in 1..Len(q) \/ i = m
    BY <2>1, <2>3
  <2> HIDE DEF m
  <2>2. Single(s)
    BY <2>1, <2>4, <2>5, <2>6, Zenon DEF Single
  <2> QED
    BY <2>2 DEF s
<1>3. Single(SubSeq(q, 1, n))
  <2> DEFINE s == SubSeq(q, 1, n)
  <2>1. Len(s) = n /\ Len(q) \in Nat /\ \A i \in 1..n : s[i] = q[i]
    BY BeginsCut
  <2> HIDE DEF s
  <2>2. Single(s)
    BY <2>1 DEF Single
  <2> QED
    BY <2>2 DEF s
<1>4. Single(<<>>)
  BY DEF Single
<1> QED
  BY <1>1, <1>2, <1>3, <1>4

(* Posts move on, and each stays in one place.                             *)
LEMMA ApartIngest ==
  ASSUME VoiceType, Apart, Mine, Ingest
  PROVE  Apart' /\ Mine'
<1> DEFINE x == posted + 1
<1>1. /\ inq' = Append(inq, x) /\ posted' = x
      /\ UNCHANGED <<gen, buf, enc, ctl>>
      /\ \/ heard' = heard /\ ctl.pc = "clear"
         \/ heard' = Append(heard, x)
  BY DEF Ingest, stream
<1>2. /\ x \in Nat \ {0} /\ posted \in Nat /\ inq \in Seq(Nat)
      /\ heard \in Seq(Nat) /\ x > posted
  BY DEF VoiceType, Counted, Queued
<1> HIDE DEF x
<1>3. \A y : Holds(inq', y) <=> Holds(inq, y) \/ y = x
  BY <1>1, <1>2, HoldsOf
<1>4. /\ ~Holds(inq, x) /\ ~Holds(buf, x)
      /\ \A e \in Encoders : enc[e].pc = "taken" => ~Holds(enc[e].batch, x)
  BY <1>2 DEF Apart, Past
<1>5. Single(inq')
  BY <1>1, <1>2, <1>4, SingleOf DEF Apart
<1>6. \A y \in Nat \ {0} : y <= posted => y <= posted'
  BY <1>1, <1>2
<1>8. Apart'
  <2>1. Past(inq)' /\ Past(buf)'
    BY <1>1, <1>2, <1>3, <1>6 DEF Apart, Past
  <2>2. Disjoint(inq', buf')
    BY <1>1, <1>3, <1>4 DEF Apart, Disjoint
  <2>3. ASSUME NEW e \in Encoders, enc'[e].pc = "taken"
        PROVE  /\ Single(enc'[e].batch) /\ Past(enc[e].batch)'
               /\ Disjoint(enc'[e].batch, inq') /\ Disjoint(enc'[e].batch, buf')
    BY <1>1, <1>3, <1>4, <1>6, <2>3 DEF Apart, Disjoint, Past
  <2> QED
    BY <1>1, <1>5, <2>1, <2>2, <2>3 DEF Apart
<1>7. \A y : Holds(Append(heard, x), y) <=> Holds(heard, y) \/ y = x
  BY <1>2, HoldsOf
<1>9. \A y : Holds(heard, y) => Holds(heard', y)
  BY <1>1, <1>7
<1>10. ctl.pc # "clear" => Holds(heard', x)
  BY <1>1, <1>7
<1>11. Mine'
  BY <1>1, <1>3, <1>9, <1>10 DEF Mine, Known, Takes
<1> QED
  BY <1>8, <1>11

LEMMA ApartTake ==
  ASSUME VoiceType, Apart, Mine, NEW e \in Encoders, EncTake(e)
  PROVE  Apart' /\ Mine'
<1>1. /\ enc[e].pc = "idle" /\ inq' = <<>>
      /\ UNCHANGED <<gen, buf, ctl, posted>>
      /\ heard' = IF ctl.pc = "clear" THEN heard \o inq ELSE heard
      /\ \/ enc' = [enc EXCEPT ![e] = IdleEnc]
         \/ enc' = [enc EXCEPT ![e] =
                      [pc |-> "taken", batch |-> inq, g |-> gen]]
  BY DEF EncTake, stream
<1>2. /\ inq \in Seq(Nat) /\ heard \in Seq(Nat) /\ buf \in Seq(Nat)
      /\ enc \in [Encoders -> Work]
  BY DEF VoiceType, Threads, Queued
<1>3. \A y : ~Holds(inq', y)
  BY <1>1 DEF Holds
<1>4. \A y : Holds(heard \o inq, y) <=> Holds(heard, y) \/ Holds(inq, y)
  BY <1>2, HoldsOf
<1>5. \A y : Holds(heard, y) => Holds(heard', y)
  BY <1>1, <1>4
<1>6. \A y \in Nat \ {0} : Holds(inq, y) => Holds(heard', y)
  BY <1>1, <1>4 DEF Mine, Known
<1>7. Single(inq') /\ Past(inq)' /\ Past(buf)' /\ Disjoint(inq', buf')
  BY <1>1, <1>3 DEF Single, Past, Disjoint, Apart
<1>8. \A q : Disjoint(q, inq')
  BY <1>3 DEF Disjoint
<1>9. \A f \in Encoders : f # e => enc'[f] = enc[f]
  BY <1>1, <1>2
<1>10. \/ enc'[e].pc # "taken"
       \/ enc'[e].pc = "taken" /\ enc'[e].batch = inq /\ enc'[e].g = gen
  BY <1>1, <1>2 DEF IdleEnc
<1>11. \A f \in Encoders : f # e /\ enc[f].pc = "taken" =>
         Disjoint(enc[f].batch, inq) /\ Disjoint(inq, enc[f].batch)
  BY DEF Apart, Disjoint
<1>12. ASSUME NEW f \in Encoders, enc'[f].pc = "taken"
       PROVE  /\ Single(enc'[f].batch) /\ Past(enc[f].batch)'
              /\ Disjoint(enc'[f].batch, inq') /\ Disjoint(enc'[f].batch, buf')
  <2>1. CASE f = e
    <3>1. Single(inq) /\ Past(inq) /\ Disjoint(inq, buf)
      BY DEF Apart
    <3> QED
      BY <1>1, <1>8, <1>10, <1>12, <2>1, <3>1 DEF Past
  <2>2. CASE f # e
    BY <1>1, <1>8, <1>9, <1>12, <2>2 DEF Apart, Past
  <2> QED
    BY <2>1, <2>2
<1>13. ASSUME NEW f \in Encoders, NEW g \in Encoders, f # g,
              enc'[f].pc = "taken", enc'[g].pc = "taken"
       PROVE  Disjoint(enc'[f].batch, enc'[g].batch)
  <2>1. CASE f = e
    BY <1>9, <1>10, <1>11, <1>13, <2>1
  <2>2. CASE g = e
    BY <1>9, <1>10, <1>11, <1>13, <2>2
  <2>3. CASE f # e /\ g # e
    BY <1>9, <1>13, <2>3 DEF Apart
  <2> QED
    BY <2>1, <2>2, <2>3
<1>14. Apart'
  <2>1. Single(buf')
    BY <1>1 DEF Apart
  <2> QED
    BY <1>7, <1>12, <1>13, <2>1 DEF Apart
<1>15. ASSUME NEW f \in Encoders, Takes(f)'
       PROVE  Known(enc[f].batch)'
  <2>1. CASE f = e
    BY <1>6, <1>10, <1>15, <2>1 DEF Known, Takes
  <2>2. CASE f # e
    BY <1>1, <1>5, <1>9, <1>15, <2>2 DEF Known, Takes, Mine
  <2> QED
    BY <2>1, <2>2
<1>16. ctl'.pc # "clear" => Known(inq)' /\ Known(buf)'
  <2>1. Known(inq)'
    BY <1>3 DEF Known
  <2>2. ctl.pc # "clear" => Known(buf)'
    BY <1>1, <1>5 DEF Known, Mine
  <2> QED
    BY <1>1, <2>1, <2>2
<1>17. \A f \in Encoders : Takes(f)' => Known(enc[f].batch)'
  BY <1>15
<1> QED
  BY <1>14, <1>16, <1>17 DEF Mine

LEMMA ApartFed ==
  ASSUME VoiceAssumption, VoiceType, Locks, Apart, Mine,
         NEW e \in Encoders, FeedEnter(e)
  PROVE  Apart' /\ Mine'
<1>1. /\ enc[e].pc = "taken" /\ airlock = Nobody
      /\ UNCHANGED <<gen, inq, ctl, posted, heard>>
  BY DEF FeedEnter, ghosts
<1>2. /\ inq \in Seq(Nat) /\ buf \in Seq(Nat)
      /\ enc \in [Encoders -> Work] /\ enc[e].batch \in Seq(Nat)
  BY DEF VoiceType, Threads, Queued, Work
<1>3. ctl.pc # "clear"
  BY <1>1 DEF Locks, VoiceAssumption
<1>4. /\ \A f \in Encoders : f # e => enc'[f] = enc[f]
      /\ enc'[e].pc # "taken"
  <2>1. \/ enc' = [enc EXCEPT ![e] = IdleEnc]
        \/ enc' = [enc EXCEPT ![e].pc = "feed"]
    BY DEF FeedEnter, EncDone
  <2>2. CASE enc' = [enc EXCEPT ![e] = IdleEnc]
    BY <1>2, <2>2 DEF IdleEnc
  <2>3. CASE enc' = [enc EXCEPT ![e].pc = "feed"]
    BY <1>2, <2>3 DEF Work
  <2> QED
    BY <2>1, <2>2, <2>3
<1>5. /\ \A y : Holds(buf', y) =>
                  Holds(buf, y) \/ (Takes(e) /\ Holds(enc[e].batch, y))
      /\ Single(buf')
  <2>1. CASE enc[e].g # gen
    <3>1. buf' = buf
      BY <2>1 DEF FeedEnter
    <3> QED
      BY <3>1 DEF Apart
  <2>2. CASE enc[e].g = gen
    <3> DEFINE b == enc[e].batch
    <3>1. buf' = buf \o b
      BY <2>2 DEF FeedEnter
    <3>2. Single(buf) /\ Single(b) /\ Disjoint(b, buf)
      BY <1>1 DEF Apart
    <3>3. b \in Seq(Nat) /\ 0 \in 0..Len(buf)
      BY <1>2
    <3>4. Takes(e)
      BY <1>1, <2>2 DEF Takes
    <3> HIDE DEF b
    <3>5. \A y : Holds(buf', y) <=> Holds(buf, y) \/ Holds(b, y)
      BY <1>2, <3>1, <3>3, HoldsOf
    <3>6. Single(buf')
      BY <1>2, <3>1, <3>2, <3>3, SingleOf
    <3> QED
      BY <3>4, <3>5, <3>6 DEF b
  <2> QED
    BY <2>1, <2>2
<1>11. \A f \in Encoders : enc'[f].pc = "taken" =>
        f # e /\ enc'[f] = enc[f] /\ enc[f].pc = "taken"
  BY <1>4
<1>12. Past(inq)' /\ Past(buf)'
  BY <1>1, <1>5 DEF Apart, Past
<1>13. Disjoint(inq', buf')
  BY <1>1, <1>5 DEF Apart, Disjoint
<1>14. ASSUME NEW f \in Encoders, enc'[f].pc = "taken"
      PROVE  /\ Single(enc'[f].batch) /\ Past(enc[f].batch)'
             /\ Disjoint(enc'[f].batch, inq') /\ Disjoint(enc'[f].batch, buf')
  <2>1. f # e /\ enc'[f] = enc[f] /\ enc[f].pc = "taken"
    BY <1>11, <1>14
  <2>2. Disjoint(enc[f].batch, buf) /\ Disjoint(enc[f].batch, enc[e].batch)
    BY <1>1, <2>1 DEF Apart
  <2>3. Disjoint(enc[f].batch, buf')
    BY <1>5, <2>2 DEF Disjoint
  <2> QED
    BY <1>1, <2>1, <2>3 DEF Apart, Past
<1>15. \A f, g \in Encoders :
        f # g /\ enc'[f].pc = "taken" /\ enc'[g].pc = "taken" =>
          Disjoint(enc'[f].batch, enc'[g].batch)
  BY <1>11 DEF Apart
<1>16. Apart'
  <2>1. Single(inq')
    BY <1>1 DEF Apart
  <2> QED
    BY <1>5, <1>12, <1>13, <1>14, <1>15, <2>1 DEF Apart
<1>17. Known(inq)' /\ Known(buf)'
  BY <1>1, <1>3, <1>5 DEF Mine, Known
<1>18. \A f \in Encoders : Takes(f)' => Known(enc[f].batch)'
  BY <1>1, <1>11 DEF Mine, Known, Takes
<1> QED
  BY <1>16, <1>17, <1>18 DEF Mine

(* What empties the queue or the encoder, or lets a batch go.               *)
Lets ==
  /\ UNCHANGED <<gen, posted, heard>>
  /\ inq' = inq \/ inq' = <<>>
  /\ buf' = buf \/ buf' = <<>>
  /\ \A e \in Encoders :
       enc'[e].pc = "taken" => enc'[e] = enc[e] /\ enc[e].pc = "taken"
  /\ ctl'.pc # "clear" =>
       ctl.pc # "clear" \/ (inq' = <<>> /\ buf' = <<>>)

LEMMA ApartLess ==
  ASSUME Lets, Apart, Mine
  PROVE  Apart' /\ Mine'
<1> USE DEF Lets
<1>1. \A y : Holds(inq', y) => Holds(inq, y)
  BY DEF Holds
<1>2. \A y : Holds(buf', y) => Holds(buf, y)
  BY DEF Holds
<1>3. \A y : ~Holds(<<>>, y)
  BY DEF Holds
<1>4. Single(inq') /\ Single(buf')
  BY DEF Apart, Single
<1>5. Past(inq)' /\ Past(buf)' /\ Disjoint(inq', buf')
  BY <1>1, <1>2 DEF Apart, Past, Disjoint
<1>6. ASSUME NEW e \in Encoders, enc'[e].pc = "taken"
      PROVE  /\ Single(enc'[e].batch) /\ Past(enc[e].batch)'
             /\ Disjoint(enc'[e].batch, inq') /\ Disjoint(enc'[e].batch, buf')
  <2>1. enc'[e] = enc[e] /\ enc[e].pc = "taken"
    BY <1>6
  <2>2. /\ Single(enc[e].batch) /\ Past(enc[e].batch)
        /\ Disjoint(enc[e].batch, inq) /\ Disjoint(enc[e].batch, buf)
    BY <2>1 DEF Apart
  <2> QED
    BY <1>1, <1>2, <2>1, <2>2 DEF Past, Disjoint
<1>7. \A e, f \in Encoders :
        e # f /\ enc'[e].pc = "taken" /\ enc'[f].pc = "taken" =>
          Disjoint(enc'[e].batch, enc'[f].batch)
  BY DEF Apart
<1>8. Apart'
  BY <1>4, <1>5, <1>6, <1>7 DEF Apart
<1>9. Mine'
  <2>1. ctl'.pc # "clear" => Known(inq)' /\ Known(buf)'
    BY <1>1, <1>2, <1>3 DEF Mine, Known
  <2>2. \A e \in Encoders : Takes(e)' => Known(enc[e].batch)'
    BY DEF Mine, Known, Takes
  <2> QED
    BY <2>1, <2>2 DEF Mine
<1> QED
  BY <1>8, <1>9

LEMMA ApartFlush ==
  ASSUME VoiceType, Apart, Mine, NEW s \in Stops, StopFlush(s)
  PROVE  Apart' /\ Mine'
<1>1. /\ UNCHANGED <<gen, inq, ctl, posted, heard, enc>>
      /\ buf' = buf \/ buf' = buf \o <<0, 0>>
  BY DEF StopFlush, ingest, Silence
<1>2. buf \in Seq(Nat)
  BY DEF VoiceType, Queued
<1>3. CASE buf' = buf
  BY <1>1, <1>3, ApartLess DEF Lets
<1>4. CASE buf' = buf \o <<0, 0>>
  <2> DEFINE z == <<0, 0>>
  <2>1. z \in Seq(Nat) /\ Len(z) = 2 /\ z[1] = 0 /\ z[2] = 0
    OBVIOUS
  <2>2. buf' = buf \o z /\ 0 \in 0..Len(buf)
    BY <1>2, <1>4
  <2> HIDE DEF z
  <2>3. \A y : Holds(z, y) => y = 0
    BY <2>1 DEF Holds
  <2>4. \A y : Holds(buf', y) <=> Holds(buf, y) \/ Holds(z, y)
    BY <1>2, <2>1, <2>2, HoldsOf
  <2>5. \A y \in Nat \ {0} : Holds(buf', y) => Holds(buf, y)
    BY <2>3, <2>4
  <2>6. Single(z)
    BY <2>1 DEF Single
  <2>7. Disjoint(z, buf)
    BY <2>3 DEF Disjoint
  <2>8. Single(buf)
    BY DEF Apart
  <2>9. Single(buf')
    BY <1>2, <2>1, <2>2, <2>6, <2>7, <2>8, SingleOf
  <2>10. Single(inq') /\ Past(inq)' /\ Past(buf)' /\ Disjoint(inq', buf')
    BY <1>1, <2>5 DEF Apart, Past, Disjoint
  <2>11. \A e \in Encoders : enc'[e].pc = "taken" =>
           /\ Single(enc'[e].batch) /\ Past(enc[e].batch)'
           /\ Disjoint(enc'[e].batch, inq') /\ Disjoint(enc'[e].batch, buf')
    BY <1>1, <2>5 DEF Apart, Past, Disjoint
  <2>12. \A e, f \in Encoders :
           e # f /\ enc'[e].pc = "taken" /\ enc'[f].pc = "taken" =>
             Disjoint(enc'[e].batch, enc'[f].batch)
    BY <1>1 DEF Apart
  <2>13. Apart'
    BY <2>9, <2>10, <2>11, <2>12 DEF Apart
  <2>14. Mine'
    BY <1>1, <2>5 DEF Mine, Known, Takes
  <2> QED
    BY <2>13, <2>14
<1> QED
  BY <1>1, <1>3, <1>4

LEMMA ApartStep ==
  ASSUME VoiceAssumption, VoiceType, Locks, Generations, Apart, Mine, Next
  PROVE  Apart' /\ Mine'
<1>1. ASSUME Ingest
      PROVE  Apart' /\ Mine'
  BY <1>1, ApartIngest
<1>2. ASSUME NEW e \in Encoders, EncTake(e)
      PROVE  Apart' /\ Mine'
  BY <1>2, ApartTake
<1>3. ASSUME NEW e \in Encoders, FeedEnter(e)
      PROVE  Apart' /\ Mine'
  BY <1>3, ApartFed
<1>4. ASSUME NEW s \in Stops, StopFlush(s)
      PROVE  Apart' /\ Mine'
  BY <1>4, ApartFlush
<1>5. ASSUME NEW talk \in BOOLEAN, ResetBegins(talk)
      PROVE  Apart' /\ Mine'
  <2>1. /\ gen' = gen + 1 /\ buf' = <<>> /\ ctl'.pc = "clear"
        /\ UNCHANGED <<inq, enc, posted>>
    BY <1>5 DEF ResetBegins, ingest
  <2>2. \A y : ~Holds(<<>>, y)
    BY DEF Holds
  <2>3. Single(<<>>)
    BY DEF Single
  <2>4. Apart'
    BY <2>1, <2>2, <2>3 DEF Apart, Past, Disjoint
  <2>5. \A e \in Encoders : enc[e].g \in Nat /\ gen \in Nat
    BY DEF VoiceType, Threads, Work, Counted
  <2>6. \A e \in Encoders : ~Takes(e)'
    BY <2>1, <2>5 DEF Takes, Generations
  <2> QED
    BY <2>1, <2>4, <2>6 DEF Mine
<1>6. ASSUME ResetEnds
      PROVE  Apart' /\ Mine'
  <2>1. /\ ctl.pc = "clear" /\ inq' = <<>>
        /\ UNCHANGED <<gen, buf, enc, posted, heard>>
    BY <1>6 DEF ResetEnds
  <2>2. buf' = <<>>
    BY <2>1 DEF Generations
  <2> QED
    BY <2>1, <2>2, ApartLess DEF Lets
<1>7. CASE Lets
  BY <1>7, ApartLess
<1>8. CASE UNCHANGED <<gen, posted, heard, inq, buf, enc, ctl>>
  BY <1>8, <1>7 DEF Lets
<1>9. ASSUME NEW e \in Encoders, EncExit(e)
      PROVE  Lets
  BY <1>9 DEF Lets, EncExit, ingest, stream, ghosts, VoiceType, Threads, Work
<1>10. ASSUME NEW e \in Encoders, FeedLeave(e)
      PROVE  Lets
  BY <1>10 DEF Lets, FeedLeave, EncDone, IdleEnc, stream, ghosts, VoiceType, Threads, Work
<1>11. ASSUME Opened
      PROVE  Lets
  BY <1>11 DEF Lets, Opened, IdleEnc, ingest, stream, VoiceType, Threads, Work
<1>12. ASSUME Talk
      PROVE  Lets
  BY <1>12 DEF Lets, Talk, ingest, stream, ghosts
<1>13. ASSUME Joined
      PROVE  Lets
  BY <1>13 DEF Lets, Joined, ingest, stream, ghosts
<1>14. ASSUME SelectPressed
      PROVE  Lets
  BY <1>14 DEF Lets, SelectPressed, ingest, stream, ghosts
<1>15. ASSUME Receive
      PROVE  UNCHANGED <<gen, posted, heard, inq, buf, enc, ctl>>
  BY <1>15 DEF Receive, ingest, stream, ghosts
<1>16. ASSUME Fade
      PROVE  UNCHANGED <<gen, posted, heard, inq, buf, enc, ctl>>
  BY <1>16 DEF Fade, ingest, stream, ghosts
<1>17. ASSUME NEW e \in Encoders, FeedChunk(e)
      PROVE  UNCHANGED <<gen, posted, heard, inq, buf, enc, ctl>>
  BY <1>17 DEF FeedChunk, EncodeChunk, ingest
<1>18. ASSUME NEW d \in Decoders, DecLook(d)
      PROVE  UNCHANGED <<gen, posted, heard, inq, buf, enc, ctl>>
  BY <1>18 DEF DecLook, ingest, stream, ghosts
<1>19. ASSUME NEW d \in Decoders, DecVocode(d)
      PROVE  UNCHANGED <<gen, posted, heard, inq, buf, enc, ctl>>
  BY <1>19 DEF DecVocode, ingest, stream, ghosts
<1>20. ASSUME NEW d \in Decoders, DecCommit(d)
      PROVE  UNCHANGED <<gen, posted, heard, inq, buf, enc, ctl>>
  BY <1>20 DEF DecCommit, ingest, stream, ghosts
<1>21. ASSUME NEW d \in Decoders, DecExit(d)
      PROVE  UNCHANGED <<gen, posted, heard, inq, buf, enc, ctl>>
  BY <1>21 DEF DecExit, ingest, stream, ghosts
<1>22. ASSUME NEW s \in Stops, StopPressed(s)
      PROVE  UNCHANGED <<gen, posted, heard, inq, buf, enc, ctl>>
  BY <1>22 DEF StopPressed, ingest, stream, ghosts
<1>23. ASSUME NEW s \in Stops, StopDrained(s)
      PROVE  UNCHANGED <<gen, posted, heard, inq, buf, enc, ctl>>
  BY <1>23 DEF StopDrained, ingest, stream, ghosts
<1>24. ASSUME NEW s \in Stops, StopGivesUp(s)
      PROVE  UNCHANGED <<gen, posted, heard, inq, buf, enc, ctl>>
  BY <1>24 DEF StopGivesUp, ingest, stream, ghosts
<1>25. ASSUME NEW s \in Stops, StopChunk(s)
      PROVE  UNCHANGED <<gen, posted, heard, inq, buf, enc, ctl>>
  BY <1>25 DEF StopChunk, ingest, stream, ghosts, EncodeChunk
<1>26. ASSUME NEW s \in Stops, StopClose(s)
      PROVE  UNCHANGED <<gen, posted, heard, inq, buf, enc, ctl>>
  BY <1>26 DEF StopClose, ingest, stream, ghosts
<1>27. ASSUME NEW s \in Stops, StopRaises(s)
      PROVE  UNCHANGED <<gen, posted, heard, inq, buf, enc, ctl>>
  BY <1>27 DEF StopRaises, ingest, stream, ghosts
<1>28. ASSUME NEW s \in Stops, StopWaited(s)
      PROVE  UNCHANGED <<gen, posted, heard, inq, buf, enc, ctl>>
  BY <1>28 DEF StopWaited, ingest, stream, ghosts
<1>29. ASSUME NEW s \in Stops, StopSnapshot(s)
      PROVE  UNCHANGED <<gen, posted, heard, inq, buf, enc, ctl>>
  BY <1>29 DEF StopSnapshot, ingest, stream, ghosts
<1>30. ASSUME NEW s \in Stops, StopWrite(s)
      PROVE  UNCHANGED <<gen, posted, heard, inq, buf, enc, ctl>>
  BY <1>30 DEF StopWrite, ingest, stream, ghosts
<1> QED
  BY <1>1, <1>2, <1>3, <1>4, <1>5, <1>6, <1>7, <1>8, <1>9, <1>10, <1>11,
     <1>12, <1>13, <1>14, <1>15, <1>16, <1>17, <1>18, <1>19, <1>20, <1>21,
     <1>22, <1>23, <1>24, <1>25, <1>26, <1>27, <1>28, <1>29, <1>30 DEF Next,
     Encoding, Decoding, Stopping, Control

(* A stream that is the speech of posts, each of which stands in them once, *)
(* has no more than its tokens of any.                                     *)
LEMMA SpeechOnce ==
  ASSUME VoiceAssumption, NEW u \in Seq(Nat), NEW h \in Seq(Nat),
         NEW sent \in Seq(Int), Single(u),
         \A x \in Nat \ {0} : Holds(u, x) => Holds(h, x),
         Begins(sent, Speech(u))
  PROVE  Once(sent, h)
<1> DEFINE T == TokensPerPost
           at(i) == (i - 1) \div T + 1
           n == Len(u)
<1>1. T \in Nat \ {0} /\ n \in Nat
  BY DEF VoiceAssumption
<1>2. \A i \in 1..n * T : at(i) \in 1..n
  BY <1>1, PostOf
<1>3. /\ Len(Speech(u)) = n * T
      /\ \A i \in 1..n * T : Speech(u)[i] = u[at(i)]
  BY SpeechTyped
<1>4. \A i \in 1..Len(sent) : at(i) \in 1..n /\ sent[i] = u[at(i)]
  <2>1. n * T \in Nat /\ Len(sent) \in Nat
    BY <1>1, PostOf
  <2> HIDE DEF T, at, n
  <2>2. \A i \in 1..Len(sent) : i \in 1..n * T
    BY <1>3, <2>1 DEF Begins
  <2> QED
    BY <1>2, <1>3, <2>2 DEF Begins
<1>5. DOMAIN sent = 1..Len(sent)
  OBVIOUS
<1>6. ASSUME NEW i \in 1..Len(sent)
      PROVE  i \in (at(i) - 1) * T + 1..(at(i) - 1) * T + T
  <2> DEFINE q == (i - 1) \div T
             r == (i - 1) % T
  <2>1. i - 1 \in Nat
    OBVIOUS
  <2>2. i - 1 = T * q + r /\ q \in Nat /\ r \in 0..T - 1
    BY <1>1, <2>1, Division, ModRange
  <2> HIDE DEF T
  <2>3. at(i) - 1 = q
    BY <2>2
  <2> HIDE DEF q, r, at
  <2>4. T * q = q * T /\ q * T \in Nat
    BY <1>1, <2>2, SMTT(30)
  <2>5. i = q * T + r + 1
    BY <2>1, <2>2, <2>4
  <2> QED
    BY <1>1, <2>2, <2>3, <2>4, <2>5
<1>7. ASSUME NEW p \in ToSet(sent)
      PROVE  p \in ToSet(h) \cup {Silence, Marker}
  <2>1. PICK i \in 1..Len(sent) : p = sent[i]
    BY <1>5 DEF ToSet
  <2>2. p \in Nat /\ Holds(u, p)
    <3> HIDE DEF T, at
    <3>1. at(i) \in 1..n /\ p = u[at(i)]
      BY <1>4, <2>1
    <3> QED
      BY <3>1 DEF Holds
  <2>3. p # 0 => Holds(h, p)
    BY <2>2
  <2>4. p # 0 => p \in ToSet(h)
    BY <2>3 DEF Holds, ToSet
  <2> QED
    BY <2>4 DEF Silence
<1>8. ASSUME NEW p \in ToSet(sent), p \in Posts
      PROVE  Cardinality({i \in DOMAIN sent: sent[i] = p}) <= T
  <2> DEFINE S == {i \in DOMAIN sent: sent[i] = p}
  <2>1. PICK j \in 1..Len(sent) : p = sent[j]
    BY <1>5 DEF ToSet
  <2> DEFINE c == (at(j) - 1) * T
  <2>2. \A i \in S : at(i) = at(j)
    <3>1. p # 0
      BY <1>8 DEF Posts, VoiceAssumption
    <3>2. \A i \in S : i \in 1..Len(sent) /\ sent[i] = sent[j]
      BY <1>5, <2>1
    <3> HIDE DEF T, at, n, S
    <3>3. \A i \in S : /\ at(i) \in 1..n /\ at(j) \in 1..n
                       /\ u[at(i)] = u[at(j)] /\ u[at(i)] # 0
      BY <1>4, <2>1, <3>1, <3>2
    <3>4. \A a, b \in 1..n : u[a] = u[b] /\ u[a] # 0 => a = b
      BY DEF Single, n
    <3> QED
      BY <3>3, <3>4
  <2>3. S \subseteq c + 1..c + T
    <3>1. \A i \in S : i \in 1..Len(sent)
      BY <1>5
    <3> HIDE DEF T, at, S
    <3> QED
      BY <1>6, <2>2, <3>1
  <2>4. c \in Int
    <3>1. at(j) - 1 \in Int
      BY <1>4
    <3> HIDE DEF at, T
    <3> QED
      BY <1>1, <3>1, SMTT(30)
  <2> HIDE DEF S, c, T
  <2>5. IsFiniteSet(c + 1..c + T) /\ Cardinality(c + 1..c + T) = T
    <3>1. /\ c + 1 \in Int /\ c + T \in Int /\ ~(c + 1 > c + T)
          /\ (c + T) - (c + 1) + 1 = T
      BY <1>1, <2>4
    <3> DEFINE a == c + 1
               b == c + T
    <3> HIDE DEF a, b
    <3>2. a \in Int /\ b \in Int /\ ~(a > b) /\ b - a + 1 = T
      BY <3>1 DEF a, b
    <3>3. IsFiniteSet(a..b) /\ Cardinality(a..b) = T
      BY <3>2, FS_Interval
    <3> QED
      BY <3>3 DEF a, b
  <2>6. Cardinality(S) <= T
    BY <2>3, <2>5, FS_Subset
  <2> QED
    BY <2>6 DEF S
<1> QED
  BY <1>7, <1>8 DEF Once

-----------------------------------------------------------------------------
(* What a stream holds: the speech of the posts that were heard, and behind *)
(* it, once it is closed, less padding than fills whole bytes.  Where an    *)
(* encoder outlived its join, the order is lost.                           *)
Said(out, sent, posts) ==
  IF out THEN Once(sent, posts)
  ELSE \E n \in 0..Len(posts) :
         IsPrefix(sent, Speech(Append(SubSeq(posts, 1, n), Silence)))
Sends ==
  \E j \in 0..(IF closed THEN Align - 1 ELSE 0) :
    /\ j <= Len(tx_stream)
    /\ Said(outlived, SubSeq(tx_stream, 1, Len(tx_stream) - j), heard)
Kept == ~early /\ Settled /\ (closed \/ ctl.pc = "open") => Sends

LEMMA SpokenHeard ==
  ASSUME VoiceType, Encoded, Complete
  PROVE  Begins(Spoken, heard)
<1>1. Spoken \in Seq(Nat) /\ inq \in Seq(Nat)
  BY SpokenTyped DEF VoiceType, Queued
<1>2. CASE \A e \in Encoders : ~Takes(e)
  <2>1. heard = Spoken \o inq
    BY <1>2 DEF Complete
  <2> QED
    BY <1>1, <2>1, BeginsConcat
<1>3. ASSUME NEW e \in Encoders, Takes(e)
      PROVE  Begins(Spoken, heard)
  <2> DEFINE q == enc[e].batch \o inq
  <2>1. heard = Spoken \o q
    BY <1>3 DEF Complete
  <2>2. enc[e].batch \in Seq(Nat)
    BY DEF VoiceType, Threads, Work
  <2>3. q \in Seq(Nat)
    BY <1>1, <2>2, Concatenated
  <2> HIDE DEF q
  <2> QED
    BY <1>1, <2>1, <2>3, BeginsConcat
<1> QED
  BY <1>2, <1>3

(* The posts encoded are those heard, with one second of silence at most.  *)
LEMMA EncodedSpoken ==
  ASSUME VoiceType, Encoded
  PROVE  /\ SubSeq(buf, 1, k) \in Seq(Nat) /\ Append(Spoken, 0) \in Seq(Nat)
         /\ Begins(SubSeq(buf, 1, k), Append(Spoken, 0))
         /\ Flushing /\ ~Encodable => Begins(Spoken, SubSeq(buf, 1, k))
<1>1. /\ buf \in Seq(Nat) /\ k \in Nat /\ Len(buf) \in Nat
      /\ k <= Len(buf) /\ (buf = <<>> \/ k < Len(buf))
  BY DEF VoiceType, Queued, Counted, Encoded
<1>2. Spoken \in Seq(Nat) /\ Len(Spoken) \in Nat
  BY SpokenTyped
<1>3. Append(Spoken, 0) \in Seq(Nat)
  BY <1>2
<1> DEFINE c == SubSeq(buf, 1, k)
<1>4. c \in Seq(Nat) /\ Len(c) = k /\ \A i \in 1..k : c[i] = buf[i]
  BY <1>1, BeginsCut
<1>5. /\ Len(Append(Spoken, 0)) = Len(Spoken) + 1
      /\ \A i \in 1..Len(Spoken) : Append(Spoken, 0)[i] = Spoken[i]
      /\ Append(Spoken, 0)[Len(Spoken) + 1] = 0
  BY <1>2
<1> DEFINE a == Append(Spoken, 0)
<1> HIDE DEF c, a
<1>6. CASE Flushing /\ buf # <<>>
  <2>1. Len(buf) >= 3 /\ buf[Len(buf) - 1] = 0
    BY <1>6 DEF Encoded
  <2>2. Spoken = SubSeq(buf, 1, Len(buf) - 2)
    BY <1>6 DEF Spoken
  <2> DEFINE l == Len(buf) - 2
  <2>3. l \in 0..Len(buf)
    BY <1>1, <2>1
  <2>4. Len(Spoken) = l /\ \A i \in 1..l : Spoken[i] = buf[i]
    BY <1>1, <2>2, <2>3, BeginsCut
  <2>5. k <= l + 1 /\ Len(buf) - 1 = l + 1
    BY <1>1, <1>6
  <2> HIDE DEF l
  <2>6. \A i \in 1..k : c[i] = a[i]
    <3> SUFFICES ASSUME NEW i \in 1..k PROVE c[i] = a[i]
      OBVIOUS
    <3>1. CASE i \in 1..l
      BY <1>4, <1>5, <2>4, <3>1 DEF a
    <3>2. CASE i = l + 1
      BY <1>4, <1>5, <2>1, <2>4, <2>5, <3>2 DEF a
    <3> QED
      BY <1>1, <2>3, <2>5, <3>1, <3>2
  <2>7. Begins(c, a)
    BY <1>4, <1>5, <2>4, <2>5, <2>6 DEF Begins, a
  <2>8. ~Encodable => Begins(Spoken, c)
    <3> SUFFICES ASSUME ~Encodable PROVE Begins(Spoken, c)
      OBVIOUS
    <3>1. l <= k
      BY <1>1, <2>5 DEF Encodable, l
    <3> QED
      BY <1>1, <1>4, <2>3, <2>4, <3>1 DEF Begins
  <2> QED
    BY <1>3, <1>4, <2>7, <2>8 DEF c, a
<1>7. CASE ~(Flushing /\ buf # <<>>)
  <2>1. Spoken = buf
    BY <1>7 DEF Spoken
  <2>2. Begins(c, a)
    BY <1>1, <1>4, <1>5, <2>1 DEF Begins, a
  <2>3. Flushing => Begins(Spoken, c)
    BY <1>1, <1>4, <1>7, <2>1 DEF Begins
  <2> QED
    BY <1>3, <1>4, <2>2, <2>3 DEF c, a
<1> QED
  BY <1>6, <1>7

LEMMA SendsSpoken ==
  ASSUME VoiceAssumption, VoiceType, Encoded, Complete
  PROVE  /\ Speech(SubSeq(buf, 1, k)) \in Seq(Nat)
         /\ Begins(Speech(SubSeq(buf, 1, k)), Speech(Append(Spoken, 0)))
         /\ Speech(Append(Spoken, 0)) \in Seq(Nat)
         /\ Len(Spoken) \in 0..Len(heard)
         /\ SubSeq(heard, 1, Len(Spoken)) = Spoken
<1>1. /\ SubSeq(buf, 1, k) \in Seq(Nat) /\ Append(Spoken, 0) \in Seq(Nat)
      /\ Begins(SubSeq(buf, 1, k), Append(Spoken, 0))
  BY EncodedSpoken
<1> DEFINE c == SubSeq(buf, 1, k)
           a == Append(Spoken, 0)
<1> HIDE DEF c, a
<1>2. c \in Seq(Nat) /\ a \in Seq(Nat) /\ Begins(c, a)
  BY <1>1 DEF c, a
<1>3. /\ Speech(c) \in Seq(Nat) /\ Speech(a) \in Seq(Nat)
      /\ Begins(Speech(c), Speech(a))
  BY <1>2, SpeechTyped, SpeechBegins
<1>4. Spoken \in Seq(Nat) /\ heard \in Seq(Nat) /\ Begins(Spoken, heard)
  BY SpokenTyped, SpokenHeard DEF VoiceType, Queued
<1>5. Len(Spoken) \in 0..Len(heard) /\ Len(Spoken) \in 0..Len(Spoken)
  BY <1>4 DEF Begins
<1>6. SubSeq(heard, 1, Len(Spoken)) = SubSeq(Spoken, 1, Len(Spoken))
  BY <1>4, <1>5, SameCut
<1>7. SubSeq(Spoken, 1, Len(Spoken)) = Spoken
  BY <1>4
<1> QED
  BY <1>3, <1>5, <1>6, <1>7 DEF c, a

(* What begins the speech of the posts encoded is said.                    *)
LEMMA EncodedSaid ==
  ASSUME VoiceAssumption, VoiceType, Apart, Mine, ctl.pc # "clear", Encoded,
         ~outlived => Complete, NEW sent \in Seq(Int),
         Begins(sent, Speech(SubSeq(buf, 1, k)))
  PROVE  Said(outlived, sent, heard)
<1> DEFINE u == SubSeq(buf, 1, k)
<1>1. buf \in Seq(Nat) /\ k \in 0..Len(buf) /\ heard \in Seq(Nat)
  BY DEF VoiceType, Queued, Counted, Encoded
<1>2. u \in Seq(Nat)
  BY <1>1, BeginsCut
<1>3. CASE outlived
  <2>1. Single(buf)
    BY DEF Apart
  <2>2. Single(u)
    BY <1>1, <2>1, SingleOf
  <2>3. \A x : Holds(u, x) => Holds(buf, x)
    BY <1>1, HoldsOf
  <2> HIDE DEF u
  <2>4. \A x \in Nat \ {0} : Holds(u, x) => Holds(heard, x)
    BY <2>3 DEF Mine, Known
  <2>5. Once(sent, heard)
    BY <1>1, <1>2, <2>2, <2>4, SpeechOnce DEF u
  <2> QED
    BY <1>3, <2>5 DEF Said
<1>4. CASE ~outlived
  <2> DEFINE c == Speech(u)
             a == Speech(Append(Spoken, 0))
  <2>1. /\ c \in Seq(Nat) /\ a \in Seq(Nat) /\ Begins(c, a)
        /\ Len(Spoken) \in 0..Len(heard)
        /\ SubSeq(heard, 1, Len(Spoken)) = Spoken
    BY <1>4, SendsSpoken
  <2>2. Begins(sent, c)
    OBVIOUS
  <2> HIDE DEF a, c
  <2>3. c \in Seq(Int) /\ a \in Seq(Int)
    BY <2>1
  <2>4. Begins(sent, a)
    BY <2>1, <2>2, <2>3, BeginsTrans
  <2>5. IsPrefix(sent, a)
    BY <2>3, <2>4, PrefixIsBegins
  <2>6. IsPrefix(sent, Speech(Append(SubSeq(heard, 1, Len(Spoken)), Silence)))
    BY <2>1, <2>5 DEF a, Silence
  <2> QED
    BY <1>4, <2>1, <2>6 DEF Said
<1> QED
  BY <1>3, <1>4

(* Until it is closed, a stream holds no more than what was spoken.        *)
LEMMA SendsNow ==
  ASSUME VoiceAssumption, VoiceType, Apart, Mine, ctl.pc # "clear", Encoded,
         ~outlived => Complete
  PROVE  Sends
<1> DEFINE c == Speech(SubSeq(buf, 1, k))
           w == tokcarry \o pending
<1>1. tx_stream \in Seq(Int) /\ w \in Seq(Nat)
  BY Concatenated DEF VoiceType, Streamed
<1>2. tx_stream \o w = c
  BY DEF Encoded
<1> HIDE DEF w
<1>3. w \in Seq(Int)
  BY <1>1
<1>4. Begins(tx_stream, c)
  BY <1>1, <1>2, <1>3, BeginsConcat
<1>5. Said(outlived, tx_stream, heard)
  BY <1>1, <1>4, EncodedSaid
<1>6. SubSeq(tx_stream, 1, Len(tx_stream) - 0) = tx_stream
  BY <1>1
<1>7. 0 \in 0..(IF closed THEN Align - 1 ELSE 0) /\ 0 <= Len(tx_stream)
  BY <1>1 DEF VoiceAssumption
<1>8. Said(outlived, SubSeq(tx_stream, 1, Len(tx_stream) - 0), heard)
  BY <1>5, <1>6
<1> QED
  BY <1>7, <1>8 DEF Sends

(* The padding of the last chunk.                                          *)
LEMMA PaddedBy ==
  ASSUME VoiceAssumption, NEW t \in Seq(Nat), t # <<>>
  PROVE  \E p \in Seq(Nat) : Len(p) <= Align - 1 /\ Padded(t) = t \o p
<1> DEFINE r == Len(t) % Align
<1>1. Len(t) \in Nat /\ Align \in Nat \ {0}
  BY DEF VoiceAssumption
<1>2. r \in 0..Align - 1
  BY <1>1, ModRange
<1>3. Padded(t) = IF r = 0 THEN t
                    ELSE t \o [i \in 1..Align - r |-> t[Len(t)]]
  BY DEF Padded
<1>4. t[Len(t)] \in Nat
  OBVIOUS
<1> HIDE DEF r
<1>5. CASE r = 0
  <2>1. <<>> \in Seq(Nat) /\ Len(<<>>) = 0 /\ t \o <<>> = t
    OBVIOUS
  <2>2. /\ <<>> \in Seq(Nat) /\ Len(<<>>) <= Align - 1
        /\ Padded(t) = t \o <<>>
    BY <1>1, <1>3, <1>5, <2>1
  <2> QED
    BY <2>2, Zenon
<1>6. CASE r # 0
  <2> DEFINE x == [i \in 1..Align - r |-> t[Len(t)]]
  <2>1. x \in Seq(Nat) /\ Len(x) = Align - r
    BY <1>1, <1>2, <1>4
  <2>2. Padded(t) = t \o x
    BY <1>3, <1>6
  <2> HIDE DEF x
  <2>3. x \in Seq(Nat) /\ Len(x) <= Align - 1 /\ Padded(t) = t \o x
    BY <1>1, <1>2, <1>6, <2>1, <2>2
  <2> QED
    BY <2>3, Zenon
<1> QED
  BY <1>5, <1>6

LEMMA ClosedStream ==
  ASSUME VoiceAssumption, VoiceType, NEW s \in Stops, StopClose(s),
         ~closed, closed', Encoded
  PROVE  \E p \in Seq(Int) : /\ Len(p) <= Align - 1
                             /\ tx_stream' = Speech(SubSeq(buf, 1, k)) \o p
<1> DEFINE t == tokcarry \o pending
           c == Speech(SubSeq(buf, 1, k))
<1>1. \/ t # <<>> /\ SendChunk(Padded(t), TRUE)
      \/ t = <<>> /\ SendChunk(<<Marker>>, TRUE)
      \/ UNCHANGED closed
  BY DEF StopClose
<1>2. tx_stream \in Seq(Int) /\ t \in Seq(Nat)
  BY Concatenated DEF VoiceType, Streamed
<1>3. tx_stream \o t = c
  BY DEF Encoded
<1> HIDE DEF t, c
<1>4. CASE t # <<>> /\ SendChunk(Padded(t), TRUE)
  <2>1. PICK p \in Seq(Nat) : Len(p) <= Align - 1 /\ Padded(t) = t \o p
    BY <1>2, <1>4, PaddedBy
  <2>2. tx_stream' = tx_stream \o (t \o p)
    BY <1>4, <2>1 DEF SendChunk
  <2>3. p \in Seq(Int) /\ t \in Seq(Int)
    BY <1>2
  <2>4. tx_stream' = c \o p
    BY <1>2, <1>3, <2>2, <2>3, Strung
  <2> QED
    BY <2>1, <2>3, <2>4 DEF c
<1>5. CASE t = <<>> /\ SendChunk(<<Marker>>, TRUE)
  <2>1. tx_stream' = tx_stream \o <<Marker>>
    BY <1>5 DEF SendChunk
  <2>2. <<Marker>> \in Seq(Int) /\ Len(<<Marker>>) = 1
    BY DEF Marker
  <2>3. tx_stream \o <<>> = tx_stream
    BY <1>2
  <2>4. 1 <= Align - 1
    BY DEF VoiceAssumption
  <2> QED
    BY <1>3, <1>5, <2>1, <2>2, <2>3, <2>4 DEF c
<1> QED
  BY <1>1, <1>4, <1>5

(* When STOP closes the stream, all of the speech that was heard before it  *)
(* is in it.                                                               *)
LEMMA Closes ==
  ASSUME VoiceAssumption, VoiceType, Apart, Mine, NEW s \in Stops,
         StopClose(s), ctl.pc # "clear", ~closed, closed', Encoded,
         ~outlived => Told
  PROVE  /\ Sends'
         /\ ~gaveup /\ ~outlived => IsPrefix(Speech(pressed), tx_stream')
<1> DEFINE b == SubSeq(buf, 1, k)
           c == Speech(b)
<1>1. b \in Seq(Nat) /\ c \in Seq(Nat)
  BY EncodedSpoken, SpeechTyped
<1>2. PICK p \in Seq(Int) : Len(p) <= Align - 1 /\ tx_stream' = c \o p
  BY ClosedStream
<1>3. fin[s].pc = "flush" /\ ~Encodable /\ UNCHANGED <<heard, outlived>>
  BY DEF StopClose
<1>4. Flushing
  BY <1>3 DEF Flushing
<1>5. Begins(Spoken, b)
  BY <1>3, <1>4, EncodedSpoken
<1>11. ~outlived => Begins(pressed, heard) /\ Complete /\ Awaited
  BY DEF Told
<1>12. Begins(c, c) /\ c \in Seq(Int)
  BY <1>1 DEF Begins
<1>13. Said(outlived, c, heard)
  BY <1>11, <1>12, EncodedSaid
<1> HIDE DEF b, c
<1>6. c \in Seq(Int)
  BY <1>1
<1>7. /\ tx_stream' \in Seq(Int) /\ Len(tx_stream') = Len(c) + Len(p)
      /\ Begins(c, tx_stream')
  BY <1>2, <1>6, Concatenated, BeginsConcat
<1>8. Len(c) \in Nat /\ Len(p) \in Nat /\ Align \in Nat
  BY <1>6 DEF VoiceAssumption
<1>9. Sends'
  <2>1. Len(tx_stream') - Len(p) = Len(c) /\ Len(c) \in 0..Len(c)
    BY <1>7, <1>8
  <2>2. SubSeq(tx_stream', 1, Len(c)) = SubSeq(c, 1, Len(c))
    BY <1>6, <1>7, <2>1, SameCut
  <2>3. SubSeq(c, 1, Len(c)) = c
    BY <1>6
  <2>4. Said(outlived', SubSeq(tx_stream', 1, Len(tx_stream') - Len(p)), heard')
    BY <1>3, <1>13, <2>1, <2>2, <2>3
  <2>5. /\ Len(p) \in 0..(IF closed' THEN Align - 1 ELSE 0)
        /\ Len(p) <= Len(tx_stream')
    BY <1>2, <1>7, <1>8
  <2> QED
    BY <2>4, <2>5 DEF Sends
<1>10. ASSUME ~gaveup, ~outlived
       PROVE  IsPrefix(Speech(pressed), tx_stream')
  <2>1. Len(pressed) <= Len(Spoken)
    BY <1>3, <1>10, <1>11 DEF Awaited
  <2>2. pressed \in Seq(Nat) /\ heard \in Seq(Nat) /\ Spoken \in Seq(Nat)
    BY SpokenTyped DEF VoiceType, Queued
  <2>3. Begins(pressed, Spoken)
    <3>1. Begins(Spoken, heard) /\ Begins(pressed, heard)
      BY <1>10, <1>11, SpokenHeard
    <3> QED
      BY <2>1, <2>2, <3>1 DEF Begins
  <2>4. Begins(pressed, b)
    BY <1>1, <1>5, <2>2, <2>3, BeginsTrans
  <2>5. Speech(pressed) \in Seq(Nat) /\ Begins(Speech(pressed), c)
    BY <1>1, <2>2, <2>4, SpeechTyped, SpeechBegins DEF c
  <2> DEFINE d == Speech(pressed)
  <2> HIDE DEF d
  <2>6. d \in Seq(Int) /\ Begins(d, c)
    BY <2>5 DEF d
  <2>7. Begins(d, tx_stream')
    BY <1>6, <1>7, <2>6, BeginsTrans
  <2>8. IsPrefix(d, tx_stream')
    BY <1>7, <2>6, <2>7, PrefixIsBegins
  <2> QED
    BY <2>8 DEF d
<1> QED
  BY <1>9, <1>10
(* What was sent is what was said, at every moment between two resets.     *)
AllSent == Kept /\ NothingCut

LEMMA SentStays ==
  ASSUME UNCHANGED <<closed, heard, pressed, tx_stream, gaveup, outlived>>,
         early => early', AllSent,
         Settled' /\ (closed \/ ctl'.pc = "open") =>
           Settled /\ (closed \/ ctl.pc = "open")
  PROVE  AllSent'
<1>1. Sends' <=> Sends
  BY DEF Sends
<1> QED
  BY <1>1 DEF AllSent, Kept, NothingCut

(* More is heard; what was said so far stays.                              *)
LEMMA SaidMore ==
  ASSUME NEW out, NEW sent, NEW h \in Seq(Nat), NEW g \in Seq(Nat),
         Begins(h, g), Said(out, sent, h)
  PROVE  Said(out, sent, g)
<1>1. CASE out
  <2>1. ToSet(h) \subseteq ToSet(g)
    <3>1. DOMAIN h = 1 .. Len(h) /\ DOMAIN g = 1 .. Len(g)
      OBVIOUS
    <3>2. Len(h) <= Len(g) /\ \A i \in 1 .. Len(h): g[i] = h[i]
      BY DEF Begins
    <3>3. Len(h) \in Nat /\ Len(g) \in Nat
      OBVIOUS
    <3> QED
      BY <3>1, <3>2, <3>3 DEF ToSet
  <2>2. Once(sent, h)
    BY <1>1 DEF Said
  <2>3. Once(sent, g)
    BY <2>1, <2>2 DEF Once
  <2> QED
    BY <1>1, <2>3 DEF Said
<1>2. CASE ~out
  <2>1. PICK n \in 0..Len(h) :
          IsPrefix(sent, Speech(Append(SubSeq(h, 1, n), Silence)))
    BY <1>2 DEF Said
  <2>2. n \in 0..Len(g)
    BY DEF Begins
  <2>3. SubSeq(g, 1, n) = SubSeq(h, 1, n)
    BY SameCut
  <2> QED
    BY <1>2, <2>1, <2>2, <2>3 DEF Said
<1> QED
  BY <1>1, <1>2

LEMMA SendsGrows ==
  ASSUME heard \in Seq(Nat), heard' \in Seq(Nat), Begins(heard, heard'),
         UNCHANGED <<closed, tx_stream, outlived>>, Sends
  PROVE  Sends'
<1> DEFINE sent(j) == SubSeq(tx_stream, 1, Len(tx_stream) - j)
<1>1. PICK j \in 0..(IF closed THEN Align - 1 ELSE 0) :
        j <= Len(tx_stream) /\ Said(outlived, sent(j), heard)
  BY DEF Sends
<1>2. Said(outlived, sent(j), heard')
  <2> DEFINE h == heard
             g == heard'
             w == sent(j)
  <2>1. h \in Seq(Nat) /\ g \in Seq(Nat) /\ Begins(h, g) /\ Said(outlived, w, h)
    BY <1>1
  <2> HIDE DEF h, g, w
  <2>2. Said(outlived, w, g)
    BY <2>1, SaidMore
  <2> QED
    BY <2>2 DEF g, w
<1> QED
  BY <1>1, <1>2 DEF Sends

(* A chunk of an open stream is not yet all of the speech.                 *)
LEMMA ChunkSent ==
  ASSUME VoiceAssumption, VoiceType, Locks, AllSent, EncodeChunk, boards,
         UNCHANGED <<heard, pressed, early, crossed, outlived, gaveup, ctl>>
  PROVE  AllSent'
<1>1. ctl.pc # "open"
  BY DEF Locks
<1>2. closed' = closed
  BY ChunkNotLast
<1>3. ASSUME closed
      PROVE  UNCHANGED tx_stream
  <2>1. \/ UNCHANGED tx_stream
        \/ \E raw \in Seq(Nat) : SendChunk(raw, FALSE)
    BY ChunkEncoded
  <2>2. CASE \E raw \in Seq(Nat) : SendChunk(raw, FALSE)
    BY <1>3, <2>2 DEF SendChunk
  <2> QED
    BY <2>1, <2>2
<1>4. CASE closed
  BY <1>2, <1>3, <1>4, SentStays DEF Settled
<1>5. CASE ~closed
  BY <1>1, <1>2, <1>5 DEF AllSent, Kept, NothingCut
<1> QED
  BY <1>4, <1>5

(* STOP closes the stream with all of the speech in it.                    *)
LEMMA ClosingSends ==
  ASSUME VoiceAssumption, VoiceType, Locks, StopTrue, SaidTrue, Apart, Mine,
         AllSent, NEW s \in Stops, StopClose(s)
  PROVE  AllSent'
<1> SUFFICES ASSUME ~early', Settled', closed'
             PROVE  /\ Sends'
                    /\ ~gaveup' /\ ~outlived' =>
                         IsPrefix(Speech(pressed'), tx_stream')
  <2>1. ctl.pc # "open" /\ UNCHANGED ctl
    BY DEF StopClose, Locks
  <2> QED
    BY <2>1 DEF AllSent, Kept, NothingCut
<1>1. /\ fin[s].pc = "flush" /\ boards
      /\ UNCHANGED <<ctl, early, outlived, gaveup, pressed, heard>>
  BY DEF StopClose
<1>2. ctl.pc # "open" /\ Settled /\ ctl \in Controlling
  BY <1>1 DEF Locks, Settled, VoiceType, Threads
<1>3. Session /\ ctl.pc # "clear"
  BY <1>2 DEF Session, Settled, Controlling
<1>4. ~early
  BY <1>1
<1>5. ~closed
  BY <1>1, <1>4 DEF StopTrue
<1>6. Encoded /\ (~outlived => Told)
  BY <1>3, <1>4, <1>5 DEF SaidTrue
<1>7. /\ Sends'
      /\ ~gaveup /\ ~outlived => IsPrefix(Speech(pressed), tx_stream')
  BY <1>3, <1>5, <1>6, Closes
<1> QED
  BY <1>1, <1>7

LEMMA AllSentStep ==
  ASSUME VoiceAssumption, VoiceType, Locks, Generations, StopTrue,
         SaidTrue, Apart, Mine, AllSent, Next
  PROVE  AllSent'
<1>1. ASSUME Ingest
      PROVE  AllSent'
  <2>1. /\ UNCHANGED <<closed, pressed, tx_stream, gaveup, early, crossed,
                       outlived, ctl>>
        /\ heard' = IF ctl.pc = "clear" THEN heard
                    ELSE Append(heard, posted + 1)
    BY <1>1 DEF Ingest, stream, ingest, listen, decoded, world, ghosts
  <2>2. heard \in Seq(Nat) /\ posted + 1 \in Nat
    BY DEF VoiceType, Queued, Counted
  <2>3. heard' \in Seq(Nat) /\ Begins(heard, heard')
    <3> DEFINE h == Append(heard, posted + 1)
    <3>1. /\ h \in Seq(Nat) /\ Len(h) = Len(heard) + 1
          /\ \A i \in 1..Len(heard) : h[i] = heard[i]
      BY <2>2
    <3>2. heard' = heard \/ heard' = h
      BY <2>1
    <3> HIDE DEF h
    <3> QED
      BY <2>2, <3>1, <3>2 DEF Begins
  <2>4. Sends => Sends'
    BY <2>1, <2>2, <2>3, SendsGrows
  <2> QED
    BY <2>1, <2>4 DEF AllSent, Kept, NothingCut, Settled
<1>2. ASSUME NEW e \in Encoders, EncTake(e)
      PROVE  AllSent'
  <2>1. /\ UNCHANGED <<closed, pressed, tx_stream, gaveup, early, outlived,
                       ctl>>
        /\ ctl.pc # "clear" => heard' = heard
    BY <1>2 DEF EncTake, stream, ingest, listen, decoded, world, ghosts
  <2>2. CASE ctl.pc = "clear"
    BY <2>1, <2>2 DEF AllSent, Kept, NothingCut, Settled
  <2>3. CASE ctl.pc # "clear"
    BY <2>1, <2>3, SentStays DEF Settled
  <2> QED
    BY <2>2, <2>3
<1>3. ASSUME NEW e \in Encoders, FeedChunk(e)
      PROVE  AllSent'
  <2>1. /\ boards /\ EncodeChunk
        /\ UNCHANGED <<heard, pressed, early, crossed, outlived, gaveup, ctl>>
    BY <1>3 DEF FeedChunk, stream, ingest, listen, decoded, world, ghosts
  <2> QED
    BY <2>1, ChunkSent
<1>4. ASSUME NEW d \in Decoders, DecVocode(d)
      PROVE  AllSent'
  <2>1. /\ UNCHANGED <<closed, heard, pressed, tx_stream, gaveup, outlived,
                       ctl>>
        /\ early => early'
    BY <1>4 DEF DecVocode, stream, ingest, listen, decoded, world, ghosts
  <2> QED
    BY <2>1, SentStays DEF Settled
<1>5. ASSUME NEW s \in Stops, StopPressed(s)
      PROVE  AllSent'
  <2>1. /\ UNCHANGED <<closed, heard, tx_stream, early, crossed, outlived,
                       ctl>>
        /\ ~(closed /\ ~talking)
    BY <1>5 DEF StopPressed, stream, ingest, listen, decoded, world, ghosts
  <2>2. Sends' <=> Sends
    BY <2>1 DEF Sends
  <2>3. closed => early
    BY <2>1 DEF StopTrue
  <2> QED
    BY <2>1, <2>2, <2>3 DEF AllSent, Kept, NothingCut, Settled
<1>6. ASSUME NEW s \in Stops, StopGivesUp(s)
      PROVE  AllSent'
  <2>1. /\ UNCHANGED <<closed, heard, tx_stream, early, crossed, outlived,
                       ctl>> /\ gaveup'
    BY <1>6 DEF StopGivesUp, stream, ingest, listen, decoded, world, ghosts
  <2>2. Sends' <=> Sends
    BY <2>1 DEF Sends
  <2> QED
    BY <2>1, <2>2 DEF AllSent, Kept, NothingCut, Settled
<1>7. ASSUME NEW s \in Stops, StopFlush(s)
      PROVE  AllSent'
  <2>1. /\ UNCHANGED <<closed, heard, pressed, tx_stream, gaveup, outlived,
                       ctl>>
        /\ early => early'
    BY <1>7 DEF StopFlush, stream, ingest, listen, decoded, world, ghosts
  <2> QED
    BY <2>1, SentStays DEF Settled
<1>8. ASSUME NEW s \in Stops, StopChunk(s)
      PROVE  AllSent'
  <2>1. /\ boards /\ EncodeChunk
        /\ UNCHANGED <<heard, pressed, early, crossed, outlived, gaveup, ctl>>
    BY <1>8 DEF StopChunk, stream, ingest, listen, decoded, world, ghosts
  <2> QED
    BY <2>1, ChunkSent
<1>9. ASSUME NEW s \in Stops, StopClose(s)
      PROVE  AllSent'
  BY <1>9, ClosingSends
<1>10. ASSUME NEW talk \in BOOLEAN, ResetBegins(talk)
      PROVE  AllSent'
  <2>1. ctl'.pc = "clear"
    BY <1>10 DEF ResetBegins, stream, ingest, listen, decoded, world, ghosts
  <2> QED
    BY <2>1 DEF AllSent, Kept, NothingCut, Settled
<1>11. ASSUME ResetEnds
      PROVE  AllSent'
  <2>1. /\ ctl.pc = "clear" /\ UNCHANGED closed
        /\ ctl' = [ctl EXCEPT !.pc = IF ctl.talk THEN "talk" ELSE "idle"]
    BY <1>11 DEF ResetEnds, stream, ingest, listen, decoded, world, ghosts
  <2>2. ctl'.pc \in {"talk", "idle"} /\ ~closed
    BY <2>1 DEF VoiceType, Threads, Controlling, Generations
  <2> QED
    BY <2>1, <2>2 DEF AllSent, Kept, NothingCut
<1>12. ASSUME Talk
      PROVE  AllSent'
  <2>1. /\ UNCHANGED <<closed, heard, pressed, tx_stream, gaveup, early,
                       crossed, outlived>>
        /\ ctl' = [ctl EXCEPT !.pc = "idle"] /\ ctl.pc = "talk"
    BY <1>12 DEF Talk, stream, ingest, listen, decoded, world, ghosts
  <2>2. ctl'.pc = "idle"
    BY <2>1 DEF VoiceType, Threads, Controlling
  <2> QED
    BY <2>1, <2>2, SentStays DEF Settled
<1>13. ASSUME SelectPressed
      PROVE  AllSent'
  <2>1. /\ UNCHANGED <<closed, heard, pressed, tx_stream, gaveup, early,
                       crossed, outlived>>
        /\ ctl'.pc = "join" /\ ctl.pc = "idle"
    BY <1>13 DEF SelectPressed, stream, ingest, listen, decoded, world, ghosts
  <2> QED
    BY <2>1, SentStays DEF Settled
<1>14. ASSUME Joined
      PROVE  AllSent'
  <2>1. /\ UNCHANGED <<closed, heard, pressed, tx_stream, gaveup, early,
                       crossed, outlived>>
        /\ ctl.pc = "join"
    BY <1>14 DEF Joined, stream, ingest, listen, decoded, world, ghosts
  <2>2. Sends' <=> Sends
    BY <2>1 DEF Sends
  <2>3. Session /\ Settled
    BY <2>1 DEF Session, Settled
  <2>4. ~early => Sends
    <3>1. CASE closed
      BY <2>3, <3>1 DEF AllSent, Kept
    <3>2. ASSUME ~closed, ~early
          PROVE  Sends
      <4>1. Encoded /\ (~outlived => Complete) /\ ctl.pc # "clear"
        BY <2>3, <3>2 DEF SaidTrue, Told, Session
      <4> QED
        BY <4>1, SendsNow
    <3> QED
      BY <3>1, <3>2
  <2> QED
    BY <2>1, <2>2, <2>3, <2>4 DEF AllSent, Kept, NothingCut
<1>15. ASSUME Opened
      PROVE  AllSent'
  <2>1. ctl' = [ctl EXCEPT !.pc = "reset"]
    BY <1>15 DEF Opened, stream, ingest, listen, decoded, world, ghosts
  <2>2. ctl'.pc = "reset"
    BY <2>1 DEF VoiceType, Threads, Controlling
  <2> QED
    BY <2>2 DEF AllSent, Kept, NothingCut, Settled
<1>16. CASE UNCHANGED <<early, crossed, outlived, ctl, closed, heard, pressed,
                        gaveup, tx_stream>>
  BY <1>16 DEF AllSent, Kept, Sends, NothingCut, Settled
<1>17. ASSUME Receive
      PROVE  UNCHANGED <<early, crossed, outlived, ctl, closed, heard, pressed,
                         gaveup, tx_stream>>
  BY <1>17 DEF Receive, stream, ingest, listen, decoded, world,
               ghosts
<1>18. ASSUME Fade
      PROVE  UNCHANGED <<early, crossed, outlived, ctl, closed, heard, pressed,
                         gaveup, tx_stream>>
  BY <1>18 DEF Fade, stream, ingest, listen, decoded, world,
               ghosts
<1>19. ASSUME NEW e \in Encoders, EncExit(e)
      PROVE  UNCHANGED <<early, crossed, outlived, ctl, closed, heard, pressed,
                         gaveup, tx_stream>>
  BY <1>19 DEF EncExit, stream, ingest, listen, decoded, world,
               ghosts
<1>20. ASSUME NEW e \in Encoders, FeedEnter(e)
      PROVE  UNCHANGED <<early, crossed, outlived, ctl, closed, heard, pressed,
                         gaveup, tx_stream>>
  BY <1>20 DEF FeedEnter, EncDone, stream, ingest, listen, decoded,
               world, ghosts
<1>21. ASSUME NEW e \in Encoders, FeedLeave(e)
      PROVE  UNCHANGED <<early, crossed, outlived, ctl, closed, heard, pressed,
                         gaveup, tx_stream>>
  BY <1>21 DEF FeedLeave, EncDone, stream, ingest, listen, decoded,
               world, ghosts
<1>22. ASSUME NEW d \in Decoders, DecLook(d)
      PROVE  UNCHANGED <<early, crossed, outlived, ctl, closed, heard, pressed,
                         gaveup, tx_stream>>
  BY <1>22 DEF DecLook, stream, ingest, listen, decoded, world,
               ghosts
<1>23. ASSUME NEW d \in Decoders, DecCommit(d)
      PROVE  UNCHANGED <<early, crossed, outlived, ctl, closed, heard, pressed,
                         gaveup, tx_stream>>
  BY <1>23 DEF DecCommit, stream, ingest, listen, decoded, world,
               ghosts
<1>24. ASSUME NEW d \in Decoders, DecExit(d)
      PROVE  UNCHANGED <<early, crossed, outlived, ctl, closed, heard, pressed,
                         gaveup, tx_stream>>
  BY <1>24 DEF DecExit, stream, ingest, listen, decoded, world,
               ghosts
<1>25. ASSUME NEW s \in Stops, StopDrained(s)
      PROVE  UNCHANGED <<early, crossed, outlived, ctl, closed, heard, pressed,
                         gaveup, tx_stream>>
  BY <1>25 DEF StopDrained, stream, ingest, listen, decoded, world,
               ghosts
<1>26. ASSUME NEW s \in Stops, StopRaises(s)
      PROVE  UNCHANGED <<early, crossed, outlived, ctl, closed, heard, pressed,
                         gaveup, tx_stream>>
  BY <1>26 DEF StopRaises, Answer, stream, ingest, listen, decoded,
               world, ghosts
<1>27. ASSUME NEW s \in Stops, StopWaited(s)
      PROVE  UNCHANGED <<early, crossed, outlived, ctl, closed, heard, pressed,
                         gaveup, tx_stream>>
  BY <1>27 DEF StopWaited, Answer, stream, ingest, listen, decoded,
               world, ghosts
<1>28. ASSUME NEW s \in Stops, StopSnapshot(s)
      PROVE  UNCHANGED <<early, crossed, outlived, ctl, closed, heard, pressed,
                         gaveup, tx_stream>>
  BY <1>28 DEF StopSnapshot, stream, ingest, listen, decoded,
               world, ghosts
<1>29. ASSUME NEW s \in Stops, StopWrite(s)
      PROVE  UNCHANGED <<early, crossed, outlived, ctl, closed, heard, pressed,
                         gaveup, tx_stream>>
  BY <1>29 DEF StopWrite, Answer, stream, ingest, listen, decoded,
               world, ghosts
<1> QED
  BY <1>1, <1>2, <1>3, <1>4, <1>5, <1>6, <1>7, <1>8, <1>9, <1>10, <1>11, <1>12,
     <1>13, <1>14, <1>15, <1>16, <1>17, <1>18, <1>19, <1>20, <1>21, <1>22,
     <1>23, <1>24, <1>25, <1>26, <1>27, <1>28, <1>29 DEF Next, Encoding,
     Decoding, Stopping, Control
-----------------------------------------------------------------------------
(* The invariant of the voice server.                                      *)
VoiceInv == /\ VoiceType /\ Workers /\ Locks /\ Generations /\ Blank
            /\ StopTrue /\ OneTrue /\ SaidTrue /\ Strayed
            /\ Apart /\ Mine /\ AllSent

LEMMA VoiceStart ==
  ASSUME VoiceAssumption, Init
  PROVE  VoiceInv
<1>1. /\ gen = 1 /\ resets = 1 /\ k = 0 /\ dec_pos = 0 /\ posted = 0
      /\ closed = FALSE /\ bc_open = FALSE /\ tail_marker = FALSE
      /\ talking = FALSE /\ enc_busy = FALSE /\ boards = TRUE
      /\ onair = FALSE /\ gaveup = FALSE
      /\ early = FALSE /\ crossed = FALSE /\ outlived = FALSE
      /\ buf = <<>> /\ inq = <<>> /\ heard = <<>> /\ pressed = <<>>
      /\ pending = <<>> /\ tokcarry = <<>> /\ tx_stream = <<>> /\ air = <<>>
      /\ cmds = <<>> /\ rx_bytes = <<>> /\ pcm_out = <<>>
      /\ airlock = Nobody /\ ctl = [pc |-> "idle", talk |-> FALSE]
      /\ fin = [s \in Stops |-> IdleFin]
  BY DEF Init
<1> DEFINE e == CHOOSE x \in Encoders : TRUE
           d == CHOOSE x \in Decoders : TRUE
<1>2. enc = [x \in Encoders |-> IF x = e THEN IdleEnc
                                ELSE [IdleEnc EXCEPT !.pc = "off"]]
  BY DEF Init
<1>3. dec = [x \in Decoders |-> IF x = d THEN IdleDec
                                ELSE [IdleDec EXCEPT !.pc = "off"]]
  BY DEF Init
<1> HIDE DEF e, d
<1>4. /\ enc \in [Encoders -> Work]
      /\ \A x \in Encoders : enc[x].pc = IF x = e THEN "idle" ELSE "off"
  <2> DEFINE on == IdleEnc
             off == [IdleEnc EXCEPT !.pc = "off"]
  <2>1. on \in Work /\ off \in Work /\ on.pc = "idle" /\ off.pc = "off"
    <3>1. /\ on = [pc |-> "idle", batch |-> <<>>, g |-> 0]
          /\ off = [pc |-> "off", batch |-> <<>>, g |-> 0]
      BY DEF IdleEnc
    <3>2. <<>> \in Seq(Nat)
      OBVIOUS
    <3> HIDE DEF on, off
    <3> QED
      BY <3>1, <3>2 DEF Work
  <2>2. enc = [x \in Encoders |-> IF x = e THEN on ELSE off]
    BY <1>2
  <2> HIDE DEF on, off
  <2> QED
    BY <2>1, <2>2
<1>5. dec \in [Decoders -> Vocoding]
  <2> DEFINE on == IdleDec
             off == [IdleDec EXCEPT !.pc = "off"]
  <2>1. on \in Vocoding /\ off \in Vocoding
    <3>1. /\ on = [pc |-> "idle", avail |-> 0, g |-> 0, lo |-> 0, hi |-> 0,
                   y |-> <<>>, seen |-> 0]
          /\ off = [pc |-> "off", avail |-> 0, g |-> 0, lo |-> 0, hi |-> 0,
                    y |-> <<>>, seen |-> 0]
      BY DEF IdleDec
    <3>2. <<>> \in Seq(Int)
      OBVIOUS
    <3> HIDE DEF on, off
    <3> QED
      BY <3>1, <3>2 DEF Vocoding
  <2>2. dec = [x \in Decoders |-> IF x = d THEN on ELSE off]
    BY <1>3
  <2> HIDE DEF on, off
  <2> QED
    BY <2>1, <2>2
<1>6. /\ fin \in [Stops -> Finishing] /\ ctl \in Controlling
      /\ \A s \in Stops : fin[s].pc = "idle"
  <2>1. IdleFin \in Finishing /\ IdleFin.pc = "idle"
    BY DEF IdleFin, Finishing
  <2> QED
    BY <1>1, <2>1 DEF Controlling
<1>7. VoiceType
  <2>1. Counted /\ Flagged
    BY <1>1 DEF Counted, Flagged
  <2>2. /\ <<>> \in Seq(Nat) /\ <<>> \in Seq(Int) /\ <<>> \in Seq(OnTheAir)
        /\ <<>> \in Seq(CommandType)
    OBVIOUS
  <2>3. Queued /\ Streamed /\ Recorded
    BY <1>1, <2>2 DEF Queued, Streamed, Recorded
  <2>4. Threads
    BY <1>4, <1>5, <1>6 DEF Threads
  <2> QED
    BY <2>1, <2>3, <2>4 DEF VoiceType
<1>8. Workers
  BY <1>1, <1>4 DEF Workers
<1>9. Locks
  BY <1>1, <1>4, <1>6 DEF Locks, Locked, VoiceAssumption
<1>10. Generations
  BY <1>1, <1>4 DEF Generations
<1>11. StopTrue
  BY <1>1, <1>6 DEF StopTrue, Flushing
<1>12. OneTrue
  BY <1>1 DEF OneTrue, CommandsTrue, OneStream
<1>13. Encoded
  <2> DEFINE none == SubSeq(buf, 1, k)
  <2>1. none = <<>>
    BY <1>1
  <2> HIDE DEF none
  <2>2. Speech(none) = <<>>
    BY <2>1, SilentSpeech
  <2>3. tx_stream \o (tokcarry \o pending) = <<>>
    BY <1>1
  <2> QED
    BY <1>1, <2>2, <2>3 DEF Encoded, none
<1>14. SaidTrue
  <2>1. Spoken = <<>>
    BY <1>1 DEF Spoken
  <2>2. Begins(pressed, heard)
    BY <1>1 DEF Begins
  <2>3. Complete
    BY <1>1, <1>4, <2>1 DEF Complete, Takes
  <2>4. Awaited
    BY <1>6 DEF Awaited
  <2> QED
    BY <1>13, <2>2, <2>3, <2>4 DEF SaidTrue, Told
<1>15. AllSent
  BY <1>1 DEF AllSent, Kept, NothingCut
<1>16. Blank /\ Strayed
  BY <1>1 DEF Blank, Strayed
<1>17. Apart /\ Mine
  <2>1. \A q : q = <<>> => Len(q) = 0
    OBVIOUS
  <2>2. \A x : ~Holds(inq, x) /\ ~Holds(buf, x)
    BY <1>1, <2>1 DEF Holds
  <2>3. /\ Single(inq) /\ Single(buf) /\ Past(inq) /\ Past(buf)
        /\ Disjoint(inq, buf) /\ Known(inq) /\ Known(buf)
    BY <1>1, <2>1, <2>2 DEF Single, Past, Disjoint, Known
  <2>4. \A x \in Encoders : enc[x].pc # "taken"
    BY <1>4
  <2> QED
    BY <2>3, <2>4 DEF Apart, Mine, Takes
<1> QED
  BY <1>7, <1>8, <1>9, <1>10, <1>11, <1>12, <1>14, <1>15, <1>16, <1>17
     DEF VoiceInv

LEMMA VoiceIdles ==
  ASSUME VoiceInv, UNCHANGED vars
  PROVE  VoiceInv'
<1>1. UNCHANGED <<gen, resets, k, dec_pos, posted, closed, bc_open,
                  tail_marker, talking, enc_busy, boards, onair, early,
                  crossed, outlived, gaveup, buf, inq, heard, pressed, pending,
                  tokcarry, tx_stream, air, cmds, rx_bytes, pcm_out, airlock,
                  ctl, enc, dec, fin>>
  BY DEF vars, stream, ingest, listen, decoded, world, ghosts
<1>2. VoiceType'
  BY <1>1 DEF VoiceInv, VoiceType, Counted, Flagged, Queued, Streamed,
              Recorded, Threads
<1>3. Workers' /\ Locks' /\ Generations'
  BY <1>1 DEF VoiceInv, Workers, Locks, Generations, Takes
<1>4. (Flushing' <=> Flushing) /\ Spoken' = Spoken
  BY <1>1 DEF Flushing, Spoken
<1>5. StopTrue' /\ OneTrue'
  BY <1>1, <1>4 DEF VoiceInv, StopTrue, OneTrue, CommandsTrue, OneStream
<1>6. SaidTrue'
  BY <1>1, <1>4 DEF VoiceInv, SaidTrue, Told, Session, Encoded, Complete,
                    Awaited, Flushing, Takes
<1>7. AllSent'
  BY <1>1, SentStays DEF VoiceInv, Settled
<1>8. Blank' /\ Strayed'
  BY <1>1 DEF VoiceInv, Blank, Strayed, Takes
<1>9. Apart' /\ Mine'
  BY <1>1 DEF VoiceInv, Apart, Mine, Takes, Past, Known
<1> QED
  BY <1>2, <1>3, <1>5, <1>6, <1>7, <1>8, <1>9 DEF VoiceInv

LEMMA VoiceSteps ==
  ASSUME VoiceAssumption, Solo, VoiceInv, [Next]_(vars)
  PROVE  VoiceInv'
<1>1. ASSUME Next
      PROVE  VoiceInv'
  <2>1. /\ VoiceType /\ Workers /\ Locks /\ Generations /\ Blank
        /\ StopTrue /\ OneTrue /\ SaidTrue /\ Strayed
        /\ Apart /\ Mine /\ AllSent
    BY DEF VoiceInv
  <2>2. VoiceType'
    BY <1>1, <2>1, VoiceTyped
  <2>3. Workers'
    BY <1>1, <2>1, WorkersStep
  <2>4. Locks'
    BY <1>1, <2>1, LocksStep
  <2>5. Generations'
    BY <1>1, <2>1, GenerationsStep
  <2>6. StopTrue'
    BY <1>1, <2>1, StopStep
  <2>7. OneTrue'
    BY <1>1, <2>1, OneStep
  <2>8. SaidTrue'
    BY <1>1, <2>1, SaidStep
  <2>9. AllSent'
    BY <1>1, <2>1, AllSentStep
  <2>10. Blank'
    BY <1>1, <2>1, BlankStep
  <2>11. Strayed'
    BY <1>1, <2>1, StrayStep
  <2>12. Apart' /\ Mine'
    BY <1>1, <2>1, ApartStep
  <2> QED
    BY <2>2, <2>3, <2>4, <2>5, <2>6, <2>7, <2>8, <2>9, <2>10, <2>11, <2>12
       DEF VoiceInv
<1> QED
  BY <1>1, VoiceIdles

(* What the invariant says.                                                *)
LEMMA VoiceSays ==
  ASSUME VoiceAssumption, VoiceInv
  PROVE  StreamTrue /\ OneStream /\ NothingCut
<1>1. VoiceType /\ SaidTrue /\ Apart /\ Mine /\ AllSent
  BY DEF VoiceInv
<1>2. OneStream /\ NothingCut
  BY DEF VoiceInv, OneTrue, AllSent
<1>3. ASSUME ~early, Settled
      PROVE  Sends
  <2>1. CASE closed \/ ctl.pc = "open"
    BY <1>1, <1>3, <2>1 DEF AllSent, Kept
  <2>2. CASE ~closed /\ ctl.pc # "open"
    <3>1. Session
      BY <1>1, <1>3, <2>2 DEF Session, Settled, VoiceType, Threads,
                              Controlling
    <3>2. Encoded /\ (~outlived => Complete) /\ ctl.pc # "clear"
      BY <1>1, <1>3, <2>2, <3>1 DEF SaidTrue, Told, Session
    <3> QED
      BY <1>1, <3>2, SendsNow
  <2> QED
    BY <2>1, <2>2
<1> QED
  BY <1>2, <1>3 DEF StreamTrue, Sends, Said

(* What the board is handed is what was said, behind what a reset let      *)
(* through, in one broadcast, and STOP cuts nothing it had time for; but   *)
(* for what StreamTrue, OneStream and NothingCut except: a STOP between a  *)
(* reset and the talking it starts, and an encoder that outlived its join. *)
THEOREM SpeechKept ==
  ASSUME VoiceAssumption, Solo
  PROVE  Spec => [](StreamTrue /\ OneStream /\ NothingCut)
<1>1. Init => VoiceInv
  BY VoiceStart
<1>2. VoiceInv /\ [Next]_vars => VoiceInv'
  BY VoiceSteps
<1>3. VoiceInv => StreamTrue /\ OneStream /\ NothingCut
  BY VoiceSays
<1> QED
  BY <1>1, <1>2, <1>3, PTL DEF Spec

-----------------------------------------------------------------------------
(* What is recorded.  A decoder's step is of this session, and of tokens   *)
(* that have arrived in it, as long as its generation is the current one;  *)
(* what a STOP took of the received bytes stays their beginning until it   *)
(* is written, since no reset runs while the STOP holds the airlock.       *)
Arrived == Decodable(rx_bytes)
Recording == [audio : Seq(Int), data : Seq(Int)]

Looking(d) ==
  dec[d].pc = "looked" =>
    /\ dec[d].seen <= resets
    /\ dec[d].seen = gen => dec[d].avail <= Len(Arrived)
Vocoded(d) ==
  dec[d].pc = "vocoded" =>
    /\ dec[d].g <= gen
    /\ dec[d].g = gen /\ ~crossed =>
         /\ ctl.pc # "clear"
         /\ dec[d].lo <= dec[d].hi /\ dec[d].hi <= Len(Arrived)
         /\ dec[d].y = SubSeq(Arrived, dec[d].lo + 1, dec[d].hi)
Snapped(s) ==
  /\ fin[s].pc \in {"snap", "write"} => Begins(fin[s].data, Arrived)
  /\ fin[s].pc = "write" /\ ~crossed =>
       /\ fin[s].done <= Len(fin[s].data)
       /\ fin[s].head = SubSeq(fin[s].data, 1, fin[s].done)
Heeded ==
  /\ files \in Seq(Recording)
  /\ ~crossed =>
       /\ AudioTrue
       /\ \A i \in 1..Len(files) : files[i].audio = files[i].data
       /\ ctl.pc = "clear" => dec_pos = 0 /\ pcm_out = <<>>
RecordInv ==
  /\ Heeded
  /\ \A d \in Decoders : Looking(d) /\ Vocoded(d)
  /\ \A s \in Stops : Snapped(s)

(* Steps that leave the recording alone.                                   *)
LEMMA RecordStays ==
  ASSUME RecordInv, UNCHANGED <<gen, resets, rx_bytes, dec_pos, pcm_out, dec,
                                files>>,
         crossed => crossed', ctl'.pc = "clear" => ctl.pc = "clear",
         \A s \in Stops : fin'[s].pc \in {"snap", "write"} => fin'[s] = fin[s]
  PROVE  RecordInv'
<1>1. Arrived' = Arrived /\ (AudioTrue => AudioTrue')
  BY DEF Arrived, AudioTrue
<1>2. Heeded'
  BY <1>1 DEF RecordInv, Heeded
<1>3. ASSUME NEW d \in Decoders PROVE (Looking(d) /\ Vocoded(d))'
  BY <1>1 DEF RecordInv, Looking, Vocoded
<1>4. ASSUME NEW s \in Stops PROVE Snapped(s)'
  BY <1>1 DEF RecordInv, Snapped
<1> QED
  BY <1>2, <1>3, <1>4 DEF RecordInv

LEMMA ArrivedTyped ==
  ASSUME VoiceType
  PROVE  Arrived \in Seq(Int) /\ Len(Arrived) \in Nat
  BY DecodableTyped DEF VoiceType, Recorded, Arrived

LEMMA SubIs ==
  ASSUME NEW s \in Seq(Int), NEW a \in Nat, NEW b \in Nat, a <= b, b <= Len(s)
  PROVE  /\ SubSeq(s, a + 1, b) \in Seq(Int)
         /\ Len(SubSeq(s, a + 1, b)) = b - a
         /\ \A i \in 1..b - a : SubSeq(s, a + 1, b)[i] = s[a + i]
<1> DEFINE l == b - a
           c == a + 1
<1>1. l \in Nat /\ c \in Nat \ {0} /\ b - c + 1 = l
      /\ \A i \in 1..l : c + i - 1 = a + i /\ a + i \in 1..Len(s)
      /\ c <= b + 1
  OBVIOUS
<1> HIDE DEF l, c
<1>2. /\ SubSeq(s, c, b) \in Seq(Int)
      /\ Len(SubSeq(s, c, b)) = l
      /\ \A i \in 1..l : SubSeq(s, c, b)[i] = s[c + i - 1]
  BY <1>1
<1> QED
  BY <1>1, <1>2 DEF l, c

LEMMA BeginsSub ==
  ASSUME NEW s \in Seq(Int), NEW t \in Seq(Int), Begins(s, t),
         NEW a \in Nat, NEW b \in Nat, a <= b, b <= Len(s)
  PROVE  SubSeq(s, a + 1, b) = SubSeq(t, a + 1, b)
<1>1. Len(s) \in Nat /\ Len(t) \in Nat /\ b <= Len(t)
      /\ \A i \in 1..Len(s) : s[i] = t[i]
  BY DEF Begins
<1>2. \A i \in 1..b - a : a + i \in 1..Len(s)
  BY <1>1
<1> DEFINE p == SubSeq(s, a + 1, b)
           q == SubSeq(t, a + 1, b)
<1>3. /\ p \in Seq(Int) /\ Len(p) = b - a
      /\ \A i \in 1..b - a : p[i] = s[a + i]
  BY SubIs
<1>4. /\ q \in Seq(Int) /\ Len(q) = b - a
      /\ \A i \in 1..b - a : q[i] = t[a + i]
  BY <1>1, SubIs
<1> HIDE DEF p, q
<1>5. Len(p) = Len(q) /\ \A i \in 1..Len(p) : p[i] = q[i]
  BY <1>1, <1>2, <1>3, <1>4
<1> QED
  BY <1>3, <1>4, <1>5, SeqEqual DEF p, q

LEMMA SubJoins ==
  ASSUME NEW s \in Seq(Int), NEW a \in Nat, NEW b \in Nat, a <= b, b <= Len(s)
  PROVE  SubSeq(s, 1, a) \o SubSeq(s, a + 1, b) = SubSeq(s, 1, b)
<1> DEFINE p == SubSeq(s, 1, a)
           q == SubSeq(s, a + 1, b)
           u == SubSeq(s, 1, b)
<1>1. Len(s) \in Nat /\ a \in 0..Len(s) /\ b \in 0..Len(s)
  OBVIOUS
<1>2. p \in Seq(Int) /\ Len(p) = a /\ \A i \in 1..a : p[i] = s[i]
  BY <1>1, BeginsCut
<1>3. u \in Seq(Int) /\ Len(u) = b /\ \A i \in 1..b : u[i] = s[i]
  BY <1>1, BeginsCut
<1>4. /\ q \in Seq(Int) /\ Len(q) = b - a
      /\ \A i \in 1..b - a : q[i] = s[a + i]
  BY SubIs
<1> HIDE DEF p, q, u
<1>5. b = a + (b - a) /\ \A i \in 1..a : i \in 1..b
  OBVIOUS
<1>6. Len(u) = Len(p) + Len(q) /\ \A i \in 1..Len(p) : u[i] = p[i]
  <2>1. Len(u) = Len(p) + Len(q)
    BY <1>2, <1>3, <1>4, <1>5
  <2>2. \A i \in 1..Len(p) : u[i] = p[i]
    BY <1>2, <1>3, <1>5
  <2> QED
    BY <2>1, <2>2
<1>7. \A i \in 1..Len(q) : u[Len(p) + i] = q[i]
  <2> SUFFICES ASSUME NEW i \in 1..b - a PROVE u[a + i] = q[i]
    BY <1>2, <1>4
  <2>1. a + i \in 1..b
    OBVIOUS
  <2> QED
    BY <1>3, <1>4, <2>1
<1>8. u = p \o q
  BY <1>2, <1>3, <1>4, <1>6, <1>7, Pieced
<1> QED
  BY <1>8 DEF p, q, u

(* More bytes arrive.                                                      *)
LEMMA RecordGrows ==
  ASSUME VoiceType, VoiceType', RecordInv, Begins(rx_bytes, rx_bytes'),
         UNCHANGED <<gen, resets, dec_pos, pcm_out, dec, files, early, crossed,
                     outlived, ctl, fin>>
  PROVE  RecordInv'
<1> DEFINE b == rx_bytes
           c == rx_bytes'
<1>1. b \in Seq(Int) /\ c \in Seq(Int) /\ Begins(b, c)
  BY DEF VoiceType, Recorded
<1> HIDE DEF b, c
<1>2. /\ Decodable(b) \in Seq(Int) /\ Decodable(c) \in Seq(Int)
      /\ Begins(Decodable(b), Decodable(c))
  BY <1>1, DecodableGrows
<1> DEFINE s == Arrived
           t == Arrived'
<1>3. s \in Seq(Int) /\ t \in Seq(Int) /\ Begins(s, t)
  BY <1>2 DEF Arrived, b, c
<1>4. Len(s) \in Nat /\ Len(t) \in Nat /\ Len(s) <= Len(t)
  BY <1>3 DEF Begins
<1> HIDE DEF s, t
<1>5. ~crossed => AudioTrue'
  <2> SUFFICES ASSUME ~crossed PROVE AudioTrue'
    OBVIOUS
  <2> DEFINE n == dec_pos
  <2>1. n <= Len(s) /\ pcm_out = SubSeq(s, 1, n) /\ n \in Nat
    BY DEF RecordInv, Heeded, AudioTrue, VoiceType, Counted, Arrived, s
  <2> HIDE DEF n
  <2>2. SubSeq(s, 1, n) = SubSeq(t, 1, n)
    BY <1>3, <1>4, <2>1, n \in 0..Len(s), SameCut
  <2>3. n <= Len(t) /\ pcm_out = SubSeq(t, 1, n)
    BY <1>4, <2>1, <2>2
  <2> QED
    BY <2>3 DEF AudioTrue, Arrived, t, n
<1>6. Heeded'
  BY <1>5 DEF RecordInv, Heeded
<1>7. ASSUME NEW d \in Decoders PROVE (Looking(d) /\ Vocoded(d))'
  <2> DEFINE v == dec[d]
             lo == v.lo
             hi == v.hi
  <2>1. v.avail \in Nat /\ lo \in Nat /\ hi \in Nat
    BY DEF VoiceType, Threads, Vocoding
  <2>2. Looking(d)'
    BY <1>4, <2>1 DEF RecordInv, Looking, s, t
  <2>3. v.pc = "vocoded" => v.g <= gen
    BY DEF RecordInv, Vocoded
  <2>4. ASSUME v.pc = "vocoded", v.g = gen, ~crossed
        PROVE  /\ ctl.pc # "clear" /\ lo <= hi /\ hi <= Len(t)
               /\ v.y = SubSeq(t, lo + 1, hi)
    <3>1. ctl.pc # "clear" /\ lo <= hi /\ hi <= Len(s)
          /\ v.y = SubSeq(s, lo + 1, hi)
      BY <2>4 DEF RecordInv, Vocoded, s
    <3> HIDE DEF v, lo, hi
    <3>2. SubSeq(s, lo + 1, hi) = SubSeq(t, lo + 1, hi)
      BY <1>3, <2>1, <3>1, BeginsSub
    <3> QED
      BY <1>4, <2>1, <3>1, <3>2
  <2>5. Vocoded(d)'
    BY <2>3, <2>4 DEF Vocoded, t
  <2> QED
    BY <2>2, <2>5
<1>8. ASSUME NEW x \in Stops PROVE Snapped(x)'
  <2> DEFINE w == fin[x].data
  <2>1. w \in Seq(Int)
    BY DEF VoiceType, Threads, Finishing
  <2>2. Begins(w, s) => Begins(w, t)
    BY <1>3, <2>1, BeginsTrans
  <2> QED
    BY <2>2 DEF RecordInv, Snapped, s, t
<1> QED
  BY <1>6, <1>7, <1>8 DEF RecordInv

(* A decoder's step in front of the commit, or away.                       *)
LEMMA DecoderMoves ==
  ASSUME RecordInv, NEW d \in Decoders,
         UNCHANGED <<gen, resets, rx_bytes, dec_pos, pcm_out, files, fin>>,
         crossed => crossed', ctl'.pc = "clear" => ctl.pc = "clear",
         \A x \in Decoders \ {d} : dec'[x] = dec[x],
         Looking(d)' /\ Vocoded(d)'
  PROVE  RecordInv'
<1>1. Arrived' = Arrived /\ (AudioTrue => AudioTrue')
  BY DEF Arrived, AudioTrue
<1>2. Heeded'
  BY <1>1 DEF RecordInv, Heeded
<1>3. ASSUME NEW x \in Decoders PROVE (Looking(x) /\ Vocoded(x))'
  <2>1. CASE x = d
    BY <2>1
  <2>2. CASE x # d
    BY <1>1, <2>2 DEF RecordInv, Looking, Vocoded
  <2> QED
    BY <2>1, <2>2
<1>4. ASSUME NEW s \in Stops PROVE Snapped(s)'
  BY <1>1 DEF RecordInv, Snapped
<1> QED
  BY <1>2, <1>3, <1>4 DEF RecordInv

LEMMA WholeSteps ==
  ASSUME NEW c \in Nat \ {0}, NEW a \in Int, (a \div c) * c > 0
  PROVE  (a \div c) * c <= a
<1>1. CASE a \in Nat
  <2>1. a = c * (a \div c) + (a % c) /\ a \div c \in Nat
    BY <1>1, Division
  <2>2. a % c \in 0..c - 1
    BY <1>1, ModRange
  <2> DEFINE q == a \div c
             r == a % c
  <2> HIDE DEF q, r
  <2>3. q * c = c * q /\ c * q \in Nat
    BY <2>1, SMTT(30) DEF q
  <2> DEFINE p == c * q
  <2> HIDE DEF p
  <2>4. a = p + r /\ r >= 0 /\ p \in Nat /\ r \in Int
    BY <2>1, <2>2, <2>3 DEF p, q, r
  <2>5. p <= a
    BY <2>4
  <2> QED
    BY <2>3, <2>5 DEF p, q
<1>2. CASE ~(a \in Nat)
  <2>1. a < 0
    BY <1>2
  <2>2. a \div c \in Int /\ a \div c < 0
    BY <2>1, SMTT(30)
  <2> DEFINE q == a \div c
  <2> HIDE DEF q
  <2>3. q * c <= 0
    BY <2>2, SMTT(30) DEF q
  <2> QED
    BY <2>3 DEF q
<1> QED
  BY <1>1, <1>2

LEMMA LookRecord ==
  ASSUME VoiceType, RecordInv, NEW d \in Decoders, DecLook(d)
  PROVE  RecordInv'
<1>1. /\ UNCHANGED <<gen, resets, rx_bytes, dec_pos, pcm_out, files, fin, ctl,
                     early, crossed, outlived>>
      /\ dec' = [dec EXCEPT ![d].pc = "looked", ![d].avail = Len(Arrived),
                            ![d].seen = resets]
  BY DEF DecLook, stream, ingest, listen, decoded, world, ghosts, Arrived
<1>2. /\ \A x \in Decoders \ {d} : dec'[x] = dec[x]
      /\ dec'[d].pc = "looked" /\ dec'[d].avail = Len(Arrived)
      /\ dec'[d].seen = resets
  BY <1>1 DEF VoiceType, Threads, Vocoding
<1>3. Arrived' = Arrived
  BY <1>1 DEF Arrived
<1>4. Looking(d)' /\ Vocoded(d)'
  BY <1>1, <1>2, <1>3, ArrivedTyped
  DEF Looking, Vocoded, VoiceType, Counted
<1> QED
  BY <1>1, <1>2, <1>4, DecoderMoves

LEMMA VocodeRecord ==
  ASSUME VoiceAssumption, VoiceType, Generations, RecordInv,
         NEW d \in Decoders, DecVocode(d)
  PROVE  RecordInv'
<1> DEFINE v == dec[d]
           lo == dec_pos
           usable == v.avail - Ahead
           more == ((usable - lo) \div TokenChunk) * TokenChunk
           hi == lo + more
           n == Len(Arrived)
           clamped == IF hi < n THEN hi ELSE n
           w == [pc |-> "vocoded", avail |-> 0, g |-> gen, lo |-> lo,
                 hi |-> hi, y |-> SubSeq(Arrived, lo + 1, clamped),
                 seen |-> 0]
<1>1. /\ UNCHANGED <<gen, resets, rx_bytes, dec_pos, pcm_out, files, fin, ctl>>
      /\ v.pc = "looked"
      /\ \/ dec' = [dec EXCEPT ![d] = IdleDec] /\ UNCHANGED crossed
         \/ /\ ~ clamped <= lo /\ dec' = [dec EXCEPT ![d] = w]
            /\ crossed' = (crossed \/ v.seen # gen)
  BY DEF DecVocode, stream, ingest, listen, decoded, world, ghosts, Arrived
<1>2. Arrived' = Arrived
  BY <1>1 DEF Arrived
<1>3. v.avail \in Nat /\ lo \in Nat /\ n \in Nat /\ v.seen \in Nat
      /\ Ahead \in Nat /\ TokenChunk \in Nat \ {0}
      /\ gen \in Nat /\ resets \in Nat
  BY ArrivedTyped DEF VoiceType, Threads, Vocoding, Counted, VoiceAssumption
<1>4. usable \in Int /\ usable <= v.avail /\ usable - lo \in Int
  BY <1>3
<1>5. more \in Int
  <2> DEFINE q == (usable - lo) \div TokenChunk
  <2>1. q \in Int
    BY <1>3, <1>4
  <2> HIDE DEF q
  <2>2. q * TokenChunk \in Int
    BY <1>3, <2>1, SMTT(30)
  <2> QED
    BY <2>2 DEF q
<1>6. more > 0 => more <= usable - lo
  <2> DEFINE a == usable - lo
  <2>1. a \in Int
    BY <1>4
  <2> HIDE DEF a
  <2>2. (a \div TokenChunk) * TokenChunk > 0 =>
          (a \div TokenChunk) * TokenChunk <= a
    BY <1>3, <2>1, WholeSteps
  <2> QED
    BY <2>2 DEF a
<1> HIDE DEF more, usable
<1>7. ~ clamped <= lo => more > 0 /\ hi <= v.avail /\ lo <= hi
  BY <1>3, <1>4, <1>5, <1>6
<1>8. CASE dec' = [dec EXCEPT ![d] = IdleDec] /\ UNCHANGED crossed
  <2>1. /\ \A x \in Decoders \ {d} : dec'[x] = dec[x]
        /\ dec'[d].pc = "idle"
    BY <1>8 DEF VoiceType, Threads, IdleDec
  <2>2. Looking(d)' /\ Vocoded(d)'
    BY <2>1 DEF Looking, Vocoded
  <2> HIDE DEF clamped, w, v
  <2> QED
    BY <1>1, <1>8, <2>1, <2>2, DecoderMoves
<1>9. CASE /\ ~ clamped <= lo /\ dec' = [dec EXCEPT ![d] = w]
           /\ crossed' = (crossed \/ v.seen # gen)
  <2>1. \A x \in Decoders \ {d} : dec'[x] = dec[x]
    BY <1>9 DEF VoiceType, Threads
  <2>2. dec'[d] = w
    BY <1>9 DEF VoiceType, Threads
  <2> DEFINE y == SubSeq(Arrived, lo + 1, clamped)
  <2>8. w = [pc |-> "vocoded", avail |-> 0, g |-> gen, lo |-> lo,
             hi |-> hi, y |-> y, seen |-> 0]
    OBVIOUS
  <2> HIDE DEF clamped, hi, y, w
  <2>3. /\ dec'[d].pc = "vocoded" /\ dec'[d].g = gen /\ dec'[d].lo = lo
        /\ dec'[d].hi = hi /\ dec'[d].y = SubSeq(Arrived, lo + 1, clamped)
    <3> DEFINE h == dec'[d]
    <3>1. h = [pc |-> "vocoded", avail |-> 0, g |-> gen, lo |-> lo,
               hi |-> hi, y |-> y, seen |-> 0]
      BY <2>2, <2>8
    <3> HIDE DEF h
    <3>2. /\ h.pc = "vocoded" /\ h.g = gen /\ h.lo = lo /\ h.hi = hi
          /\ h.y = y
      BY <3>1
    <3> QED
      BY <3>2 DEF h, y
  <2>4. crossed' \/ (/\ ctl.pc # "clear" /\ lo <= hi /\ hi <= n
                     /\ clamped = hi)
    <3> USE DEF clamped, hi
    <3> SUFFICES ASSUME ~crossed'
                 PROVE  ctl.pc # "clear" /\ lo <= hi /\ hi <= n /\ clamped = hi
      OBVIOUS
    <3>1. v.seen = gen
      BY <1>9
    <3>2. v.seen <= resets /\ v.avail <= n
      BY <1>1, <3>1 DEF RecordInv, Looking
    <3>3. resets = gen
      BY <1>3, <3>1, <3>2 DEF Generations
    <3>4. ctl.pc # "clear"
      BY <3>3 DEF Generations
    <3> QED
      BY <1>3, <1>5, <1>7, <1>9, <3>2, <3>4
  <2> HIDE DEF clamped, w, v, hi
  <2>5. Looking(d)'
    BY <2>3 DEF Looking
  <2>6. Vocoded(d)'
    <3>1. gen' = gen /\ ctl' = ctl
      BY <1>1
    <3>2. dec'[d].g <= gen'
      BY <1>3, <2>3, <3>1
    <3>3. ~crossed' =>
            /\ ctl'.pc # "clear"
            /\ dec'[d].lo <= dec'[d].hi /\ dec'[d].hi <= Len(Arrived')
            /\ dec'[d].y = SubSeq(Arrived', dec'[d].lo + 1, dec'[d].hi)
      BY <1>2, <2>3, <2>4, <3>1
    <3> QED
      BY <3>2, <3>3 DEF Vocoded
  <2>7. crossed => crossed'
    BY <1>9
  <2> QED
    BY <1>1, <2>1, <2>5, <2>6, <2>7, DecoderMoves
<1> QED
  BY <1>1, <1>8, <1>9

LEMMA CommitRecord ==
  ASSUME VoiceType, RecordInv, NEW d \in Decoders, DecCommit(d)
  PROVE  RecordInv'
<1> DEFINE v == dec[d]
<1>1. /\ UNCHANGED <<gen, resets, rx_bytes, files, fin, ctl, early, crossed,
                     outlived>>
      /\ dec' = [dec EXCEPT ![d] = IdleDec] /\ v.pc = "vocoded"
      /\ \/ UNCHANGED <<dec_pos, pcm_out>>
         \/ /\ v.g = gen /\ dec_pos = v.lo
            /\ pcm_out' = pcm_out \o v.y /\ dec_pos' = v.hi
  BY DEF DecCommit, stream, ingest, listen, decoded, world, ghosts
<1>2. /\ \A x \in Decoders \ {d} : dec'[x] = dec[x]
      /\ dec'[d].pc = "idle"
  BY <1>1 DEF VoiceType, Threads, IdleDec
<1>3. Looking(d)' /\ Vocoded(d)'
  BY <1>2 DEF Looking, Vocoded
<1>4. CASE UNCHANGED <<dec_pos, pcm_out>>
  <2> HIDE DEF v
  <2> QED
    BY <1>1, <1>2, <1>3, <1>4, DecoderMoves
<1>5. CASE /\ v.g = gen /\ dec_pos = v.lo
           /\ pcm_out' = pcm_out \o v.y /\ dec_pos' = v.hi
  <2>1. Arrived' = Arrived
    BY <1>1 DEF Arrived
  <2>2. ~crossed => AudioTrue' /\ ctl.pc # "clear"
    <3> SUFFICES ASSUME ~crossed PROVE AudioTrue' /\ ctl.pc # "clear"
      OBVIOUS
    <3> DEFINE lo == v.lo
               hi == v.hi
               s == Arrived
    <3>1. /\ ctl.pc # "clear" /\ lo <= hi /\ hi <= Len(s)
          /\ v.y = SubSeq(s, lo + 1, hi)
      BY <1>1, <1>5 DEF RecordInv, Vocoded
    <3>2. pcm_out = SubSeq(s, 1, lo)
      BY <1>5 DEF RecordInv, Heeded, AudioTrue, Arrived
    <3>3. lo \in Nat /\ hi \in Nat /\ s \in Seq(Int)
      BY ArrivedTyped DEF VoiceType, Threads, Vocoding
    <3>4. dec_pos' = hi /\ pcm_out' = SubSeq(s, 1, lo) \o SubSeq(s, lo + 1, hi)
      BY <1>5, <3>1, <3>2
    <3> HIDE DEF lo, hi, s, v
    <3>5. pcm_out' = SubSeq(s, 1, hi)
      BY <3>1, <3>3, <3>4, SubJoins
    <3> QED
      BY <2>1, <3>1, <3>4, <3>5 DEF AudioTrue, Arrived, s
  <2>3. Heeded'
    BY <1>1, <2>2 DEF RecordInv, Heeded
  <2>4. ASSUME NEW x \in Decoders PROVE (Looking(x) /\ Vocoded(x))'
    <3>1. CASE x = d
      BY <1>3, <3>1
    <3>2. CASE x # d
      BY <1>1, <1>2, <2>1, <3>2 DEF RecordInv, Looking, Vocoded
    <3> QED
      BY <3>1, <3>2
  <2>5. ASSUME NEW s \in Stops PROVE Snapped(s)'
    BY <1>1, <2>1 DEF RecordInv, Snapped
  <2> QED
    BY <2>3, <2>4, <2>5 DEF RecordInv
<1> QED
  BY <1>1, <1>4, <1>5

LEMMA ExitRecord ==
  ASSUME VoiceType, RecordInv, NEW d \in Decoders, DecExit(d)
  PROVE  RecordInv'
<1>1. /\ UNCHANGED <<gen, resets, rx_bytes, dec_pos, pcm_out, files, fin, ctl,
                     early, crossed, outlived>>
      /\ dec' = [dec EXCEPT ![d].pc = "off"]
  BY DEF DecExit, stream, ingest, listen, decoded, world, ghosts
<1>2. /\ \A x \in Decoders \ {d} : dec'[x] = dec[x]
      /\ dec'[d].pc = "off"
  BY <1>1 DEF VoiceType, Threads, Vocoding
<1>3. Looking(d)' /\ Vocoded(d)'
  BY <1>2 DEF Looking, Vocoded
<1> QED
  BY <1>1, <1>2, <1>3, DecoderMoves

(* The steps of a STOP.                                                    *)
LEMMA WaitedRecord ==
  ASSUME VoiceType, RecordInv, NEW s \in Stops, StopWaited(s)
  PROVE  RecordInv'
<1> DEFINE x == IF tail_marker THEN Front(rx_bytes) ELSE rx_bytes
           w == fin[s]
<1>1. UNCHANGED <<gen, resets, rx_bytes, dec_pos, pcm_out, dec, files, early,
                  crossed, outlived, ctl>>
  BY DEF StopWaited, stream, ingest, listen, decoded, world, ghosts
<1>2. CASE rx_bytes = <<>>
  <2>1. fin' = [fin EXCEPT ![s] = IdleFin]
    BY <1>2 DEF StopWaited, Answer
  <2>2. \A z \in Stops : fin'[z].pc \in {"snap", "write"} => fin'[z] = fin[z]
    BY <2>1 DEF VoiceType, Threads, IdleFin
  <2> HIDE DEF x, w
  <2> QED
    BY <1>1, <2>2, RecordStays
<1>3. CASE rx_bytes # <<>>
  <2>1. fin' = [fin EXCEPT ![s].pc = "snap", ![s].data = Decodable(x)]
    BY <1>3 DEF StopWaited
  <2>2. x \in Seq(Int) /\ Begins(x, rx_bytes)
    <3> DEFINE r == rx_bytes
               n == Len(r) - 1
    <3>1. r \in Seq(Int) /\ Len(r) \in Nat /\ n \in 0..Len(r)
      BY <1>3 DEF VoiceType, Recorded
    <3>2. Front(r) = SubSeq(r, 1, n)
      BY DEF Front
    <3> HIDE DEF r, n
    <3>3. Begins(r, r)
      BY DEF Begins
    <3>4. Front(r) \in Seq(Int) /\ Begins(Front(r), r)
      BY <3>1, <3>2, BeginsCut
    <3> QED
      BY <3>1, <3>3, <3>4 DEF r
  <2>3. Begins(Decodable(x), Arrived)
    <3>1. rx_bytes \in Seq(Int)
      BY DEF VoiceType, Recorded
    <3> HIDE DEF x
    <3> QED
      BY <2>2, <3>1, DecodableGrows DEF Arrived
  <2> HIDE DEF x
  <2> DEFINE y == Decodable(x)
  <2> HIDE DEF y
  <2>4. /\ \A z \in Stops \ {s} : fin'[z] = fin[z]
        /\ fin'[s].pc = "snap" /\ fin'[s].data = y
    BY <2>1 DEF VoiceType, Threads, Finishing, y
  <2>5. Arrived' = Arrived /\ (AudioTrue => AudioTrue')
    BY <1>1 DEF Arrived, AudioTrue
  <2>6. Heeded'
    BY <1>1, <2>5 DEF RecordInv, Heeded
  <2>7. ASSUME NEW d \in Decoders PROVE (Looking(d) /\ Vocoded(d))'
    BY <1>1, <2>5 DEF RecordInv, Looking, Vocoded
  <2>8. ASSUME NEW z \in Stops PROVE Snapped(z)'
    <3>1. CASE z = s
      BY <2>3, <2>4, <2>5, <3>1 DEF Snapped, y
    <3>2. CASE z # s
      BY <1>1, <2>4, <2>5, <3>2 DEF RecordInv, Snapped
    <3> QED
      BY <3>1, <3>2
  <2> QED
    BY <2>6, <2>7, <2>8 DEF RecordInv
<1> QED
  BY <1>2, <1>3

LEMMA SnapshotRecord ==
  ASSUME VoiceType, RecordInv, NEW s \in Stops, StopSnapshot(s)
  PROVE  RecordInv'
<1> DEFINE data == fin[s].data
           n == Len(data)
           done == IF dec_pos < n THEN dec_pos ELSE n
           upto == IF done < Len(pcm_out) THEN done ELSE Len(pcm_out)
<1>1. /\ UNCHANGED <<gen, resets, rx_bytes, dec_pos, pcm_out, dec, files,
                     early, crossed, outlived, ctl>>
      /\ fin[s].pc = "snap"
      /\ fin' = [fin EXCEPT ![s].pc = "write", ![s].done = done,
                            ![s].head = SubSeq(pcm_out, 1, upto)]
  BY DEF StopSnapshot, stream, ingest, listen, decoded, world, ghosts
<1>2. data \in Seq(Int) /\ n \in Nat /\ dec_pos \in Nat
      /\ pcm_out \in Seq(Int) /\ Len(pcm_out) \in Nat
  BY DEF VoiceType, Threads, Finishing, Counted, Recorded
<1>3. Begins(data, Arrived)
  BY <1>1 DEF RecordInv, Snapped
<1>4. /\ \A z \in Stops \ {s} : fin'[z] = fin[z]
      /\ fin'[s].pc = "write" /\ fin'[s].data = data /\ fin'[s].done = done
      /\ fin'[s].head = SubSeq(pcm_out, 1, upto)
  <2> DEFINE h == SubSeq(pcm_out, 1, upto)
  <2> HIDE DEF done, h
  <2> QED
    BY <1>1 DEF VoiceType, Threads, Finishing
<1>5. ~crossed => done <= n /\ SubSeq(pcm_out, 1, upto) = SubSeq(data, 1, done)
  <2> SUFFICES ASSUME ~crossed
               PROVE  done <= n /\ SubSeq(pcm_out, 1, upto) = SubSeq(data, 1, done)
    OBVIOUS
  <2> DEFINE a == Arrived
             p == pcm_out
             l == dec_pos
  <2>1. a \in Seq(Int) /\ l \in 0..Len(a) /\ p = SubSeq(a, 1, l)
    BY <1>2, ArrivedTyped DEF RecordInv, Heeded, AudioTrue, Arrived
  <2> HIDE DEF a
  <2>2. p \in Seq(Int) /\ Len(p) = l /\ Begins(p, a)
    BY <2>1, BeginsCut
  <2>3. done \in 0..n /\ upto = done /\ done \in 0..Len(p)
    BY <1>2, <2>2
  <2> HIDE DEF data, done, upto, p, n
  <2>4. SubSeq(a, 1, done) = SubSeq(p, 1, done)
    BY <2>1, <2>2, <2>3, SameCut
  <2>5. SubSeq(a, 1, done) = SubSeq(data, 1, done)
    BY <1>2, <1>3, <2>1, <2>3, SameCut DEF n, a
  <2> QED
    BY <2>3, <2>4, <2>5 DEF p
<1> HIDE DEF data, done, upto, n
<1>6. Arrived' = Arrived /\ (AudioTrue => AudioTrue')
  BY <1>1 DEF Arrived, AudioTrue
<1>7. Heeded'
  BY <1>1, <1>6 DEF RecordInv, Heeded
<1>8. ASSUME NEW d \in Decoders PROVE (Looking(d) /\ Vocoded(d))'
  BY <1>1, <1>6 DEF RecordInv, Looking, Vocoded
<1>9. ASSUME NEW z \in Stops PROVE Snapped(z)'
  <2>1. CASE z = s
    BY <1>1, <1>3, <1>4, <1>5, <1>6, <2>1 DEF Snapped, n
  <2>2. CASE z # s
    BY <1>1, <1>4, <1>6, <2>2 DEF RecordInv, Snapped
  <2> QED
    BY <2>1, <2>2
<1> QED
  BY <1>7, <1>8, <1>9 DEF RecordInv

LEMMA WriteRecord ==
  ASSUME VoiceType, RecordInv, NEW s \in Stops, StopWrite(s)
  PROVE  RecordInv'
<1> DEFINE data == fin[s].data
           done == fin[s].done
           head == fin[s].head
           n == Len(data)
           tail == SubSeq(Arrived, done + 1, n)
           r == [audio |-> head \o tail, data |-> data]
<1>1. /\ UNCHANGED <<gen, resets, rx_bytes, dec_pos, pcm_out, dec, early,
                     crossed, outlived, ctl>>
      /\ fin[s].pc = "write"
      /\ files' = Append(files, r)
      /\ fin' = [fin EXCEPT ![s] = IdleFin]
  BY DEF StopWrite, Answer, stream, ingest, listen, decoded, world, ghosts,
         Arrived
<1>2. data \in Seq(Int) /\ done \in Nat /\ head \in Seq(Int) /\ n \in Nat
      /\ Arrived \in Seq(Int)
  BY ArrivedTyped DEF VoiceType, Threads, Finishing
<1>3. Begins(data, Arrived)
  BY <1>1 DEF RecordInv, Snapped
<1>4. tail \in Seq(Int)
  <2> DEFINE a == Arrived
  <2>1. n <= Len(a) /\ Len(a) \in Nat
    BY <1>2, <1>3 DEF Begins
  <2> HIDE DEF a, n, done
  <2>2. SubSeq(a, done + 1, n) \in Seq(Int)
    <3>1. \A i \in done + 1..n : i \in 1..Len(a)
      BY <1>2, <2>1
    <3> QED
      BY <1>2, <2>1, <3>1 DEF a
  <2> QED
    BY <2>2 DEF a
<1>5. r \in Recording
  <2> HIDE DEF head, tail, data
  <2>1. head \o tail \in Seq(Int)
    BY <1>2, <1>4, Concatenated
  <2> QED
    BY <1>2, <2>1 DEF Recording
<1>6. ~crossed => head \o tail = data
  <2> SUFFICES ASSUME ~crossed PROVE head \o tail = data
    OBVIOUS
  <2>1. done <= n /\ head = SubSeq(data, 1, done)
    BY <1>1 DEF RecordInv, Snapped
  <2> DEFINE a == Arrived
  <2>5. /\ data \in Seq(Int) /\ a \in Seq(Int) /\ Begins(data, a)
        /\ done \in Nat /\ n \in Nat /\ done <= n /\ n <= Len(data)
    BY <1>2, <1>3, <2>1
  <2> HIDE DEF data, done, head, a, n
  <2>2. SubSeq(data, done + 1, n) = SubSeq(a, done + 1, n)
    BY <2>5, BeginsSub
  <2>3. SubSeq(data, 1, done) \o SubSeq(data, done + 1, n) = SubSeq(data, 1, n)
    BY <2>5, SubJoins
  <2>4. SubSeq(data, 1, n) = data
    <3> DEFINE u == SubSeq(data, 1, n)
    <3>3. n = Len(data) /\ n \in 0..Len(data)
      BY <2>5 DEF n
    <3>1. u \in Seq(Int) /\ Len(u) = n /\ \A i \in 1..n : u[i] = data[i]
      BY <2>5, <3>3, BeginsCut
    <3> HIDE DEF u
    <3>2. u = data
      BY <2>5, <3>1, <3>3, SeqEqual
    <3> QED
      BY <3>2 DEF u
  <2> QED
    BY <2>1, <2>2, <2>3, <2>4 DEF a
<1> DEFINE y == head \o tail
<1> HIDE DEF head, tail, done, data
<1>7. files \in Seq(Recording)
      /\ (~crossed => \A i \in 1..Len(files) : files[i].audio = files[i].data)
  BY DEF RecordInv, Heeded
<1>8. r.audio = y /\ r.data = data
  OBVIOUS
<1> HIDE DEF r, y
<1>9. files' \in Seq(Recording)
      /\ (~crossed => \A i \in 1..Len(files') : files'[i].audio = files'[i].data)
  <2>1. /\ files' \in Seq(Recording) /\ Len(files') = Len(files) + 1
        /\ \A i \in 1..Len(files) : files'[i] = files[i]
        /\ files'[Len(files) + 1] = r
    BY <1>1, <1>5, <1>7
  <2>2. ~crossed => r.audio = r.data
    BY <1>6, <1>8 DEF y
  <2>3. ASSUME ~crossed, NEW i \in 1..Len(files')
        PROVE  files'[i].audio = files'[i].data
    <3>1. Len(files) \in Nat
      BY <1>7
    <3>2. i \in 1..Len(files) \/ i = Len(files) + 1
      BY <2>1, <3>1
    <3> QED
      BY <1>7, <2>1, <2>2, <2>3, <3>2
  <2> QED
    BY <2>1, <2>3
<1>10. Arrived' = Arrived /\ (AudioTrue => AudioTrue')
  BY <1>1 DEF Arrived, AudioTrue
<1>11. Heeded'
  BY <1>1, <1>9, <1>10 DEF RecordInv, Heeded
<1>12. ASSUME NEW d \in Decoders PROVE (Looking(d) /\ Vocoded(d))'
  BY <1>1, <1>10 DEF RecordInv, Looking, Vocoded
<1>13. ASSUME NEW z \in Stops PROVE Snapped(z)'
  <2>1. fin'[z].pc \in {"snap", "write"} => fin'[z] = fin[z]
    BY <1>1 DEF VoiceType, Threads, IdleFin
  <2> QED
    BY <1>1, <1>10, <2>1 DEF RecordInv, Snapped
<1> QED
  BY <1>11, <1>12, <1>13 DEF RecordInv

(* The receive loop and the resets.                                        *)
LEMMA ReceiveRecord ==
  ASSUME VoiceType, VoiceType', RecordInv, Receive
  PROVE  RecordInv'
<1>1. /\ UNCHANGED <<gen, resets, dec_pos, pcm_out, dec, files, early, crossed,
                     outlived, ctl, fin>>
      /\ air # <<>>
      /\ rx_bytes' = rx_bytes \/ rx_bytes' = rx_bytes \o Head(air).raw
  BY DEF Receive, stream, ingest, listen, decoded, world, ghosts
<1>2. rx_bytes \in Seq(Int) /\ Head(air).raw \in Seq(Int)
  <2>1. air \in Seq(OnTheAir) /\ rx_bytes \in Seq(Int)
    BY DEF VoiceType, Streamed, Recorded
  <2>2. Head(air) \in OnTheAir
    BY <1>1, <2>1
  <2> QED
    BY <2>1, <2>2 DEF OnTheAir
<1>3. Begins(rx_bytes, rx_bytes')
  <2>1. CASE rx_bytes' = rx_bytes
    BY <1>2, <2>1 DEF Begins
  <2>2. CASE rx_bytes' = rx_bytes \o Head(air).raw
    BY <1>2, <2>2, BeginsConcat
  <2> QED
    BY <1>1, <2>1, <2>2
<1> QED
  BY <1>1, <1>3, RecordGrows

LEMMA NothingDecoded == Decodable(<<>>) = <<>>
<1> DEFINE b == <<>>
<1>1. b \in Seq(Int) /\ Len(b) = 0
  OBVIOUS
<1> HIDE DEF b
<1>2. PICK d \in [0..Len(b) -> Seq(Int)] :
        d[0] = <<>> /\ Decodable(b) = d[Len(b)]
  BY <1>1, DecodesBy
<1> QED
  BY <1>1, <1>2 DEF b

LEMMA BeginsRecord ==
  ASSUME VoiceAssumption, VoiceType, Locks, Generations, RecordInv, NEW talk \in BOOLEAN,
         ResetBegins(talk)
  PROVE  RecordInv'
<1>1. /\ UNCHANGED <<resets, rx_bytes, dec, fin>> /\ airlock = Nobody
      /\ gen' = gen + 1 /\ dec_pos' = 0 /\ pcm_out' = <<>> /\ files' = <<>>
  BY DEF ResetBegins, stream, ingest, listen, decoded, world, ghosts
<1>2. Arrived' = Arrived /\ Arrived \in Seq(Int) /\ Len(Arrived) \in Nat
  BY <1>1, ArrivedTyped DEF Arrived
<1>3. AudioTrue'
  <2>1. SubSeq(Arrived, 1, 0) = <<>> /\ 0 <= Len(Arrived)
    BY <1>2
  <2> QED
    BY <1>1, <1>2, <2>1 DEF AudioTrue, Arrived
<1>4. Heeded'
  <2>1. files' \in Seq(Recording) /\ Len(files') = 0
    BY <1>1
  <2>2. \A i \in 1..Len(files') : files'[i].audio = files'[i].data
    BY <2>1
  <2> QED
    BY <1>1, <1>3, <2>1, <2>2 DEF Heeded
<1>5. ASSUME NEW d \in Decoders PROVE (Looking(d) /\ Vocoded(d))'
  <2>1. /\ dec[d].seen \in Nat /\ dec[d].g \in Nat
        /\ gen \in Nat /\ resets \in Nat /\ resets <= gen
    BY DEF VoiceType, Threads, Vocoding, Counted, Generations
  <2>2. dec[d].pc = "looked" => dec[d].seen <= resets /\ dec[d].seen # gen + 1
    BY <2>1 DEF RecordInv, Looking
  <2>3. dec[d].pc = "vocoded" => dec[d].g <= gen + 1 /\ dec[d].g # gen + 1
    BY <2>1 DEF RecordInv, Vocoded
  <2> QED
    BY <1>1, <2>2, <2>3 DEF Looking, Vocoded
<1>6. ASSUME NEW s \in Stops PROVE Snapped(s)'
  <2>1. fin[s].pc \notin {"snap", "write"}
    BY <1>1 DEF Locks, Locked, VoiceAssumption
  <2> QED
    BY <1>1, <2>1 DEF Snapped
<1> QED
  BY <1>4, <1>5, <1>6 DEF RecordInv

LEMMA EndsRecord ==
  ASSUME VoiceAssumption, VoiceType, Locks, Generations, RecordInv, ResetEnds
  PROVE  RecordInv'
<1>1. /\ UNCHANGED <<gen, dec_pos, pcm_out, dec, files, crossed, fin>>
      /\ ctl.pc = "clear" /\ ctl' = [ctl EXCEPT !.pc =
                                       IF ctl.talk THEN "talk" ELSE "idle"]
      /\ rx_bytes' = <<>> /\ resets' = gen
  BY DEF ResetEnds, stream, ingest, listen, decoded, world, ghosts
<1>2. Arrived' = <<>>
  BY <1>1, NothingDecoded DEF Arrived
<1>3. Heeded'
  <2>1. /\ files' \in Seq(Recording)
        /\ ~crossed => \A i \in 1..Len(files') : files'[i].audio = files'[i].data
    BY <1>1 DEF RecordInv, Heeded
  <2>2. ctl'.pc # "clear"
    BY <1>1 DEF VoiceType, Threads, Controlling
  <2>3. ~crossed => dec_pos = 0 /\ pcm_out = <<>>
    BY <1>1 DEF RecordInv, Heeded
  <2>4. SubSeq(<<>>, 1, 0) = <<>> /\ 0 <= Len(<<>>)
    OBVIOUS
  <2>5. ~crossed => AudioTrue'
    BY <1>1, <1>2, <2>3, <2>4 DEF AudioTrue, Arrived
  <2> QED
    BY <1>1, <2>1, <2>2, <2>5 DEF Heeded
<1>4. ASSUME NEW d \in Decoders PROVE (Looking(d) /\ Vocoded(d))'
  <2>1. /\ dec[d].seen \in Nat /\ gen \in Nat /\ resets \in Nat
        /\ resets <= gen /\ resets # gen
    BY <1>1 DEF VoiceType, Threads, Vocoding, Counted, Generations
  <2>2. dec[d].pc = "looked" => dec[d].seen <= gen /\ dec[d].seen # gen
    BY <2>1 DEF RecordInv, Looking
  <2>3. dec[d].pc = "vocoded" => dec[d].g <= gen /\ (dec[d].g = gen => crossed)
    BY <1>1 DEF RecordInv, Vocoded
  <2> QED
    BY <1>1, <2>2, <2>3 DEF Looking, Vocoded
<1>5. ASSUME NEW s \in Stops PROVE Snapped(s)'
  <2>1. fin[s].pc \notin {"snap", "write"}
    BY <1>1 DEF Locks, Locked, VoiceAssumption
  <2> QED
    BY <1>1, <2>1 DEF Snapped
<1> QED
  BY <1>3, <1>4, <1>5 DEF RecordInv

LEMMA OpenedRecord ==
  ASSUME VoiceType, RecordInv, Opened
  PROVE  RecordInv'
<1>1. PICK d \in Decoders : dec' = [dec EXCEPT ![d] = IdleDec]
  BY OpenedStarts
<1>2. /\ UNCHANGED <<gen, resets, rx_bytes, dec_pos, pcm_out, files, fin,
                     crossed>>
      /\ ctl' = [ctl EXCEPT !.pc = "reset"]
  BY DEF Opened, stream, ingest, listen, decoded, world, ghosts
<1>3. /\ \A x \in Decoders \ {d} : dec'[x] = dec[x]
      /\ dec'[d].pc = "idle" /\ ctl'.pc # "clear"
  BY <1>1, <1>2 DEF VoiceType, Threads, IdleDec, Controlling
<1>4. Looking(d)' /\ Vocoded(d)'
  BY <1>3 DEF Looking, Vocoded
<1> QED
  BY <1>2, <1>3, <1>4, DecoderMoves

LEMMA RecordStep ==
  ASSUME VoiceAssumption, VoiceType, VoiceType', Locks, Generations, RecordInv,
         Next
  PROVE  RecordInv'
<1> DEFINE Still == /\ UNCHANGED <<gen, resets, rx_bytes, dec_pos, pcm_out, dec,
                                   files>>
                    /\ crossed => crossed'
                    /\ ctl'.pc = "clear" => ctl.pc = "clear"
                    /\ \A s \in Stops : fin'[s].pc \in {"snap", "write"} =>
                                          fin'[s] = fin[s]
<1>1. CASE Still
  BY <1>1, RecordStays
<1>2. ASSUME Ingest
      PROVE  Still
  BY <1>2 DEF Ingest, stream, ingest, listen, decoded, world, ghosts
<1>3. ASSUME NEW e \in Encoders, EncTake(e) \/ EncExit(e) \/ FeedEnter(e)
      PROVE  Still
  <2>1. UNCHANGED <<gen, resets, rx_bytes, dec_pos, pcm_out, dec, files, ctl,
                    fin, crossed>>
    BY <1>3 DEF EncTake, EncExit, FeedEnter, stream, ingest, listen, decoded,
                world, ghosts
  <2> QED
    BY <2>1
<1>4. ASSUME NEW e \in Encoders, FeedChunk(e) \/ FeedLeave(e)
      PROVE  Still
  BY <1>4 DEF FeedChunk, FeedLeave, stream, ingest, listen, decoded, world,
              ghosts
<1>5. ASSUME Fade
      PROVE  Still
  BY <1>5 DEF Fade, stream, ingest, listen, decoded, world, ghosts
<1>6. ASSUME NEW s \in Stops,
             StopPressed(s) \/ StopDrained(s) \/ StopGivesUp(s) \/ StopFlush(s)
      PROVE  Still
  <2>1. /\ UNCHANGED <<gen, resets, rx_bytes, dec_pos, pcm_out, dec, files, ctl,
                       crossed>>
        /\ \/ fin' = [fin EXCEPT ![s].pc = "drain"]
           \/ fin' = [fin EXCEPT ![s].pc = "lock"]
           \/ fin' = [fin EXCEPT ![s].pc = "flush"]
    BY <1>6 DEF StopPressed, StopDrained, StopGivesUp, StopFlush, stream,
                ingest, listen, decoded, world, ghosts
  <2>2. \A z \in Stops : fin'[z].pc \in {"snap", "write"} => fin'[z] = fin[z]
    BY <2>1 DEF VoiceType, Threads, Finishing
  <2> QED
    BY <2>1, <2>2
<1>7. ASSUME NEW s \in Stops, StopChunk(s)
      PROVE  Still
  BY <1>7 DEF StopChunk, stream, ingest, listen, decoded, world, ghosts
<1>8. ASSUME NEW s \in Stops, StopClose(s) \/ StopRaises(s)
      PROVE  Still
  <2>1. /\ UNCHANGED <<gen, resets, rx_bytes, dec_pos, pcm_out, dec, files,
                       ctl, early, crossed, outlived>>
        /\ \/ fin' = [fin EXCEPT ![s] = IdleFin]
           \/ fin' = [fin EXCEPT ![s].pc = "wait"]
    BY <1>8 DEF StopClose, StopRaises, Answer, stream, ingest, listen, decoded,
                world, ghosts
  <2>2. \A z \in Stops : fin'[z].pc \in {"snap", "write"} => fin'[z] = fin[z]
    BY <2>1 DEF VoiceType, Threads, Finishing, IdleFin
  <2> QED
    BY <2>1, <2>2
<1>9. ASSUME Talk \/ SelectPressed \/ Joined
      PROVE  Still
  <2>1. /\ UNCHANGED <<gen, resets, rx_bytes, dec_pos, pcm_out, dec, files,
                       early, crossed, outlived, fin>>
        /\ \/ \E p \in {"idle", "open"} : ctl' = [ctl EXCEPT !.pc = p]
           \/ ctl' = [pc |-> "join", talk |-> FALSE]
    BY <1>9 DEF Talk, SelectPressed, Joined, stream, ingest, listen, decoded,
                world, ghosts
  <2>2. ctl'.pc # "clear"
    BY <2>1 DEF VoiceType, Threads, Controlling
  <2> QED
    BY <2>1, <2>2
<1> HIDE DEF Still
<1>10. ASSUME Encoding
       PROVE  RecordInv'
  BY <1>1, <1>3, <1>4, <1>10 DEF Encoding
<1>11. ASSUME Decoding
       PROVE  RecordInv'
  BY <1>11, LookRecord, VocodeRecord, CommitRecord, ExitRecord DEF Decoding
<1>12. ASSUME NEW s \in Stops, StopPressed(s) \/ Stopping(s)
       PROVE  RecordInv'
  BY <1>1, <1>6, <1>7, <1>8, <1>12, WaitedRecord, SnapshotRecord, WriteRecord
  DEF Stopping
<1>13. ASSUME SelectPressed \/ Control
       PROVE  RecordInv'
  BY <1>1, <1>9, <1>13, BeginsRecord, EndsRecord, OpenedRecord DEF Control
<1> QED
  BY <1>1, <1>2, <1>5, <1>10, <1>11, <1>12, <1>13, ReceiveRecord DEF Next

LEMMA RecordIdles ==
  ASSUME RecordInv, UNCHANGED vars
  PROVE  RecordInv'
<1>1. UNCHANGED <<gen, resets, rx_bytes, dec_pos, pcm_out, dec, files, early,
                  crossed, outlived, ctl, fin>>
  BY DEF vars, stream, ingest, listen, decoded, world, ghosts
<1> QED
  BY <1>1, RecordStays

LEMMA RecordStart ==
  ASSUME VoiceAssumption, Init
  PROVE  RecordInv
<1>1. /\ dec_pos = 0 /\ pcm_out = <<>> /\ rx_bytes = <<>> /\ files = <<>>
      /\ fin = [s \in Stops |-> IdleFin]
  BY DEF Init
<1> DEFINE d == CHOOSE x \in Decoders : TRUE
<1>2. dec = [x \in Decoders |-> IF x = d THEN IdleDec
                                ELSE [IdleDec EXCEPT !.pc = "off"]]
  BY DEF Init
<1> HIDE DEF d
<1>3. \A x \in Decoders : dec[x].pc \in {"idle", "off"}
  BY <1>2 DEF IdleDec
<1>4. \A s \in Stops : fin[s].pc = "idle"
  BY <1>1 DEF IdleFin
<1>5. Heeded
  <2>1. files \in Seq(Recording) /\ Len(files) = 0
    BY <1>1
  <2>2. Decodable(rx_bytes) = <<>>
    BY <1>1, NothingDecoded
  <2>3. SubSeq(<<>>, 1, 0) = <<>> /\ 0 <= Len(<<>>)
    OBVIOUS
  <2>4. AudioTrue
    BY <1>1, <2>2, <2>3 DEF AudioTrue
  <2>5. \A i \in 1..Len(files) : files[i].audio = files[i].data
    BY <2>1
  <2> QED
    BY <1>1, <2>1, <2>4, <2>5 DEF Heeded
<1> QED
  BY <1>3, <1>4, <1>5 DEF RecordInv, Looking, Vocoded, Snapped

(* What the recordings rest on, with any number of workers.                *)
RecordingInv == VoiceType /\ Locks /\ Generations /\ RecordInv

LEMMA RecordingStart ==
  ASSUME VoiceAssumption, Init
  PROVE  RecordingInv
BY VoiceStart, RecordStart DEF VoiceInv, RecordingInv

LEMMA RecordingSteps ==
  ASSUME VoiceAssumption, RecordingInv, [Next]_vars
  PROVE  RecordingInv'
<1> USE DEF RecordingInv
<1>1. CASE Next
  <2>1. VoiceType' /\ Locks' /\ Generations'
    BY <1>1, VoiceTyped, LocksStep, GenerationsStep
  <2> QED
    BY <1>1, <2>1, RecordStep
<1>2. CASE UNCHANGED vars
  <2>1. UNCHANGED <<gen, resets, k, dec_pos, posted, closed, bc_open,
                    tail_marker, talking, enc_busy, boards, onair, early,
                    crossed, outlived, gaveup, buf, inq, heard, pressed,
                    pending, tokcarry, tx_stream, air, cmds, rx_bytes, pcm_out,
                    airlock, ctl, enc, dec, fin>>
    BY <1>2 DEF vars, stream, ingest, listen, decoded, world, ghosts
  <2>2. VoiceType'
    BY <2>1 DEF VoiceType, Counted, Flagged, Queued, Streamed, Recorded,
                Threads
  <2>3. Locks' /\ Generations'
    BY <2>1 DEF Locks, Generations, Takes
  <2> QED
    BY <1>2, <2>2, <2>3, RecordIdles
<1> QED
  BY <1>1, <1>2

LEMMA RecordingSays ==
  ASSUME RecordingInv
  PROVE  RecordingTrue
<1> SUFFICES ASSUME RecordInv, ~crossed
             PROVE  AudioTrue /\ \A i \in DOMAIN files :
                                   files[i].audio = files[i].data
  BY DEF RecordingTrue, RecordingInv
<1>1. files \in Seq(Recording) /\ AudioTrue
      /\ \A i \in 1..Len(files) : files[i].audio = files[i].data
  BY DEF RecordInv, Heeded
<1>2. DOMAIN files = 1..Len(files)
  BY <1>1
<1> QED
  BY <1>1, <1>2

(* A recording has every token that had arrived once, in order, with any   *)
(* number of decoders, of STOPs at a time and of workers that outlive      *)
(* their join: what the decoder commits and what STOP vocodes meet.  A step *)
(* of the decoder that crossed a reset is the exception (RecordingTrue).   *)
THEOREM RecordingKept ==
  ASSUME VoiceAssumption
  PROVE  Spec => []RecordingTrue
<1>1. Init => RecordingInv
  BY RecordingStart
<1>2. RecordingInv /\ [Next]_vars => RecordingInv'
  BY RecordingSteps
<1>3. RecordingInv => RecordingTrue
  BY RecordingSays
<1> QED
  BY <1>1, <1>2, <1>3, PTL DEF Spec

-----------------------------------------------------------------------------
(* The voice streamer: tokens of TokenBits bits packed into bytes, groups  *)
(* of whole bytes sent as they fill up, the rest with the end of stream.   *)
(* It is VoiceStream's, whose broadcast is this module's bc_open.          *)
CONSTANTS TokenBits, ByteBits, Whole, Per, ChunkSizes, MaxChunks
VARIABLES pend, carry, board, rx, at, chunks, said
S == INSTANCE VoiceStream

(* What is computed step by step is determined: if    *)
(* g says how to go on from the value before, there is one such function.  *)
Steps(h, n, a, g) == h = [j \in 0..n |-> IF j = 0 THEN a ELSE g[j][h[j - 1]]]

LEMMA Recursion ==
  ASSUME NEW a, NEW n \in Nat, NEW g
  PROVE  \E h : Steps(h, n, a, g)
<1> DEFINE Upto(h, m) ==
             h = [j \in 0..m |-> IF j = 0 THEN a ELSE g[j][h[j - 1]]]
           G == {m \in Nat : \E h : Upto(h, m)}
<1>1. 0 \in G
  <2> DEFINE h == [j \in 0..0 |-> a]
             e == [j \in 0..0 |-> IF j = 0 THEN a ELSE g[j][h[j - 1]]]
  <2>1. \A j \in 0..0 : e[j] = h[j]
    OBVIOUS
  <2>2. h = [j \in 0..0 |-> h[j]] /\ e = [j \in 0..0 |-> e[j]]
    OBVIOUS
  <2> HIDE DEF h, e
  <2>3. h = e
    BY <2>1, <2>2
  <2>4. Upto(h, 0)
    BY <2>3, Zenon DEF e
  <2> HIDE DEF Upto
  <2> QED
    BY <2>4
<1>2. ASSUME NEW m \in Nat, m \in G PROVE m + 1 \in G
  <2>1. PICK h : Upto(h, m)
    BY <1>2
  <2> DEFINE y == g[m + 1][h[m]]
             f == [j \in 0..m + 1 |-> IF j = m + 1 THEN y ELSE h[j]]
             e == [j \in 0..m + 1 |-> IF j = 0 THEN a ELSE g[j][f[j - 1]]]
  <2> HIDE DEF y
  <2>2. f[m + 1] = y /\ \A j \in 0..m : f[j] = h[j]
    OBVIOUS
  <2>3. f = [j \in 0..m + 1 |-> f[j]] /\ e = [j \in 0..m + 1 |-> e[j]]
        /\ \A j \in 0..m + 1 : e[j] = IF j = 0 THEN a ELSE g[j][f[j - 1]]
    OBVIOUS
  <2> HIDE DEF f
  <2>4. \A j \in 0..m + 1 : f[j] = IF j = 0 THEN a ELSE g[j][f[j - 1]]
    <3> SUFFICES ASSUME NEW j \in 0..m + 1
                 PROVE  f[j] = IF j = 0 THEN a ELSE g[j][f[j - 1]]
      OBVIOUS
    <3>1. CASE j = m + 1
      <4>1. j # 0 /\ j - 1 = m /\ m \in 0..m
        BY <3>1
      <4> QED
        BY <2>2, <3>1, <4>1 DEF y
    <3>2. CASE j # m + 1
      <4>1. j \in 0..m /\ (j # 0 => j - 1 \in 0..m)
        BY <3>2
      <4>2. h[j] = IF j = 0 THEN a ELSE g[j][h[j - 1]]
        BY <2>1, <4>1
      <4> QED
        BY <2>2, <4>1, <4>2
    <3> QED
      BY <3>1, <3>2
  <2>5. \A j \in 0..m + 1 : e[j] = f[j]
    BY <2>3, <2>4
  <2> HIDE DEF e
  <2>6. f = e
    BY <2>3, <2>5
  <2>7. Upto(f, m + 1)
    BY <2>6, Zenon DEF e
  <2> HIDE DEF Upto
  <2>8. \E x : Upto(x, m + 1)
    BY <2>7
  <2> QED
    BY <2>8
<1>3. \A m \in Nat : m \in G
  <2> HIDE DEF G
  <2> QED
    BY <1>1, <1>2, Induct, Zenon
<1> HIDE DEF G
<1>4. n \in G
  BY <1>3
<1> QED
  BY <1>4 DEF G, Steps

(* The halves of a token, and the prefixes of a string of bits.            *)
LEMMA Halves ==
  ASSUME TokenBits \in Nat, NEW v \in Nat
  PROVE  /\ S!Halved(v) \in [0..TokenBits -> Nat]
         /\ S!Halved(v)[0] = v
         /\ \A j \in 1..TokenBits :
              S!Halved(v)[j] = S!Halved(v)[j - 1] \div 2
<1> DEFINE n == TokenBits
           H(h) == h = [j \in 0..n |-> IF j = 0 THEN v ELSE h[j - 1] \div 2]
           g == [j \in 1..n |-> [x \in Nat |-> x \div 2]]
<1>1. g \in [1..n -> [Nat -> Nat]]
      /\ \A j \in 1..n, x \in Nat : g[j][x] = x \div 2
  OBVIOUS
<1>0. n \in Nat
  OBVIOUS
<1> HIDE DEF g, n
<1>2. PICK f : Steps(f, n, v, g)
  BY <1>0, Recursion
<1>3. \A j \in 0..n : f[j] = IF j = 0 THEN v ELSE f[j - 1] \div 2
  <2> DEFINE G == {j \in Nat : j <= n => f[j] \in Nat}
  <2>1. \A j \in 0..n : f[j] = IF j = 0 THEN v ELSE g[j][f[j - 1]]
    BY <1>2 DEF Steps
  <2>2. 0 \in G
    BY <1>0, <2>1
  <2>3. ASSUME NEW j \in Nat, j \in G PROVE j + 1 \in G
    <3> SUFFICES ASSUME j + 1 <= n PROVE f[j + 1] \in Nat
      OBVIOUS
    <3>1. j + 1 \in 1..n /\ j + 1 \in 0..n /\ (j + 1) - 1 = j /\ j + 1 # 0
          /\ f[j] \in Nat
      BY <1>0, <2>3
    <3>2. f[j + 1] = g[j + 1][f[j]]
      BY <2>1, <3>1
    <3> QED
      BY <1>1, <3>1, <3>2
  <2> HIDE DEF G
  <2>4. \A j \in Nat : j \in G
    BY <2>2, <2>3, Induct, Zenon
  <2>5. ASSUME NEW j \in 0..n, j # 0 PROVE f[j] = f[j - 1] \div 2
    <3>1. j \in 1..n /\ j - 1 \in Nat /\ j - 1 <= n
      BY <1>0, <2>5
    <3>2. f[j - 1] \in Nat
      BY <2>4, <3>1 DEF G
    <3> QED
      BY <1>1, <2>1, <2>5, <3>1, <3>2
  <2> QED
    BY <1>0, <2>1, <2>5
<1>4. H(f)
  <2> DEFINE e == [j \in 0..n |-> IF j = 0 THEN v ELSE f[j - 1] \div 2]
  <2>1. f = [j \in 0..n |-> f[j]]
    BY <1>2 DEF Steps
  <2>2. e = [j \in 0..n |-> e[j]]
    OBVIOUS
  <2>3. \A j \in 0..n : e[j] = f[j]
    BY <1>3
  <2> HIDE DEF e
  <2>4. f = e
    BY <2>1, <2>2, <2>3
  <2>5. f = [j \in 0..n |-> IF j = 0 THEN v ELSE f[j - 1] \div 2]
    BY <2>4, Zenon DEF e
  <2> QED
    BY <2>5
<1>5. S!Halved(v) = CHOOSE h : H(h)
  BY DEF S!Halved, n
<1> HIDE DEF H
<1>6. H(S!Halved(v))
  BY <1>4, <1>5, Zenon
<1> DEFINE l == S!Halved(v)
<1>7. H(l)
  BY <1>6
<1> HIDE DEF l
<1> USE <1>0
<1>8. \A j \in 0..n : l[j] = IF j = 0 THEN v ELSE l[j - 1] \div 2
  BY <1>7 DEF H
<1>9. \A j \in 1..n : l[j] = l[j - 1] \div 2
  BY <1>8
<1>10. \A j \in 0..n : l[j] \in Nat
  <2> DEFINE G == {j \in Nat : j <= n => l[j] \in Nat}
  <2>1. 0 \in G
    BY <1>8
  <2>2. ASSUME NEW j \in Nat, j \in G PROVE j + 1 \in G
    <3> SUFFICES ASSUME j + 1 <= n PROVE l[j + 1] \in Nat
      OBVIOUS
    <3>1. j + 1 \in 1..n /\ (j + 1) - 1 = j /\ l[j] \in Nat
      BY <2>2
    <3>2. l[j + 1] = l[j] \div 2
      BY <1>9, <3>1
    <3> QED
      BY <3>1, <3>2
  <2> HIDE DEF G
  <2>3. \A j \in Nat : j \in G
    BY <2>1, <2>2, Induct, Zenon
  <2> QED
    BY <2>3 DEF G
<1>11. l \in [0..n -> Nat]
  <2>1. l = [j \in 0..n |-> l[j]]
    BY <1>7 DEF H
  <2> QED
    BY <1>10, <2>1
<1> QED
  BY <1>0, <1>8, <1>9, <1>11 DEF l, n

LEMMA TokenOfIs ==
  ASSUME NEW b \in Seq({0, 1})
  PROVE  \E w \in [0..Len(b) -> Nat] :
           /\ w[0] = 0 /\ S!TokenOf(b) = w[Len(b)]
           /\ \A i \in 1..Len(b) : w[i] = 2 * w[i - 1] + b[i]
<1> DEFINE n == Len(b)
           H(h) == h = [i \in 0..n |-> IF i = 0 THEN 0 ELSE 2 * h[i - 1] + b[i]]
           g == [i \in 1..n |-> [x \in Nat |-> 2 * x + b[i]]]
<1>0. n \in Nat /\ \A i \in 1..n : b[i] \in Nat
  OBVIOUS
<1>1. g \in [1..n -> [Nat -> Nat]]
      /\ \A i \in 1..n, x \in Nat : g[i][x] = 2 * x + b[i]
  BY <1>0
<1>5. S!TokenOf(b) = (CHOOSE h : H(h))[n]
  BY DEF S!TokenOf
<1> HIDE DEF g, n
<1>2. PICK f : Steps(f, n, 0, g)
  BY <1>0, Recursion
<1>3. \A i \in 0..n : f[i] = IF i = 0 THEN 0 ELSE 2 * f[i - 1] + b[i]
  <2> DEFINE G == {i \in Nat : i <= n => f[i] \in Nat}
  <2>1. \A i \in 0..n : f[i] = IF i = 0 THEN 0 ELSE g[i][f[i - 1]]
    BY <1>2 DEF Steps
  <2>2. 0 \in G
    <3>1. 0 \in 0..n
      BY <1>0
    <3>2. f[0] = 0
      BY <2>1, <3>1
    <3> QED
      BY <3>2
  <2>3. ASSUME NEW i \in Nat, i \in G PROVE i + 1 \in G
    <3> SUFFICES ASSUME i + 1 <= n PROVE f[i + 1] \in Nat
      OBVIOUS
    <3>1. i + 1 \in 1..n /\ i + 1 \in 0..n /\ (i + 1) - 1 = i /\ i + 1 # 0
          /\ f[i] \in Nat
      BY <1>0, <2>3
    <3>2. f[i + 1] = g[i + 1][f[i]]
      BY <2>1, <3>1
    <3>3. g[i + 1][f[i]] = 2 * f[i] + b[i + 1] /\ b[i + 1] \in Nat
      BY <1>0, <1>1, <3>1
    <3> QED
      BY <3>1, <3>2, <3>3
  <2> HIDE DEF G
  <2>4. \A i \in Nat : i \in G
    BY <2>2, <2>3, Induct, Zenon
  <2>5. ASSUME NEW i \in 0..n, i # 0 PROVE f[i] = 2 * f[i - 1] + b[i]
    <3>1. i \in 1..n /\ i - 1 \in Nat /\ i - 1 <= n
      BY <1>0, <2>5
    <3>2. f[i - 1] \in Nat
      BY <2>4, <3>1 DEF G
    <3> QED
      BY <1>1, <2>1, <2>5, <3>1, <3>2
  <2> QED
    BY <1>0, <2>1, <2>5
<1>4. H(f)
  <2> DEFINE e == [i \in 0..n |-> IF i = 0 THEN 0 ELSE 2 * f[i - 1] + b[i]]
  <2>1. f = [i \in 0..n |-> f[i]]
    BY <1>2 DEF Steps
  <2>2. e = [i \in 0..n |-> e[i]]
    OBVIOUS
  <2>3. \A i \in 0..n : e[i] = f[i]
    BY <1>3
  <2> HIDE DEF e
  <2>4. f = e
    BY <2>1, <2>2, <2>3
  <2>5. f = [i \in 0..n |-> IF i = 0 THEN 0 ELSE 2 * f[i - 1] + b[i]]
    BY <2>4, Zenon DEF e
  <2> QED
    BY <2>5
<1> DEFINE l == CHOOSE h : H(h)
<1> HIDE DEF H
<1>6. H(l)
  BY <1>4, Zenon
<1>7. S!TokenOf(b) = l[n]
  BY <1>5
<1> HIDE DEF l
<1>8. \A i \in 0..n : l[i] = IF i = 0 THEN 0 ELSE 2 * l[i - 1] + b[i]
  BY <1>6 DEF H
<1>9. \A i \in 1..n : l[i] = 2 * l[i - 1] + b[i]
  BY <1>0, <1>8
<1>10. \A i \in 0..n : l[i] \in Nat
  <2> DEFINE G == {i \in Nat : i <= n => l[i] \in Nat}
  <2>1. 0 \in G
    BY <1>0, <1>8
  <2>2. ASSUME NEW i \in Nat, i \in G PROVE i + 1 \in G
    <3> SUFFICES ASSUME i + 1 <= n PROVE l[i + 1] \in Nat
      OBVIOUS
    <3>1. i + 1 \in 1..n /\ (i + 1) - 1 = i /\ l[i] \in Nat
      BY <1>0, <2>2
    <3>2. l[i + 1] = 2 * l[i] + b[i + 1]
      BY <1>9, <3>1
    <3> QED
      BY <1>0, <3>1, <3>2
  <2> HIDE DEF G
  <2>3. \A i \in Nat : i \in G
    BY <2>1, <2>2, Induct, Zenon
  <2> QED
    BY <2>3 DEF G
<1>11. l \in [0..n -> Nat]
  <2>1. l = [i \in 0..n |-> l[i]]
    BY <1>6 DEF H
  <2> QED
    BY <1>10, <2>1
<1>12. l[0] = 0
  BY <1>0, <1>8
<1> QED
  BY <1>7, <1>9, <1>11, <1>12 DEF n

(* A token that has TokenBits bits is the token of its bits.               *)
Fits(v) == v \in Nat /\ S!Halved(v)[TokenBits] = 0

LEMMA BitsType ==
  ASSUME TokenBits \in Nat, NEW v \in Nat
  PROVE  /\ S!BitsOf(v) \in Seq({0, 1}) /\ Len(S!BitsOf(v)) = TokenBits
         /\ \A i \in 1..TokenBits :
              S!BitsOf(v)[i] = S!Halved(v)[TokenBits - i] % 2
<1> DEFINE h == S!Halved(v)
<1>1. S!BitsOf(v) = [i \in 1..TokenBits |-> h[TokenBits - i] % 2]
  BY DEF S!BitsOf
<1>2. h \in [0..TokenBits -> Nat]
  BY Halves
<1> HIDE DEF h
<1>3. \A i \in 1..TokenBits : h[TokenBits - i] % 2 \in {0, 1}
  <2> TAKE i \in 1..TokenBits
  <2>1. h[TokenBits - i] \in Nat
    BY <1>2
  <2> QED
    BY <2>1
<1> QED
  BY <1>1, <1>3 DEF h

LEMMA TokenOfBits ==
  ASSUME TokenBits \in Nat, NEW v, Fits(v)
  PROVE  S!TokenOf(S!BitsOf(v)) = v
<1> DEFINE b == S!BitsOf(v)
           h == S!Halved(v)
           n == TokenBits
<1>1. v \in Nat /\ h[n] = 0 /\ n \in Nat
  BY DEF Fits
<1>2. /\ b \in Seq({0, 1}) /\ Len(b) = n
      /\ \A i \in 1..n : b[i] = h[n - i] % 2
  BY <1>1, BitsType
<1>3. /\ h \in [0..n -> Nat] /\ h[0] = v
      /\ \A j \in 1..n : h[j] = h[j - 1] \div 2
  BY <1>1, Halves
<1>4. PICK w \in [0..n -> Nat] :
        /\ w[0] = 0 /\ S!TokenOf(b) = w[n]
        /\ \A i \in 1..n : w[i] = 2 * w[i - 1] + b[i]
  <2> HIDE DEF b, h, n
  <2> QED
    BY <1>2, TokenOfIs
<1> HIDE DEF b, h, n
<1> DEFINE G == {i \in Nat : i <= n => w[i] = h[n - i]}
<1>5. 0 \in G
  BY <1>1, <1>4
<1>6. ASSUME NEW i \in Nat, i \in G PROVE i + 1 \in G
  <2> SUFFICES ASSUME i + 1 <= n PROVE w[i + 1] = h[n - (i + 1)]
    OBVIOUS
  <2> DEFINE j == n - (i + 1)
  <2>1. i + 1 \in 1..n /\ (i + 1) - 1 = i /\ j \in 0..n /\ n - i = j + 1
        /\ n - i \in 1..n /\ (n - i) - 1 = j /\ i <= n
    BY <1>1
  <2>2. w[i] = h[n - i]
    BY <1>6, <2>1
  <2>3. w[i + 1] = 2 * w[i] + (h[j] % 2)
    <3>1. w[i + 1] = 2 * w[i] + b[i + 1]
      BY <1>4, <2>1
    <3>2. b[i + 1] = h[j] % 2
      BY <1>2, <2>1
    <3> QED
      BY <3>1, <3>2
  <2>4. h[n - i] = h[j] \div 2
    BY <1>3, <2>1
  <2>5. h[j] \in Nat
    BY <1>3, <2>1
  <2>6. \A x \in Nat : 2 * (x \div 2) + (x % 2) = x
    OBVIOUS
  <2> QED
    BY <2>2, <2>3, <2>4, <2>5, <2>6
<1> HIDE DEF G
<1>7. \A i \in Nat : i \in G
  BY <1>5, <1>6, Induct, Zenon
<1>8. w[n] = h[0]
  <2>1. n \in G /\ n - n = 0
    BY <1>1, <1>7
  <2> QED
    BY <1>1, <2>1 DEF G
<1> QED
  BY <1>3, <1>4, <1>8 DEF b
(* FlattenSeq, one sequence more.                                          *)
Flat(f, ss) ==
  f = [i \in 1..Len(ss) |-> IF i = 1 THEN ss[i] ELSE f[i - 1] \o ss[i]]

LEMMA FlatExists ==
  ASSUME NEW B, NEW ss \in Seq(Seq(B))
  PROVE  \E f : Flat(f, ss)
<1> DEFINE Upto(f, m) ==
             f = [i \in 1..m |-> IF i = 1 THEN ss[i] ELSE f[i - 1] \o ss[i]]
           G == {m \in Nat : \E f : Upto(f, m)}
<1>1. 0 \in G
  <2> DEFINE f == [i \in 1..0 |-> 0]
  <2>1. f = [i \in 1..0 |-> IF i = 1 THEN ss[i] ELSE f[i - 1] \o ss[i]]
    OBVIOUS
  <2> HIDE DEF f
  <2> QED
    BY <2>1
<1>2. ASSUME NEW m \in Nat, m \in G PROVE m + 1 \in G
  <2>1. PICK f : Upto(f, m)
    BY <1>2
  <2> DEFINE y == IF m + 1 = 1 THEN ss[m + 1] ELSE f[m] \o ss[m + 1]
             g == [i \in 1..m + 1 |-> IF i = m + 1 THEN y ELSE f[i]]
  <2> HIDE DEF y
  <2>2. /\ g[m + 1] = y
        /\ \A i \in 1..m : g[i] = f[i]
    OBVIOUS
  <2>3. g = [i \in 1..m + 1 |-> g[i]]
    OBVIOUS
  <2> HIDE DEF g
  <2>4. \A i \in 1..m + 1 :
          g[i] = IF i = 1 THEN ss[i] ELSE g[i - 1] \o ss[i]
    <3> SUFFICES ASSUME NEW i \in 1..m + 1
                 PROVE  g[i] = IF i = 1 THEN ss[i] ELSE g[i - 1] \o ss[i]
      OBVIOUS
    <3>1. CASE i = m + 1
      <4>1. i # 1 => i - 1 = m /\ m \in 1..m
        BY <3>1
      <4> QED
        BY <2>2, <3>1, <4>1 DEF y
    <3>2. CASE i # m + 1
      <4>1. i \in 1..m /\ (i # 1 => i - 1 \in 1..m)
        BY <3>2
      <4>2. f[i] = IF i = 1 THEN ss[i] ELSE f[i - 1] \o ss[i]
        BY <2>1, <4>1
      <4> QED
        BY <2>2, <4>1, <4>2
    <3> QED
      BY <3>1, <3>2
  <2> DEFINE h == [i \in 1..m + 1 |-> IF i = 1 THEN ss[i] ELSE g[i - 1] \o ss[i]]
  <2>5. \A i \in 1..m + 1 : h[i] = g[i]
    BY <2>4
  <2>6. h = [i \in 1..m + 1 |-> h[i]]
    OBVIOUS
  <2> HIDE DEF h
  <2>7. g = h
    BY <2>3, <2>5, <2>6
  <2>8. Upto(g, m + 1)
    BY <2>7, Zenon DEF h
  <2> HIDE DEF Upto
  <2>9. \E x : Upto(x, m + 1)
    BY <2>8
  <2> QED
    BY <2>9
<1>3. \A m \in Nat : m \in G
  <2> HIDE DEF G
  <2> QED
    BY <1>1, <1>2, Induct, Zenon
<1> HIDE DEF G
<1>4. Len(ss) \in G
  BY <1>3
<1> QED
  BY <1>4 DEF Flat, G

LEMMA FlatIs ==
  ASSUME NEW ss, Len(ss) # 0
  PROVE  S!FlattenSeq(ss) = (CHOOSE f : Flat(f, ss))[Len(ss)]
  BY DEF S!FlattenSeq, Flat

LEMMA FlatNone == S!FlattenSeq(<<>>) = <<>>
  BY DEF S!FlattenSeq

LEMMA FlatLast ==
  ASSUME NEW B, NEW ss \in Seq(Seq(B)), NEW s \in Seq(B)
  PROVE  S!FlattenSeq(Append(ss, s)) = S!FlattenSeq(ss) \o s
<1> DEFINE r == Append(ss, s)
           n == Len(ss)
<1>1. n \in Nat /\ Len(r) = n + 1 /\ r[n + 1] = s /\ r \in Seq(Seq(B))
      /\ \A i \in 1..n : r[i] = ss[i]
  OBVIOUS
<1> HIDE DEF r
<1>2. PICK g : Flat(g, r) /\ S!FlattenSeq(r) = g[n + 1]
  <2>0. \E g : Flat(g, r)
    BY <1>1, FlatExists
  <2>1. Flat(CHOOSE g : Flat(g, r), r)
    BY <2>0
  <2>2. Len(r) # 0
    BY <1>1
  <2>3. S!FlattenSeq(r) = (CHOOSE g : Flat(g, r))[n + 1]
    BY <1>1, <2>2, FlatIs
  <2> QED
    BY <2>1, <2>3
<1>3. CASE n = 0
  <2>1. ss = <<>>
    BY <1>3
  <2>2. g[1] = s
    BY <1>1, <1>2, <1>3 DEF Flat
  <2>3. S!FlattenSeq(ss) = <<>>
    BY <2>1, FlatNone
  <2>4. <<>> \o s = s
    OBVIOUS
  <2> QED
    BY <1>1, <1>2, <1>3, <2>2, <2>3, <2>4 DEF r
<1>4. CASE n # 0
  <2>1. PICK f : Flat(f, ss) /\ S!FlattenSeq(ss) = f[n]
    <3>1. Flat(CHOOSE f : Flat(f, ss), ss)
      BY FlatExists
    <3> QED
      BY <1>4, <3>1, FlatIs
  <2> HIDE DEF n
  <2> DEFINE G == {i \in Nat : i + 1 <= n => f[i + 1] = g[i + 1]}
  <2>2. 0 \in G
    <3>1. 1 \in 1..n /\ 1 \in 1..n + 1 /\ 0 + 1 = 1
      BY <1>1, <1>4
    <3>2. f[1] = ss[1] /\ g[1] = r[1]
      BY <1>1, <1>2, <2>1, <3>1 DEF Flat, n
    <3> QED
      BY <1>1, <3>1, <3>2
  <2>3. ASSUME NEW i \in Nat, i \in G PROVE i + 1 \in G
    <3> SUFFICES ASSUME (i + 1) + 1 <= n PROVE f[(i + 1) + 1] = g[(i + 1) + 1]
      OBVIOUS
    <3>1. /\ (i + 1) + 1 \in 1..n /\ (i + 1) + 1 # 1 /\ ((i + 1) + 1) - 1 = i + 1
          /\ (i + 1) + 1 \in 1..n + 1 /\ i + 1 <= n
      BY <1>1
    <3>2. f[(i + 1) + 1] = f[i + 1] \o ss[(i + 1) + 1]
      BY <2>1, <3>1 DEF Flat, n
    <3>3. g[(i + 1) + 1] = g[i + 1] \o r[(i + 1) + 1]
      BY <1>1, <1>2, <3>1 DEF Flat
    <3>4. f[i + 1] = g[i + 1]
      BY <2>3, <3>1
    <3> QED
      BY <1>1, <3>1, <3>2, <3>3, <3>4
  <2> HIDE DEF G
  <2>4. \A i \in Nat : i \in G
    BY <2>2, <2>3, Induct, Zenon
  <2>5. f[n] = g[n]
    <3>1. n - 1 \in Nat /\ (n - 1) + 1 = n
      BY <1>1, <1>4
    <3> QED
      BY <2>4, <3>1 DEF G
  <2>6. g[n + 1] = g[n] \o r[n + 1]
    <3>1. n + 1 \in 1..n + 1 /\ n + 1 # 1 /\ (n + 1) - 1 = n
      BY <1>1, <1>4
    <3> QED
      BY <1>1, <1>2, <3>1 DEF Flat
  <2> QED
    BY <1>1, <1>2, <2>1, <2>5, <2>6 DEF r
<1> QED
  BY <1>3, <1>4


(* Sequences of one length, laid end to end.                               *)
LEMMA Below ==
  ASSUME NEW n \in Nat \ {0}, NEW a \in Nat, NEW b \in Nat, a <= b
  PROVE  n * a \in Nat /\ n * b \in Nat /\ n * a <= n * b
<1>1. PICK d \in Nat : b = a + d
  <2>1. b - a \in Nat /\ b = a + (b - a)
    OBVIOUS
  <2> QED
    BY <2>1
<1>2. n * b = n * a + n * d /\ n * d \in Nat /\ n * a \in Nat
  BY <1>1, SMTT(30)
<1> QED
  BY <1>2

LEMMA Inside ==
  ASSUME NEW n \in Nat \ {0}, NEW a \in Nat, NEW b \in Nat, NEW p \in 1..n,
         n * a + p <= n * b
  PROVE  a < b
<1> SUFFICES ASSUME b <= a PROVE FALSE
  OBVIOUS
<1>1. n * b <= n * a /\ n * b \in Nat /\ n * a \in Nat
  BY Below
<1> QED
  BY <1>1

LEMMA OneMore ==
  ASSUME NEW n \in Nat, NEW a \in Nat
  PROVE  n * (a + 1) = n * a + n /\ n * a \in Nat
  BY SMTT(30)

AllOf(L, ss) == \A i \in 1..Len(ss) : Len(ss[i]) = L
EndToEnd(L, ss, t) ==
  /\ Len(t) = L * Len(ss)
  /\ \A i \in 1..Len(ss), p \in 1..L : t[L * (i - 1) + p] = ss[i][p]

LEMMA FlatEven ==
  ASSUME NEW B, NEW L \in Nat \ {0}, NEW ss \in Seq(Seq(B)), AllOf(L, ss)
  PROVE  S!FlattenSeq(ss) \in Seq(B) /\ EndToEnd(L, ss, S!FlattenSeq(ss))
<1> DEFINE n == Len(ss)
           F(m) == S!FlattenSeq(SubSeq(ss, 1, m))
           Even(m) ==
             /\ F(m) \in Seq(B) /\ Len(F(m)) = L * m
             /\ \A i \in 1..m, p \in 1..L : F(m)[L * (i - 1) + p] = ss[i][p]
           G == {m \in Nat : m <= n => Even(m)}
<1>1. n \in Nat /\ \A i \in 1..n : ss[i] \in Seq(B) /\ Len(ss[i]) = L
  BY DEF AllOf
<1>2. F(0) = <<>>
  <2>1. SubSeq(ss, 1, 0) = <<>>
    OBVIOUS
  <2> QED
    BY <2>1, FlatNone
<1>3. \A m \in Nat : m + 1 <= n /\ F(m) \in Seq(B) => F(m + 1) = F(m) \o ss[m + 1]
  <2> SUFFICES ASSUME NEW m \in Nat, m + 1 <= n
               PROVE  F(m + 1) = F(m) \o ss[m + 1]
    OBVIOUS
  <2>1. /\ SubSeq(ss, 1, m) \in Seq(Seq(B)) /\ ss[m + 1] \in Seq(B)
        /\ SubSeq(ss, 1, m + 1) = Append(SubSeq(ss, 1, m), ss[m + 1])
    BY <1>1
  <2> QED
    BY <2>1, FlatLast
<1> HIDE DEF F, n
<1>4. 0 \in G
  <2>1. L * 0 = 0 /\ <<>> \in Seq(B) /\ Len(<<>>) = 0 /\ 1..0 = {}
    OBVIOUS
  <2>2. Even(0)
    BY <1>2, <2>1, Zenon
  <2> HIDE DEF Even
  <2> QED
    BY <2>2
<1>5. ASSUME NEW m \in Nat, m \in G PROVE m + 1 \in G
  <2> SUFFICES ASSUME m + 1 <= n PROVE Even(m + 1)
    OBVIOUS
  <2> DEFINE f == F(m)
             s == ss[m + 1]
             h == F(m + 1)
             x == L * m
  <2>0. Even(m)
    <3> HIDE DEF Even
    <3>1. m <= n
      BY <1>1
    <3> QED
      BY <1>5, <3>1
  <2>1. /\ f \in Seq(B) /\ Len(f) = x
        /\ \A i \in 1..m, p \in 1..L : f[L * (i - 1) + p] = ss[i][p]
    BY <2>0, Zenon
  <2>2. m + 1 \in 1..n /\ s \in Seq(B) /\ Len(s) = L /\ h = f \o s
    BY <1>1, <1>3, <2>1
  <2>3. L * (m + 1) = x + L /\ x \in Nat
    BY OneMore
  <2>4. ASSUME NEW i \in 1..m + 1, NEW p \in 1..L
        PROVE  h[L * (i - 1) + p] = ss[i][p]
    <3>1. CASE i = m + 1
      <4>1. L * (i - 1) = x
        BY <3>1
      <4> HIDE DEF f, s, h, x
      <4>2. h[x + p] = s[p]
        BY <2>1, <2>2, <2>3
      <4> QED
        BY <3>1, <4>1, <4>2 DEF s
    <3>2. CASE i # m + 1
      <4> DEFINE y == L * (i - 1)
      <4>1. i \in 1..m /\ i - 1 \in Nat /\ (i - 1) + 1 = i /\ i <= m
        BY <3>2
      <4>2. y \in Nat /\ L * i = y + L
        BY <4>1, OneMore
      <4>3. L * i <= x
        BY <4>1, Below
      <4>4. f[y + p] = ss[i][p]
        BY <2>1, <4>1
      <4> HIDE DEF f, s, h, x, y
      <4>5. y + p \in 1..x
        BY <2>3, <4>2, <4>3
      <4>6. h[y + p] = f[y + p]
        BY <2>1, <2>2, <2>3, <4>5
      <4> QED
        BY <4>4, <4>6 DEF y
    <3> QED
      BY <3>1, <3>2
  <2>5. h \in Seq(B) /\ Len(h) = L * (m + 1)
    <3> HIDE DEF f, s, h, x
    <3>0. f \in Seq(B) /\ Len(f) = x
      BY <2>1
    <3>1. h \in Seq(B) /\ Len(h) = Len(f) + Len(s)
      BY <3>0, <2>2, ConcatProperties
    <3>2. Len(h) = x + L
      BY <3>0, <3>1, <2>2
    <3> QED
      BY <2>3, <3>1, <3>2
  <2> QED
    BY <2>4, <2>5
<1> HIDE DEF G
<1>6. \A m \in Nat : m \in G
  BY <1>4, <1>5, Induct, Zenon
<1>7. Even(n)
  <2> HIDE DEF Even
  <2>1. n \in Nat /\ n <= n
    BY <1>1
  <2> QED
    BY <1>6, <2>1 DEF G
<1>8. SubSeq(ss, 1, n) = ss
  BY DEF n
<1> QED
  BY <1>7, <1>8 DEF F, n, EndToEnd

(* Bytes R hold the bits of the tokens F, no bit more.                     *)
Byte == [1..ByteBits -> {0, 1}]
Packed(F, R) ==
  /\ R \in Seq(Byte) /\ ByteBits * Len(R) = TokenBits * Len(F)
  /\ \A j \in 1..Len(R), q \in 1..ByteBits, i \in 1..Len(F), p \in 1..TokenBits :
       ByteBits * (j - 1) + q = TokenBits * (i - 1) + p =>
         R[j][q] = S!BitsOf(F[i])[p]

Sizes == TokenBits \in Nat \ {0} /\ ByteBits \in Nat \ {0}

LEMMA PackedBits ==
  ASSUME Sizes, NEW F \in Seq(Nat), NEW c \in Nat,
         TokenBits * Len(F) = ByteBits * c
  PROVE  Packed(F, S!pack10(F))
<1> DEFINE ss == [i \in DOMAIN F |-> S!BitsOf(F[i])]
           bits == S!FlattenSeq(ss)
           padded(i) == IF i <= Len(bits) THEN bits[i] ELSE 0
           n == Len(F)
           l == Len(bits)
           x == ByteBits * c
           m == (l + ByteBits - 1) \div ByteBits
           R == S!pack10(F)
<1>1. n \in Nat /\ TokenBits \in Nat \ {0} /\ ByteBits \in Nat \ {0}
      /\ TokenBits * n = x
  BY DEF Sizes
<1>2. /\ ss \in Seq(Seq({0, 1})) /\ Len(ss) = n
      /\ \A i \in 1..n : ss[i] = S!BitsOf(F[i]) /\ Len(ss[i]) = TokenBits
  <2>1. \A i \in 1..n : F[i] \in Nat
    OBVIOUS
  <2>2. \A i \in 1..n : /\ S!BitsOf(F[i]) \in Seq({0, 1})
                        /\ Len(S!BitsOf(F[i])) = TokenBits
    BY <1>1, <2>1, BitsType
  <2> QED
    BY <2>2
<1>3. /\ bits \in Seq({0, 1}) /\ l = TokenBits * n
      /\ \A i \in 1..n, p \in 1..TokenBits :
           bits[TokenBits * (i - 1) + p] = S!BitsOf(F[i])[p]
  <2> DEFINE B == {0, 1}
             L == TokenBits
  <2> HIDE DEF ss, B, L
  <2>1. ss \in Seq(Seq(B)) /\ L \in Nat \ {0}
        /\ AllOf(L, ss)
    BY <1>1, <1>2 DEF B, L, AllOf
  <2>2. S!FlattenSeq(ss) \in Seq(B) /\ EndToEnd(L, ss, S!FlattenSeq(ss))
    BY <2>1, FlatEven
  <2> QED
    BY <1>2, <2>2 DEF B, L, EndToEnd
<1>4. l = x /\ x \in Nat
  BY <1>1, <1>3
<1>5. m = c
  <2> HIDE DEF l, x
  <2>1. l + ByteBits - 1 = ByteBits * c + (ByteBits - 1)
        /\ l + ByteBits - 1 \in Nat /\ ByteBits - 1 \in 0..ByteBits - 1
    BY <1>1, <1>4 DEF x
  <2>2. /\ l + ByteBits - 1
             = ByteBits * m + ((l + ByteBits - 1) % ByteBits)
        /\ m \in Nat
    BY <1>1, <2>1, Division
  <2>3. (l + ByteBits - 1) % ByteBits \in 0..ByteBits - 1
    BY <1>1, <2>1, ModRange
  <2> DEFINE r == (l + ByteBits - 1) % ByteBits
             s == ByteBits - 1
  <2> HIDE DEF m
  <2>4. ByteBits * m + r = ByteBits * c + s /\ r \in 0..ByteBits - 1
        /\ s \in 0..ByteBits - 1
    BY <2>1, <2>2, <2>3
  <2> HIDE DEF r, s
  <2> QED
    BY <1>1, <2>2, <2>4, Unique
<1>6. R = [j \in 1..m |-> [i \in 1..ByteBits |-> padded((j - 1) * ByteBits + i)]]
  BY DEF S!pack10
<1> HIDE DEF m, R, ss, bits
<1>7. ASSUME NEW j \in 1..c, NEW q \in 1..ByteBits
      PROVE  /\ R[j][q] = bits[ByteBits * (j - 1) + q]
             /\ bits[ByteBits * (j - 1) + q] \in {0, 1}
             /\ R[j] = [i \in 1..ByteBits |-> R[j][i]]
  <2> DEFINE y == ByteBits * (j - 1)
  <2>1. j - 1 \in Nat /\ (j - 1) + 1 = j /\ j <= c
    OBVIOUS
  <2>2. y \in Nat /\ ByteBits * j = y + ByteBits /\ ByteBits * j <= x
    BY <1>1, <2>1, OneMore, Below
  <2>3. (j - 1) * ByteBits = y
    BY <1>1, <2>1
  <2>4. R[j] = [i \in 1..ByteBits |-> padded((j - 1) * ByteBits + i)]
    BY <1>5, <1>6
  <2>5. R[j][q] = padded(y + q) /\ R[j] = [i \in 1..ByteBits |-> R[j][i]]
    BY <2>3, <2>4
  <2> HIDE DEF y, x
  <2>6. y + q \in 1..l
    BY <1>1, <1>4, <2>2
  <2> QED
    BY <1>3, <2>5, <2>6 DEF y
<1>8. R \in Seq(Byte) /\ Len(R) = c
  <2>1. R = [j \in 1..c |-> R[j]]
    BY <1>5, <1>6
  <2>2. ASSUME NEW j \in 1..c PROVE R[j] \in Byte
    <3>1. 1 \in 1..ByteBits
      BY <1>1
    <3>2. R[j] = [i \in 1..ByteBits |-> R[j][i]]
      BY <1>7, <3>1
    <3>3. \A i \in 1..ByteBits : R[j][i] \in {0, 1}
      BY <1>7
    <3> QED
      BY <3>2, <3>3 DEF Byte
  <2> QED
    BY <2>1, <2>2
<1>9. ASSUME NEW j \in 1..Len(R), NEW q \in 1..ByteBits, NEW i \in 1..Len(F),
             NEW p \in 1..TokenBits,
             ByteBits * (j - 1) + q = TokenBits * (i - 1) + p
      PROVE  R[j][q] = S!BitsOf(F[i])[p]
  BY <1>3, <1>7, <1>8, <1>9
<1>10. ByteBits * Len(R) = TokenBits * Len(F)
  BY <1>8
<1> QED
  BY <1>8, <1>9, <1>10 DEF Packed, R

(* What is sent after it follows it, bit by bit.                           *)
LEMMA PackedFollows ==
  ASSUME Sizes, NEW F \in Seq(Nat), NEW H \in Seq(Nat), NEW R, NEW Q,
         Packed(F, R), Packed(H, Q)
  PROVE  Packed(F \o H, R \o Q)
<1> DEFINE f == Len(F)
           h == Len(H)
           r == Len(R)
           u == Len(Q)
           E == F \o H
           P == R \o Q
           T == TokenBits
           B == ByteBits
<1>1. /\ R \in Seq(Byte) /\ Q \in Seq(Byte) /\ T \in Nat \ {0} /\ B \in Nat \ {0}
      /\ f \in Nat /\ h \in Nat /\ r \in Nat /\ u \in Nat
      /\ B * r = T * f /\ B * u = T * h
  BY DEF Packed, Sizes
<1>2. /\ \A j \in 1..r, q \in 1..B, i \in 1..f, p \in 1..T :
           B * (j - 1) + q = T * (i - 1) + p => R[j][q] = S!BitsOf(F[i])[p]
      /\ \A j \in 1..u, q \in 1..B, i \in 1..h, p \in 1..T :
           B * (j - 1) + q = T * (i - 1) + p => Q[j][q] = S!BitsOf(H[i])[p]
  BY DEF Packed
<1>3. /\ E \in Seq(Nat) /\ Len(E) = f + h
      /\ \A i \in 1..f : E[i] = F[i]
      /\ \A i \in 1..h : E[f + i] = H[i]
  OBVIOUS
<1>4. /\ P \in Seq(Byte) /\ Len(P) = r + u
      /\ \A j \in 1..r : P[j] = R[j]
      /\ \A j \in 1..u : P[r + j] = Q[j]
  BY <1>1
<1> HIDE DEF f, h, r, u, E, P, T, B
<1>5. B * (r + u) = T * (f + h)
  <2>1. B * (r + u) = B * r + B * u /\ T * (f + h) = T * f + T * h
    BY <1>1, SMTT(30)
  <2> QED
    BY <1>1, <2>1
<1>6. ASSUME NEW j \in 1..Len(P), NEW q \in 1..B, NEW i \in 1..Len(E),
             NEW p \in 1..T, B * (j - 1) + q = T * (i - 1) + p
      PROVE  P[j][q] = S!BitsOf(E[i])[p]
  <2> DEFINE x == B * (j - 1)
             y == T * (i - 1)
             z == B * r
  <2>1. j - 1 \in Nat /\ i - 1 \in Nat /\ x + q = y + p
    BY <1>6
  <2>2. x \in Nat /\ y \in Nat /\ z \in Nat /\ z = T * f
    BY <1>1, <2>1, OneMore
  <2>3. CASE j <= r
    <3>1. j \in 1..r /\ B * ((j - 1) + 1) = x + B /\ (j - 1) + 1 = j
      BY <1>1, <2>1, <2>3, OneMore
    <3>2. B * j <= z
      BY <1>1, <2>3, Below
    <3>3. T * (i - 1) + p <= T * f
      <4> HIDE DEF x, y, z
      <4>1. x + q <= z
        BY <1>1, <2>2, <3>1, <3>2
      <4> QED
        BY <2>1, <2>2, <4>1 DEF y
    <3>4. i - 1 < f
      BY <1>1, <2>1, <3>3, Inside
    <3>5. i \in 1..f
      BY <1>1, <3>4
    <3>6. R[j][q] = S!BitsOf(F[i])[p]
      BY <1>2, <1>6, <3>1, <3>5
    <3> QED
      BY <1>3, <1>4, <3>1, <3>5, <3>6
  <2>4. CASE ~ j <= r
    <3> DEFINE l == j - r
               e == i - f
    <3>1. l \in 1..u /\ r + l = j /\ l - 1 \in Nat /\ j - 1 = r + (l - 1)
      BY <1>1, <1>4, <2>4
    <3>2. B * (r + (l - 1)) = B * r + B * (l - 1) /\ B * (l - 1) \in Nat
      BY <1>1, <3>1, SMTT(30)
    <3>3. ~ i <= f
      <4> SUFFICES ASSUME i <= f PROVE FALSE
        OBVIOUS
      <4>1. T * ((i - 1) + 1) = y + T /\ (i - 1) + 1 = i
        BY <1>1, <2>1, OneMore
      <4>2. T * i <= T * f
        BY <1>1, Below
      <4> DEFINE w == B * (l - 1)
      <4>3. x = z + w /\ w \in Nat
        BY <3>1, <3>2
      <4> HIDE DEF x, y, z, w, l
      <4>4. y + T <= z
        BY <2>2, <4>1, <4>2
      <4> QED
        BY <1>1, <2>1, <2>2, <4>3, <4>4
    <3>4. e \in 1..h /\ f + e = i /\ e - 1 \in Nat /\ i - 1 = f + (e - 1)
      BY <1>1, <1>3, <3>3
    <3>5. T * (f + (e - 1)) = T * f + T * (e - 1) /\ T * (e - 1) \in Nat
      BY <1>1, <3>4, SMTT(30)
    <3> DEFINE w == B * (l - 1)
               v == T * (e - 1)
    <3>6. x = z + w /\ y = z + v /\ w \in Nat /\ v \in Nat
      BY <2>2, <3>1, <3>2, <3>4, <3>5
    <3> HIDE DEF x, y, z, l, e
    <3>7. w + q = v + p
      <4> HIDE DEF w, v
      <4> QED
        BY <1>1, <2>1, <2>2, <3>6
    <3>8. Q[l][q] = S!BitsOf(H[e])[p]
      BY <1>2, <3>1, <3>4, <3>7
    <3> QED
      BY <1>3, <1>4, <3>1, <3>4, <3>8
  <2> QED
    BY <2>3, <2>4
<1> QED
  BY <1>3, <1>4, <1>5, <1>6 DEF Packed, E, P, T, B

(* What came in so far unpacks to the tokens it holds whole.               *)
LEMMA Unpacked ==
  ASSUME Sizes, NEW F \in Seq(Nat), \A i \in 1..Len(F) : Fits(F[i]),
         NEW R \in Seq(Byte), NEW Q \in Seq(Byte), Packed(F, R \o Q)
  PROVE  /\ S!Tokens(R) \in 0..Len(F)
         /\ S!unpack10(R, S!Tokens(R)) = SubSeq(F, 1, S!Tokens(R))
         /\ Q = <<>> => S!Tokens(R) = Len(F)
<1> DEFINE T == TokenBits
           B == ByteBits
           r == Len(R)
           f == Len(F)
           n == S!Tokens(R)
           P == R \o Q
           x == B * r
           y == T * n
           z == T * f
           b == S!FlattenSeq(R)
<1>1. T \in Nat \ {0} /\ B \in Nat \ {0} /\ r \in Nat /\ f \in Nat
  BY DEF Sizes
<1>2. /\ P \in Seq(Byte) /\ Len(P) = r + Len(Q) /\ Len(Q) \in Nat
      /\ \A j \in 1..r : P[j] = R[j]
  OBVIOUS
<1>3. /\ B * Len(P) = z
      /\ \A j \in 1..Len(P), q \in 1..B, i \in 1..f, p \in 1..T :
           B * (j - 1) + q = T * (i - 1) + p => P[j][q] = S!BitsOf(F[i])[p]
  BY DEF Packed
<1>4. /\ b \in Seq({0, 1}) /\ Len(b) = x
      /\ \A j \in 1..r, q \in 1..B : b[B * (j - 1) + q] = R[j][q]
  <2> DEFINE D == {0, 1}
  <2> HIDE DEF D, T, r, f, n, P, x, y, z, b
  <2>1. \A s \in Byte : s \in Seq(D) /\ Len(s) = B
    BY <1>1 DEF Byte, D
  <2>2. R \in Seq(Seq(D)) /\ AllOf(B, R)
    BY <2>1 DEF AllOf
  <2> HIDE DEF B
  <2>3. S!FlattenSeq(R) \in Seq(D) /\ EndToEnd(B, R, S!FlattenSeq(R))
    BY <1>1, <2>2, FlatEven
  <2> QED
    BY <2>3 DEF EndToEnd, D, b, x, r
<1>5. n = x \div T
  BY <1>1 DEF S!Tokens
<1>6. x = y + (x % T) /\ n \in Nat /\ x % T \in 0..T - 1 /\ x \in Nat
  <2> HIDE DEF n, r
  <2>1. x \in Nat
    BY <1>1, OneMore
  <2> HIDE DEF x, T
  <2>2. x = T * (x \div T) + (x % T) /\ x \div T \in Nat
    BY <1>1, <2>1, Division
  <2>3. x % T \in 0..T - 1
    BY <1>1, <2>1, ModRange
  <2> QED
    BY <1>5, <2>1, <2>2, <2>3
<1>7. x <= z /\ (Q = <<>> => x = z) /\ y \in Nat /\ z \in Nat
  <2> HIDE DEF n, r, f, P, T, B
  <2>1. r <= Len(P) /\ (Q = <<>> => Len(P) = r)
    BY <1>1, <1>2
  <2>2. B * r <= B * Len(P)
    BY <1>1, <1>2, <2>1, Below
  <2>3. y \in Nat /\ z \in Nat
    BY <1>1, <1>6, OneMore
  <2> QED
    BY <1>3, <2>1, <2>2, <2>3
<1>71. n \in Nat /\ x \in Nat /\ y <= x
  <2> DEFINE w == x % T
  <2>1. x = y + w /\ n \in Nat /\ w \in 0..T - 1 /\ x \in Nat
    BY <1>6
  <2> HIDE DEF n, x, y, w, T
  <2> QED
    BY <1>1, <1>7, <2>1
<1>8. n <= f
  <2> SUFFICES ASSUME f < n PROVE FALSE
    <3> HIDE DEF n, f
    <3> QED
      BY <1>1, <1>6
  <2> HIDE DEF n, r, f, P, T, B
  <2>1. f + 1 <= n
    BY <1>1, <1>6
  <2>2. T * (f + 1) = z + T /\ T * (f + 1) <= y
    BY <1>1, <1>6, <2>1, OneMore, Below
  <2> HIDE DEF x, y, z
  <2> QED
    BY <1>1, <1>6, <1>7, <2>2
<1>9. Q = <<>> => n = f
  <2> SUFFICES ASSUME Q = <<>>, n < f PROVE FALSE
    <3> HIDE DEF n, f
    <3> QED
      BY <1>1, <1>6, <1>8
  <2> HIDE DEF n, r, f, P, T, B
  <2>1. n + 1 <= f
    BY <1>1, <1>6
  <2>2. T * (n + 1) = y + T /\ T * (n + 1) <= z
    BY <1>1, <1>6, <2>1, OneMore, Below
  <2> HIDE DEF x, y, z
  <2> QED
    BY <1>1, <1>6, <1>7, <2>2
<1>10. ASSUME NEW i \in 1..n
       PROVE  SubSeq(b, (i - 1) * T + 1, i * T) = S!BitsOf(F[i])
  <2> HIDE DEF n, r, f, P, T, B, b
  <2> DEFINE v == T * (i - 1)
             s == SubSeq(b, (i - 1) * T + 1, i * T)
  <2>1. i - 1 \in Nat /\ (i - 1) + 1 = i /\ i \in Nat /\ i <= n /\ i \in 1..f
    BY <1>1, <1>6, <1>8
  <2>2. v \in Nat /\ T * i = v + T /\ T * i <= y
    BY <1>1, <1>6, <2>1, OneMore, Below
  <2>3. (i - 1) * T = v /\ i * T = v + T
    <3>1. (i - 1) * T = T * (i - 1) /\ i * T = T * i
      BY <1>1, <2>1
    <3> QED
      BY <2>2, <3>1
  <2>4. s = SubSeq(b, v + 1, v + T)
    BY <2>3
  <2> HIDE DEF v, s, x, y
  <2>5. v \in Nat /\ v + T <= x
    <3> DEFINE w == T * i
    <3>1. v \in Nat /\ w = v + T /\ w <= y
      BY <2>2
    <3> HIDE DEF w
    <3> QED
      BY <1>1, <1>7, <1>71, <3>1
  <2>6. /\ s \in Seq({0, 1}) /\ Len(s) = T
        /\ \A p \in 1..T : s[p] = b[v + p]
    <3>1. \A l \in v + 1..v + T : b[l] \in {0, 1}
      BY <1>1, <1>4, <2>2, <2>5
    <3>2. v + 1 <= v + T /\ (v + T) - (v + 1) + 1 = T
      BY <1>1, <2>2
    <3>3. v + 1 \in Int /\ v + T \in Int
      BY <1>1, <2>2
    <3> DEFINE D == {0, 1}
               lo == v + 1
               hi == v + T
    <3>4. lo \in Int /\ hi \in Int /\ \A l \in lo..hi : b[l] \in D
      BY <3>1, <3>3
    <3> HIDE DEF D, lo, hi
    <3>5. /\ SubSeq(b, lo, hi) \in Seq(D)
          /\ Len(SubSeq(b, lo, hi)) = IF lo <= hi THEN hi - lo + 1 ELSE 0
          /\ \A l \in 1..hi - lo + 1 : SubSeq(b, lo, hi)[l] = b[lo + l - 1]
      BY <3>4, SubSeqProperties
    <3>6. \A p \in 1..T : p \in 1..hi - lo + 1 /\ lo + p - 1 = v + p
      BY <1>1, <2>2, <3>2 DEF lo, hi
    <3> QED
      BY <2>4, <3>2, <3>5, <3>6 DEF D, lo, hi
  <2>7. Fits(F[i]) /\ F[i] \in Nat
    BY <2>1 DEF f
  <2>8. S!BitsOf(F[i]) \in Seq({0, 1}) /\ Len(S!BitsOf(F[i])) = T
    BY <1>1, <2>7, BitsType DEF T
  <2>9. ASSUME NEW p \in 1..T PROVE s[p] = S!BitsOf(F[i])[p]
    <3> DEFINE l == v + p - 1
               j == l \div B
               q == l % B
    <3>1. l \in Nat /\ l < x
      <4> HIDE DEF j, q
      <4> QED
        BY <1>1, <1>71, <2>5
    <3> HIDE DEF l
    <3>2. l = B * j + q /\ j \in Nat /\ q \in 0..B - 1
      BY <1>1, <3>1, Division, ModRange
    <3> HIDE DEF j, q
    <3>3. q + 1 \in 1..B /\ B * j + (q + 1) = l + 1
      <4> DEFINE w == B * j
      <4>1. w \in Nat
        BY <1>1, <3>2, OneMore
      <4> HIDE DEF w
      <4> QED
        BY <1>1, <3>1, <3>2, <4>1 DEF w
    <3>4. B * j + (q + 1) <= B * r
      <4>1. l + 1 <= x
        BY <1>71, <3>1
      <4> QED
        BY <3>3, <4>1 DEF x
    <3>41. j \in Nat /\ q + 1 \in 1..B
      BY <3>2, <3>3
    <3>5. j < r
      BY <1>1, <3>41, <3>4, Inside
    <3>6. j + 1 \in 1..r /\ (j + 1) - 1 = j /\ j + 1 \in 1..Len(P)
      BY <1>1, <1>2, <3>41, <3>5
    <3>7. b[B * j + (q + 1)] = R[j + 1][q + 1]
      BY <1>4, <3>3, <3>6
    <3>8. l + 1 = v + p
      BY <2>2 DEF l
    <3>9. B * ((j + 1) - 1) + (q + 1) = T * (i - 1) + p
      BY <3>3, <3>6, <3>8 DEF v
    <3>10. P[j + 1][q + 1] = S!BitsOf(F[i])[p]
      BY <1>3, <2>1, <3>3, <3>6, <3>9
    <3>11. b[v + p] = R[j + 1][q + 1]
      BY <3>3, <3>7, <3>8
    <3>12. P[j + 1] = R[j + 1]
      BY <1>2, <3>6
    <3> QED
      BY <2>6, <3>10, <3>11, <3>12
  <2> DEFINE D == {0, 1}
             u == S!BitsOf(F[i])
  <2>10. s \in Seq(D) /\ u \in Seq(D) /\ Len(s) = Len(u)
         /\ \A p \in 1..Len(s) : s[p] = u[p]
    BY <2>6, <2>8, <2>9
  <2> HIDE DEF D, u
  <2>11. s = u
    BY <2>10, SeqEqual
  <2> QED
    BY <2>11 DEF s, u
<1>11. S!unpack10(R, n) = SubSeq(F, 1, n)
  <2> DEFINE e == S!unpack10(R, n)
             g == SubSeq(F, 1, n)
  <2>1. e = [i \in 1..n |-> S!TokenOf(SubSeq(b, (i - 1) * T + 1, i * T))]
    BY DEF S!unpack10
  <2> HIDE DEF e, n
  <2>2. ASSUME NEW i \in 1..n PROVE e[i] = F[i] /\ F[i] \in Nat
    <3>1. e[i] = S!TokenOf(SubSeq(b, (i - 1) * T + 1, i * T))
      BY <2>1
    <3>2. e[i] = S!TokenOf(S!BitsOf(F[i]))
      BY <1>10, <3>1
    <3>3. i \in 1..f
      BY <1>6, <1>8
    <3>4. Fits(F[i]) /\ F[i] \in Nat
      BY <3>3
    <3> QED
      BY <1>1, <3>2, <3>4, TokenOfBits
  <2>3. e = [i \in 1..n |-> e[i]]
    BY <2>1
  <2>4. e \in Seq(Nat) /\ Len(e) = n
    BY <1>71, <2>2, <2>3
  <2>5. g \in Seq(Nat) /\ Len(g) = n /\ \A i \in 1..n : g[i] = F[i]
    BY <1>6, <1>8
  <2> HIDE DEF g
  <2>6. e = g
    BY <2>2, <2>4, <2>5, SeqEqual
  <2> QED
    BY <2>6 DEF e, g
<1> QED
  BY <1>6, <1>8, <1>9, <1>11

(* The streamer keeps: what was sent is the beginning of what was said,    *)
(* whole bytes of it, and what waits is the rest; after the end, what was  *)
(* sent is all that was said and, to fill whole bytes, its last token.     *)
Left == carry \o S!FlattenSeq(pend)
StreamType ==
  /\ said \in Seq(Nat) /\ carry \in Seq(Nat) /\ pend \in Seq(Seq(Nat))
  /\ rx \in Seq(Byte) /\ board \in Seq(Byte) /\ bc_open \in BOOLEAN
  /\ chunks \in 0..MaxChunks
SaidTokens ==
  /\ \A i \in 1..Len(said) : said[i] = i
  /\ said = <<>> \/ \E n \in ChunkSizes : Len(said) <= chunks * n
SentAt(m) ==
  /\ Left = SubSeq(said, m + 1, Len(said))
  /\ Packed(SubSeq(said, 1, m), rx \o board)
  /\ ~bc_open => m = 0
Sending == at = "speaking" => \E m \in 0..Len(said) : SentAt(m)
FilledBy(t) ==
  /\ Len(t) < Whole /\ \A i \in 1..Len(t) : t[i] = Len(said)
  /\ said = <<>> => t = <<>>
  /\ Packed(said \o t, rx \o board)
SaidAll == at # "speaking" => \E t \in Seq(Nat) : FilledBy(t)
PackInv == StreamType /\ SaidTokens /\ Sending /\ SaidAll

LEMMA StreamSizes ==
  ASSUME S!StreamerAssumption
  PROVE  /\ Sizes /\ Whole \in Nat \ {0} /\ Per \in Nat \ {0}
         /\ ChunkSizes \subseteq Nat \ {0} /\ MaxChunks \in Nat
         /\ (Whole * TokenBits) % ByteBits = 0
         /\ \A n \in ChunkSizes : \A v \in 1..MaxChunks * n : Fits(v)
<1>1. \A n \in ChunkSizes : \A v \in 1..MaxChunks * n : v \in Nat
  BY DEF S!StreamerAssumption
<1> QED
  BY <1>1 DEF S!StreamerAssumption, Sizes, Fits

LEMMA NothingPacked ==
  ASSUME Sizes
  PROVE  Packed(<<>>, <<>>)
  BY DEF Packed, Sizes

LEMMA StreamStart ==
  ASSUME S!StreamerAssumption, S!Init
  PROVE  PackInv
<1>1. /\ pend = <<>> /\ carry = <<>> /\ bc_open = FALSE /\ board = <<>>
      /\ rx = <<>> /\ at = "speaking" /\ chunks = 0 /\ said = <<>>
  BY DEF S!Init
<1>2. StreamType /\ SaidTokens /\ SaidAll
  <2>1. MaxChunks \in Nat
    BY StreamSizes
  <2>2. <<>> \in Seq(Nat) /\ <<>> \in Seq(Seq(Nat)) /\ <<>> \in Seq(Byte)
        /\ 0 \in 0..MaxChunks /\ 1..Len(<<>>) = {}
    BY <2>1
  <2>3. StreamType
    BY <1>1, <2>2 DEF StreamType
  <2> QED
    BY <1>1, <2>2, <2>3 DEF SaidTokens, SaidAll
<1>3. SentAt(0)
  <2>1. S!FlattenSeq(<<>>) = <<>>
    BY FlatNone
  <2>2. Left = SubSeq(said, 0 + 1, Len(said))
    <3>1. Left = <<>>
      BY <1>1, <2>1 DEF Left
    <3>2. SubSeq(said, 0 + 1, Len(said)) = <<>>
      BY <1>1
    <3> QED
      BY <3>1, <3>2
  <2>3. SubSeq(said, 1, 0) = <<>> /\ rx \o board = <<>>
    BY <1>1
  <2>4. Packed(SubSeq(said, 1, 0), rx \o board)
    BY <2>3, StreamSizes, NothingPacked
  <2> QED
    BY <2>2, <2>4 DEF SentAt
<1>4. 0 \in 0..Len(said)
  BY <1>1
<1> QED
  BY <1>2, <1>3, <1>4 DEF PackInv, Sending

(* A command of whole bytes: what is sent after what was sent.             *)
LEMMA WholeFits ==
  ASSUME S!StreamerAssumption, NEW q \in Nat
  PROVE  \E c \in Nat : TokenBits * (q * Whole) = ByteBits * c
<1> DEFINE w == Whole * TokenBits
           d == w \div ByteBits
<1>1. /\ TokenBits \in Nat \ {0} /\ ByteBits \in Nat \ {0}
      /\ Whole \in Nat \ {0} /\ w % ByteBits = 0
  BY StreamSizes DEF Sizes
<1>2. w \in Nat
  BY <1>1, SMTT(30)
<1> HIDE DEF w
<1>3. w = ByteBits * d + (w % ByteBits) /\ d \in Nat
  BY <1>1, <1>2, Division
<1> HIDE DEF d
<1>4. w = ByteBits * d
  <2> DEFINE v == ByteBits * d
  <2>1. v \in Nat
    BY <1>1, <1>3, OneMore
  <2> HIDE DEF v
  <2> QED
    BY <1>1, <1>2, <1>3, <2>1 DEF v
<1>5. TokenBits * (q * Whole) = q * w
  BY <1>1, SMTT(30) DEF w
<1>6. q * (ByteBits * d) = ByteBits * (q * d) /\ q * d \in Nat
  BY <1>1, <1>3, SMTT(30)
<1> QED
  BY <1>4, <1>5, <1>6

LEMMA Sent ==
  ASSUME S!StreamerAssumption, StreamType, NEW m \in 0..Len(said), SentAt(m),
         NEW F \in Seq(Nat), NEW q \in Nat, Len(F) = q * Whole,
         S!Command(bc_open, S!pack10(F))
  PROVE  /\ board' \in Seq(Byte)
         /\ Packed(SubSeq(said, 1, m) \o F, rx \o board')
<1> DEFINE H == SubSeq(said, 1, m)
           R == rx \o board
           P == S!pack10(F)
<1>1. PICK c \in Nat : TokenBits * Len(F) = ByteBits * c
  BY WholeFits
<1>2. Packed(F, P)
  BY <1>1, StreamSizes, PackedBits
<1>3. H \in Seq(Nat) /\ R \in Seq(Byte) /\ Packed(H, R) /\ P \in Seq(Byte)
  <2>1. P \in Seq(Byte)
    BY <1>2 DEF Packed
  <2>2. Packed(H, R) /\ R \in Seq(Byte)
    BY DEF SentAt, Packed
  <2>3. said \in Seq(Nat)
    BY DEF StreamType
  <2>4. H \in Seq(Nat)
    BY <2>3, BeginsCut
  <2> QED
    BY <2>1, <2>2, <2>4
<1>4. bc_open = FALSE => board = <<>>
  <2> SUFFICES ASSUME bc_open = FALSE PROVE board = <<>>
    OBVIOUS
  <2>1. m = 0 /\ H = <<>>
    BY DEF SentAt, StreamType
  <2>2. Len(H) = 0 /\ TokenBits * 0 = 0 /\ ByteBits \in Nat \ {0}
    BY <2>1, StreamSizes DEF Sizes
  <2>3. ByteBits * Len(R) = 0
    BY <1>3, <2>2 DEF Packed
  <2> DEFINE l == Len(R)
  <2>4. l \in Nat /\ ByteBits * l = 0
    BY <1>3, <2>3
  <2> HIDE DEF l
  <2>5. ASSUME l # 0 PROVE FALSE
    <3>1. ByteBits * l >= ByteBits
      BY <2>2, <2>4, <2>5, Grow
    <3> QED
      BY <2>2, <2>4, <3>1
  <2>6. Len(rx \o board) = 0
    BY <2>5 DEF l
  <2> QED
    BY <2>6 DEF StreamType
<1>5. board' = board \o P
  <2>1. board' = (IF bc_open THEN board ELSE <<>>) \o P
    BY DEF S!Command
  <2> HIDE DEF P, R, H
  <2>2. bc_open \in BOOLEAN
    BY DEF StreamType
  <2> QED
    BY <1>4, <2>1, <2>2
<1> HIDE DEF P
<1>6. board' \in Seq(Byte) /\ rx \o board' = R \o P
  <2>1. board \in Seq(Byte) /\ rx \in Seq(Byte)
    BY DEF StreamType
  <2> DEFINE B == Byte
  <2>2. board \in Seq(B) /\ rx \in Seq(B) /\ P \in Seq(B)
    BY <1>3, <2>1
  <2> HIDE DEF B
  <2>3. board \o P \in Seq(B) /\ (rx \o board) \o P = rx \o (board \o P)
    BY <2>2, ConcatAssociative
  <2> QED
    BY <1>5, <2>3 DEF B
<1>7. Packed(H \o F, R \o P)
  <2> HIDE DEF H, R
  <2> QED
    BY <1>2, <1>3, StreamSizes, PackedFollows
<1> QED
  BY <1>6, <1>7

LEMMA FlatTyped ==
  ASSUME NEW B, NEW ss \in Seq(Seq(B))
  PROVE  S!FlattenSeq(ss) \in Seq(B)
<1> DEFINE n == Len(ss)
           F(m) == S!FlattenSeq(SubSeq(ss, 1, m))
           G == {m \in Nat : m <= n => F(m) \in Seq(B)}
<1>1. n \in Nat
  OBVIOUS
<1>2. 0 \in G
  <2>1. SubSeq(ss, 1, 0) = <<>> /\ <<>> \in Seq(B)
    OBVIOUS
  <2>2. F(0) = <<>>
    BY <2>1, FlatNone
  <2> HIDE DEF F
  <2> QED
    BY <2>1, <2>2
<1>3. ASSUME NEW m \in Nat, m \in G PROVE m + 1 \in G
  <2> SUFFICES ASSUME m + 1 <= n PROVE F(m + 1) \in Seq(B)
    OBVIOUS
  <2>1. /\ SubSeq(ss, 1, m) \in Seq(Seq(B)) /\ ss[m + 1] \in Seq(B)
        /\ SubSeq(ss, 1, m + 1) = Append(SubSeq(ss, 1, m), ss[m + 1])
    BY <1>1
  <2>2. F(m + 1) = F(m) \o ss[m + 1]
    BY <2>1, FlatLast
  <2> DEFINE f == F(m)
             s == ss[m + 1]
  <2> HIDE DEF F
  <2>3. f \in Seq(B) /\ s \in Seq(B) /\ F(m + 1) = f \o s
    BY <1>1, <1>3, <2>1, <2>2
  <2> HIDE DEF f, s
  <2>4. f \o s \in Seq(B)
    BY <2>3, ConcatProperties
  <2> QED
    BY <2>3, <2>4
<1> HIDE DEF G
<1>4. \A m \in Nat : m \in G
  BY <1>2, <1>3, Induct, Zenon
<1>5. SubSeq(ss, 1, n) = ss
  OBVIOUS
<1> HIDE DEF F, n
<1>6. F(n) \in Seq(B)
  BY <1>1, <1>4 DEF G
<1> QED
  BY <1>5, <1>6 DEF F

LEMMA SubOf ==
  ASSUME NEW X, NEW s \in Seq(X), NEW a \in Nat, NEW b \in Nat, a <= b,
         b <= Len(s)
  PROVE  /\ SubSeq(s, a + 1, b) \in Seq(X)
         /\ Len(SubSeq(s, a + 1, b)) = b - a
         /\ \A i \in 1..b - a : SubSeq(s, a + 1, b)[i] = s[a + i]
<1> DEFINE l == b - a
           c == a + 1
<1>1. l \in Nat /\ c \in Nat \ {0} /\ b - c + 1 = l
      /\ \A i \in 1..l : c + i - 1 = a + i /\ a + i \in 1..Len(s)
      /\ c <= b + 1
  OBVIOUS
<1> HIDE DEF l, c
<1>2. /\ SubSeq(s, c, b) \in Seq(X)
      /\ Len(SubSeq(s, c, b)) = l
      /\ \A i \in 1..l : SubSeq(s, c, b)[i] = s[c + i - 1]
  BY <1>1
<1> QED
  BY <1>1, <1>2 DEF l, c

(* What waits, with what is said next, cut anywhere.                       *)
LEMMA Slices ==
  ASSUME NEW s \in Seq(Nat), NEW c \in Seq(Nat), NEW m \in 0..Len(s),
         NEW d \in 0..(Len(s) - m) + Len(c)
  PROVE  LET e == s \o c
             w == SubSeq(s, m + 1, Len(s)) \o c
         IN /\ w \in Seq(Nat) /\ Len(w) = (Len(s) - m) + Len(c)
            /\ w = SubSeq(e, m + 1, Len(e))
            /\ SubSeq(e, 1, m) = SubSeq(s, 1, m)
            /\ SubSeq(s, 1, m) \o SubSeq(w, 1, d) = SubSeq(e, 1, m + d)
            /\ SubSeq(w, d + 1, Len(w)) = SubSeq(e, m + d + 1, Len(e))
<1> DEFINE e == s \o c
           l == SubSeq(s, m + 1, Len(s))
           w == l \o c
           n == Len(s)
           u == Len(c)
<1>1. n \in Nat /\ u \in Nat /\ m \in Nat /\ d \in Nat /\ m <= n
      /\ d <= (n - m) + u
  OBVIOUS
<1>2. e \in Seq(Nat) /\ Len(e) = n + u
      /\ \A i \in 1..n + u : e[i] = IF i <= n THEN s[i] ELSE c[i - n]
  BY ConcatProperties
<1>3. l \in Seq(Nat) /\ Len(l) = n - m /\ \A i \in 1..n - m : l[i] = s[m + i]
  OBVIOUS
<1> HIDE DEF l, e, n, u
<1>4. w \in Seq(Nat) /\ Len(w) = (n - m) + u
      /\ \A i \in 1..(n - m) + u :
           w[i] = IF i <= n - m THEN l[i] ELSE c[i - (n - m)]
  <2>1. /\ w \in Seq(Nat) /\ Len(w) = Len(l) + Len(c)
        /\ \A i \in 1..Len(l) + Len(c) :
             w[i] = IF i <= Len(l) THEN l[i] ELSE c[i - Len(l)]
    BY <1>3, ConcatProperties
  <2>2. Len(l) = n - m /\ Len(c) = u
    BY <1>3 DEF u
  <2> HIDE DEF w
  <2> QED
    BY <2>1, <2>2
<1> HIDE DEF w
<1>5. \A i \in 1..(n - m) + u : w[i] = e[m + i]
  <2> SUFFICES ASSUME NEW i \in 1..(n - m) + u PROVE w[i] = e[m + i]
    OBVIOUS
  <2>1. m + i \in 1..n + u
    BY <1>1
  <2>2. CASE i <= n - m
    <3>1. m + i <= n /\ i \in 1..n - m
      BY <1>1, <2>2
    <3> QED
      BY <1>2, <1>3, <1>4, <2>1, <2>2, <3>1
  <2>3. CASE ~ i <= n - m
    <3>1. ~ m + i <= n /\ (m + i) - n = i - (n - m)
      BY <1>1, <2>3
    <3> QED
      BY <1>2, <1>4, <2>1, <2>3, <3>1
  <2> QED
    BY <2>2, <2>3
<1> DEFINE N == n + u
<1>6. N \in Nat /\ N = Len(e) /\ m <= N /\ m + d <= N /\ N - m = (n - m) + u
      /\ Len(w) = N - m
  BY <1>1, <1>2, <1>4
<1> HIDE DEF N
<1>7. \A i \in 1..N - m : w[i] = e[m + i]
  BY <1>5, <1>6
<1>8. ASSUME NEW x \in Nat, NEW y \in Nat, x <= y, y <= N
      PROVE  /\ SubSeq(e, x + 1, y) \in Seq(Nat)
             /\ Len(SubSeq(e, x + 1, y)) = y - x
             /\ \A i \in 1..y - x : SubSeq(e, x + 1, y)[i] = e[x + i]
  <2>1. y <= Len(e)
    BY <1>6, <1>8
  <2> QED
    BY <1>2, <1>8, <2>1, SubOf
<1>9. w = SubSeq(e, m + 1, Len(e))
  <2> DEFINE v == SubSeq(e, m + 1, N)
  <2>1. v \in Seq(Nat) /\ Len(v) = N - m /\ \A i \in 1..N - m : v[i] = e[m + i]
    <3>1. m \in Nat /\ N \in Nat /\ m <= N /\ N <= N
      BY <1>1, <1>6
    <3> QED
      BY <1>8, <3>1
  <2> HIDE DEF v
  <2>2. w = v
    BY <1>4, <1>6, <1>7, <2>1, SeqEqual
  <2> QED
    BY <1>6, <2>2 DEF v
<1>10. SubSeq(e, 1, m) = SubSeq(s, 1, m)
  <2> DEFINE v == SubSeq(e, 1, m)
             z == SubSeq(s, 1, m)
  <2>1. v \in Seq(Nat) /\ Len(v) = m /\ \A i \in 1..m : v[i] = e[i]
    BY <1>1, <1>2, <1>6, BeginsCut
  <2>2. z \in Seq(Nat) /\ Len(z) = m /\ \A i \in 1..m : z[i] = s[i]
    BY BeginsCut
  <2>3. \A i \in 1..m : i \in 1..n + u /\ i <= n
    BY <1>1
  <2>4. \A i \in 1..m : v[i] = z[i]
    BY <1>2, <2>1, <2>2, <2>3
  <2> HIDE DEF v, z
  <2>5. v = z
    BY <2>1, <2>2, <2>4, SeqEqual
  <2> QED
    BY <2>5 DEF v, z
<1>11. SubSeq(s, 1, m) \o SubSeq(w, 1, d) = SubSeq(e, 1, m + d)
  <2> DEFINE v == SubSeq(e, 1, m + d)
             z == SubSeq(e, 1, m)
             r == SubSeq(w, 1, d)
  <2>1. v \in Seq(Nat) /\ Len(v) = m + d /\ \A i \in 1..m + d : v[i] = e[i]
    BY <1>1, <1>2, <1>6, BeginsCut
  <2>2. z \in Seq(Nat) /\ Len(z) = m /\ \A i \in 1..m : z[i] = e[i]
    BY <1>1, <1>2, <1>6, BeginsCut
  <2>3. r \in Seq(Nat) /\ Len(r) = d /\ \A i \in 1..d : r[i] = w[i]
    BY <1>1, <1>4, <1>6, BeginsCut
  <2>4. \A i \in 1..d : i \in 1..N - m /\ m + i \in 1..m + d
    BY <1>1, <1>6
  <2>5. \A i \in 1..m : i \in 1..m + d
    BY <1>1
  <2> HIDE DEF v, z, r
  <2>6. \A i \in 1..Len(z) : v[i] = z[i]
    BY <2>1, <2>2, <2>5
  <2>7. \A i \in 1..Len(r) : v[Len(z) + i] = r[i]
    BY <1>7, <2>1, <2>2, <2>3, <2>4
  <2>8. Len(v) = Len(z) + Len(r)
    BY <2>1, <2>2, <2>3
  <2>9. v = z \o r
    BY <2>1, <2>2, <2>3, <2>6, <2>7, <2>8, Pieced
  <2> QED
    BY <1>10, <2>9 DEF v, z, r
<1>12. SubSeq(w, d + 1, Len(w)) = SubSeq(e, m + d + 1, Len(e))
  <2> DEFINE M == m + d
             v == SubSeq(e, M + 1, N)
             r == SubSeq(w, d + 1, N - m)
  <2>1. M \in Nat /\ M <= N /\ N - m \in Nat /\ d <= N - m /\ N - M = (N - m) - d
    BY <1>1, <1>6
  <2>2. v \in Seq(Nat) /\ Len(v) = N - M /\ \A i \in 1..N - M : v[i] = e[M + i]
    <3>1. N \in Nat /\ N <= N
      BY <1>6
    <3> HIDE DEF M
    <3> QED
      BY <1>8, <2>1, <3>1
  <2>3. r \in Seq(Nat) /\ Len(r) = (N - m) - d
        /\ \A i \in 1..(N - m) - d : r[i] = w[d + i]
    BY <1>1, <1>4, <1>6, <2>1
  <2>4. \A i \in 1..N - M : d + i \in 1..N - m /\ m + (d + i) = M + i
    BY <1>1, <1>6
  <2> HIDE DEF v, r
  <2>5. \A i \in 1..N - M : v[i] = r[i]
    BY <1>7, <2>1, <2>2, <2>3, <2>4
  <2>6. v = r
    BY <2>1, <2>2, <2>3, <2>5, SeqEqual
  <2> QED
    BY <1>6, <2>6 DEF v, r
<1> QED
  BY <1>4, <1>9, <1>10, <1>11, <1>12 DEF e, w, l, n, u

LEMMA SaidGrows ==
  ASSUME S!StreamerAssumption, StreamType, SaidTokens, chunks < MaxChunks,
         NEW n \in ChunkSizes,
         said' = said \o [i \in 1..n |-> Len(said) + i], chunks' = chunks + 1
  PROVE  said' \in Seq(Nat) /\ chunks' \in 0..MaxChunks /\ SaidTokens'
<1> DEFINE l == Len(said)
           c == [i \in 1..n |-> l + i]
           e == said'
<1>1. said \in Seq(Nat) /\ l \in Nat /\ n \in Nat \ {0} /\ chunks \in Nat
      /\ MaxChunks \in Nat /\ chunks + 1 \in 0..MaxChunks
      /\ \A i \in 1..l : said[i] = i
  BY StreamSizes DEF StreamType, SaidTokens
<1>2. c \in Seq(Nat) /\ Len(c) = n /\ \A i \in 1..n : c[i] = l + i
  <2> HIDE DEF l
  <2> QED
    BY <1>1
<1>3. e = said \o c
  OBVIOUS
<1> HIDE DEF c, e
<1>4. e \in Seq(Nat) /\ Len(e) = l + n
      /\ \A i \in 1..l + n : e[i] = IF i <= l THEN said[i] ELSE c[i - l]
  BY <1>1, <1>2, <1>3, ConcatProperties
<1>5. \A i \in 1..l + n : e[i] = i
  <2> SUFFICES ASSUME NEW i \in 1..l + n PROVE e[i] = i
    OBVIOUS
  <2> HIDE DEF l
  <2>1. CASE i <= l
    <3>1. i \in 1..l
      BY <1>1, <2>1
    <3> QED
      BY <1>1, <1>4, <2>1, <3>1
  <2>2. CASE ~ i <= l
    <3>1. i - l \in 1..n /\ l + (i - l) = i
      BY <1>1, <2>2
    <3> QED
      BY <1>2, <1>4, <2>2, <3>1
  <2> QED
    BY <2>1, <2>2
<1>6. \E q \in ChunkSizes : l + n <= (chunks + 1) * q
  <2>1. (chunks + 1) * n = chunks * n + n /\ chunks * n \in Nat
    BY <1>1, SMTT(30)
  <2>2. CASE said = <<>>
    <3>1. l = 0
      BY <2>2
    <3> DEFINE w == chunks * n
    <3> HIDE DEF w, l
    <3>2. l + n <= (chunks + 1) * n
      BY <1>1, <2>1, <3>1 DEF w
    <3> QED
      BY <3>2
  <2>3. CASE said # <<>>
    <3>1. PICK p \in ChunkSizes : l <= chunks * p
      BY <2>3 DEF SaidTokens
    <3>2. p \in Nat \ {0}
      BY StreamSizes
    <3>3. (chunks + 1) * p = chunks * p + p /\ chunks * p \in Nat
      BY <1>1, <3>2, SMTT(30)
    <3>4. p <= n => chunks * p <= chunks * n
      <4>1. CASE chunks = 0
        BY <1>1, <3>2, <4>1
      <4>2. CASE chunks # 0
        BY <1>1, <3>2, <4>2, Below
      <4> QED
        BY <4>1, <4>2
    <3> DEFINE w == chunks * n
               v == chunks * p
    <3> HIDE DEF w, v, l
    <3>5. CASE p <= n
      <4>1. l + n <= (chunks + 1) * n
        BY <1>1, <2>1, <3>1, <3>2, <3>3, <3>4, <3>5 DEF w, v
      <4> QED
        BY <4>1
    <3>6. CASE ~ p <= n
      <4>1. l <= v /\ (chunks + 1) * p = v + p /\ v \in Nat
        BY <3>1, <3>3 DEF v
      <4>2. l + n <= (chunks + 1) * p
        BY <1>1, <3>2, <3>6, <4>1
      <4> QED
        BY <4>2
    <3> QED
      BY <3>5, <3>6
  <2> QED
    BY <2>2, <2>3
<1>7. said' \in Seq(Nat) /\ Len(said') = l + n /\ \A i \in 1..l + n : said'[i] = i
  BY <1>4, <1>5 DEF e
<1> HIDE DEF l
<1>8. SaidTokens'
  BY <1>6, <1>7 DEF SaidTokens
<1> QED
  BY <1>1, <1>7, <1>8

LEMMA SpeakKeeps ==
  ASSUME S!StreamerAssumption, PackInv, S!Speak
  PROVE  PackInv'
<1> USE DEF PackInv
<1>1. PICK n \in ChunkSizes :
        LET chunk == [i \in 1..n |-> Len(said) + i]
            group == Append(pend, chunk)
            idx == carry \o S!FlattenSeq(group)
        IN /\ said' = said \o chunk
           /\ IF Len(group) >= Per THEN S!Group(idx, S!WholeBytes(Len(idx)))
              ELSE pend' = group /\ UNCHANGED <<carry, bc_open, board>>
  BY DEF S!Speak
<1>2. /\ at = "speaking" /\ chunks < MaxChunks /\ chunks' = chunks + 1
      /\ rx' = rx /\ at' = at
  BY DEF S!Speak
<1> DEFINE l == Len(said)
           chunk == [i \in 1..n |-> l + i]
           group == Append(pend, chunk)
           idx == carry \o S!FlattenSeq(group)
           keep == S!WholeBytes(Len(idx))
           e == said'
<1>3. /\ said' = said \o chunk
      /\ IF Len(group) >= Per THEN S!Group(idx, keep)
         ELSE pend' = group /\ UNCHANGED <<carry, bc_open, board>>
  BY <1>1
<1>4. said' \in Seq(Nat) /\ chunks' \in 0..MaxChunks /\ SaidTokens'
  BY <1>2, <1>3, SaidGrows
<1>5. /\ said \in Seq(Nat) /\ carry \in Seq(Nat) /\ pend \in Seq(Seq(Nat))
      /\ rx \in Seq(Byte) /\ board \in Seq(Byte) /\ bc_open \in BOOLEAN
  BY DEF StreamType
<1>6. chunk \in Seq(Nat) /\ Len(chunk) = n
  <2>1. l \in Nat /\ n \in Nat
    BY <1>5, StreamSizes
  <2> HIDE DEF l
  <2> QED
    BY <2>1
<1> HIDE DEF chunk, l
<1>7. PICK m \in 0..Len(said) : SentAt(m)
  BY <1>2 DEF Sending
<1>8. /\ Left = SubSeq(said, m + 1, Len(said))
      /\ Packed(SubSeq(said, 1, m), rx \o board)
      /\ ~bc_open => m = 0
  BY <1>7, Zenon DEF SentAt
<1>9. group \in Seq(Seq(Nat)) /\ idx = Left \o chunk
  <2>1. S!FlattenSeq(group) = S!FlattenSeq(pend) \o chunk
    BY <1>5, <1>6, FlatLast
  <2>2. S!FlattenSeq(pend) \in Seq(Nat)
    BY <1>5, FlatTyped
  <2> DEFINE f == S!FlattenSeq(pend)
  <2>3. f \in Seq(Nat) /\ S!FlattenSeq(group) = f \o chunk /\ Left = carry \o f
    BY <2>1, <2>2 DEF Left
  <2> HIDE DEF f
  <2>4. (carry \o f) \o chunk = carry \o (f \o chunk)
    <3> DEFINE X == Nat
    <3>1. carry \in Seq(X) /\ f \in Seq(X) /\ chunk \in Seq(X)
      BY <1>5, <1>6, <2>3
    <3> HIDE DEF X
    <3> QED
      BY <3>1, ConcatAssociative
  <2>5. group \in Seq(Seq(Nat))
    BY <1>5, <1>6
  <2> HIDE DEF group
  <2> QED
    BY <2>3, <2>4, <2>5
<1> HIDE DEF group, idx
<1> DEFINE N == (Len(said) - m) + Len(chunk)
<1>10. ASSUME NEW d \in 0..N
       PROVE  /\ idx \in Seq(Nat) /\ Len(idx) = N
              /\ idx = SubSeq(e, m + 1, Len(e))
              /\ SubSeq(e, 1, m) = SubSeq(said, 1, m)
              /\ SubSeq(said, 1, m) \o SubSeq(idx, 1, d) = SubSeq(e, 1, m + d)
              /\ SubSeq(idx, d + 1, Len(idx)) = SubSeq(e, m + d + 1, Len(e))
  <2>1. e = said \o chunk /\ idx = SubSeq(said, m + 1, Len(said)) \o chunk
    BY <1>3, <1>8, <1>9
  <2> HIDE DEF e
  <2> QED
    BY <1>5, <1>6, <1>10, <2>1, Slices
<1>11. N \in Nat /\ m + N = Len(e) /\ e \in Seq(Nat) /\ n \in Nat
  <2>1. Len(e) = Len(said) + Len(chunk)
    BY <1>3, <1>5, <1>6, ConcatProperties
  <2>2. n \in Nat /\ Len(said) \in Nat
    BY <1>5, StreamSizes
  <2> HIDE DEF e
  <2> QED
    BY <1>4, <1>6, <2>1, <2>2 DEF e
<1>12. idx \in Seq(Nat) /\ Len(idx) = N /\ SubSeq(idx, 0 + 1, Len(idx)) = idx
       /\ idx = SubSeq(e, m + 1, Len(e)) /\ SubSeq(e, 1, m) = SubSeq(said, 1, m)
  <2>1. 0 \in 0..N
    BY <1>11
  <2>2. idx \in Seq(Nat) /\ Len(idx) = N /\ idx = SubSeq(e, m + 1, Len(e))
        /\ SubSeq(e, 1, m) = SubSeq(said, 1, m)
    BY <1>10, <2>1
  <2>3. SubSeq(idx, 1, Len(idx)) = idx
    BY <2>2, SubSeqFull
  <2> QED
    BY <2>2, <2>3
<1>13. m \in 0..Len(e)
  <2> HIDE DEF N, e
  <2> QED
    BY <1>5, <1>7, <1>11
<1> HIDE DEF N, e, keep
<1>14. CASE ~ Len(group) >= Per
  <2>1. /\ pend' = group /\ carry' = carry /\ bc_open' = bc_open
        /\ board' = board
    BY <1>3, <1>14
  <2>2. StreamType'
    BY <1>2, <1>4, <1>5, <1>9, <2>1 DEF StreamType
  <2>3. Left' = idx
    BY <2>1 DEF Left, idx
  <2>4. SentAt(m)'
    <3>1. Left' = SubSeq(said', m + 1, Len(said'))
      BY <1>12, <2>3 DEF e
    <3>2. Packed(SubSeq(said', 1, m), rx' \o board')
      BY <1>2, <1>8, <1>12, <2>1 DEF e
    <3> QED
      BY <1>8, <2>1, <3>1, <3>2 DEF SentAt
  <2>5. Sending' /\ SaidAll'
    BY <1>2, <1>13, <2>4 DEF Sending, SaidAll, e
  <2> QED
    BY <1>4, <2>2, <2>5
<1>15. CASE Len(group) >= Per
  <2> DEFINE q == Len(idx) \div Whole
  <2>1. /\ pend' = <<>> /\ carry' = SubSeq(idx, keep + 1, Len(idx))
        /\ IF keep = 0 THEN UNCHANGED <<bc_open, board>>
           ELSE /\ S!Command(bc_open, S!pack10(SubSeq(idx, 1, keep)))
                /\ bc_open' = TRUE
    BY <1>3, <1>15 DEF S!Group
  <2>2. keep = q * Whole /\ keep \in 0..N /\ q \in Nat
    <3>1. N \in Nat /\ Whole \in Nat \ {0}
      BY <1>11, StreamSizes
    <3>2. N = Whole * (N \div Whole) + (N % Whole) /\ N \div Whole \in Nat
      BY <3>1, Division
    <3>3. N % Whole \in 0..Whole - 1
      BY <3>1, ModRange
    <3> DEFINE c == N \div Whole
               r == N % Whole
               w == Whole * c
    <3>4. keep = c * Whole /\ q = c
      BY <1>12 DEF keep, S!WholeBytes
    <3> HIDE DEF q, c
    <3>5. c * Whole = w /\ w \in Nat
      BY <3>1, <3>2, SMTT(30) DEF c
    <3>6. N = w + r /\ r \in Nat
      BY <3>1, <3>2, <3>3 DEF c
    <3> HIDE DEF w, r
    <3>7. keep \in 0..N
      BY <3>1, <3>4, <3>5, <3>6
    <3>8. c \in Nat
      BY <3>2 DEF c
    <3> QED
      BY <3>4, <3>7, <3>8
  <2> HIDE DEF q
  <2>3. /\ SubSeq(said, 1, m) \o SubSeq(idx, 1, keep) = SubSeq(e, 1, m + keep)
        /\ carry' = SubSeq(e, m + keep + 1, Len(e))
    BY <1>10, <2>1, <2>2
  <2>4. carry' \in Seq(Nat) /\ m + keep \in 0..Len(e)
    <3>1. m + keep \in 0..Len(e)
      <4>1. m \in Nat
        BY <1>5, <1>7
      <4> QED
        BY <1>11, <2>2, <4>1
    <3>2. m + keep \in Nat /\ Len(e) \in Nat /\ m + keep <= Len(e)
      BY <1>11, <3>1
    <3> DEFINE M == m + keep
    <3>3. M \in Nat /\ M <= Len(e)
      BY <3>2
    <3> HIDE DEF M
    <3>4. SubSeq(e, M + 1, Len(e)) \in Seq(Nat)
      BY <1>11, <3>2, <3>3, SubOf
    <3> QED
      BY <2>3, <3>1, <3>4 DEF M
  <2>5. Left' = carry'
    <3>1. S!FlattenSeq(<<>>) = <<>>
      BY FlatNone
    <3>2. carry' \o <<>> = carry'
      BY <2>4, ConcatEmptySeq
    <3> QED
      BY <2>1, <3>1, <3>2 DEF Left
  <2>6. Left' = SubSeq(said', (m + keep) + 1, Len(said'))
    BY <2>3, <2>5 DEF e
  <2>7. CASE keep = 0
    <3>1. bc_open' = bc_open /\ board' = board
      BY <2>1, <2>7
    <3>2. StreamType'
      BY <1>2, <1>4, <1>5, <2>1, <2>4, <3>1 DEF StreamType
    <3>3. m + keep = m
      BY <1>5, <1>7, <2>7
    <3>4. SentAt(m)'
      <4>1. Packed(SubSeq(said', 1, m), rx' \o board')
        BY <1>2, <1>8, <1>12, <3>1 DEF e
      <4>2. Left' = SubSeq(said', m + 1, Len(said'))
        BY <2>6, <3>3
      <4> QED
        BY <1>8, <3>1, <4>1, <4>2 DEF SentAt
    <3>5. Sending' /\ SaidAll'
      BY <1>2, <1>13, <3>4 DEF Sending, SaidAll, e
    <3> QED
      BY <1>4, <3>2, <3>5
  <2>8. CASE keep # 0
    <3> DEFINE F == SubSeq(idx, 1, keep)
    <3>1. S!Command(bc_open, S!pack10(F)) /\ bc_open' = TRUE
      BY <2>1, <2>8
    <3>2. F \in Seq(Nat) /\ Len(F) = keep
      BY <1>12, <2>2, BeginsCut
    <3> HIDE DEF F
    <3>3. /\ board' \in Seq(Byte)
          /\ Packed(SubSeq(said, 1, m) \o F, rx \o board')
      BY <1>7, <2>2, <3>1, <3>2, Sent
    <3>4. StreamType'
      BY <1>2, <1>4, <1>5, <2>1, <2>4, <3>1, <3>3 DEF StreamType
    <3>5. PICK M \in 0..Len(e) : M = m + keep
      BY <2>4
    <3>6. Packed(SubSeq(said', 1, M), rx' \o board')
      BY <1>2, <2>3, <3>3, <3>5 DEF F, e
    <3>7. Left' = SubSeq(said', M + 1, Len(said'))
      BY <2>6, <3>5
    <3>8. SentAt(M)'
      BY <3>1, <3>6, <3>7 DEF SentAt
    <3>9. Sending' /\ SaidAll'
      BY <1>2, <3>5, <3>8 DEF Sending, SaidAll, e
    <3> QED
      BY <1>4, <3>4, <3>9
  <2> QED
    BY <2>7, <2>8
<1> QED
  BY <1>14, <1>15

(* At the end what waits goes out, filled up with its last token.          *)
LEMMA TailIs ==
  ASSUME NEW w \in Seq(Nat), w # <<>>, Whole \in Nat \ {0}
  PROVE  \E t \in Seq(Nat), q \in Nat :
           /\ S!Tail10(w) = w \o t /\ Len(t) < Whole
           /\ \A i \in 1..Len(t) : t[i] = w[Len(w)]
           /\ w \o t \in Seq(Nat) /\ Len(w \o t) = q * Whole
<1> DEFINE n == Len(w)
           r == n % Whole
           c == n \div Whole
           x == Whole * c
           p == [i \in 1..Whole - r |-> S!Last(w)]
           t == IF r = 0 THEN <<>> ELSE p
<1>1. n \in Nat \ {0} /\ w[n] \in Nat /\ S!Last(w) = w[n]
  BY DEF S!Last
<1>2. n = x + r /\ c \in Nat
  BY <1>1, Division
<1>3. r \in 0..Whole - 1
  BY <1>1, ModRange
<1>4. S!Tail10(w) = w \o t
  BY DEF S!Tail10
<1>5. x \in Nat /\ Whole * (c + 1) = x + Whole
  BY <1>2, OneMore
<1>6. c * Whole = Whole * c /\ (c + 1) * Whole = Whole * (c + 1)
  BY <1>2, SMTT(30)
<1> HIDE DEF r, c, x, n
<1>7. CASE r = 0
  <2>1. t = <<>>
    BY <1>7
  <2>2. w \o <<>> = w /\ Len(<<>>) = 0 /\ 1..0 = {} /\ <<>> \in Seq(Nat)
    OBVIOUS
  <2>3. Len(w) = c * Whole
    BY <1>1, <1>2, <1>5, <1>6, <1>7 DEF n, x
  <2> HIDE DEF t
  <2>4. w \o t = w /\ t \in Seq(Nat) /\ Len(t) < Whole
    BY <2>1, <2>2
  <2>5. \A i \in 1..Len(t) : t[i] = w[Len(w)]
    BY <2>1, <2>2
  <2> QED
    BY <1>2, <1>4, <2>3, <2>4, <2>5
<1>8. CASE r # 0
  <2>1. t = p
    BY <1>8
  <2>2. p \in Seq(Nat) /\ Len(p) = Whole - r
        /\ \A i \in 1..Whole - r : p[i] = w[n]
    BY <1>1, <1>3
  <2> HIDE DEF p, t
  <2>3. t \in Seq(Nat) /\ Len(t) = Whole - r /\ Len(t) < Whole
        /\ \A i \in 1..Len(t) : t[i] = w[Len(w)]
    BY <1>3, <1>8, <2>1, <2>2 DEF n
  <2>4. w \o t \in Seq(Nat) /\ Len(w \o t) = n + (Whole - r)
    BY <2>3, ConcatProperties DEF n
  <2>5. Len(w \o t) = (c + 1) * Whole
    <3>1. n + (Whole - r) = x + Whole
      BY <1>1, <1>2, <1>3, <1>5
    <3> QED
      BY <1>5, <1>6, <2>4, <3>1
  <2>6. c + 1 \in Nat
    BY <1>2
  <2> QED
    BY <1>4, <2>3, <2>4, <2>5, <2>6
<1> QED
  BY <1>7, <1>8

LEMMA CloseKeeps ==
  ASSUME S!StreamerAssumption, PackInv, S!Close
  PROVE  PackInv'
<1> USE DEF PackInv
<1>1. /\ at = "speaking" /\ at' = "draining" /\ pend' = pend /\ carry' = carry
      /\ bc_open' = bc_open /\ rx' = rx /\ chunks' = chunks /\ said' = said
      /\ IF Left = <<>> THEN UNCHANGED board
         ELSE S!Command(bc_open, S!pack10(S!Tail10(Left)))
  BY DEF S!Close, Left
<1>2. /\ said \in Seq(Nat) /\ carry \in Seq(Nat) /\ pend \in Seq(Seq(Nat))
      /\ rx \in Seq(Byte) /\ board \in Seq(Byte) /\ bc_open \in BOOLEAN
      /\ chunks \in 0..MaxChunks
  BY DEF StreamType
<1>3. PICK m \in 0..Len(said) : SentAt(m)
  BY <1>1 DEF Sending
<1>4. /\ Left = SubSeq(said, m + 1, Len(said))
      /\ Packed(SubSeq(said, 1, m), rx \o board)
  BY <1>3, Zenon DEF SentAt
<1>5. SaidTokens'
  BY <1>1 DEF SaidTokens
<1>6. m \in Nat /\ Len(said) \in Nat /\ m <= Len(said)
  BY <1>2
<1>7. Left \in Seq(Nat) /\ Len(Left) = Len(said) - m
      /\ \A i \in 1..Len(said) - m : Left[i] = said[m + i]
  <2>1. /\ SubSeq(said, m + 1, Len(said)) \in Seq(Nat)
        /\ Len(SubSeq(said, m + 1, Len(said))) = Len(said) - m
        /\ \A i \in 1..Len(said) - m :
             SubSeq(said, m + 1, Len(said))[i] = said[m + i]
    BY <1>2, <1>6, SubOf
  <2> QED
    BY <1>4, <2>1
<1>8. CASE Left = <<>>
  <2>1. board' = board /\ m = Len(said)
    <3>1. Len(Left) = 0
      BY <1>8
    <3> QED
      BY <1>1, <1>6, <1>7, <1>8, <3>1
  <2>2. StreamType'
    BY <1>1, <1>2, <2>1 DEF StreamType
  <2>3. SubSeq(said, 1, Len(said)) = said /\ said \o <<>> = said
    BY <1>2
  <2>4. Packed(said \o <<>>, rx \o board)
    BY <1>4, <2>1, <2>3
  <2>5. /\ Len(<<>>) < Whole /\ 1..Len(<<>>) = {} /\ <<>> \in Seq(Nat)
    BY StreamSizes
  <2>6. FilledBy(<<>>)'
    BY <1>1, <2>1, <2>4, <2>5 DEF FilledBy
  <2>7. Sending' /\ SaidAll'
    BY <1>1, <2>5, <2>6 DEF Sending, SaidAll
  <2> QED
    BY <1>5, <2>2, <2>7
<1>9. CASE Left # <<>>
  <2>0. Whole \in Nat \ {0}
    BY StreamSizes
  <2>1. PICK t \in Seq(Nat), q \in Nat :
          /\ S!Tail10(Left) = Left \o t /\ Len(t) < Whole
          /\ \A i \in 1..Len(t) : t[i] = Left[Len(Left)]
          /\ Left \o t \in Seq(Nat) /\ Len(Left \o t) = q * Whole
    BY <1>7, <1>9, <2>0, TailIs
  <2> DEFINE F == Left \o t
  <2>2. S!Command(bc_open, S!pack10(F)) /\ F \in Seq(Nat) /\ Len(F) = q * Whole
    BY <1>1, <1>9, <2>1
  <2>3. /\ board' \in Seq(Byte)
        /\ Packed(SubSeq(said, 1, m) \o F, rx \o board')
    <3> HIDE DEF F
    <3> QED
      BY <1>3, <2>2, Sent
  <2>4. SubSeq(said, 1, m) \o F = said \o t
    <3> DEFINE h == SubSeq(said, 1, m)
    <3>1. h \in Seq(Nat)
      BY <1>2, <1>6, BeginsCut
    <3>2. h \o Left = said
      <4>1. h \o SubSeq(said, m + 1, Len(said)) = SubSeq(said, 1, Len(said))
        <5>1. 1 \in 1..Len(said) + 1 /\ m \in 1 - 1..Len(said)
              /\ Len(said) \in m..Len(said)
          BY <1>6
        <5> QED
          BY <1>2, <5>1, ConcatAdjacentSubSeq
      <4> QED
        BY <1>2, <1>4, <4>1, SubSeqFull
    <3> DEFINE X == Nat
               v == Left
    <3>3. h \in Seq(X) /\ v \in Seq(X) /\ t \in Seq(X)
      BY <1>7, <3>1
    <3> HIDE DEF X, h, v
    <3>4. (h \o v) \o t = h \o (v \o t)
      BY <3>3, ConcatAssociative
    <3> QED
      BY <3>2, <3>4 DEF v, h
  <2>5. said # <<>> /\ Left[Len(Left)] = Len(said)
    <3> DEFINE d == Len(said) - m
    <3>1. Len(Left) # 0
      BY <1>7, <1>9
    <3>2. d \in 1..d /\ m + d = Len(said) /\ Len(said) \in 1..Len(said)
      BY <1>6, <1>7, <3>1
    <3>3. Left[d] = said[Len(said)]
      BY <1>7, <3>2
    <3>4. said[Len(said)] = Len(said)
      BY <3>2 DEF SaidTokens
    <3> QED
      BY <1>7, <3>2, <3>3, <3>4
  <2>6. StreamType'
    BY <1>1, <1>2, <2>3 DEF StreamType
  <2>7. FilledBy(t)'
    <3>1. Packed(said \o t, rx \o board')
      BY <2>3, <2>4
    <3> QED
      BY <1>1, <2>1, <2>5, <3>1 DEF FilledBy
  <2>8. Sending' /\ SaidAll'
    BY <1>1, <2>7 DEF Sending, SaidAll
  <2> QED
    BY <1>5, <2>6, <2>8
<1> QED
  BY <1>8, <1>9

LEMMA ReceiverKeeps ==
  ASSUME PackInv, S!receiver
  PROVE  PackInv'
<1> USE DEF PackInv
<1>1. PICK n \in 1..Len(board) :
        /\ rx' = rx \o SubSeq(board, 1, n)
        /\ board' = SubSeq(board, n + 1, Len(board))
  BY DEF S!receiver
<1>2. /\ pend' = pend /\ carry' = carry /\ bc_open' = bc_open /\ at' = at
      /\ chunks' = chunks /\ said' = said
  BY DEF S!receiver
<1>3. rx \in Seq(Byte) /\ board \in Seq(Byte)
  BY DEF StreamType
<1>4. /\ rx' \in Seq(Byte) /\ board' \in Seq(Byte)
      /\ rx' \o board' = rx \o board
  <2> DEFINE B == Byte
             p == SubSeq(board, 1, n)
             q == SubSeq(board, n + 1, Len(board))
             b == board
             r == rx
  <2>1. n \in Nat /\ Len(b) \in Nat /\ n <= Len(b) /\ n \in 0..Len(b)
    BY <1>3
  <2>2. p \in Seq(B)
    BY <1>3, <2>1, BeginsCut
  <2>3. q \in Seq(B)
    BY <1>3, <2>1, SubOf
  <2>4. p \o q = b
    <3>1. 1 \in 1..Len(b) + 1 /\ n \in 1 - 1..Len(b) /\ Len(b) \in n..Len(b)
      BY <2>1
    <3>2. SubSeq(b, 1, n) \o SubSeq(b, n + 1, Len(b)) = SubSeq(b, 1, Len(b))
      BY <1>3, <3>1, ConcatAdjacentSubSeq
    <3>3. SubSeq(b, 1, Len(b)) = b
      BY <1>3, SubSeqFull
    <3> QED
      BY <3>2, <3>3
  <2>5. rx' = r \o p /\ board' = q /\ r \in Seq(B)
    BY <1>1, <1>3
  <2> HIDE DEF B, p, q, b, r
  <2>6. (r \o p) \o q = r \o (p \o q) /\ r \o p \in Seq(B)
    BY <2>2, <2>3, <2>5, ConcatAssociative, ConcatProperties
  <2> QED
    BY <2>3, <2>4, <2>5, <2>6 DEF B, b, r
<1>5. StreamType'
  BY <1>2, <1>4 DEF StreamType
<1>6. SaidTokens'
  BY <1>2 DEF SaidTokens
<1>7. Sending'
  <2>1. ASSUME NEW m, SentAt(m) PROVE SentAt(m)'
    BY <1>2, <1>4, <2>1 DEF SentAt, Left
  <2> QED
    BY <1>2, <2>1 DEF Sending
<1>8. SaidAll'
  <2>1. ASSUME NEW t, FilledBy(t) PROVE FilledBy(t)'
    BY <1>2, <1>4, <2>1 DEF FilledBy
  <2> QED
    BY <1>2, <2>1 DEF SaidAll
<1> QED
  BY <1>5, <1>6, <1>7, <1>8

LEMMA StreamKeeps ==
  ASSUME S!StreamerAssumption, PackInv, [S!Next]_(S!streaming)
  PROVE  PackInv'
<1>1. CASE S!Speak
  BY <1>1, SpeakKeeps
<1>2. CASE S!Close
  BY <1>2, CloseKeeps
<1>3. CASE S!receiver
  BY <1>3, ReceiverKeeps
<1>4. CASE S!Result
  <2>1. /\ pend' = pend /\ carry' = carry /\ bc_open' = bc_open /\ rx' = rx
        /\ board' = board /\ chunks' = chunks /\ said' = said
        /\ at # "speaking" /\ at' # "speaking"
    BY <1>4 DEF S!Result
  <2> QED
    BY <2>1 DEF PackInv, StreamType, SaidTokens, Sending, SaidAll, FilledBy
<1>5. CASE UNCHANGED S!streaming
  <2>1. /\ pend' = pend /\ carry' = carry /\ bc_open' = bc_open /\ rx' = rx
        /\ board' = board /\ chunks' = chunks /\ said' = said /\ at' = at
    BY <1>5 DEF S!streaming
  <2> QED
    BY <2>1 DEF PackInv, StreamType, SaidTokens, Sending, SaidAll, FilledBy,
                SentAt, Left
<1> QED
  BY <1>1, <1>2, <1>3, <1>4, <1>5 DEF S!Next

(* What the receiver unpacks begins what was said; once all bytes came in  *)
(* it is all of it.                                                        *)
LEMMA StreamSays ==
  ASSUME S!StreamerAssumption, PackInv
  PROVE  S!SpeechTrue
<1> USE DEF PackInv
<1> DEFINE l == Len(said)
           fill == [i \in 1..Whole - 1 |-> l]
           filled == said \o fill
           T == S!Tokens(rx)
           spoken == S!unpack10(rx, T)
<1>1. /\ said \in Seq(Nat) /\ rx \in Seq(Byte) /\ board \in Seq(Byte)
      /\ l \in Nat /\ \A i \in 1..l : said[i] = i
  BY DEF StreamType, SaidTokens
<1>2. Whole \in Nat \ {0} /\ Sizes
  BY StreamSizes
<1>3. fill \in Seq(Nat) /\ Len(fill) = Whole - 1
      /\ \A i \in 1..Whole - 1 : fill[i] = l
  <2> HIDE DEF l
  <2> QED
    BY <1>1, <1>2
<1>4. \E t \in Seq(Nat), H \in Seq(Nat) :
        /\ Len(t) < Whole /\ \A i \in 1..Len(t) : t[i] = l
        /\ said = <<>> => t = <<>>
        /\ Packed(H, rx \o board) /\ Len(H) <= Len(said \o t)
        /\ \A i \in 1..Len(H) : H[i] = (said \o t)[i]
        /\ at # "speaking" => H = said \o t
  <2>1. CASE at = "speaking"
    <3>1. PICK m \in 0..Len(said) : SentAt(m)
      BY <2>1 DEF Sending
    <3> DEFINE H == SubSeq(said, 1, m)
    <3>2. H \in Seq(Nat) /\ Len(H) = m /\ \A i \in 1..m : H[i] = said[i]
      BY <1>1, BeginsCut
    <3>3. Packed(H, rx \o board) /\ m <= Len(said)
      BY <3>1 DEF SentAt
    <3>4. said \o <<>> = said /\ <<>> \in Seq(Nat) /\ Len(<<>>) = 0
      BY <1>1
    <3> HIDE DEF H, l
    <3>5. /\ Len(<<>>) < Whole /\ \A i \in 1..Len(<<>>) : <<>>[i] = l
      BY <1>2, <3>4
    <3>6. Len(H) <= Len(said \o <<>>)
      BY <3>2, <3>3, <3>4
    <3>7. \A i \in 1..Len(H) : H[i] = (said \o <<>>)[i]
      BY <3>2, <3>4
    <3>8. at # "speaking" => H = said \o <<>>
      BY <2>1
    <3> QED
      BY <3>2, <3>3, <3>4, <3>5, <3>6, <3>7, <3>8, Zenon
  <2>2. CASE at # "speaking"
    <3>1. PICK t \in Seq(Nat) : FilledBy(t)
      BY <2>2 DEF SaidAll
    <3> DEFINE H == said \o t
    <3>2. H \in Seq(Nat) /\ Len(H) <= Len(said \o t)
      BY <1>1
    <3>3. /\ Len(t) < Whole /\ \A i \in 1..Len(t) : t[i] = l
          /\ said = <<>> => t = <<>>
          /\ Packed(H, rx \o board)
      BY <3>1, Zenon DEF FilledBy
    <3>4. \A i \in 1..Len(H) : H[i] = (said \o t)[i]
      OBVIOUS
    <3>5. at # "speaking" => H = said \o t
      OBVIOUS
    <3> HIDE DEF H, l
    <3> QED
      BY <3>2, <3>3, <3>4, <3>5
  <2> QED
    BY <2>1, <2>2
<1>5. PICK t \in Seq(Nat), H \in Seq(Nat) :
        /\ Len(t) < Whole /\ \A i \in 1..Len(t) : t[i] = l
        /\ said = <<>> => t = <<>>
        /\ Packed(H, rx \o board) /\ Len(H) <= Len(said \o t)
        /\ \A i \in 1..Len(H) : H[i] = (said \o t)[i]
        /\ at # "speaking" => H = said \o t
  BY <1>4, Zenon
<1>6. /\ Len(said \o t) = l + Len(t) /\ said \o t \in Seq(Nat)
      /\ \A i \in 1..l + Len(t) :
           (said \o t)[i] = IF i <= l THEN said[i] ELSE t[i - l]
  BY <1>1, <1>5, ConcatProperties
<1>7. /\ filled \in Seq(Nat) /\ Len(filled) = l + (Whole - 1)
      /\ \A i \in 1..l + (Whole - 1) :
           filled[i] = IF i <= l THEN said[i] ELSE fill[i - l]
  <2>1. /\ filled \in Seq(Nat) /\ Len(filled) = Len(said) + Len(fill)
        /\ \A i \in 1..Len(said) + Len(fill) :
           filled[i] = IF i <= Len(said) THEN said[i] ELSE fill[i - Len(said)]
    <3> HIDE DEF fill
    <3> QED
      BY <1>1, <1>3, ConcatProperties
  <2> HIDE DEF filled, fill
  <2> QED
    BY <1>3, <2>1
<1> HIDE DEF filled, fill, l, T
<1>8. \A i \in 1..Len(H) :
        /\ i \in 1..l + (Whole - 1) /\ H[i] = filled[i]
        /\ l # 0 /\ H[i] \in 1..l
  <2> SUFFICES ASSUME NEW i \in 1..Len(H)
               PROVE  /\ i \in 1..l + (Whole - 1) /\ H[i] = filled[i]
                      /\ l # 0 /\ H[i] \in 1..l
    OBVIOUS
  <2> DEFINE u == Len(t)
             h == Len(H)
  <2>1. u \in Nat /\ u < Whole /\ h \in Nat /\ h <= l + u /\ i \in 1..h
        /\ l \in Nat
    BY <1>1, <1>5, <1>6
  <2>2. H[i] = IF i <= l THEN said[i] ELSE t[i - l]
    <3>1. i \in 1..l + u
      BY <2>1
    <3> QED
      BY <1>5, <1>6, <3>1
  <2>3. i \in 1..l + (Whole - 1)
    <3> HIDE DEF u, h
    <3> QED
      BY <1>2, <2>1
  <2>4. CASE i <= l
    <3>1. i \in 1..l /\ l # 0
      BY <2>1, <2>4
    <3> QED
      BY <1>1, <1>7, <2>2, <2>3, <2>4, <3>1
  <2>5. CASE ~ i <= l
    <3>1. i - l \in 1..u /\ i - l \in 1..Whole - 1
      <4> HIDE DEF u, h
      <4> QED
        BY <1>2, <2>1, <2>5
    <3>2. H[i] = l
      BY <1>5, <2>2, <2>5, <3>1
    <3>3. filled[i] = l
      BY <1>3, <1>7, <2>3, <2>5, <3>1
    <3>4. l # 0
      <4> SUFFICES ASSUME l = 0 PROVE FALSE
        OBVIOUS
      <4>1. said = <<>>
        BY <1>1 DEF l
      <4>2. u = 0
        BY <1>5, <4>1
      <4> QED
        BY <3>1, <4>2
    <3> QED
      BY <1>1, <2>3, <3>2, <3>3, <3>4
  <2> QED
    BY <2>4, <2>5
<1>9. \A i \in 1..Len(H) : Fits(H[i])
  <2> SUFFICES ASSUME NEW i \in 1..Len(H) PROVE Fits(H[i])
    OBVIOUS
  <2>1. l # 0 /\ H[i] \in 1..l
    BY <1>8
  <2>2. said # <<>>
    BY <2>1 DEF l
  <2>3. PICK n \in ChunkSizes : l <= chunks * n
    BY <2>2 DEF SaidTokens, l
  <2>4. n \in Nat \ {0} /\ chunks \in Nat /\ MaxChunks \in Nat
        /\ chunks <= MaxChunks
    BY StreamSizes DEF StreamType
  <2> DEFINE x == chunks * n
             y == MaxChunks * n
  <2>5. x \in Nat /\ y \in Nat /\ x <= y
    <3>1. n * chunks <= n * MaxChunks /\ n * chunks \in Nat
          /\ n * MaxChunks \in Nat
      BY <2>4, Below
    <3>2. n * chunks = x /\ n * MaxChunks = y
      BY <2>4, SMTT(30)
    <3> HIDE DEF x, y
    <3> QED
      BY <3>1, <3>2
  <2>6. l <= x
    BY <2>3
  <2> HIDE DEF x, y
  <2>7. H[i] \in 1..y
    BY <1>1, <2>1, <2>5, <2>6
  <2>8. \A v \in 1..MaxChunks * n : Fits(v)
    BY StreamSizes
  <2> QED
    BY <2>7, <2>8 DEF y
<1>10. /\ T \in 0..Len(H)
       /\ spoken = SubSeq(H, 1, T)
       /\ board = <<>> => T = Len(H)
  BY <1>1, <1>2, <1>5, <1>9, Unpacked DEF T
<1> HIDE DEF spoken
<1>11. spoken \in Seq(Nat) /\ Len(spoken) = T /\ \A i \in 1..T : spoken[i] = H[i]
  <2>1. /\ SubSeq(H, 1, T) \in Seq(Nat) /\ Len(SubSeq(H, 1, T)) = T
        /\ \A i \in 1..T : SubSeq(H, 1, T)[i] = H[i]
    BY <1>10, BeginsCut
  <2> QED
    BY <1>10, <2>1
<1>12. S!IsPrefix(spoken, filled)
  <2>1. Len(H) \in Nat /\ \A i \in 1..T : i \in 1..Len(H)
    BY <1>10
  <2>2. Begins(spoken, filled)
    <3>1. T <= l + (Whole - 1)
      <4>1. CASE T = 0
        BY <1>1, <1>2, <4>1
      <4>2. CASE T # 0
        <5>1. T \in 1..T
          BY <1>10, <4>2
        <5> QED
          BY <1>8, <2>1, <5>1
      <4> QED
        BY <4>1, <4>2
    <3>2. \A i \in 1..T : spoken[i] = filled[i]
      BY <1>8, <1>11, <2>1
    <3> QED
      BY <1>7, <1>11, <3>1, <3>2 DEF Begins
  <2>3. IsPrefix(spoken, filled)
    BY <1>7, <1>11, <2>2, PrefixIsBegins
  <2> QED
    BY <2>3 DEF S!IsPrefix, IsPrefix
<1>13. ASSUME at # "speaking", board = <<>>
       PROVE  S!IsPrefix(said, spoken)
  <2>1. H = said \o t /\ T = Len(H) /\ T = l + Len(t) /\ Len(t) \in Nat
    <3>1. H = said \o t
      BY <1>5, <1>13, Zenon
    <3>2. T = Len(H)
      BY <1>10, <1>13, Zenon
    <3>3. Len(H) = l + Len(t)
      BY <1>6, <3>1, Zenon
    <3>4. Len(t) \in Nat
      BY <1>5
    <3> QED
      BY <3>1, <3>2, <3>3, <3>4
  <2>2. Begins(said, spoken)
    <3>1. l <= T /\ \A i \in 1..l : i \in 1..T /\ i \in 1..l + Len(t) /\ i <= l
      BY <1>1, <2>1
    <3>2. \A i \in 1..l : said[i] = spoken[i]
      BY <1>6, <1>11, <2>1, <3>1
    <3> QED
      BY <1>11, <3>1, <3>2 DEF Begins, l
  <2>3. IsPrefix(said, spoken)
    BY <1>1, <1>11, <2>2, PrefixIsBegins
  <2> QED
    BY <2>3 DEF S!IsPrefix, IsPrefix
<1> QED
  BY <1>12, <1>13 DEF S!SpeechTrue, spoken, filled, fill, l, T

(* What the receiver unpacks is what was said, for any size of the chunks  *)
(* and groups of a speech, of tokens that fit their bits, and of bytes.    *)
THEOREM PackingKept ==
  ASSUME S!StreamerAssumption
  PROVE  S!Spec => []S!SpeechTrue
<1>1. S!Init => PackInv
  BY StreamStart
<1>2. PackInv /\ [S!Next]_(S!streaming) => PackInv'
  BY StreamKeeps
<1>3. PackInv => S!SpeechTrue
  BY StreamSays
<1> QED
  BY <1>1, <1>2, <1>3, PTL DEF S!Spec
=============================================================================
