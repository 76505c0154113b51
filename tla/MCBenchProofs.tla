--------------------------- MODULE MCBenchProofs ---------------------------
(***************************************************************************)
(* Proofs about the programs that drive stations from outside, for every   *)
(* tick, delay and bound: the radio plays a frame to its end (SdrRadio),   *)
(* and what a station hears through the virtual channel (ChannelDriver).   *)
(***************************************************************************)
EXTENDS MCBench, NaturalLemmas, SequenceTheorems, TLAPS

(* A behaviour is about one component from its start to its end.           *)
LEMMA Stays == [Next]_all => which' = which
  BY DEF Next, all, SessionAlone, BenchAlone, ChainAlone, DriverAlone,
         RadioAlone

-----------------------------------------------------------------------------
(* The pump falls behind its clock by no more than a sleep is late, so     *)
(* that what is written runs ahead of what is played by no more than that. *)
PromptSleep == \A j \in Jitter : j <= MaxSleep

RadioType ==
  /\ {queued, tx_started, next_t, now, fifo, idle, gap} \subseteq Nat
  /\ mode \in {"rx", "tx"}
OnTime ==
  /\ next_t <= now /\ now <= next_t + MaxSleep
  /\ mode = "tx" =>
       tx_started <= now /\ queued + tx_started <= next_t + MaxSleep
(* What was written is played or held, and what was not played in time     *)
(* was lost in gaps.                                                       *)
Played ==
  /\ mode = "tx" => /\ fifo = queued - (now - tx_started) + gap + idle
                    /\ fifo = 0 \/ idle = 0
  /\ mode = "rx" => fifo = 0 /\ idle = 0 /\ gap = 0
RadioInv == RadioType /\ OnTime /\ Played /\ cut <= cause

(* The end of a round.                                                     *)
LEMMA RoundEnds ==
  ASSUME R!RadioAssumption, PromptSleep, NEW clock \in Nat, NEW lag \in Jitter,
         next_t \in Nat, R!Paced(clock, lag)
  PROVE  /\ {next_t', now'} \subseteq Nat /\ next_t' >= next_t + Fractions
         /\ clock >= next_t => now' >= clock
         /\ next_t' <= now' /\ now' <= next_t' + MaxSleep
<1>1. /\ Fractions \in Nat \ {0} /\ MaxSleep \in Nat /\ lag \in Nat
      /\ lag <= MaxSleep
  BY DEF R!RadioAssumption, PromptSleep
<1>2. CASE next_t + Fractions > clock
  <2>1. next_t' = next_t + Fractions /\ now' = next_t' + lag
    BY <1>2 DEF R!Paced
  <2> QED
    BY <1>1, <1>2, <2>1
<1>3. CASE ~ next_t + Fractions > clock
  <2>1. next_t' = clock /\ now' = clock
    BY <1>3 DEF R!Paced
  <2> QED
    BY <1>1, <1>3, <2>1
<1> QED
  BY <1>2, <1>3

LEMMA RadioStart ==
  ASSUME R!RadioAssumption, R!Init
  PROVE  RadioInv
  BY DEF R!RadioAssumption, R!Init, RadioInv, RadioType, OnTime, Played

LEMMA RadioStep ==
  ASSUME R!RadioAssumption, PromptSleep, RadioInv, [R!Next]_(R!vars)
  PROVE  RadioInv'
<1> USE DEF R!RadioAssumption, RadioInv, RadioType, OnTime, Played
<1>1. CASE R!Submit
  BY <1>1 DEF R!Submit, R!device, R!seen
<1>2. CASE R!Write
  <2>1. PICK lag \in Jitter : R!Paced(now, lag)
    BY <1>2 DEF R!Write
  <2>2. /\ {next_t', now'} \subseteq Nat /\ next_t' >= next_t + Fractions
        /\ now' >= now /\ next_t' <= now' /\ now' <= next_t' + MaxSleep
    BY <2>1, RoundEnds
  <2> DEFINE held == fifo + Fractions
  <2>3. /\ mode' = "tx" /\ cut' = cut /\ cause' = cause
        /\ queued' = (IF mode = "tx" THEN queued ELSE 0) + Fractions
        /\ tx_started' = IF mode = "tx" THEN tx_started ELSE now
        /\ fifo' = R!Left(held, now' - now) /\ idle' = R!Dry(held, now' - now)
        /\ gap' = IF mode = "tx" THEN gap + idle ELSE 0
    BY <1>2 DEF R!Write, R!seen
  <2>4. /\ {fifo', idle'} \subseteq Nat
        /\ fifo' = 0 \/ idle' = 0
        /\ fifo' - idle' = held - (now' - now)
    <3>1. held \in Nat /\ now' - now \in Nat
      BY <2>2
    <3> HIDE DEF held
    <3> QED
      BY <2>3, <3>1 DEF R!Left, R!Dry, R!Larger
  <2>5. {Fractions, MaxSleep} \subseteq Nat
    OBVIOUS
  <2> HIDE DEF R!RadioAssumption
  <2> DEFINE Kept ==
               /\ fifo' = queued' - (now' - tx_started') + gap' + idle'
               /\ queued' + tx_started' <= next_t' + MaxSleep
               /\ tx_started' <= now'
               /\ {queued', tx_started', gap'} \subseteq Nat
  <2>6. CASE Kept
    <3>1. RadioType'
      BY <2>2, <2>3, <2>4, <2>6
    <3>2. OnTime' /\ Played'
      BY <2>2, <2>3, <2>4, <2>6
    <3> QED
      BY <2>3, <3>1, <3>2
  <2>7. CASE mode = "tx"
    <3>1. /\ queued' = queued + Fractions /\ tx_started' = tx_started
          /\ gap' = gap + idle
      BY <2>3, <2>7
    <3>2. fifo' = queued' - (now' - tx_started') + gap' + idle'
      BY <2>2, <2>4, <2>5, <2>7, <3>1
    <3>3. queued' + tx_started' <= next_t' + MaxSleep /\ tx_started' <= now'
      BY <2>2, <2>5, <2>7, <3>1
    <3>4. {queued', tx_started', gap'} \subseteq Nat
      BY <2>5, <3>1
    <3> QED
      BY <3>2, <3>3, <3>4, <2>6
  <2>8. CASE mode = "rx"
    <3>1. queued' = Fractions /\ tx_started' = now /\ gap' = 0 /\ fifo = 0
      BY <2>3, <2>5, <2>8
    <3>2. fifo' = queued' - (now' - tx_started') + gap' + idle'
      BY <2>2, <2>4, <2>5, <3>1
    <3>3. queued' + tx_started' <= next_t' + MaxSleep /\ tx_started' <= now'
      BY <2>2, <2>5, <3>1
    <3>4. {queued', tx_started', gap'} \subseteq Nat
      BY <2>5, <3>1
    <3> QED
      BY <3>2, <3>3, <3>4, <2>6
  <2> QED
    BY <2>7, <2>8
<1>3. CASE R!EndTx
  <2>1. PICK lag \in Jitter, took \in R!Reading :
          R!Paced(now + R!Drain + took, lag)
    BY <1>3 DEF R!EndTx
  <2>2. /\ mode = "tx" /\ mode' = "rx" /\ queued' = 0 /\ cause' = gap
        /\ cut' = R!Left(fifo, R!Drain) /\ fifo' = 0 /\ idle' = 0 /\ gap' = 0
        /\ tx_started' = tx_started
    BY <1>3 DEF R!EndTx
  <2>3. R!Drain \in Nat /\ took \in Nat
    BY <2>2 DEF R!Drain, R!Larger, R!Smaller, R!Reading
  <2>4. /\ {next_t', now'} \subseteq Nat /\ next_t' <= now'
        /\ now' <= next_t' + MaxSleep
    <3>1. now + R!Drain + took \in Nat
      BY <2>3
    <3> QED
      BY <2>1, <3>1, RoundEnds
  <2>5. cut' <= cause'
    <3>1. queued - (now - tx_started) <= MaxSleep
      BY <2>2
    <3>2. R!Drain >= queued - (now - tx_started) /\ R!Drain >= 0
      BY <3>1, <2>2 DEF R!Drain, R!Larger, R!Smaller
    <3> QED
      BY <3>2, <2>2, <2>3 DEF R!Left, R!Larger
  <2> QED
    BY <2>2, <2>4, <2>5
<1>4. CASE R!Read
  <2>1. PICK lag \in Jitter, took \in R!Reading : R!Paced(now + took, lag)
    BY <1>4 DEF R!Read
  <2>2. took \in Nat
    BY DEF R!Reading
  <2>3. /\ {next_t', now'} \subseteq Nat /\ next_t' <= now'
        /\ now' <= next_t' + MaxSleep
    <3>1. now + took \in Nat
      BY <2>2
    <3> QED
      BY <2>1, <3>1, RoundEnds
  <2> QED
    BY <1>4, <2>3 DEF R!Read, R!device, R!seen
<1>5. CASE UNCHANGED R!vars
  BY <1>5 DEF R!vars, R!device, R!seen
<1> QED
  BY <1>1, <1>2, <1>3, <1>4, <1>5 DEF R!Next

(* The radio plays a frame to its end, whatever the ticks, the lateness    *)
(* and the length of a frame: as long as no sleep of the pump is later     *)
(* than the two seconds that end_tx waits at most, what the switch to      *)
(* receive cuts is what was lost in gaps between writes (end_tx).          *)
THEOREM TailPlayedAlways ==
  ASSUME PromptSleep
  PROVE  Spec => []TailPlayed
<1> DEFINE I == which = "radio" => RadioInv
<1>1. R!RadioAssumption
  BY BenchAssumption
<1>2. Init => I
  BY <1>1, RadioStart DEF Init
<1>3. I /\ [Next]_all => I'
  <2> SUFFICES ASSUME I, [Next]_all, which' = "radio"
               PROVE  RadioInv'
    OBVIOUS
  <2>1. which = "radio"
    BY Stays
  <2>2. [R!Next]_(R!vars)
    BY <2>1 DEF Next, all, R!vars, R!device, R!seen
  <2> QED
    BY <1>1, <2>1, <2>2, RadioStep
<1>4. I => TailPlayed
  BY DEF RadioInv, TailPlayed, R!TailPlayed
<1> QED
  BY <1>2, <1>3, <1>4, PTL DEF Spec

-----------------------------------------------------------------------------
(* Sequences of samples: those that are not silence, in order.             *)
Voiced(s) == {s[k] : k \in 1..Len(s)} \ {0}
Ahead(S, T) == \A a \in S, b \in T : a < b
Rising(s) == \A k \in 1..Len(s) : s[k] # 0 => \A j \in 1..k - 1 : s[j] < s[k]

LEMMA VoicedConcat ==
  ASSUME NEW s \in Seq(Nat), NEW t \in Seq(Nat)
  PROVE  s \o t \in Seq(Nat) /\ Voiced(s \o t) = Voiced(s) \cup Voiced(t)
<1> DEFINE u == s \o t
           m == Len(s)
           n == Len(t)
<1>1. /\ u \in Seq(Nat) /\ m \in Nat /\ n \in Nat /\ Len(u) = m + n
      /\ \A i \in 1..m + n : u[i] = IF i <= m THEN s[i] ELSE t[i - m]
  BY ConcatProperties, LenProperties
<1> HIDE DEF u, m, n
<1>2. \A k \in 1..Len(u) :
          u[k] \in {s[j] : j \in 1..m} \cup {t[j] : j \in 1..n}
  <2> TAKE k \in 1..Len(u)
  <2>1. CASE k <= m
    <3>1. k \in 1..m /\ u[k] = s[k]
      BY <1>1, <2>1
    <3> QED
      BY <3>1
  <2>2. CASE ~ k <= m
    <3>1. k - m \in 1..n /\ u[k] = t[k - m]
      BY <1>1, <2>2
    <3> QED
      BY <3>1
  <2> QED
    BY <2>1, <2>2
<1>3. \A j \in 1..m : s[j] \in {u[k] : k \in 1..Len(u)}
  <2> TAKE j \in 1..m
  <2>1. j \in 1..Len(u) /\ u[j] = s[j]
    BY <1>1
  <2> QED
    BY <2>1
<1>4. \A j \in 1..n : t[j] \in {u[k] : k \in 1..Len(u)}
  <2> TAKE j \in 1..n
  <2>1. j + m \in 1..Len(u) /\ u[j + m] = t[j]
    BY <1>1
  <2> QED
    BY <2>1
<1> QED
  BY <1>1, <1>2, <1>3, <1>4, Zenon DEF Voiced, u, m, n

LEMMA RisingConcat ==
  ASSUME NEW s \in Seq(Nat), NEW t \in Seq(Nat), Rising(s), Rising(t),
         Ahead(Voiced(s), Voiced(t))
  PROVE  Rising(s \o t)
<1> DEFINE u == s \o t
           m == Len(s)
           n == Len(t)
<1>1. /\ u \in Seq(Nat) /\ m \in Nat /\ n \in Nat /\ Len(u) = m + n
      /\ \A i \in 1..m + n : u[i] = IF i <= m THEN s[i] ELSE t[i - m]
  BY ConcatProperties, LenProperties
<1>2. /\ \A j \in 1..m : s[j] \in Nat
      /\ \A j \in 1..n : t[j] \in Nat
  BY ElementOfSeq
<1>3. \A a \in 1..m, b \in 1..n : s[a] # 0 /\ t[b] # 0 => s[a] < t[b]
  BY DEF Ahead, Voiced
<1>4. /\ \A k \in 1..m : s[k] # 0 => \A j \in 1..k - 1 : s[j] < s[k]
      /\ \A k \in 1..n : t[k] # 0 => \A j \in 1..k - 1 : t[j] < t[k]
  BY DEF Rising
<1> HIDE DEF u, m, n
<1> SUFFICES ASSUME NEW k \in 1..m + n, u[k] # 0, NEW j \in 1..k - 1
             PROVE  u[j] < u[k]
  BY <1>1 DEF Rising, u
<1>5. CASE k <= m
  <2>1. k \in 1..m /\ j \in 1..m /\ j \in 1..m + n
    BY <1>1, <1>5
  <2>2. u[k] = s[k] /\ u[j] = s[j]
    BY <1>1, <2>1
  <2> QED
    BY <1>4, <2>1, <2>2
<1>6. CASE ~ k <= m
  <2>1. k - m \in 1..n /\ u[k] = t[k - m]
    BY <1>1, <1>6
  <2>2. CASE j <= m
    <3>1. j \in 1..m /\ u[j] = s[j]
      BY <1>1, <2>2
    <3>2. s[j] # 0 => s[j] < t[k - m]
      BY <1>3, <2>1, <3>1
    <3> QED
      BY <1>2, <2>1, <3>1, <3>2
  <2>3. CASE ~ j <= m
    <3>1. j - m \in 1..(k - m) - 1 /\ u[j] = t[j - m]
      BY <1>1, <1>6, <2>3
    <3> QED
      BY <1>4, <2>1, <3>1
  <2> QED
    BY <2>2, <2>3
<1> QED
  BY <1>5, <1>6

(* What is cut out of a sequence, and what is silent.                      *)
LEMMA Cut ==
  ASSUME NEW s \in Seq(Nat), NEW a \in Nat \ {0}, NEW b \in Nat, b <= Len(s)
  PROVE  LET u == SubSeq(s, a, b)
         IN /\ u \in Seq(Nat) /\ Len(u) = IF a <= b THEN b - a + 1 ELSE 0
            /\ \A k \in 1..Len(u) : u[k] = s[a + k - 1] /\ a + k - 1 \in a..b
            /\ Voiced(u) \subseteq Voiced(s)
            /\ Rising(s) => Rising(u)
<1> DEFINE u == SubSeq(s, a, b)
           n == Len(s)
           l == Len(u)
<1>1. n \in Nat /\ \A i \in 1..n : s[i] \in Nat
  BY ElementOfSeq, LenProperties
<1>2. \A i \in a..b : s[i] \in Nat
  BY <1>1
<1>3. /\ u \in Seq(Nat) /\ l = IF a <= b THEN b - a + 1 ELSE 0
      /\ \A i \in 1..b - a + 1 : u[i] = s[a + i - 1]
  BY <1>2, SubSeqProperties
<1> HIDE DEF u, n, l
<1>4. \A k \in 1..l : /\ u[k] = s[a + k - 1]
                      /\ a + k - 1 \in a..b /\ a + k - 1 \in 1..n
  <2> TAKE k \in 1..l
  <2>1. k \in 1..b - a + 1
    BY <1>3
  <2> QED
    BY <1>1, <1>3, <2>1 DEF n
<1>5. \A k \in 1..l : u[k] \in {s[j] : j \in 1..n}
  BY <1>4
<1>6. ASSUME Rising(s), NEW k \in 1..l, u[k] # 0, NEW j \in 1..k - 1
      PROVE  u[j] < u[k]
  <2>1. a + j - 1 \in 1..(a + k - 1) - 1 /\ j \in 1..l
    BY <1>3
  <2>2. u[j] = s[a + j - 1] /\ u[k] = s[a + k - 1]
    BY <1>4, <2>1
  <2> QED
    BY <1>4, <1>6, <2>1, <2>2 DEF Rising, n
<1>7. Voiced(u) \subseteq Voiced(s)
  BY <1>5 DEF Voiced, l, n
<1>8. Rising(s) => Rising(u)
  BY <1>6 DEF Rising, l
<1> QED
  BY <1>3, <1>4, <1>7, <1>8 DEF u, l

LEMMA Split ==
  ASSUME NEW s \in Seq(Nat), Rising(s), NEW b \in Nat, NEW a \in Nat, b < a,
         b <= Len(s)
  PROVE  Ahead(Voiced(SubSeq(s, 1, b)), Voiced(SubSeq(s, a, Len(s))))
<1> DEFINE n == Len(s)
           u == SubSeq(s, 1, b)
           v == SubSeq(s, a, n)
<1>1. n \in Nat
  BY LenProperties
<1>2. \A k \in 1..Len(u) : u[k] = s[k] /\ k \in 1..b
  BY Cut
<1>3. \A k \in 1..Len(v) : v[k] = s[a + k - 1] /\ a + k - 1 \in a..n
  BY <1>1, Cut
<1>4. \A k \in 1..n : s[k] # 0 => \A j \in 1..k - 1 : s[j] < s[k]
  BY DEF Rising
<1> HIDE DEF u, v, n
<1>5. ASSUME NEW i \in 1..Len(u), NEW k \in 1..Len(v), v[k] # 0
      PROVE  u[i] < v[k]
  <2>1. i \in 1..b /\ a + k - 1 \in a..n
    BY <1>2, <1>3
  <2>2. a + k - 1 \in 1..n /\ i \in 1..(a + k - 1) - 1
    BY <1>1, <2>1
  <2>3. v[k] = s[a + k - 1] /\ u[i] = s[i]
    BY <1>2, <1>3
  <2> QED
    BY <1>4, <1>5, <2>2, <2>3
<1>6. Ahead(Voiced(u), Voiced(v))
  BY <1>5 DEF Ahead, Voiced
<1> QED
  BY <1>6 DEF u, v, n

LEMMA Silent ==
  ASSUME NEW n \in Nat
  PROVE  LET u == D!Silence(n)
         IN u \in Seq(Nat) /\ Len(u) = n /\ Voiced(u) = {} /\ Rising(u)
<1> DEFINE u == D!Silence(n)
<1>1. u = [k \in 1..n |-> 0]
  BY DEF D!Silence
<1>2. u \in Seq(Nat) /\ Len(u) = n
  BY <1>1
<1> QED
  BY <1>1, <1>2 DEF Voiced, Rising

-----------------------------------------------------------------------------
(* The samples of one station on their way: the newest the peer had heard  *)
(* before, what it hears, what travels, what waits; each part is in order, *)
(* and ahead of the next.                                                  *)
Ordered(last, h, l, w, top) ==
  /\ Rising(h) /\ Rising(l) /\ Rising(w)
  /\ Ahead({last}, Voiced(h))
  /\ Ahead({last} \cup Voiced(h), Voiced(l) \cup Voiced(w))
  /\ Ahead(Voiced(l), Voiced(w))
  /\ {last} \cup Voiced(h) \cup Voiced(l) \cup Voiced(w) \subseteq 0..top

(* The newest of what was heard.                                           *)
LEMMA NewestHeard ==
  ASSUME NEW h \in Seq(Nat), NEW last \in Nat, NEW top \in Nat,
         {last} \cup Voiced(h) \subseteq 0..top
  PROVE  /\ D!Newest(h, last) \in {last} \cup Voiced(h)
         /\ \A v \in {last} \cup Voiced(h) : v <= D!Newest(h, last)
<1> DEFINE A == {last} \cup {h[k] : k \in DOMAIN h}
           new == D!Newest(h, last)
<1>1. A = {last} \cup {h[k] : k \in 1..Len(h)}
  BY LenProperties
<1>2. A \subseteq {0} \cup {last} \cup Voiced(h)
  BY <1>1 DEF Voiced
<1>3. A \subseteq 0..top /\ A # {}
  BY <1>2
<1>4. \E x \in A : \A y \in A : y <= x
  <2> HIDE DEF A
  <2> QED
    BY <1>3, Greatest
<1>5. new = CHOOSE m \in A : \A v \in A : v <= m
  BY DEF D!Newest
<1> HIDE DEF A, new
<1>6. new \in A /\ \A v \in A : v <= new
  BY <1>4, <1>5
<1>7. last \in A /\ Voiced(h) \subseteq A
  BY <1>1 DEF Voiced
<1>8. new \in {last} \cup Voiced(h)
  <2>1. CASE new = 0
    <3>1. last = 0
      BY <1>6, <1>7, <2>1
    <3> QED
      BY <2>1, <3>1
  <2> QED
    BY <2>1, <1>2, <1>6
<1> QED
  BY <1>6, <1>7, <1>8 DEF new

(* A tick takes samples on, what is heard ahead of what travels on.        *)
LEMMA Passes ==
  ASSUME NEW last \in Nat, NEW h \in Seq(Nat), NEW l, NEW w, NEW top \in Nat,
         Ordered(last, h, l, w, top),
         NEW full, Voiced(full) \subseteq Voiced(l) \cup Voiced(w),
         NEW out, Rising(out), Voiced(out) \subseteq Voiced(full),
         NEW rest, Rising(rest), Voiced(rest) \subseteq Voiced(full),
         Ahead(Voiced(out), Voiced(rest)),
         NEW left, Rising(left), Voiced(left) \subseteq Voiced(w),
         Ahead(Voiced(full), Voiced(left))
  PROVE  Ordered(D!Newest(h, last), out, rest, left, top)
<1> DEFINE new == D!Newest(h, last)
           known == {last} \cup Voiced(h)
<1>1. new \in known
  BY NewestHeard DEF Ordered
<1> HIDE DEF new
<1>2. Ahead(known, Voiced(full))
  BY DEF Ordered, Ahead
<1>3. Ahead({new}, Voiced(out)) /\ Ahead({new}, Voiced(rest))
  BY <1>1, <1>2 DEF Ahead
<1>4. Ahead({new}, Voiced(left))
  BY <1>1 DEF Ahead, Ordered
<1>5. Ahead(Voiced(out), Voiced(left)) /\ Ahead(Voiced(rest), Voiced(left))
  BY DEF Ahead
<1>6. {new} \cup Voiced(out) \cup Voiced(rest) \cup Voiced(left)
       \subseteq 0..top
  BY <1>1 DEF Ordered
<1>7. Ahead({new} \cup Voiced(out), Voiced(rest) \cup Voiced(left))
  BY <1>3, <1>4, <1>5 DEF Ahead
<1> QED
  BY <1>3, <1>5, <1>6, <1>7 DEF Ordered, new

(* What an app adds, and what is left when it goes.                        *)
LEMMA Adds ==
  ASSUME NEW last, NEW h, NEW l, NEW w \in Seq(Nat), NEW top \in Nat,
         Ordered(last, h, l, w, top), NEW n \in Nat
  PROVE  LET u == w \o [k \in 1..n |-> top + k]
         IN u \in Seq(Nat) /\ Ordered(last, h, l, u, top + n)
<1> DEFINE v == [k \in 1..n |-> top + k]
           u == w \o v
<1>1. v \in Seq(Nat) /\ Len(v) = n /\ \A k \in 1..n : v[k] = top + k
  OBVIOUS
<1> HIDE DEF v
<1>2. Rising(v) /\ Voiced(v) \subseteq top + 1..top + n
  BY <1>1 DEF Rising, Voiced
<1>3. Ahead(0..top, Voiced(v))
  BY <1>2 DEF Ahead
<1>4. /\ Ahead({last} \cup Voiced(h), Voiced(v)) /\ Ahead(Voiced(l), Voiced(v))
      /\ Ahead(Voiced(w), Voiced(v))
  <2>1. {last} \cup Voiced(h) \cup Voiced(l) \cup Voiced(w) \subseteq 0..top
    BY DEF Ordered
  <2> QED
    BY <1>3, <2>1 DEF Ahead
<1>5. u \in Seq(Nat) /\ Voiced(u) = Voiced(w) \cup Voiced(v)
  BY <1>1, VoicedConcat
<1>6. Rising(u)
  BY <1>1, <1>2, <1>4, RisingConcat DEF Ordered
<1>7. {last} \cup Voiced(h) \cup Voiced(l) \cup Voiced(u) \subseteq 0..top + n
  <2>1. top + 1..top + n \subseteq 0..top + n /\ 0..top \subseteq 0..top + n
    OBVIOUS
  <2> QED
    BY <1>2, <1>5, <2>1 DEF Ordered
<1> HIDE DEF u
<1>8. /\ Ahead({last} \cup Voiced(h), Voiced(l) \cup Voiced(u))
      /\ Ahead(Voiced(l), Voiced(u))
  BY <1>4, <1>5 DEF Ordered, Ahead
<1>9. Ordered(last, h, l, u, top + n)
  BY <1>6, <1>7, <1>8 DEF Ordered
<1> QED
  BY <1>5, <1>9 DEF u, v

LEMMA Leaves ==
  ASSUME NEW last, NEW h, NEW l, NEW w, NEW top, Ordered(last, h, l, w, top)
  PROVE  <<>> \in Seq(Nat) /\ Ordered(last, h, l, <<>>, top)
<1>1. Voiced(<<>>) = {} /\ Rising(<<>>)
  BY DEF Voiced, Rising
<1> QED
  BY <1>1 DEF Ordered, Ahead

-----------------------------------------------------------------------------
DriverType ==
  /\ device \in {"sim", "loopback"}
  /\ cfg_delay \in Nat /\ delayed \in Nat /\ ticks \in Nat
  /\ txq \in [D!Stations -> Seq(Nat)] /\ delay \in [D!Stations -> Seq(Nat)]
  /\ air \in [D!Stations -> Seq(Nat)] /\ heard \in [D!Stations -> Seq(Nat)]
  /\ sent \in [D!Stations -> Nat] /\ last_heard \in [D!Stations -> Nat]
  /\ conns \in [D!Stations -> Nat] /\ writer \in [D!Stations -> Nat]
  /\ open \in [D!Stations -> SUBSET Nat]

Travels(i) == IF device = "sim" THEN delay[i] ELSE air[i]
FlowInv ==
  \A i \in D!Stations :
    Ordered(last_heard[D!peer(i)], heard[D!peer(i)], Travels(i), txq[i],
            sent[i])

(* A sample in the line was sent as many samples ago as there are after it *)
(* in the line, and the line is read behind the delay.                     *)
LineTimed ==
  device = "sim" =>
    \A i \in D!Stations : \A p \in 1..Len(delay[i]) :
      delay[i][p] # 0 =>
        \E e \in entered[i] :
          e[1] = delay[i][p] /\ e[2] = ticks * TICK - (Len(delay[i]) - p)
HeardTimed ==
  device = "sim" =>
    \A i \in D!Stations : \A k \in 1..Len(heard[i]) :
      heard[i][k] # 0 =>
        \E e \in entered[D!peer(i)] :
          e[1] = heard[i][k] /\ D!HeardAt(k) - e[2] >= delayed

(* An app that never shared the station is the one written to, or none is. *)
Alone(i) ==
  \/ open[i] = {} /\ writer[i] = 0
  \/ \E c \in Nat \ {0} : open[i] = {c} /\ writer[i] = c
AppsInv == \A i \in D!Stations \ shared : Alone(i)

DriverInv == DriverType /\ FlowInv /\ LineTimed /\ HeardTimed /\ AppsInv

LEMMA Peers ==
  /\ \A i \in D!Stations : /\ D!peer(i) \in D!Stations
                           /\ D!peer(D!peer(i)) = i
  /\ \A x \in Nat : \A y \in Nat : D!Least(x, y) \in Nat
  BY DEF D!Stations, D!peer, D!Least

LEMMA DriverStart ==
  ASSUME D!DriverAssumption, D!Init
  PROVE  DriverInv
<1>1. <<>> \in Seq(Nat) /\ Voiced(<<>>) = {} /\ Rising(<<>>) /\ Len(<<>>) = 0
  BY DEF Voiced, Rising
<1>2. DriverType
  BY <1>1 DEF D!DriverAssumption, D!Init, DriverType
<1>3. \A i \in D!Stations :
        /\ heard[i] = <<>> /\ delay[i] = <<>> /\ air[i] = <<>>
        /\ txq[i] = <<>> /\ last_heard[i] = 0 /\ sent[i] = 0
        /\ open[i] = {} /\ writer[i] = 0
  BY DEF D!Init
<1>4. FlowInv
  <2> SUFFICES ASSUME NEW i \in D!Stations
               PROVE  Ordered(0, <<>>, <<>>, <<>>, 0)
    BY <1>3, Peers DEF FlowInv, Travels
  <2> QED
    BY <1>1 DEF Ordered, Ahead
<1>5. LineTimed /\ HeardTimed
  BY <1>1, <1>3 DEF LineTimed, HeardTimed
<1>6. AppsInv
  BY <1>3 DEF AppsInv, Alone
<1> QED
  BY <1>2, <1>4, <1>5, <1>6 DEF DriverInv

-----------------------------------------------------------------------------
(* A tick of audio off what waits: samples, and silence behind them.       *)
LEMMA Keys ==
  ASSUME D!DriverAssumption, DriverType, NEW i \in D!Stations
  PROVE  /\ D!Keyed(i) \in Seq(Nat) /\ Len(D!Keyed(i)) = TICK
         /\ DOMAIN D!Taken(i) = 1..Len(D!Taken(i))
         /\ \A k \in 1..TICK : D!Keyed(i)[k] # 0 =>
              /\ k \in DOMAIN D!Taken(i)
              /\ D!Keyed(i)[k] = D!Taken(i)[k]
         /\ Voiced(D!Keyed(i)) \subseteq Voiced(txq[i])
         /\ D!Dequeued[i] \in Seq(Nat)
         /\ Voiced(D!Dequeued[i]) \subseteq Voiced(txq[i])
         /\ Rising(txq[i]) =>
              /\ Rising(D!Keyed(i)) /\ Rising(D!Dequeued[i])
              /\ Ahead(Voiced(D!Keyed(i)), Voiced(D!Dequeued[i]))
<1> DEFINE w == txq[i]
           b == D!Least(TICK, Len(w))
           t == D!Taken(i)
           z == D!Silence(TICK - b)
           left == D!Dequeued[i]
<1>1. TICK \in Nat \ {0} /\ w \in Seq(Nat) /\ Len(w) \in Nat
  BY LenProperties DEF D!DriverAssumption, DriverType
<1>2. b \in Nat /\ b <= Len(w) /\ b <= TICK
  BY <1>1 DEF D!Least
<1>3. t = SubSeq(w, 1, b)
  BY DEF D!Taken
<1> HIDE DEF w, b
<1>4. /\ t \in Seq(Nat) /\ Len(t) = b /\ Voiced(t) \subseteq Voiced(w)
      /\ Rising(w) => Rising(t)
  <2>1. 1 \in Nat \ {0}
    OBVIOUS
  <2>2. /\ t \in Seq(Nat) /\ Len(t) = IF 1 <= b THEN b - 1 + 1 ELSE 0
        /\ Voiced(t) \subseteq Voiced(w)
        /\ Rising(w) => Rising(t)
    <3> HIDE DEF t
    <3> QED
      BY <1>1, <1>2, <1>3, <2>1, Cut
  <2> HIDE DEF t
  <2> QED
    BY <1>2, <2>2
<1>5. D!Keyed(i) = t \o D!Silence(TICK - Len(t))
  BY DEF D!Keyed
<1>6. left = SubSeq(w, Len(t) + 1, Len(w))
  BY DEF D!Dequeued, D!Drop, w
<1> HIDE DEF t, left, z
<1>7. /\ z \in Seq(Nat) /\ Len(z) = TICK - b /\ Voiced(z) = {} /\ Rising(z)
  <2>1. TICK - b \in Nat
    BY <1>1, <1>2
  <2> QED
    BY <2>1, Silent DEF z
<1>8. /\ D!Keyed(i) = t \o z
  BY <1>4, <1>5 DEF z
<1>9. /\ t \o z \in Seq(Nat) /\ Len(t \o z) = TICK
      /\ \A k \in 1..TICK : (t \o z)[k] = IF k <= b THEN t[k] ELSE z[k - b]
      /\ DOMAIN t = 1..b
  <2>1. /\ t \o z \in Seq(Nat) /\ Len(t \o z) = Len(t) + Len(z)
        /\ \A k \in 1..Len(t) + Len(z) :
             (t \o z)[k] = IF k <= Len(t) THEN t[k] ELSE z[k - Len(t)]
        /\ DOMAIN t = 1..Len(t)
    <3>1. t \in Seq(Nat) /\ z \in Seq(Nat)
      BY <1>4, <1>7
    <3> QED
      BY <3>1, ConcatProperties, LenProperties, Zenon
  <2>2. Len(t) = b /\ Len(t) + Len(z) = TICK
    BY <1>1, <1>2, <1>4, <1>7
  <2> QED
    BY <2>1, <2>2
<1>10. Voiced(t \o z) = Voiced(t)
  <2>1. t \in Seq(Nat) /\ z \in Seq(Nat) /\ Voiced(z) = {}
    BY <1>4, <1>7
  <2>2. Voiced(t \o z) = Voiced(t) \cup Voiced(z)
    BY <2>1, VoicedConcat, Zenon
  <2> QED
    BY <2>1, <2>2
<1>11. \A k \in 1..TICK : (t \o z)[k] # 0 => k \in 1..b /\ (t \o z)[k] = t[k]
  <2> SUFFICES ASSUME NEW k \in 1..TICK, (t \o z)[k] # 0
               PROVE  k <= b
    BY <1>2, <1>9
  <2> SUFFICES ASSUME ~ k <= b PROVE FALSE
    OBVIOUS
  <2>1. k - b \in 1..Len(z) /\ (t \o z)[k] = z[k - b]
    BY <1>1, <1>2, <1>7, <1>9
  <2> QED
    BY <1>7, <2>1 DEF Voiced
<1>12. /\ left \in Seq(Nat) /\ Voiced(left) \subseteq Voiced(w)
       /\ Rising(w) => Rising(left)
  <2>1. Len(t) + 1 \in Nat \ {0} /\ Len(w) <= Len(w)
    BY <1>1, <1>2, <1>4
  <2> QED
    BY <1>1, <1>6, <2>1, Cut
<1>13. ASSUME Rising(w)
       PROVE  Rising(t \o z) /\ Ahead(Voiced(t \o z), Voiced(left))
  <2>1. Ahead(Voiced(t), Voiced(z))
    BY <1>7 DEF Ahead
  <2>2. Rising(t \o z)
    BY <1>4, <1>7, <1>13, <2>1, RisingConcat
  <2>3. Ahead(Voiced(SubSeq(w, 1, b)), Voiced(SubSeq(w, b + 1, Len(w))))
    BY <1>1, <1>2, <1>13, Split
  <2> QED
    BY <1>3, <1>4, <1>6, <1>10, <2>2, <2>3
<1> QED
  BY <1>4, <1>8, <1>9, <1>10, <1>11, <1>12, <1>13 DEF w, left, t, z

(* A tick of audio behind what travels.                                    *)
LEMMA Joins ==
  ASSUME D!DriverAssumption, DriverType, NEW i \in D!Stations,
         NEW last, NEW h, NEW l \in Seq(Nat), NEW top,
         Ordered(last, h, l, txq[i], top)
  PROVE  LET full == l \o D!Keyed(i)
         IN /\ full \in Seq(Nat) /\ Rising(full) /\ Len(full) = Len(l) + TICK
            /\ Voiced(full) \subseteq Voiced(l) \cup Voiced(txq[i])
            /\ Ahead(Voiced(full), Voiced(D!Dequeued[i]))
            /\ \A k \in 1..Len(l) + TICK :
                 full[k] = IF k <= Len(l) THEN l[k]
                           ELSE D!Keyed(i)[k - Len(l)]
<1> DEFINE y == D!Keyed(i)
           w == txq[i]
           left == D!Dequeued[i]
<1>1. /\ y \in Seq(Nat) /\ Len(y) = TICK /\ Voiced(y) \subseteq Voiced(w)
      /\ Voiced(left) \subseteq Voiced(w)
      /\ Rising(w) => Rising(y) /\ Ahead(Voiced(y), Voiced(left))
  BY Keys
<1> HIDE DEF y, w, left
<1>2. /\ l \o y \in Seq(Nat) /\ Len(l \o y) = Len(l) + TICK
      /\ \A k \in 1..Len(l) + TICK :
           (l \o y)[k] = IF k <= Len(l) THEN l[k] ELSE y[k - Len(l)]
  BY <1>1, ConcatProperties
<1>3. Voiced(l \o y) = Voiced(l) \cup Voiced(y)
  BY <1>1, VoicedConcat
<1>4. /\ Rising(w) /\ Rising(l) /\ Ahead(Voiced(l), Voiced(w))
  BY DEF Ordered, w
<1>5. Ahead(Voiced(l), Voiced(y)) /\ Ahead(Voiced(l), Voiced(left))
  BY <1>1, <1>4 DEF Ahead
<1>6. Rising(l \o y)
  BY <1>1, <1>4, <1>5, RisingConcat
<1>7. Ahead(Voiced(l \o y), Voiced(left))
  BY <1>1, <1>3, <1>4, <1>5 DEF Ahead
<1> QED
  BY <1>1, <1>2, <1>3, <1>6, <1>7 DEF y, w, left

(* The propagation line gives its oldest tick once it holds more than the  *)
(* delay, and keeps an end of what it held.                                *)
LEMMA Propagates ==
  ASSUME D!DriverAssumption, DriverInv, device = "sim", NEW i \in D!Stations
  PROVE  LET full == D!Line(i)
             out == D!Out(i)
             rest == D!Rest(i)
         IN /\ full \in Seq(Nat) /\ Rising(full)
            /\ Voiced(full) \subseteq Voiced(delay[i]) \cup Voiced(txq[i])
            /\ Ahead(Voiced(full), Voiced(D!Dequeued[i]))
            /\ out \in Seq(Nat) /\ Rising(out) /\ Len(out) = TICK
            /\ Voiced(out) \subseteq Voiced(full)
            /\ rest \in Seq(Nat) /\ Rising(rest)
            /\ Voiced(rest) \subseteq Voiced(full)
            /\ Ahead(Voiced(out), Voiced(rest))
            /\ \A k \in 1..TICK : out[k] # 0 =>
                 /\ Len(full) >= cfg_delay + TICK
                 /\ out[k] = full[k]
            /\ \A p \in 1..Len(rest) : \E f \in 1..Len(full) :
                 rest[p] = full[f] /\ Len(full) - f = Len(rest) - p
<1> DEFINE full == D!Line(i)
           out == D!Out(i)
           rest == D!Rest(i)
           n == Len(full)
<1>1. /\ DriverType /\ TICK \in Nat \ {0} /\ cfg_delay \in Nat
      /\ delay[i] \in Seq(Nat) /\ txq[i] \in Seq(Nat)
  BY DEF DriverInv, DriverType, D!DriverAssumption
<1>2. /\ full \in Seq(Nat) /\ Rising(full)
      /\ Voiced(full) \subseteq Voiced(delay[i]) \cup Voiced(txq[i])
      /\ Ahead(Voiced(full), Voiced(D!Dequeued[i]))
  <2>1. Ordered(last_heard[D!peer(i)], heard[D!peer(i)], delay[i], txq[i],
                sent[i])
    BY DEF DriverInv, FlowInv, Travels
  <2>2. full = delay[i] \o D!Keyed(i)
    BY DEF D!Line
  <2> QED
    BY <1>1, <2>1, <2>2, Joins
<1>3. n \in Nat
  BY <1>2, LenProperties
<1>4. CASE D!Primed(full)
  <2>1. n >= cfg_delay + TICK /\ TICK <= n
    BY <1>1, <1>3, <1>4 DEF D!Primed
  <2> DEFINE front == SubSeq(full, 1, TICK)
             back == SubSeq(full, TICK + 1, n)
             m == Len(back)
             over == m - cfg_delay - TICK
             tail == SubSeq(back, over + 1, m)
  <2>2. out = front
    BY <1>4 DEF D!Out
  <2>3. rest = IF m > cfg_delay + 4 * TICK THEN tail ELSE back
    BY <1>4 DEF D!Rest, D!Trimmed, D!Drop
  <2> HIDE DEF full, out, rest, n
  <2>4. /\ front \in Seq(Nat) /\ Rising(front) /\ Len(front) = TICK
        /\ Voiced(front) \subseteq Voiced(full)
        /\ \A k \in 1..TICK : front[k] = full[k]
    <3>1. 1 \in Nat \ {0} /\ TICK \in Nat /\ 1 <= TICK
      BY <1>1
    <3>2. Len(front) = TICK - 1 + 1
      BY <1>2, <2>1, <3>1, Cut DEF n
    <3>3. Len(front) = TICK
      BY <1>1, <3>2
    <3>4. /\ front \in Seq(Nat) /\ Rising(front)
          /\ Voiced(front) \subseteq Voiced(full)
          /\ \A k \in 1..Len(front) : front[k] = full[1 + k - 1]
      BY <1>2, <2>1, <3>1, Cut DEF n
    <3> HIDE DEF front
    <3> QED
      BY <3>3, <3>4
  <2>5. /\ back \in Seq(Nat) /\ Rising(back) /\ m = n - TICK
        /\ Voiced(back) \subseteq Voiced(full)
        /\ \A k \in 1..m : back[k] = full[TICK + k] /\ TICK + k \in 1..n
    <3>1. TICK + 1 \in Nat \ {0}
      BY <1>1
    <3>2. /\ back \in Seq(Nat) /\ Rising(back)
          /\ m = IF TICK + 1 <= n THEN n - (TICK + 1) + 1 ELSE 0
          /\ Voiced(back) \subseteq Voiced(full)
          /\ \A k \in 1..m : /\ back[k] = full[TICK + 1 + k - 1]
                             /\ TICK + 1 + k - 1 \in TICK + 1..n
      BY <1>2, <1>3, <3>1, Cut DEF n
    <3> HIDE DEF back, m
    <3>3. m = n - TICK /\ m \in Nat
      BY <1>1, <1>3, <2>1, <3>2
    <3>4. \A k \in 1..m : TICK + 1 + k - 1 = TICK + k /\ TICK + k \in 1..n
      BY <1>1, <1>3, <3>3
    <3> QED
      BY <3>2, <3>3, <3>4
  <2>6. Ahead(Voiced(front), Voiced(back))
    <3>1. TICK \in Nat /\ TICK + 1 \in Nat /\ TICK < TICK + 1
      BY <1>1
    <3> QED
      BY <1>2, <2>1, <3>1, Split DEF n
  <2> HIDE DEF front, back, m
  <2>7. CASE m > cfg_delay + 4 * TICK
    <3>1. over + 1 \in Nat \ {0} /\ m \in Nat /\ over + 1 <= m
      BY <1>1, <1>3, <2>1, <2>5, <2>7
    <3>2. /\ tail \in Seq(Nat) /\ Rising(tail)
          /\ Len(tail) = m - (over + 1) + 1
          /\ Voiced(tail) \subseteq Voiced(back)
          /\ \A k \in 1..Len(tail) : /\ tail[k] = back[over + 1 + k - 1]
                                     /\ over + 1 + k - 1 \in over + 1..m
      <4> DEFINE a == over + 1
                 u == SubSeq(back, a, m)
      <4> HIDE DEF over, a
      <4>1. /\ a \in Nat \ {0} /\ m \in Nat /\ a <= m /\ m <= Len(back)
            /\ back \in Seq(Nat) /\ Rising(back)
        BY <2>5, <3>1 DEF a, m
      <4>2. /\ u \in Seq(Nat) /\ Rising(u)
            /\ Len(u) = IF a <= m THEN m - a + 1 ELSE 0
            /\ Voiced(u) \subseteq Voiced(back)
            /\ \A k \in 1..Len(u) :
                  u[k] = back[a + k - 1] /\ a + k - 1 \in a..m
        BY <4>1, Cut
      <4> QED
        BY <4>1, <4>2 DEF a
    <3>3. rest = tail
      BY <2>3, <2>7
    <3> DEFINE c == over
               l == Len(rest)
    <3>4. /\ c \in Nat /\ l = m - c
          /\ \A k \in 1..l : rest[k] = back[c + k] /\ c + k \in 1..m
      <4>1. c \in Nat
        BY <1>1, <1>3, <2>1, <2>5, <2>7
      <4>2. /\ l = m - (c + 1) + 1
            /\ \A k \in 1..l : /\ rest[k] = back[c + 1 + k - 1]
                               /\ c + 1 + k - 1 \in c + 1..m
        BY <3>2, <3>3
      <4> HIDE DEF c, l
      <4> QED
        BY <3>1, <4>1, <4>2
    <3> HIDE DEF c, l
    <3>5. \A p \in 1..l : \E f \in 1..n : rest[p] = full[f] /\ n - f = l - p
      <4> TAKE p \in 1..l
      <4>1. rest[p] = full[TICK + (c + p)] /\ TICK + (c + p) \in 1..n
        BY <2>5, <3>4
      <4>2. n - (TICK + (c + p)) = l - p
        BY <1>1, <1>3, <2>5, <3>4
      <4> QED
        BY <4>1, <4>2
    <3>6. /\ Ahead(Voiced(front), Voiced(rest))
          /\ Voiced(rest) \subseteq Voiced(full)
      BY <2>5, <2>6, <3>2, <3>3 DEF Ahead
    <3> QED
      BY <1>2, <2>1, <2>2, <2>4, <3>2, <3>3, <3>5, <3>6
         DEF full, out, rest, n, l
  <2>8. CASE ~ m > cfg_delay + 4 * TICK
    <3>1. rest = back
      BY <2>3, <2>8
    <3>2. \A p \in 1..m : \E f \in 1..n : rest[p] = full[f] /\ n - f = m - p
      <4> TAKE p \in 1..m
      <4>1. rest[p] = full[TICK + p] /\ TICK + p \in 1..n
        BY <2>5, <3>1
      <4>2. n - (TICK + p) = m - p
        BY <1>1, <1>3, <2>5
      <4> QED
        BY <4>1, <4>2
    <3> QED
      BY <1>2, <2>1, <2>2, <2>4, <2>5, <2>6, <3>1, <3>2
         DEF full, out, rest, n, m
  <2> QED
    BY <2>7, <2>8
<1>5. CASE ~ D!Primed(full)
  <2>1. out = D!Silence(TICK) /\ rest = full
    BY <1>5 DEF D!Out, D!Rest
  <2> HIDE DEF full, out, rest
  <2>2. /\ out \in Seq(Nat) /\ Len(out) = TICK /\ Voiced(out) = {}
        /\ Rising(out)
    BY <1>1, <2>1, Silent
  <2>3. Ahead(Voiced(out), Voiced(rest)) /\ \A k \in 1..TICK : ~ out[k] # 0
    BY <2>2 DEF Ahead, Voiced
  <2>4. \A p \in 1..Len(rest) : \E f \in 1..Len(full) :
          rest[p] = full[f] /\ Len(full) - f = Len(rest) - p
    BY <2>1
  <2> QED
    BY <1>2, <2>1, <2>2, <2>3, <2>4 DEF full, out, rest
<1> QED
  BY <1>4, <1>5

(* The line, a tick later.                                                 *)
LEMMA FullTimed ==
  ASSUME D!DriverAssumption, DriverInv, device = "sim", NEW i \in D!Stations,
         entered'[i] = entered[i] \cup {<<D!Taken(i)[k], ticks * TICK + k>> :
                                          k \in DOMAIN D!Taken(i)}
  PROVE  \A f \in 1..Len(D!Line(i)) : D!Line(i)[f] # 0 =>
           \E e \in entered'[i] :
             /\ e[1] = D!Line(i)[f]
             /\ e[2] = (ticks * TICK + TICK) - (Len(D!Line(i)) - f)
<1> DEFINE l == delay[i]
           y == D!Keyed(i)
           full == D!Line(i)
           c == ticks * TICK
<1>1. /\ DriverType /\ TICK \in Nat \ {0} /\ ticks \in Nat
      /\ l \in Seq(Nat) /\ Len(l) \in Nat
  BY LenProperties DEF DriverInv, DriverType, D!DriverAssumption
<1>2. c \in Nat
  BY <1>1, SMTT(30)
<1>3. /\ Len(full) = Len(l) + TICK
      /\ \A k \in 1..Len(l) + TICK :
           full[k] = IF k <= Len(l) THEN l[k] ELSE y[k - Len(l)]
  <2>1. Ordered(last_heard[D!peer(i)], heard[D!peer(i)], l, txq[i], sent[i])
    BY DEF DriverInv, FlowInv, Travels
  <2>2. full = l \o y
    BY DEF D!Line
  <2> DEFINE h == heard[D!peer(i)]
             last == last_heard[D!peer(i)]
  <2> HIDE DEF l, full, h, last
  <2>3. Ordered(last, h, l, txq[i], sent[i])
    BY <2>1 DEF h, last
  <2> QED
    BY <1>1, <2>2, <2>3, Joins
<1>4. \A p \in 1..Len(l) : l[p] # 0 =>
        \E e \in entered[i] : e[1] = l[p] /\ e[2] = c - (Len(l) - p)
  BY DEF DriverInv, LineTimed
<1>5. \A k \in 1..TICK : y[k] # 0 =>
        k \in DOMAIN D!Taken(i) /\ y[k] = D!Taken(i)[k]
  BY <1>1, Keys
<1> SUFFICES ASSUME NEW f \in 1..Len(full), full[f] # 0
             PROVE  \E e \in entered'[i] :
                      e[1] = full[f] /\ e[2] = (c + TICK) - (Len(full) - f)
  OBVIOUS
<1> HIDE DEF c, full, l, y
<1>6. CASE f <= Len(l)
  <2>1. f \in 1..Len(l) /\ full[f] = l[f]
    BY <1>1, <1>3, <1>6
  <2>2. PICK e \in entered[i] : e[1] = l[f] /\ e[2] = c - (Len(l) - f)
    BY <1>4, <2>1
  <2>3. c - (Len(l) - f) = (c + TICK) - (Len(full) - f)
    BY <1>1, <1>2, <1>3
  <2> QED
    BY <2>1, <2>2, <2>3
<1>7. CASE ~ f <= Len(l)
  <2> DEFINE k == f - Len(l)
  <2>1. k \in 1..TICK /\ full[f] = y[k]
    BY <1>1, <1>3, <1>7
  <2>2. k \in DOMAIN D!Taken(i) /\ y[k] = D!Taken(i)[k]
    BY <1>5, <2>1
  <2>3. (c + TICK) - (Len(full) - f) = c + k
    BY <1>1, <1>2, <1>3
  <2> HIDE DEF k
  <2> DEFINE e == <<D!Taken(i)[k], c + k>>
  <2>4. e \in entered'[i]
    BY <2>2 DEF c
  <2> QED
    BY <2>1, <2>2, <2>3, <2>4
<1> QED
  BY <1>6, <1>7

LEMMA SimTick ==
  ASSUME D!DriverAssumption, DriverInv, D!tick
  PROVE  DriverInv'
<1> DEFINE out == [i \in D!Stations |-> D!Out(i)]
<1>1. /\ device = "sim" /\ device' = device /\ cfg_delay' = cfg_delay
      /\ UNCHANGED <<air, sent, writer, open, conns, shared>>
      /\ txq' = D!Dequeued /\ delay' = [i \in D!Stations |-> D!Rest(i)]
      /\ heard' = D!Delivered(out)
      /\ entered' = [i \in D!Stations |-> entered[i] \cup
                       {<<D!Taken(i)[k], ticks * TICK + k>> :
                          k \in DOMAIN D!Taken(i)}]
      /\ last_heard' =
           [i \in D!Stations |-> D!Newest(heard[i], last_heard[i])]
      /\ ticks' = ticks + 1 /\ delayed' = cfg_delay
  BY DEF D!tick, D!Record, D!apps
<1>2. /\ DriverType /\ TICK \in Nat \ {0} /\ ticks \in Nat
      /\ ticks * TICK \in Nat /\ cfg_delay \in Nat
  <2>1. DriverType /\ TICK \in Nat \ {0} /\ ticks \in Nat /\ cfg_delay \in Nat
    BY DEF DriverInv, DriverType, D!DriverAssumption
  <2>2. ticks * TICK \in Nat
    BY <2>1, SMTT(30)
  <2> QED
    BY <2>1, <2>2
<1>3. \A i \in D!Stations :
        /\ delay'[i] = D!Rest(i) /\ txq'[i] = D!Dequeued[i]
        /\ heard'[i] = IF D!Txing(i) THEN D!Silence(TICK)
                       ELSE D!Out(D!peer(i))
        /\ last_heard'[i] = D!Newest(heard[i], last_heard[i])
        /\ Travels(i)' = D!Rest(i) /\ Travels(i) = delay[i]
  BY <1>1, Peers DEF D!Delivered, Travels
<1>4. ASSUME NEW i \in D!Stations
      PROVE  /\ heard'[i] \in Seq(Nat) /\ Len(heard'[i]) = TICK
             /\ Rising(heard'[i])
             /\ Voiced(heard'[i]) \subseteq Voiced(D!Out(D!peer(i)))
             /\ \A k \in 1..TICK : heard'[i][k] # 0 =>
                                     heard'[i][k] = D!Out(D!peer(i))[k]
  <2>1. CASE D!Txing(i)
    <3>1. /\ heard'[i] \in Seq(Nat) /\ Len(heard'[i]) = TICK
          /\ Rising(heard'[i]) /\ Voiced(heard'[i]) = {}
      BY <1>2, <1>3, <2>1, Silent
    <3>2. \A k \in 1..TICK : heard'[i][k] = 0
      BY <3>1 DEF Voiced
    <3> QED
      BY <3>1, <3>2
  <2>2. CASE ~D!Txing(i)
    <3>1. heard'[i] = D!Out(D!peer(i))
      BY <1>3, <2>2
    <3> QED
      BY <1>1, <3>1, Peers, Propagates
  <2> QED
    BY <2>1, <2>2
<1>5. DriverType'
  <2>1. \A i \in D!Stations : D!Newest(heard[i], last_heard[i]) \in Nat
    <3> TAKE i \in D!Stations
    <3>1. Ordered(last_heard[i], heard[i], Travels(D!peer(i)), txq[D!peer(i)],
                  sent[D!peer(i)])
      BY Peers DEF DriverInv, FlowInv
    <3>2. /\ heard[i] \in Seq(Nat) /\ last_heard[i] \in Nat
          /\ sent[D!peer(i)] \in Nat
          /\ {last_heard[i]} \cup Voiced(heard[i]) \subseteq 0..sent[D!peer(i)]
      BY <1>2, <3>1, Peers DEF DriverType, Ordered
    <3>3. D!Newest(heard[i], last_heard[i])
            \in {last_heard[i]} \cup Voiced(heard[i])
      BY <3>2, NewestHeard, Zenon
    <3> QED
      BY <3>2, <3>3
  <2>2. \A i \in D!Stations :
          D!Rest(i) \in Seq(Nat) /\ D!Dequeued[i] \in Seq(Nat)
    BY <1>1, <1>2, Propagates, Keys
  <2>3. txq' \in [D!Stations -> Seq(Nat)]
    BY <1>1, <2>2 DEF D!Dequeued
  <2>4. delay' \in [D!Stations -> Seq(Nat)]
    BY <1>1, <2>2
  <2>5. heard' \in [D!Stations -> Seq(Nat)]
    BY <1>1, <1>4 DEF D!Delivered
  <2>6. last_heard' \in [D!Stations -> Nat]
    BY <1>1, <2>1
  <2> QED
    BY <1>1, <1>2, <2>3, <2>4, <2>5, <2>6 DEF DriverType
<1>6. FlowInv'
  <2> SUFFICES ASSUME NEW i \in D!Stations
               PROVE  Ordered(last_heard'[D!peer(i)], heard'[D!peer(i)],
                              Travels(i)', txq'[i], sent'[i])
    BY Peers DEF FlowInv
  <2> DEFINE p == D!peer(i)
  <2>1. p \in D!Stations /\ D!peer(p) = i
    BY Peers
  <2> HIDE DEF p
  <2>2. Ordered(last_heard[p], heard[p], delay[i], txq[i], sent[i])
    BY <1>3 DEF DriverInv, FlowInv, p
  <2>3. /\ heard[p] \in Seq(Nat) /\ last_heard[p] \in Nat /\ sent[i] \in Nat
    BY <1>2, <2>1 DEF DriverType
  <2>4. /\ Rising(heard'[p]) /\ Voiced(heard'[p]) \subseteq Voiced(D!Out(i))
    BY <1>4, <2>1
  <2>5. /\ Voiced(D!Line(i)) \subseteq Voiced(delay[i]) \cup Voiced(txq[i])
        /\ Ahead(Voiced(D!Line(i)), Voiced(D!Dequeued[i]))
        /\ Voiced(D!Out(i)) \subseteq Voiced(D!Line(i))
        /\ Rising(D!Rest(i)) /\ Voiced(D!Rest(i)) \subseteq Voiced(D!Line(i))
        /\ Ahead(Voiced(D!Out(i)), Voiced(D!Rest(i)))
    BY <1>1, Propagates
  <2>6. /\ Rising(D!Dequeued[i])
        /\ Voiced(D!Dequeued[i]) \subseteq Voiced(txq[i])
    BY <1>2, <2>2, Keys DEF Ordered
  <2>7. /\ Voiced(heard'[p]) \subseteq Voiced(D!Line(i))
        /\ Ahead(Voiced(heard'[p]), Voiced(D!Rest(i)))
    BY <2>4, <2>5 DEF Ahead
  <2>8. Ordered(D!Newest(heard[p], last_heard[p]), heard'[p], D!Rest(i),
                D!Dequeued[i], sent[i])
    BY <2>2, <2>3, <2>4, <2>5, <2>6, <2>7, Passes
  <2> QED
    BY <1>1, <1>3, <2>1, <2>8 DEF p
<1>7. LineTimed'
  <2> SUFFICES ASSUME NEW i \in D!Stations, NEW p \in 1..Len(D!Rest(i)),
                      D!Rest(i)[p] # 0
               PROVE  \E e \in entered'[i] :
                        /\ e[1] = D!Rest(i)[p]
                        /\ e[2] = ticks' * TICK - (Len(D!Rest(i)) - p)
    BY <1>3 DEF LineTimed
  <2>1. PICK f \in 1..Len(D!Line(i)) :
          /\ D!Rest(i)[p] = D!Line(i)[f]
          /\ Len(D!Line(i)) - f = Len(D!Rest(i)) - p
    BY <1>1, Propagates
  <2>2. \E e \in entered'[i] :
          /\ e[1] = D!Line(i)[f]
          /\ e[2] = (ticks * TICK + TICK) - (Len(D!Line(i)) - f)
    BY <1>1, <2>1, FullTimed
  <2>3. ticks' * TICK = ticks * TICK + TICK
    BY <1>1, <1>2, SMTT(30)
  <2> QED
    BY <2>1, <2>2, <2>3
<1>8. HeardTimed'
  <2> SUFFICES ASSUME NEW i \in D!Stations, NEW k \in 1..TICK,
                      heard'[i][k] # 0
               PROVE  \E e \in entered'[D!peer(i)] :
                        /\ e[1] = heard'[i][k]
                        /\ D!HeardAt(k)' - e[2] >= delayed'
    BY <1>4, Peers DEF HeardTimed
  <2> DEFINE p == D!peer(i)
             full == D!Line(p)
             n == Len(full)
             c == ticks * TICK
  <2>1. p \in D!Stations
    BY Peers
  <2>2. /\ heard'[i][k] = full[k] /\ n >= cfg_delay + TICK
        /\ full \in Seq(Nat)
    <3>1. heard'[i][k] = D!Out(p)[k]
      BY <1>4
    <3> QED
      BY <1>1, <2>1, <3>1, Propagates
  <2>3. n \in Nat
    BY <2>2, LenProperties
  <2> HIDE DEF n, full, p, c
  <2>4. k \in 1..n
    BY <1>2, <2>2, <2>3
  <2>5. PICK e \in entered'[p] :
          e[1] = full[k] /\ e[2] = (c + TICK) - (n - k)
    BY <1>1, <2>1, <2>2, <2>4, FullTimed DEF n, full, c
  <2>6. D!HeardAt(k)' = c + k
    BY <1>1, <1>2 DEF D!HeardAt, c
  <2>7. c \in Nat
    BY <1>2 DEF c
  <2>8. (c + k) - e[2] >= cfg_delay
    BY <1>2, <2>2, <2>3, <2>5, <2>7
  <2> QED
    BY <1>1, <2>2, <2>5, <2>6, <2>8 DEF p
<1>9. AppsInv'
  BY <1>1 DEF DriverInv, AppsInv, Alone
<1> QED
  BY <1>5, <1>6, <1>7, <1>8, <1>9 DEF DriverInv

(* Through the loopback a tick is what the other station submitted.        *)
LEMMA Submits ==
  ASSUME D!DriverAssumption, DriverInv, device = "loopback",
         NEW i \in D!Stations
  PROVE  LET full == D!Submitted(i)
             b == D!Least(TICK, Len(full))
             out == SubSeq(full, 1, b) \o D!Silence(TICK - b)
             rest == D!Drop(full, b)
         IN /\ Voiced(full) \subseteq Voiced(air[i]) \cup Voiced(txq[i])
            /\ Ahead(Voiced(full), Voiced(D!Dequeued[i]))
            /\ out \in Seq(Nat) /\ Rising(out)
            /\ Voiced(out) \subseteq Voiced(full)
            /\ rest \in Seq(Nat) /\ Rising(rest)
            /\ Voiced(rest) \subseteq Voiced(full)
            /\ Ahead(Voiced(out), Voiced(rest))
<1> DEFINE full == D!Submitted(i)
           n == Len(full)
           b == D!Least(TICK, n)
           front == SubSeq(full, 1, b)
           z == D!Silence(TICK - b)
           rest == SubSeq(full, b + 1, n)
<1>1. /\ DriverType /\ TICK \in Nat \ {0}
      /\ air[i] \in Seq(Nat) /\ txq[i] \in Seq(Nat)
      /\ Ordered(last_heard[D!peer(i)], heard[D!peer(i)], air[i], txq[i],
                 sent[i])
  BY DEF DriverInv, DriverType, D!DriverAssumption, FlowInv, Travels
<1>2. /\ full \in Seq(Nat) /\ Rising(full)
      /\ Voiced(full) \subseteq Voiced(air[i]) \cup Voiced(txq[i])
      /\ Ahead(Voiced(full), Voiced(D!Dequeued[i]))
  <2>1. CASE D!Txing(i)
    <3>1. full = air[i] \o D!Keyed(i)
      BY <2>1 DEF D!Submitted
    <3> QED
      BY <1>1, <3>1, Joins
  <2>2. CASE ~D!Txing(i)
    <3>1. full = air[i]
      BY <2>2 DEF D!Submitted
    <3>2. Voiced(D!Dequeued[i]) \subseteq Voiced(txq[i])
      BY <1>1, Keys
    <3>3. Rising(air[i]) /\ Ahead(Voiced(air[i]), Voiced(txq[i]))
      BY <1>1 DEF Ordered
    <3> QED
      BY <1>1, <3>1, <3>2, <3>3 DEF Ahead
  <2> QED
    BY <2>1, <2>2
<1>3. n \in Nat
  BY <1>2, LenProperties
<1> HIDE DEF full, n
<1>4. b \in Nat /\ b <= n /\ b <= TICK
  BY <1>1, <1>3 DEF D!Least
<1> HIDE DEF b
<1>5. /\ front \in Seq(Nat) /\ Rising(front)
      /\ Voiced(front) \subseteq Voiced(full)
  <2>1. 1 \in Nat \ {0} /\ b <= Len(full)
    BY <1>4 DEF n
  <2> QED
    BY <1>2, <1>4, <2>1, Cut
<1>6. /\ rest \in Seq(Nat) /\ Rising(rest)
      /\ Voiced(rest) \subseteq Voiced(full)
  <2>1. b + 1 \in Nat \ {0} /\ n <= Len(full)
    BY <1>3, <1>4 DEF n
  <2> QED
    BY <1>2, <1>3, <2>1, Cut
<1>7. Ahead(Voiced(front), Voiced(rest))
  <2>1. b + 1 \in Nat /\ b < b + 1 /\ b <= Len(full)
    BY <1>4 DEF n
  <2> QED
    BY <1>2, <1>4, <2>1, Split DEF n
<1>8. z \in Seq(Nat) /\ Voiced(z) = {} /\ Rising(z)
  <2>1. TICK - b \in Nat
    BY <1>1, <1>4
  <2> QED
    BY <2>1, Silent
<1> HIDE DEF front, rest, z
<1>9. front \o z \in Seq(Nat) /\ Voiced(front \o z) = Voiced(front)
  <2>1. /\ front \o z \in Seq(Nat)
        /\ Voiced(front \o z) = Voiced(front) \cup Voiced(z)
    BY <1>5, <1>8, VoicedConcat, Zenon
  <2> QED
    BY <1>8, <2>1
<1>10. Rising(front \o z)
  <2>1. Ahead(Voiced(front), Voiced(z))
    BY <1>8 DEF Ahead
  <2> QED
    BY <1>5, <1>8, <2>1, RisingConcat
<1> QED
  BY <1>2, <1>5, <1>6, <1>7, <1>9, <1>10
     DEF full, n, b, front, rest, z, D!Drop

LEMMA LoopTick ==
  ASSUME D!DriverAssumption, DriverInv, D!SDRTick
  PROVE  DriverInv'
<1> DEFINE full(i) == D!Submitted(i)
           b(i) == D!Least(TICK, Len(full(i)))
           out(i) == SubSeq(full(i), 1, b(i)) \o D!Silence(TICK - b(i))
           rest(i) == D!Drop(full(i), b(i))
<1>1. /\ device = "loopback" /\ device' = device /\ cfg_delay' = cfg_delay
      /\ UNCHANGED <<delay, sent, writer, open, conns, shared>>
      /\ txq' = D!Dequeued /\ air' = [i \in D!Stations |-> rest(i)]
      /\ heard' = [i \in D!Stations |->
                     IF D!Txing(i) THEN D!Silence(TICK) ELSE D!Take(i)]
      /\ last_heard' =
           [i \in D!Stations |-> D!Newest(heard[i], last_heard[i])]
      /\ ticks' = ticks + 1 /\ delayed' = cfg_delay
  BY DEF D!SDRTick, D!Record, D!apps
<1>2. \A i \in D!Stations : D!Take(i) = out(D!peer(i))
  BY DEF D!Take
<1>3. /\ DriverType /\ TICK \in Nat \ {0}
  BY DEF DriverInv, DriverType, D!DriverAssumption
<1>4. \A i \in D!Stations :
        /\ Voiced(full(i)) \subseteq Voiced(air[i]) \cup Voiced(txq[i])
        /\ Ahead(Voiced(full(i)), Voiced(D!Dequeued[i]))
        /\ out(i) \in Seq(Nat) /\ Rising(out(i))
        /\ Voiced(out(i)) \subseteq Voiced(full(i))
        /\ rest(i) \in Seq(Nat) /\ Rising(rest(i))
        /\ Voiced(rest(i)) \subseteq Voiced(full(i))
        /\ Ahead(Voiced(out(i)), Voiced(rest(i)))
  BY <1>1, Submits
<1> HIDE DEF full, out, rest
<1>5. ASSUME NEW i \in D!Stations
      PROVE  /\ heard'[i] \in Seq(Nat) /\ Rising(heard'[i])
             /\ Voiced(heard'[i]) \subseteq Voiced(out(D!peer(i)))
  <2>1. CASE D!Txing(i)
    BY <1>1, <1>3, <2>1, Silent
  <2>2. CASE ~D!Txing(i)
    BY <1>1, <1>2, <1>4, <2>2, Peers
  <2> QED
    BY <2>1, <2>2
<1>6. DriverType'
  <2>1. \A i \in D!Stations : D!Newest(heard[i], last_heard[i]) \in Nat
    <3> TAKE i \in D!Stations
    <3>1. Ordered(last_heard[i], heard[i], Travels(D!peer(i)), txq[D!peer(i)],
                  sent[D!peer(i)])
      BY Peers DEF DriverInv, FlowInv
    <3>2. /\ heard[i] \in Seq(Nat) /\ last_heard[i] \in Nat
          /\ sent[D!peer(i)] \in Nat
          /\ {last_heard[i]} \cup Voiced(heard[i]) \subseteq 0..sent[D!peer(i)]
      BY <1>3, <3>1, Peers DEF DriverType, Ordered
    <3>3. D!Newest(heard[i], last_heard[i])
            \in {last_heard[i]} \cup Voiced(heard[i])
      BY <3>2, NewestHeard, Zenon
    <3> QED
      BY <3>2, <3>3
  <2>2. txq' \in [D!Stations -> Seq(Nat)]
    <3>1. \A i \in D!Stations : D!Dequeued[i] \in Seq(Nat)
      BY <1>3, Keys
    <3> QED
      BY <1>1, <3>1 DEF D!Dequeued
  <2>3. air' \in [D!Stations -> Seq(Nat)]
    BY <1>1, <1>4
  <2>4. heard' \in [D!Stations -> Seq(Nat)]
    BY <1>1, <1>5
  <2>5. last_heard' \in [D!Stations -> Nat]
    BY <1>1, <2>1
  <2> QED
    BY <1>1, <1>3, <2>2, <2>3, <2>4, <2>5 DEF DriverType
<1>7. FlowInv'
  <2> SUFFICES ASSUME NEW i \in D!Stations
               PROVE  Ordered(last_heard'[D!peer(i)], heard'[D!peer(i)],
                              Travels(i)', txq'[i], sent'[i])
    BY Peers DEF FlowInv
  <2> DEFINE p == D!peer(i)
  <2>1. p \in D!Stations /\ D!peer(p) = i
    BY Peers
  <2> HIDE DEF p
  <2>2. Ordered(last_heard[p], heard[p], air[i], txq[i], sent[i])
    BY <1>1 DEF DriverInv, FlowInv, Travels, p
  <2>3. /\ heard[p] \in Seq(Nat) /\ last_heard[p] \in Nat /\ sent[i] \in Nat
    BY <1>3, <2>1 DEF DriverType
  <2>4. Rising(heard'[p]) /\ Voiced(heard'[p]) \subseteq Voiced(out(i))
    BY <1>5, <2>1
  <2>5. /\ Rising(D!Dequeued[i])
        /\ Voiced(D!Dequeued[i]) \subseteq Voiced(txq[i])
    BY <1>3, <2>2, Keys DEF Ordered
  <2>6. /\ Voiced(heard'[p]) \subseteq Voiced(full(i))
        /\ Ahead(Voiced(heard'[p]), Voiced(rest(i)))
    BY <1>4, <2>4 DEF Ahead
  <2>7. Ordered(D!Newest(heard[p], last_heard[p]), heard'[p], rest(i),
                D!Dequeued[i], sent[i])
    BY <1>4, <2>2, <2>3, <2>4, <2>5, <2>6, Passes
  <2> QED
    BY <1>1, <2>1, <2>7 DEF p, Travels
<1>8. (LineTimed /\ HeardTimed)'
  BY <1>1 DEF LineTimed, HeardTimed
<1>9. AppsInv'
  BY <1>1 DEF DriverInv, AppsInv, Alone
<1> QED
  BY <1>6, <1>7, <1>8, <1>9 DEF DriverInv

LEMMA DriverStep ==
  ASSUME D!DriverAssumption, DriverInv, [D!Next]_(D!vars)
  PROVE  DriverInv'
<1>1. CASE D!tick \/ D!SDRTick
  BY <1>1, SimTick, LoopTick
<1>2. CASE D!ctl_conn
  <2>1. cfg_delay' \in Nat
    BY <1>2 DEF D!ctl_conn, D!DriverAssumption
  <2>2. UNCHANGED <<device, txq, delay, air, writer, open, conns, shared,
                    heard, sent, ticks, entered, last_heard, delayed>>
    BY <1>2 DEF D!ctl_conn, D!line, D!apps
  <2>3. DriverType'
    BY <2>1, <2>2 DEF DriverInv, DriverType
  <2>4. (FlowInv /\ AppsInv)'
    BY <2>2 DEF DriverInv, FlowInv, Travels, AppsInv, Alone
  <2>5. (LineTimed /\ HeardTimed)'
    BY <2>2 DEF DriverInv, LineTimed, HeardTimed, D!HeardAt
  <2> QED
    BY <2>3, <2>4, <2>5 DEF DriverInv
<1>3. ASSUME NEW i \in D!Stations, D!Connect(i)
      PROVE  DriverInv'
  <2>1. /\ UNCHANGED <<device, cfg_delay, txq, delay, air, heard, sent, ticks,
                       entered, last_heard, delayed>>
        /\ conns' = [conns EXCEPT ![i] = @ + 1]
        /\ open' = [open EXCEPT ![i] = @ \cup {conns[i] + 1}]
        /\ writer' = [writer EXCEPT ![i] = conns[i] + 1]
        /\ shared' = IF open[i] = {} THEN shared ELSE shared \cup {i}
    BY <1>3 DEF D!Connect, D!line
  <2>2. DriverType'
    BY <2>1 DEF DriverInv, DriverType
  <2>3. AppsInv'
    <3> SUFFICES ASSUME NEW j \in D!Stations \ shared'
                 PROVE  Alone(j)'
      BY DEF AppsInv
    <3>1. CASE j = i
      <4>1. /\ open[i] = {} /\ conns[i] + 1 \in Nat \ {0}
            /\ open'[i] = {conns[i] + 1} /\ writer'[i] = conns[i] + 1
        BY <2>1, <3>1 DEF DriverInv, DriverType
      <4> QED
        BY <3>1, <4>1 DEF Alone
    <3>2. CASE j # i
      <4>1. open'[j] = open[j] /\ writer'[j] = writer[j] /\ j \notin shared
        BY <2>1, <3>2 DEF DriverInv, DriverType
      <4> QED
        BY <4>1 DEF DriverInv, AppsInv, Alone
    <3> QED
      BY <3>1, <3>2
  <2>4. (FlowInv /\ LineTimed /\ HeardTimed)'
    BY <2>1 DEF DriverInv, FlowInv, Travels, LineTimed, HeardTimed, D!HeardAt
  <2> QED
    BY <2>2, <2>3, <2>4 DEF DriverInv
<1>4. ASSUME NEW i \in D!Stations, D!Queues(i)
      PROVE  DriverInv'
  <2>1. PICK n \in 1..D!Least(TICK + 1, MaxSamples - sent[i]) :
          /\ txq' = [txq EXCEPT ![i] = @ \o [k \in 1..n |-> sent[i] + k]]
          /\ sent' = [sent EXCEPT ![i] = @ + n]
    BY <1>4 DEF D!Queues
  <2>2. /\ UNCHANGED <<device, cfg_delay, delay, air, writer, open, conns,
                       shared, heard, ticks, entered, last_heard, delayed>>
    BY <1>4 DEF D!Queues, D!apps
  <2>3. n \in Nat
    OBVIOUS
  <2> DEFINE u == txq[i] \o [k \in 1..n |-> sent[i] + k]
  <2>4. /\ u \in Seq(Nat)
        /\ Ordered(last_heard[D!peer(i)], heard[D!peer(i)], Travels(i), u,
                   sent[i] + n)
    <3>1. /\ txq[i] \in Seq(Nat) /\ sent[i] \in Nat
          /\ Ordered(last_heard[D!peer(i)], heard[D!peer(i)], Travels(i),
                     txq[i], sent[i])
      BY DEF DriverInv, DriverType, FlowInv
    <3> QED
      BY <2>3, <3>1, Adds
  <2>5. txq' = [txq EXCEPT ![i] = u]
    BY <2>1
  <2> HIDE DEF u
  <2>6. DriverType'
    <3>1. txq' \in [D!Stations -> Seq(Nat)]
      BY <2>4, <2>5 DEF DriverInv, DriverType
    <3>2. sent' \in [D!Stations -> Nat]
      BY <2>1, <2>3 DEF DriverInv, DriverType
    <3> QED
      BY <2>2, <3>1, <3>2 DEF DriverInv, DriverType
  <2>7. FlowInv'
    <3> SUFFICES ASSUME NEW j \in D!Stations
                 PROVE  Ordered(last_heard[D!peer(j)], heard[D!peer(j)],
                                Travels(j), txq'[j], sent'[j])
      BY <2>2 DEF FlowInv, Travels
    <3>1. CASE j = i
      <4>1. txq'[i] = u /\ sent'[i] = sent[i] + n
        BY <2>1, <2>5 DEF DriverInv, DriverType
      <4> QED
        BY <2>4, <3>1, <4>1
    <3>2. CASE j # i
      <4>1. txq'[j] = txq[j] /\ sent'[j] = sent[j]
        BY <2>1, <2>5, <3>2 DEF DriverInv, DriverType
      <4> QED
        BY <4>1 DEF DriverInv, FlowInv
    <3> QED
      BY <3>1, <3>2
  <2>8. (LineTimed /\ HeardTimed /\ AppsInv)'
    BY <2>2 DEF DriverInv, LineTimed, HeardTimed, D!HeardAt, AppsInv, Alone
  <2> QED
    BY <2>6, <2>7, <2>8 DEF DriverInv
<1>5. ASSUME NEW i \in D!Stations, D!Disconnect(i)
      PROVE  DriverInv'
  <2>1. PICK c \in open[i] : open' = [open EXCEPT ![i] = @ \ {c}]
    BY <1>5 DEF D!Disconnect
  <2>2. /\ UNCHANGED <<device, cfg_delay, delay, air, conns, shared, heard,
                       sent, ticks, entered, last_heard, delayed>>
        /\ writer' = [writer EXCEPT ![i] = 0]
        /\ txq' = [txq EXCEPT ![i] = <<>>]
    BY <1>5 DEF D!Disconnect
  <2>3. DriverType'
    <3>1. txq' \in [D!Stations -> Seq(Nat)]
      BY <2>2 DEF DriverInv, DriverType
    <3>2. open' \in [D!Stations -> SUBSET Nat]
      BY <2>1 DEF DriverInv, DriverType
    <3>3. writer' \in [D!Stations -> Nat]
      BY <2>2 DEF DriverInv, DriverType
    <3> QED
      BY <2>2, <3>1, <3>2, <3>3 DEF DriverInv, DriverType
  <2>4. FlowInv'
    <3> SUFFICES ASSUME NEW j \in D!Stations
                 PROVE  Ordered(last_heard[D!peer(j)], heard[D!peer(j)],
                                Travels(j), txq'[j], sent[j])
      BY <2>2 DEF FlowInv, Travels
    <3>1. Ordered(last_heard[D!peer(j)], heard[D!peer(j)], Travels(j), txq[j],
                  sent[j])
      BY DEF DriverInv, FlowInv
    <3>2. txq'[j] = <<>> \/ txq'[j] = txq[j]
      BY <2>2 DEF DriverInv, DriverType
    <3> QED
      BY <3>1, <3>2, Leaves
  <2>5. AppsInv'
    <3> SUFFICES ASSUME NEW j \in D!Stations \ shared
                 PROVE  Alone(j)'
      BY <2>2 DEF AppsInv
    <3>1. Alone(j)
      BY DEF DriverInv, AppsInv
    <3>2. CASE j = i
      <4>1. open[i] = {c}
        BY <2>1, <3>1, <3>2 DEF Alone
      <4>2. open'[i] = {} /\ writer'[i] = 0
        BY <2>1, <2>2, <4>1 DEF DriverInv, DriverType
      <4> QED
        BY <3>2, <4>2 DEF Alone
    <3>3. CASE j # i
      <4>1. open'[j] = open[j] /\ writer'[j] = writer[j]
        BY <2>1, <2>2, <3>3 DEF DriverInv, DriverType
      <4> QED
        BY <3>1, <4>1 DEF Alone
    <3> QED
      BY <3>2, <3>3
  <2>6. (LineTimed /\ HeardTimed)'
    BY <2>2 DEF DriverInv, LineTimed, HeardTimed, D!HeardAt
  <2> QED
    BY <2>3, <2>4, <2>5, <2>6 DEF DriverInv
<1>6. CASE UNCHANGED D!vars
  <2>1. UNCHANGED <<device, cfg_delay, txq, delay, air, writer, open, conns,
                    shared, heard, sent, ticks, entered, last_heard, delayed>>
    BY <1>6 DEF D!vars, D!line, D!apps
  <2>2. (DriverType /\ AppsInv)'
    BY <2>1 DEF DriverInv, DriverType, AppsInv, Alone
  <2>3. (FlowInv /\ LineTimed /\ HeardTimed)'
    BY <2>1 DEF DriverInv, FlowInv, Travels, LineTimed, HeardTimed, D!HeardAt
  <2> QED
    BY <2>2, <2>3 DEF DriverInv
<1> QED
  BY <1>1, <1>2, <1>3, <1>4, <1>5, <1>6 DEF D!Next, D!Pump

(* Whatever the ticks, the delays and the times at which apps come, go and *)
(* write: a station hears the samples of its peer in order, each once,     *)
(* through the line none sooner than the delay configured, and an app that *)
(* has the station to itself is the one that is heard (tick,               *)
(* station_conn).                                                          *)
THEOREM ChannelTrueAlways == Spec => []ChannelTrue
<1> DEFINE I == which = "driver" => DriverInv
<1>1. D!DriverAssumption
  BY BenchAssumption
<1>2. Init => I
  BY <1>1, DriverStart DEF Init
<1>3. I /\ [Next]_all => I'
  <2> SUFFICES ASSUME I, [Next]_all, which' = "driver"
               PROVE  DriverInv'
    OBVIOUS
  <2>1. which = "driver"
    BY Stays
  <2>2. [D!Next]_(D!vars)
    BY <2>1 DEF Next, all, D!vars, D!line, D!apps
  <2> QED
    BY <1>1, <2>1, <2>2, DriverStep
<1>4. I => ChannelTrue
  <2> SUFFICES ASSUME DriverInv
               PROVE  D!ChannelTrue
    BY DEF ChannelTrue
  <2> SUFFICES ASSUME NEW i \in D!Stations
               PROVE  /\ \A k \in DOMAIN heard[i] : heard[i][k] # 0 =>
                           /\ heard[i][k] > last_heard[i]
                           /\ \A j \in 1..k - 1 : heard[i][j] < heard[i][k]
                           /\ device = "sim" =>
                                \E e \in entered[D!peer(i)] :
                                  /\ e[1] = heard[i][k]
                                  /\ D!HeardAt(k) - e[2] >= delayed
                      /\ i \notin shared => (open[i] # {} <=> writer[i] # 0)
    BY DEF D!ChannelTrue
  <2>1. /\ heard[i] \in Seq(Nat) /\ last_heard[i] \in Nat
        /\ DOMAIN heard[i] = 1..Len(heard[i])
    BY LenProperties DEF DriverInv, DriverType
  <2>2. \A k \in 1..Len(heard[i]) : heard[i][k] # 0 =>
          /\ last_heard[i] < heard[i][k]
          /\ \A j \in 1..k - 1 : heard[i][j] < heard[i][k]
    <3>1. Rising(heard[i]) /\ Ahead({last_heard[i]}, Voiced(heard[i]))
      <4>1. D!peer(i) \in D!Stations /\ D!peer(D!peer(i)) = i
        BY Peers
      <4> QED
        BY <4>1 DEF DriverInv, FlowInv, Ordered
    <3> QED
      BY <3>1 DEF Rising, Ahead, Voiced
  <2>3. \A k \in 1..Len(heard[i]) : heard[i][k] \in Nat
    BY <2>1, ElementOfSeq
  <2>4. i \notin shared => (open[i] # {} <=> writer[i] # 0)
    BY DEF DriverInv, AppsInv, Alone
  <2> QED
    BY <2>1, <2>2, <2>3, <2>4 DEF DriverInv, HeardTimed
<1> QED
  BY <1>2, <1>3, <1>4, PTL DEF Spec
=============================================================================
