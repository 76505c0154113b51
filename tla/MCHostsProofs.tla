---------------------------- MODULE MCHostsProofs ----------------------------
(***************************************************************************)
(* Proofs about the programs on the host, for every bound and size: the    *)
(* warming of the link (WarmUp), the voice server (VoiceLink), the file    *)
(* transfers of the board console (BoardConsole), the packet bridge and    *)
(* the tunnel (KissBridge, IpTunnel), their KISS line (KissWire), and the  *)
(* voice streamer (VoiceStream).                                           *)
(***************************************************************************)
EXTENDS MCHosts, NaturalLemmas, SequenceTheorems, FiniteSetTheorems, TLAPS

(* A behaviour is about one program from its start to its end.             *)
LEMMA Stays == [Next]_all => which' = which
  BY DEF Next, all, NetAlone, ConsoleAlone, VoiceAlone, WireAlone,
         WarmupAlone, SpeechAlone

-----------------------------------------------------------------------------
(* Warming the link.  A board that has something to send has had it for as *)
(* long as it takes to be heard whenever no frame is waited for, and for a *)
(* Gap more when settle looks; the status is younger than that, so that a  *)
(* clean one means that there is nothing left on the air.                  *)
Request ==
  [pc : {"idle", "warm", "wait", "settle", "talk"}, for : {"warmup", "start"},
   settle : BOOLEAN, n : Nat, clean : Nat, need : Nat, rest : Nat,
   trouble : BOOLEAN]

WarmType ==
  /\ req \in Request
  /\ talks \in {"idle", "talking", "flushing", "draining"}
  /\ tx_status \in BOOLEAN /\ age \in 0..MaxAge
  /\ queue \in Seq(Nat \ {0}) /\ flight \in Nat
  /\ busy \in 0..AirTime + Gap
  /\ quiet \in BOOLEAN /\ slipped \in BOOLEAN

(* Nothing is on the air without a frame in flight.                        *)
AirOfFlight == flight = W!NoFrame => air = "clear"

(* What is known of a board that has something to send: a clean status is  *)
(* from before it, and it has had it for so long.                          *)
Timed ==
  ~W!AllQuiet =>
    /\ tx_status => age >= busy
    /\ req.pc = "wait" /\ req.n \in rx_msgs => busy >= AirTime
    /\ req.pc = "settle" => busy + req.rest >= AirTime + Gap
    /\ req.pc = "wait" => busy + req.rest >= AirTime
    /\ req.pc # "wait" => busy >= AirTime

(* Where a request is, and what it may count on there.                     *)
RequestTrue ==
  /\ req.pc \in {"warm", "wait"} => talks = "idle" \/ slipped
  /\ req.pc \in {"warm", "wait", "settle"} /\ req.for = "start" => req.settle
  /\ req.pc = "settle" => req.need > 0
  /\ req.pc = "talk" /\ ~req.trouble => W!AllQuiet

WarmInv == WarmType /\ AirOfFlight /\ Timed /\ RequestTrue /\ W!QuietAir

LEMMA WarmStart ==
  ASSUME W!WarmUpAssumption, W!Init
  PROVE  WarmInv
<1> USE DEF W!Init, W!WarmUpAssumption
<1>1. WarmType
  <2>1. req \in Request
    BY DEF Request, W!Idle
  <2>2. queue \in Seq(Nat \ {0})
    OBVIOUS
  <2>3. busy \in 0..AirTime + Gap /\ age \in 0..MaxAge
    BY DEF W!Long
  <2> QED
    BY <2>1, <2>2, <2>3 DEF WarmType, W!NoFrame
<1>2. AirOfFlight /\ W!QuietAir /\ W!AllQuiet
  BY DEF AirOfFlight, W!QuietAir, W!AllQuiet
<1>3. Timed
  BY <1>2 DEF Timed
<1>4. RequestTrue
  BY DEF RequestTrue, W!Idle
<1> QED
  BY <1>1, <1>2, <1>3, <1>4 DEF WarmInv

(* A step of anybody that leaves the times and the board alone.            *)
LEMMA QuietStays ==
  ASSUME WarmInv, UNCHANGED <<queue, flight, air>>
  PROVE  /\ W!AllQuiet' = W!AllQuiet /\ AirOfFlight'
         /\ queue' \in Seq(Nat \ {0}) /\ flight' \in Nat
  BY DEF WarmInv, WarmType, AirOfFlight, W!AllQuiet

(* The board only moves while something is queued or on the air, so that   *)
(* what rests on a quiet link is not at stake.                             *)
LEMMA BoardMoves ==
  ASSUME W!WarmUpAssumption, WarmInv, W!Board
  PROVE  WarmInv'
<1> USE DEF WarmInv
<1>1. /\ queue' \in Seq(Nat \ {0}) /\ flight' \in Nat
      /\ AirOfFlight' /\ ~W!AllQuiet
      /\ UNCHANGED <<req, talks, tx_status, age, busy, quiet, slipped>>
      /\ UNCHANGED rx_msgs \/ busy >= AirTime
  <2>1. CASE W!Keys
    <3>1. ~W!AllQuiet
          /\ UNCHANGED <<req, talks, tx_status, age, busy, quiet, slipped,
                         rx_msgs>>
      BY <2>1 DEF W!Keys, W!host, W!AllQuiet
    <3>2. CASE flight = W!NoFrame /\ queue # <<>> /\ flight' = Head(queue)
               /\ queue' = Tail(queue)
      <4>1. queue' \in Seq(Nat \ {0}) /\ flight' \in Nat \ {0}
        BY <3>2 DEF WarmType
      <4> QED
        BY <3>1, <4>1 DEF AirOfFlight, W!NoFrame
    <3>3. CASE flight # W!NoFrame /\ UNCHANGED <<flight, queue>>
      BY <3>1, <3>3 DEF AirOfFlight, WarmType
    <3> QED
      BY <2>1, <3>1, <3>2, <3>3 DEF W!Keys
  <2>2. CASE W!Lost
    BY <2>2 DEF W!Lost, W!host, W!AllQuiet, WarmType, AirOfFlight
  <2>3. CASE W!GivesUp
    BY <2>3 DEF W!GivesUp, W!host, W!AllQuiet, WarmType, AirOfFlight, W!NoFrame
  <2>4. CASE W!Heard
    BY <2>4 DEF W!Heard, W!AllQuiet, WarmType, AirOfFlight, W!bounds
  <2>5. CASE W!Acknowledged
    BY <2>5 DEF W!Acknowledged, W!host, W!AllQuiet, WarmType, AirOfFlight,
                W!NoFrame
  <2> QED
    BY <2>1, <2>2, <2>3, <2>4, <2>5 DEF W!Board
<1>2. WarmType'
  BY <1>1 DEF WarmType
<1>3. Timed'
  BY <1>1 DEF Timed
<1>4. RequestTrue'
  BY <1>1 DEF RequestTrue
<1>5. W!QuietAir'
  BY <1>1 DEF W!QuietAir
<1> QED
  BY <1>1, <1>2, <1>3, <1>4, <1>5

(* What is answered is again idle, or talks with what it knows.            *)
LEMMA AnsweredTyped ==
  ASSUME NEW r \in Request
  PROVE  /\ W!Answered(r) \in Request
         /\ W!Answered(r).pc \in {"idle", "talk"}
         /\ W!Answered(r).pc = "talk" =>
              r.for = "start" /\ W!Answered(r).trouble = r.trouble
<1>1. CASE r.for = "start"
  BY <1>1 DEF W!Answered, Request
<1>2. CASE r.for # "start"
  BY <1>2 DEF W!Answered, W!Idle, Request
<1> QED
  BY <1>1, <1>2

(* Where a request may be next.                                            *)
GoesTo ==
  /\ req' \in Request /\ req'.pc # "wait"
  /\ req'.pc = "warm" => talks = "idle" \/ slipped'
  /\ req'.pc \in {"warm", "settle"} /\ req'.for = "start" => req'.settle
  /\ req'.pc = "settle" => req'.need > 0 /\ req'.rest = Gap
  /\ req'.pc = "talk" /\ ~req'.trouble => W!AllQuiet

(* A step of the request that leaves the board alone.                      *)
LEMMA GoesOn ==
  ASSUME W!WarmUpAssumption, WarmInv, GoesTo, ~W!AllQuiet => busy >= AirTime,
         UNCHANGED <<talks, tx_status, age, queue, flight, air, busy, quiet>>,
         slipped' \in BOOLEAN, slipped => slipped'
  PROVE  WarmInv'
<1> USE DEF WarmInv
<1>1. /\ W!AllQuiet' = W!AllQuiet /\ AirOfFlight'
      /\ queue' \in Seq(Nat \ {0}) /\ flight' \in Nat
  BY QuietStays
<1>2. WarmType'
  BY <1>1 DEF WarmType, GoesTo
<1>3. Timed'
  <2>1. AirTime \in Nat /\ Gap \in Nat /\ busy \in Nat
    BY DEF W!WarmUpAssumption, WarmType
  <2> QED
    BY <1>1, <2>1 DEF Timed, GoesTo
<1>4. RequestTrue'
  BY <1>1 DEF RequestTrue, GoesTo
<1>5. W!QuietAir'
  BY <1>1 DEF W!QuietAir
<1> QED
  BY <1>1, <1>2, <1>3, <1>4, <1>5

LEMMA RequestMoves ==
  ASSUME WarmInv, W!WarmUpAssumption,
         \/ W!Echo \/ W!WaitEnds \/ W!Look \/ W!SettleGivesUp
  PROVE  WarmInv'
<1> USE DEF WarmInv
<1>1. UNCHANGED <<talks, tx_status, age, queue, flight, air, busy, quiet,
                  slipped>>
  BY DEF W!Echo, W!WaitEnds, W!Look, W!SettleGivesUp, W!station
<1>2. /\ req \in Request /\ tx_status \in BOOLEAN /\ busy \in Nat
      /\ age \in Nat /\ age <= MaxAge
      /\ {AirTime, Gap, MaxAge} \subseteq Nat /\ MaxAge < AirTime + Gap
  BY DEF WarmType, W!WarmUpAssumption
<1>3. GoesTo /\ (~W!AllQuiet => busy >= AirTime)
  <2>1. CASE W!Echo
    <3>1. /\ req' = W!Echoed(req) /\ req.n \in rx_msgs
          /\ req.pc = "wait"
      BY <2>1 DEF W!Echo
    <3>2. /\ req.for = "start" => req.settle
          /\ ~W!AllQuiet => busy >= AirTime
      BY <3>1 DEF RequestTrue, Timed
    <3>3. CASE req.settle
      <4>1. req' = [req EXCEPT !.pc = "settle", !.clean = 0, !.need = 2,
                               !.rest = Gap]
        BY <3>1, <3>3 DEF W!Echoed, W!Settles
      <4>2. /\ req' \in Request /\ req'.pc = "settle" /\ req'.need = 2
            /\ req'.rest = Gap
        BY <4>1, <1>2 DEF Request
      <4>3. req'.settle = req.settle
        BY <4>1, <1>2 DEF Request
      <4> QED
        BY <3>2, <3>3, <4>2, <4>3 DEF GoesTo
    <3>4. CASE ~req.settle
      <4>1. req' = W!Idle
        BY <3>1, <3>2, <3>4, <1>2 DEF W!Echoed, W!Answered, Request
      <4> QED
        BY <3>2, <4>1 DEF W!Idle, Request, GoesTo
    <3> QED
      BY <3>3, <3>4
  <2>2. CASE W!WaitEnds
    <3>1. /\ req.pc = "wait" /\ (talks = "idle" \/ slipped)
          /\ req.for = "start" => req.settle
          /\ ~W!AllQuiet => busy >= AirTime
      BY <1>2, <2>2 DEF W!WaitEnds, RequestTrue, Timed
    <3>2. CASE req' = [req EXCEPT !.pc = "warm"]
      BY <1>1, <1>2, <3>1, <3>2 DEF Request, GoesTo
    <3>3. CASE req' = W!Answered([req EXCEPT !.trouble = TRUE])
      <4> DEFINE r == [req EXCEPT !.trouble = TRUE]
      <4>1. r \in Request /\ r.trouble
        BY <1>2 DEF Request
      <4> HIDE DEF r
      <4>2. req' = W!Answered(r)
        BY <3>3 DEF r
      <4> QED
        BY <3>1, <4>1, <4>2, AnsweredTyped DEF GoesTo
    <3> QED
      BY <2>2, <3>2, <3>3 DEF W!WaitEnds
  <2>3. CASE W!Look
    <3> DEFINE clean == IF tx_status THEN req.clean + 1 ELSE 0
    <3>1. /\ req.pc = "settle" /\ req.rest = 0
          /\ req.clean \in Nat /\ req.need \in Nat /\ req.need > 0
          /\ req.for = "start" => req.settle
      BY <2>3, <1>2 DEF W!Look, RequestTrue, Request
    <3>2. req' = IF clean >= req.need THEN W!Answered(req)
                 ELSE [req EXCEPT !.clean = clean, !.rest = Gap]
      BY <2>3 DEF W!Look
    <3>3. clean \in Nat
      BY <3>1
    <3>4. ~W!AllQuiet => busy >= AirTime + Gap
      BY <1>2, <3>1 DEF Timed
    <3>5. clean >= req.need => W!AllQuiet
      <4> SUFFICES ASSUME clean >= req.need, ~W!AllQuiet PROVE FALSE
        OBVIOUS
      <4>1. tx_status
        BY <3>1
      <4>2. age >= busy
        BY <4>1 DEF Timed
      <4> QED
        BY <1>2, <3>4, <4>2
    <3> HIDE DEF clean
    <3>6. CASE clean >= req.need
      BY <1>2, <3>1, <3>2, <3>5, <3>6, AnsweredTyped DEF GoesTo
    <3>7. CASE ~ clean >= req.need
      <4>1. req' = [req EXCEPT !.clean = clean, !.rest = Gap]
        BY <3>2, <3>7
      <4>2. /\ req' \in Request /\ req'.pc = "settle" /\ req'.rest = Gap
            /\ req'.need = req.need /\ req'.settle = req.settle
            /\ req'.for = req.for
        BY <1>2, <3>1, <3>3, <4>1 DEF Request
      <4> QED
        BY <1>2, <3>1, <3>4, <4>2 DEF GoesTo
    <3> QED
      BY <3>6, <3>7
  <2>4. CASE W!SettleGivesUp
    <3> DEFINE r == [req EXCEPT !.trouble = TRUE]
    <3>1. r \in Request /\ r.trouble
      BY <1>2 DEF Request
    <3>2. req' = W!Answered(r) /\ req.pc = "settle"
      BY <2>4 DEF W!SettleGivesUp
    <3>3. ~W!AllQuiet => busy >= AirTime
      BY <3>2 DEF Timed
    <3> HIDE DEF r
    <3> QED
      BY <3>1, <3>2, <3>3, AnsweredTyped DEF GoesTo
  <2> QED
    BY <2>1, <2>2, <2>3, <2>4
<1>4. slipped' \in BOOLEAN /\ slipped' = slipped
  BY <1>1 DEF WarmType
<1> QED
  BY <1>1, <1>3, <1>4, GoesOn

(* What is posted: a warm-up begins while nothing is transmitted, or it    *)
(* slips in while STOP flushes.                                            *)
LEMMA Posts ==
  ASSUME WarmInv, W!WarmUpAssumption, W!Warmup \/ W!Start
  PROVE  WarmInv'
<1> USE DEF WarmInv
<1>1. /\ UNCHANGED <<talks, tx_status, age, queue, flight, air, busy, quiet>>
      /\ req.pc = "idle"
  BY DEF W!Warmup, W!Start, W!Posted, W!station
<1>2. PICK kind \in {"warmup", "start"}, settle \in BOOLEAN :
        W!Posted(kind, settle) /\ (kind = "warmup" => ~W!OnAir)
  BY DEF W!Warmup, W!Start
<1> DEFINE place == CASE kind = "warmup" -> "warm"
                      [] ~settle -> "talk"
                      [] settle /\ ~linkFresh /\ ~W!OnAir -> "warm"
                      [] settle /\ ~linkFresh /\ W!OnAir -> "talk"
                      [] OTHER -> "settle"
           need == IF kind = "start" THEN 1 ELSE 2
           trouble == ~settle \/ (~linkFresh /\ W!OnAir)
<1>3. /\ req' = [pc |-> place, for |-> kind, settle |-> settle, n |-> 0,
                 clean |-> 0, need |-> need, rest |-> Gap,
                 trouble |-> trouble]
      /\ slipped' = (slipped \/ talks = "flushing")
  BY <1>2 DEF W!Posted, W!Idle
<1>4. talks \in {"idle", "talking", "flushing", "draining"}
  BY DEF WarmType
<1>5. /\ place \in {"warm", "talk", "settle"}
      /\ place = "warm" => talks = "idle" \/ talks = "flushing"
      /\ place \in {"warm", "settle"} /\ kind = "start" => settle
      /\ place = "talk" => trouble
  BY <1>2, <1>4 DEF W!OnAir
<1>6. need \in Nat \ {0} /\ trouble \in BOOLEAN /\ Gap \in Nat
  BY DEF W!OnAir, W!WarmUpAssumption
<1> HIDE DEF place, need, trouble
<1>7. req' \in Request
  BY <1>3, <1>5, <1>6 DEF Request
<1>8. slipped' \in BOOLEAN /\ (slipped => slipped')
      /\ (talks = "flushing" => slipped')
  <2>1. slipped \in BOOLEAN
    BY DEF WarmType
  <2> QED
    BY <1>3, <2>1, Zenon
<1>9. GoesTo
  BY <1>3, <1>5, <1>6, <1>7, <1>8 DEF GoesTo
<1>10. ~W!AllQuiet => busy >= AirTime
  BY <1>1 DEF Timed
<1> QED
  BY <1>1, <1>8, <1>9, <1>10, GoesOn

(* The rest: what the drain loop reads, a frame, START, STOP and time.     *)
LEMMA TimePasses ==
  ASSUME WarmInv, W!WarmUpAssumption, W!Tick
  PROVE  WarmInv'
<1> USE DEF WarmInv
<1>1. /\ UNCHANGED <<talks, rx_msgs, tx_status, queue, flight, air, quiet,
                     slipped>>
      /\ age < MaxAge /\ age' = age + 1
      /\ busy' = IF busy + 1 < AirTime + Gap THEN busy + 1 ELSE AirTime + Gap
      /\ req' = [req EXCEPT !.rest = IF @ = 0 THEN 0 ELSE @ - 1]
  BY DEF W!Tick, W!Least, W!Long
<1>2. /\ req \in Request /\ busy \in Nat /\ busy <= AirTime + Gap
      /\ age \in Nat /\ AirTime \in Nat /\ Gap \in Nat /\ MaxAge \in Nat
  BY DEF WarmType, W!WarmUpAssumption
<1>3. /\ req' \in Request /\ req'.pc = req.pc /\ req'.for = req.for
      /\ req'.settle = req.settle /\ req'.need = req.need /\ req'.n = req.n
      /\ req'.trouble = req.trouble
      /\ req'.rest = IF req.rest = 0 THEN 0 ELSE req.rest - 1
  <2> DEFINE r == IF req.rest = 0 THEN 0 ELSE req.rest - 1
  <2>1. r \in Nat
    BY <1>2 DEF Request
  <2>2. req' = [req EXCEPT !.rest = r]
    BY <1>1
  <2> HIDE DEF r
  <2>3. /\ req' \in Request /\ req'.pc = req.pc /\ req'.for = req.for
        /\ req'.settle = req.settle /\ req'.need = req.need /\ req'.n = req.n
        /\ req'.trouble = req.trouble /\ req'.rest = r
    BY <1>2, <2>1, <2>2 DEF Request
  <2> QED
    BY <2>3 DEF r
<1>4. /\ W!AllQuiet' = W!AllQuiet /\ AirOfFlight'
      /\ queue' \in Seq(Nat \ {0}) /\ flight' \in Nat
  BY <1>1, QuietStays
<1>5. busy' \in 0..AirTime + Gap /\ age' \in 0..MaxAge
  BY <1>1, <1>2
<1>6. WarmType'
  BY <1>1, <1>3, <1>4, <1>5 DEF WarmType
<1>7. Timed'
  <2> SUFFICES ASSUME ~W!AllQuiet PROVE Timed'
    BY <1>4 DEF Timed
  <2>1. req.rest \in Nat
    BY <1>2 DEF Request
  <2>2. tx_status => age' >= busy'
    BY <1>1, <1>2 DEF Timed
  <2>3. \A n \in {AirTime, AirTime + Gap} :
          /\ busy >= n => busy' >= n
          /\ busy + req.rest >= n => busy' + req'.rest >= n
    BY <1>1, <1>2, <1>3, <2>1
  <2> QED
    BY <1>1, <1>3, <2>2, <2>3 DEF Timed
<1>8. RequestTrue' /\ W!QuietAir'
  BY <1>1, <1>3, <1>4 DEF RequestTrue, W!QuietAir
<1> QED
  BY <1>4, <1>6, <1>7, <1>8

LEMMA StatusTaken ==
  ASSUME WarmInv, W!WarmUpAssumption, W!TxLoop
  PROVE  WarmInv'
<1> USE DEF WarmInv
<1>1. /\ UNCHANGED <<req, talks, rx_msgs, queue, flight, air, busy, quiet,
                     slipped>>
      /\ tx_status' = W!NothingToSend /\ age' = 0
  BY DEF W!TxLoop, W!station
<1>2. W!NothingToSend \in BOOLEAN /\ (W!NothingToSend => W!AllQuiet)
  BY DEF W!NothingToSend, W!AllQuiet, AirOfFlight
<1>3. /\ W!AllQuiet' = W!AllQuiet /\ AirOfFlight'
      /\ queue' \in Seq(Nat \ {0}) /\ flight' \in Nat
  BY <1>1, QuietStays
<1>4. WarmType'
  BY <1>1, <1>2, <1>3 DEF WarmType, W!WarmUpAssumption
<1>5. Timed'
  BY <1>1, <1>2, <1>3 DEF Timed
<1>6. RequestTrue' /\ W!QuietAir'
  BY <1>1, <1>3 DEF RequestTrue, W!QuietAir
<1> QED
  BY <1>3, <1>4, <1>5, <1>6

LEMMA FrameSubmitted ==
  ASSUME WarmInv, W!WarmUpAssumption, W!Submit
  PROVE  WarmInv'
<1> USE DEF WarmInv
<1>1. /\ UNCHANGED <<talks, tx_status, age, flight, air, quiet, slipped>>
      /\ req.pc = "warm" /\ rx_msgs' = {}
      /\ req' = [req EXCEPT !.pc = "wait", !.n = req.n + 1, !.rest = Patience]
      /\ busy' = IF W!NothingToSend THEN 0 ELSE busy
      /\ queue' = Append(queue, req.n + 1)
  BY DEF W!Submit
<1>2. /\ req \in Request /\ busy \in 0..AirTime + Gap /\ age \in Nat
      /\ {AirTime, Gap, Patience} \subseteq Nat /\ AirTime <= Patience
  BY DEF WarmType, W!WarmUpAssumption
<1>3. /\ req' \in Request /\ req'.pc = "wait" /\ req'.for = req.for
      /\ req'.settle = req.settle /\ req'.rest = Patience
  <2> DEFINE n == req.n + 1
  <2>1. n \in Nat
    BY <1>2 DEF Request
  <2>2. req' = [req EXCEPT !.pc = "wait", !.n = n, !.rest = Patience]
    BY <1>1
  <2> HIDE DEF n
  <2> QED
    BY <1>2, <2>1, <2>2 DEF Request
<1>4. req.n + 1 \in Nat \ {0}
  BY <1>2 DEF Request
<1>5. queue' \in Seq(Nat \ {0})
  BY <1>1, <1>4 DEF WarmType
<1>6. (talks = "idle" \/ slipped) /\ (req.for = "start" => req.settle)
  BY <1>1 DEF RequestTrue
<1>7. /\ busy' \in 0..AirTime + Gap
      /\ tx_status => age >= busy'
  <2>1. W!NothingToSend \/ ~W!AllQuiet
    BY DEF W!NothingToSend, W!AllQuiet
  <2> QED
    BY <1>1, <1>2, <2>1 DEF Timed
<1>8. WarmType'
  BY <1>1, <1>3, <1>5, <1>7 DEF WarmType
<1>9. Timed'
  BY <1>1, <1>2, <1>3, <1>7 DEF Timed
<1>10. RequestTrue'
  BY <1>1, <1>3, <1>6 DEF RequestTrue
<1>11. AirOfFlight' /\ W!QuietAir'
  BY <1>1, <1>6 DEF AirOfFlight, W!QuietAir
<1> QED
  BY <1>8, <1>9, <1>10, <1>11

LEMMA OthersMove ==
  ASSUME WarmInv, W!WarmUpAssumption, W!Talk \/ W!Stop \/ W!Decays
  PROVE  WarmInv'
<1> USE DEF WarmInv
<1>1. UNCHANGED <<rx_msgs, tx_status, age, queue, flight, air, busy>>
  BY DEF W!Talk, W!Stop, W!Decays, W!station
<1>2. /\ W!AllQuiet' = W!AllQuiet /\ AirOfFlight'
      /\ queue' \in Seq(Nat \ {0}) /\ flight' \in Nat
  BY <1>1, QuietStays
<1>3. CASE W!Talk
  <2>1. /\ req.pc = "talk" /\ talks' = "talking" /\ quiet' = ~req.trouble
        /\ req' = W!Idle /\ slipped' = FALSE
    BY <1>3 DEF W!Talk
  <2>2. W!Idle \in Request /\ W!Idle.pc = "idle"
    BY DEF W!Idle, Request
  <2>3. quiet' \in BOOLEAN
    <3>1. req.trouble \in BOOLEAN
      BY DEF WarmType, Request
    <3> QED
      BY <2>1, <3>1, Zenon
  <2>4. WarmType'
    BY <1>1, <1>2, <2>1, <2>2, <2>3 DEF WarmType
  <2>5. Timed'
    BY <1>1, <1>2, <2>1, <2>2 DEF Timed
  <2>6. RequestTrue' /\ W!QuietAir'
    BY <1>2, <2>1, <2>2 DEF RequestTrue, W!QuietAir
  <2> QED
    BY <1>2, <2>4, <2>5, <2>6
<1>4. CASE W!Stop
  <2>1. /\ UNCHANGED <<req, quiet, slipped>>
        /\ talks # "idle" /\ talks' \in {"flushing", "draining", "idle"}
    BY <1>4 DEF W!Stop
  <2>2. WarmType' /\ Timed'
    BY <1>1, <1>2, <2>1 DEF WarmType, Timed
  <2>3. RequestTrue' /\ W!QuietAir'
    BY <1>2, <2>1 DEF RequestTrue, W!QuietAir
  <2> QED
    BY <1>2, <2>2, <2>3
<1>5. CASE W!Decays
  <2>1. UNCHANGED <<req, talks, quiet, slipped>>
    BY <1>5 DEF W!Decays
  <2>2. WarmType' /\ Timed'
    BY <1>1, <1>2, <2>1 DEF WarmType, Timed
  <2>3. RequestTrue' /\ W!QuietAir'
    BY <1>2, <2>1 DEF RequestTrue, W!QuietAir
  <2> QED
    BY <1>2, <2>2, <2>3
<1> QED
  BY <1>3, <1>4, <1>5

LEMMA WarmStep ==
  ASSUME WarmInv, W!WarmUpAssumption, [W!Next]_(W!warming)
  PROVE  WarmInv'
<1>1. CASE W!Next
  BY <1>1, BoardMoves, RequestMoves, Posts, TimePasses, StatusTaken,
     FrameSubmitted, OthersMove DEF W!Next, W!Warms
<1>2. CASE UNCHANGED W!warming
  BY <1>2 DEF W!warming, WarmInv, WarmType, AirOfFlight, Timed, RequestTrue,
              W!QuietAir, W!AllQuiet
<1> QED
  BY <1>1, <1>2

(* Nothing of a warm-up is under way while a transmission is on the air    *)
(* whose warming ended well, however old the status is that settle looks   *)
(* at, as long as the board makes one before a frame it began to send      *)
(* would have been heard and looked at once more (the Link of server.py:   *)
(* warmup, settle, START).                                                 *)
LEMMA QuietAirAlways ==
  Spec => [](which = "warmup" => W!QuietAir)
<1> DEFINE Inv == which = "warmup" => WarmInv
<1>1. Init => Inv
  BY HostsAssumption, WarmStart DEF Init
<1>2. Inv /\ [Next]_all => Inv'
  <2> SUFFICES ASSUME Inv, [Next]_all, which' = "warmup"
               PROVE  WarmInv'
    OBVIOUS
  <2>1. which = "warmup"
    BY Stays
  <2>2. [W!Next]_(W!warming)
    BY <2>1 DEF Next, all, W!warming
  <2> QED
    BY <2>1, <2>2, WarmStep, HostsAssumption
<1>3. Inv => (which = "warmup" => W!QuietAir)
  BY DEF WarmInv
<1> HIDE DEF Inv
<1> QED
  BY <1>1, <1>2, <1>3, PTL DEF Spec

-----------------------------------------------------------------------------
(* The board console: the files it sends, then the broadcasts.             *)
Message == [file : Nat, part : Nat]
Report == [kind : {"none", "refused", "status"}, depth : Nat, free : Int]
Heard == [cast : Nat, chunk : Nat, last : BOOLEAN]

(* Where a stream of parts stands: the file it is in and the part that is  *)
(* next, or neither between two files.                                     *)
Between == <<0, 0>>
After(m) == IF m.part = NParts - 1 THEN Between ELSE <<m.file, m.part + 1>>
Follows(m, a, b) ==
  IF m = C!Pattern THEN b = a
  ELSE m.part = a[2] /\ (m.part # 0 => m.file = a[1]) /\ b = After(m)
Linked(q, a, b) ==
  \E c \in [0..Len(q) -> Nat \X Nat] :
    /\ c[0] = a /\ c[Len(q)] = b
    /\ \A i \in 1..Len(q) : Follows(q[i], c[i - 1], c[i])

LEMMA LinkedNone ==
  ASSUME NEW a \in Nat \X Nat
  PROVE  Linked(<<>>, a, a)
<1> DEFINE c == [i \in 0..0 |-> a]
<1>1. Len(<<>>) = 0 /\ c \in [0..0 -> Nat \X Nat] /\ c[0] = a
  OBVIOUS
<1> HIDE DEF c
<1>2. \A i \in 1..0 : Follows(<<>>[i], c[i - 1], c[i])
  OBVIOUS
<1> QED
  BY <1>1, <1>2 DEF Linked

LEMMA LinkedPattern ==
  ASSUME NEW a \in Nat \X Nat
  PROVE  Linked(<<C!Pattern>>, a, a)
<1> DEFINE c == [i \in 0..1 |-> a]
<1>1. /\ Len(<<C!Pattern>>) = 1 /\ <<C!Pattern>>[1] = C!Pattern
      /\ c \in [0..1 -> Nat \X Nat] /\ c[0] = a /\ c[1] = a
  OBVIOUS
<1> HIDE DEF c
<1>2. \A i \in 1..1 : Follows(<<C!Pattern>>[i], c[i - 1], c[i])
  BY <1>1 DEF Follows
<1> QED
  BY <1>1, <1>2 DEF Linked

LEMMA LinkedJoin ==
  ASSUME NEW q \in Seq(Message), NEW r \in Seq(Message), NEW a, NEW b, NEW d,
         Linked(q, a, b), Linked(r, b, d)
  PROVE  Linked(q \o r, a, d)
<1>1. PICK c \in [0..Len(q) -> Nat \X Nat] :
        /\ c[0] = a /\ c[Len(q)] = b
        /\ \A i \in 1..Len(q) : Follows(q[i], c[i - 1], c[i])
  BY DEF Linked
<1>2. PICK e \in [0..Len(r) -> Nat \X Nat] :
        /\ e[0] = b /\ e[Len(r)] = d
        /\ \A i \in 1..Len(r) : Follows(r[i], e[i - 1], e[i])
  BY DEF Linked
<1> DEFINE m == Len(q)
           n == Len(r)
           s == q \o r
           f == [i \in 0..m + n |-> IF i <= m THEN c[i] ELSE e[i - m]]
<1>3. m \in Nat /\ n \in Nat
  OBVIOUS
<1>4. /\ Len(s) = m + n
      /\ \A i \in 1..m : s[i] = q[i]
      /\ \A i \in 1..n : s[m + i] = r[i]
  OBVIOUS
<1> HIDE DEF s, m, n
<1>5. /\ f \in [0..m + n -> Nat \X Nat]
      /\ \A i \in 0..m : f[i] = c[i]
      /\ \A i \in 0..n : f[m + i] = e[i]
  <2>1. \A i \in 0..m : c[i] \in Nat \X Nat
    BY <1>1 DEF m
  <2>2. \A i \in 0..n : e[i] \in Nat \X Nat
    BY <1>2 DEF n
  <2>3. \A i \in 0..m + n : i <= m => i \in 0..m
    BY <1>3
  <2>4. \A i \in 0..m + n : ~(i <= m) => i - m \in 0..n
    BY <1>3
  <2>5. f \in [0..m + n -> Nat \X Nat]
    BY <2>1, <2>2, <2>3, <2>4
  <2>6. \A i \in 0..m : i \in 0..m + n /\ i <= m
    BY <1>3
  <2>7. \A i \in 0..m : f[i] = c[i]
    BY <2>6
  <2>8. \A i \in 0..n : m + i \in 0..m + n
                       /\ (m + i) - m = i /\ (m + i <= m => i = 0)
    BY <1>3
  <2>9. c[m] = e[0]
    BY <1>1, <1>2 DEF m
  <2>10. ASSUME NEW i \in 0..n
         PROVE  f[m + i] = e[i]
    <3>1. CASE i = 0
      BY <1>3, <2>6, <2>7, <2>9, <3>1
    <3>2. CASE i # 0
      BY <2>8, <3>2
    <3> QED
      BY <3>1, <3>2
  <2> QED
    BY <2>5, <2>7, <2>10
<1> HIDE DEF f
<1>6. \A i \in 1..m + n : Follows(s[i], f[i - 1], f[i])
  <2> SUFFICES ASSUME NEW i \in 1..m + n PROVE Follows(s[i], f[i - 1], f[i])
    OBVIOUS
  <2>1. CASE i \in 1..m
    <3>1. i - 1 \in 0..m /\ i \in 0..m
      BY <1>3, <2>1
    <3>2. s[i] = q[i] /\ f[i - 1] = c[i - 1] /\ f[i] = c[i]
      BY <1>4, <1>5, <2>1, <3>1
    <3>3. Follows(q[i], c[i - 1], c[i])
      BY <1>1, <2>1 DEF m
    <3> QED
      BY <3>2, <3>3
  <2>2. CASE i \notin 1..m
    <3> DEFINE j == i - m
    <3>1. /\ j \in 1..n /\ j - 1 \in 0..n /\ j \in 0..n
          /\ i = m + j /\ i - 1 = m + (j - 1)
      BY <1>3, <2>2
    <3> HIDE DEF j
    <3>2. s[m + j] = r[j] /\ f[m + (j - 1)] = e[j - 1] /\ f[m + j] = e[j]
      BY <1>4, <1>5, <3>1
    <3>3. Follows(r[j], e[j - 1], e[j])
      BY <1>2, <3>1 DEF n
    <3> QED
      BY <3>1, <3>2, <3>3
  <2> QED
    BY <2>1, <2>2
<1>7. f[0] = a /\ f[m + n] = d
  <2>1. 0 \in 0..m /\ n \in 0..n
    BY <1>3
  <2> QED
    BY <1>1, <1>2, <1>5, <2>1 DEF n
<1>8. Linked(s, a, d)
  BY <1>4, <1>5, <1>6, <1>7 DEF Linked
<1> QED
  BY <1>8 DEF s

LEMMA LinkedHead ==
  ASSUME NEW q \in Seq(Message), q # <<>>, NEW a, NEW b, Linked(q, a, b)
  PROVE  \E x \in Nat \X Nat : Follows(Head(q), a, x) /\ Linked(Tail(q), x, b)
<1>1. PICK c \in [0..Len(q) -> Nat \X Nat] :
        /\ c[0] = a /\ c[Len(q)] = b
        /\ \A i \in 1..Len(q) : Follows(q[i], c[i - 1], c[i])
  BY DEF Linked
<1> DEFINE n == Len(q) - 1
           t == Tail(q)
           f == [i \in 0..n |-> c[i + 1]]
<1>2. n \in Nat /\ Len(q) = n + 1
  OBVIOUS
<1>3. Len(t) = n /\ Head(q) = q[1] /\ \A i \in 1..n : t[i] = q[i + 1]
  OBVIOUS
<1> HIDE DEF n, t
<1>4. f \in [0..n -> Nat \X Nat] /\ \A i \in 0..n : f[i] = c[i + 1]
  <2>1. \A i \in 0..n : i + 1 \in 0..Len(q)
    BY <1>2
  <2> QED
    BY <1>1, <2>1
<1> HIDE DEF f
<1>5. \A i \in 1..n : Follows(t[i], f[i - 1], f[i])
  <2> SUFFICES ASSUME NEW i \in 1..n PROVE Follows(t[i], f[i - 1], f[i])
    OBVIOUS
  <2>1. /\ i - 1 \in 0..n /\ i \in 0..n /\ (i - 1) + 1 = i
        /\ (i + 1) - 1 = i /\ i + 1 \in 1..Len(q)
    BY <1>2
  <2>2. Follows(q[i + 1], c[(i + 1) - 1], c[i + 1])
    BY <1>1, <2>1
  <2>3. t[i] = q[i + 1] /\ f[i - 1] = c[i] /\ f[i] = c[i + 1]
    BY <1>3, <1>4, <2>1
  <2> QED
    BY <2>1, <2>2, <2>3
<1>6. /\ f[0] = c[1] /\ f[n] = b /\ c[1] \in Nat \X Nat
      /\ Follows(Head(q), a, c[1])
  <2>1. /\ 0 \in 0..n /\ n \in 0..n /\ 1 \in 1..Len(q)
        /\ 1 \in 0..Len(q) /\ 1 - 1 = 0 /\ 0 + 1 = 1
    BY <1>2
  <2>2. f[0] = c[1] /\ f[n] = c[n + 1] /\ c[1] \in Nat \X Nat
    BY <1>1, <1>4, <2>1
  <2>3. Follows(q[1], c[1 - 1], c[1])
    BY <1>1, <2>1
  <2> QED
    BY <1>1, <1>2, <1>3, <2>1, <2>2, <2>3
<1>7. Linked(t, c[1], b)
  BY <1>3, <1>4, <1>5, <1>6 DEF Linked
<1> QED
  BY <1>6, <1>7 DEF t

Place(file, i) == IF i = 0 \/ i = NParts THEN Between ELSE <<file, i>>
PartsOf(file, from, n) == [i \in 1..n |-> C!Part(file, from + i - 1)]

LEMMA LinkedParts ==
  ASSUME C!ConsoleAssumption, NEW file \in Nat \ {0},
         NEW from \in 0..NParts - 1, NEW n \in 0..NParts - from
  PROVE  /\ PartsOf(file, from, n) \in Seq(Message)
         /\ Len(PartsOf(file, from, n)) = n
         /\ Linked(PartsOf(file, from, n), Place(file, from),
                   Place(file, from + n))
<1> DEFINE p == PartsOf(file, from, n)
           c == [i \in 0..n |-> Place(file, from + i)]
<1>1. NParts \in Nat \ {0} /\ n \in Nat /\ from \in Nat /\ from + n <= NParts
  BY DEF C!ConsoleAssumption
<1>2. ASSUME NEW i \in 1..n
      PROVE  C!Part(file, from + i - 1) \in Message
  <2>1. from + i - 1 \in Nat
    BY <1>1
  <2> QED
    BY <2>1 DEF C!Part, Message
<1>3. /\ p \in Seq(Message) /\ Len(p) = n
      /\ \A i \in 1..n : p[i] = C!Part(file, from + i - 1)
  <2>1. p = [i \in 1..n |-> C!Part(file, from + i - 1)]
    BY DEF PartsOf
  <2> HIDE DEF p
  <2> QED
    BY <1>1, <1>2, <2>1
<1>4. /\ c \in [0..n -> Nat \X Nat]
      /\ \A i \in 0..n : c[i] = Place(file, from + i)
  <2>1. \A i \in 0..n : Place(file, from + i) \in Nat \X Nat
    BY <1>1 DEF Place, Between
  <2> QED
    BY <2>1
<1> HIDE DEF p, c
<1>5. \A i \in 1..n : Follows(p[i], c[i - 1], c[i])
  <2> SUFFICES ASSUME NEW i \in 1..n PROVE Follows(p[i], c[i - 1], c[i])
    OBVIOUS
  <2> DEFINE j == from + i - 1
  <2>1. i - 1 \in 0..n /\ i \in 0..n /\ j \in 0..NParts - 1
        /\ from + (i - 1) = j /\ from + i = j + 1
    BY <1>1
  <2> HIDE DEF j
  <2>2. p[i] = [file |-> file, part |-> j]
    BY <1>3, <2>1 DEF C!Part, j
  <2>3. c[i - 1] = Place(file, j) /\ c[i] = Place(file, j + 1)
    BY <1>4, <2>1
  <2>4. p[i] # C!Pattern /\ p[i].file = file /\ p[i].part = j
    BY <2>2 DEF C!Pattern
  <2>5. j # NParts /\ j + 1 # 0 /\ (j + 1 = NParts <=> j = NParts - 1)
    BY <1>1, <2>1
  <2>6. j = Place(file, j)[2] /\ (j # 0 => Place(file, j)[1] = file)
    BY <2>5 DEF Place, Between
  <2>7. Place(file, j + 1) = After(p[i])
    BY <2>4, <2>5 DEF Place, After
  <2> QED
    BY <2>3, <2>4, <2>6, <2>7 DEF Follows
<1>6. c[0] = Place(file, from) /\ c[n] = Place(file, from + n)
  BY <1>1, <1>4
<1>7. Linked(p, Place(file, from), Place(file, from + n))
  BY <1>3, <1>4, <1>5, <1>6 DEF Linked
<1> QED
  BY <1>3, <1>7 DEF p

-----------------------------------------------------------------------------
(* A file at the peer: what it holds so far, what is complete, what is of  *)
(* one transfer.                                                           *)
Placed(f) == f \in Seq(Message) /\ \A p \in 1..Len(f) : f[p].part = p - 1
Alike(f) == \A p \in 1..Len(f) : f[p].file = f[1].file
Holds(r) ==
  \/ r = C!Closed
  \/ /\ r \in [n : {NParts}, parts : Seq(Message)]
     /\ Placed(r.parts) /\ Len(r.parts) \in 1..NParts - 1
Standing(r) ==
  IF r = C!Closed THEN Between ELSE <<r.parts[1].file, Len(r.parts)>>

(* No refusal is in the port and nothing was refused or given up.          *)
Unrefused(a, b) ==
  C!RefusedLog \notin C!ToSet(a) /\ C!RefusedLog \notin C!ToSet(b)
Calm == refused = 0 /\ losses = 0 /\ Unrefused(events, inbox)

FilesTyped(fs) ==
  /\ fs \in Seq(Seq(Message))
  /\ \A i \in 1..Len(fs) : Placed(fs[i]) /\ Len(fs[i]) = NParts

FileTypes ==
  /\ {pending, sentParts, sent, refused, losses} \subseteq Nat
  /\ sentParts < NParts /\ (pending = 0 => sentParts = 0)
  /\ queue \in Seq(Message) /\ Len(queue) <= ConsoleQueue
  /\ events \in Seq(Report) /\ inbox \in Seq(Report) /\ status \in Report
  /\ (pc = "handle") <=> (inbox # <<>>)
  /\ Holds(rx) /\ FilesTyped(files)

(* What waits on the board leads from where the peer stands to where the   *)
(* sender stands.                                                          *)
Joined ==
  /\ Linked(queue, Standing(rx), Place(pending, sentParts))
  /\ Alike(rx.parts)
  /\ \A i \in 1..Len(files) : Alike(files[i])
FileInv == FileTypes /\ (Calm => Joined)

LEMMA SetOfJoin ==
  ASSUME NEW T, NEW a \in Seq(T), NEW b \in Seq(T)
  PROVE  C!ToSet(a \o b) = C!ToSet(a) \cup C!ToSet(b)
<1>1. /\ Len(a \o b) = Len(a) + Len(b) /\ DOMAIN (a \o b) = 1..Len(a) + Len(b)
      /\ \A i \in 1..Len(a) : (a \o b)[i] = a[i]
      /\ \A i \in 1..Len(b) : (a \o b)[Len(a) + i] = b[i]
      /\ DOMAIN a = 1..Len(a) /\ DOMAIN b = 1..Len(b)
      /\ Len(a) \in Nat /\ Len(b) \in Nat
  OBVIOUS
<1> DEFINE s == a \o b
           m == Len(a)
           n == Len(b)
<1> HIDE DEF s, m, n
<1>2. ASSUME NEW x \in C!ToSet(s)
      PROVE  x \in C!ToSet(a) \cup C!ToSet(b)
  <2>1. PICK i \in 1..m + n : x = s[i]
    BY <1>1 DEF C!ToSet, s, m, n
  <2>2. CASE i <= m
    <3>1. i \in 1..m
      BY <1>1, <2>1, <2>2 DEF m, n
    <3> QED
      BY <1>1, <2>1, <3>1 DEF C!ToSet, s, m
  <2>3. CASE ~ i <= m
    <3>1. i - m \in 1..n /\ i = m + (i - m)
      BY <1>1, <2>1, <2>3 DEF m, n
    <3>2. s[m + (i - m)] = b[i - m]
      BY <1>1, <3>1 DEF s, m, n
    <3> QED
      BY <1>1, <2>1, <3>1, <3>2 DEF C!ToSet, n
  <2> QED
    BY <2>2, <2>3
<1>3. ASSUME NEW x \in C!ToSet(a) \cup C!ToSet(b)
      PROVE  x \in C!ToSet(s)
  <2>1. CASE x \in C!ToSet(a)
    <3>1. PICK i \in 1..m : x = a[i]
      BY <1>1, <2>1 DEF C!ToSet, m
    <3>2. i \in 1..m + n /\ s[i] = x
      BY <1>1, <3>1 DEF s, m, n
    <3> QED
      BY <1>1, <3>2 DEF C!ToSet, s, m, n
  <2>2. CASE x \in C!ToSet(b)
    <3>1. PICK i \in 1..n : x = b[i]
      BY <1>1, <2>2 DEF C!ToSet, n
    <3>2. m + i \in 1..m + n /\ s[m + i] = x
      BY <1>1, <3>1 DEF s, m, n
    <3> QED
      BY <1>1, <3>2 DEF C!ToSet, s, m, n
  <2> QED
    BY <2>1, <2>2
<1> QED
  BY <1>2, <1>3 DEF s

(* What the board takes of what it is given, and what it logs.             *)
LEMMA Submitted ==
  ASSUME C!ConsoleAssumption, NEW msgs \in Seq(Message), C!Submit(msgs),
         queue \in Seq(Message), Len(queue) <= ConsoleQueue,
         events \in Seq(Report)
  PROVE  /\ queue' \in Seq(Message) /\ Len(queue') <= ConsoleQueue
         /\ events' \in Seq(Report)
         /\ C!ToSet(events) \subseteq C!ToSet(events')
         /\ C!RefusedLog \notin C!ToSet(events') => queue' = queue \o msgs
<1> DEFINE c == C!Least(Len(msgs), ConsoleQueue - Len(queue))
           l == [i \in 1..Len(msgs) - Len(C!Accepted(msgs)) |-> C!RefusedLog]
           w == SubSeq(msgs, 1, c)
<1>1. ConsoleQueue \in Nat /\ Len(queue) \in Nat /\ Len(msgs) \in Nat
  BY DEF C!ConsoleAssumption
<1>2. /\ c \in Nat /\ c <= Len(msgs) /\ c + Len(queue) <= ConsoleQueue
  BY <1>1 DEF C!Least
<1>3. w = C!Accepted(msgs)
  BY DEF C!Accepted
<1> HIDE DEF c
<1>4. w \in Seq(Message) /\ Len(w) = c /\ (c = Len(msgs) => w = msgs)
  <2>1. w \in Seq(Message) /\ Len(w) = c
    BY <1>2
  <2>2. \A i \in 1..c : w[i] = msgs[i]
    BY <1>2
  <2> QED
    BY <2>1, <2>2, SeqEqual
<1> HIDE DEF w
<1>5. queue' = queue \o w
  BY <1>3 DEF C!Submit
<1>6. queue' \in Seq(Message) /\ Len(queue') <= ConsoleQueue
  BY <1>1, <1>2, <1>4, <1>5
<1>7. C!RefusedLog \in Report
  BY DEF C!RefusedLog, Report
<1>8. l \in Seq(Report) /\ Len(l) = Len(msgs) - c /\ events' = events \o l
  <2>1. /\ Len(msgs) - Len(C!Accepted(msgs)) = Len(msgs) - c
        /\ Len(msgs) - c \in Nat
    BY <1>1, <1>2, <1>3, <1>4
  <2>2. l \in Seq(Report) /\ Len(l) = Len(msgs) - c
    BY <1>7, <2>1
  <2> QED
    BY <2>2 DEF C!Submit
<1>9. c # Len(msgs) => C!RefusedLog \in C!ToSet(l)
  <2> SUFFICES ASSUME c # Len(msgs) PROVE C!RefusedLog \in C!ToSet(l)
    OBVIOUS
  <2>1. 1 \in 1..Len(msgs) - Len(C!Accepted(msgs))
    BY <1>1, <1>2, <1>3, <1>4
  <2>2. 1 \in DOMAIN l /\ l[1] = C!RefusedLog
    BY <2>1
  <2> QED
    BY <2>2 DEF C!ToSet
<1> HIDE DEF l
<1>10. /\ events' \in Seq(Report)
       /\ C!ToSet(events') = C!ToSet(events) \cup C!ToSet(l)
  BY <1>8, SetOfJoin
<1> QED
  BY <1>4, <1>5, <1>6, <1>9, <1>10

(* How many parts a report calls for.                                      *)
LEMMA Counted ==
  ASSUME C!ConsoleAssumption, NEW st \in Report, NEW from \in 0..NParts - 1
  PROVE  C!Count(st, from) \in 0..NParts - from
  BY DEF C!ConsoleAssumption, C!Count, C!Least, Report

(* A part put where it belongs.                                            *)
LEMMA Appended ==
  ASSUME NEW f \in Seq(Message), Placed(f), NEW m \in Message,
         m.part = Len(f)
  PROVE  /\ Append(f, m) \in Seq(Message) /\ Len(Append(f, m)) = Len(f) + 1
         /\ Placed(Append(f, m))
         /\ Alike(f) /\ (f # <<>> => m.file = f[1].file)
              => Alike(Append(f, m)) /\ Append(f, m)[1].file = m.file
<1> DEFINE g == Append(f, m)
           n == Len(f)
<1>1. /\ n \in Nat /\ g \in Seq(Message) /\ Len(g) = n + 1
      /\ g[n + 1] = m /\ \A p \in 1..n : g[p] = f[p]
  OBVIOUS
<1>2. f # <<>> <=> n # 0
  OBVIOUS
<1> HIDE DEF g
<1>3. Placed(g)
  <2> SUFFICES ASSUME NEW p \in 1..n + 1 PROVE g[p].part = p - 1
    BY <1>1 DEF Placed
  <2>1. CASE p = n + 1
    BY <1>1, <2>1
  <2>2. CASE p # n + 1
    <3>1. p \in 1..n
      BY <1>1, <2>2
    <3> QED
      BY <1>1, <3>1 DEF Placed
  <2> QED
    BY <2>1, <2>2
<1>4. ASSUME Alike(f), f # <<>> => m.file = f[1].file
      PROVE  Alike(g) /\ g[1].file = m.file
  <2>1. g[1].file = m.file
    <3>1. CASE n = 0
      BY <1>1, <3>1
    <3>2. CASE n # 0
      <4>1. 1 \in 1..n
        BY <1>1, <3>2
      <4> QED
        BY <1>1, <1>2, <1>4, <3>2, <4>1
    <3> QED
      BY <3>1, <3>2
  <2>2. ASSUME NEW p \in 1..n + 1
        PROVE  g[p].file = g[1].file
    <3>1. CASE p = n + 1
      BY <1>1, <2>1, <3>1
    <3>2. CASE p # n + 1
      <4>1. p \in 1..n /\ 1 \in 1..n
        BY <1>1, <3>2
      <4> QED
        BY <1>1, <1>4, <4>1 DEF Alike
    <3> QED
      BY <3>1, <3>2
  <2> QED
    BY <1>1, <2>1, <2>2 DEF Alike
<1> QED
  BY <1>1, <1>3, <1>4 DEF g

(* A part that is not the text message reaches the peer.                   *)
LEMMA PartKept ==
  ASSUME C!ConsoleAssumption, NEW m \in Message, Holds(rx), FilesTyped(files),
         C!OnFilePart(m)
  PROVE  /\ Holds(rx') /\ FilesTyped(files')
         /\ \A x : /\ Follows(m, Standing(rx), x) /\ m # C!Pattern
                   /\ Alike(rx.parts)
                   /\ \A i \in 1..Len(files) : Alike(files[i])
                   => /\ x = Standing(rx') /\ Alike(rx'.parts)
                      /\ \A i \in 1..Len(files') : Alike(files'[i])
<1> DEFINE cur == IF m.part = 0 THEN [n |-> NParts, parts |-> <<>>] ELSE rx
           got == Append(cur.parts, m)
<1>1. NParts \in Nat \ {0} /\ m.part \in Nat /\ m.file \in Nat
  BY DEF C!ConsoleAssumption, Message
<1>2. Placed(<<>>) /\ Alike(<<>>) /\ Len(<<>>) = 0 /\ <<>> \in Seq(Message)
  BY DEF Placed, Alike
<1>3. C!Closed.parts = <<>> /\ Holds(C!Closed) /\ Standing(C!Closed) = Between
  BY DEF C!Closed, Holds, Standing
<1>4. CASE ~C!InOrder(cur, m)
  <2>1. rx' = C!Closed /\ files' = files
    BY <1>4 DEF C!OnFilePart
  <2>2. ASSUME NEW x, Follows(m, Standing(rx), x), m # C!Pattern
        PROVE  FALSE
    <3>1. m.part = Standing(rx)[2]
      BY <2>2 DEF Follows
    <3>2. CASE m.part = 0
      <4>1. cur # C!Closed /\ Len(cur.parts) = m.part
        BY <1>1, <1>2, <3>2 DEF C!Closed
      <4> QED
        BY <1>4, <4>1 DEF C!InOrder
    <3>3. CASE m.part # 0
      <4>1. cur = rx
        BY <3>3
      <4>2. rx # C!Closed
        BY <3>1, <3>3 DEF Standing, Between
      <4>3. Len(rx.parts) = m.part
        BY <3>1, <4>2 DEF Standing
      <4> QED
        BY <1>4, <4>1, <4>2, <4>3 DEF C!InOrder
    <3> QED
      BY <3>2, <3>3
  <2> QED
    BY <1>3, <2>1, <2>2
<1>5. CASE C!InOrder(cur, m)
  <2>1. cur # C!Closed /\ Len(cur.parts) = m.part
    BY <1>5 DEF C!InOrder
  <2>2. /\ cur.n = NParts /\ cur.parts \in Seq(Message) /\ Placed(cur.parts)
        /\ Len(cur.parts) < NParts
        /\ cur = [n |-> NParts, parts |-> cur.parts]
    <3>1. CASE m.part = 0
      BY <1>1, <1>2, <3>1
    <3>2. CASE m.part # 0
      <4>1. cur = rx
        BY <3>2
      <4> HIDE DEF cur
      <4> QED
        BY <1>1, <2>1, <4>1 DEF Holds
    <3> QED
      BY <3>1, <3>2
  <2>3. /\ got \in Seq(Message) /\ Len(got) = m.part + 1 /\ Placed(got)
        /\ Alike(cur.parts) /\ (cur.parts # <<>> => m.file = cur.parts[1].file)
             => Alike(got) /\ got[1].file = m.file
    <3> HIDE DEF cur
    <3> QED
      BY <2>1, <2>2, Appended
  <2>4. ASSUME NEW x, Follows(m, Standing(rx), x), m # C!Pattern,
               Alike(rx.parts)
        PROVE  Alike(got) /\ got[1].file = m.file /\ x = After(m)
    <3>1. /\ m.part = Standing(rx)[2] /\ x = After(m)
          /\ m.part # 0 => m.file = Standing(rx)[1]
      BY <2>4 DEF Follows
    <3>2. CASE m.part = 0
      <4>1. cur.parts = <<>>
        BY <3>2
      <4> HIDE DEF cur
      <4> QED
        BY <1>2, <2>3, <3>1, <4>1
    <3>3. CASE m.part # 0
      <4>1. cur = rx /\ rx # C!Closed
        BY <2>1, <3>3
      <4>2. m.file = rx.parts[1].file
        BY <3>1, <3>3, <4>1 DEF Standing
      <4> HIDE DEF cur
      <4> QED
        BY <2>3, <2>4, <3>1, <4>1, <4>2
    <3> QED
      BY <3>2, <3>3
  <2>5. CASE Len(got) >= cur.n
    <3>1. rx' = C!Closed /\ files' = Append(files, got)
      BY <1>5, <2>5 DEF C!OnFilePart
    <3> HIDE DEF cur, got
    <3>2. Len(got) = NParts /\ m.part = NParts - 1
      BY <1>1, <2>1, <2>2, <2>3, <2>5
    <3> DEFINE n == Len(files)
    <3>3. /\ n \in Nat /\ files' \in Seq(Seq(Message)) /\ Len(files') = n + 1
          /\ files'[n + 1] = got /\ \A i \in 1..n : files'[i] = files[i]
      BY <2>3, <3>1 DEF FilesTyped
    <3>4. \A i \in 1..n + 1 : i = n + 1 \/ i \in 1..n
      BY <3>3
    <3> HIDE DEF n
    <3>5. FilesTyped(files')
      BY <2>3, <3>2, <3>3, <3>4 DEF FilesTyped, n
    <3>6. ASSUME NEW x, Follows(m, Standing(rx), x), m # C!Pattern,
                 Alike(rx.parts), \A i \in 1..n : Alike(files[i])
          PROVE  x = Standing(rx') /\ Alike(rx'.parts)
                 /\ \A i \in 1..n + 1 : Alike(files'[i])
      <4>1. Alike(got) /\ x = After(m)
        BY <2>4, <3>6
      <4>2. x = Between
        BY <3>2, <4>1 DEF After
      <4>3. \A i \in 1..n + 1 : Alike(files'[i])
        BY <3>3, <3>4, <3>6, <4>1
      <4> QED
        BY <1>2, <1>3, <3>1, <4>2, <4>3
    <3> QED
      BY <1>3, <3>1, <3>3, <3>5, <3>6 DEF n
  <2>6. CASE ~ Len(got) >= cur.n
    <3>1. rx' = [cur EXCEPT !.parts = got] /\ files' = files
      BY <1>5, <2>6 DEF C!OnFilePart
    <3> HIDE DEF cur, got
    <3>2. rx' = [n |-> NParts, parts |-> got]
      BY <2>2, <3>1
    <3>3. Len(got) \in 1..NParts - 1 /\ m.part # NParts - 1
      BY <1>1, <2>2, <2>3, <2>6
    <3>4. rx'.parts = got /\ rx' # C!Closed
      BY <1>1, <3>2 DEF C!Closed
    <3>5. Holds(rx')
      BY <2>3, <3>2, <3>3, <3>4 DEF Holds
    <3>6. ASSUME NEW x, Follows(m, Standing(rx), x), m # C!Pattern,
                 Alike(rx.parts)
          PROVE  x = Standing(rx') /\ Alike(rx'.parts)
      <4>1. Alike(got) /\ got[1].file = m.file /\ x = After(m)
        BY <2>4, <3>6
      <4>2. x = <<m.file, m.part + 1>>
        BY <3>3, <4>1 DEF After
      <4> QED
        BY <2>3, <3>4, <4>1, <4>2 DEF Standing
    <3> QED
      BY <3>1, <3>5, <3>6
  <2> QED
    BY <2>5, <2>6
<1> QED
  BY <1>4, <1>5

LEMMA FileStart ==
  ASSUME C!ConsoleAssumption, C!Init
  PROVE  FileInv
<1> USE DEF C!Init
<1>1. /\ {pending, sentParts, sent, refused, losses} \subseteq Nat
      /\ sentParts < NParts /\ (pending = 0 => sentParts = 0)
      /\ queue = <<>> /\ events = <<>> /\ inbox = <<>> /\ files = <<>>
      /\ rx = C!Closed /\ pc # "handle" /\ ConsoleQueue \in Nat
  BY DEF C!ConsoleAssumption
<1>2. /\ <<>> \in Seq(Message) /\ <<>> \in Seq(Report)
      /\ <<>> \in Seq(Seq(Message)) /\ Len(<<>>) = 0
  OBVIOUS
<1>3. status \in Report
  BY DEF C!NoStatus, Report
<1>4. Holds(rx) /\ FilesTyped(files)
  BY <1>1, <1>2 DEF Holds, FilesTyped
<1>5. FileTypes
  BY <1>1, <1>2, <1>3, <1>4 DEF FileTypes
<1>6. /\ Standing(rx) = Between /\ Place(pending, sentParts) = Between
      /\ Between \in Nat \X Nat /\ Alike(rx.parts)
  BY <1>1, <1>2 DEF Standing, Place, Between, C!Closed, Alike
<1>7. Joined
  <2>1. Linked(queue, Standing(rx), Place(pending, sentParts))
    BY <1>1, <1>6, LinkedNone
  <2>2. \A i \in 1..Len(files) : Alike(files[i])
    BY <1>1, <1>2
  <2> QED
    BY <1>6, <2>1, <2>2 DEF Joined
<1> QED
  BY <1>5, <1>7 DEF FileInv

(* The board takes a message from the head of its queue.                   *)
LEMMA HeadTaken ==
  ASSUME C!ConsoleAssumption, FileTypes, queue # <<>>
  PROVE  /\ Head(queue) \in Message /\ Tail(queue) \in Seq(Message)
         /\ Len(Tail(queue)) <= ConsoleQueue
<1>1. /\ queue \in Seq(Message) /\ Len(queue) <= ConsoleQueue
      /\ Len(queue) \in Nat /\ ConsoleQueue \in Nat
  BY DEF FileTypes, C!ConsoleAssumption
<1> QED
  BY <1>1

LEMMA FileDelivered ==
  ASSUME C!ConsoleAssumption, FileInv, C!Delivers
  PROVE  FileInv'
<1>1. /\ queue # <<>> /\ queue' = Tail(queue)
      /\ UNCHANGED <<C!sender, events, C!ghosts>>
  BY DEF C!Delivers
<1> DEFINE m == Head(queue)
<1>2. m \in Message /\ queue' \in Seq(Message) /\ Len(queue') <= ConsoleQueue
  BY <1>1, HeadTaken DEF FileInv
<1>3. Holds(rx) /\ FilesTyped(files)
  BY DEF FileInv, FileTypes
<1>4. /\ Holds(rx') /\ FilesTyped(files')
      /\ \A x : /\ Follows(m, Standing(rx), x)
                /\ Alike(rx.parts) /\ \A i \in 1..Len(files) : Alike(files[i])
                => /\ x = Standing(rx') /\ Alike(rx'.parts)
                   /\ \A i \in 1..Len(files') : Alike(files'[i])
  <2>1. CASE m = C!Pattern
    <3>1. rx' = rx /\ files' = files
      BY <2>1 DEF C!Delivers
    <3> QED
      BY <1>3, <2>1, <3>1 DEF Follows
  <2>2. CASE m # C!Pattern
    <3>1. C!OnFilePart(m)
      BY <2>2 DEF C!Delivers
    <3> QED
      BY <1>2, <1>3, <2>2, <3>1, PartKept
  <2> QED
    BY <2>1, <2>2
<1> HIDE DEF m
<1>5. FileTypes'
  BY <1>1, <1>2, <1>4 DEF FileInv, FileTypes, C!sender, C!ghosts
<1>6. ASSUME Calm'
      PROVE  Joined'
  <2>1. Calm
    BY <1>1, <1>6 DEF Calm, C!sender, C!ghosts
  <2>2. Joined
    BY <2>1 DEF FileInv
  <2>3. queue \in Seq(Message)
    BY DEF FileInv, FileTypes
  <2>4. \E x \in Nat \X Nat :
          /\ Follows(m, Standing(rx), x)
          /\ Linked(queue', x, Place(pending, sentParts))
    BY <1>1, <2>2, <2>3, LinkedHead DEF Joined, m
  <2>5. Place(pending, sentParts)' = Place(pending, sentParts)
    BY <1>1 DEF Place, C!sender
  <2> QED
    BY <1>4, <2>2, <2>4, <2>5 DEF Joined
<1> QED
  BY <1>5, <1>6 DEF FileInv

(* Messages are handed to the board, which lead from where the sender      *)
(* stands to where it stands then.                                         *)
LEMMA FileSubmitted ==
  ASSUME C!ConsoleAssumption, FileInv, NEW msgs \in Seq(Message),
         C!Submit(msgs),
         Linked(msgs, Place(pending, sentParts), Place(pending', sentParts')),
         UNCHANGED <<rx, files, refused, losses>>,
         {pending', sentParts', sent'} \subseteq Nat, sentParts' < NParts,
         pending' = 0 => sentParts' = 0,
         status' \in Report, inbox' \in Seq(Report),
         C!RefusedLog \in C!ToSet(inbox) => C!RefusedLog \in C!ToSet(inbox'),
         (pc' = "handle") <=> (inbox' # <<>>)
  PROVE  FileInv'
<1>1. /\ queue' \in Seq(Message) /\ Len(queue') <= ConsoleQueue
      /\ events' \in Seq(Report) /\ C!ToSet(events) \subseteq C!ToSet(events')
      /\ C!RefusedLog \notin C!ToSet(events') => queue' = queue \o msgs
  BY Submitted DEF FileInv, FileTypes
<1>2. FileTypes'
  BY <1>1 DEF FileInv, FileTypes
<1>3. ASSUME Calm'
      PROVE  Joined'
  <2>1. Calm /\ queue' = queue \o msgs
    BY <1>1, <1>3 DEF Calm, Unrefused
  <2>2. Joined
    BY <2>1 DEF FileInv
  <2>3. queue \in Seq(Message)
    BY DEF FileInv, FileTypes
  <2>4. Linked(queue', Standing(rx), Place(pending', sentParts'))
    BY <2>1, <2>2, <2>3, LinkedJoin DEF Joined
  <2> QED
    BY <2>2, <2>4 DEF Joined
<1> QED
  BY <1>2, <1>3 DEF FileInv

LEMMA FilePumped ==
  ASSUME C!ConsoleAssumption, NEW st \in Report, NEW file \in Nat \ {0},
         NEW from \in 0..NParts - 1, NEW before,
         C!PumpFile(st, file, from, before)
  PROVE  \E msgs \in Seq(Message) :
           /\ C!Submit(msgs)
           /\ Linked(msgs, Place(file, from), Place(pending', sentParts'))
           /\ {pending', sentParts'} \subseteq Nat /\ sentParts' < NParts
           /\ pending' = 0 => sentParts' = 0
<1> DEFINE n == C!Count(st, from)
<1>1. n \in 0..NParts - from
  BY Counted
<1>2. /\ C!Submit(PartsOf(file, from, n))
      /\ IF from + n >= NParts
         THEN pending' = 0 /\ sentParts' = 0
         ELSE pending' = file /\ sentParts' = from + n
  BY DEF C!PumpFile, PartsOf
<1> HIDE DEF n
<1>3. NParts \in Nat \ {0} /\ n \in Nat /\ from \in Nat
  BY <1>1 DEF C!ConsoleAssumption
<1>4. /\ PartsOf(file, from, n) \in Seq(Message)
      /\ Linked(PartsOf(file, from, n), Place(file, from),
                Place(file, from + n))
  BY <1>1, LinkedParts
<1>5. /\ Place(file, from + n) = Place(pending', sentParts')
      /\ {pending', sentParts'} \subseteq Nat /\ sentParts' < NParts
      /\ pending' = 0 => sentParts' = 0
  <2>1. CASE from + n >= NParts
    <3>1. from + n = NParts /\ pending' = 0 /\ sentParts' = 0
      BY <1>1, <1>2, <1>3, <2>1
    <3> QED
      BY <1>3, <3>1 DEF Place
  <2>2. CASE ~ from + n >= NParts
    BY <1>2, <1>3, <2>2
  <2> QED
    BY <2>1, <2>2
<1> QED
  BY <1>2, <1>4, <1>5

LEMMA FileReported ==
  ASSUME C!ConsoleAssumption, FileInv, source \in Seq(Heard), C!Reports
  PROVE  FileInv'
<1> DEFINE r == [kind |-> "status", depth |-> Len(queue),
                 free |-> BcSize - Len(source)]
<1>1. r \in Report
  BY DEF FileInv, FileTypes, C!ConsoleAssumption, Report
<1>2. /\ events' = Append(events, r)
      /\ UNCHANGED <<C!sender, queue, C!peer, C!ghosts>>
  BY DEF C!Reports
<1>3. events \in Seq(Report)
  BY DEF FileInv, FileTypes
<1> HIDE DEF r
<1>4. /\ events' \in Seq(Report) /\ C!ToSet(events) \subseteq C!ToSet(events')
  <2>1. events' \in Seq(Report) /\ Len(events') = Len(events) + 1
        /\ \A i \in 1..Len(events) : events'[i] = events[i]
    BY <1>1, <1>2, <1>3
  <2>2. \A i \in DOMAIN events : i \in DOMAIN events' /\ events'[i] = events[i]
    BY <1>3, <2>1
  <2> QED
    BY <2>1, <2>2 DEF C!ToSet
<1>5. FileTypes'
  BY <1>2, <1>4 DEF FileInv, FileTypes, C!sender, C!peer, C!ghosts
<1>6. ASSUME Calm'
      PROVE  Joined'
  <2>1. Calm
    BY <1>2, <1>4, <1>6 DEF Calm, Unrefused, C!sender, C!ghosts
  <2>2. Standing(rx)' = Standing(rx)
    BY <1>2 DEF Standing, C!peer
  <2>3. Place(pending, sentParts)' = Place(pending, sentParts)
    BY <1>2 DEF Place, C!sender
  <2>4. rx.parts' = rx.parts /\ files' = files /\ queue' = queue
    BY <1>2 DEF C!peer
  <2> QED
    BY <2>1, <2>2, <2>3, <2>4 DEF FileInv, Joined
<1> QED
  BY <1>5, <1>6 DEF FileInv

(* Nothing of the files moves but the console's own steps.                 *)
LEMMA FileStands ==
  ASSUME FileInv,
         UNCHANGED <<pending, sentParts, sent, queue, rx, files>>,
         refused' \in Nat, losses' \in Nat, status' \in Report,
         events' \in Seq(Report), inbox' \in Seq(Report),
         (pc' = "handle") <=> (inbox' # <<>>), Calm' => Calm
  PROVE  FileInv'
<1>1. FileTypes'
  BY DEF FileInv, FileTypes
<1>2. Joined => Joined'
  <2>1. Standing(rx)' = Standing(rx)
    BY DEF Standing
  <2>2. Place(pending, sentParts)' = Place(pending, sentParts)
    BY DEF Place
  <2> QED
    BY <2>1, <2>2 DEF Joined
<1> QED
  BY <1>1, <1>2 DEF FileInv

LEMMA FileLost ==
  ASSUME C!ConsoleAssumption, FileInv, C!GivesUp
  PROVE  FileInv'
<1>1. /\ queue # <<>> /\ queue' = Tail(queue) /\ losses' = losses + 1
      /\ UNCHANGED <<C!sender, events, C!peer, sent>>
  BY DEF C!GivesUp
<1>2. Head(queue) \in Message /\ Tail(queue) \in Seq(Message)
      /\ Len(Tail(queue)) <= ConsoleQueue
  BY <1>1, HeadTaken DEF FileInv
<1>3. FileTypes'
  BY <1>1, <1>2 DEF FileInv, FileTypes, C!sender, C!peer
<1>4. ~Calm'
  BY <1>1 DEF Calm, FileInv, FileTypes
<1> QED
  BY <1>3, <1>4 DEF FileInv

LEMMA FileLooped ==
  ASSUME FileInv, C!Pings \/ C!Polls \/ C!NoCommand
  PROVE  FileInv'
<1>1. /\ inbox = <<>> <=> pc # "handle"
      /\ events \in Seq(Report) /\ inbox \in Seq(Report) /\ status \in Report
      /\ refused \in Nat /\ losses \in Nat /\ <<>> \in Seq(Report)
  BY DEF FileInv, FileTypes
<1>2. CASE C!Pings
  <2>1. UNCHANGED <<pending, sentParts, sent, queue, rx, files, refused,
                    losses, status, events, inbox>>
    BY <1>2 DEF C!Pings, C!port, C!peer, C!ghosts
  <2>2. pc = "ping" /\ pc' # "handle"
    BY <1>2 DEF C!Pings
  <2>3. Calm' => Calm
    BY <2>1 DEF Calm
  <2> QED
    BY <1>1, <2>1, <2>2, <2>3, FileStands
<1>3. CASE C!Polls
  <2>1. /\ UNCHANGED <<pending, sentParts, sent, queue, rx, files, refused,
                       losses, status>>
        /\ inbox' = events /\ events' = <<>>
        /\ pc = "events" /\ pc' = IF events = <<>> THEN "command" ELSE "handle"
    BY <1>3 DEF C!Polls, C!peer, C!ghosts
  <2>2. inbox = <<>> /\ (pc' = "handle" <=> inbox' # <<>>)
    BY <1>1, <2>1
  <2>3. C!ToSet(inbox) = {}
    BY <2>2 DEF C!ToSet
  <2>4. Calm' => Calm
    BY <2>1, <2>3 DEF Calm, Unrefused
  <2> QED
    BY <1>1, <2>1, <2>2, <2>4, FileStands
<1>4. CASE C!NoCommand
  <2>1. UNCHANGED <<pending, sentParts, sent, queue, rx, files, refused,
                    losses, status, events, inbox>>
    BY <1>4 DEF C!NoCommand, C!port, C!peer, C!ghosts
  <2>2. pc = "command" /\ pc' # "handle"
    BY <1>4 DEF C!NoCommand, C!Goes
  <2>3. Calm' => Calm
    BY <2>1 DEF Calm
  <2> QED
    BY <1>1, <2>1, <2>2, <2>3, FileStands
<1> QED
  BY <1>2, <1>3, <1>4

LEMMA FileHandled ==
  ASSUME C!ConsoleAssumption, FileInv, C!Handles
  PROVE  FileInv'
<1>1. /\ pc = "handle" /\ inbox' = Tail(inbox)
      /\ pc' = IF Len(inbox) = 1 THEN "command" ELSE "handle"
      /\ UNCHANGED <<C!peer, sent, losses>>
  BY DEF C!Handles
<1>2. inbox # <<>> /\ inbox \in Seq(Report) /\ events \in Seq(Report)
      /\ status \in Report
  BY <1>1 DEF FileInv, FileTypes
<1>3. /\ Head(inbox) \in Report /\ inbox' \in Seq(Report)
      /\ (pc' = "handle") <=> (inbox' # <<>>)
  <2>1. Head(inbox) \in Report /\ inbox' \in Seq(Report)
        /\ Len(inbox') = Len(inbox) - 1 /\ Len(inbox) \in Nat \ {0}
    BY <1>1, <1>2
  <2>2. inbox' # <<>> <=> Len(inbox') # 0
    BY <2>1
  <2> QED
    BY <1>1, <2>1, <2>2
<1>4. \A x \in C!ToSet(inbox) : x = Head(inbox) \/ x \in C!ToSet(inbox')
  <2> SUFFICES ASSUME NEW x \in C!ToSet(inbox), x # Head(inbox)
               PROVE  x \in C!ToSet(inbox')
    OBVIOUS
  <2>1. PICK i \in 1..Len(inbox) : x = inbox[i]
    BY <1>2 DEF C!ToSet
  <2>2. /\ Len(Tail(inbox)) = Len(inbox) - 1 /\ i # 1 /\ Len(inbox) \in Nat
        /\ \A j \in 1..Len(inbox) - 1 : Tail(inbox)[j] = inbox[j + 1]
    BY <1>2, <2>1
  <2>3. i - 1 \in 1..Len(inbox) - 1 /\ (i - 1) + 1 = i
    BY <2>1, <2>2
  <2>4. i - 1 \in DOMAIN Tail(inbox) /\ Tail(inbox)[i - 1] = x
    BY <1>2, <2>1, <2>2, <2>3
  <2> QED
    BY <1>1, <2>4 DEF C!ToSet
<1>5. CASE Head(inbox).kind = "status"
  <2>1. C!OnStatus(Head(inbox))
    BY <1>5 DEF C!Handles
  <2>2. C!RefusedLog \in C!ToSet(inbox) => C!RefusedLog \in C!ToSet(inbox')
    BY <1>4, <1>5 DEF C!RefusedLog
  <2>3. /\ status' = Head(inbox) /\ refused' = refused
        /\ UNCHANGED <<rx, files, sent, losses>>
    BY <1>1, <2>1 DEF C!OnStatus, C!peer
  <2>4. CASE pending = 0
    <3>1. UNCHANGED <<queue, events, pending, sentParts>>
      BY <2>1, <2>4 DEF C!OnStatus
    <3>2. Calm' => Calm
      BY <2>2, <2>3, <3>1 DEF Calm, Unrefused
    <3>3. refused' \in Nat /\ losses' \in Nat
      BY <2>3 DEF FileInv, FileTypes
    <3> QED
      BY <1>2, <1>3, <2>3, <3>1, <3>2, <3>3, FileStands
  <2>5. CASE pending # 0
    <3>1. C!PumpFile(Head(inbox), pending, sentParts, handed)
      BY <2>1, <2>5 DEF C!OnStatus
    <3>2. pending \in Nat \ {0} /\ sentParts \in 0..NParts - 1 /\ sent' \in Nat
      BY <2>3, <2>5 DEF FileInv, FileTypes, C!ConsoleAssumption
    <3>3. PICK msgs \in Seq(Message) :
            /\ C!Submit(msgs)
            /\ Linked(msgs, Place(pending, sentParts),
                      Place(pending', sentParts'))
            /\ {pending', sentParts'} \subseteq Nat /\ sentParts' < NParts
            /\ pending' = 0 => sentParts' = 0
      BY <1>3, <3>1, <3>2, FilePumped
    <3> QED
      BY <1>3, <2>2, <2>3, <3>2, <3>3, FileSubmitted
  <2> QED
    BY <2>4, <2>5
<1>6. CASE Head(inbox).kind # "status"
  <2>1. C!OnRefused
    BY <1>6 DEF C!Handles
  <2>2. /\ refused' = refused + 1
        /\ sentParts' = IF sentParts > 0 THEN sentParts - 1 ELSE 0
        /\ UNCHANGED <<status, pending, queue, events, rx, files, sent,
                       losses>>
    BY <1>1, <2>1 DEF C!OnRefused, C!peer, C!port
  <2>3. /\ NParts \in Nat /\ sentParts \in Nat /\ sentParts < NParts
        /\ pending = 0 => sentParts = 0
        /\ refused \in Nat
    BY DEF FileInv, FileTypes, C!ConsoleAssumption
  <2>4. /\ sentParts' \in Nat /\ sentParts' < NParts /\ refused' \in Nat
        /\ pending' = 0 => sentParts' = 0
    BY <2>2, <2>3
  <2>5. FileTypes'
    BY <1>3, <2>2, <2>4 DEF FileInv, FileTypes
  <2>6. ~Calm'
    BY <2>2 DEF Calm, FileInv, FileTypes
  <2> QED
    BY <2>5, <2>6 DEF FileInv
<1> QED
  BY <1>5, <1>6

LEMMA FileCommanded ==
  ASSUME C!ConsoleAssumption, FileInv,
         C!CmdSendfile \/ C!CmdBulk \/ C!CmdBcastfile
  PROVE  FileInv'
<1>1. /\ pc = "command" /\ pc' = "ping"
      /\ UNCHANGED <<status, inbox, refused, losses, rx, files>>
  BY DEF C!CmdSendfile, C!CmdBulk, C!CmdBcastfile, C!Goes, C!peer
<1>2. /\ inbox' = <<>> /\ inbox' \in Seq(Report) /\ status' \in Report
      /\ {pending, sentParts, sent, refused, losses} \subseteq Nat
      /\ sentParts < NParts /\ (pending = 0 => sentParts = 0)
      /\ (pc' = "handle") <=> (inbox' # <<>>)
  BY <1>1 DEF FileInv, FileTypes
<1>3. CASE C!CmdSendfile
  <2>1. /\ pending = 0 /\ sent' = sent + 1
        /\ C!PumpFile(status, sent + 1, 0, 0)
    BY <1>3 DEF C!CmdSendfile
  <2>2. /\ status \in Report /\ sent + 1 \in Nat \ {0} /\ 0 \in 0..NParts - 1
    BY <1>1, <1>2 DEF C!ConsoleAssumption
  <2>3. PICK msgs \in Seq(Message) :
          /\ C!Submit(msgs)
          /\ Linked(msgs, Place(sent + 1, 0), Place(pending', sentParts'))
          /\ {pending', sentParts'} \subseteq Nat /\ sentParts' < NParts
          /\ pending' = 0 => sentParts' = 0
    BY <2>1, <2>2, FilePumped
  <2>4. Place(sent + 1, 0) = Place(pending, sentParts)
    BY <1>2, <2>1 DEF Place
  <2> QED
    BY <1>1, <1>2, <2>1, <2>2, <2>3, <2>4, FileSubmitted
<1>4. CASE C!CmdBulk
  <2>1. C!Submit(<<C!Pattern>>) /\ UNCHANGED <<pending, sentParts, sent>>
    BY <1>4 DEF C!CmdBulk
  <2>2. <<C!Pattern>> \in Seq(Message)
    <3>1. C!Pattern \in Message
      BY DEF C!Pattern, Message
    <3> QED
      BY <3>1
  <2>3. Place(pending, sentParts) \in Nat \X Nat
    BY <1>2 DEF Place, Between
  <2>4. Place(pending', sentParts') = Place(pending, sentParts)
    BY <2>1
  <2>5. Linked(<<C!Pattern>>, Place(pending, sentParts),
               Place(pending', sentParts'))
    BY <2>3, <2>4, LinkedPattern
  <2> QED
    BY <1>1, <1>2, <2>1, <2>2, <2>5, FileSubmitted
<1>5. CASE C!CmdBcastfile
  <2>1. UNCHANGED <<pending, sentParts, sent, queue, events>>
    BY <1>5 DEF C!CmdBcastfile, C!port
  <2>2. Calm' => Calm
    BY <1>1, <2>1 DEF Calm
  <2>3. events' \in Seq(Report) /\ refused' \in Nat /\ losses' \in Nat
    BY <1>1, <1>2, <2>1 DEF FileInv, FileTypes
  <2> QED
    BY <1>1, <1>2, <2>1, <2>2, <2>3, FileStands
<1> QED
  BY <1>3, <1>4, <1>5

LEMMA FileKeyed ==
  ASSUME FileInv, UNCHANGED <<C!sender, C!port, C!peer, sent, losses>>
  PROVE  FileInv'
<1>1. Calm' => Calm
  BY DEF Calm, C!sender, C!port
<1> QED
  BY <1>1, FileStands DEF FileInv, FileTypes, C!sender, C!port, C!peer

(* What the broadcast holds: its chunks follow one another.                *)
Following(s) ==
  \A i \in 1..Len(s) :
    /\ s[i].chunk < Chunks
    /\ s[i] = C!Chunk(s[1].cast, s[1].chunk + (i - 1))

(* What the peer collects: chunks in order, of one file unless a start or  *)
(* an end was lost among them.                                             *)
Earlier(x, c, n) == x.cast < c \/ (x.cast = c /\ x.chunk < n)
Under(s, c, n) == \A j \in 1..Len(s) : Earlier(s[j], c, n)
Lined(s) ==
  \A i, j \in 1..Len(s) : i < j => Earlier(s[i], s[j].cast, s[j].chunk)
OfCast(s, c) == \A j \in 1..Len(s) : s[j].cast = c
Single(s) == \A i, j \in 1..Len(s) : s[i].cast = s[j].cast

Collection == [chunks : Seq(Heard), unmarked : BOOLEAN]
Sound(f) == /\ f \in Collection /\ Lined(f.chunks)
            /\ ~f.unmarked => Single(f.chunks)

CastTypes ==
  /\ casts \in Nat /\ fades \in Nat /\ bcOff \in 0..Chunks
  /\ bcOpen \in BOOLEAN /\ flight \in BOOLEAN /\ complete \in BOOLEAN
  /\ closing \in BOOLEAN /\ overrun \in BOOLEAN /\ unmarked \in BOOLEAN
  /\ evt_open \in BOOLEAN /\ storing \in BOOLEAN
  /\ source \in Seq(Heard) /\ Following(source)
  /\ bcBuf \in Seq(Heard) /\ Lined(bcBuf)
  /\ stored \in Seq(Collection)
  /\ \A i \in 1..Len(stored) : Sound(stored[i])
  /\ inbox \in Seq(Report) /\ status \in Report

(* Where the air and the listener stand with the broadcast that is fed.    *)
Airing ==
  /\ bcOpen => bcOff < Chunks
  /\ Under(bcBuf, casts, bcOff)
  /\ source # <<>> =>
       /\ flight
       /\ Under(bcBuf, source[1].cast, source[1].chunk)
       /\ complete <=> source[1].chunk + Len(source) = Chunks
       /\ bcOff > 0 => source[1].cast = casts
                       /\ source[1].chunk + Len(source) = bcOff
       /\ bcOff = 0 => source[1].cast < casts

(* While the peer knows a broadcast open, and neither a mark nor an end is *)
(* missing, what it collects is of the file that goes on.                  *)
Marked ==
  /\ ~unmarked => Single(bcBuf)
  /\ evt_open /\ ~unmarked /\ ~closing =>
       /\ source = <<>> => ~complete /\ (bcOff > 0 => OfCast(bcBuf, casts))
       /\ source # <<>> => OfCast(bcBuf, source[1].cast)

(* With one broadcast that nothing is lost of, the peer has all that left  *)
(* the buffer.                                                             *)
AllHeard ==
  /\ bcOff > 0 => flight
  /\ source = <<>> => Len(bcBuf) = bcOff
  /\ source # <<>> => Len(bcBuf) = source[1].chunk
  /\ evt_open <=> Len(bcBuf) # 0 /\ Len(bcBuf) < Chunks
  /\ \A i \in 1..Len(stored) : Len(stored[i].chunks) = Chunks
Fresh == /\ source = <<>> /\ complete /\ ~evt_open
         /\ bcBuf = <<>> /\ stored = <<>>
Entire ==
  /\ casts = 0 => ~bcOpen /\ bcOff = 0
  /\ casts <= 1 => ~closing
  /\ casts <= 1 /\ bcOff = 0 => Fresh
  /\ casts = 1 /\ fades = 0 /\ ~overrun => AllHeard
CastInv == CastTypes /\ Airing /\ Marked /\ Entire

ChunksOf(c, off, n) == [i \in 1..n |-> C!Chunk(c, off + i - 1)]

LEMMA ChunksFollow ==
  ASSUME C!ConsoleAssumption, NEW c \in Nat, NEW off \in 0..Chunks,
         NEW n \in 0..Chunks - off
  PROVE  LET s == ChunksOf(c, off, n)
         IN /\ s \in Seq(Heard) /\ Len(s) = n /\ Following(s)
            /\ n > 0 => /\ s # <<>> /\ s[1].cast = c /\ s[1].chunk = off
                        /\ s[n].last <=> off + n = Chunks
            /\ n = 0 => s = <<>>
<1> DEFINE s == ChunksOf(c, off, n)
<1>1. Chunks \in Nat \ {0} /\ off \in Nat /\ n \in Nat /\ off + n <= Chunks
  BY DEF C!ConsoleAssumption
<1>2. ASSUME NEW i \in 1..n
      PROVE  /\ C!Chunk(c, off + i - 1) \in Heard
             /\ C!Chunk(c, off + i - 1).cast = c
             /\ C!Chunk(c, off + i - 1).chunk = off + (i - 1)
             /\ off + (i - 1) < Chunks
  <2>1. off + i - 1 = off + (i - 1) /\ off + (i - 1) \in Nat
        /\ off + (i - 1) < Chunks
    BY <1>1
  <2> QED
    BY <2>1 DEF C!Chunk, Heard
<1>3. /\ s \in Seq(Heard) /\ Len(s) = n
      /\ \A i \in 1..n : s[i] = C!Chunk(c, off + i - 1)
  BY <1>1, <1>2 DEF ChunksOf
<1> HIDE DEF s
<1>4. n > 0 => s # <<>> /\ s[1].cast = c /\ s[1].chunk = off
  <2> SUFFICES ASSUME n > 0 PROVE s # <<>> /\ s[1].cast = c /\ s[1].chunk = off
    OBVIOUS
  <2>1. 1 \in 1..n /\ off + (1 - 1) = off
    BY <1>1
  <2>2. s[1].cast = c /\ s[1].chunk = off + (1 - 1)
    BY <1>2, <1>3, <2>1
  <2>3. s # <<>>
    BY <1>3, <2>1
  <2> QED
    BY <2>1, <2>2, <2>3
<1>5. n = 0 => s = <<>>
  BY <1>3
<1>6. Following(s)
  <2> SUFFICES ASSUME NEW i \in 1..n
               PROVE  /\ s[i].chunk < Chunks
                      /\ s[i] = C!Chunk(s[1].cast, s[1].chunk + (i - 1))
    BY <1>3 DEF Following
  <2>1. n > 0 /\ off + i - 1 = off + (i - 1)
    BY <1>1
  <2> QED
    BY <1>2, <1>3, <1>4, <2>1
<1>7. n > 0 => (s[n].last <=> off + n = Chunks)
  <2> SUFFICES ASSUME n > 0 PROVE s[n].last <=> off + n = Chunks
    OBVIOUS
  <2>1. n \in 1..n /\ (off + n - 1 = Chunks - 1 <=> off + n = Chunks)
    BY <1>1
  <2>2. C!Chunk(c, off + n - 1).last <=> off + n - 1 = Chunks - 1
    BY DEF C!Chunk
  <2> QED
    BY <1>3, <2>1, <2>2
<1> QED
  BY <1>3, <1>4, <1>5, <1>6, <1>7 DEF s

LEMMA FollowingJoin ==
  ASSUME NEW s \in Seq(Heard), NEW u \in Seq(Heard), Following(s),
         Following(u), s # <<>>, u # <<>>, u[1].cast = s[1].cast,
         u[1].chunk = s[1].chunk + Len(s)
  PROVE  /\ s \o u \in Seq(Heard) /\ Len(s \o u) = Len(s) + Len(u)
         /\ s \o u # <<>> /\ (s \o u)[1] = s[1] /\ Following(s \o u)
<1> DEFINE m == Len(s)
           n == Len(u)
           w == s \o u
<1>1. /\ m \in Nat \ {0} /\ n \in Nat \ {0}
      /\ w \in Seq(Heard) /\ Len(w) = m + n
      /\ \A i \in 1..m : w[i] = s[i]
      /\ \A i \in 1..n : w[m + i] = u[i]
  OBVIOUS
<1>2. s[1] \in Heard /\ 1 \in 1..m
  BY <1>1
<1> DEFINE x == s[1].chunk
<1>5. x \in Nat
  BY <1>2 DEF Heard
<1> HIDE DEF m, n, w, x
<1>3. w # <<>> /\ w[1] = s[1]
  BY <1>1, <1>2
<1>4. Following(w)
  <2> SUFFICES ASSUME NEW i \in 1..m + n
               PROVE  /\ w[i].chunk < Chunks
                      /\ w[i] = C!Chunk(w[1].cast, w[1].chunk + (i - 1))
    BY <1>1 DEF Following
  <2>1. CASE i <= m
    <3>1. i \in 1..m
      BY <1>1, <2>1
    <3> QED
      BY <1>1, <1>3, <3>1 DEF Following, m
  <2>2. CASE ~ i <= m
    <3>1. /\ i - m \in 1..n /\ i = m + (i - m)
          /\ x + m + ((i - m) - 1) = x + (i - 1)
      BY <1>1, <1>5, <2>2
    <3>2. w[i] = u[i - m]
      BY <1>1, <3>1
    <3>3. u[i - m].chunk < Chunks
          /\ u[i - m] = C!Chunk(u[1].cast, u[1].chunk + ((i - m) - 1))
      BY <3>1 DEF Following, n
    <3>4. u[1].chunk + ((i - m) - 1) = s[1].chunk + (i - 1)
      BY <3>1 DEF m, x
    <3> QED
      BY <1>3, <3>2, <3>3, <3>4
  <2> QED
    BY <2>1, <2>2
<1> QED
  BY <1>1, <1>3, <1>4 DEF m, n, w

LEMMA FollowingTail ==
  ASSUME C!ConsoleAssumption, NEW s \in Seq(Heard), Following(s), s # <<>>
  PROVE  /\ Head(s) = s[1] /\ Head(s) \in Heard
         /\ Head(s).last = (Head(s).chunk = Chunks - 1)
         /\ Tail(s) \in Seq(Heard) /\ Len(Tail(s)) = Len(s) - 1
         /\ Following(Tail(s))
         /\ Tail(s) # <<>> => /\ Tail(s)[1].cast = s[1].cast
                              /\ Tail(s)[1].chunk = s[1].chunk + 1
                              /\ ~Head(s).last
<1> DEFINE u == Tail(s)
           n == Len(s) - 1
<1>1. /\ n \in Nat /\ Len(s) = n + 1 /\ u \in Seq(Heard) /\ Len(u) = n
      /\ \A i \in 1..n : u[i] = s[i + 1]
      /\ Head(s) = s[1] /\ s[1] \in Heard
  OBVIOUS
<1>2. s[1].cast \in Nat /\ s[1].chunk \in Nat /\ Chunks \in Nat \ {0}
  BY <1>1 DEF Heard, C!ConsoleAssumption
<1> HIDE DEF u, n
<1>3. \A i \in 1..n + 1 :
        /\ s[i].chunk < Chunks
        /\ s[i] = C!Chunk(s[1].cast, s[1].chunk + (i - 1))
  BY <1>1 DEF Following
<1>4. s[1].last = (s[1].chunk = Chunks - 1)
  <2>1. 1 \in 1..n + 1 /\ s[1].chunk + (1 - 1) = s[1].chunk
    BY <1>1, <1>2
  <2>2. s[1] = C!Chunk(s[1].cast, s[1].chunk)
    BY <1>3, <2>1
  <2>3. C!Chunk(s[1].cast, s[1].chunk).last = (s[1].chunk = Chunks - 1)
    BY DEF C!Chunk
  <2> QED
    BY <2>2, <2>3
<1>5. \A i \in 1..n : /\ u[i].chunk < Chunks /\ u[i].cast = s[1].cast
                      /\ u[i].chunk = s[1].chunk + i
                      /\ u[i] = C!Chunk(s[1].cast, s[1].chunk + i)
  <2> TAKE i \in 1..n
  <2>1. i + 1 \in 1..n + 1 /\ (i + 1) - 1 = i
    BY <1>1
  <2>2. u[i] = C!Chunk(s[1].cast, s[1].chunk + i) /\ u[i].chunk < Chunks
    BY <1>1, <1>3, <2>1
  <2>3. /\ C!Chunk(s[1].cast, s[1].chunk + i).cast = s[1].cast
        /\ C!Chunk(s[1].cast, s[1].chunk + i).chunk = s[1].chunk + i
    BY DEF C!Chunk
  <2> QED
    BY <2>2, <2>3
<1>6. Following(u)
  <2> SUFFICES ASSUME NEW i \in 1..n
               PROVE  /\ u[i].chunk < Chunks
                      /\ u[i] = C!Chunk(u[1].cast, u[1].chunk + (i - 1))
    BY <1>1 DEF Following
  <2>1. 1 \in 1..n /\ s[1].chunk + 1 + (i - 1) = s[1].chunk + i
    BY <1>1, <1>2
  <2>2. u[1].cast = s[1].cast /\ u[1].chunk = s[1].chunk + 1
    BY <1>5, <2>1
  <2> QED
    BY <1>5, <2>1, <2>2
<1>7. u # <<>> => u[1].cast = s[1].cast /\ u[1].chunk = s[1].chunk + 1
                  /\ ~s[1].last
  <2> SUFFICES ASSUME u # <<>>
               PROVE  u[1].cast = s[1].cast /\ u[1].chunk = s[1].chunk + 1
                      /\ ~s[1].last
    OBVIOUS
  <2>1. 1 \in 1..n
    BY <1>1
  <2>2. /\ u[1].chunk < Chunks /\ u[1].cast = s[1].cast
        /\ u[1].chunk = s[1].chunk + 1
    BY <1>5, <2>1
  <2>3. s[1].chunk # Chunks - 1
    BY <1>2, <2>2
  <2> QED
    BY <1>4, <2>2, <2>3
<1> QED
  BY <1>1, <1>4, <1>6, <1>7 DEF u, n

(* A bound that grows still bounds.                                        *)
LEMMA UnderLater ==
  ASSUME NEW s \in Seq(Heard), NEW c \in Nat, NEW n \in Nat, Under(s, c, n),
         NEW d \in Nat, NEW m \in Nat, c < d \/ (c = d /\ n <= m)
  PROVE  Under(s, d, m)
<1> SUFFICES ASSUME NEW j \in 1..Len(s) PROVE Earlier(s[j], d, m)
  BY DEF Under
<1>1. s[j] \in Heard
  OBVIOUS
<1>2. s[j].cast \in Nat /\ s[j].chunk \in Nat
  BY <1>1 DEF Heard
<1>3. s[j].cast < c \/ (s[j].cast = c /\ s[j].chunk < n)
  BY DEF Under, Earlier
<1> QED
  BY <1>2, <1>3 DEF Earlier

(* A chunk collected behind the others, or lost.                           *)
LEMMA Collected ==
  ASSUME NEW f \in Seq(Heard), Lined(f), NEW c \in Heard,
         Under(f, c.cast, c.chunk), NEW b \in BOOLEAN
  PROVE  /\ C!OnData(f, c, b) \in Seq(Heard) /\ Lined(C!OnData(f, c, b))
         /\ Under(C!OnData(f, c, b), c.cast, c.chunk + 1)
         /\ OfCast(f, c.cast) => OfCast(C!OnData(f, c, b), c.cast)
         /\ ~b => C!OnData(f, c, b) = f
         /\ b => Len(C!OnData(f, c, b)) = Len(f) + 1
<1>1. c.cast \in Nat /\ c.chunk \in Nat
  BY DEF Heard
<1>2. CASE ~b
  <2>1. C!OnData(f, c, b) = f
    BY <1>2 DEF C!OnData
  <2>2. Under(f, c.cast, c.chunk + 1)
    BY <1>1, UnderLater
  <2> QED
    BY <1>2, <2>1, <2>2
<1>3. CASE b
  <2> DEFINE g == Append(f, c)
             n == Len(f)
  <2>1. C!OnData(f, c, b) = g
    BY <1>3 DEF C!OnData
  <2>2. /\ n \in Nat /\ g \in Seq(Heard) /\ Len(g) = n + 1
        /\ g[n + 1] = c /\ \A i \in 1..n : g[i] = f[i]
    OBVIOUS
  <2>3. \A i \in 1..n + 1 : i = n + 1 \/ i \in 1..n
    BY <2>2
  <2> HIDE DEF g
  <2>4. \A i \in 1..n : Earlier(f[i], c.cast, c.chunk)
    BY DEF Under
  <2> HIDE DEF n
  <2>5. \A i \in 1..n + 1, j \in 1..n + 1 :
          i < j => i \in 1..n /\ (j = n + 1 \/ j \in 1..n)
    BY <2>2
  <2>6. Lined(g)
    <3> SUFFICES ASSUME NEW i \in 1..n + 1, NEW j \in 1..n + 1, i < j
                 PROVE  Earlier(g[i], g[j].cast, g[j].chunk)
      BY <2>2 DEF Lined
    <3>1. i \in 1..n
      BY <2>5
    <3>2. CASE j = n + 1
      BY <2>2, <2>4, <3>1, <3>2
    <3>3. CASE j \in 1..n
      BY <2>2, <3>1, <3>3 DEF Lined, n
    <3> QED
      BY <2>5, <3>2, <3>3
  <2>7. Under(g, c.cast, c.chunk + 1)
    <3> SUFFICES ASSUME NEW i \in 1..n + 1
                 PROVE  Earlier(g[i], c.cast, c.chunk + 1)
      BY <2>2 DEF Under
    <3>1. CASE i = n + 1
      BY <1>1, <2>2, <3>1 DEF Earlier
    <3>2. CASE i \in 1..n
      <4>1. Under(f, c.cast, c.chunk + 1)
        BY <1>1, UnderLater
      <4> QED
        BY <2>2, <3>2, <4>1 DEF Under, n
    <3> QED
      BY <2>3, <3>1, <3>2
  <2>8. OfCast(f, c.cast) => OfCast(g, c.cast)
    <3> SUFFICES ASSUME OfCast(f, c.cast), NEW i \in 1..n + 1
                 PROVE  g[i].cast = c.cast
      BY <2>2 DEF OfCast
    <3> QED
      BY <2>2, <2>3 DEF OfCast, n
  <2> QED
    BY <1>3, <2>1, <2>2, <2>6, <2>7, <2>8 DEF n
<1> QED
  BY <1>2, <1>3

(* What is stored joins what was.                                          *)
LEMMA StoredMore ==
  ASSUME stored \in Seq(Collection), \A i \in 1..Len(stored) : Sound(stored[i]),
         NEW f, Sound(f), NEW x \in BOOLEAN,
         stored' = IF x THEN Append(stored, f) ELSE stored
  PROVE  /\ stored' \in Seq(Collection)
         /\ \A i \in 1..Len(stored') : Sound(stored'[i])
         /\ \A i \in 1..Len(stored') :
              \/ \E j \in 1..Len(stored) : stored'[i] = stored[j]
              \/ x /\ stored'[i] = f
<1> DEFINE s == stored
           n == Len(s)
           r == Append(s, f)
<1>1. f \in Collection
  BY DEF Sound
<1>2. /\ s \in Seq(Collection) /\ n \in Nat /\ r \in Seq(Collection)
      /\ Len(r) = n + 1 /\ r[n + 1] = f /\ \A i \in 1..n : r[i] = s[i]
  BY <1>1
<1>3. \A i \in 1..n + 1 : i = n + 1 \/ i \in 1..n
  BY <1>2
<1>4. \A i \in 1..n : Sound(s[i])
  OBVIOUS
<1>5. CASE ~x
  <2>1. stored' = s
    BY <1>5
  <2> QED
    BY <1>2, <1>4, <2>1
<1>6. CASE x
  <2>1. stored' = r
    BY <1>6
  <2> HIDE DEF r
  <2>2. \A i \in 1..Len(r) : \/ \E j \in 1..n : r[i] = s[j]
                             \/ r[i] = f
    BY <1>2, <1>3
  <2>3. \A i \in 1..Len(r) : Sound(r[i])
    BY <1>4, <2>2
  <2> HIDE DEF s, n
  <2>4. \A i \in 1..Len(r) : \/ \E j \in 1..Len(stored) : r[i] = stored[j]
                             \/ x /\ r[i] = f
    BY <1>6, <2>2 DEF s, n
  <2> QED
    BY <1>2, <2>1, <2>3, <2>4
<1> QED
  BY <1>5, <1>6

LEMMA CastStart ==
  ASSUME C!ConsoleAssumption, C!Init
  PROVE  CastInv
<1> USE DEF C!Init
<1>1. /\ casts = 0 /\ fades = 0 /\ bcOff = 0 /\ bcOpen = FALSE
      /\ flight = FALSE /\ complete = TRUE /\ closing = FALSE
      /\ overrun = FALSE /\ unmarked = FALSE /\ evt_open = FALSE
      /\ storing = FALSE /\ source = <<>> /\ bcBuf = <<>> /\ stored = <<>>
      /\ inbox = <<>> /\ status = C!NoStatus /\ Chunks \in Nat \ {0}
  BY DEF C!ConsoleAssumption
<1>2. /\ <<>> \in Seq(Heard) /\ <<>> \in Seq(Report)
      /\ <<>> \in Seq(Collection) /\ Len(<<>>) = 0
      /\ \A i \in 1..Len(<<>>) : FALSE
  OBVIOUS
<1>3. C!NoStatus \in Report
  BY DEF C!NoStatus, Report
<1>4. Following(<<>>) /\ Lined(<<>>) /\ Single(<<>>) /\ Under(<<>>, 0, 0)
  BY <1>2, Zenon DEF Following, Lined, Single, Under
<1>5. \A i \in 1..Len(stored) : Sound(stored[i])
  BY <1>1, <1>2, Zenon
<1>6. CastTypes
  <2>1. casts \in Nat /\ fades \in Nat /\ bcOff \in 0..Chunks
    BY <1>1
  <2>2. TRUE \in BOOLEAN /\ FALSE \in BOOLEAN
    OBVIOUS
  <2>3. /\ bcOpen \in BOOLEAN /\ flight \in BOOLEAN /\ complete \in BOOLEAN
        /\ closing \in BOOLEAN /\ overrun \in BOOLEAN
        /\ unmarked \in BOOLEAN /\ evt_open \in BOOLEAN
        /\ storing \in BOOLEAN
    BY <1>1, <2>2, Zenon
  <2>4. /\ source \in Seq(Heard) /\ Following(source)
        /\ bcBuf \in Seq(Heard) /\ Lined(bcBuf)
        /\ stored \in Seq(Collection)
        /\ inbox \in Seq(Report) /\ status \in Report
    BY <1>1, <1>2, <1>3, <1>4, Zenon
  <2> QED
    BY <1>5, <2>1, <2>3, <2>4, Zenon DEF CastTypes
<1>7. Airing /\ Marked
  BY <1>1, <1>4 DEF Airing, Marked
<1>8. Entire
  BY <1>1 DEF Entire, Fresh
<1> QED
  BY <1>6, <1>7, <1>8 DEF CastInv

(* A group is keyed: the frames of it that are heard reach the peer.       *)
LEMMA CastKeyed ==
  ASSUME C!ConsoleAssumption, CastInv, C!KeysGroup
  PROVE  CastInv'
<1> DEFINE c == Head(source)
<1>1. PICK caught \in SUBSET C!Frames(c) :
        C!OnBcast(c, caught) /\ C!Faded(caught # C!Frames(c))
  BY DEF C!KeysGroup
<1> DEFINE start == "sync" \in caught /\ ~evt_open
           data == "data" \in caught
           ends == "eos" \in caught
           base == IF start THEN <<>> ELSE bcBuf
           mark == ~start /\ (unmarked \/ (data /\ ~evt_open))
           f == [chunks |-> C!OnData(base, c, data), unmarked |-> mark]
<1>2. /\ ~closing /\ source # <<>> /\ source' = Tail(source)
      /\ UNCHANGED <<inbox, status, casts, overrun, bcOff, bcOpen, flight,
                     complete, closing>>
  BY DEF C!KeysGroup, C!sender
<1>3. /\ casts \in Nat /\ fades \in Nat /\ bcOff \in 0..Chunks
      /\ source \in Seq(Heard) /\ Following(source)
      /\ bcBuf \in Seq(Heard) /\ Lined(bcBuf)
      /\ stored \in Seq(Collection)
      /\ \A i \in 1..Len(stored) : Sound(stored[i])
      /\ Chunks \in Nat \ {0}
      /\ evt_open \in BOOLEAN /\ unmarked \in BOOLEAN /\ storing \in BOOLEAN
      /\ complete \in BOOLEAN
  BY DEF CastInv, CastTypes, C!ConsoleAssumption
<1>4. /\ c = source[1] /\ c \in Heard /\ c.last = (c.chunk = Chunks - 1)
      /\ source' \in Seq(Heard) /\ Len(source') = Len(source) - 1
      /\ Following(source')
      /\ source' # <<>> => /\ source'[1].cast = c.cast
                           /\ source'[1].chunk = c.chunk + 1
                           /\ ~c.last
  BY <1>2, <1>3, FollowingTail
<1>5. c.chunk \in Nat /\ c.cast \in Nat /\ c.last \in BOOLEAN
  BY <1>4 DEF Heard
<1>6. c.chunk < Chunks
  <2>1. 1 \in 1..Len(source)
    BY <1>2, <1>3
  <2> QED
    BY <1>3, <1>4, <2>1 DEF Following
<1>7. /\ flight
      /\ Under(bcBuf, c.cast, c.chunk)
      /\ complete <=> c.chunk + Len(source) = Chunks
      /\ bcOff > 0 => c.cast = casts /\ c.chunk + Len(source) = bcOff
      /\ bcOff = 0 => c.cast < casts
  BY <1>2, <1>4 DEF CastInv, Airing
<1>8. /\ bcBuf' = C!OnData(base, c, data)
      /\ storing' = (storing \/ start)
      /\ evt_open' = ((evt_open \/ start) /\ ~ends)
      /\ stored' = IF ends /\ (storing \/ start)
                   THEN C!OnEnd(C!OnData(base, c, data), mark) ELSE stored
      /\ unmarked' = (mark \/ (c.last /\ ~ends))
  BY <1>1 DEF C!OnBcast, C!OnStart
<1>9. ends => c.last
  BY <1>1 DEF C!Frames
<1>10. /\ fades' \in Nat
       /\ fades' = 0 => fades = 0 /\ caught = C!Frames(c)
  BY <1>1, <1>3 DEF C!Faded
<1>11. Len(source) \in Nat \ {0} /\ (source' = <<>> <=> Len(source) = 1)
  <2>1. source' = <<>> <=> Len(source') = 0
    BY <1>4
  <2>2. Len(source) \in Nat \ {0}
    BY <1>2, <1>3
  <2> QED
    BY <1>4, <2>1, <2>2
<1>12. /\ \A i \in 1..Len(<<>>) : FALSE
       /\ <<>> \in Seq(Heard)
  OBVIOUS
<1> HIDE DEF c
<1>13. /\ base \in Seq(Heard) /\ Lined(base) /\ Under(base, c.cast, c.chunk)
       /\ data \in BOOLEAN
       /\ start => OfCast(base, c.cast)
  <2>1. Lined(<<>>) /\ Under(<<>>, c.cast, c.chunk) /\ OfCast(<<>>, c.cast)
    BY <1>12, Zenon DEF Lined, Under, OfCast
  <2>2. CASE start
    BY <1>12, <2>1, <2>2
  <2>3. CASE ~start
    BY <1>3, <1>7, <2>3
  <2> QED
    BY <2>2, <2>3
<1>14. /\ start \in BOOLEAN /\ ends \in BOOLEAN /\ mark \in BOOLEAN
       /\ ~start => base = bcBuf
  OBVIOUS
<1>15. ~start /\ evt_open /\ ~unmarked => OfCast(base, c.cast)
  BY <1>2, <1>4, <1>14 DEF CastInv, Marked
<1>16. ~start /\ ~mark => ~unmarked /\ (data => evt_open)
  BY <1>3, <1>13
<1>17. ~unmarked => Single(bcBuf)
  BY DEF CastInv, Marked
<1> HIDE DEF base
<1>19. /\ bcBuf' \in Seq(Heard) /\ Lined(bcBuf')
       /\ Under(bcBuf', c.cast, c.chunk + 1)
       /\ OfCast(base, c.cast) => OfCast(bcBuf', c.cast)
       /\ ~data => bcBuf' = base
       /\ data => Len(bcBuf') = Len(base) + 1
  BY <1>4, <1>8, <1>13, Collected
<1>20. ~mark => Single(bcBuf')
  <2>1. OfCast(bcBuf', c.cast) => Single(bcBuf')
    BY DEF OfCast, Single
  <2>2. CASE start
    BY <1>13, <1>19, <2>1, <2>2
  <2>3. CASE ~start /\ data
    BY <1>15, <1>16, <1>19, <2>1, <2>3
  <2>4. CASE ~start /\ ~data
    BY <1>14, <1>16, <1>17, <1>19, <2>4
  <2> QED
    BY <2>2, <2>3, <2>4
<1>21. Sound(f) /\ f.chunks = bcBuf'
  <2>1. f.chunks = bcBuf' /\ f.unmarked = mark
    BY <1>8
  <2>2. f \in Collection
    BY <1>8, <1>14, <1>19 DEF Collection
  <2> QED
    BY <1>19, <1>20, <2>1, <2>2 DEF Sound
<1>22. /\ stored' \in Seq(Collection)
       /\ \A i \in 1..Len(stored') : Sound(stored'[i])
       /\ \A i \in 1..Len(stored') :
            \/ \E j \in 1..Len(stored) : stored'[i] = stored[j]
            \/ ends /\ stored'[i] = f
  <2> DEFINE x == ends /\ (storing \/ start)
  <2>1. stored' = IF x THEN Append(stored, f) ELSE stored
    BY <1>8 DEF C!OnEnd
  <2>2. x \in BOOLEAN /\ (x => ends)
    OBVIOUS
  <2> HIDE DEF x, f
  <2>3. /\ stored' \in Seq(Collection)
        /\ \A i \in 1..Len(stored') : Sound(stored'[i])
        /\ \A i \in 1..Len(stored') :
             \/ \E j \in 1..Len(stored) : stored'[i] = stored[j]
             \/ x /\ stored'[i] = f
    BY <1>3, <1>21, <2>1, <2>2, StoredMore
  <2> HIDE DEF ends
  <2> QED
    BY <2>2, <2>3
<1> HIDE DEF f, start, mark, ends, data
<1>23. CastTypes'
  <2>1. evt_open' \in BOOLEAN /\ storing' \in BOOLEAN /\ unmarked' \in BOOLEAN
    BY <1>8
  <2>2. bcOpen' \in BOOLEAN /\ flight' \in BOOLEAN /\ complete' \in BOOLEAN
        /\ closing' \in BOOLEAN /\ overrun' \in BOOLEAN
        /\ inbox' \in Seq(Report) /\ status' \in Report
        /\ casts' \in Nat /\ bcOff' \in 0..Chunks
    BY <1>2 DEF CastInv, CastTypes
  <2> QED
    BY <1>4, <1>10, <1>19, <1>22, <2>1, <2>2 DEF CastTypes
<1>24. Airing'
  <2>1. bcOpen' => bcOff' < Chunks
    BY <1>2 DEF CastInv, Airing
  <2>2. Under(bcBuf', casts', bcOff')
    <3>1. /\ casts' = casts /\ bcOff' = bcOff /\ bcOff \in Nat
          /\ c.chunk + 1 \in Nat
      BY <1>2, <1>3, <1>5
    <3>2. c.cast < casts \/ (c.cast = casts /\ c.chunk + 1 <= bcOff)
      BY <1>5, <1>7, <1>11, <3>1
    <3>3. Under(bcBuf', casts, bcOff)
      BY <1>3, <1>5, <1>19, <3>1, <3>2, UnderLater
    <3> QED
      BY <3>1, <3>3
  <2>3. ASSUME source' # <<>>
        PROVE  /\ flight'
               /\ Under(bcBuf', source'[1].cast, source'[1].chunk)
               /\ complete' <=> source'[1].chunk + Len(source') = Chunks
               /\ bcOff' > 0 => source'[1].cast = casts'
                                /\ source'[1].chunk + Len(source') = bcOff'
               /\ bcOff' = 0 => source'[1].cast < casts'
    <3>1. /\ source'[1].cast = c.cast /\ source'[1].chunk = c.chunk + 1
          /\ source'[1].chunk + Len(source') = c.chunk + Len(source)
      BY <1>4, <1>5, <1>11, <2>3
    <3> QED
      BY <1>2, <1>7, <1>19, <3>1
  <2> QED
    BY <2>1, <2>2, <2>3 DEF Airing
<1>25. Marked'
  <2>1. ~unmarked' => Single(bcBuf')
    BY <1>8, <1>20
  <2>2. ASSUME evt_open', ~unmarked', ~closing'
        PROVE  /\ source' = <<>> => ~complete'
                    /\ (bcOff' > 0 => OfCast(bcBuf', casts'))
               /\ source' # <<>> => OfCast(bcBuf', source'[1].cast)
    <3>1. /\ evt_open \/ start
          /\ ~mark /\ ~c.last
      BY <1>8, <2>2
    <3>2. OfCast(bcBuf', c.cast)
      BY <1>13, <1>15, <1>16, <1>19, <3>1
    <3>3. source' = <<>> => ~complete'
      BY <1>2, <1>3, <1>4, <1>5, <1>7, <1>11, <3>1
    <3> QED
      BY <1>2, <1>4, <1>7, <3>2, <3>3
  <2> QED
    BY <2>1, <2>2 DEF Marked
<1>26. ~(casts <= 1 /\ bcOff = 0) /\ casts # 0
  <2>1. ~Fresh
    BY <1>2 DEF Fresh
  <2> QED
    BY <1>3, <2>1 DEF CastInv, Entire
<1>27. ASSUME casts = 1, fades' = 0, ~overrun
       PROVE  AllHeard'
  <2>1. fades = 0 /\ caught = C!Frames(c) /\ AllHeard
    BY <1>10, <1>27 DEF CastInv, Entire
  <2>2. data /\ "sync" \in caught /\ (ends <=> c.last)
    BY <2>1 DEF C!Frames, data, ends
  <2>3. /\ Len(bcBuf) = c.chunk
        /\ evt_open <=> Len(bcBuf) # 0 /\ Len(bcBuf) < Chunks
        /\ \A i \in 1..Len(stored) : Len(stored[i].chunks) = Chunks
    BY <1>2, <1>4, <2>1 DEF AllHeard
  <2>4. evt_open \/ start
    BY <2>2 DEF start
  <2>5. Len(base) = c.chunk
    <3>1. CASE start
      <4>1. ~evt_open
        BY <3>1 DEF start
      <4>2. c.chunk = 0
        BY <1>6, <2>3, <4>1
      <4>3. base = <<>>
        BY <3>1 DEF base
      <4> QED
        BY <4>2, <4>3
    <3>2. CASE ~start
      BY <1>14, <2>3, <3>2
    <3> QED
      BY <3>1, <3>2
  <2>6. Len(bcBuf') = c.chunk + 1
    BY <1>19, <2>2, <2>5
  <2>7. evt_open' <=> ~c.last
    BY <1>8, <2>2, <2>4
  <2>8. c.last => c.chunk = Chunks - 1
    BY <1>4
  <2>9. ~c.last => c.chunk # Chunks - 1
    BY <1>4
  <2>10. ~c.last <=> c.chunk + 1 < Chunks
    BY <1>3, <1>5, <1>6, <2>8, <2>9
  <2>11. evt_open' <=> Len(bcBuf') # 0 /\ Len(bcBuf') < Chunks
    BY <1>5, <2>6, <2>7, <2>10
  <2>12. bcOff' > 0 => flight'
    BY <1>2, <1>7
  <2>13. source' = <<>> => Len(bcBuf') = bcOff'
    <3>1. bcOff > 0 /\ bcOff' = bcOff
      BY <1>2, <1>3, <1>26, <1>27
    <3> QED
      BY <1>7, <1>11, <2>6, <3>1
  <2>14. source' # <<>> => Len(bcBuf') = source'[1].chunk
    BY <1>4, <2>6
  <2>15. \A i \in 1..Len(stored') : Len(stored'[i].chunks) = Chunks
    <3> TAKE i \in 1..Len(stored')
    <3>1. CASE \E j \in 1..Len(stored) : stored'[i] = stored[j]
      BY <2>3, <3>1
    <3>2. CASE ends /\ stored'[i] = f
      <4>1. c.last /\ stored'[i].chunks = bcBuf'
        BY <1>21, <2>2, <3>2
      <4> QED
        BY <1>3, <1>5, <2>6, <2>8, <4>1
    <3> QED
      BY <1>22, <3>1, <3>2
  <2> QED
    BY <2>11, <2>12, <2>13, <2>14, <2>15 DEF AllHeard
<1>28. Entire'
  <2>1. casts' = casts /\ bcOff' = bcOff /\ overrun' = overrun /\ ~closing'
    BY <1>2
  <2> QED
    BY <1>26, <1>27, <2>1 DEF Entire
<1> QED
  BY <1>23, <1>24, <1>25, <1>28 DEF CastInv

(* Chunks are written against a report: of the file being fed, or the      *)
(* first ones of the next.                                                 *)
LEMMA CastPumped ==
  ASSUME C!ConsoleAssumption, CastInv, NEW st \in Report, NEW c, NEW off,
         NEW open \in BOOLEAN, open => off < Chunks,
         \/ c = casts /\ off = bcOff /\ (open => bcOpen)
         \/ c = casts + 1 /\ off = 0,
         C!PumpBcfile(st, c, off, open), casts' = c,
         UNCHANGED <<fades, C!listener>>,
         inbox' \in Seq(Report), status' \in Report
  PROVE  CastInv'
<1>1. /\ casts \in Nat /\ fades \in Nat /\ bcOff \in 0..Chunks
      /\ bcOpen \in BOOLEAN /\ flight \in BOOLEAN /\ complete \in BOOLEAN
      /\ closing \in BOOLEAN /\ overrun \in BOOLEAN /\ unmarked \in BOOLEAN
      /\ evt_open \in BOOLEAN /\ storing \in BOOLEAN
      /\ source \in Seq(Heard) /\ Following(source)
      /\ bcBuf \in Seq(Heard) /\ Lined(bcBuf)
      /\ stored \in Seq(Collection)
      /\ \A i \in 1..Len(stored) : Sound(stored[i])
      /\ Chunks \in Nat \ {0} /\ BcSize \in Nat
  BY DEF CastInv, CastTypes, C!ConsoleAssumption
<1>2. UNCHANGED <<fades, evt_open, storing, bcBuf, stored>>
  BY DEF C!listener
<1> DEFINE n == IF open /\ st.free >= 2 THEN C!Least(st.free - 1, Chunks - off)
                ELSE 0
           new == ChunksOf(c, off, n)
           fresh == new # <<>> /\ Head(new).chunk = 0
           joined == IF fresh THEN new ELSE source \o new
           over == Len(joined) > BcSize
<1>3. c \in Nat /\ off \in 0..Chunks /\ casts' = c
  BY <1>1
<1>4. /\ n \in 0..Chunks - off
      /\ n > 0 => open
  <2>1. st.free \in Int
    BY DEF Report
  <2> QED
    BY <1>1, <1>3, <2>1 DEF C!Least
<1>5. /\ bcOff' = off + n /\ bcOpen' = (open /\ off + n < Chunks)
      /\ C!BcWrite(new)
  BY DEF C!PumpBcfile, ChunksOf
<1> HIDE DEF n
<1>6. /\ new \in Seq(Heard) /\ Len(new) = n /\ Following(new)
      /\ n > 0 => /\ new # <<>> /\ new[1].cast = c /\ new[1].chunk = off
                  /\ new[n].last <=> off + n = Chunks
      /\ n = 0 => new = <<>>
  BY <1>3, <1>4, ChunksFollow
<1> HIDE DEF new
<1>7. /\ off \in Nat /\ n \in Nat /\ bcOff' \in Nat /\ bcOff \in Nat
      /\ bcOff' \in 0..Chunks /\ bcOpen' \in BOOLEAN
      /\ bcOpen' => bcOff' < Chunks
  <2>1. /\ bcOff' \in 0..Chunks /\ off \in Nat /\ n \in Nat /\ bcOff \in Nat
        /\ bcOff' \in Nat
    BY <1>1, <1>3, <1>4, <1>5
  <2>2. bcOpen' \in BOOLEAN /\ (bcOpen' => bcOff' < Chunks)
    BY <1>5, Zenon
  <2> QED
    BY <2>1, <2>2
<1>8. fresh <=> n > 0 /\ off = 0
  <2>1. CASE n = 0
    BY <1>6, <2>1
  <2>2. CASE n > 0
    <3>1. new # <<>> /\ Head(new) = new[1]
      BY <1>6, <2>2
    <3> QED
      BY <1>6, <2>2, <3>1
  <2> QED
    BY <1>7, <2>1, <2>2
<1>9. \/ c = casts /\ off = bcOff /\ (open => bcOpen)
      \/ c = casts + 1 /\ off = 0
  OBVIOUS
<1>10. n > 0 => c # 0
  <2>1. casts = 0 => ~bcOpen
    BY DEF CastInv, Entire
  <2> QED
    BY <1>1, <1>4, <1>9, <2>1
<1>11. off = 0 /\ c <= 1 => Fresh
  <2>1. casts = 0 => bcOff = 0
    BY DEF CastInv, Entire
  <2>2. casts <= 1 /\ bcOff = 0 => Fresh
    BY DEF CastInv, Entire
  <2> QED
    BY <1>1, <1>9, <2>1, <2>2
<1>12. c <= 1 => ~closing
  BY <1>1, <1>9 DEF CastInv, Entire
<1>13. /\ bcOpen => bcOff < Chunks
       /\ Under(bcBuf, casts, bcOff)
       /\ source # <<>> =>
            /\ flight
            /\ Under(bcBuf, source[1].cast, source[1].chunk)
            /\ complete <=> source[1].chunk + Len(source) = Chunks
            /\ bcOff > 0 => source[1].cast = casts
                            /\ source[1].chunk + Len(source) = bcOff
            /\ bcOff = 0 => source[1].cast < casts
  BY DEF CastInv, Airing
<1>14. /\ ~unmarked => Single(bcBuf)
       /\ evt_open /\ ~unmarked /\ ~closing =>
            /\ source = <<>> => ~complete /\ (bcOff > 0 => OfCast(bcBuf, casts))
            /\ source # <<>> => OfCast(bcBuf, source[1].cast)
  BY DEF CastInv, Marked
<1>15. Under(bcBuf, c, off) /\ Under(bcBuf, casts', bcOff')
  <2>1. Under(bcBuf, c, off)
    BY <1>1, <1>3, <1>7, <1>9, <1>13, UnderLater
  <2>2. Under(bcBuf, c, bcOff')
    BY <1>1, <1>3, <1>5, <1>7, <2>1, UnderLater
  <2> QED
    BY <1>3, <2>1, <2>2
<1>16. c = 1 /\ fades = 0 /\ ~overrun =>
         \/ casts = 1 /\ c = casts /\ off = bcOff /\ AllHeard
         \/ Fresh /\ off = 0
  BY <1>1, <1>9, <1>11 DEF CastInv, Entire
<1>17. Fresh => source = <<>> /\ complete /\ ~evt_open /\ bcBuf = <<>>
                /\ stored = <<>> /\ Len(bcBuf) = 0 /\ Len(stored) = 0
  <2>1. Len(<<>>) = 0
    OBVIOUS
  <2> QED
    BY <2>1 DEF Fresh
<1>18. ASSUME source' \in Seq(Heard), Following(source'), flight' \in BOOLEAN,
              complete' \in BOOLEAN, closing' \in BOOLEAN, overrun' \in BOOLEAN,
              unmarked' \in BOOLEAN
       PROVE  CastTypes'
  <2>1. /\ casts' \in Nat /\ fades' \in Nat /\ evt_open' \in BOOLEAN
        /\ storing' \in BOOLEAN /\ bcBuf' \in Seq(Heard) /\ Lined(bcBuf')
        /\ stored' \in Seq(Collection)
    BY <1>1, <1>2, <1>3
  <2>2. \A i \in 1..Len(stored') : Sound(stored'[i])
    BY <1>1, <1>2
  <2> QED
    BY <1>7, <1>18, <2>1, <2>2 DEF CastTypes
<1>19. CASE new = <<>> \/ ~(fresh \/ flight)
  <2>1. UNCHANGED <<source, flight, complete, closing, overrun, unmarked>>
    BY <1>5, <1>19 DEF C!BcWrite, C!air
  <2>2. CastTypes'
    BY <1>1, <1>18, <2>1
  <2>3. /\ flight => n = 0
        /\ source # <<>> => n = 0
        /\ n > 0 => off > 0
    BY <1>6, <1>7, <1>8, <1>13, <1>19
  <2>4. bcOff' > 0 => c = casts /\ off = bcOff /\ bcOff > 0
    BY <1>5, <1>7, <1>9, <2>3
  <2>5. bcOff' = 0 => off = 0 /\ n = 0
    BY <1>5, <1>7
  <2>6. Airing'
    <3>1. ASSUME source # <<>>
          PROVE  /\ bcOff' > 0 => source[1].cast = casts'
                                  /\ source[1].chunk + Len(source) = bcOff'
                 /\ bcOff' = 0 => source[1].cast < casts'
      <4>1. n = 0 /\ bcOff' = off
        BY <1>5, <1>7, <2>3, <3>1
      <4>2. source[1].cast \in Nat
        <5>1. source[1] \in Heard
          BY <1>1, <3>1
        <5> QED
          BY <5>1 DEF Heard
      <4>3. CASE bcOff' > 0
        BY <1>3, <1>13, <2>4, <3>1, <4>1, <4>3
      <4>4. CASE bcOff' = 0
        <5>1. source[1].cast <= casts /\ (bcOff = 0 => source[1].cast < casts)
          BY <1>1, <1>7, <1>13, <3>1, <4>2
        <5> QED
          BY <1>1, <1>3, <1>9, <4>1, <4>2, <4>4, <5>1
      <4> QED
        BY <1>7, <4>3, <4>4
    <3> QED
      BY <1>2, <1>7, <1>13, <1>15, <2>1, <3>1 DEF Airing
  <2>7. Marked'
    <3>1. bcOff' > 0 => bcOff > 0 /\ casts' = casts
      BY <1>3, <2>4
    <3> QED
      BY <1>2, <1>14, <2>1, <3>1 DEF Marked
  <2>8. casts' = 0 => ~bcOpen' /\ bcOff' = 0
    <3>1. casts' = 0 => c = casts /\ casts = 0
      BY <1>1, <1>3, <1>9
    <3>2. casts = 0 => ~bcOpen /\ bcOff = 0
      BY DEF CastInv, Entire
    <3> QED
      BY <1>3, <1>5, <1>7, <1>9, <1>10, <3>1, <3>2
  <2>9. casts' <= 1 => ~closing'
    BY <1>3, <1>12, <2>1
  <2>10. casts' <= 1 /\ bcOff' = 0 => Fresh'
    <3>1. casts' <= 1 /\ bcOff' = 0 => Fresh
      BY <1>3, <1>11, <2>5
    <3> QED
      BY <1>2, <2>1, <3>1 DEF Fresh
  <2>11. ASSUME casts' = 1, fades' = 0, ~overrun'
         PROVE  AllHeard'
    <3>1. c = 1 /\ fades = 0 /\ ~overrun
      BY <1>2, <1>3, <2>1, <2>11
    <3>2. CASE casts = 1 /\ c = casts /\ off = bcOff /\ AllHeard
      <4>1. /\ bcOff > 0 => flight
            /\ source = <<>> => Len(bcBuf) = bcOff
        BY <3>2 DEF AllHeard
      <4>2. bcOff' = bcOff
        BY <1>5, <1>7, <2>3, <2>5, <3>2, <4>1
      <4> QED
        BY <1>2, <2>1, <3>2, <4>2 DEF AllHeard
    <3>3. CASE Fresh /\ off = 0
      <4>1. n = 0 /\ bcOff' = 0
        BY <1>5, <1>7, <2>3, <3>3
      <4> QED
        BY <1>1, <1>2, <1>17, <2>1, <3>3, <4>1 DEF AllHeard
    <3> QED
      BY <1>16, <3>1, <3>2, <3>3
  <2>12. Entire'
    BY <2>8, <2>9, <2>10, <2>11 DEF Entire
  <2> QED
    BY <2>2, <2>6, <2>7, <2>12 DEF CastInv
<1>20. CASE ~(new = <<>> \/ ~(fresh \/ flight))
  <2>1. /\ source' = IF over THEN <<>> ELSE joined
        /\ flight' = ~over
        /\ complete' = (over \/ new[Len(new)].last)
        /\ closing' = (closing \/ (fresh /\ (~complete \/ source # <<>>)))
        /\ overrun' = (overrun \/ over)
        /\ unmarked' = (unmarked \/ over)
    BY <1>5, <1>20 DEF C!BcWrite
  <2>2. n > 0 /\ casts' # 0 /\ casts' \in Nat /\ bcOff' > 0
    <3>1. n # 0
      BY <1>6, <1>20
    <3>2. n > 0
      BY <1>7, <3>1
    <3> QED
      BY <1>3, <1>5, <1>7, <1>10, <3>2
  <2>3. casts' <= 1 => ~closing'
    <3> SUFFICES ASSUME casts' <= 1 PROVE ~closing'
      OBVIOUS
    <3>1. c <= 1 /\ ~closing
      BY <1>3, <1>12
    <3>2. fresh => complete /\ source = <<>>
      BY <1>8, <1>11, <1>17, <3>1
    <3> HIDE DEF fresh, over
    <3> QED
      BY <2>1, <3>1, <3>2, Zenon
  <2>4. /\ flight' \in BOOLEAN /\ closing' \in BOOLEAN
        /\ overrun' \in BOOLEAN /\ unmarked' \in BOOLEAN
    <3> HIDE DEF over, fresh
    <3> QED
      BY <2>1
  <2>5. CASE over
    <3>1. source' = <<>> /\ ~flight' /\ overrun' /\ unmarked' /\ complete' = TRUE
      BY <2>1, <2>5
    <3>2. source' \in Seq(Heard) /\ Following(source')
      <4>1. <<>> \in Seq(Heard) /\ \A i \in 1..Len(<<>>) : FALSE
        OBVIOUS
      <4> QED
        BY <3>1, <4>1 DEF Following
    <3>3. CastTypes'
      BY <1>18, <2>4, <3>1, <3>2
    <3>4. Airing' /\ Marked'
      BY <1>2, <1>7, <1>15, <3>1 DEF Airing, Marked
    <3>5. Entire'
      BY <2>2, <2>3, <3>1 DEF Entire
    <3> QED
      BY <3>3, <3>4, <3>5 DEF CastInv
  <2>6. CASE ~over
    <3>1. /\ source' = joined /\ flight' = TRUE
          /\ overrun' = overrun /\ unmarked' = unmarked
      BY <1>1, <2>1, <2>6
    <3>2. complete' \in BOOLEAN /\ (complete' <=> off + n = Chunks)
      <4>1. new[n] \in Heard
        BY <1>6, <1>7, <2>2
      <4>2. new[n].last \in BOOLEAN
        BY <4>1 DEF Heard
      <4>3. complete' = new[n].last
        BY <1>6, <2>1, <2>6, <4>2
      <4> QED
        BY <1>6, <2>2, <4>2, <4>3
    <3>3. \/ off = 0 /\ source' = new
          \/ off # 0 /\ source = <<>> /\ source' = new
          \/ off # 0 /\ source # <<>> /\ source' = source \o new
      BY <1>6, <1>8, <2>2, <3>1
    <3>4. off # 0 => /\ c = casts /\ off = bcOff /\ flight /\ bcOff > 0
                     /\ closing' = closing
      BY <1>1, <1>7, <1>8, <1>9, <1>20, <2>1
    <3>5. off = 0 => closing' = (closing \/ ~complete \/ source # <<>>)
      <4>1. off = 0 => fresh
        BY <1>8, <2>2
      <4> HIDE DEF fresh
      <4> QED
        BY <2>1, <4>1, Zenon
    <3> HIDE DEF over, fresh, joined
    <3>6. CASE source' = new
      <4>1. CastTypes'
        BY <1>6, <1>18, <2>4, <3>2, <3>6
      <4>2. source' # <<>> /\ source'[1].cast = c /\ source'[1].chunk = off
            /\ Len(source') = n
        BY <1>6, <2>2, <3>6
      <4>3. Airing'
        BY <1>2, <1>3, <1>5, <1>7, <1>15, <2>2, <3>1, <3>2, <4>2 DEF Airing
      <4>4. Marked'
        <5>1. ~unmarked' => Single(bcBuf')
          BY <1>2, <1>14, <3>1
        <5>2. ASSUME evt_open', ~unmarked', ~closing'
              PROVE  OfCast(bcBuf', source'[1].cast)
          <6>1. evt_open /\ ~unmarked
            BY <1>2, <3>1, <5>2
          <6>2. CASE off = 0
            <7>1. ~closing /\ complete /\ source = <<>>
              BY <3>5, <5>2, <6>2
            <7> QED
              BY <1>14, <6>1, <7>1
          <6>3. CASE off # 0 /\ source = <<>>
            <7>1. ~closing /\ bcOff > 0 /\ c = casts
              BY <3>4, <5>2, <6>3
            <7> QED
              BY <1>2, <1>14, <4>2, <6>1, <6>3, <7>1
          <6>4. CASE off # 0 /\ source # <<>>
            <7>1. source \o new = new /\ Len(source \o new) = Len(source) + n
              BY <1>1, <1>6, <3>3, <3>6, <6>4
            <7>2. Len(source) \in Nat /\ Len(source) # 0
              BY <1>1, <6>4
            <7> QED
              BY <1>6, <1>7, <7>1, <7>2
          <6> QED
            BY <6>2, <6>3, <6>4
        <5> QED
          BY <4>2, <5>1, <5>2 DEF Marked
      <4>5. ASSUME casts' = 1, fades' = 0, ~overrun'
            PROVE  AllHeard'
        <5>1. c = 1 /\ fades = 0 /\ ~overrun
          BY <1>2, <1>3, <3>1, <4>5
        <5>2. CASE off = 0
          <6>1. Fresh
            BY <1>11, <5>1, <5>2
          <6> QED
            BY <1>1, <1>2, <1>17, <3>1, <4>2, <5>2, <6>1 DEF AllHeard
        <5>3. CASE off # 0
          <6>1. AllHeard /\ off = bcOff
            BY <1>16, <5>1, <5>3
          <6>2. Len(bcBuf) = bcOff
            <7>1. CASE source = <<>>
              BY <6>1, <7>1 DEF AllHeard
            <7>2. CASE source # <<>>
              <8>1. source \o new = new /\ Len(source \o new) = Len(source) + n
                BY <1>1, <1>6, <3>3, <3>6, <5>3, <7>2
              <8>2. Len(source) \in Nat /\ Len(source) # 0
                BY <1>1, <7>2
              <8> QED
                BY <1>6, <1>7, <8>1, <8>2
            <7> QED
              BY <7>1, <7>2
          <6> QED
            BY <1>2, <3>1, <4>2, <6>1, <6>2 DEF AllHeard
        <5> QED
          BY <5>2, <5>3
      <4>6. Entire'
        BY <2>2, <2>3, <4>5 DEF Entire
      <4> QED
        BY <4>1, <4>3, <4>4, <4>6 DEF CastInv
    <3>7. CASE off # 0 /\ source # <<>> /\ source' = source \o new
      <4>1. /\ c = casts /\ off = bcOff /\ bcOff > 0 /\ closing' = closing
            /\ source[1].cast = casts /\ source[1].chunk + Len(source) = bcOff
        BY <1>13, <3>4, <3>7
      <4>2. /\ source' \in Seq(Heard) /\ Len(source') = Len(source) + n
            /\ source' # <<>> /\ source'[1] = source[1] /\ Following(source')
        BY <1>1, <1>6, <2>2, <3>7, <4>1, FollowingJoin
      <4>3. CastTypes'
        BY <1>18, <2>4, <3>2, <4>2
      <4>4. Len(source) \in Nat /\ source[1].chunk \in Nat
        <5>1. Len(source) \in Nat /\ source[1] \in Heard
          BY <1>1, <3>7
        <5> QED
          BY <5>1 DEF Heard
      <4>5. source'[1].chunk + Len(source') = bcOff'
        BY <1>5, <1>7, <4>1, <4>2, <4>4
      <4>6. Airing'
        <5>1. complete' <=> source'[1].chunk + Len(source') = Chunks
          BY <1>5, <3>2, <4>5
        <5>2. Under(bcBuf', source'[1].cast, source'[1].chunk)
          BY <1>2, <1>13, <3>7, <4>2
        <5>3. source'[1].cast = casts'
          BY <1>3, <4>1, <4>2
        <5> QED
          BY <1>2, <1>7, <1>15, <2>2, <3>1, <4>5, <5>1, <5>2, <5>3 DEF Airing
      <4>7. Marked'
        BY <1>2, <1>14, <3>1, <3>7, <4>1, <4>2 DEF Marked
      <4>8. ASSUME casts' = 1, fades' = 0, ~overrun'
            PROVE  AllHeard'
        <5>1. c = 1 /\ fades = 0 /\ ~overrun
          BY <1>2, <1>3, <3>1, <4>8
        <5>2. AllHeard
          BY <1>16, <3>7, <5>1
        <5> QED
          BY <1>2, <3>1, <3>7, <4>2, <5>2 DEF AllHeard
      <4>9. Entire'
        BY <2>2, <2>3, <4>8 DEF Entire
      <4> QED
        BY <4>3, <4>6, <4>7, <4>9 DEF CastInv
    <3> QED
      BY <3>3, <3>6, <3>7
  <2> QED
    BY <2>5, <2>6
<1> QED
  BY <1>19, <1>20

(* The end of a broadcast that was cut short.                              *)
LEMMA CastClosed ==
  ASSUME CastInv, C!KeysClosing
  PROVE  CastInv'
<1>1. PICK caught \in BOOLEAN :
        /\ C!Faded(~caught)
        /\ evt_open' = (evt_open /\ ~caught)
        /\ stored' = IF caught /\ storing THEN C!OnEnd(bcBuf, unmarked)
                     ELSE stored
        /\ unmarked' = (unmarked \/ ~caught)
  BY DEF C!KeysClosing
<1>2. /\ closing /\ closing' = FALSE
      /\ UNCHANGED <<inbox, status, bcOff, bcOpen, source, flight, complete,
                     storing, bcBuf, casts, overrun>>
  BY DEF C!KeysClosing, C!sender
<1>3. /\ fades' \in Nat /\ casts \in Nat
      /\ stored \in Seq(Collection)
      /\ \A i \in 1..Len(stored) : Sound(stored[i])
      /\ bcBuf \in Seq(Heard) /\ Lined(bcBuf) /\ unmarked \in BOOLEAN
      /\ ~unmarked => Single(bcBuf)
  BY <1>1 DEF CastInv, CastTypes, Marked, C!Faded
<1> DEFINE f == [chunks |-> bcBuf, unmarked |-> unmarked]
           x == caught /\ storing
<1>4. Sound(f)
  BY <1>3 DEF Sound, Collection
<1>5. stored' = (IF x THEN Append(stored, f) ELSE stored) /\ x \in BOOLEAN
  BY <1>1 DEF C!OnEnd
<1> HIDE DEF f, x
<1>6. /\ stored' \in Seq(Collection)
      /\ \A i \in 1..Len(stored') : Sound(stored'[i])
  BY <1>3, <1>4, <1>5, StoredMore
<1>7. CastTypes'
  <2>1. evt_open' \in BOOLEAN /\ unmarked' \in BOOLEAN /\ closing' \in BOOLEAN
    BY <1>1, <1>2
  <2> QED
    BY <1>2, <1>3, <1>6, <2>1 DEF CastInv, CastTypes
<1>8. Airing'
  BY <1>2 DEF CastInv, Airing
<1>9. Marked'
  BY <1>1, <1>2, <1>3 DEF Marked
<1>10. Entire'
  <2>1. ~(casts <= 1)
    BY <1>2 DEF CastInv, Entire
  <2> QED
    BY <1>2, <1>3, <2>1 DEF Entire
<1> QED
  BY <1>7, <1>8, <1>9, <1>10 DEF CastInv

(* The host does not come with the rest.                                   *)
LEMMA CastStarved ==
  ASSUME CastInv, C!Starves
  PROVE  CastInv'
<1>1. /\ ~complete /\ source = <<>> /\ complete' = TRUE /\ unmarked' = TRUE
      /\ UNCHANGED <<inbox, status, bcOff, bcOpen, source, flight, closing,
                     evt_open, storing, bcBuf, stored, casts, fades, overrun>>
  BY DEF C!Starves, C!sender, C!listener
<1>2. CastTypes' /\ Airing' /\ Marked'
  <2>1. CastTypes'
    BY <1>1 DEF CastInv, CastTypes
  <2>2. Airing'
    BY <1>1 DEF CastInv, Airing
  <2>3. Marked'
    BY <1>1 DEF Marked
  <2> QED
    BY <2>1, <2>2, <2>3
<1>3. Entire'
  <2>1. ~Fresh
    BY <1>1 DEF Fresh
  <2>2. AllHeard => AllHeard'
    BY <1>1 DEF AllHeard
  <2> QED
    BY <1>1, <2>1, <2>2 DEF CastInv, Entire
<1> QED
  BY <1>2, <1>3 DEF CastInv

(* The peer forgets that a broadcast was open: it heard nothing.           *)
LEMMA CastForgotten ==
  ASSUME CastInv, C!Forgets
  PROVE  CastInv'
<1>1. /\ evt_open /\ evt_open' = FALSE /\ fades' = fades + 1
      /\ UNCHANGED <<inbox, status, bcOff, bcOpen, source, flight, complete,
                     closing, storing, bcBuf, stored, casts, overrun, unmarked>>
  BY DEF C!Forgets, C!sender, C!air, C!Faded
<1>2. fades' \in Nat /\ fades' # 0
  BY <1>1 DEF CastInv, CastTypes
<1>3. CastTypes'
  BY <1>1, <1>2 DEF CastInv, CastTypes
<1>4. Airing'
  BY <1>1 DEF CastInv, Airing
<1>5. Marked'
  BY <1>1 DEF CastInv, Marked
<1>6. Entire'
  <2>1. ~Fresh
    BY <1>1 DEF Fresh
  <2> QED
    BY <1>1, <1>2, <2>1 DEF CastInv, Entire
<1> QED
  BY <1>3, <1>4, <1>5, <1>6 DEF CastInv

(* Nothing of the broadcast moves.                                         *)
CastsKept == UNCHANGED <<C!air, C!listener, bcOff, bcOpen, casts, fades,
                         overrun, unmarked, status>>
LEMMA CastStands ==
  ASSUME CastInv, CastsKept, inbox' \in Seq(Report)
  PROVE  CastInv'
<1>1. UNCHANGED <<source, flight, complete, closing, evt_open, storing, bcBuf,
                  stored, bcOff, bcOpen, casts, fades, overrun, unmarked,
                  status>>
  BY DEF CastsKept, C!air, C!listener
<1>2. CastTypes'
  BY <1>1 DEF CastInv, CastTypes
<1>3. Airing' /\ Marked'
  BY <1>1 DEF CastInv, Airing, Marked
<1>4. Entire'
  BY <1>1 DEF CastInv, Entire, AllHeard, Fresh
<1> QED
  BY <1>2, <1>3, <1>4 DEF CastInv

LEMMA CastHandled ==
  ASSUME C!ConsoleAssumption, CastInv, C!Handles, inbox # <<>>
  PROVE  CastInv'
<1>1. /\ inbox' = Tail(inbox)
      /\ UNCHANGED <<C!listener, casts, fades>>
  BY DEF C!Handles
<1>2. inbox \in Seq(Report) /\ status \in Report /\ bcOff \in 0..Chunks
      /\ bcOpen \in BOOLEAN
  BY DEF CastInv, CastTypes
<1>3. Head(inbox) \in Report /\ inbox' \in Seq(Report)
  BY <1>1, <1>2
<1>4. CASE Head(inbox).kind = "status"
  <2>1. /\ status' = Head(inbox)
        /\ C!PumpBcfile(Head(inbox), casts, bcOff, bcOpen)
    BY <1>4 DEF C!Handles, C!OnStatus
  <2>2. bcOpen => bcOff < Chunks
    BY DEF CastInv, Airing
  <2>3. casts' = casts /\ UNCHANGED <<fades, C!listener>>
    BY <1>1
  <2>4. status' \in Report
    BY <1>3, <2>1
  <2> QED
    BY <1>2, <1>3, <2>1, <2>2, <2>3, <2>4, CastPumped
<1>5. CASE Head(inbox).kind # "status"
  <2>1. UNCHANGED <<status, bcOff, bcOpen, C!air, overrun, unmarked>>
    BY <1>5 DEF C!Handles, C!OnRefused
  <2> QED
    BY <1>1, <1>3, <2>1, CastStands DEF CastsKept
<1> QED
  BY <1>4, <1>5

LEMMA CastCommanded ==
  ASSUME C!ConsoleAssumption, CastInv, C!CmdBcastfile
  PROVE  CastInv'
<1>1. /\ casts' = casts + 1 /\ C!PumpBcfile(status, casts + 1, 0, TRUE)
      /\ UNCHANGED <<status, inbox, fades, C!listener>>
  BY DEF C!CmdBcastfile
<1>2. status \in Report /\ inbox \in Seq(Report)
  BY DEF CastInv, CastTypes
<1>3. TRUE => 0 < Chunks
  BY DEF C!ConsoleAssumption
<1> QED
  BY <1>1, <1>2, <1>3, CastPumped

-----------------------------------------------------------------------------
ConsoleInv == FileInv /\ CastInv

LEMMA ConsoleSteps ==
  ASSUME C!ConsoleAssumption, ConsoleInv, [C!Next]_(C!vars)
  PROVE  ConsoleInv'
<1> USE DEF ConsoleInv
<1>1. inbox \in Seq(Report) /\ events \in Seq(Report) /\ source \in Seq(Heard)
  BY DEF FileInv, FileTypes, CastInv, CastTypes
<1>2. pc = "handle" => inbox # <<>>
  BY DEF FileInv, FileTypes
<1>3. CASE C!Pings \/ C!Polls \/ C!NoCommand
  <2>1. CastsKept /\ (inbox' = inbox \/ inbox' = events)
    BY <1>3 DEF CastsKept, C!Pings, C!Polls, C!NoCommand, C!ghosts
  <2> QED
    BY <1>1, <1>3, <2>1, CastStands, FileLooped
<1>4. CASE C!Handles
  <2>1. inbox # <<>>
    BY <1>2, <1>4 DEF C!Handles
  <2> QED
    BY <1>4, <2>1, FileHandled, CastHandled
<1>5. CASE C!CmdSendfile \/ C!CmdBulk
  <2>1. CastsKept /\ inbox' = inbox
    BY <1>5 DEF CastsKept, C!CmdSendfile, C!CmdBulk
  <2> QED
    BY <1>1, <1>5, <2>1, CastStands, FileCommanded
<1>6. CASE C!CmdBcastfile
  BY <1>6, FileCommanded, CastCommanded
<1>7. CASE C!Reports
  <2>1. CastsKept /\ inbox' = inbox
    BY <1>7 DEF CastsKept, C!Reports, C!sender, C!ghosts
  <2> QED
    BY <1>1, <1>7, <2>1, CastStands, FileReported
<1>8. CASE C!Delivers
  <2>1. CastsKept /\ inbox' = inbox
    BY <1>8 DEF CastsKept, C!Delivers, C!sender, C!ghosts
  <2> QED
    BY <1>1, <1>8, <2>1, CastStands, FileDelivered
<1>9. CASE C!GivesUp
  <2>1. CastsKept /\ inbox' = inbox
    BY <1>9 DEF CastsKept, C!GivesUp, C!sender
  <2> QED
    BY <1>1, <1>9, <2>1, CastStands, FileLost
<1>10. CASE C!KeysGroup
  <2>1. UNCHANGED <<C!sender, C!port, C!peer, sent, losses>>
    BY <1>10 DEF C!KeysGroup
  <2> QED
    BY <1>10, <2>1, FileKeyed, CastKeyed
<1>11. CASE C!KeysClosing
  <2>1. UNCHANGED <<C!sender, C!port, C!peer, sent, losses>>
    BY <1>11 DEF C!KeysClosing
  <2> QED
    BY <1>11, <2>1, FileKeyed, CastClosed
<1>12. CASE C!Starves
  <2>1. UNCHANGED <<C!sender, C!port, C!peer, sent, losses>>
    BY <1>12 DEF C!Starves
  <2> QED
    BY <1>12, <2>1, FileKeyed, CastStarved
<1>13. CASE C!Forgets
  <2>1. UNCHANGED <<C!sender, C!port, C!peer, sent, losses>>
    BY <1>13 DEF C!Forgets
  <2> QED
    BY <1>13, <2>1, FileKeyed, CastForgotten
<1>14. CASE UNCHANGED C!vars
  <2>1. CastsKept /\ inbox' = inbox
    BY <1>14 DEF CastsKept, C!vars, C!sender, C!ghosts
  <2>2. UNCHANGED <<C!sender, C!port, C!peer, sent, losses>>
    BY <1>14 DEF C!vars, C!ghosts
  <2> QED
    BY <1>1, <2>1, <2>2, CastStands, FileKeyed
<1> QED
  BY <1>3, <1>4, <1>5, <1>6, <1>7, <1>8, <1>9, <1>10, <1>11, <1>12, <1>13,
     <1>14 DEF C!Next, C!Loop, C!Board

(* What the invariant says of the files and of the broadcasts.             *)
LEMMA ConsoleSays ==
  ASSUME ConsoleInv
  PROVE  C!FileTrue /\ C!BcastTrue
<1>1. C!FileTrue
  <2> SUFFICES ASSUME NEW i \in DOMAIN files
               PROVE  /\ Len(files[i]) = NParts
                      /\ \A p \in 1..NParts : files[i][p].part = p - 1
                      /\ refused = 0 /\ losses = 0
                           /\ C!RefusedLog \notin C!ToSet(events \o inbox) =>
                         \A p \in 1..NParts :
                           files[i][p].file = files[i][1].file
    BY DEF C!FileTrue
  <2>1. FilesTyped(files) /\ events \in Seq(Report) /\ inbox \in Seq(Report)
    BY DEF ConsoleInv, FileInv, FileTypes
  <2>2. i \in 1..Len(files) /\ Placed(files[i]) /\ Len(files[i]) = NParts
    BY <2>1 DEF FilesTyped
  <2>3. C!ToSet(events \o inbox) = C!ToSet(events) \cup C!ToSet(inbox)
    BY <2>1, SetOfJoin
  <2>4. refused = 0 /\ losses = 0
          /\ C!RefusedLog \notin C!ToSet(events \o inbox) => Alike(files[i])
    BY <2>2, <2>3 DEF ConsoleInv, FileInv, Calm, Unrefused, Joined
  <2> QED
    BY <2>2, <2>4 DEF Placed, Alike
<1>2. C!BcastTrue
  <2> SUFFICES ASSUME NEW i \in DOMAIN stored
               PROVE  LET f == stored[i].chunks
                      IN /\ \A j, h \in DOMAIN f :
                              j < h => C!Before(f[j], f[h])
                         /\ ~stored[i].unmarked =>
                              \A h \in DOMAIN f : f[h].cast = f[1].cast
                         /\ casts = 1 /\ fades = 0 /\ ~overrun =>
                              Len(f) = Chunks
    BY DEF C!BcastTrue
  <2>1. /\ stored \in Seq(Collection)
        /\ \A j \in 1..Len(stored) : Sound(stored[j])
    BY DEF ConsoleInv, CastInv, CastTypes
  <2>2. i \in 1..Len(stored) /\ Sound(stored[i])
    BY <2>1
  <2> DEFINE f == stored[i].chunks
  <2>3. f \in Seq(Heard) /\ Lined(f) /\ (~stored[i].unmarked => Single(f))
    BY <2>2 DEF Sound, Collection
  <2>4. casts = 1 /\ fades = 0 /\ ~overrun => Len(f) = Chunks
    BY <2>2 DEF ConsoleInv, CastInv, Entire, AllHeard
  <2> HIDE DEF f
  <2>5. DOMAIN f = 1..Len(f) /\ Len(f) \in Nat
    BY <2>3
  <2>6. \A j, h \in DOMAIN f : j < h => C!Before(f[j], f[h])
    BY <2>3, <2>5 DEF Lined, Earlier, C!Before
  <2>7. ASSUME ~stored[i].unmarked, NEW h \in DOMAIN f
        PROVE  f[h].cast = f[1].cast
    <3>1. 1 \in 1..Len(f) /\ h \in 1..Len(f)
      BY <2>5
    <3> QED
      BY <2>3, <2>7, <3>1 DEF Single
  <2> QED
    BY <2>4, <2>6, <2>7 DEF f
<1> QED
  BY <1>1, <1>2

(* A file the peer reports complete is whole, and of one transfer if       *)
(* nothing was refused or given up; a broadcast it stores is in order, of  *)
(* one file unless a start or an end was lost or never keyed, and whole if *)
(* nothing was lost of it (TransfersTrue), for files, queues and buffers   *)
(* of every size.                                                          *)
THEOREM TransfersTrueAlways == Spec => []TransfersTrue
<1> DEFINE Inv == which = "console" => ConsoleInv
<1>1. C!ConsoleAssumption
  BY HostsAssumption
<1>2. Init => Inv
  BY <1>1, FileStart, CastStart DEF Init, ConsoleInv
<1>3. Inv /\ [Next]_all => Inv'
  <2> SUFFICES ASSUME Inv, [Next]_all, which' = "console"
               PROVE  ConsoleInv'
    OBVIOUS
  <2>1. which = "console"
    BY Stays
  <2>2. [C!Next]_(C!vars)
    BY <2>1 DEF Next, all, C!vars, C!sender, C!port, C!air, C!peer, C!listener,
                C!ghosts
  <2> QED
    BY <1>1, <2>1, <2>2, ConsoleSteps
<1>4. Inv => TransfersTrue
  BY ConsoleSays DEF TransfersTrue
<1> QED
  BY <1>2, <1>3, <1>4, PTL DEF Spec
-----------------------------------------------------------------------------
(* The packet bridge and the tunnel towards the board.  A frame the stack  *)
(* wrote is always in one place: keep, held, the board, or the refused; so *)
(* are the refusals the board still has to tell.  What the bridge may send *)
(* is covered by the reports on their way and those it has read.           *)
(* FiniteSets is instantiated with the component.                          *)
LEMMA NetCardinality == \A X : N!Cardinality(X) = Cardinality(X)
  BY DEF N!Cardinality, Cardinality

NetFrame == [id : Nat, size : {N!Short, N!Long}]
NetEntry == [id : Nat, size : {N!Short, N!Long}, late : BOOLEAN]
NetEvent == [kind : {"status", "refused"}, depth : Nat, rung : {0, 1}]

(* How many events of a kind are on their way.                             *)
Count(s, kind) == Cardinality(N!Among(s, kind))

LEMMA CountNone ==
  ASSUME NEW x
  PROVE  Count(<<>>, x) = 0
<1>1. N!Among(<<>>, x) = {}
  BY DEF N!Among
<1> QED
  BY <1>1, FS_EmptySet DEF Count

LEMMA CountNat ==
  ASSUME NEW s \in Seq(NetEvent), NEW x
  PROVE  IsFiniteSet(N!Among(s, x)) /\ Count(s, x) \in Nat
<1>1. N!Among(s, x) \subseteq 1..Len(s) /\ Len(s) \in Nat
  BY DEF N!Among
<1>2. IsFiniteSet(1..Len(s))
  BY <1>1, FS_Interval
<1> QED
  BY <1>1, <1>2, FS_Subset, FS_CardinalityType DEF Count

LEMMA CountAppend ==
  ASSUME NEW s \in Seq(NetEvent), NEW e \in NetEvent, NEW x
  PROVE  Count(Append(s, e), x) = Count(s, x) + (IF e.kind = x THEN 1 ELSE 0)
<1> DEFINE r == Append(s, e)
           n == Len(s)
<1>1. n \in Nat /\ Len(r) = n + 1 /\ r[n + 1] = e
      /\ \A i \in 1..n : r[i] = s[i]
  OBVIOUS
<1>2. DOMAIN s = 1..n /\ DOMAIN r = 1..n + 1
  BY <1>1
<1> HIDE DEF r, n
<1>3. N!Among(s, x) \subseteq 1..n /\ n + 1 \notin N!Among(s, x)
  BY <1>1, <1>2 DEF N!Among
<1>4. CASE e.kind = x
  <2>1. N!Among(r, x) = N!Among(s, x) \cup {n + 1}
    BY <1>1, <1>2, <1>4 DEF N!Among
  <2> QED
    BY <1>3, <1>4, <2>1, CountNat, FS_AddElement DEF Count, r
<1>5. CASE e.kind # x
  <2>1. N!Among(r, x) = N!Among(s, x)
    BY <1>1, <1>2, <1>5 DEF N!Among
  <2> QED
    BY <1>5, <2>1, CountNat DEF Count, r
<1> QED
  BY <1>4, <1>5

LEMMA CountTail ==
  ASSUME NEW s \in Seq(NetEvent), s # <<>>, NEW x
  PROVE  Count(s, x) = Count(Tail(s), x) + (IF Head(s).kind = x THEN 1 ELSE 0)
<1> DEFINE r == Tail(s)
           n == Len(r)
<1>1. n \in Nat /\ Len(s) = n + 1 /\ \A i \in 1..n : r[i] = s[i + 1]
  OBVIOUS
<1>2. DOMAIN r = 1..n /\ DOMAIN s = 1..n + 1 /\ Head(s) = s[1]
      /\ r \in Seq(NetEvent)
  BY <1>1
<1> HIDE DEF r, n
<1> DEFINE B == N!Among(s, x) \ {1}
           f == [i \in N!Among(r, x) |-> i + 1]
<1>3. B = {i + 1 : i \in N!Among(r, x)}
  <2>1. \A i \in 1..n + 1 : i # 1 => i - 1 \in 1..n /\ (i - 1) + 1 = i
    BY <1>1
  <2>2. \A i \in 1..n : i + 1 \in 1..n + 1 /\ i + 1 # 1
    BY <1>1
  <2>3. ASSUME NEW i \in B PROVE i \in {j + 1 : j \in N!Among(r, x)}
    <3>1. i \in 1..n + 1 /\ i # 1 /\ s[i].kind = x
      BY <1>2, <2>3 DEF N!Among
    <3>2. i - 1 \in 1..n /\ r[i - 1] = s[(i - 1) + 1] /\ (i - 1) + 1 = i
      BY <1>1, <2>1, <3>1
    <3>3. i - 1 \in N!Among(r, x)
      BY <1>2, <3>1, <3>2 DEF N!Among
    <3> QED
      BY <3>2, <3>3
  <2>4. ASSUME NEW j \in N!Among(r, x) PROVE j + 1 \in B
    <3>1. j \in 1..n /\ r[j].kind = x
      BY <1>2 DEF N!Among
    <3> QED
      BY <1>1, <1>2, <2>2, <3>1 DEF N!Among
  <2> QED
    BY <2>3, <2>4
<1>4. f \in Bijection(N!Among(r, x), B)
  <2>1. \A i, j \in N!Among(r, x) : i + 1 = j + 1 => i = j
    BY <1>1, <1>2 DEF N!Among
  <2>2. f \in [N!Among(r, x) -> B]
    BY <1>3
  <2>3. f \in Injection(N!Among(r, x), B)
    BY <2>1, <2>2 DEF Injection, IsInjective
  <2>4. f \in Surjection(N!Among(r, x), B)
    BY <1>3, <2>2 DEF Surjection
  <2> QED
    BY <2>3, <2>4 DEF Bijection
<1>5. ExistsBijection(N!Among(r, x), B)
  BY <1>4 DEF ExistsBijection
<1>6. IsFiniteSet(B) /\ Cardinality(B) = Count(r, x)
  BY <1>2, <1>5, CountNat, FS_Bijection DEF Count
<1> HIDE DEF B
<1>7. CASE s[1].kind = x
  <2>1. 1 \in N!Among(s, x)
    BY <1>1, <1>2, <1>7 DEF N!Among
  <2>2. Cardinality(B) = Cardinality(N!Among(s, x)) - 1
    BY <2>1, CountNat, FS_RemoveElement DEF B
  <2> QED
    BY <1>2, <1>6, <1>7, <2>2, CountNat DEF Count, r
<1>8. CASE s[1].kind # x
  <2>1. 1 \notin N!Among(s, x)
    BY <1>8 DEF N!Among
  <2>2. B = N!Among(s, x)
    BY <2>1 DEF B
  <2> QED
    BY <1>2, <1>6, <1>8, <2>2, CountNat DEF Count, r
<1> QED
  BY <1>7, <1>8

(* What the gate lets through for an event, and for events in a row.       *)
Allow(e) ==
  IF e.kind = "status" /\ e.depth < QueueHigh THEN QueueHigh - e.depth ELSE 0
Sums(s, t) ==
  \E c \in [0..Len(s) -> Nat] :
    /\ c[0] = 0 /\ c[Len(s)] = t
    /\ \A i \in 1..Len(s) : c[i] = c[i - 1] + Allow(s[i])

LEMMA AllowNat ==
  ASSUME N!BridgeAssumption, NEW e \in NetEvent
  PROVE  Allow(e) \in 0..QueueHigh /\ (e.kind # "status" => Allow(e) = 0)
  BY DEF N!BridgeAssumption, NetEvent, Allow

LEMMA SumsNone == Sums(<<>>, 0)
<1> DEFINE c == [i \in 0..0 |-> 0]
<1>1. Len(<<>>) = 0 /\ c \in [0..0 -> Nat] /\ c[0] = 0
  OBVIOUS
<1> HIDE DEF c
<1>2. \A i \in 1..0 : c[i] = c[i - 1] + Allow(<<>>[i])
  OBVIOUS
<1> QED
  BY <1>1, <1>2 DEF Sums

LEMMA SumsNoneOnly ==
  ASSUME NEW t, Sums(<<>>, t)
  PROVE  t = 0
  BY DEF Sums

LEMMA SumsNat ==
  ASSUME NEW s \in Seq(NetEvent), NEW t, Sums(s, t)
  PROVE  t \in Nat
<1>1. Len(s) \in 0..Len(s)
  OBVIOUS
<1> QED
  BY <1>1 DEF Sums

LEMMA SumsAppend ==
  ASSUME N!BridgeAssumption, NEW s \in Seq(NetEvent), NEW e \in NetEvent,
         NEW t, Sums(s, t)
  PROVE  Sums(Append(s, e), t + Allow(e))
<1> DEFINE n == Len(s)
           r == Append(s, e)
<1>1. PICK c \in [0..n -> Nat] :
        /\ c[0] = 0 /\ c[n] = t
        /\ \A i \in 1..n : c[i] = c[i - 1] + Allow(s[i])
  BY DEF Sums
<1>2. n \in Nat /\ Len(r) = n + 1 /\ r[n + 1] = e
      /\ \A i \in 1..n : r[i] = s[i]
  OBVIOUS
<1>3. t \in Nat /\ Allow(e) \in Nat
  BY AllowNat, SumsNat DEF N!BridgeAssumption
<1> HIDE DEF n, r
<1> DEFINE a == Allow(e)
           d == [i \in 0..n + 1 |-> IF i = n + 1 THEN t + a ELSE c[i]]
<1> HIDE DEF a
<1>4. d \in [0..n + 1 -> Nat]
  <2>1. \A i \in 0..n + 1 : i # n + 1 => i \in 0..n
    BY <1>2
  <2>2. \A i \in 0..n : c[i] \in Nat
    BY <1>1
  <2>3. t + a \in Nat
    BY <1>3 DEF a
  <2> QED
    BY <2>1, <2>2, <2>3
<1>5. d[n + 1] = t + a /\ \A i \in 0..n : d[i] = c[i]
  BY <1>2
<1> HIDE DEF d
<1>6. \A i \in 1..n + 1 : d[i] = d[i - 1] + Allow(r[i])
  <2> SUFFICES ASSUME NEW i \in 1..n + 1 PROVE d[i] = d[i - 1] + Allow(r[i])
    OBVIOUS
  <2>1. CASE i = n + 1
    <3>1. i - 1 = n /\ n \in 0..n
      BY <1>2, <2>1
    <3> QED
      BY <1>1, <1>2, <1>5, <2>1, <3>1 DEF a
  <2>2. CASE i # n + 1
    <3>1. i \in 1..n /\ i \in 0..n /\ i - 1 \in 0..n
      BY <1>2, <2>2
    <3> QED
      BY <1>1, <1>2, <1>5, <3>1
  <2> QED
    BY <2>1, <2>2
<1>7. d[0] = 0
  BY <1>1, <1>2, <1>5
<1>8. Sums(r, t + a)
  BY <1>2, <1>4, <1>5, <1>6, <1>7 DEF Sums
<1> QED
  BY <1>8 DEF r, a

LEMMA SumsTail ==
  ASSUME N!BridgeAssumption, NEW s \in Seq(NetEvent), s # <<>>, NEW t, Sums(s, t)
  PROVE  /\ Sums(Tail(s), t - Allow(Head(s)))
         /\ t - Allow(Head(s)) \in Nat
<1> DEFINE r == Tail(s)
           n == Len(r)
           a == Allow(Head(s))
<1>1. n \in Nat /\ Len(s) = n + 1 /\ Head(s) = s[1] /\ Head(s) \in NetEvent
      /\ \A i \in 1..n : r[i] = s[i + 1]
  OBVIOUS
<1>2. r \in Seq(NetEvent)
  OBVIOUS
<1> HIDE DEF n, r
<1>3. PICK c \in [0..n + 1 -> Nat] :
        /\ c[0] = 0 /\ c[n + 1] = t
        /\ \A i \in 1..n + 1 : c[i] = c[i - 1] + Allow(s[i])
  BY <1>1 DEF Sums
<1>4. a \in Nat
  BY <1>1, AllowNat DEF N!BridgeAssumption
<1>5. c[1] = a
  <2>1. 1 \in 1..n + 1 /\ 1 - 1 = 0
    BY <1>1
  <2>2. c[1] = 0 + a
    BY <1>1, <1>3, <2>1
  <2> HIDE DEF a
  <2> QED
    BY <1>4, <2>2
<1> HIDE DEF a
<1>6. \A i \in 0..n + 1 : c[i] \in Nat
  BY <1>3
<1>7. \A i \in 1..n + 1 : Allow(s[i]) \in Nat
  <2>1. \A i \in 1..n + 1 : s[i] \in NetEvent
    BY <1>1
  <2> QED
    BY <2>1, AllowNat DEF N!BridgeAssumption
<1>8. \A i \in Nat : i <= n => c[i + 1] >= a
  <2> DEFINE G == {i \in Nat : i <= n => c[i + 1] >= a}
  <2>1. 0 \in G
    BY <1>4, <1>5
  <2>2. ASSUME NEW i \in Nat, i \in G PROVE i + 1 \in G
    <3> SUFFICES ASSUME i + 1 <= n PROVE c[(i + 1) + 1] >= a
      OBVIOUS
    <3>1. /\ (i + 1) + 1 \in 1..n + 1 /\ ((i + 1) + 1) - 1 = i + 1
          /\ i + 1 \in 0..n + 1 /\ i <= n /\ (i + 1) + 1 \in 0..n + 1
      BY <1>1
    <3>2. c[(i + 1) + 1] = c[i + 1] + Allow(s[(i + 1) + 1])
      BY <1>3, <3>1
    <3>3. c[i + 1] >= a
      BY <2>2, <3>1
    <3>4. c[i + 1] \in Nat /\ Allow(s[(i + 1) + 1]) \in Nat
      BY <1>6, <1>7, <3>1
    <3> QED
      BY <1>4, <3>2, <3>3, <3>4
  <2> HIDE DEF G
  <2>3. \A i \in Nat : i \in G
    BY <2>1, <2>2, Induct, Zenon
  <2> QED
    BY <2>3 DEF G
<1> DEFINE d == [i \in 0..n |-> c[i + 1] - a]
<1>9. d \in [0..n -> Nat]
  <2>1. \A i \in 0..n : i + 1 \in 0..n + 1 /\ i \in Nat /\ i <= n
    BY <1>1
  <2>2. \A i \in 0..n : c[i + 1] - a \in Nat
    BY <1>4, <1>6, <1>8, <2>1
  <2> QED
    BY <2>2
<1>10. \A i \in 0..n : d[i] = c[i + 1] - a
  OBVIOUS
<1> HIDE DEF d
<1>11. \A i \in 1..n : d[i] = d[i - 1] + Allow(r[i])
  <2> SUFFICES ASSUME NEW i \in 1..n PROVE d[i] = d[i - 1] + Allow(r[i])
    OBVIOUS
  <2>1. /\ i + 1 \in 1..n + 1 /\ (i + 1) - 1 = i /\ i \in 0..n
        /\ i - 1 \in 0..n /\ (i - 1) + 1 = i /\ i \in 0..n + 1
    BY <1>1
  <2>2. c[i + 1] = c[i] + Allow(r[i])
    BY <1>1, <1>3, <2>1
  <2>3. d[i] = c[i + 1] - a /\ d[i - 1] = c[i] - a
    BY <1>10, <2>1
  <2>4. c[i] \in Nat /\ Allow(r[i]) \in Nat
    BY <1>1, <1>6, <1>7, <2>1
  <2> QED
    BY <1>4, <2>2, <2>3, <2>4
<1>12. d[0] = 0 /\ d[n] = t - a
  <2>1. 0 \in 0..n /\ n \in 0..n /\ 0 + 1 = 1
    BY <1>1
  <2> QED
    BY <1>3, <1>4, <1>5, <1>10, <2>1
<1>13. Sums(r, t - a)
  BY <1>9, <1>11, <1>12 DEF Sums, n
<1>14. t - a \in Nat
  BY <1>2, <1>13, SumsNat
<1> QED
  BY <1>13, <1>14 DEF r, a

LEMMA SumsBound ==
  ASSUME N!BridgeAssumption, NEW s \in Seq(NetEvent), NEW t, Sums(s, t)
  PROVE  t <= QueueHigh * Count(s, "status")
<1> DEFINE G == {n \in Nat : \A r \in Seq(NetEvent), u \in Nat :
                   Len(r) = n /\ Sums(r, u) => u <= QueueHigh * Count(r, "status")}
<1>0. QueueHigh \in Nat
  BY DEF N!BridgeAssumption
<1>1. 0 \in G
  <2> SUFFICES ASSUME NEW r \in Seq(NetEvent), NEW u \in Nat,
                      Len(r) = 0, Sums(r, u)
               PROVE  u <= QueueHigh * Count(r, "status")
    OBVIOUS
  <2>1. u = 0
    BY DEF Sums
  <2> DEFINE p == Count(r, "status")
  <2>2. p \in Nat
    BY CountNat
  <2> HIDE DEF p
  <2>3. QueueHigh * p \in Nat
    BY <1>0, <2>2
  <2> QED
    BY <2>1, <2>3 DEF p
<1>2. ASSUME NEW n \in Nat, n \in G PROVE n + 1 \in G
  <2> SUFFICES ASSUME NEW r \in Seq(NetEvent), NEW u \in Nat,
                      Len(r) = n + 1, Sums(r, u)
               PROVE  u <= QueueHigh * Count(r, "status")
    OBVIOUS
  <2>1. /\ r # <<>> /\ Tail(r) \in Seq(NetEvent) /\ Len(Tail(r)) = n
        /\ Head(r) \in NetEvent
    OBVIOUS
  <2> DEFINE a == Allow(Head(r))
             p == Count(Tail(r), "status")
             q == Count(r, "status")
  <2>2. Sums(Tail(r), u - a) /\ u - a \in Nat
    BY <2>1, SumsTail
  <2>3. u - a <= QueueHigh * p
    BY <1>2, <2>1, <2>2
  <2>4. p \in Nat /\ q = p + (IF Head(r).kind = "status" THEN 1 ELSE 0)
    BY <2>1, CountTail, CountNat
  <2>5. a \in 0..QueueHigh /\ (Head(r).kind # "status" => a = 0)
    BY <2>1, AllowNat
  <2> HIDE DEF a, p, q
  <2>6. QueueHigh * (p + 1) = QueueHigh * p + QueueHigh /\ QueueHigh * p \in Nat
    BY <1>0, <2>4
  <2>7. CASE Head(r).kind = "status"
    BY <1>0, <2>2, <2>3, <2>4, <2>5, <2>6, <2>7 DEF q
  <2>8. CASE Head(r).kind # "status"
    BY <1>0, <2>2, <2>3, <2>4, <2>5, <2>6, <2>8 DEF q
  <2> QED
    BY <2>7, <2>8
<1> HIDE DEF G
<1>3. \A n \in Nat : n \in G
  BY <1>1, <1>2, Induct, Zenon
<1>4. Len(s) \in G /\ t \in Nat
  BY <1>3, SumsNat
<1> QED
  BY <1>4 DEF G

(* What a write leaves behind: nothing, the frame, or word of a refusal.   *)
Stalled == refused' = refused + 1 /\ UNCHANGED <<queue, taken, events, inflight>>
Passed(frame) ==
  /\ Len(queue) < QueueLimit
  /\ queue' = Append(queue, frame) /\ taken' = Append(taken, frame)
  /\ inflight' = inflight + 1
  /\ UNCHANGED <<events, refused>>
Turned ==
  /\ ~(Len(queue) < QueueLimit)
  /\ events' = Append(events, N!RefusedLog)
  /\ inflight' = inflight + 1
  /\ UNCHANGED <<queue, taken, refused>>

LEMMA Sent ==
  ASSUME NEW frame, N!Transmit(frame)
  PROVE  Stalled \/ Passed(frame) \/ Turned
  BY DEF N!Transmit, N!WriteStalls, N!Accept, Stalled, Passed, Turned

Spoken == events' = events \/ events' = Append(events, N!RefusedLog)
LEMMA Probed ==
  N!WriteStalls \/ N!AcceptProbe \/ N!NoBoard => UNCHANGED <<queue, taken>> /\ Spoken
  BY DEF N!WriteStalls, N!AcceptProbe, N!NoBoard, Spoken

(* What the board does by itself.                                          *)
Drained == queue # <<>> /\ queue' = Tail(queue) /\ events' = events
Reported ==
  /\ Count(events, "status") < MaxReports
  /\ events' = Append(events, N!Status(Len(queue), rungNow))
  /\ queue' = queue
LEMMA NetBoardMoves ==
  ASSUME N!BoardStep, rungNow \in {0, 1}
  PROVE  /\ taken' = taken /\ rungNow' \in {0, 1}
         /\ \/ Drained
            \/ Reported
            \/ UNCHANGED <<queue, events>>
  BY NetCardinality DEF N!BoardStep, N!Keys, N!ProbeKeys, N!Decays,
                        N!Reporting, N!Exchange, Drained, Reported, Count

NetType ==
  /\ queue \in Seq(NetFrame) /\ taken \in Seq(NetFrame)
  /\ events \in Seq(NetEvent) /\ inbox \in Seq(NetEvent)
  /\ rungNow \in {0, 1} /\ holding \in BOOLEAN
  /\ status \in NetEvent \cup {N!NoStatus}
  /\ held \in Seq(NetEntry) /\ keep \in Seq(NetEntry)
  /\ needRung \in BOOLEAN /\ resume \in {"host", "pump"}
  /\ inflight \in Nat /\ refused \in Nat /\ offered \in Nat
  /\ program \in {"bridge", "tunnel"}
  /\ pc \in {"host", "pump", "flush", "crashed", "events", "probe", "depth"}

(* Where a program is tells what it may hold there.                        *)
Places ==
  /\ program = "tunnel" => ~holding /\ pc \notin {"flush", "crashed"}
  /\ program = "bridge" => pc \in {"host", "pump", "flush", "crashed"}
  /\ ~holding => held = <<>> /\ keep = <<>>
  /\ pc # "flush" => keep = <<>>
  /\ pc = "pump" /\ program = "tunnel" => inbox # <<>>
  /\ pc \notin {"pump", "flush"} => inbox = <<>>
  /\ pc = "flush" /\ resume = "host" => inbox = <<>>

LEMMA RefusalIsEvent == N!RefusedLog \in NetEvent
  BY DEF N!RefusedLog, NetEvent
LEMMA SpokenTypes ==
  ASSUME events \in Seq(NetEvent), Spoken
  PROVE  events' \in Seq(NetEvent)
<1>1. CASE events' = events
  BY <1>1
<1>2. CASE events' = Append(events, N!RefusedLog)
  BY <1>2, RefusalIsEvent
<1> QED
  BY <1>1, <1>2 DEF Spoken
LEMMA StatusIsEvent ==
  ASSUME NEW n \in Nat, NEW r \in {0, 1}
  PROVE  /\ N!Status(n, r) \in NetEvent
         /\ N!Status(n, r).kind = "status" /\ N!Status(n, r).depth = n
  BY DEF N!Status, NetEvent

(* What a deadline changes of frames that wait.                            *)
Aged(s, t) ==
  /\ t \in Seq(NetEntry) /\ Len(t) = Len(s)
  /\ \A i \in 1..Len(s) : t[i].id = s[i].id /\ t[i].size = s[i].size
LEMMA Ages ==
  ASSUME NEW s \in Seq(NetEntry), NEW t, NEW i \in DOMAIN s,
         t = [s EXCEPT ![i].late = TRUE]
  PROVE  Aged(s, t)
<1>1. i \in 1..Len(s) /\ Len(t) = Len(s) /\ s[i] \in NetEntry
  OBVIOUS
<1>2. [s[i] EXCEPT !.late = TRUE] \in NetEntry
  BY <1>1 DEF NetEntry
<1>3. t \in Seq(NetEntry)
  BY <1>1, <1>2
<1>4. ASSUME NEW j \in 1..Len(s)
      PROVE  t[j].id = s[j].id /\ t[j].size = s[j].size
  <2>1. CASE j = i
    <3>1. t[j] = [s[i] EXCEPT !.late = TRUE]
      BY <1>1, <2>1
    <3> QED
      BY <1>1, <2>1, <3>1 DEF NetEntry
  <2>2. CASE j # i
    BY <2>2
  <2> QED
    BY <2>1, <2>2
<1> QED
  BY <1>1, <1>3, <1>4 DEF Aged

LEMMA TypeStart ==
  ASSUME N!HostInit
  PROVE  NetType /\ Places
<1> USE DEF N!HostInit, N!Init, N!BoardInit
<1>1. NetType
  <2>1. /\ queue \in Seq(NetFrame) /\ taken \in Seq(NetFrame)
        /\ events \in Seq(NetEvent) /\ inbox \in Seq(NetEvent)
        /\ held \in Seq(NetEntry) /\ keep \in Seq(NetEntry)
    OBVIOUS
  <2>2. /\ rungNow \in {0, 1} /\ holding \in BOOLEAN /\ needRung \in BOOLEAN
        /\ program \in {"bridge", "tunnel"} /\ resume \in {"host", "pump"}
        /\ pc = "host" /\ status = N!NoStatus
    OBVIOUS
  <2>3. inflight \in Nat /\ refused \in Nat /\ offered \in Nat
    OBVIOUS
  <2> QED
    BY <2>1, <2>2, <2>3 DEF NetType
<1>2. Places
  BY DEF Places
<1> QED
  BY <1>1, <1>2

LEMMA BoardTypes ==
  ASSUME NetType, N!BoardStep
  PROVE  /\ queue' \in Seq(NetFrame) /\ taken' \in Seq(NetFrame)
         /\ events' \in Seq(NetEvent) /\ rungNow' \in {0, 1}
<1> USE DEF NetType
<1>1. CASE Drained
  BY <1>1, NetBoardMoves DEF Drained
<1>2. CASE Reported
  <2>1. Len(queue) \in Nat
    OBVIOUS
  <2> QED
    BY <1>2, <2>1, NetBoardMoves, StatusIsEvent DEF Reported
<1>3. CASE UNCHANGED <<queue, events>>
  BY <1>3, NetBoardMoves
<1> QED
  BY <1>1, <1>2, <1>3, NetBoardMoves

LEMMA SentTypes ==
  ASSUME NetType, NEW frame \in NetFrame, N!Transmit(frame)
  PROVE  /\ queue' \in Seq(NetFrame) /\ taken' \in Seq(NetFrame)
         /\ events' \in Seq(NetEvent) /\ inflight' \in Nat /\ refused' \in Nat
<1> USE DEF NetType
<1>1. CASE Stalled
  BY <1>1 DEF Stalled
<1>2. CASE Passed(frame)
  BY <1>2 DEF Passed
<1>3. CASE Turned
  BY <1>3, RefusalIsEvent DEF Turned
<1> QED
  BY <1>1, <1>2, <1>3, Sent

LEMMA FrameEntry ==
  /\ \A frame \in NetFrame : N!Entry(frame) \in NetEntry
       /\ N!Entry(frame).id = frame.id /\ N!Entry(frame).size = frame.size
  /\ \A entry \in NetEntry : N!Frame(entry) \in NetFrame
       /\ N!Frame(entry).id = entry.id /\ N!Frame(entry).size = entry.size
  BY DEF N!Entry, N!Frame, NetFrame, NetEntry

LEMMA HoldTypes ==
  ASSUME NetType, N!BridgeAssumption, NEW frame \in NetFrame, N!HoldFrame(frame)
  PROVE  held' \in Seq(NetEntry) /\ refused' \in Nat
<1> USE DEF NetType
<1>1. N!Entry(frame) \in NetEntry
  BY FrameEntry
<1>2. CASE Len(held) >= HoldMax
  <2>1. HoldMax \in Nat /\ HoldMax # 0
    BY DEF N!BridgeAssumption
  <2>2. held # <<>>
    BY <1>2, <2>1
  <2>3. held' = Append(Tail(held), N!Entry(frame)) /\ refused' = refused + 1
    BY <1>2 DEF N!HoldFrame
  <2>4. Tail(held) \in Seq(NetEntry)
    BY <2>2
  <2> HIDE DEF N!Entry
  <2> QED
    BY <1>1, <2>3, <2>4
<1>3. CASE ~(Len(held) >= HoldMax)
  <2>1. held' = Append(held, N!Entry(frame)) /\ refused' = refused
    BY <1>3 DEF N!HoldFrame
  <2> QED
    BY <1>1, <2>1
<1> QED
  BY <1>2, <1>3

LEMMA BridgeTypes ==
  ASSUME N!BridgeAssumption, NetType, Places, program = "bridge",
         UNCHANGED program, N!Next
  PROVE  NetType' /\ Places'
<1> USE DEF NetType, Places
<1>1. CASE N!Reads
  <2>1. PICK size \in {N!Short, N!Long} :
          N!FromHost([id |-> offered + 1, size |-> size])
    BY <1>1 DEF N!Reads
  <2> DEFINE frame == [id |-> offered + 1, size |-> size]
  <2>2. frame \in NetFrame /\ N!FromHost(frame)
    BY <2>1 DEF NetFrame
  <2> HIDE DEF frame
  <2>3. UNCHANGED <<rungNow, pc, holding, status, keep, needRung, resume, inbox>>
        /\ offered' = offered + 1 /\ pc = "host"
    BY <1>1 DEF N!Reads
  <2>4. /\ queue' \in Seq(NetFrame) /\ taken' \in Seq(NetFrame)
        /\ events' \in Seq(NetEvent) /\ inflight' \in Nat /\ refused' \in Nat
        /\ held' \in Seq(NetEntry) /\ (~holding => held' = held)
    <3>1. CASE (N!BoardFull \/ ~N!FitsAir(frame.size)) /\ holding
      BY <2>2, <3>1, HoldTypes DEF N!FromHost, N!NoBoard
    <3>2. CASE ~((N!BoardFull \/ ~N!FitsAir(frame.size)) /\ holding)
      <4>1. CASE N!FitsAir(frame.size)
        <5>1. N!Transmit(frame) /\ UNCHANGED held
          BY <2>2, <3>2, <4>1 DEF N!FromHost
        <5> QED
          BY <2>2, <5>1, SentTypes
      <4>2. CASE ~N!FitsAir(frame.size)
        BY <2>2, <3>2, <4>2 DEF N!FromHost, N!NoBoard
      <4> QED
        BY <4>1, <4>2
    <3> QED
      BY <3>1, <3>2
  <2> QED
    BY <2>3, <2>4
<1>2. CASE N!Crashes
  BY <1>2 DEF N!Crashes, N!board
<1>3. CASE N!Pump
  BY <1>3 DEF N!Pump
<1>4. CASE N!OnEvent
  <2>1. /\ Head(inbox) \in NetEvent /\ Tail(inbox) \in Seq(NetEvent)
        /\ pc = "pump" /\ inbox # <<>>
    BY <1>4 DEF N!OnEvent
  <2>2. CASE Head(inbox).kind = "status"
    <3>1. /\ inbox' = Tail(inbox) /\ status' = Head(inbox) /\ inflight' = 0
          /\ UNCHANGED <<N!board, holding, held, refused, offered>>
          /\ \/ N!Flushing("pump")
             \/ UNCHANGED <<pc, keep, needRung, resume>>
      BY <1>4, <2>2 DEF N!OnEvent
    <3>2. CASE N!Flushing("pump")
      <4>1. held # <<>>
        BY <1>4, <2>1, <2>2, <3>2 DEF N!OnEvent, N!Flushing
      <4> QED
        BY <2>1, <3>1, <3>2, <4>1 DEF N!Flushing, N!board
    <3>3. CASE UNCHANGED <<pc, keep, needRung, resume>>
      BY <2>1, <3>1, <3>3 DEF N!board
    <3> QED
      BY <3>1, <3>2, <3>3
  <2>3. CASE Head(inbox).kind # "status"
    BY <1>4, <2>1, <2>3 DEF N!OnEvent, N!board
  <2> QED
    BY <2>2, <2>3
<1>5. CASE N!Pumped
  BY <1>5 DEF N!Pumped, N!Flushing, N!board
<1>6. CASE N!Release
  <2> DEFINE entry == Head(held)
  <2>1. entry \in NetEntry /\ Tail(held) \in Seq(NetEntry) /\ held # <<>>
    BY <1>6 DEF N!Release
  <2>2. /\ held' = Tail(held) /\ pc = "flush"
        /\ UNCHANGED <<rungNow, pc, holding, status, resume, inbox, offered>>
    BY <1>6 DEF N!Release
  <2>3. CASE N!FitsAir(entry.size) /\ ~N!BoardFull
    <3>1. N!Transmit(N!Frame(entry)) /\ UNCHANGED <<keep, needRung>>
      BY <1>6, <2>3 DEF N!Release
    <3>2. N!Frame(entry) \in NetFrame
      BY <2>1, FrameEntry
    <3> QED
      BY <2>1, <2>2, <3>1, <3>2, SentTypes
  <2>4. CASE ~(N!FitsAir(entry.size) /\ ~N!BoardFull)
    <3>1. N!NoBoard /\ UNCHANGED inflight
      BY <1>6, <2>4 DEF N!Release
    <3>2. CASE entry.late
      BY <1>6, <2>1, <2>2, <2>4, <3>1, <3>2 DEF N!Release, N!NoBoard
    <3>3. CASE ~entry.late
      <4>1. keep' = Append(keep, entry) /\ refused' = refused
            /\ needRung' \in BOOLEAN
        BY <1>6, <2>4, <3>3 DEF N!Release
      <4> HIDE DEF entry
      <4> QED
        BY <2>1, <2>2, <3>1, <4>1 DEF N!NoBoard
    <3> QED
      BY <3>2, <3>3
  <2> QED
    BY <2>3, <2>4
<1>7. CASE N!Flushed
  <2>0. N!WriteStalls \/ N!AcceptProbe \/ N!NoBoard
    BY <1>7 DEF N!Flushed
  <2>1. UNCHANGED <<queue, taken>> /\ Spoken
    BY <2>0, Probed
  <2>2. events' \in Seq(NetEvent)
    BY <2>1, SpokenTypes
  <2> QED
    BY <1>7, <2>1, <2>2 DEF N!Flushed
<1>8. CASE N!Deadline
  <2>1. /\ UNCHANGED <<N!board, holding, pc, status, inflight, needRung, resume,
                       inbox, refused, offered>>
        /\ \/ N!OneLate(keep) /\ UNCHANGED held
           \/ N!OneLate(held) /\ UNCHANGED keep
    BY <1>8 DEF N!Deadline
  <2>2. CASE N!OneLate(keep) /\ UNCHANGED held
    <3>1. Aged(keep, keep')
      BY <2>2, Ages DEF N!OneLate
    <3>2. keep # <<>>
      BY <2>2 DEF N!OneLate
    <3> QED
      BY <2>1, <2>2, <3>1, <3>2 DEF Aged, N!board
  <2>3. CASE N!OneLate(held) /\ UNCHANGED keep
    <3>1. Aged(held, held')
      BY <2>3, Ages DEF N!OneLate
    <3>2. held # <<>>
      BY <2>3 DEF N!OneLate
    <3> QED
      BY <2>1, <2>3, <3>1, <3>2 DEF Aged, N!board
  <2> QED
    BY <2>1, <2>2, <2>3
<1>9. CASE N!ProbeTimer
  BY <1>9 DEF N!ProbeTimer, N!board
<1>10. CASE N!BoardStep /\ UNCHANGED <<N!others, holding>>
  BY <1>10, BoardTypes DEF N!others
<1> QED
  BY <1>1, <1>2, <1>3, <1>4, <1>5, <1>6, <1>7, <1>8, <1>9, <1>10
     DEF N!Next, N!Loop

LEMMA TunnelTypes ==
  ASSUME N!TunnelAssumption, NetType, Places, program = "tunnel",
         UNCHANGED program,
         \/ N!TunLoop
         \/ N!ProbeTimer
         \/ N!BoardStep /\ UNCHANGED <<N!others, holding>>
  PROVE  NetType' /\ Places'
<1> USE DEF NetType, Places
<1>1. CASE N!TunReads
  <2>1. /\ pc' = "events" /\ pc = "host"
        /\ UNCHANGED <<rungNow, N!bridgeOnly, status, inbox>>
    BY <1>1 DEF N!TunReads
  <2>2. CASE N!ReadsPacket
    <3>1. PICK size \in {N!Short, N!Long} :
            N!OnPacket([id |-> offered + 1, size |-> size])
      BY <2>2 DEF N!ReadsPacket
    <3> DEFINE frame == [id |-> offered + 1, size |-> size]
    <3>2. frame \in NetFrame /\ N!OnPacket(frame) /\ offered' = offered + 1
      BY <2>2, <3>1 DEF NetFrame, N!ReadsPacket
    <3> HIDE DEF frame
    <3>3. CASE N!BoardFull \/ ~N!FitsAir(frame.size)
      <4>1. N!NoBoard /\ UNCHANGED inflight /\ refused' = refused + 1
        BY <3>2, <3>3 DEF N!OnPacket
      <4> QED
        BY <2>1, <3>2, <4>1 DEF N!NoBoard, N!bridgeOnly
    <3>4. CASE ~(N!BoardFull \/ ~N!FitsAir(frame.size))
      <4>1. N!Transmit(frame)
        BY <3>2, <3>4 DEF N!OnPacket
      <4> QED
        BY <2>1, <3>2, <4>1, SentTypes DEF N!bridgeOnly
    <3> QED
      BY <3>3, <3>4
  <2>3. CASE N!ReadsNothing
    BY <2>1, <2>3 DEF N!ReadsNothing, N!NoBoard, N!bridgeOnly
  <2> QED
    BY <1>1, <2>2, <2>3 DEF N!TunReads
<1>2. CASE N!TunPolls
  BY <1>2 DEF N!TunPolls, N!bridgeOnly
<1>3. CASE N!TunHandles
  <2>1. inbox # <<>>
    BY <1>3 DEF N!TunHandles
  <2>2. /\ Head(inbox) \in NetEvent /\ Tail(inbox) \in Seq(NetEvent)
        /\ (Len(inbox) # 1 => Tail(inbox) # <<>>)
        /\ (Len(inbox) = 1 => Tail(inbox) = <<>>)
    <3>1. Len(inbox) \in Nat \ {0} /\ Len(Tail(inbox)) = Len(inbox) - 1
          /\ Tail(inbox) \in Seq(NetEvent)
      BY <2>1
    <3>2. \A s \in Seq(NetEvent) : s = <<>> <=> Len(s) = 0
      OBVIOUS
    <3>3. Head(inbox) \in NetEvent
      BY <2>1
    <3>4. Len(inbox) # 1 => Len(Tail(inbox)) # 0
      BY <3>1
    <3>5. Len(inbox) = 1 => Len(Tail(inbox)) = 0
      BY <3>1
    <3>6. Tail(inbox) = <<>> <=> Len(Tail(inbox)) = 0
      BY <3>1, <3>2
    <3> QED
      BY <3>1, <3>3, <3>4, <3>5, <3>6, Zenon
  <2>3. /\ inbox' = Tail(inbox) /\ pc = "pump"
        /\ pc' = IF Len(inbox) = 1 THEN "probe" ELSE "pump"
        /\ UNCHANGED <<N!board, N!bridgeOnly, refused, offered>>
    BY <1>3 DEF N!TunHandles
  <2>4. status' \in NetEvent \cup {N!NoStatus} /\ inflight' \in Nat
    BY <1>3, <2>2 DEF N!TunHandles, N!OnStatus
  <2> QED
    BY <2>1, <2>2, <2>3, <2>4 DEF N!board, N!bridgeOnly
<1>4. CASE N!TunProbes
  <2>0. N!WriteStalls \/ N!AcceptProbe \/ N!NoBoard
    BY <1>4 DEF N!TunProbes
  <2>1. UNCHANGED <<queue, taken>> /\ Spoken
    BY <2>0, Probed
  <2>2. events' \in Seq(NetEvent)
    BY <2>1, SpokenTypes
  <2> QED
    BY <1>4, <2>1, <2>2 DEF N!TunProbes, N!bridgeOnly
<1>5. CASE N!TunSetsDepth
  BY <1>5 DEF N!TunSetsDepth, N!bridgeOnly, N!board
<1>6. CASE N!ProbeTimer
  BY <1>6 DEF N!ProbeTimer, N!board
<1>7. CASE N!BoardStep /\ UNCHANGED <<N!others, holding>>
  BY <1>7, BoardTypes DEF N!others
<1> QED
  BY <1>1, <1>2, <1>3, <1>4, <1>5, <1>6, <1>7 DEF N!TunLoop

-----------------------------------------------------------------------------
(* Nothing is lost in silence.  What the tunnel reads it drops or hands to *)
(* a board that has room, for its gate is below the limit of the board.    *)
TunnelRoom == QueueHigh < QueueLimit
Onward == Len(taken) + Len(keep) + Len(held) + refused
Kept ==
  /\ program = "bridge" =>
       offered <= Onward + Count(events, "refused") + Count(inbox, "refused")
  /\ program = "tunnel" /\ TunnelRoom => offered <= Len(taken) + refused

LEMMA SpokenCount ==
  ASSUME events \in Seq(NetEvent), Spoken
  PROVE  /\ Count(events', "refused") >= Count(events, "refused")
         /\ Count(events', "status") = Count(events, "status")
<1>1. Count(events, "refused") \in Nat /\ Count(events, "status") \in Nat
  BY CountNat
<1>2. CASE events' = events
  BY <1>1, <1>2
<1>3. CASE events' = Append(events, N!RefusedLog)
  <2>1. N!RefusedLog.kind = "refused"
    BY DEF N!RefusedLog
  <2>2. /\ Count(events', "refused") = Count(events, "refused") + 1
        /\ Count(events', "status") = Count(events, "status") + 0
    BY <1>3, <2>1, CountAppend, RefusalIsEvent
  <2> QED
    BY <1>1, <2>2
<1> QED
  BY <1>2, <1>3 DEF Spoken

LEMMA BoardCount ==
  ASSUME NetType, N!BoardStep
  PROVE  Count(events', "refused") = Count(events, "refused")
<1> USE DEF NetType
<1>1. Count(events, "refused") \in Nat
  BY CountNat
<1>2. CASE Reported
  <2>1. Len(queue) \in Nat
    OBVIOUS
  <2> DEFINE e == N!Status(Len(queue), rungNow)
  <2>3. e \in NetEvent /\ e.kind = "status"
    BY <2>1, StatusIsEvent
  <2>4. events' = Append(events, e)
    BY <1>2 DEF Reported
  <2> HIDE DEF e
  <2>2. Count(events', "refused") = Count(events, "refused") + 0
    BY <2>3, <2>4, CountAppend
  <2> QED
    BY <1>1, <2>2
<1>3. CASE Drained
  BY <1>3 DEF Drained
<1> QED
  BY <1>2, <1>3, NetBoardMoves

(* A frame that is handed over is on the board, or counted.                *)
LEMMA SentCount ==
  ASSUME NetType, NEW frame \in NetFrame, N!Transmit(frame)
  PROVE  Len(taken') + refused' + Count(events', "refused")
           = Len(taken) + refused + Count(events, "refused") + 1
<1> USE DEF NetType
<1>1. Count(events, "refused") \in Nat /\ Len(taken) \in Nat
  BY CountNat
<1>2. CASE Stalled
  BY <1>1, <1>2 DEF Stalled
<1>3. CASE Passed(frame)
  BY <1>1, <1>3 DEF Passed
<1>4. CASE Turned
  <2>1. N!RefusedLog.kind = "refused"
    BY DEF N!RefusedLog
  <2>2. Count(events', "refused") = Count(events, "refused") + 1
    BY <1>4, <2>1, CountAppend, RefusalIsEvent DEF Turned
  <2> QED
    BY <1>1, <1>4, <2>2 DEF Turned
<1> QED
  BY <1>2, <1>3, <1>4, Sent

LEMMA HoldCount ==
  ASSUME NetType, N!BridgeAssumption, NEW frame \in NetFrame, N!HoldFrame(frame)
  PROVE  Len(held') + refused' = Len(held) + refused + 1
<1> USE DEF NetType
<1> DEFINE e == N!Entry(frame)
<1>0. e \in NetEntry /\ HoldMax \in Nat /\ HoldMax # 0 /\ Len(held) \in Nat
  BY FrameEntry DEF N!BridgeAssumption
<1>1. CASE Len(held) >= HoldMax
  <2>1. held # <<>>
    BY <1>0, <1>1
  <2>2. held' = Append(Tail(held), e) /\ refused' = refused + 1
    BY <1>1 DEF N!HoldFrame
  <2>3. Tail(held) \in Seq(NetEntry) /\ Len(Tail(held)) = Len(held) - 1
    BY <2>1
  <2> HIDE DEF e
  <2> QED
    BY <1>0, <2>2, <2>3
<1>2. CASE ~(Len(held) >= HoldMax)
  <2>1. held' = Append(held, e) /\ refused' = refused
    BY <1>2 DEF N!HoldFrame
  <2> HIDE DEF e
  <2> QED
    BY <1>0, <2>1
<1> QED
  BY <1>1, <1>2

LEMMA KeptBridge ==
  ASSUME N!BridgeAssumption, NetType, NetType', Places, Kept,
         program = "bridge", UNCHANGED program, N!Next
  PROVE  Kept'
<1> DEFINE x == Count(events, "refused")
           y == Count(inbox, "refused")
<1>0. /\ Len(taken) \in Nat /\ Len(keep) \in Nat /\ Len(held) \in Nat
      /\ refused \in Nat /\ offered \in Nat /\ x \in Nat /\ y \in Nat
  BY CountNat DEF NetType
<1>a. /\ Len(taken') \in Nat /\ Len(keep') \in Nat /\ Len(held') \in Nat
      /\ refused' \in Nat /\ offered' \in Nat /\ x' \in Nat /\ y' \in Nat
  BY CountNat DEF NetType
<1>b. offered <= Len(taken) + Len(keep) + Len(held) + refused + x + y
  BY DEF Kept, Onward
<1>c. SUFFICES offered' <= Len(taken') + Len(keep') + Len(held') + refused' + x' + y'
  BY DEF Kept, Onward
<1> HIDE DEF x, y
<1>1. CASE N!Reads
  <2>1. PICK size \in {N!Short, N!Long} :
          N!FromHost([id |-> offered + 1, size |-> size])
    BY <1>1 DEF N!Reads
  <2> DEFINE frame == [id |-> offered + 1, size |-> size]
  <2>2. frame \in NetFrame /\ N!FromHost(frame)
    BY <1>0, <2>1 DEF NetFrame
  <2> HIDE DEF frame
  <2>3. y' = y /\ Len(keep') = Len(keep) /\ offered' = offered + 1
    BY <1>1 DEF N!Reads, y
  <2>4. CASE (N!BoardFull \/ ~N!FitsAir(frame.size)) /\ holding
    <3>1. N!HoldFrame(frame) /\ N!NoBoard
      BY <2>2, <2>4 DEF N!FromHost
    <3>2. Len(held') + refused' = Len(held) + refused + 1
      BY <2>2, <3>1, HoldCount
    <3>3. x' = x /\ Len(taken') = Len(taken)
      BY <3>1 DEF N!NoBoard, x
    <3> QED
      BY <1>0, <1>a, <1>b, <2>3, <3>2, <3>3
  <2>5. CASE ~((N!BoardFull \/ ~N!FitsAir(frame.size)) /\ holding) /\ N!FitsAir(frame.size)
    <3>1. N!Transmit(frame) /\ UNCHANGED held
      BY <2>2, <2>5 DEF N!FromHost
    <3>2. Len(taken') + refused' + x' = Len(taken) + refused + x + 1
      BY <2>2, <3>1, SentCount DEF x
    <3>3. Len(held') = Len(held)
      BY <3>1
    <3>4. Len(taken') + refused' + x' = Len(taken) + refused + x + 1
      BY <3>2
    <3>5. y' = y /\ Len(keep') = Len(keep) /\ offered' = offered + 1
      BY <2>3
    <3>6. offered + 1 <= (Len(taken) + refused + x + 1) + Len(keep) + Len(held) + y
      BY <1>0, <1>b
    <3>7. offered' <= (Len(taken') + refused' + x') + Len(keep') + Len(held') + y'
      BY <3>3, <3>4, <3>5, <3>6
    <3> QED
      BY <1>0, <1>a, <3>7
  <2>6. CASE ~((N!BoardFull \/ ~N!FitsAir(frame.size)) /\ holding) /\ ~N!FitsAir(frame.size)
    <3>1. refused' = refused + 1 /\ N!NoBoard /\ UNCHANGED held
      BY <2>2, <2>6 DEF N!FromHost
    <3>2. x' = x /\ Len(taken') = Len(taken)
      BY <3>1 DEF N!NoBoard, x
    <3> QED
      BY <1>0, <1>a, <1>b, <2>3, <3>1, <3>2
  <2> QED
    BY <2>4, <2>5, <2>6
<1>2. CASE N!Crashes
  BY <1>2, <1>b DEF N!Crashes, N!board, x, y
<1>3. CASE N!Pump
  <2>1. x' = 0
    BY <1>3, CountNone DEF N!Pump, x
  <2>2. y' = x /\ y = 0
    <3>1. inbox = <<>>
      BY <1>3 DEF N!Pump, Places
    <3> QED
      BY <1>3, <3>1, CountNone DEF N!Pump, x, y
  <2>3. UNCHANGED <<taken, keep, held, refused, offered>>
    BY <1>3 DEF N!Pump
  <2> QED
    BY <1>0, <1>b, <2>1, <2>2, <2>3
<1>4. CASE N!OnEvent
  <2>1. inbox # <<>> /\ inbox' = Tail(inbox) /\ UNCHANGED <<N!board, held, offered>>
        /\ pc = "pump"
    BY <1>4 DEF N!OnEvent
  <2>2. y = Count(Tail(inbox), "refused")
              + (IF Head(inbox).kind = "refused" THEN 1 ELSE 0)
    BY <2>1, CountTail DEF NetType, y
  <2>3. x' = x /\ Len(taken') = Len(taken) /\ y' = Count(Tail(inbox), "refused")
    BY <2>1 DEF N!board, x, y
  <2>4. keep = <<>>
    BY <2>1 DEF Places
  <2>5. keep' = <<>>
    BY <1>4, <2>4 DEF N!OnEvent, N!Flushing
  <2>6. Head(inbox).kind # "refused" \/ refused' = refused + 1
    BY <1>4 DEF N!OnEvent
  <2>7. refused' = refused \/ refused' = refused + 1
    BY <1>4 DEF N!OnEvent
  <2>8. Len(keep') = Len(keep) /\ Len(held') = Len(held) /\ offered' = offered
    BY <2>1, <2>4, <2>5
  <2>9. refused' + y' >= refused + y
    BY <1>0, <1>a, <2>2, <2>3, <2>6, <2>7
  <2> QED
    BY <1>0, <1>a, <1>b, <2>3, <2>8, <2>9
<1>5. CASE N!Pumped
  <2>1. keep = <<>> /\ keep' = <<>>
    BY <1>5 DEF N!Pumped, N!Flushing, Places
  <2>2. UNCHANGED <<N!board, held, inbox, refused, offered>>
    BY <1>5 DEF N!Pumped
  <2>3. x' = x /\ y' = y /\ Len(taken') = Len(taken)
    BY <2>2 DEF N!board, x, y
  <2> QED
    BY <1>b, <2>1, <2>2, <2>3
<1>6. CASE N!Release
  <2> DEFINE entry == Head(held)
  <2>1. entry \in NetEntry /\ Len(held') = Len(held) - 1
    BY <1>6 DEF N!Release, NetType
  <2>2. y' = y /\ offered' = offered
    BY <1>6 DEF N!Release, y
  <2>3. CASE N!FitsAir(entry.size) /\ ~N!BoardFull
    <3>1. N!Transmit(N!Frame(entry)) /\ UNCHANGED keep
      BY <1>6, <2>3 DEF N!Release
    <3>2. N!Frame(entry) \in NetFrame
      BY <2>1, FrameEntry
    <3>3. Len(taken') + refused' + x' = Len(taken) + refused + x + 1
      BY <3>1, <3>2, SentCount DEF x
    <3>4. Len(keep') = Len(keep)
      BY <3>1
    <3>5. y' = y /\ Len(held') = Len(held) - 1 /\ offered' = offered
      BY <2>1, <2>2
    <3>6. offered <= (Len(taken) + refused + x + 1) + Len(keep) + (Len(held) - 1) + y
      BY <1>0, <1>b
    <3>7. offered' <= (Len(taken') + refused' + x') + Len(keep') + Len(held') + y'
      BY <3>3, <3>4, <3>5, <3>6
    <3> QED
      BY <1>0, <1>a, <3>7
  <2>4. CASE ~(N!FitsAir(entry.size) /\ ~N!BoardFull)
    <3>1. N!NoBoard
      BY <1>6, <2>4 DEF N!Release
    <3>2. x' = x /\ Len(taken') = Len(taken)
      BY <3>1 DEF N!NoBoard, x
    <3>3. Len(keep') + refused' = Len(keep) + refused + 1
      <4>1. CASE entry.late
        <5>1. refused' = refused + 1 /\ keep' = keep
          BY <1>6, <2>4, <4>1 DEF N!Release
        <5> QED
          BY <1>0, <5>1
      <4>2. CASE ~entry.late
        <5>1. refused' = refused /\ keep' = Append(keep, entry)
          BY <1>6, <2>4, <4>2 DEF N!Release
        <5> HIDE DEF entry
        <5>2. Len(keep') = Len(keep) + 1
          BY <2>1, <5>1 DEF NetType
        <5> QED
          BY <1>0, <5>1, <5>2
      <4> QED
        BY <4>1, <4>2
    <3> QED
      BY <1>0, <1>a, <1>b, <2>1, <2>2, <3>2, <3>3
  <2> QED
    BY <2>3, <2>4
<1>7. CASE N!Flushed
  <2>0. N!WriteStalls \/ N!AcceptProbe \/ N!NoBoard
    BY <1>7 DEF N!Flushed
  <2>1. UNCHANGED <<queue, taken>> /\ Spoken
    BY <2>0, Probed
  <2>2. x' >= x
    BY <2>1, SpokenCount DEF NetType, x
  <2>3. /\ held = <<>> /\ held' = keep /\ keep' = <<>>
        /\ y' = y /\ refused' = refused /\ offered' = offered
    BY <1>7 DEF N!Flushed, y
  <2> QED
    BY <1>0, <1>a, <1>b, <2>1, <2>2, <2>3
<1>8. CASE N!Deadline
  <2>1. /\ UNCHANGED <<N!board, inbox, refused, offered>>
        /\ \/ N!OneLate(keep) /\ UNCHANGED held
           \/ N!OneLate(held) /\ UNCHANGED keep
    BY <1>8 DEF N!Deadline
  <2>2. Len(keep') = Len(keep) /\ Len(held') = Len(held)
    <3>1. N!OneLate(keep) => Len(keep') = Len(keep)
      BY Ages DEF N!OneLate, Aged, NetType
    <3>2. N!OneLate(held) => Len(held') = Len(held)
      BY Ages DEF N!OneLate, Aged, NetType
    <3> QED
      BY <2>1, <3>1, <3>2
  <2>3. x' = x /\ y' = y /\ Len(taken') = Len(taken)
    BY <2>1 DEF N!board, x, y
  <2> QED
    BY <1>b, <2>1, <2>2, <2>3
<1>9. CASE N!ProbeTimer
  BY <1>9, <1>b DEF N!ProbeTimer, N!board, x, y
<1>10. CASE N!BoardStep /\ UNCHANGED <<N!others, holding>>
  <2>1. x' = x /\ taken' = taken
    BY <1>10, BoardCount, NetBoardMoves DEF x, NetType
  <2>2. y' = y /\ UNCHANGED <<keep, held, refused, offered>>
    BY <1>10 DEF N!others, y
  <2> QED
    BY <1>b, <2>1, <2>2
<1> QED
  BY <1>1, <1>2, <1>3, <1>4, <1>5, <1>6, <1>7, <1>8, <1>9, <1>10
     DEF N!Next, N!Loop

-----------------------------------------------------------------------------
(* The gate of the tunnel: the queue is no more than one ahead of what is  *)
(* known of it, or will be known.                                          *)
Seen(s, n) ==
  \A i \in 1..Len(s) : s[i].kind = "status" => Len(queue) <= s[i].depth + n
TunnelGate ==
  program = "tunnel" =>
    /\ Len(queue) <= QueueHigh + 1
    /\ Len(queue) <= status.depth + inflight + 1
    /\ Seen(events, IF pc = "events" THEN 1 ELSE 0)
    /\ Seen(inbox, 1)

LEMMA SeenAppend ==
  ASSUME NEW s \in Seq(NetEvent), NEW e \in NetEvent, NEW q \in Nat, NEW n \in Nat,
         \A i \in 1..Len(s) : s[i].kind = "status" => q <= s[i].depth + n,
         e.kind = "status" => q <= e.depth + n
  PROVE  \A i \in 1..Len(Append(s, e)) :
           Append(s, e)[i].kind = "status" => q <= Append(s, e)[i].depth + n
<1> DEFINE r == Append(s, e)
<1>1. Len(r) = Len(s) + 1 /\ Len(s) \in Nat /\ r[Len(s) + 1] = e
      /\ \A i \in 1..Len(s) : r[i] = s[i]
  OBVIOUS
<1> HIDE DEF r
<1>2. \A i \in 1..Len(r) : i \in 1..Len(s) \/ i = Len(s) + 1
  BY <1>1
<1>3. \A i \in 1..Len(r) : r[i].kind = "status" => q <= r[i].depth + n
  BY <1>1, <1>2
<1> QED
  BY <1>3 DEF r

LEMMA TunnelGateKept ==
  ASSUME N!BridgeAssumption, NetType, NetType', Places, TunnelGate,
         program = "tunnel", UNCHANGED program,
         \/ N!TunLoop
         \/ N!ProbeTimer
         \/ N!BoardStep /\ UNCHANGED <<N!others, holding>>
  PROVE  TunnelGate'
<1> DEFINE q == Len(queue)
<1>e. status.depth \in Nat
  <2>1. CASE status = N!NoStatus
    BY <2>1 DEF N!NoStatus
  <2>2. CASE status \in NetEvent
    BY <2>2 DEF NetEvent
  <2> QED
    BY <2>1, <2>2 DEF NetType
<1>0. /\ q \in Nat /\ QueueHigh \in Nat /\ inflight \in Nat
      /\ status.depth \in Nat
      /\ events \in Seq(NetEvent) /\ inbox \in Seq(NetEvent)
  BY <1>e DEF NetType, N!BridgeAssumption
<1>00. \A i \in 1..Len(events) : events[i].depth \in Nat
  <2>1. \A i \in 1..Len(events) : events[i] \in NetEvent
    BY <1>0
  <2> QED
    BY <2>1 DEF NetEvent
<1>a. /\ q <= QueueHigh + 1 /\ q <= status.depth + inflight + 1
      /\ Seen(events, IF pc = "events" THEN 1 ELSE 0)
      /\ Seen(inbox, 1)
  BY DEF TunnelGate
<1>b. SUFFICES /\ q' <= QueueHigh + 1 /\ q' <= (status.depth)' + inflight' + 1
               /\ Seen(events, IF pc = "events" THEN 1 ELSE 0)'
               /\ Seen(inbox, 1)'
  BY DEF TunnelGate
<1>c. ASSUME q' <= q, events' = events \/ events' = Append(events, N!RefusedLog),
             UNCHANGED <<status, inflight, inbox, pc>>, q' \in Nat
      PROVE  /\ q' <= QueueHigh + 1 /\ q' <= (status.depth)' + inflight' + 1
             /\ Seen(events, IF pc = "events" THEN 1 ELSE 0)'
             /\ Seen(inbox, 1)'
  <2> DEFINE n == IF pc = "events" THEN 1 ELSE 0
  <2>1. n \in Nat /\ n' = n
    BY <1>c
  <2> HIDE DEF n
  <2>2. \A i \in 1..Len(events) : events[i].kind = "status" => q' <= events[i].depth + n
    BY <1>0, <1>00, <1>a, <1>c, <2>1 DEF Seen, n
  <2>3. Seen(events, n)'
    <3>1. CASE events' = events
      BY <2>1, <2>2, <3>1 DEF Seen
    <3>2. CASE events' = Append(events, N!RefusedLog)
      <4>1. N!RefusedLog.kind # "status"
        BY DEF N!RefusedLog
      <4> QED
        BY <1>0, <1>c, <2>1, <2>2, <3>2, <4>1, SeenAppend, RefusalIsEvent
           DEF Seen
    <3> QED
      BY <1>c, <3>1, <3>2
  <2>4. Seen(inbox, 1)'
    <3>1. \A i \in 1..Len(inbox) : inbox[i].depth \in Nat
      <4>1. \A i \in 1..Len(inbox) : inbox[i] \in NetEvent
        BY <1>0
      <4> QED
        BY <4>1 DEF NetEvent
    <3> QED
      BY <1>0, <1>a, <1>c, <3>1 DEF Seen
  <2> QED
    BY <1>0, <1>a, <1>c, <2>3, <2>4 DEF n
<1>d. q' \in Nat
  BY DEF NetType
<1> HIDE DEF q
<1>1. CASE N!TunReads
  <2>1. pc' = "events" /\ pc = "host" /\ UNCHANGED <<status, inbox>>
    BY <1>1 DEF N!TunReads
  <2>2. CASE UNCHANGED <<queue, inflight>> /\ (events' = events)
    <3>1. Seen(events, 1)'
      BY <1>0, <1>00, <1>a, <2>1, <2>2 DEF Seen, q
    <3> QED
      BY <1>0, <1>a, <2>1, <2>2, <3>1 DEF Seen, q
  <2>3. CASE N!ReadsPacket
    <3>1. PICK size \in {N!Short, N!Long} :
            N!OnPacket([id |-> offered + 1, size |-> size])
      BY <2>3 DEF N!ReadsPacket
    <3> DEFINE frame == [id |-> offered + 1, size |-> size]
    <3>2. N!OnPacket(frame)
      BY <3>1
    <3> HIDE DEF frame
    <3>3. CASE N!BoardFull \/ ~N!FitsAir(frame.size)
      <4>1. N!NoBoard /\ UNCHANGED inflight
        BY <3>2, <3>3 DEF N!OnPacket
      <4> QED
        BY <2>2, <4>1 DEF N!NoBoard
    <3>4. CASE ~(N!BoardFull \/ ~N!FitsAir(frame.size))
      <4>1. N!Transmit(frame)
        BY <3>2, <3>4 DEF N!OnPacket
      <4>2. status.depth + inflight < QueueHigh
        BY <1>0, <3>4 DEF N!BoardFull
      <4>3. CASE Stalled
        BY <2>2, <4>3 DEF Stalled
      <4>4. CASE Passed(frame)
        <5>1. q' = q + 1 /\ inflight' = inflight + 1 /\ events' = events
          BY <1>0, <4>4 DEF Passed, NetType, q
        <5>2. Seen(events, 1)'
          BY <1>0, <1>00, <1>a, <2>1, <5>1 DEF Seen, q
        <5>3. q' <= QueueHigh + 1 /\ q' <= status.depth + inflight' + 1
          BY <1>0, <1>a, <4>2, <5>1
        <5>4. Seen(inbox, 1)'
          <6>1. inbox = <<>> /\ inbox' = <<>>
            BY <2>1 DEF Places
          <6>2. \A i \in 1..Len(<<>>) : FALSE
            OBVIOUS
          <6> QED
            BY <6>1, <6>2 DEF Seen
        <5> QED
          BY <2>1, <5>2, <5>3, <5>4
      <4>5. CASE Turned
        <5>1. q' = q /\ inflight' = inflight + 1 /\ events' = Append(events, N!RefusedLog)
          BY <4>5 DEF Turned, q
        <5>2. \A i \in 1..Len(events) : events[i].kind = "status" => q <= events[i].depth + 1
          BY <1>0, <1>00, <1>a, <2>1 DEF Seen, q
        <5>3. N!RefusedLog.kind # "status"
          BY DEF N!RefusedLog
        <5>4. Seen(events, 1)'
          BY <1>0, <5>1, <5>2, <5>3, SeenAppend, RefusalIsEvent DEF Seen, q
        <5>5. q' <= QueueHigh + 1 /\ q' <= status.depth + inflight' + 1
          BY <1>0, <1>a, <5>1
        <5>6. Seen(inbox, 1)'
          BY <1>a, <2>1, <5>1 DEF Seen, q
        <5> QED
          BY <2>1, <5>4, <5>5, <5>6
      <4> QED
        BY <4>1, <4>3, <4>4, <4>5, Sent
    <3> QED
      BY <3>3, <3>4
  <2>4. CASE N!ReadsNothing
    BY <2>2, <2>4 DEF N!ReadsNothing, N!NoBoard
  <2> QED
    BY <1>1, <2>3, <2>4 DEF N!TunReads
<1>2. CASE N!TunPolls
  <2>1. /\ inbox' = events /\ events' = <<>> /\ pc = "events"
        /\ UNCHANGED <<queue, status, inflight>> /\ pc' # "events"
    BY <1>2 DEF N!TunPolls
  <2>2. Seen(inbox, 1)'
    BY <1>a, <2>1 DEF Seen, q
  <2>3. \A i \in 1..Len(<<>>) : FALSE
    OBVIOUS
  <2>4. Seen(events, 0)'
    BY <2>1, <2>3 DEF Seen
  <2> QED
    BY <1>a, <2>1, <2>2, <2>4 DEF q
<1>3. CASE N!TunHandles
  <2>1. /\ inbox # <<>> /\ inbox' = Tail(inbox) /\ pc # "events" /\ pc' # "events"
        /\ UNCHANGED N!board
    BY <1>3 DEF N!TunHandles, Places
  <2>2. UNCHANGED <<queue, events>>
    BY <2>1 DEF N!board
  <2>3. /\ Len(inbox) \in Nat /\ Len(Tail(inbox)) = Len(inbox) - 1
        /\ \A i \in 1..Len(Tail(inbox)) : i + 1 \in 1..Len(inbox) /\ Tail(inbox)[i] = inbox[i + 1]
        /\ 1 \in 1..Len(inbox) /\ Head(inbox) = inbox[1] /\ inbox[1] \in NetEvent
    BY <1>0, <2>1
  <2>4. Seen(inbox, 1)'
    BY <1>a, <2>1, <2>2, <2>3 DEF Seen, q
  <2>5. q' <= (status.depth)' + inflight' + 1
    <3>1. CASE Head(inbox).kind = "status"
      <4>1. status' = Head(inbox) /\ inflight' = 0
        BY <1>3, <3>1 DEF N!TunHandles, N!OnStatus
      <4>2. q <= Head(inbox).depth + 1
        BY <1>a, <2>3, <3>1 DEF Seen, q
      <4>3. Head(inbox).depth \in Nat
        BY <2>3 DEF NetEvent
      <4> QED
        BY <1>0, <2>2, <4>1, <4>2, <4>3 DEF q
    <3>2. CASE Head(inbox).kind # "status"
      BY <1>3, <1>a, <2>2, <3>2 DEF N!TunHandles, q
    <3> QED
      BY <3>1, <3>2
  <2> QED
    BY <1>a, <2>1, <2>2, <2>4, <2>5 DEF Seen, q
<1>4. CASE N!TunProbes
  <2>0. N!WriteStalls \/ N!AcceptProbe \/ N!NoBoard
    BY <1>4 DEF N!TunProbes
  <2>1. UNCHANGED <<queue, taken>> /\ Spoken
    BY <2>0, Probed
  <2>2. UNCHANGED <<status, inflight, inbox>> /\ pc # "events" /\ pc' # "events"
    BY <1>4 DEF N!TunProbes
  <2>3. \A i \in 1..Len(events) : events[i].kind = "status" => q <= events[i].depth + 0
    BY <1>a, <2>2 DEF Seen, q
  <2>4. N!RefusedLog.kind # "status"
    BY DEF N!RefusedLog
  <2>5. Seen(events, 0)'
    <3>1. CASE events' = events
      BY <2>1, <2>3, <3>1 DEF Seen, q
    <3>2. CASE events' = Append(events, N!RefusedLog)
      BY <1>0, <2>1, <2>3, <2>4, <3>2, SeenAppend, RefusalIsEvent DEF Seen, q
    <3> QED
      BY <2>1, <3>1, <3>2 DEF Spoken
  <2> QED
    BY <1>a, <2>1, <2>2, <2>5 DEF Seen, q
<1>5. CASE N!TunSetsDepth
  BY <1>5, <1>a DEF N!TunSetsDepth, N!board, Seen, q
<1>6. CASE N!ProbeTimer
  BY <1>6, <1>a DEF N!ProbeTimer, N!board, Seen, q
<1>7. CASE N!BoardStep /\ UNCHANGED <<N!others, holding>>
  <2>1. UNCHANGED <<status, inflight, inbox, pc>>
    BY <1>7 DEF N!others
  <2>2. CASE Drained
    <3>1. q' <= q
      BY <2>2 DEF Drained, NetType, q
    <3> QED
      BY <1>c, <1>d, <2>1, <2>2, <3>1 DEF Drained
  <2>3. CASE Reported
    <3> DEFINE e == N!Status(q, rungNow)
    <3>1. e \in NetEvent /\ e.depth = q
      BY <1>0, StatusIsEvent DEF NetType
    <3>2. events' = Append(events, e) /\ queue' = queue
      BY <2>3 DEF Reported, q
    <3> HIDE DEF e
    <3> DEFINE n == IF pc = "events" THEN 1 ELSE 0
    <3>3. n \in Nat /\ n' = n
      BY <2>1
    <3> HIDE DEF n
    <3>4. \A i \in 1..Len(events) : events[i].kind = "status" => q <= events[i].depth + n
      BY <1>a DEF Seen, q, n
    <3>5. Seen(events, n)'
      BY <1>0, <3>1, <3>2, <3>3, <3>4, SeenAppend DEF Seen, q
    <3>6. Seen(inbox, 1)'
      BY <1>a, <2>1, <3>2 DEF Seen
    <3> QED
      BY <1>a, <2>1, <3>2, <3>5, <3>6 DEF q, n
  <2>4. CASE UNCHANGED <<queue, events>>
    BY <1>a, <2>1, <2>4 DEF Seen, q
  <2> QED
    BY <1>7, <2>2, <2>3, <2>4, NetBoardMoves DEF NetType
<1> QED
  BY <1>1, <1>2, <1>3, <1>4, <1>5, <1>6, <1>7 DEF N!TunLoop

LEMMA KeptTunnel ==
  ASSUME N!BoardAssumption, N!BridgeAssumption, NetType, TunnelGate, Kept,
         program = "tunnel", UNCHANGED program,
         \/ N!TunLoop
         \/ N!ProbeTimer
         \/ N!BoardStep /\ UNCHANGED <<N!others, holding>>
  PROVE  Kept'
<1> SUFFICES ASSUME TunnelRoom PROVE offered' <= Len(taken') + refused'
  BY DEF Kept, TunnelRoom
<1>0. /\ Len(taken) \in Nat /\ refused \in Nat /\ offered \in Nat
      /\ Len(queue) \in Nat /\ inflight \in Nat /\ QueueHigh \in Nat
  BY DEF NetType, N!BridgeAssumption
<1>a. offered <= Len(taken) + refused
  BY DEF Kept
<1>b. status.depth \in Nat
  <2>1. CASE status = N!NoStatus
    BY <2>1 DEF N!NoStatus
  <2>2. CASE status \in NetEvent
    BY <2>2 DEF NetEvent
  <2> QED
    BY <2>1, <2>2 DEF NetType
<1>1. CASE N!TunReads
  <2>1. CASE N!ReadsPacket
    <3>1. PICK size \in {N!Short, N!Long} :
            N!OnPacket([id |-> offered + 1, size |-> size])
      BY <2>1 DEF N!ReadsPacket
    <3> DEFINE frame == [id |-> offered + 1, size |-> size]
    <3>2. N!OnPacket(frame) /\ frame \in NetFrame
      BY <1>0, <3>1 DEF NetFrame
    <3> HIDE DEF frame
    <3>3. ~N!BoardFull /\ offered' = offered + 1
      BY <2>1 DEF N!ReadsPacket, N!WantsRead
    <3>4. CASE ~N!FitsAir(frame.size)
      BY <1>0, <1>a, <3>2, <3>3, <3>4 DEF N!OnPacket, N!NoBoard
    <3>5. CASE N!FitsAir(frame.size)
      <4>1. N!Transmit(frame)
        BY <3>2, <3>3, <3>5 DEF N!OnPacket
      <4>2. ~Turned
        <5>1. Len(queue) <= status.depth + inflight + 1
          BY DEF TunnelGate
        <5>2. status.depth + inflight < QueueHigh
          BY <1>0, <1>b, <3>3 DEF N!BoardFull
        <5>3. Len(queue) <= QueueHigh
          BY <1>0, <1>b, <5>1, <5>2
        <5> QED
          BY <1>0, <5>3 DEF Turned, TunnelRoom, N!BoardAssumption
      <4>3. CASE Stalled
        BY <1>0, <1>a, <3>3, <4>3 DEF Stalled
      <4>4. CASE Passed(frame)
        <5>1. Len(taken') = Len(taken) + 1 /\ refused' = refused
          BY <3>2, <4>4 DEF Passed, NetType
        <5> QED
          BY <1>0, <1>a, <3>3, <5>1
      <4> QED
        BY <4>1, <4>2, <4>3, <4>4, Sent
    <3> QED
      BY <3>4, <3>5
  <2>2. CASE N!ReadsNothing
    BY <1>a, <2>2 DEF N!ReadsNothing, N!NoBoard
  <2> QED
    BY <1>1, <2>1, <2>2 DEF N!TunReads
<1>2. CASE N!TunPolls
  BY <1>2, <1>a DEF N!TunPolls
<1>3. CASE N!TunHandles
  BY <1>3, <1>a DEF N!TunHandles, N!board
<1>4. CASE N!TunProbes
  <2>1. UNCHANGED taken
    BY <1>4, Probed DEF N!TunProbes
  <2> QED
    BY <1>4, <1>a, <2>1 DEF N!TunProbes
<1>5. CASE N!TunSetsDepth
  BY <1>5, <1>a DEF N!TunSetsDepth, N!board
<1>6. CASE N!ProbeTimer
  BY <1>6, <1>a DEF N!ProbeTimer, N!board
<1>7. CASE N!BoardStep /\ UNCHANGED <<N!others, holding>>
  BY <1>7, <1>a, NetBoardMoves DEF N!others, NetType
<1> QED
  BY <1>1, <1>2, <1>3, <1>4, <1>5, <1>6, <1>7 DEF N!TunLoop

-----------------------------------------------------------------------------
(* The order of the frames.  The stack numbers them as it writes; what a   *)
(* flush keeps is before what is still held, and of one size neither is    *)
(* before what the board has.  That holds because nothing held would fit   *)
(* when a frame that fits is read, and nothing kept when one is released.  *)
Known(s) == \A i \in 1..Len(s) : s[i].id <= offered
Rising(s) == \A i, j \in 1..Len(s) : i < j => s[i].id < s[j].id
AllBefore(s, w) ==
  \A i \in 1..Len(s), j \in 1..Len(w) : s[i].id < w[j].id
Before(s, w) ==
  \A i \in 1..Len(s), j \in 1..Len(w) :
    s[i].size = w[j].size => s[i].id < w[j].id
InOrder(s) ==
  \A i, j \in 1..Len(s) :
    i < j /\ s[i].size = s[j].size => s[i].id < s[j].id
Stopped(w) == \A i \in 1..Len(w) : N!BoardFull \/ ~N!FitsAir(w[i].size)
Lines ==
  /\ Known(taken) /\ Known(keep) /\ Known(held)
  /\ InOrder(taken) /\ Rising(keep) /\ Rising(held) /\ AllBefore(keep, held)
  /\ Before(taken, keep) /\ Before(taken, held)
  /\ pc = "flush" => Stopped(keep)
  /\ pc = "host" => Stopped(held)

LEMMA AppendAt ==
  ASSUME NEW G, NEW s \in Seq(G), NEW e \in G
  PROVE  \A i \in 1..Len(Append(s, e)) :
           \/ i \in 1..Len(s) /\ Append(s, e)[i] = s[i]
           \/ i = Len(s) + 1 /\ Append(s, e)[i] = e
<1> DEFINE r == Append(s, e)
<1>1. Len(r) = Len(s) + 1 /\ Len(s) \in Nat /\ r[Len(s) + 1] = e
      /\ \A i \in 1..Len(s) : r[i] = s[i]
  OBVIOUS
<1> HIDE DEF r
<1>2. \A i \in 1..Len(r) : i \in 1..Len(s) \/ i = Len(s) + 1
  BY <1>1
<1>3. \A i \in 1..Len(r) :
        \/ i \in 1..Len(s) /\ r[i] = s[i]
        \/ i = Len(s) + 1 /\ r[i] = e
  BY <1>1, <1>2
<1> QED
  BY <1>3 DEF r

LEMMA TailAt ==
  ASSUME NEW G, NEW s \in Seq(G), s # <<>>
  PROVE  \A i \in 1..Len(Tail(s)) : i + 1 \in 1..Len(s) /\ Tail(s)[i] = s[i + 1]
  OBVIOUS

(* A new frame joins a line at its end, or the board.                      *)
LEMMA JoinsLine ==
  ASSUME NEW G, NEW s \in Seq(G), NEW e \in G
  PROVE  /\ Rising(s) /\ AllBefore(s, <<e>>) => Rising(Append(s, e))
         /\ Known(s) /\ e.id <= offered => Known(Append(s, e))
         /\ InOrder(s) /\ Before(s, <<e>>) => InOrder(Append(s, e))
         /\ Stopped(s) /\ (N!BoardFull \/ ~N!FitsAir(e.size)) => Stopped(Append(s, e))
<1> DEFINE r == Append(s, e)
<1>1. \A i \in 1..Len(r) :
        \/ i \in 1..Len(s) /\ r[i] = s[i]
        \/ i = Len(s) + 1 /\ r[i] = e
  BY AppendAt
<1>2. Len(s) \in Nat /\ Len(r) = Len(s) + 1 /\ Len(<<e>>) = 1 /\ <<e>>[1] = e
      /\ 1 \in 1..1
  OBVIOUS
<1> HIDE DEF r
<1>3. Rising(s) /\ AllBefore(s, <<e>>) => Rising(r)
  <2> SUFFICES ASSUME Rising(s), AllBefore(s, <<e>>),
                      NEW i \in 1..Len(r), NEW j \in 1..Len(r), i < j
               PROVE  r[i].id < r[j].id
    BY DEF Rising
  <2>1. i \in 1..Len(s) /\ r[i] = s[i]
    BY <1>1, <1>2
  <2> QED
    BY <1>1, <1>2, <2>1 DEF Rising, AllBefore
<1>4. InOrder(s) /\ Before(s, <<e>>) => InOrder(r)
  <2> SUFFICES ASSUME InOrder(s), Before(s, <<e>>),
                      NEW i \in 1..Len(r), NEW j \in 1..Len(r), i < j,
                      r[i].size = r[j].size
               PROVE  r[i].id < r[j].id
    BY DEF InOrder
  <2>1. i \in 1..Len(s) /\ r[i] = s[i]
    BY <1>1, <1>2
  <2> QED
    BY <1>1, <1>2, <2>1 DEF InOrder, Before
<1>5. Known(s) /\ e.id <= offered => Known(r)
  BY <1>1 DEF Known
<1>6. Stopped(s) /\ (N!BoardFull \/ ~N!FitsAir(e.size)) => Stopped(r)
  BY <1>1 DEF Stopped
<1> QED
  BY <1>3, <1>4, <1>5, <1>6 DEF r

LEMMA JoinsBefore ==
  ASSUME NEW G, NEW s \in Seq(G), NEW e \in G, NEW T, NEW w \in Seq(T)
  PROVE  /\ Before(s, w) /\ Before(<<e>>, w) => Before(Append(s, e), w)
         /\ Before(w, s) /\ Before(w, <<e>>) => Before(w, Append(s, e))
         /\ AllBefore(s, w) /\ AllBefore(<<e>>, w) => AllBefore(Append(s, e), w)
         /\ AllBefore(w, s) /\ AllBefore(w, <<e>>) => AllBefore(w, Append(s, e))
<1> DEFINE r == Append(s, e)
<1>1. \A i \in 1..Len(r) :
        \/ i \in 1..Len(s) /\ r[i] = s[i]
        \/ i = Len(s) + 1 /\ r[i] = e
  BY AppendAt
<1>2. Len(<<e>>) = 1 /\ <<e>>[1] = e /\ 1 \in 1..1
  OBVIOUS
<1> HIDE DEF r
<1>3. Before(s, w) /\ Before(<<e>>, w) => Before(r, w)
  BY <1>1, <1>2 DEF Before
<1>4. Before(w, s) /\ Before(w, <<e>>) => Before(w, r)
  BY <1>1, <1>2 DEF Before
<1>5. AllBefore(s, w) /\ AllBefore(<<e>>, w) => AllBefore(r, w)
  BY <1>1, <1>2 DEF AllBefore
<1>6. AllBefore(w, s) /\ AllBefore(w, <<e>>) => AllBefore(w, r)
  BY <1>1, <1>2 DEF AllBefore
<1> QED
  BY <1>3, <1>4, <1>5, <1>6 DEF r

(* The first of a line leaves it.                                          *)
LEMMA LeavesLine ==
  ASSUME NEW G, NEW s \in Seq(G), s # <<>>, NEW T, NEW w \in Seq(T)
  PROVE  /\ Known(s) => Known(Tail(s)) /\ Head(s).id <= offered
         /\ Rising(s) => Rising(Tail(s)) /\ AllBefore(<<Head(s)>>, Tail(s))
         /\ Before(w, s) => Before(w, Tail(s)) /\ Before(w, <<Head(s)>>)
         /\ AllBefore(w, s) => AllBefore(w, Tail(s)) /\ AllBefore(w, <<Head(s)>>)
         /\ Stopped(s) => Stopped(Tail(s))
<1> DEFINE r == Tail(s)
           h == Head(s)
<1>1. \A i \in 1..Len(r) : i + 1 \in 1..Len(s) /\ r[i] = s[i + 1]
  BY TailAt
<1>2. 1 \in 1..Len(s) /\ h = s[1] /\ Len(<<h>>) = 1 /\ <<h>>[1] = h
      /\ Len(r) \in Nat
  OBVIOUS
<1> HIDE DEF r, h
<1>3. Known(s) => Known(r) /\ h.id <= offered
  BY <1>1, <1>2 DEF Known
<1>4. Rising(s) => Rising(r) /\ AllBefore(<<h>>, r)
  <2> SUFFICES ASSUME Rising(s) PROVE Rising(r) /\ AllBefore(<<h>>, r)
    OBVIOUS
  <2>1. Rising(r)
    BY <1>1 DEF Rising
  <2>2. \A j \in 1..Len(r) : h.id < r[j].id
    <3> SUFFICES ASSUME NEW j \in 1..Len(r) PROVE h.id < r[j].id
      OBVIOUS
    <3>1. j + 1 \in 1..Len(s) /\ 1 < j + 1 /\ r[j] = s[j + 1]
      BY <1>1
    <3>2. s[1].id < s[j + 1].id
      <4>1. 1 \in 1..Len(s)
        BY <1>2
      <4> QED
        BY <3>1, <4>1 DEF Rising
    <3> QED
      BY <1>2, <3>1, <3>2
  <2> QED
    BY <1>2, <2>1, <2>2 DEF AllBefore
<1>5. Before(w, s) => Before(w, r) /\ Before(w, <<h>>)
  BY <1>1, <1>2 DEF Before
<1>6. AllBefore(w, s) => AllBefore(w, r) /\ AllBefore(w, <<h>>)
  BY <1>1, <1>2 DEF AllBefore
<1>7. Stopped(s) => Stopped(r)
  BY <1>1 DEF Stopped
<1> QED
  BY <1>3, <1>4, <1>5, <1>6, <1>7 DEF r, h

LEMMA ApartBefore ==
  ASSUME NEW s, NEW w, AllBefore(s, w)
  PROVE  Before(s, w)
  BY DEF AllBefore, Before

LEMMA NoLine ==
  ASSUME NEW s
  PROVE  /\ Known(<<>>) /\ Rising(<<>>) /\ Stopped(<<>>)
         /\ AllBefore(<<>>, s) /\ Before(s, <<>>)
<1>1. \A i \in 1..Len(<<>>) : FALSE
  OBVIOUS
<1> QED
  BY <1>1 DEF Known, Rising, Stopped, AllBefore, Before

(* A deadline changes no line.                                             *)
LEMMA AgedLine ==
  ASSUME NEW s \in Seq(NetEntry), NEW t, Aged(s, t), NEW w
  PROVE  /\ Known(s) => Known(t)
         /\ Rising(s) => Rising(t)
         /\ AllBefore(s, w) => AllBefore(t, w)
         /\ AllBefore(w, s) => AllBefore(w, t)
         /\ Before(w, s) => Before(w, t)
         /\ Stopped(s) => Stopped(t)
<1>1. /\ Len(t) = Len(s)
      /\ \A i \in 1..Len(s) : t[i].id = s[i].id /\ t[i].size = s[i].size
  BY DEF Aged
<1>2. Known(s) => Known(t)
  BY <1>1 DEF Known
<1>3. Rising(s) => Rising(t)
  BY <1>1 DEF Rising
<1>4. AllBefore(s, w) => AllBefore(t, w)
  BY <1>1 DEF AllBefore
<1>5. AllBefore(w, s) => AllBefore(w, t)
  BY <1>1 DEF AllBefore
<1>6. Before(w, s) => Before(w, t)
  BY <1>1 DEF Before
<1>7. Stopped(s) => Stopped(t)
  BY <1>1 DEF Stopped
<1> QED
  BY <1>2, <1>3, <1>4, <1>5, <1>6, <1>7

(* Nothing but the count of what was read, the gate and the rung matters.  *)
SameGate == UNCHANGED <<status, inflight>>
LEMMA LineStays ==
  ASSUME offered \in Nat, offered' = offered, NEW s
  PROVE  Known(s) => Known(s)'
  BY DEF Known

(* A frame that fits and is handed over passes no frame that waits.        *)
LEMMA SentLines ==
  ASSUME N!BridgeAssumption, NetType, NetType', NEW frame \in NetFrame,
         N!Transmit(frame), NEW w \in Seq(NetEntry),
         Known(taken), InOrder(taken), Before(taken, <<frame>>),
         Before(taken, w), Before(<<frame>>, w), frame.id <= offered'
  PROVE  /\ offered' >= offered => \A i \in 1..Len(taken') : taken'[i].id <= offered'
         /\ InOrder(taken') /\ Before(taken', w)
<1> USE DEF NetType
<1>0. /\ \A i \in 1..Len(taken) : taken[i].id <= offered
      /\ \A i \in 1..Len(taken) : taken[i].id \in Nat
      /\ offered \in Nat /\ offered' \in Nat
  <2>1. \A i \in 1..Len(taken) : taken[i] \in NetFrame
    OBVIOUS
  <2> QED
    BY <2>1 DEF Known, NetFrame
<1>1. CASE taken' = taken
  <2>1. offered' >= offered => \A i \in 1..Len(taken) : taken[i].id <= offered'
    BY <1>0
  <2> QED
    BY <1>1, <2>1
<1>2. CASE taken' = Append(taken, frame)
  <2>1. \A i \in 1..Len(taken') :
          \/ i \in 1..Len(taken) /\ taken'[i] = taken[i]
          \/ i = Len(taken) + 1 /\ taken'[i] = frame
    BY <1>2, AppendAt
  <2>2. ASSUME offered' >= offered, NEW i \in 1..Len(taken')
        PROVE  taken'[i].id <= offered'
    <3>1. CASE i \in 1..Len(taken) /\ taken'[i] = taken[i]
      <4> HIDE DEF NetType
      <4>1. taken[i].id \in Nat /\ taken[i].id <= offered
        BY <1>0, <3>1
      <4> QED
        BY <1>0, <2>2, <3>1, <4>1
    <3>2. CASE taken'[i] = frame
      BY <3>2
    <3> QED
      BY <2>1, <3>1, <3>2
  <2>3. InOrder(taken') /\ Before(taken', w)
    BY <1>2, JoinsLine, JoinsBefore
  <2> QED
    BY <2>2, <2>3
<1> QED
  BY <1>1, <1>2, Sent DEF Stalled, Passed, Turned

LEMMA SentGate ==
  ASSUME N!BridgeAssumption, NetType, NEW frame, N!Transmit(frame),
         status' = status
  PROVE  /\ N!BoardFull => N!BoardFull'
         /\ \A size \in {N!Short, N!Long} : N!FitsAir(size)' <=> N!FitsAir(size)
<1>1. status.depth \in Nat /\ inflight \in Nat
  <2>1. CASE status = N!NoStatus
    BY <2>1 DEF N!NoStatus, NetType
  <2>2. CASE status \in NetEvent
    BY <2>2 DEF NetEvent, NetType
  <2> QED
    BY <2>1, <2>2 DEF NetType
<1>2. inflight' = inflight \/ inflight' = inflight + 1
  BY Sent DEF Stalled, Passed, Turned
<1>3. N!BoardFull => N!BoardFull'
  BY <1>1, <1>2 DEF N!BoardFull, N!BridgeAssumption
<1> QED
  BY <1>3 DEF N!FitsAir

LEMMA LinesBridge ==
  ASSUME N!BridgeAssumption, NetType, NetType', Places, Lines,
         program = "bridge", UNCHANGED program, N!Next
  PROVE  Lines'
<1>0. /\ offered \in Nat /\ taken \in Seq(NetFrame)
      /\ keep \in Seq(NetEntry) /\ held \in Seq(NetEntry)
      /\ inbox \in Seq(NetEvent)
  BY DEF NetType
<1>a. /\ Known(taken) /\ Known(keep) /\ Known(held)
      /\ InOrder(taken) /\ Rising(keep) /\ Rising(held) /\ AllBefore(keep, held)
      /\ Before(taken, keep) /\ Before(taken, held)
  BY DEF Lines
<1>b. /\ pc = "flush" => Stopped(keep)
      /\ pc = "host" => Stopped(held)
  BY DEF Lines
<1>c. ASSUME UNCHANGED <<taken, keep, held, offered>>,
             pc' = "flush" => Stopped(keep)',
             pc' = "host" => Stopped(held)'
      PROVE  Lines'
  BY <1>a, <1>c DEF Lines, Known
<1>1. CASE N!Reads
  <2>1. PICK size \in {N!Short, N!Long} :
          N!FromHost([id |-> offered + 1, size |-> size])
    BY <1>1 DEF N!Reads
  <2> DEFINE frame == [id |-> offered + 1, size |-> size]
  <2>2. /\ frame \in NetFrame /\ N!FromHost(frame) /\ frame.id = offered + 1
        /\ frame.size \in {N!Short, N!Long}
    BY <1>0, <2>1 DEF NetFrame
  <2> HIDE DEF frame
  <2>3. /\ pc = "host" /\ pc' = "host" /\ keep = <<>> /\ keep' = <<>>
        /\ offered' = offered + 1 /\ UNCHANGED <<status, holding>>
    BY <1>1 DEF N!Reads, Places
  <2>4. AllBefore(held, <<frame>>) /\ Before(taken, <<frame>>)
    <3>1. \A i \in 1..Len(held) : held[i].id < frame.id
      <4>1. \A i \in 1..Len(held) : held[i] \in NetEntry
        BY <1>0
      <4>2. \A i \in 1..Len(held) : held[i].id \in Nat /\ held[i].id <= offered
        BY <1>a, <4>1 DEF Known, NetEntry
      <4> QED
        BY <1>0, <2>2, <4>2
    <3>2. \A i \in 1..Len(taken) : taken[i].id < frame.id
      <4>1. \A i \in 1..Len(taken) : taken[i] \in NetFrame
        BY <1>0
      <4>2. \A i \in 1..Len(taken) : taken[i].id \in Nat /\ taken[i].id <= offered
        BY <1>a, <4>1 DEF Known, NetFrame
      <4> QED
        BY <1>0, <2>2, <4>2
    <3>3. Len(<<frame>>) = 1 /\ <<frame>>[1] = frame /\ \A j \in 1..1 : j = 1
      OBVIOUS
    <3> QED
      BY <3>1, <3>2, <3>3 DEF AllBefore, Before
  <2>5. /\ Known(<<>>)' /\ Rising(<<>>) /\ \A s : AllBefore(<<>>, s) /\ Before(s, <<>>)
    <3>1. \A i \in 1..Len(<<>>) : FALSE
      OBVIOUS
    <3> QED
      BY <3>1, NoLine DEF Known
  <2>6. \A s \in Seq(NetEntry) :
          Known(s) => \A i \in 1..Len(s) : s[i].id <= offered'
    <3> SUFFICES ASSUME NEW s \in Seq(NetEntry), Known(s), NEW i \in 1..Len(s)
                 PROVE  s[i].id <= offered'
      OBVIOUS
    <3>1. s[i] \in NetEntry
      OBVIOUS
    <3>2. s[i].id \in Nat /\ s[i].id <= offered
      BY <3>1 DEF NetEntry, Known
    <3> QED
      BY <1>0, <2>3, <3>2
  <2>7. SUFFICES /\ Known(taken)' /\ Known(held)' /\ InOrder(taken')
                 /\ Rising(held') /\ Before(taken', held') /\ Stopped(held)'
    BY <2>3, <2>5, Zenon DEF Lines, Known, Rising, AllBefore, Before, InOrder
  <2>8. CASE (N!BoardFull \/ ~N!FitsAir(frame.size)) /\ holding
    <3>1. N!HoldFrame(frame) /\ taken' = taken /\ inflight' = inflight
      BY <2>2, <2>8 DEF N!FromHost, N!NoBoard
    <3> DEFINE e == N!Entry(frame)
               s == IF Len(held) >= HoldMax THEN Tail(held) ELSE held
    <3>2. e \in NetEntry /\ e.id = frame.id /\ e.size = frame.size
      BY <2>2, FrameEntry
    <3>3. held' = Append(s, e)
      BY <3>1 DEF N!HoldFrame
    <3>4. /\ s \in Seq(NetEntry) /\ Known(s) /\ Rising(s) /\ Stopped(s)
          /\ Before(taken, s) /\ AllBefore(s, <<frame>>)
      <4>1. CASE Len(held) >= HoldMax
        <5>1. held # <<>> /\ Tail(held) \in Seq(NetEntry)
          BY <1>0, <4>1 DEF N!BridgeAssumption
        <5>2. /\ Known(Tail(held)) /\ Rising(Tail(held)) /\ Stopped(Tail(held))
              /\ Before(taken, Tail(held))
          BY <1>0, <1>a, <1>b, <2>3, <5>1, LeavesLine
        <5>3. AllBefore(Tail(held), <<frame>>)
          <6>1. \A i \in 1..Len(Tail(held)) :
                  i + 1 \in 1..Len(held) /\ Tail(held)[i] = held[i + 1]
            BY <1>0, <5>1, TailAt
          <6> QED
            BY <2>4, <6>1 DEF AllBefore
        <5> QED
          BY <4>1, <5>1, <5>2, <5>3
      <4>2. CASE ~(Len(held) >= HoldMax)
        BY <1>0, <1>a, <1>b, <2>3, <2>4, <4>2
      <4> QED
        BY <4>1, <4>2
    <3>5. AllBefore(s, <<e>>) /\ Before(taken, <<e>>)
      <4>1. /\ Len(<<frame>>) = 1 /\ <<frame>>[1] = frame
            /\ Len(<<e>>) = 1 /\ <<e>>[1] = e /\ \A j \in 1..1 : j = 1
        OBVIOUS
      <4> HIDE DEF e, s
      <4> QED
        BY <2>4, <3>2, <3>4, <4>1 DEF AllBefore, Before
    <3> HIDE DEF e, s
    <3>6. Rising(held') /\ Before(taken', held')
      BY <1>0, <3>1, <3>2, <3>3, <3>4, <3>5, JoinsLine, JoinsBefore
    <3>7. Known(held)'
      <4>1. \A i \in 1..Len(s) : s[i].id <= offered'
        BY <2>6, <3>4
      <4>2. \A i \in 1..Len(Append(s, e)) :
              \/ i \in 1..Len(s) /\ Append(s, e)[i] = s[i]
              \/ i = Len(s) + 1 /\ Append(s, e)[i] = e
        BY <3>2, <3>4, AppendAt
      <4>3. e.id <= offered'
        BY <1>0, <2>2, <2>3, <3>2
      <4> QED
        BY <3>3, <4>1, <4>2, <4>3 DEF Known
    <3>8. Stopped(held)'
      <4>1. Stopped(Append(s, e))
        BY <2>8, <3>2, <3>4, JoinsLine
      <4> QED
        BY <2>3, <3>1, <3>3, <4>1 DEF Stopped, N!BoardFull, N!FitsAir
    <3>9. Known(taken)'
      <4>1. \A i \in 1..Len(taken) : taken[i] \in NetFrame
        BY <1>0
      <4>2. \A i \in 1..Len(taken) : taken[i].id \in Nat /\ taken[i].id <= offered
        BY <1>a, <4>1 DEF Known, NetFrame
      <4> QED
        BY <1>0, <2>3, <3>1, <4>2 DEF Known
    <3> QED
      BY <1>a, <3>1, <3>6, <3>7, <3>8, <3>9
  <2>9. CASE ~((N!BoardFull \/ ~N!FitsAir(frame.size)) /\ holding)
    <3>0. held' = held /\ Known(held)'
      <4>1. held' = held
        BY <2>2, <2>9 DEF N!FromHost
      <4> QED
        BY <1>0, <1>a, <2>6, <4>1 DEF Known
    <3>1. CASE ~N!FitsAir(frame.size)
      <4>1. taken' = taken /\ inflight' = inflight
        BY <2>2, <2>9, <3>1 DEF N!FromHost, N!NoBoard
      <4>2. Known(taken)'
        <5>1. \A i \in 1..Len(taken) : taken[i] \in NetFrame
          BY <1>0
        <5>2. \A i \in 1..Len(taken) : taken[i].id \in Nat /\ taken[i].id <= offered
          BY <1>a, <5>1 DEF Known, NetFrame
        <5> QED
          BY <1>0, <2>3, <4>1, <5>2 DEF Known
      <4>3. Stopped(held)'
        BY <1>b, <2>3, <3>0, <4>1 DEF Stopped, N!BoardFull, N!FitsAir
      <4> QED
        BY <1>a, <3>0, <4>1, <4>2, <4>3
    <3>2. CASE N!FitsAir(frame.size)
      <4>1. N!Transmit(frame)
        BY <2>2, <2>9, <3>2 DEF N!FromHost
      <4>2. Before(<<frame>>, held)
        <5>1. ASSUME NEW j \in 1..Len(held), frame.size = held[j].size
              PROVE  FALSE
          <6>1. CASE holding
            <7>1. ~N!BoardFull /\ N!FitsAir(held[j].size)
              BY <2>9, <3>2, <5>1, <6>1
            <7> QED
              BY <1>b, <2>3, <7>1 DEF Stopped
          <6>2. CASE ~holding
            <7>1. held = <<>>
              BY <6>2 DEF Places
            <7> QED
              BY <7>1
          <6> QED
            BY <6>1, <6>2
        <5>2. Len(<<frame>>) = 1 /\ <<frame>>[1] = frame /\ \A j \in 1..1 : j = 1
          OBVIOUS
        <5> QED
          BY <5>1, <5>2 DEF Before
      <4>3. offered' >= offered /\ frame.id <= offered'
        BY <1>0, <2>2, <2>3
      <4>4. Known(taken)' /\ InOrder(taken') /\ Before(taken', held)
        BY <1>0, <1>a, <2>2, <2>4, <4>1, <4>2, <4>3, SentLines DEF Known
      <4>5. Stopped(held)'
        <5>1. \A i \in 1..Len(held) : held[i].size \in {N!Short, N!Long}
          <6>1. \A i \in 1..Len(held) : held[i] \in NetEntry
            BY <1>0
          <6> QED
            BY <6>1 DEF NetEntry
        <5>2. N!BoardFull => N!BoardFull'
          BY <2>3, <4>1, SentGate
        <5> QED
          BY <1>b, <2>3, <3>0, <5>1, <5>2 DEF Stopped, N!FitsAir
      <4> QED
        BY <1>a, <3>0, <4>4, <4>5
    <3> QED
      BY <3>1, <3>2
  <2> QED
    BY <2>8, <2>9
<1>2. CASE N!Crashes
  BY <1>2, <1>c DEF N!Crashes, N!board
<1>3. CASE N!Pump
  BY <1>3, <1>c DEF N!Pump
<1>4. CASE N!OnEvent
  <2>1. /\ pc = "pump" /\ keep = <<>> /\ keep' = <<>> /\ pc' \in {"pump", "flush"}
        /\ UNCHANGED <<N!board, held, offered>>
    BY <1>4 DEF N!OnEvent, N!Flushing, Places
  <2>2. Stopped(keep)'
    <3>1. \A i \in 1..Len(<<>>) : FALSE
      OBVIOUS
    <3> QED
      BY <2>1, <3>1 DEF Stopped
  <2> QED
    BY <1>c, <2>1, <2>2 DEF N!board
<1>5. CASE N!Pumped
  <2>1. /\ keep = <<>> /\ keep' = <<>> /\ pc' \in {"host", "flush"}
        /\ pc' = "host" => held = <<>>
        /\ UNCHANGED <<N!board, held, offered>>
    BY <1>5 DEF N!Pumped, N!Flushing, Places
  <2>2. Stopped(keep)' /\ (pc' = "host" => Stopped(held)')
    <3>1. \A i \in 1..Len(<<>>) : FALSE
      OBVIOUS
    <3> QED
      BY <2>1, <3>1 DEF Stopped
  <2> QED
    BY <1>c, <2>1, <2>2 DEF N!board
<1>6. CASE N!Release
  <2> DEFINE entry == Head(held)
             frame == N!Frame(entry)
             rest == Tail(held)
  <2>1. /\ held # <<>> /\ held' = rest /\ pc = "flush" /\ pc' = "flush"
        /\ UNCHANGED <<status, offered>>
    BY <1>6 DEF N!Release
  <2>2. entry \in NetEntry /\ rest \in Seq(NetEntry)
    BY <1>0, <2>1
  <2>3. /\ Known(rest) /\ Rising(rest) /\ Before(taken, rest) /\ AllBefore(keep, rest)
        /\ entry.id <= offered /\ AllBefore(<<entry>>, rest)
        /\ Before(taken, <<entry>>) /\ AllBefore(keep, <<entry>>)
    BY <1>0, <1>a, <2>1, LeavesLine
  <2>4. frame \in NetFrame /\ frame.id = entry.id /\ frame.size = entry.size
    BY <2>2, FrameEntry
  <2> HIDE DEF rest
  <2>5. CASE N!FitsAir(entry.size) /\ ~N!BoardFull
    <3>1. N!Transmit(frame) /\ keep' = keep
      BY <1>6, <2>5 DEF N!Release
    <3>2. /\ Len(<<frame>>) = 1 /\ <<frame>>[1] = frame
          /\ Len(<<entry>>) = 1 /\ <<entry>>[1] = entry
          /\ \A j \in 1..1 : j = 1
      OBVIOUS
    <3> HIDE DEF frame, entry
    <3>3. Before(taken, <<frame>>) /\ Before(<<frame>>, rest)
      BY <2>3, <2>4, <3>2 DEF AllBefore, Before
    <3>4. Before(<<frame>>, keep)
      <4>1. ASSUME NEW j \in 1..Len(keep), frame.size = keep[j].size
            PROVE  FALSE
        BY <1>b, <2>1, <2>4, <2>5, <4>1 DEF Stopped
      <4> QED
        BY <3>2, <4>1 DEF Before
    <3>5. offered' >= offered /\ frame.id <= offered'
      BY <1>0, <2>1, <2>3, <2>4
    <3>6. /\ \A i \in 1..Len(taken') : taken'[i].id <= offered'
          /\ InOrder(taken') /\ Before(taken', rest)
      BY <1>0, <1>a, <2>2, <2>3, <2>4, <3>1, <3>3, <3>5, SentLines
    <3>10. Known(taken)'
      BY <3>6 DEF Known
    <3>7. Before(taken', keep)
      BY <1>0, <1>a, <2>2, <2>4, <3>1, <3>3, <3>4, <3>5, SentLines
    <3>8. Stopped(keep)'
      <4>1. \A i \in 1..Len(keep) : keep[i].size \in {N!Short, N!Long}
        <5>1. \A i \in 1..Len(keep) : keep[i] \in NetEntry
          BY <1>0
        <5> QED
          BY <5>1 DEF NetEntry
      <4>2. N!BoardFull => N!BoardFull'
        BY <2>1, <3>1, SentGate
      <4> QED
        BY <1>b, <2>1, <3>1, <4>1, <4>2 DEF Stopped, N!FitsAir
    <3>9. Known(keep)' /\ Known(held)'
      BY <1>a, <2>1, <2>3, <3>1 DEF Known
    <3> QED
      BY <1>a, <2>1, <2>3, <3>1, <3>6, <3>7, <3>8, <3>9, <3>10 DEF Lines
  <2>6. CASE ~(N!FitsAir(entry.size) /\ ~N!BoardFull)
    <3>1. taken' = taken /\ inflight' = inflight
      BY <1>6, <2>6 DEF N!Release, N!NoBoard
    <3>2. Known(taken)' /\ Known(held)'
      BY <1>a, <2>1, <2>3, <3>1 DEF Known
    <3>3. CASE entry.late
      <4>1. keep' = keep
        BY <1>6, <2>6, <3>3 DEF N!Release
      <4>2. Stopped(keep)' /\ Known(keep)'
        BY <1>a, <1>b, <2>1, <3>1, <4>1
           DEF Stopped, N!BoardFull, N!FitsAir, Known
      <4> QED
        BY <1>a, <2>1, <2>3, <3>1, <3>2, <4>1, <4>2 DEF Lines
    <3>4. CASE ~entry.late
      <4>1. keep' = Append(keep, entry)
        BY <1>6, <2>6, <3>4 DEF N!Release
      <4>2. N!BoardFull \/ ~N!FitsAir(entry.size)
        BY <2>6
      <4> HIDE DEF entry
      <4>3. /\ Rising(keep') /\ Known(keep') /\ Stopped(keep')
            /\ Before(taken, keep') /\ AllBefore(keep', rest)
        BY <1>0, <1>a, <1>b, <2>1, <2>2, <2>3, <4>1, <4>2, JoinsLine,
           JoinsBefore
      <4>4. Stopped(keep)' /\ Known(keep)'
        BY <2>1, <3>1, <4>3 DEF Stopped, N!BoardFull, N!FitsAir, Known
      <4> QED
        BY <1>a, <2>1, <2>3, <3>1, <3>2, <4>3, <4>4 DEF Lines
    <3> QED
      BY <3>3, <3>4
  <2> QED
    BY <2>5, <2>6
<1>7. CASE N!Flushed
  <2>1. /\ held' = keep /\ keep' = <<>> /\ pc = "flush" /\ pc' = resume
        /\ UNCHANGED <<status, inflight, offered>>
    BY <1>7 DEF N!Flushed
  <2>2. taken' = taken
    BY <1>7, Probed DEF N!Flushed
  <2>3. \A i \in 1..Len(<<>>) : FALSE
    OBVIOUS
  <2>4. Known(taken)' /\ Known(held)' /\ Known(keep)'
    BY <1>a, <2>1, <2>2, <2>3 DEF Known
  <2>5. Stopped(held)' /\ Stopped(keep)'
    BY <1>b, <2>1, <2>3 DEF Stopped, N!BoardFull, N!FitsAir
  <2>6. Rising(keep') /\ AllBefore(keep', held') /\ Before(taken', keep')
    BY <2>1, NoLine
  <2> QED
    BY <1>a, <2>1, <2>2, <2>4, <2>5, <2>6 DEF Lines
<1>8. CASE N!Deadline
  <2>1. /\ UNCHANGED <<N!board, pc, status, inflight, offered>>
        /\ \/ N!OneLate(keep) /\ UNCHANGED held
           \/ N!OneLate(held) /\ UNCHANGED keep
    BY <1>8 DEF N!Deadline
  <2>2. taken' = taken
    BY <2>1 DEF N!board
  <2>3. CASE N!OneLate(keep) /\ UNCHANGED held
    <3>1. Aged(keep, keep')
      BY <1>0, <2>3, Ages DEF N!OneLate
    <3>2. /\ Known(keep') /\ Rising(keep') /\ AllBefore(keep', held)
          /\ Before(taken, keep') /\ (pc = "flush" => Stopped(keep'))
      BY <1>0, <1>a, <1>b, <3>1, AgedLine
    <3>3. Known(taken)' /\ Known(held)' /\ Known(keep)'
      BY <1>a, <2>1, <2>2, <2>3, <3>2 DEF Known
    <3>4. (pc' = "flush" => Stopped(keep)') /\ (pc' = "host" => Stopped(held)')
      BY <1>b, <2>1, <2>3, <3>2 DEF Stopped, N!BoardFull, N!FitsAir
    <3> QED
      BY <1>a, <2>2, <2>3, <3>2, <3>3, <3>4 DEF Lines
  <2>4. CASE N!OneLate(held) /\ UNCHANGED keep
    <3>1. Aged(held, held')
      BY <1>0, <2>4, Ages DEF N!OneLate
    <3>2. /\ Known(held') /\ Rising(held') /\ AllBefore(keep, held')
          /\ Before(taken, held') /\ (pc = "host" => Stopped(held'))
      BY <1>0, <1>a, <1>b, <3>1, AgedLine
    <3>3. Known(taken)' /\ Known(held)' /\ Known(keep)'
      BY <1>a, <2>1, <2>2, <2>4, <3>2 DEF Known
    <3>4. (pc' = "flush" => Stopped(keep)') /\ (pc' = "host" => Stopped(held)')
      BY <1>b, <2>1, <2>4, <3>2 DEF Stopped, N!BoardFull, N!FitsAir
    <3> QED
      BY <1>a, <2>2, <2>4, <3>2, <3>3, <3>4 DEF Lines
  <2> QED
    BY <2>1, <2>3, <2>4
<1>9. CASE N!ProbeTimer
  <2>1. UNCHANGED <<taken, keep, held, offered, pc, status, inflight>>
    BY <1>9 DEF N!ProbeTimer, N!board
  <2> QED
    BY <1>b, <1>c, <2>1 DEF Stopped, N!BoardFull, N!FitsAir
<1>10. CASE N!BoardStep /\ UNCHANGED <<N!others, holding>>
  <2>1. UNCHANGED <<taken, keep, held, offered, pc, status, inflight>>
    BY <1>10, NetBoardMoves DEF N!others, NetType
  <2> QED
    BY <1>b, <1>c, <2>1 DEF Stopped, N!BoardFull, N!FitsAir
<1> QED
  BY <1>1, <1>2, <1>3, <1>4, <1>5, <1>6, <1>7, <1>8, <1>9, <1>10
     DEF N!Next, N!Loop

LEMMA LinesTunnel ==
  ASSUME N!BridgeAssumption, NetType, NetType', Places, Places', Lines,
         program = "tunnel", UNCHANGED program,
         \/ N!TunLoop
         \/ N!ProbeTimer
         \/ N!BoardStep /\ UNCHANGED <<N!others, holding>>
  PROVE  Lines'
<1>0. offered \in Nat /\ taken \in Seq(NetFrame)
  BY DEF NetType
<1>a. held = <<>> /\ keep = <<>> /\ held' = <<>> /\ keep' = <<>>
  BY DEF Places
<1>b. Known(taken) /\ InOrder(taken)
  BY DEF Lines
<1>c. \A i \in 1..Len(<<>>) : FALSE
  OBVIOUS
<1>d. ASSUME \A i \in 1..Len(taken') : taken'[i].id <= offered', InOrder(taken')
      PROVE  Lines'
  <2>1. Known(taken)' /\ Known(keep)' /\ Known(held)'
    BY <1>a, <1>c, <1>d DEF Known
  <2>2. Rising(keep') /\ Rising(held') /\ AllBefore(keep', held')
        /\ Before(taken', keep') /\ Before(taken', held')
    BY <1>a, NoLine
  <2>3. Stopped(keep)' /\ Stopped(held)'
    BY <1>a, <1>c DEF Stopped
  <2> QED
    BY <1>d, <2>1, <2>2, <2>3 DEF Lines
<1>e. ASSUME UNCHANGED <<taken, offered>> PROVE Lines'
  BY <1>b, <1>d, <1>e DEF Known
<1>f. \A i \in 1..Len(taken) : taken[i].id \in Nat /\ taken[i].id <= offered
  <2>1. \A i \in 1..Len(taken) : taken[i] \in NetFrame
    BY <1>0
  <2> QED
    BY <1>b, <2>1 DEF Known, NetFrame
<1>1. CASE N!TunReads
  <2>1. CASE N!ReadsPacket
    <3>1. PICK size \in {N!Short, N!Long} :
            N!OnPacket([id |-> offered + 1, size |-> size])
      BY <2>1 DEF N!ReadsPacket
    <3> DEFINE frame == [id |-> offered + 1, size |-> size]
    <3>2. N!OnPacket(frame) /\ frame \in NetFrame /\ frame.id = offered + 1
      BY <1>0, <3>1 DEF NetFrame
    <3> HIDE DEF frame
    <3>3. offered' = offered + 1
      BY <2>1 DEF N!ReadsPacket
    <3>4. CASE taken' = taken
      BY <1>0, <1>b, <1>d, <1>f, <3>3, <3>4
    <3>5. CASE N!Transmit(frame)
      <4>1. Before(taken, <<frame>>)
        <5>1. \A i \in 1..Len(taken) : taken[i].id < frame.id
          BY <1>0, <1>f, <3>2
        <5>2. Len(<<frame>>) = 1 /\ <<frame>>[1] = frame /\ \A j \in 1..1 : j = 1
          OBVIOUS
        <5> QED
          BY <5>1, <5>2 DEF Before
      <4>2. Before(taken, <<>>) /\ Before(<<frame>>, <<>>)
        BY NoLine
      <4>3. <<>> \in Seq(NetEntry) /\ offered' >= offered /\ frame.id <= offered'
        BY <1>0, <3>2, <3>3
      <4>4. (\A i \in 1..Len(taken') : taken'[i].id <= offered') /\ InOrder(taken')
        BY <1>0, <1>b, <3>2, <3>5, <4>1, <4>2, <4>3, SentLines
      <4> QED
        BY <1>d, <4>4
    <3>6. taken' = taken \/ N!Transmit(frame)
      BY <3>2 DEF N!OnPacket, N!NoBoard
    <3> QED
      BY <3>4, <3>5, <3>6
  <2>2. CASE N!ReadsNothing
    BY <1>e, <2>2 DEF N!ReadsNothing, N!NoBoard
  <2> QED
    BY <1>1, <2>1, <2>2 DEF N!TunReads
<1>2. CASE N!TunPolls
  BY <1>2, <1>e DEF N!TunPolls
<1>3. CASE N!TunHandles
  BY <1>3, <1>e DEF N!TunHandles, N!board
<1>4. CASE N!TunProbes
  <2>1. UNCHANGED taken
    BY <1>4, Probed DEF N!TunProbes
  <2> QED
    BY <1>4, <1>e, <2>1 DEF N!TunProbes
<1>5. CASE N!TunSetsDepth
  BY <1>5, <1>e DEF N!TunSetsDepth, N!board
<1>6. CASE N!ProbeTimer
  BY <1>6, <1>e DEF N!ProbeTimer, N!board
<1>7. CASE N!BoardStep /\ UNCHANGED <<N!others, holding>>
  BY <1>7, <1>e, NetBoardMoves DEF N!others, NetType
<1> QED
  BY <1>1, <1>2, <1>3, <1>4, <1>5, <1>6, <1>7 DEF N!TunLoop

-----------------------------------------------------------------------------
(* The gate of the bridge that holds.  On the way to the bridge are as     *)
(* many reports as the port may have and one call may have read; each lets *)
(* through what its depth leaves below the gate, once.                     *)
Stats(s) == Count(s, "status")
Bound == IF MaxReports = 0 THEN QueueHigh ELSE QueueHigh * (2 * MaxReports)
Room == IF N!BoardFull THEN 0 ELSE QueueHigh - status.depth - inflight
Usable == IF pc = "pump" /\ Stats(inbox) > 0 THEN 0 ELSE Room
Load == Len(queue) + Usable
GateTotal(x, y) ==
  Sums(inbox, x) /\ Sums(events, y) /\ Load + x + y <= Bound
Gate ==
  program = "bridge" =>
    /\ Stats(events) <= MaxReports
    /\ Stats(inbox) <= MaxReports
    /\ pc = "flush" /\ resume = "pump" => Stats(inbox) + 1 <= MaxReports
    /\ holding => \E x, y \in Nat : GateTotal(x, y)

LEMMA TimesLE ==
  ASSUME NEW kk \in Nat, NEW i \in Nat, NEW j \in Nat, i <= j
  PROVE  kk * i <= kk * j
<1> DEFINE d == j - i
<1>1. d \in Nat /\ j = i + d
  OBVIOUS
<1> HIDE DEF d
<1>2. kk * (i + d) = kk * i + kk * d /\ kk * i \in Nat /\ kk * d \in Nat
  BY <1>1
<1> QED
  BY <1>1, <1>2

LEMMA RoomNat ==
  ASSUME N!BridgeAssumption, NetType
  PROVE  /\ Room \in 0..QueueHigh /\ Usable \in 0..QueueHigh
         /\ Usable <= Room /\ status.depth \in Nat
         /\ ~N!BoardFull => Room = QueueHigh - status.depth - inflight /\ Room > 0
<1>1. status.depth \in Nat
  <2>1. CASE status = N!NoStatus
    BY <2>1 DEF N!NoStatus
  <2>2. CASE status \in NetEvent
    BY <2>2 DEF NetEvent
  <2> QED
    BY <2>1, <2>2 DEF NetType
<1>2. inflight \in Nat /\ QueueHigh \in Nat
  BY DEF NetType, N!BridgeAssumption
<1>3. /\ Room \in 0..QueueHigh
      /\ ~N!BoardFull => Room = QueueHigh - status.depth - inflight /\ Room > 0
  BY <1>1, <1>2 DEF Room, N!BoardFull
<1>4. Usable = 0 \/ Usable = Room
  BY DEF Usable
<1> QED
  BY <1>1, <1>2, <1>3, <1>4

LEMMA SentLoad ==
  ASSUME N!BridgeAssumption, NetType, NetType', NEW frame \in NetFrame,
         N!Transmit(frame), ~N!BoardFull, pc # "pump", pc' = pc, status' = status
  PROVE  Load' <= Load
<1>1. Usable = Room /\ Usable' = Room'
  BY DEF Usable
<1>0. /\ Room \in Nat /\ Len(queue) \in Nat /\ Len(queue') \in Nat
      /\ QueueHigh \in Nat /\ inflight \in Nat /\ status.depth \in Nat
      /\ Room = QueueHigh - status.depth - inflight /\ Room > 0
  <2>1. /\ Len(queue) \in Nat /\ Len(queue') \in Nat
        /\ QueueHigh \in Nat /\ inflight \in Nat
    BY DEF NetType, N!BridgeAssumption
  <2>2. /\ Room \in 0..QueueHigh /\ status.depth \in Nat
        /\ Room = QueueHigh - status.depth - inflight /\ Room > 0
    BY RoomNat
  <2> QED
    BY <2>1, <2>2
<1>2. Room' \in Nat
  <2>1. inflight' \in Nat /\ status'.depth = status.depth
    BY DEF NetType
  <2> QED
    BY <1>0, <2>1 DEF Room, N!BoardFull
<1>3. inflight' = inflight + 1 => Room' = Room - 1
  BY <1>0 DEF Room, N!BoardFull
<1>4. CASE Stalled
  <2>1. Room' = Room /\ Len(queue') = Len(queue)
    BY <1>4 DEF Stalled, Room, N!BoardFull
  <2> QED
    BY <1>0, <1>1, <1>2, <2>1 DEF Load
<1>5. CASE Passed(frame)
  <2>1. Len(queue') = Len(queue) + 1 /\ inflight' = inflight + 1
    BY <1>5 DEF Passed, NetType
  <2> QED
    BY <1>0, <1>1, <1>2, <1>3, <2>1 DEF Load
<1>6. CASE Turned
  <2>1. Len(queue') = Len(queue) /\ inflight' = inflight + 1
    BY <1>6 DEF Turned
  <2> QED
    BY <1>0, <1>1, <1>2, <1>3, <2>1 DEF Load
<1> QED
  BY <1>4, <1>5, <1>6, Sent

LEMMA SpokenSums ==
  ASSUME N!BridgeAssumption, NetType, Spoken, NEW y, Sums(events, y)
  PROVE  Sums(events', y)
<1>1. CASE events' = events
  BY <1>1
<1>2. CASE events' = Append(events, N!RefusedLog)
  <2>1. N!RefusedLog.kind # "status"
    BY DEF N!RefusedLog
  <2>2. Allow(N!RefusedLog) = 0
    BY <2>1, AllowNat, RefusalIsEvent
  <2>3. Sums(events', y + 0)
    BY <1>2, <2>2, SumsAppend, RefusalIsEvent DEF NetType
  <2>4. y \in Nat
    BY SumsNat DEF NetType
  <2> QED
    BY <2>3, <2>4
<1> QED
  BY <1>1, <1>2 DEF Spoken

LEMMA SentSpoken ==
  ASSUME NEW frame, N!Transmit(frame)
  PROVE  Spoken
  BY Sent DEF Stalled, Passed, Turned, Spoken

(* A report made while there is room below the gate.                       *)
LEMMA ReportFits ==
  ASSUME N!BoardAssumption, N!BridgeAssumption, NetType, Places, Gate,
         program = "bridge", Reported, NEW x \in Nat, NEW y \in Nat,
         GateTotal(x, y)
  PROVE  Load + x + (y + Allow(N!Status(Len(queue), rungNow))) <= Bound
<1> DEFINE R == MaxReports
           H == QueueHigh
           n == Stats(inbox)
           m == Stats(events)
           q == Len(queue)
           e == N!Status(q, rungNow)
           u == Usable
<1>1. /\ R \in Nat /\ H \in Nat /\ n \in Nat /\ m \in Nat /\ q \in Nat
      /\ u \in 0..H
  BY CountNat, RoomNat DEF N!BoardAssumption, N!BridgeAssumption, NetType,
                           Stats
<1>2. x <= H * n /\ y <= H * m
  BY SumsBound DEF GateTotal, Stats, NetType
<1>3. m < R /\ n <= R
  BY DEF Reported, Stats, Gate
<1>4. e.kind = "status" /\ e.depth = q
  BY DEF N!Status
<1>5. q + u + x + y <= Bound
  BY DEF GateTotal, Load
<1>6. Bound = H * (2 * R)
  BY <1>1, <1>3 DEF Bound
<1>7. u = 0 \/ n + 1 <= R
  <2>1. CASE pc = "pump"
    <3>1. CASE n > 0
      BY <2>1, <3>1 DEF Usable
    <3>2. CASE ~(n > 0)
      BY <1>1, <1>3, <3>2
    <3> QED
      BY <3>1, <3>2
  <2>2. CASE pc = "flush" /\ resume = "pump"
    BY <2>2 DEF Gate
  <2>3. CASE pc # "pump" /\ ~(pc = "flush" /\ resume = "pump")
    <3>1. inbox = <<>>
      BY <2>3 DEF Places, NetType
    <3>2. n = 0
      BY <3>1, CountNone DEF Stats
    <3> QED
      BY <1>1, <1>3, <3>2
  <2> QED
    BY <2>1, <2>2, <2>3
<1>8. Allow(e) = IF q < H THEN H - q ELSE 0
  BY <1>4 DEF Allow
<1> HIDE DEF R, H, n, m, q, e, u
<1>9. CASE q < H
  <2>1. H * (m + 1) <= H * R
    <3>1. m + 1 <= R /\ m + 1 \in Nat
      BY <1>1, <1>3
    <3> QED
      BY <1>1, <3>1, TimesLE
  <2>2. H * (m + 1) = H * m + H /\ H * m \in Nat
    BY <1>1
  <2>3. u + H * n <= H * R
    <3>1. CASE u = 0
      <4>1. H * n <= H * R
        BY <1>1, <1>3, TimesLE
      <4>2. H * n \in Nat
        BY <1>1
      <4> QED
        BY <3>1, <4>1, <4>2
    <3>2. CASE n + 1 <= R
      <4>1. H * (n + 1) <= H * R
        BY <1>1, <3>2, TimesLE
      <4>2. H * (n + 1) = H * n + H /\ H * n \in Nat
        BY <1>1
      <4>3. H * R \in Nat
        BY <1>1
      <4> QED
        BY <1>1, <4>1, <4>2, <4>3
    <3> QED
      BY <1>7, <3>1, <3>2
  <2>4. H * (2 * R) = H * R + H * R /\ H * R \in Nat /\ H * n \in Nat
    BY <1>1
  <2>5. Allow(e) = H - q
    BY <1>8, <1>9
  <2> DEFINE hn == H * n
             hm == H * m
             hr == H * R
  <2>6. q + u + x + (y + (H - q)) <= hr + hr
    <3>1. hn \in Nat /\ hm \in Nat /\ hr \in Nat
      BY <2>2, <2>4
    <3>2. x <= hn /\ y <= hm /\ hm + H <= hr /\ u + hn <= hr
      BY <1>2, <2>1, <2>2, <2>3
    <3> HIDE DEF hn, hm, hr
    <3> QED
      BY <1>1, <3>1, <3>2
  <2> QED
    BY <1>6, <2>4, <2>5, <2>6 DEF Load, q, e, u
<1>10. CASE ~(q < H)
  <2>1. Allow(e) = 0
    BY <1>8, <1>10
  <2>2. y + 0 = y
    OBVIOUS
  <2> QED
    BY <1>5, <2>1, <2>2 DEF Load, q, e, u
<1> QED
  BY <1>9, <1>10

LEMMA GateBridge ==
  ASSUME N!BoardAssumption, N!BridgeAssumption, NetType, NetType', Places, Gate,
         program = "bridge", UNCHANGED program, N!Next
  PROVE  Gate'
<1>0. /\ events \in Seq(NetEvent) /\ inbox \in Seq(NetEvent) /\ holding' = holding
      /\ MaxReports \in Nat
  <2>1. holding' = holding
    BY DEF N!Next, N!Reads, N!Crashes, N!Loop, N!Pump, N!OnEvent, N!Pumped,
           N!Release, N!Flushed, N!Deadline, N!ProbeTimer
  <2> QED
    BY <2>1 DEF NetType, N!BoardAssumption
<1>a. /\ Stats(events) <= MaxReports
      /\ Stats(inbox) <= MaxReports
      /\ pc = "flush" /\ resume = "pump" => Stats(inbox) + 1 <= MaxReports
      /\ holding => \E x, y \in Nat : GateTotal(x, y)
      /\ Stats(events) \in Nat /\ Stats(inbox) \in Nat
  BY <1>0, CountNat DEF Gate, Stats
<1>b. ASSUME Stats(events') <= MaxReports, Stats(inbox') <= MaxReports,
             pc' = "flush" /\ resume' = "pump" => Stats(inbox') + 1 <= MaxReports,
             ASSUME holding, NEW x \in Nat, NEW y \in Nat, GateTotal(x, y)
             PROVE  \E x2, y2 \in Nat : GateTotal(x2, y2)'
      PROVE  Gate'
  <2>1. holding' => \E x, y \in Nat : GateTotal(x, y)'
    BY <1>0, <1>a, <1>b
  <2> QED
    BY <1>b, <2>1 DEF Gate, Stats
<1>c. ASSUME NEW x \in Nat, NEW y \in Nat, Sums(inbox', x), Sums(events', y),
             Load' + x + y <= Bound
      PROVE  \E x2, y2 \in Nat : GateTotal(x2, y2)'
  BY <1>c DEF GateTotal, Bound
<1>d. /\ Load \in Nat /\ Bound \in Nat /\ Usable \in Nat /\ Room \in Nat
      /\ Usable <= Room /\ Len(queue) \in Nat
  <2>1. /\ Room \in 0..QueueHigh /\ Usable \in 0..QueueHigh /\ Usable <= Room
    BY RoomNat
  <2>2. QueueHigh \in Nat /\ MaxReports \in Nat /\ Len(queue) \in Nat
    BY DEF NetType, N!BoardAssumption, N!BridgeAssumption
  <2>3. Bound \in Nat
    BY <2>2 DEF Bound
  <2> QED
    BY <2>1, <2>2, <2>3 DEF Load
<1>e. /\ Load' \in Nat /\ Usable' \in Nat /\ Room' \in Nat /\ Len(queue') \in Nat
      /\ Usable' = 0 \/ Usable' = Room'
      /\ (status.depth)' \in Nat /\ inflight' \in Nat /\ QueueHigh \in Nat
  <2>1. (status.depth)' \in Nat
    <3>1. CASE status' = N!NoStatus
      BY <3>1 DEF N!NoStatus
    <3>2. CASE status' \in NetEvent
      BY <3>2 DEF NetEvent
    <3> QED
      BY <3>1, <3>2 DEF NetType
  <2>2. inflight' \in Nat /\ QueueHigh \in Nat /\ Len(queue') \in Nat
    BY DEF NetType, N!BridgeAssumption
  <2>3. Room' \in Nat
    BY <2>1, <2>2 DEF Room, N!BoardFull
  <2>4. Usable' = 0 \/ Usable' = Room'
    BY DEF Usable
  <2> QED
    BY <2>1, <2>2, <2>3, <2>4 DEF Load
<1>h. ASSUME NEW x \in Nat, NEW y \in Nat, Load + x + y <= Bound, Load' <= Load
      PROVE  Load' + x + y <= Bound
  <2> DEFINE a == Load
             b == Load'
             c == Bound
  <2>1. a \in Nat /\ b \in Nat /\ c \in Nat /\ a + x + y <= c /\ b <= a
    BY <1>d, <1>e, <1>h
  <2> HIDE DEF a, b, c
  <2>2. b + x + y <= c
    BY <2>1
  <2> QED
    BY <2>2 DEF a, b, c
(* Only the queue and what the port stages may change.                     *)
<1>f. ASSUME UNCHANGED <<status, inflight>>, Len(queue') <= Len(queue),
             Spoken, inbox' = inbox, pc' = pc \/ pc # "pump" \/ inbox = <<>>,
             pc' = "flush" /\ resume' = "pump" =>
               pc = "flush" /\ resume = "pump"
      PROVE  Gate'
  <2>1. Stats(events') = Stats(events)
    BY <1>0, <1>f, SpokenCount DEF Stats
  <2>2. Usable' <= Usable
    <3>1. Room' = Room
      BY <1>f DEF Room, N!BoardFull
    <3>2. CASE pc = "pump" /\ Stats(inbox) > 0
      <4>1. inbox # <<>>
        BY <3>2, CountNone DEF Stats
      <4>2. Usable' = 0 /\ Usable = 0
        BY <1>f, <3>2, <4>1 DEF Usable
      <4> QED
        BY <4>2
    <3>3. CASE ~(pc = "pump" /\ Stats(inbox) > 0)
      <4>1. Usable = Room
        BY <3>3 DEF Usable
      <4> QED
        BY <1>d, <1>e, <3>1, <4>1
    <3> QED
      BY <3>2, <3>3
  <2>3. Load' <= Load
    BY <1>d, <1>e, <1>f, <2>2 DEF Load
  <2>4. ASSUME holding, NEW x \in Nat, NEW y \in Nat, GateTotal(x, y)
        PROVE  \E x2, y2 \in Nat : GateTotal(x2, y2)'
    <3>1. Sums(inbox', x) /\ Sums(events', y)
      BY <1>f, <2>4, SpokenSums DEF GateTotal
    <3>2. Load' + x + y <= Bound
      BY <1>h, <2>3, <2>4 DEF GateTotal
    <3> QED
      BY <1>c, <3>1, <3>2
  <2> QED
    BY <1>a, <1>b, <1>f, <2>1, <2>4
(* A frame handed over while there is room below the gate.                 *)
<1>g. ASSUME NEW frame \in NetFrame, N!Transmit(frame), holding => ~N!BoardFull,
             pc # "pump", pc' = pc, UNCHANGED <<status, inbox, resume>>
      PROVE  Gate'
  <2>1. Spoken
    BY <1>g, SentSpoken
  <2>2. Stats(events') = Stats(events)
    BY <1>0, <2>1, SpokenCount DEF Stats
  <2>3. ASSUME holding, NEW x \in Nat, NEW y \in Nat, GateTotal(x, y)
        PROVE  \E x2, y2 \in Nat : GateTotal(x2, y2)'
    <3>1. Sums(inbox', x) /\ Sums(events', y)
      BY <1>g, <2>1, <2>3, SpokenSums DEF GateTotal
    <3>2. Load' <= Load
      BY <1>g, <2>3, SentLoad
    <3>3. Load' + x + y <= Bound
      BY <1>h, <2>3, <3>2 DEF GateTotal
    <3> QED
      BY <1>c, <3>1, <3>3
  <2> QED
    BY <1>a, <1>b, <1>g, <2>2, <2>3
<1>1. CASE N!Reads
  <2>1. PICK size \in {N!Short, N!Long} :
          N!FromHost([id |-> offered + 1, size |-> size])
    BY <1>1 DEF N!Reads
  <2> DEFINE frame == [id |-> offered + 1, size |-> size]
  <2>2. frame \in NetFrame /\ N!FromHost(frame)
    BY <2>1 DEF NetFrame, NetType
  <2> HIDE DEF frame
  <2>3. pc = "host" /\ pc' = pc /\ UNCHANGED <<status, inbox, resume>>
    BY <1>1 DEF N!Reads
  <2>4. CASE N!Transmit(frame) /\ (holding => ~N!BoardFull)
    BY <1>g, <2>2, <2>3, <2>4
  <2>5. CASE N!NoBoard /\ UNCHANGED inflight
    BY <1>d, <1>f, <2>3, <2>5 DEF N!NoBoard, Spoken
  <2>6. \/ N!Transmit(frame) /\ (holding => ~N!BoardFull)
        \/ N!NoBoard /\ UNCHANGED inflight
    <3>1. CASE (N!BoardFull \/ ~N!FitsAir(frame.size)) /\ holding
      BY <2>2, <3>1 DEF N!FromHost
    <3>2. CASE ~((N!BoardFull \/ ~N!FitsAir(frame.size)) /\ holding)
      <4>1. N!Transmit(frame) \/ (N!NoBoard /\ UNCHANGED inflight)
        BY <2>2, <3>2 DEF N!FromHost
      <4>2. holding => ~N!BoardFull
        BY <3>2
      <4> QED
        BY <4>1, <4>2, Zenon
    <3> QED
      BY <3>1, <3>2
  <2> QED
    BY <2>4, <2>5, <2>6
<1>2. CASE N!Crashes
  BY <1>2, <1>d, <1>f DEF N!Crashes, N!board, Spoken
<1>3. CASE N!Pump
  <2>1. /\ pc = "host" /\ pc' = "pump" /\ inbox' = events /\ events' = <<>>
        /\ UNCHANGED <<queue, status, inflight, resume>> /\ inbox = <<>>
    BY <1>3 DEF N!Pump, Places
  <2>2. Stats(events') = 0 /\ Stats(inbox') = Stats(events)
    BY <2>1, CountNone DEF Stats
  <2>3. ASSUME holding, NEW x \in Nat, NEW y \in Nat, GateTotal(x, y)
        PROVE  \E x2, y2 \in Nat : GateTotal(x2, y2)'
    <3>1. Sums(inbox', y) /\ Sums(events', 0)
      BY <2>1, <2>3, SumsNone DEF GateTotal
    <3>2. Load' <= Load
      <4>1. Room' = Room /\ Len(queue') = Len(queue)
        BY <2>1 DEF Room, N!BoardFull
      <4>2. Usable = Room
        BY <2>1 DEF Usable
      <4> QED
        BY <1>d, <1>e, <4>1, <4>2 DEF Load
    <3>4. Load' + x + y <= Bound
      BY <1>h, <2>3, <3>2 DEF GateTotal
    <3>3. Load' + y + 0 <= Bound
      <4> DEFINE b == Load'
                 c == Bound
      <4>1. b \in Nat /\ c \in Nat /\ b + x + y <= c
        BY <1>d, <1>e, <3>4
      <4> HIDE DEF b, c
      <4>2. x = 0
        BY <2>1, <2>3, SumsNoneOnly DEF GateTotal
      <4>3. b + y + 0 <= c
        BY <4>1, <4>2
      <4> QED
        BY <4>3 DEF b, c
    <3> QED
      BY <1>c, <3>1, <3>3
  <2> QED
    BY <1>a, <1>b, <2>1, <2>2, <2>3
<1>4. CASE N!OnEvent
  <2> DEFINE e == Head(inbox)
  <2>1. /\ e \in NetEvent /\ Tail(inbox) \in Seq(NetEvent) /\ inbox # <<>>
        /\ pc = "pump" /\ inbox' = Tail(inbox) /\ UNCHANGED <<queue, events>>
    BY <1>0, <1>4 DEF N!OnEvent, N!board
  <2>2. Stats(inbox) = Stats(inbox') + (IF e.kind = "status" THEN 1 ELSE 0)
    BY <1>0, <2>1, CountTail DEF Stats
  <2>3. Stats(inbox') \in Nat
    BY <2>1, CountNat DEF Stats
  <2>4. Stats(inbox') <= MaxReports
    BY <1>0, <1>a, <2>2, <2>3
  <2>5. CASE e.kind = "status"
    <3>1. status' = e /\ inflight' = 0 /\ Usable = 0
      <4>1. Stats(inbox) > 0
        BY <2>2, <2>3, <2>5
      <4> QED
        BY <1>4, <2>1, <2>5, <4>1 DEF N!OnEvent, Usable
    <3>2. Stats(inbox') + 1 <= MaxReports
      BY <1>0, <1>a, <2>2, <2>3, <2>5
    <3>3. ASSUME holding, NEW x \in Nat, NEW y \in Nat, GateTotal(x, y)
          PROVE  \E x2, y2 \in Nat : GateTotal(x2, y2)'
      <4>1. Sums(inbox', x - Allow(e)) /\ x - Allow(e) \in Nat
        BY <1>0, <2>1, <3>3, SumsTail DEF GateTotal
      <4>2. Sums(events', y)
        BY <2>1, <3>3 DEF GateTotal
      <4>3. Usable' <= Allow(e)
        <5>1. Room' = Allow(e)
          BY <1>e, <2>5, <3>1 DEF Room, N!BoardFull, Allow
        <5> QED
          BY <1>e, <5>1
      <4>4. Allow(e) \in Nat
        BY <1>e, <2>1, AllowNat
      <4>5. Len(queue) + 0 + x + y <= Bound /\ Len(queue') = Len(queue)
        BY <2>1, <3>1, <3>3 DEF GateTotal, Load
      <4> HIDE DEF e
      <4>6. Load' + (x - Allow(e)) + y <= Bound
        <5> DEFINE a == Allow(e)
                   q == Len(queue)
                   u == Usable'
        <5>1. q \in Nat /\ u \in Nat /\ a \in Nat /\ Bound \in Nat /\ u <= a
          BY <1>d, <1>e, <4>3, <4>4
        <5>2. q + 0 + x + y <= Bound /\ Load' = q + u
          BY <4>5 DEF Load
        <5> HIDE DEF a, q, u
        <5>3. (q + u) + (x - a) + y <= Bound
          BY <5>1, <5>2
        <5> QED
          BY <5>2, <5>3 DEF a
      <4> QED
        BY <1>c, <4>1, <4>2, <4>6
    <3> QED
      BY <1>a, <1>b, <2>1, <2>4, <3>2, <3>3
  <2>6. CASE e.kind # "status"
    <3>1. UNCHANGED <<status, inflight, pc, resume>>
      BY <1>4, <2>6 DEF N!OnEvent
    <3>2. Stats(inbox') = Stats(inbox)
      BY <2>2, <2>3, <2>6
    <3>3. ASSUME holding, NEW x \in Nat, NEW y \in Nat, GateTotal(x, y)
          PROVE  \E x2, y2 \in Nat : GateTotal(x2, y2)'
      <4>0. Allow(e) = 0
        BY <2>1, <2>6, AllowNat
      <4>1. Sums(inbox', x - 0)
        BY <1>0, <2>1, <3>3, <4>0, SumsTail DEF GateTotal
      <4>2. Sums(events', y) /\ x - 0 = x
        BY <2>1, <3>3 DEF GateTotal
      <4>3. Load' = Load
        BY <2>1, <3>1, <3>2 DEF Load, Usable, Room, N!BoardFull, Stats
      <4>4. Load' + x + y <= Bound
        BY <3>3, <4>3 DEF GateTotal
      <4> QED
        BY <1>c, <4>1, <4>2, <4>4
    <3> QED
      BY <1>a, <1>b, <2>1, <2>4, <3>1, <3>2, <3>3
  <2> QED
    BY <2>5, <2>6
<1>5. CASE N!Pumped
  <2>1. /\ pc = "pump" /\ inbox = <<>> /\ UNCHANGED <<queue, events, status, inflight, inbox>>
        /\ pc' = "host" \/ (pc' = "flush" /\ resume' = "host")
    BY <1>5 DEF N!Pumped, N!Flushing, N!board
  <2> QED
    BY <1>d, <1>f, <2>1 DEF Spoken
<1>6. CASE N!Release
  <2> DEFINE entry == Head(held)
  <2>1. entry \in NetEntry
    BY <1>6 DEF N!Release, NetType
  <2>2. pc = "flush" /\ UNCHANGED <<pc, status, inbox, resume>>
    BY <1>6 DEF N!Release
  <2>3. CASE N!FitsAir(entry.size) /\ ~N!BoardFull
    BY <1>6, <1>g, <2>1, <2>2, <2>3, FrameEntry DEF N!Release
  <2>4. CASE ~(N!FitsAir(entry.size) /\ ~N!BoardFull)
    <3>1. N!NoBoard /\ UNCHANGED inflight
      BY <1>6, <2>4 DEF N!Release
    <3> QED
      BY <1>d, <1>f, <2>2, <3>1 DEF N!NoBoard, Spoken
  <2> QED
    BY <2>3, <2>4
<1>7. CASE N!Flushed
  <2>1. /\ pc = "flush" /\ pc' = resume /\ UNCHANGED <<status, inflight, inbox, resume>>
        /\ N!WriteStalls \/ N!AcceptProbe \/ N!NoBoard
    BY <1>7 DEF N!Flushed
  <2>2. queue' = queue /\ Spoken
    BY <2>1, Probed
  <2>3. pc' # "flush"
    BY <2>1 DEF NetType
  <2> QED
    BY <1>d, <1>f, <2>1, <2>2, <2>3
<1>8. CASE N!Deadline
  BY <1>8, <1>d, <1>f DEF N!Deadline, N!board, Spoken
<1>9. CASE N!ProbeTimer
  BY <1>9, <1>d, <1>f DEF N!ProbeTimer, N!board, Spoken
<1>10. CASE N!BoardStep /\ UNCHANGED <<N!others, holding>>
  <2>1. UNCHANGED <<pc, status, inflight, inbox, resume>>
    BY <1>10 DEF N!others
  <2>2. CASE Drained
    <3>1. Len(queue') <= Len(queue)
      BY <2>2 DEF Drained, NetType
    <3> QED
      BY <1>f, <2>1, <2>2, <3>1 DEF Drained, Spoken
  <2>3. CASE Reported
    <3> DEFINE e == N!Status(Len(queue), rungNow)
    <3>1. e \in NetEvent /\ e.kind = "status"
      BY <1>d, StatusIsEvent DEF NetType
    <3>2. events' = Append(events, e) /\ queue' = queue /\ Stats(events) < MaxReports
      BY <2>3 DEF Reported, Stats
    <3>3. ASSUME holding, NEW x \in Nat, NEW y \in Nat, GateTotal(x, y)
          PROVE  \E x2, y2 \in Nat : GateTotal(x2, y2)'
      <4>1. Load + x + (y + Allow(e)) <= Bound
        BY <2>3, <3>3, ReportFits
      <4>2. Allow(e) \in Nat
        BY <1>e, <3>1, AllowNat
      <4> HIDE DEF e
      <4>3. Sums(inbox', x) /\ Sums(events', y + Allow(e)) /\ y + Allow(e) \in Nat
        BY <1>0, <2>1, <3>1, <3>2, <3>3, <4>2, SumsAppend DEF GateTotal
      <4>4. Load' = Load
        BY <2>1, <3>2 DEF Load, Usable, Room, N!BoardFull, Stats
      <4> QED
        BY <1>c, <4>1, <4>3, <4>4
    <3> HIDE DEF e
    <3>4. Stats(events') = Stats(events) + 1
      BY <1>0, <3>1, <3>2, CountAppend DEF Stats
    <3>5. Stats(events') <= MaxReports
      BY <1>0, <1>a, <3>2, <3>4
    <3> QED
      BY <1>a, <1>b, <2>1, <3>3, <3>5
  <2>4. CASE UNCHANGED <<queue, events>>
    BY <1>d, <1>f, <2>1, <2>4 DEF Spoken
  <2> QED
    BY <1>10, <2>2, <2>3, <2>4, NetBoardMoves DEF NetType
<1> QED
  BY <1>1, <1>2, <1>3, <1>4, <1>5, <1>6, <1>7, <1>8, <1>9, <1>10
     DEF N!Next, N!Loop

-----------------------------------------------------------------------------
NetAssumption == N!BoardAssumption /\ N!BridgeAssumption /\ N!TunnelAssumption
NetInv ==
  NetType /\ Places /\ Kept /\ Lines /\ TunnelGate /\ Gate

LEMMA NetStart ==
  ASSUME NetAssumption, N!HostInit
  PROVE  NetInv
<1> USE DEF NetAssumption
<1>1. NetType /\ Places
  BY TypeStart
<1>2. /\ queue = <<>> /\ taken = <<>> /\ events = <<>> /\ inbox = <<>>
      /\ keep = <<>> /\ held = <<>> /\ offered = 0 /\ refused = 0
      /\ inflight = 0 /\ status = N!NoStatus /\ pc = "host"
  BY DEF N!HostInit, N!Init, N!BoardInit
<1>3. /\ QueueHigh \in Nat /\ QueueHigh # 0 /\ MaxReports \in Nat
  BY DEF N!BoardAssumption, N!BridgeAssumption
<1>4. \A i \in 1..Len(<<>>) : FALSE
  OBVIOUS
<1>5. Count(<<>>, "refused") = 0 /\ Count(<<>>, "status") = 0
  BY CountNone
<1>6. Len(<<>>) = 0
  OBVIOUS
<1>7. Kept
  BY <1>2, <1>5, <1>6 DEF Kept, Onward
<1>8. Lines
  <2>1. InOrder(taken)
    BY <1>2, <1>4 DEF InOrder
  <2> QED
    BY <1>2, <2>1, NoLine DEF Lines
<1>9. TunnelGate
  BY <1>2, <1>3, <1>4, <1>6 DEF TunnelGate, Seen, N!NoStatus
<1>10. Gate
  <2>1. Stats(events) = 0 /\ Stats(inbox) = 0
    BY <1>2, <1>5 DEF Stats
  <2>2. Sums(inbox, 0) /\ Sums(events, 0)
    BY <1>2, SumsNone
  <2>3. Load = QueueHigh
    BY <1>2, <1>3, <1>6 DEF Load, Usable, Room, N!BoardFull, N!NoStatus
  <2>4. QueueHigh <= Bound
    <3>1. CASE MaxReports = 0
      BY <1>3, <3>1 DEF Bound
    <3>2. CASE MaxReports # 0
      <4>1. QueueHigh * 1 <= QueueHigh * (2 * MaxReports)
        <5>1. 1 <= 2 * MaxReports /\ 2 * MaxReports \in Nat
          BY <1>3, <3>2
        <5> QED
          BY <1>3, <5>1, TimesLE
      <4>2. QueueHigh * 1 = QueueHigh
        BY <1>3
      <4> QED
        BY <3>2, <4>1, <4>2 DEF Bound
    <3> QED
      BY <3>1, <3>2
  <2>5. GateTotal(0, 0)
    <3>1. QueueHigh + 0 + 0 <= Bound
      BY <1>3, <2>4
    <3> QED
      BY <2>2, <2>3, <3>1 DEF GateTotal
  <2> QED
    BY <1>2, <1>3, <2>1, <2>5 DEF Gate
<1> QED
  BY <1>1, <1>7, <1>8, <1>9, <1>10 DEF NetInv

LEMMA NetStep ==
  ASSUME NetAssumption, NetInv, [N!HostNext]_(N!allvars)
  PROVE  NetInv'
<1> USE DEF NetAssumption
<1>1. CASE program = "bridge" /\ UNCHANGED program /\ N!Next
  <2>1. NetType' /\ Places'
    BY <1>1, BridgeTypes DEF NetInv
  <2>2. Kept' /\ Lines' /\ Gate'
    BY <1>1, <2>1, KeptBridge, LinesBridge, GateBridge DEF NetInv
  <2>3. TunnelGate'
    BY <1>1 DEF TunnelGate
  <2> QED
    BY <2>1, <2>2, <2>3 DEF NetInv
<1>2. CASE /\ program = "tunnel" /\ UNCHANGED program
           /\ \/ N!TunLoop
              \/ N!ProbeTimer
              \/ N!BoardStep /\ UNCHANGED <<N!others, holding>>
  <2>1. NetType' /\ Places'
    BY <1>2, TunnelTypes DEF NetInv
  <2>2. Kept' /\ Lines' /\ TunnelGate'
    BY <1>2, <2>1, KeptTunnel, LinesTunnel, TunnelGateKept DEF NetInv
  <2>3. Gate'
    BY <1>2 DEF Gate
  <2> QED
    BY <2>1, <2>2, <2>3 DEF NetInv
<1>3. CASE UNCHANGED N!allvars
  <2>1. /\ UNCHANGED <<queue, taken, probing, rungNow, events, holding, program>>
        /\ UNCHANGED <<pc, status, inflight, held, keep, needRung, resume, inbox,
                       refused, offered>>
    BY <1>3 DEF N!allvars, N!vars, N!board, N!others
  <2>2. NetType' /\ Places'
    BY <2>1 DEF NetInv, NetType, Places
  <2>3. Kept'
    BY <2>1 DEF NetInv, Kept, Onward
  <2>4. Lines'
    BY <2>1 DEF NetInv, Lines, Known, Stopped, N!BoardFull, N!FitsAir
  <2>5. TunnelGate'
    BY <2>1 DEF NetInv, TunnelGate, Seen
  <2>6. Gate'
    BY <2>1 DEF NetInv, Gate, Stats, GateTotal, Load, Usable, Room, N!BoardFull
  <2> QED
    BY <2>2, <2>3, <2>4, <2>5, <2>6 DEF NetInv
<1> QED
  <2>1. N!HostNext => (program = "bridge" /\ UNCHANGED program /\ N!Next)
                    \/ (/\ program = "tunnel" /\ UNCHANGED program
                        /\ \/ N!TunLoop
                           \/ N!ProbeTimer
                           \/ N!BoardStep /\ UNCHANGED <<N!others, holding>>)
    BY DEF N!HostNext
  <2> QED
    BY <1>1, <1>2, <1>3, <2>1

LEMMA NetTrue ==
  ASSUME NetAssumption, NetInv
  PROVE  /\ program = "bridge" \/ TunnelRoom => N!NothingSilent
         /\ N!FifoPerSize /\ N!GateKept
<1> USE DEF NetAssumption
<1>1. /\ Len(keep) \in Nat /\ Len(held) \in Nat /\ Len(taken) \in Nat
      /\ refused \in Nat /\ offered \in Nat /\ Len(queue) \in Nat
      /\ Count(events, "refused") \in Nat /\ Count(inbox, "refused") \in Nat
      /\ program \in {"bridge", "tunnel"}
  BY CountNat DEF NetInv, NetType
<1>2. program = "bridge" \/ TunnelRoom => N!NothingSilent
  <2>1. Len(N!Waiting) = Len(keep) + Len(held)
    BY DEF N!Waiting, NetInv, NetType
  <2>2. N!RefusalsToCome = Count(events, "refused") + Count(inbox, "refused")
    BY NetCardinality DEF N!RefusalsToCome, Count
  <2> DEFINE w == Len(N!Waiting)
             r == N!RefusalsToCome
  <2>3. w \in Nat /\ r \in Nat
    BY <1>1, <2>1, <2>2
  <2> HIDE DEF w, r
  <2>4. CASE program = "bridge"
    <3>1. offered <= Onward + Count(events, "refused") + Count(inbox, "refused")
      BY <2>4 DEF NetInv, Kept
    <3>2. offered <= Len(taken) + w + refused + r
      BY <1>1, <2>1, <2>2, <3>1 DEF Onward, w, r
    <3> QED
      BY <3>2 DEF N!NothingSilent, w, r
  <2>5. CASE program = "tunnel" /\ TunnelRoom
    <3>1. offered <= Len(taken) + refused
      BY <2>5 DEF NetInv, Kept
    <3>2. offered <= Len(taken) + w + refused + r
      BY <1>1, <2>3, <3>1
    <3> QED
      BY <3>2 DEF N!NothingSilent, w, r
  <2> QED
    BY <1>1, <2>4, <2>5
<1>3. N!FifoPerSize
  <2>1. DOMAIN taken = 1..Len(taken)
    BY DEF NetInv, NetType
  <2> QED
    BY <2>1 DEF NetInv, Lines, InOrder, N!FifoPerSize
<1>4. N!GateKept
  <2>1. ASSUME holding
        PROVE  Len(queue) <= QueueHigh * (IF MaxReports = 0 THEN 1 ELSE 2 * MaxReports)
    <3>1. program = "bridge"
      BY <1>1, <2>1 DEF NetInv, Places
    <3>2. PICK x \in Nat, y \in Nat : Load + x + y <= Bound
      BY <2>1, <3>1 DEF NetInv, Gate, GateTotal
    <3> DEFINE n == Len(queue)
               u == Usable
               m == Bound
    <3>3. n \in Nat /\ u \in Nat /\ m \in Nat /\ n + u + x + y <= m
      <4>1. QueueHigh \in Nat /\ MaxReports \in Nat
        BY DEF N!BridgeAssumption, N!BoardAssumption
      <4>2. u \in 0..QueueHigh
        BY RoomNat DEF NetInv
      <4>3. m \in Nat
        BY <4>1 DEF Bound
      <4> QED
        BY <1>1, <3>2, <4>1, <4>2, <4>3 DEF Load
    <3> HIDE DEF n, u, m
    <3>4. n <= m
      BY <3>3
    <3>5. m = QueueHigh * (IF MaxReports = 0 THEN 1 ELSE 2 * MaxReports)
      <4>1. QueueHigh \in Nat
        BY DEF N!BridgeAssumption
      <4>2. QueueHigh * 1 = QueueHigh
        BY <4>1
      <4> QED
        BY <4>2 DEF m, Bound
    <3> QED
      BY <3>4, <3>5 DEF n
  <2> QED
    BY <2>1 DEF N!GateKept, NetInv, TunnelGate
<1> QED
  BY <1>2, <1>3, <1>4

-----------------------------------------------------------------------------
(* The KISS line.  What a decoder has read so far, and what is left in the *)
(* pipe, decode to what the program wrote, wherever the reads cut it.      *)
(* FiniteSets is instantiated with the component.                          *)
LEMMA WireCardinality == \A X : K!Cardinality(X) = Cardinality(X)
  BY DEF K!Cardinality, Cardinality
LEMMA WireFinite == \A X : K!IsFiniteSet(X) = IsFiniteSet(X)
  BY DEF K!IsFiniteSet, IsFiniteSet

Decoder ==
  [buf : Seq(K!Byte), in_frame : BOOLEAN, escape : BOOLEAN, out : Seq(Seq(K!Byte))]

LEMMA PushByteType ==
  ASSUME K!Distinct, NEW d \in Decoder, NEW b \in K!Byte
  PROVE  K!PushByte(d, b) \in Decoder
<1>1. /\ d.buf \in Seq(K!Byte) /\ d.in_frame \in BOOLEAN /\ d.escape \in BOOLEAN
      /\ d.out \in Seq(Seq(K!Byte))
  BY DEF Decoder
<1>2. FEND \in K!Byte /\ FESC \in K!Byte
  BY DEF K!Byte
<1>3. CASE b = FEND
  <2>1. K!PushByte(d, b) = [buf |-> <<>>, in_frame |-> TRUE, escape |-> FALSE,
          out |-> IF d.in_frame /\ d.buf # <<>> THEN Append(d.out, d.buf)
                  ELSE d.out]
    BY <1>3 DEF K!PushByte, K!Distinct
  <2>2. Append(d.out, d.buf) \in Seq(Seq(K!Byte)) /\ <<>> \in Seq(K!Byte)
    BY <1>1
  <2> QED
    BY <1>1, <2>1, <2>2 DEF Decoder
<1>4. CASE b # FEND /\ ~d.in_frame
  BY <1>4 DEF K!PushByte
<1>5. CASE b # FEND /\ d.in_frame /\ d.escape
  <2> DEFINE e == CASE b = TFEND -> FEND [] b = TFESC -> FESC [] OTHER -> b
  <2>1. e \in K!Byte
    BY <1>2
  <2>2. K!PushByte(d, b) = [d EXCEPT !.escape = FALSE, !.buf = Append(@, e)]
    BY <1>5 DEF K!PushByte
  <2> HIDE DEF e
  <2>3. Append(d.buf, e) \in Seq(K!Byte)
    BY <1>1, <2>1
  <2> QED
    BY <1>1, <2>2, <2>3 DEF Decoder
<1>6. CASE b = FESC /\ b # FEND /\ d.in_frame /\ ~d.escape
  <2>1. K!PushByte(d, b) = [d EXCEPT !.escape = TRUE]
    BY <1>6 DEF K!PushByte
  <2> QED
    BY <2>1 DEF Decoder
<1>7. CASE b # FESC /\ b # FEND /\ d.in_frame /\ ~d.escape
  <2>1. K!PushByte(d, b) = [d EXCEPT !.buf = Append(@, b)]
    BY <1>7 DEF K!PushByte
  <2>2. Append(d.buf, b) \in Seq(K!Byte)
    BY <1>1
  <2> QED
    BY <1>1, <2>1, <2>2 DEF Decoder
<1> QED
  BY <1>1, <1>3, <1>4, <1>5, <1>6, <1>7

(* A decoder that is fed byte by byte.                                     *)
Runs(f, d, data) ==
  f = [n \in 0 .. Len(data) |-> IF n = 0 THEN d ELSE K!PushByte(f[n - 1], data[n])]

LEMMA RunIs ==
  ASSUME NEW d, NEW data
  PROVE  K!push(d, data) = (CHOOSE f : Runs(f, d, data))[Len(data)]
  BY DEF K!push, Runs

LEMMA RunExists ==
  ASSUME NEW d \in Decoder, NEW data \in Seq(K!Byte)
  PROVE  \E f : Runs(f, d, data)
<1> DEFINE Upto(f, m) ==
             f = [n \in 0..m |-> IF n = 0 THEN d ELSE K!PushByte(f[n - 1], data[n])]
           G == {m \in Nat : \E f : Upto(f, m)}
<1>1. 0 \in G
  <2> DEFINE f == [n \in 0..0 |-> d]
  <2>1. f = [n \in 0..0 |-> IF n = 0 THEN d ELSE K!PushByte(f[n - 1], data[n])]
    OBVIOUS
  <2> HIDE DEF f
  <2> QED
    BY <2>1
<1>2. ASSUME NEW m \in Nat, m \in G PROVE m + 1 \in G
  <2>1. PICK f : Upto(f, m)
    BY <1>2
  <2> DEFINE g == [n \in 0..m + 1 |-> IF n = m + 1 THEN K!PushByte(f[m], data[m + 1])
                                      ELSE f[n]]
  <2>2. /\ g[m + 1] = K!PushByte(f[m], data[m + 1])
        /\ \A n \in 0..m : g[n] = f[n]
    OBVIOUS
  <2>3. g = [n \in 0..m + 1 |-> g[n]]
    OBVIOUS
  <2> HIDE DEF g
  <2>4. \A n \in 0..m + 1 :
          g[n] = IF n = 0 THEN d ELSE K!PushByte(g[n - 1], data[n])
    <3> SUFFICES ASSUME NEW n \in 0..m + 1
                 PROVE  g[n] = IF n = 0 THEN d ELSE K!PushByte(g[n - 1], data[n])
      OBVIOUS
    <3>1. CASE n = m + 1
      <4>1. n - 1 = m /\ m \in 0..m /\ n # 0
        BY <3>1
      <4> QED
        BY <2>2, <3>1, <4>1
    <3>2. CASE n # m + 1
      <4>1. n \in 0..m /\ (n # 0 => n - 1 \in 0..m)
        BY <3>2
      <4>2. f[n] = IF n = 0 THEN d ELSE K!PushByte(f[n - 1], data[n])
        BY <2>1, <4>1
      <4> QED
        BY <2>2, <4>1, <4>2
    <3> QED
      BY <3>1, <3>2
  <2>5. Upto(g, m + 1)
    BY <2>3, <2>4
  <2> QED
    BY <2>5
<1>3. \A m \in Nat : m \in G
  <2> HIDE DEF G
  <2> QED
    BY <1>1, <1>2, Induct, Zenon
<1>4. Len(data) \in G
  BY <1>3
<1> QED
  BY <1>4 DEF Runs

LEMMA Run ==
  ASSUME NEW d \in Decoder, NEW data \in Seq(K!Byte)
  PROVE  \E f : /\ Runs(f, d, data) /\ K!push(d, data) = f[Len(data)]
<1>1. Runs(CHOOSE f : Runs(f, d, data), d, data)
  BY RunExists
<1> QED
  BY <1>1, RunIs

LEMMA PushNone ==
  ASSUME NEW d \in Decoder
  PROVE  K!push(d, <<>>) = d
<1>1. PICK f : Runs(f, d, <<>>) /\ K!push(d, <<>>) = f[Len(<<>>)]
  <2>1. <<>> \in Seq(K!Byte)
    OBVIOUS
  <2> QED
    BY <2>1, Run
<1>2. f[0] = d
  BY <1>1 DEF Runs
<1> QED
  BY <1>1, <1>2

LEMMA PushLast ==
  ASSUME NEW d \in Decoder, NEW s \in Seq(K!Byte), NEW b \in K!Byte
  PROVE  K!push(d, Append(s, b)) = K!PushByte(K!push(d, s), b)
<1> DEFINE r == Append(s, b)
           n == Len(s)
<1>1. n \in Nat /\ Len(r) = n + 1 /\ r[n + 1] = b /\ r \in Seq(K!Byte)
      /\ \A i \in 1..n : r[i] = s[i]
  OBVIOUS
<1> HIDE DEF r, n
<1>2. PICK f : Runs(f, d, s) /\ K!push(d, s) = f[n]
  BY Run DEF n
<1>3. PICK g : Runs(g, d, r) /\ K!push(d, r) = g[n + 1]
  BY <1>1, Run
<1> DEFINE G == {i \in Nat : i <= n => f[i] = g[i]}
<1>4. 0 \in G
  BY <1>1, <1>2, <1>3 DEF Runs, n
<1>5. ASSUME NEW i \in Nat, i \in G PROVE i + 1 \in G
  <2> SUFFICES ASSUME i + 1 <= n PROVE f[i + 1] = g[i + 1]
    OBVIOUS
  <2>0. n \in Nat /\ i \in Nat /\ i + 1 <= n
    BY <1>1
  <2>1. /\ i + 1 \in 0..n /\ i + 1 # 0 /\ (i + 1) - 1 = i /\ i + 1 \in 0..n + 1
        /\ i + 1 \in 1..n /\ i <= n
    BY <2>0
  <2>2. f[i + 1] = K!PushByte(f[i], s[i + 1])
    BY <1>2, <2>1 DEF Runs, n
  <2>3. g[i + 1] = K!PushByte(g[i], r[i + 1])
    BY <1>1, <1>3, <2>1 DEF Runs
  <2> QED
    BY <1>1, <1>5, <2>1, <2>2, <2>3
<1> HIDE DEF G
<1>6. \A i \in Nat : i \in G
  BY <1>4, <1>5, Induct, Zenon
<1>7. f[n] = g[n]
  BY <1>1, <1>6 DEF G
<1>8. g[n + 1] = K!PushByte(g[n], r[n + 1])
  <2>1. n + 1 \in 0..n + 1 /\ n + 1 # 0 /\ (n + 1) - 1 = n
    BY <1>1
  <2> QED
    BY <1>1, <1>3, <2>1 DEF Runs
<1> QED
  BY <1>1, <1>2, <1>3, <1>7, <1>8 DEF r

(* A sequence that is not empty has a last element.                        *)
LEMMA LastOf ==
  ASSUME NEW G, NEW n \in Nat, NEW t \in Seq(G), Len(t) = n + 1
  PROVE  \E u \in Seq(G), b \in G : Len(u) = n /\ t = Append(u, b)
<1> DEFINE u == SubSeq(t, 1, n)
           b == t[n + 1]
<1>1. u \in Seq(G) /\ b \in G /\ Len(u) = n /\ \A i \in 1..n : u[i] = t[i]
  OBVIOUS
<1> HIDE DEF u
<1>2. t = Append(u, b)
  BY <1>1
<1> QED
  BY <1>1, <1>2

(* Induction over sequences, the way they grow.                            *)
LEMMA SeqInduct ==
  ASSUME NEW B, NEW P, <<>> \in P,
         \A u \in Seq(B), b \in B : u \in P => Append(u, b) \in P
  PROVE  \A t \in Seq(B) : t \in P
<1> DEFINE G == {n \in Nat : \A t \in Seq(B) : Len(t) = n => t \in P}
<1>1. 0 \in G
  <2>1. \A t \in Seq(B) : Len(t) = 0 => t = <<>>
    OBVIOUS
  <2> QED
    BY <2>1
<1>2. ASSUME NEW n \in Nat, n \in G PROVE n + 1 \in G
  <2> SUFFICES ASSUME NEW t \in Seq(B), Len(t) = n + 1
               PROVE  t \in P
    OBVIOUS
  <2>1. PICK u \in Seq(B), b \in B : Len(u) = n /\ t = Append(u, b)
    BY LastOf
  <2> QED
    BY <1>2, <2>1
<1> HIDE DEF G
<1>3. \A n \in Nat : n \in G
  BY <1>1, <1>2, Induct, Zenon
<1>4. \A t \in Seq(B) : Len(t) \in G
  BY <1>3
<1> QED
  BY <1>4 DEF G

LEMMA PushType ==
  ASSUME K!Distinct, NEW d \in Decoder, NEW data \in Seq(K!Byte)
  PROVE  K!push(d, data) \in Decoder
<1> DEFINE G == {t \in Seq(K!Byte) : K!push(d, t) \in Decoder}
<1>1. <<>> \in G
  BY PushNone
<1>2. ASSUME NEW u \in Seq(K!Byte), NEW b \in K!Byte, u \in G PROVE Append(u, b) \in G
  BY <1>2, PushLast, PushByteType
<1> HIDE DEF G
<1>3. \A t \in Seq(K!Byte) : t \in G
  BY <1>1, <1>2, SeqInduct
<1> QED
  BY <1>3 DEF G

LEMMA PushBoth ==
  ASSUME K!Distinct, NEW d \in Decoder, NEW s \in Seq(K!Byte), NEW data \in Seq(K!Byte)
  PROVE  K!push(d, s \o data) = K!push(K!push(d, s), data)
<1> DEFINE G == {t \in Seq(K!Byte) : K!push(d, s \o t) = K!push(K!push(d, s), t)}
<1>0. K!push(d, s) \in Decoder
  BY PushType
<1>1. <<>> \in G
  <2>1. s \o <<>> = s /\ <<>> \in Seq(K!Byte)
    OBVIOUS
  <2> QED
    BY <1>0, <2>1, PushNone
<1>2. ASSUME NEW u \in Seq(K!Byte), NEW b \in K!Byte, u \in G PROVE Append(u, b) \in G
  <2>2. s \o Append(u, b) = Append(s \o u, b) /\ s \o u \in Seq(K!Byte)
        /\ Append(u, b) \in Seq(K!Byte)
    OBVIOUS
  <2>3. K!push(d, s \o Append(u, b)) = K!PushByte(K!push(d, s \o u), b)
    BY <2>2, PushLast
  <2>4. K!push(d, s \o u) = K!push(K!push(d, s), u)
    BY <1>2
  <2>5. K!push(K!push(d, s), Append(u, b)) = K!PushByte(K!push(K!push(d, s), u), b)
    BY <1>0, PushLast
  <2> QED
    BY <2>2, <2>3, <2>4, <2>5
<1> HIDE DEF G
<1>3. \A t \in Seq(K!Byte) : t \in G
  BY <1>1, <1>2, SeqInduct
<1> QED
  BY <1>3 DEF G

(* What comes out of a decoder is what came out before and then the rest.  *)
Emptied(d) == [d EXCEPT !.out = <<>>]
Follow(d, e) == [e EXCEPT !.out = d.out \o @]

LEMMA DecoderIs ==
  ASSUME NEW d \in Decoder
  PROVE  /\ d.buf \in Seq(K!Byte) /\ d.in_frame \in BOOLEAN /\ d.escape \in BOOLEAN
         /\ d.out \in Seq(Seq(K!Byte))
         /\ d = [buf |-> d.buf, in_frame |-> d.in_frame, escape |-> d.escape,
                 out |-> d.out]
  BY DEF Decoder

LEMMA AfterIs ==
  ASSUME NEW d \in Decoder, NEW e \in Decoder
  PROVE  /\ Emptied(d) = [buf |-> d.buf, in_frame |-> d.in_frame,
                          escape |-> d.escape, out |-> <<>>]
         /\ Follow(d, e) = [buf |-> e.buf, in_frame |-> e.in_frame,
                           escape |-> e.escape, out |-> d.out \o e.out]
<1> DEFINE m == Emptied(d)
           a == Follow(d, e)
           q == d.out \o e.out
<1>1. /\ d = [buf |-> d.buf, in_frame |-> d.in_frame, escape |-> d.escape,
              out |-> d.out]
      /\ e = [buf |-> e.buf, in_frame |-> e.in_frame, escape |-> e.escape,
              out |-> e.out]
  BY DecoderIs
<1>2. m = [d EXCEPT !.out = <<>>] /\ a = [e EXCEPT !.out = q]
  BY DEF Emptied, Follow
<1> HIDE DEF m, a, q
<1>3. m = [buf |-> d.buf, in_frame |-> d.in_frame, escape |-> d.escape,
           out |-> <<>>]
  BY <1>1, <1>2
<1>4. a = [buf |-> e.buf, in_frame |-> e.in_frame, escape |-> e.escape, out |-> q]
  BY <1>1, <1>2
<1> QED
  BY <1>3, <1>4 DEF m, a, q

LEMMA EmptiedType ==
  ASSUME NEW d \in Decoder
  PROVE  /\ Emptied(d) \in Decoder /\ Emptied(d).out = <<>>
         /\ Follow(d, Emptied(d)) = d
<1>1. /\ d.buf \in Seq(K!Byte) /\ d.in_frame \in BOOLEAN /\ d.escape \in BOOLEAN
      /\ d.out \in Seq(Seq(K!Byte))
      /\ d = [buf |-> d.buf, in_frame |-> d.in_frame, escape |-> d.escape,
              out |-> d.out]
  BY DecoderIs
<1>2. Emptied(d) = [buf |-> d.buf, in_frame |-> d.in_frame,
                    escape |-> d.escape, out |-> <<>>]
  BY AfterIs
<1>3. <<>> \in Seq(Seq(K!Byte))
  OBVIOUS
<1>4. Emptied(d) \in Decoder
  BY <1>1, <1>2, <1>3 DEF Decoder
<1>5. d.out \o <<>> = d.out
  BY <1>1
<1>6. Follow(d, Emptied(d)) = [buf |-> Emptied(d).buf, in_frame |-> Emptied(d).in_frame,
          escape |-> Emptied(d).escape, out |-> d.out \o Emptied(d).out]
  BY <1>4, AfterIs
<1> QED
  BY <1>1, <1>2, <1>4, <1>5, <1>6

LEMMA AfterType ==
  ASSUME NEW d \in Decoder, NEW e \in Decoder
  PROVE  Follow(d, e) \in Decoder
<1>0. d.out \in Seq(Seq(K!Byte)) /\ e.out \in Seq(Seq(K!Byte))
  BY DecoderIs
<1>1. d.out \o e.out \in Seq(Seq(K!Byte))
  BY <1>0
<1>2. Follow(d, e) = [buf |-> e.buf, in_frame |-> e.in_frame, escape |-> e.escape,
                     out |-> d.out \o e.out]
  BY AfterIs
<1>3. e.buf \in Seq(K!Byte) /\ e.in_frame \in BOOLEAN /\ e.escape \in BOOLEAN
  BY DecoderIs
<1> QED
  BY <1>1, <1>2, <1>3 DEF Decoder

LEMMA AppendAfter ==
  ASSUME NEW B, NEW s \in Seq(B), NEW t \in Seq(B), NEW b \in B
  PROVE  Append(s \o t, b) = s \o Append(t, b)
  OBVIOUS

(* What PushByte does to each field.                                       *)
LEMMA ByteAfter ==
  ASSUME K!Distinct, NEW d \in Decoder, NEW e \in Decoder, NEW b \in K!Byte
  PROVE  K!PushByte(Follow(d, e), b) = Follow(d, K!PushByte(e, b))
<1> DEFINE a == Follow(d, e)
           z == K!PushByte(e, b)
<1>b. a = [buf |-> e.buf, in_frame |-> e.in_frame, escape |-> e.escape,
           out |-> d.out \o e.out]
  BY AfterIs
<1>1. /\ a.buf = e.buf /\ a.in_frame = e.in_frame /\ a.escape = e.escape
      /\ a.out = d.out \o e.out
      /\ a = [buf |-> e.buf, in_frame |-> e.in_frame, escape |-> e.escape,
              out |-> d.out \o e.out]
  <2> HIDE DEF a
  <2> QED
    BY <1>b
<1>2. /\ d.out \in Seq(Seq(K!Byte)) /\ e.out \in Seq(Seq(K!Byte)) /\ e.buf \in Seq(K!Byte)
      /\ e.in_frame \in BOOLEAN /\ e.escape \in BOOLEAN
      /\ e = [buf |-> e.buf, in_frame |-> e.in_frame, escape |-> e.escape,
              out |-> e.out]
  BY DecoderIs
<1>z. /\ z \in Decoder
      /\ Follow(d, z) = [buf |-> z.buf, in_frame |-> z.in_frame, escape |-> z.escape,
                        out |-> d.out \o z.out]
  BY PushByteType, AfterIs
<1>a. a \in Decoder
  BY AfterType
<1> DEFINE q == d.out \o e.out
<1> HIDE DEF a, z, q
<1>3. CASE b = FEND
  <2> DEFINE y == IF e.in_frame /\ e.buf # <<>> THEN Append(e.out, e.buf) ELSE e.out
  <2>1. K!PushByte(a, b) = [buf |-> <<>>, in_frame |-> TRUE, escape |-> FALSE,
          out |-> IF a.in_frame /\ a.buf # <<>> THEN Append(a.out, a.buf)
                  ELSE a.out]
    BY <1>3 DEF K!PushByte, K!Distinct
  <2>2. z = [buf |-> <<>>, in_frame |-> TRUE, escape |-> FALSE, out |-> y]
    <3>1. z = [buf |-> <<>>, in_frame |-> TRUE, escape |-> FALSE,
               out |-> IF e.in_frame /\ e.buf # <<>> THEN Append(e.out, e.buf)
                       ELSE e.out]
      BY <1>3 DEF K!PushByte, K!Distinct, z
    <3> QED
      BY <3>1, Zenon
  <2>3. Append(d.out \o e.out, e.buf) = d.out \o Append(e.out, e.buf)
    <3> DEFINE Elem == Seq(K!Byte)
    <3>1. d.out \in Seq(Elem) /\ e.out \in Seq(Elem) /\ e.buf \in Elem
      BY <1>2
    <3> HIDE DEF Elem
    <3> DEFINE s == d.out
               t == e.out
               u == e.buf
    <3>2. s \in Seq(Elem) /\ t \in Seq(Elem) /\ u \in Elem
      BY <3>1
    <3> HIDE DEF s, t, u
    <3>3. Append(s \o t, u) = s \o Append(t, u)
      BY <3>2
    <3> QED
      BY <3>3 DEF s, t, u
  <2>4. d.out \o y = IF e.in_frame /\ e.buf # <<>> THEN Append(d.out \o e.out, e.buf)
                    ELSE d.out \o e.out
    BY <2>3
  <2> HIDE DEF y
  <2>5. K!PushByte(a, b) = [buf |-> <<>>, in_frame |-> TRUE, escape |-> FALSE,
                          out |-> d.out \o y]
    BY <1>1, <2>1, <2>4
  <2>6. Follow(d, z) = [buf |-> <<>>, in_frame |-> TRUE, escape |-> FALSE,
                          out |-> d.out \o y]
    BY <1>z, <2>2
  <2> QED
    BY <2>5, <2>6 DEF a, z
<1>4. CASE b # FEND /\ ~e.in_frame
  <2>1. z = e
    BY <1>4 DEF K!PushByte, z
  <2>2. K!PushByte(a, b) = a
    BY <1>1, <1>4 DEF K!PushByte
  <2> QED
    BY <2>1, <2>2 DEF a, z
<1>5. CASE b # FEND /\ e.in_frame /\ e.escape
  <2> DEFINE x == CASE b = TFEND -> FEND [] b = TFESC -> FESC [] OTHER -> b
  <2>1. z = [e EXCEPT !.escape = FALSE, !.buf = Append(@, x)]
    BY <1>5 DEF K!PushByte, z
  <2>2. K!PushByte(a, b) = [a EXCEPT !.escape = FALSE, !.buf = Append(@, x)]
    BY <1>1, <1>5 DEF K!PushByte
  <2> HIDE DEF x
  <2>3. z = [buf |-> Append(e.buf, x), in_frame |-> e.in_frame, escape |-> FALSE,
             out |-> e.out]
    BY <1>2, <2>1
  <2>4. K!PushByte(a, b) = [buf |-> Append(e.buf, x), in_frame |-> e.in_frame,
                          escape |-> FALSE, out |-> d.out \o e.out]
    BY <1>1, <2>2
  <2> QED
    BY <1>z, <2>3, <2>4 DEF a, z
<1>6. CASE b = FESC /\ b # FEND /\ e.in_frame /\ ~e.escape
  <2>1. z = [e EXCEPT !.escape = TRUE]
    BY <1>6 DEF K!PushByte, z
  <2>2. K!PushByte(a, b) = [a EXCEPT !.escape = TRUE]
    BY <1>1, <1>6 DEF K!PushByte
  <2>3. z = [buf |-> e.buf, in_frame |-> e.in_frame, escape |-> TRUE,
             out |-> e.out]
    BY <1>2, <2>1
  <2>4. K!PushByte(a, b) = [buf |-> e.buf, in_frame |-> e.in_frame,
                          escape |-> TRUE, out |-> d.out \o e.out]
    BY <1>1, <2>2
  <2> QED
    BY <1>z, <2>3, <2>4 DEF a, z
<1>7. CASE b # FESC /\ b # FEND /\ e.in_frame /\ ~e.escape
  <2>1. z = [e EXCEPT !.buf = Append(@, b)]
    BY <1>7 DEF K!PushByte, z
  <2>2. K!PushByte(a, b) = [a EXCEPT !.buf = Append(@, b)]
    BY <1>1, <1>7 DEF K!PushByte
  <2>3. z = [buf |-> Append(e.buf, b), in_frame |-> e.in_frame, escape |-> e.escape,
             out |-> e.out]
    BY <1>2, <2>1
  <2>4. K!PushByte(a, b) = [buf |-> Append(e.buf, b), in_frame |-> e.in_frame,
                          escape |-> e.escape, out |-> d.out \o e.out]
    BY <1>1, <2>2
  <2> QED
    BY <1>z, <2>3, <2>4 DEF a, z
<1> QED
  BY <1>2, <1>3, <1>4, <1>5, <1>6, <1>7

LEMMA PushAfter ==
  ASSUME K!Distinct, NEW d \in Decoder, NEW data \in Seq(K!Byte)
  PROVE  K!push(d, data) = Follow(d, K!push(Emptied(d), data))
<1> DEFINE G == {t \in Seq(K!Byte) : K!push(d, t) = Follow(d, K!push(Emptied(d), t))}
<1>0. Emptied(d) \in Decoder /\ Follow(d, Emptied(d)) = d
  BY EmptiedType
<1>1. <<>> \in G
  BY <1>0, PushNone
<1>2. ASSUME NEW u \in Seq(K!Byte), NEW b \in K!Byte, u \in G PROVE Append(u, b) \in G
  <2>2. K!push(d, Append(u, b)) = K!PushByte(K!push(d, u), b)
    BY PushLast
  <2>3. K!push(d, u) = Follow(d, K!push(Emptied(d), u))
    BY <1>2
  <2>4. K!push(Emptied(d), Append(u, b)) = K!PushByte(K!push(Emptied(d), u), b)
    BY <1>0, PushLast
  <2>5. K!push(Emptied(d), u) \in Decoder
    BY <1>0, PushType
  <2>6. K!PushByte(Follow(d, K!push(Emptied(d), u)), b) = Follow(d, K!PushByte(K!push(Emptied(d), u), b))
    BY <2>5, ByteAfter
  <2>7. Append(u, b) \in Seq(K!Byte)
    OBVIOUS
  <2> QED
    BY <2>2, <2>3, <2>4, <2>6, <2>7
<1> HIDE DEF G
<1>3. \A t \in Seq(K!Byte) : t \in G
  BY <1>1, <1>2, SeqInduct
<1> QED
  BY <1>3 DEF G

(* FlattenSeq, one sequence more.                                          *)
Flat(f, ss) ==
  f = [i \in 1..Len(ss) |-> IF i = 1 THEN ss[i] ELSE f[i - 1] \o ss[i]]

LEMMA FlatExists ==
  ASSUME NEW B, NEW ss \in Seq(Seq(B))
  PROVE  \E f : Flat(f, ss)
<1> DEFINE Upto(f, m) ==
             f = [i \in 1..m |-> IF i = 1 THEN ss[i] ELSE f[i - 1] \o ss[i]]
           G == {m \in Nat : \E f : Upto(f, m)}
<1>1. 0 \in G
  <2> DEFINE f == [i \in 1..0 |-> 0]
  <2>1. f = [i \in 1..0 |-> IF i = 1 THEN ss[i] ELSE f[i - 1] \o ss[i]]
    OBVIOUS
  <2> HIDE DEF f
  <2> QED
    BY <2>1
<1>2. ASSUME NEW m \in Nat, m \in G PROVE m + 1 \in G
  <2>1. PICK f : Upto(f, m)
    BY <1>2
  <2> DEFINE y == IF m + 1 = 1 THEN ss[m + 1] ELSE f[m] \o ss[m + 1]
             g == [i \in 1..m + 1 |-> IF i = m + 1 THEN y ELSE f[i]]
  <2> HIDE DEF y
  <2>2. /\ g[m + 1] = y
        /\ \A i \in 1..m : g[i] = f[i]
    OBVIOUS
  <2>3. g = [i \in 1..m + 1 |-> g[i]]
    OBVIOUS
  <2> HIDE DEF g
  <2>4. \A i \in 1..m + 1 :
          g[i] = IF i = 1 THEN ss[i] ELSE g[i - 1] \o ss[i]
    <3> SUFFICES ASSUME NEW i \in 1..m + 1
                 PROVE  g[i] = IF i = 1 THEN ss[i] ELSE g[i - 1] \o ss[i]
      OBVIOUS
    <3>1. CASE i = m + 1
      <4>1. i # 1 => i - 1 = m /\ m \in 1..m
        BY <3>1
      <4> QED
        BY <2>2, <3>1, <4>1 DEF y
    <3>2. CASE i # m + 1
      <4>1. i \in 1..m /\ (i # 1 => i - 1 \in 1..m)
        BY <3>2
      <4>2. f[i] = IF i = 1 THEN ss[i] ELSE f[i - 1] \o ss[i]
        BY <2>1, <4>1
      <4> QED
        BY <2>2, <4>1, <4>2
    <3> QED
      BY <3>1, <3>2
  <2> DEFINE h == [i \in 1..m + 1 |-> IF i = 1 THEN ss[i] ELSE g[i - 1] \o ss[i]]
  <2>5. \A i \in 1..m + 1 : h[i] = g[i]
    BY <2>4
  <2>6. h = [i \in 1..m + 1 |-> h[i]]
    OBVIOUS
  <2> HIDE DEF h
  <2>7. g = h
    BY <2>3, <2>5, <2>6
  <2>8. Upto(g, m + 1)
    BY <2>7, Zenon DEF h
  <2> HIDE DEF Upto
  <2>9. \E x : Upto(x, m + 1)
    BY <2>8
  <2> QED
    BY <2>9
<1>3. \A m \in Nat : m \in G
  <2> HIDE DEF G
  <2> QED
    BY <1>1, <1>2, Induct, Zenon
<1> HIDE DEF G
<1>4. Len(ss) \in G
  BY <1>3
<1> QED
  BY <1>4 DEF Flat, G

LEMMA FlatIs ==
  ASSUME NEW ss, Len(ss) # 0
  PROVE  K!FlattenSeq(ss) = (CHOOSE f : Flat(f, ss))[Len(ss)]
  BY DEF K!FlattenSeq, Flat

LEMMA FlatNone == K!FlattenSeq(<<>>) = <<>>
  BY DEF K!FlattenSeq

LEMMA FlatLast ==
  ASSUME NEW B, NEW ss \in Seq(Seq(B)), NEW s \in Seq(B)
  PROVE  K!FlattenSeq(Append(ss, s)) = K!FlattenSeq(ss) \o s
<1> DEFINE r == Append(ss, s)
           n == Len(ss)
<1>1. n \in Nat /\ Len(r) = n + 1 /\ r[n + 1] = s /\ r \in Seq(Seq(B))
      /\ \A i \in 1..n : r[i] = ss[i]
  OBVIOUS
<1> HIDE DEF r
<1>2. PICK g : Flat(g, r) /\ K!FlattenSeq(r) = g[n + 1]
  <2>0. \E g : Flat(g, r)
    BY <1>1, FlatExists
  <2>1. Flat(CHOOSE g : Flat(g, r), r)
    BY <2>0
  <2>2. Len(r) # 0
    BY <1>1
  <2>3. K!FlattenSeq(r) = (CHOOSE g : Flat(g, r))[n + 1]
    BY <1>1, <2>2, FlatIs
  <2> QED
    BY <2>1, <2>3
<1>3. CASE n = 0
  <2>1. ss = <<>>
    BY <1>3
  <2>2. g[1] = s
    BY <1>1, <1>2, <1>3 DEF Flat
  <2>3. K!FlattenSeq(ss) = <<>>
    BY <2>1, FlatNone
  <2>4. <<>> \o s = s
    OBVIOUS
  <2> QED
    BY <1>1, <1>2, <1>3, <2>2, <2>3, <2>4 DEF r
<1>4. CASE n # 0
  <2>1. PICK f : Flat(f, ss) /\ K!FlattenSeq(ss) = f[n]
    <3>1. Flat(CHOOSE f : Flat(f, ss), ss)
      BY FlatExists
    <3> QED
      BY <1>4, <3>1, FlatIs
  <2> HIDE DEF n
  <2> DEFINE G == {i \in Nat : i + 1 <= n => f[i + 1] = g[i + 1]}
  <2>2. 0 \in G
    <3>1. 1 \in 1..n /\ 1 \in 1..n + 1 /\ 0 + 1 = 1
      BY <1>1, <1>4
    <3>2. f[1] = ss[1] /\ g[1] = r[1]
      BY <1>1, <1>2, <2>1, <3>1 DEF Flat, n
    <3> QED
      BY <1>1, <3>1, <3>2
  <2>3. ASSUME NEW i \in Nat, i \in G PROVE i + 1 \in G
    <3> SUFFICES ASSUME (i + 1) + 1 <= n PROVE f[(i + 1) + 1] = g[(i + 1) + 1]
      OBVIOUS
    <3>1. /\ (i + 1) + 1 \in 1..n /\ (i + 1) + 1 # 1 /\ ((i + 1) + 1) - 1 = i + 1
          /\ (i + 1) + 1 \in 1..n + 1 /\ i + 1 <= n
      BY <1>1
    <3>2. f[(i + 1) + 1] = f[i + 1] \o ss[(i + 1) + 1]
      BY <2>1, <3>1 DEF Flat, n
    <3>3. g[(i + 1) + 1] = g[i + 1] \o r[(i + 1) + 1]
      BY <1>1, <1>2, <3>1 DEF Flat
    <3>4. f[i + 1] = g[i + 1]
      BY <2>3, <3>1
    <3> QED
      BY <1>1, <3>1, <3>2, <3>3, <3>4
  <2> HIDE DEF G
  <2>4. \A i \in Nat : i \in G
    BY <2>2, <2>3, Induct, Zenon
  <2>5. f[n] = g[n]
    <3>1. n - 1 \in Nat /\ (n - 1) + 1 = n
      BY <1>1, <1>4
    <3> QED
      BY <2>4, <3>1 DEF G
  <2>6. g[n + 1] = g[n] \o r[n + 1]
    <3>1. n + 1 \in 1..n + 1 /\ n + 1 # 1 /\ (n + 1) - 1 = n
      BY <1>1, <1>4
    <3> QED
      BY <1>1, <1>2, <3>1 DEF Flat
  <2> QED
    BY <1>1, <1>2, <2>1, <2>5, <2>6 DEF r
<1> QED
  BY <1>3, <1>4

(* What kiss_encode makes of a frame, byte by byte.                        *)
Body(p) == K!FlattenSeq([i \in DOMAIN p |-> K!Stuffed(p[i])])

LEMMA StuffedType ==
  ASSUME NEW b \in K!Byte
  PROVE  K!Stuffed(b) \in Seq(K!Byte)
<1>1. FEND \in K!Byte /\ FESC \in K!Byte /\ TFEND \in K!Byte /\ TFESC \in K!Byte
  BY DEF K!Byte
<1>2. <<FESC, TFEND>> \in Seq(K!Byte) /\ <<FESC, TFESC>> \in Seq(K!Byte) /\ <<b>> \in Seq(K!Byte)
  BY <1>1
<1> QED
  BY <1>2 DEF K!Stuffed

LEMMA BodyNone == Body(<<>>) = <<>>
<1>1. [i \in DOMAIN <<>> |-> K!Stuffed(<<>>[i])] = <<>>
  OBVIOUS
<1> QED
  BY <1>1, FlatNone DEF Body

LEMMA StuffedAll ==
  ASSUME NEW p \in Seq(K!Byte)
  PROVE  [i \in DOMAIN p |-> K!Stuffed(p[i])] \in Seq(Seq(K!Byte))
<1>1. \A i \in 1..Len(p) : K!Stuffed(p[i]) \in Seq(K!Byte)
  <2>1. \A i \in 1..Len(p) : p[i] \in K!Byte
    OBVIOUS
  <2> QED
    BY <2>1, StuffedType
<1>2. DOMAIN p = 1..Len(p) /\ Len(p) \in Nat
  OBVIOUS
<1>3. [i \in 1..Len(p) |-> K!Stuffed(p[i])] \in [1..Len(p) -> Seq(K!Byte)]
  BY <1>1
<1> QED
  BY <1>2, <1>3, SeqDef

LEMMA BodyLast ==
  ASSUME NEW p \in Seq(K!Byte), NEW b \in K!Byte
  PROVE  Body(Append(p, b)) = Body(p) \o K!Stuffed(b)
<1> DEFINE ss == [i \in DOMAIN p |-> K!Stuffed(p[i])]
           r == Append(p, b)
           rs == [i \in DOMAIN r |-> K!Stuffed(r[i])]
           s == K!Stuffed(b)
<1>1. ss \in Seq(Seq(K!Byte)) /\ s \in Seq(K!Byte)
  BY StuffedAll, StuffedType
<1>2. /\ Len(p) \in Nat /\ DOMAIN p = 1..Len(p) /\ DOMAIN r = 1..Len(p) + 1
      /\ r[Len(p) + 1] = b /\ \A i \in 1..Len(p) : r[i] = p[i]
  OBVIOUS
<1>3. DOMAIN ss = 1..Len(p) /\ \A i \in 1..Len(p) : ss[i] = K!Stuffed(p[i])
  BY <1>2
<1>4. Len(ss) = Len(p)
  BY <1>1, <1>2, <1>3
<1> HIDE DEF r
<1>5. rs = [i \in 1..Len(p) + 1 |-> K!Stuffed(r[i])]
  BY <1>2
<1> HIDE DEF ss, s, rs
<1>6. \A i \in 1..Len(p) + 1 : rs[i] = IF i = Len(p) + 1 THEN s ELSE ss[i]
  BY <1>2, <1>3, <1>5 DEF s
<1>7. rs = Append(ss, s)
  <2> DEFINE w == Append(ss, s)
  <2>0. w \in Seq(Seq(K!Byte)) /\ Len(w) = Len(p) + 1
    BY <1>1, <1>4
  <2>1. w = [i \in 1..Len(p) + 1 |-> w[i]]
    <3> HIDE DEF w
    <3> QED
      BY <2>0
  <2>2. \A i \in 1..Len(p) + 1 : w[i] = IF i = Len(p) + 1 THEN s ELSE ss[i]
    BY <1>1, <1>2, <1>4
  <2>3. rs = [i \in 1..Len(p) + 1 |-> rs[i]]
    BY <1>5
  <2> HIDE DEF w
  <2> QED
    BY <1>6, <2>1, <2>2, <2>3 DEF w
<1>8. K!FlattenSeq(rs) = K!FlattenSeq(ss) \o s
  BY <1>1, <1>7, FlatLast
<1> QED
  BY <1>8 DEF Body, rs, ss, s, r

LEMMA BodyType ==
  ASSUME NEW p \in Seq(K!Byte)
  PROVE  Body(p) \in Seq(K!Byte)
<1> DEFINE G == {t \in Seq(K!Byte) : Body(t) \in Seq(K!Byte)}
<1>1. <<>> \in G
  <2>1. <<>> \in Seq(K!Byte)
    OBVIOUS
  <2> QED
    BY <2>1, BodyNone
<1>2. ASSUME NEW u \in Seq(K!Byte), NEW b \in K!Byte, u \in G PROVE Append(u, b) \in G
  <2>1. Body(u) \in Seq(K!Byte) /\ K!Stuffed(b) \in Seq(K!Byte) /\ Append(u, b) \in Seq(K!Byte)
    BY <1>2, StuffedType
  <2>2. Body(u) \o K!Stuffed(b) \in Seq(K!Byte)
    BY <2>1
  <2>3. Body(Append(u, b)) = Body(u) \o K!Stuffed(b)
    BY BodyLast
  <2> QED
    BY <2>1, <2>2, <2>3
<1> HIDE DEF G
<1>3. \A t \in Seq(K!Byte) : t \in G
  BY <1>1, <1>2, SeqInduct
<1> QED
  BY <1>3 DEF G

(* A decoder within a frame.                                               *)
Reading(u, o) == [buf |-> u, in_frame |-> TRUE, escape |-> FALSE, out |-> o]

LEMMA ReadingType ==
  ASSUME NEW u \in Seq(K!Byte), NEW o \in Seq(Seq(K!Byte))
  PROVE  Reading(u, o) \in Decoder
  BY DEF Reading, Decoder

LEMMA ByteReads ==
  ASSUME K!Distinct, NEW u \in Seq(K!Byte), NEW o \in Seq(Seq(K!Byte)), NEW b \in K!Byte,
         b # FEND, b # FESC
  PROVE  K!PushByte(Reading(u, o), b) = Reading(Append(u, b), o)
<1> DEFINE d == Reading(u, o)
<1>1. d = [buf |-> u, in_frame |-> TRUE, escape |-> FALSE, out |-> o]
  BY DEF Reading
<1> HIDE DEF d
<1>2. K!PushByte(d, b) = [d EXCEPT !.buf = Append(@, b)]
  BY <1>1 DEF K!PushByte
<1> DEFINE z == K!PushByte(d, b)
<1>3. z = [d EXCEPT !.buf = Append(@, b)]
  BY <1>2
<1> HIDE DEF z
<1>4. z = [buf |-> Append(u, b), in_frame |-> TRUE, escape |-> FALSE, out |-> o]
  BY <1>1, <1>3
<1> QED
  BY <1>4 DEF z, d, Reading

LEMMA EscapeReads ==
  ASSUME K!Distinct, NEW u \in Seq(K!Byte), NEW o \in Seq(Seq(K!Byte)),
         NEW b \in {FEND, FESC}
  PROVE  K!PushByte(K!PushByte(Reading(u, o), FESC), IF b = FEND THEN TFEND ELSE TFESC)
           = Reading(Append(u, b), o)
<1> DEFINE d == Reading(u, o)
           z == K!PushByte(d, FESC)
           c == IF b = FEND THEN TFEND ELSE TFESC
           y == K!PushByte(z, c)
<1>1. d = [buf |-> u, in_frame |-> TRUE, escape |-> FALSE, out |-> o]
  BY DEF Reading
<1>2. c # FEND /\ (b = FEND => c = TFEND) /\ (b = FESC => c = TFESC) /\ TFEND # TFESC
      /\ FESC # FEND
  BY DEF K!Distinct
<1> HIDE DEF d, c
<1>3. z = [d EXCEPT !.escape = TRUE]
  BY <1>1, <1>2 DEF K!PushByte
<1> HIDE DEF z
<1>4. z = [buf |-> u, in_frame |-> TRUE, escape |-> TRUE, out |-> o]
  BY <1>1, <1>3
<1>5. y = [z EXCEPT !.escape = FALSE, !.buf = Append(@, b)]
  <2>1. y = [z EXCEPT !.escape = FALSE,
                      !.buf = Append(@, CASE c = TFEND -> FEND
                                          [] c = TFESC -> FESC
                                          [] OTHER -> c)]
    BY <1>2, <1>4 DEF K!PushByte
  <2>2. b = CASE c = TFEND -> FEND [] c = TFESC -> FESC [] OTHER -> c
    BY <1>2
  <2> QED
    BY <2>1, <2>2
<1> HIDE DEF y
<1>6. y = [buf |-> Append(u, b), in_frame |-> TRUE, escape |-> FALSE, out |-> o]
  BY <1>4, <1>5
<1> QED
  BY <1>6 DEF y, z, c, d, Reading

LEMMA StuffedReads ==
  ASSUME K!Distinct, NEW u \in Seq(K!Byte), NEW o \in Seq(Seq(K!Byte)), NEW b \in K!Byte
  PROVE  K!push(Reading(u, o), K!Stuffed(b)) = Reading(Append(u, b), o)
<1> DEFINE d == Reading(u, o)
           c == IF b = FEND THEN TFEND ELSE TFESC
<1>0. d \in Decoder /\ FESC \in K!Byte /\ c \in K!Byte /\ <<>> \in Seq(K!Byte)
  <2>1. d \in Decoder
    BY ReadingType
  <2>2. FESC \in K!Byte /\ TFEND \in K!Byte /\ TFESC \in K!Byte
    BY DEF K!Byte
  <2> QED
    BY <2>1, <2>2
<1>1. CASE b \in {FEND, FESC}
  <2>1. K!Stuffed(b) = <<FESC, c>>
    BY <1>1 DEF K!Stuffed, K!Distinct
  <2>2. <<FESC, c>> = Append(Append(<<>>, FESC), c) /\ Append(<<>>, FESC) \in Seq(K!Byte)
    BY <1>0
  <2> HIDE DEF d, c
  <2>3. K!push(d, Append(<<>>, FESC)) = K!PushByte(d, FESC)
    BY <1>0, PushLast, PushNone
  <2>4. K!push(d, <<FESC, c>>) = K!PushByte(K!PushByte(d, FESC), c)
    BY <1>0, <2>2, <2>3, PushLast
  <2>5. K!PushByte(K!PushByte(d, FESC), c) = Reading(Append(u, b), o)
    BY <1>1, EscapeReads DEF c, d
  <2> QED
    BY <2>1, <2>4, <2>5 DEF d
<1>2. CASE b # FEND /\ b # FESC
  <2>1. K!Stuffed(b) = Append(<<>>, b)
    BY <1>2 DEF K!Stuffed
  <2> HIDE DEF d
  <2>2. K!push(d, Append(<<>>, b)) = K!PushByte(d, b)
    BY <1>0, PushLast, PushNone
  <2> QED
    BY <1>2, <2>1, <2>2, ByteReads DEF d
<1> QED
  BY <1>1, <1>2

LEMMA BodyReads ==
  ASSUME K!Distinct, NEW u \in Seq(K!Byte), NEW o \in Seq(Seq(K!Byte)), NEW p \in Seq(K!Byte)
  PROVE  K!push(Reading(u, o), Body(p)) = Reading(u \o p, o)
<1> DEFINE G == {t \in Seq(K!Byte) : K!push(Reading(u, o), Body(t)) = Reading(u \o t, o)}
<1>0. Reading(u, o) \in Decoder
  BY ReadingType
<1>1. <<>> \in G
  <2>1. u \o <<>> = u /\ <<>> \in Seq(K!Byte)
    OBVIOUS
  <2> QED
    BY <1>0, <2>1, BodyNone, PushNone
<1>2. ASSUME NEW t \in Seq(K!Byte), NEW b \in K!Byte, t \in G PROVE Append(t, b) \in G
  <2>1. K!push(Reading(u, o), Body(t) \o K!Stuffed(b))
          = K!push(K!push(Reading(u, o), Body(t)), K!Stuffed(b))
    BY <1>0, BodyType, StuffedType, PushBoth
  <2>2. K!push(Reading(u, o), Body(t)) = Reading(u \o t, o)
    BY <1>2
  <2>3. u \o t \in Seq(K!Byte) /\ Append(u \o t, b) = u \o Append(t, b)
        /\ Append(t, b) \in Seq(K!Byte)
    <3>1. u \o t \in Seq(K!Byte) /\ Append(t, b) \in Seq(K!Byte)
      OBVIOUS
    <3>2. Append(u \o t, b) = u \o Append(t, b)
      <4> HIDE DEF G
      <4>1. \A v, w \in Seq(K!Byte), c \in K!Byte : Append(v \o w, c) = v \o Append(w, c)
        OBVIOUS
      <4> QED
        BY <4>1
    <3> QED
      BY <3>1, <3>2
  <2>4. K!push(Reading(u \o t, o), K!Stuffed(b)) = Reading(Append(u \o t, b), o)
    BY <2>3, StuffedReads
  <2>5. Body(Append(t, b)) = Body(t) \o K!Stuffed(b)
    BY BodyLast
  <2> QED
    BY <2>1, <2>2, <2>3, <2>4, <2>5
<1> HIDE DEF G
<1>3. \A t \in Seq(K!Byte) : t \in G
  BY <1>1, <1>2, SeqInduct
<1> QED
  BY <1>3 DEF G

(* A frame that is sent whole is given whole, and ends what was before it. *)
EncodedIs(p) == <<FEND, CMD_DATA>> \o Body(p) \o <<FEND>>

LEMMA EncodeIs ==
  ASSUME NEW p \in Seq(K!Byte)
  PROVE  /\ K!kiss_encode(p) = EncodedIs(p)
         /\ K!kiss_encode(p) \in Seq(K!Byte)
<1>1. K!kiss_encode(p) = EncodedIs(p)
  BY DEF K!kiss_encode, EncodedIs, Body
<1>2. FEND \in K!Byte /\ CMD_DATA \in K!Byte
  BY DEF K!Byte
<1>3. <<FEND, CMD_DATA>> \in Seq(K!Byte) /\ <<FEND>> \in Seq(K!Byte)
  BY <1>2
<1>4. Body(p) \in Seq(K!Byte)
  BY BodyType
<1> DEFINE s == Body(p)
<1> HIDE DEF s
<1>5. <<FEND, CMD_DATA>> \o s \o <<FEND>> \in Seq(K!Byte)
  BY <1>3, <1>4 DEF s
<1> QED
  BY <1>1, <1>5 DEF EncodedIs, s

Started(d) == K!PushByte(d, FEND).out

LEMMA StartedIs ==
  ASSUME K!Distinct, NEW d \in Decoder
  PROVE  /\ K!PushByte(d, FEND) = Reading(<<>>, Started(d))
         /\ Started(d) \in Seq(Seq(K!Byte))
         /\ Started(d) = IF d.in_frame /\ d.buf # <<>> THEN Append(d.out, d.buf)
                         ELSE d.out
<1> DEFINE o == IF d.in_frame /\ d.buf # <<>> THEN Append(d.out, d.buf) ELSE d.out
           z == K!PushByte(d, FEND)
<1>1. z = [buf |-> <<>>, in_frame |-> TRUE, escape |-> FALSE,
           out |-> IF d.in_frame /\ d.buf # <<>> THEN Append(d.out, d.buf)
                   ELSE d.out]
  BY DEF K!PushByte, K!Distinct
<1>2. z = [buf |-> <<>>, in_frame |-> TRUE, escape |-> FALSE, out |-> o]
  BY <1>1
<1>3. FEND \in K!Byte
  BY DEF K!Byte
<1>4. z \in Decoder
  BY <1>3, PushByteType
<1> HIDE DEF z, o
<1>5. z.out = o
  BY <1>2
<1>6. z.out \in Seq(Seq(K!Byte))
  BY <1>4, DecoderIs
<1> QED
  BY <1>2, <1>5, <1>6 DEF Reading, Started, z, o

LEMMA FrameReads ==
  ASSUME K!Distinct, NEW d \in Decoder, NEW p \in Seq(K!Byte)
  PROVE  K!push(d, K!kiss_encode(p))
           = Reading(<<>>, Append(Started(d), <<CMD_DATA>> \o p))
<1> DEFINE o == Started(d)
           s == Body(p)
           q == <<CMD_DATA>> \o p
           k0 == Append(Append(<<>>, FEND), CMD_DATA)
<1>0. FEND \in K!Byte /\ CMD_DATA \in K!Byte /\ <<>> \in Seq(K!Byte)
      /\ CMD_DATA # FEND /\ CMD_DATA # FESC
  BY DEF K!Byte, K!Distinct
<1>1. /\ o \in Seq(Seq(K!Byte)) /\ K!PushByte(d, FEND) = Reading(<<>>, o)
      /\ s \in Seq(K!Byte) /\ K!kiss_encode(p) = <<FEND, CMD_DATA>> \o s \o <<FEND>>
  BY StartedIs, BodyType, EncodeIs DEF EncodedIs
<1>2. q \in Seq(K!Byte) /\ q # <<>> /\ Append(<<>>, CMD_DATA) \o p = q
      /\ Append(<<>>, CMD_DATA) \in Seq(K!Byte)
  BY <1>0
<1> HIDE DEF o, s, q
<1>3. k0 \in Seq(K!Byte) /\ Append(<<>>, FEND) \in Seq(K!Byte) /\ k0 = <<FEND, CMD_DATA>>
  <2>1. Append(<<>>, FEND) = <<FEND>> /\ Append(<<>>, FEND) \in Seq(K!Byte)
    BY <1>0
  <2>3. <<FEND, CMD_DATA>> = Append(Append(<<>>, FEND), CMD_DATA)
    BY <1>0
  <2>4. k0 \in Seq(K!Byte)
    BY <1>0, <2>1
  <2> QED
    BY <2>1, <2>3, <2>4
<1> HIDE DEF k0
<1>4. K!kiss_encode(p) = Append(k0 \o s, FEND) /\ k0 \o s \in Seq(K!Byte)
  <2>1. k0 \o s \o <<FEND>> = Append(k0 \o s, FEND)
    BY <1>0, <1>1, <1>3
  <2> QED
    BY <1>1, <1>3, <2>1
<1>5. K!push(d, Append(<<>>, FEND)) = Reading(<<>>, o)
  BY <1>0, <1>1, PushLast, PushNone
<1>6. K!push(d, k0) = Reading(Append(<<>>, CMD_DATA), o)
  <2>1. K!push(d, k0) = K!PushByte(Reading(<<>>, o), CMD_DATA)
    BY <1>0, <1>3, <1>5, PushLast DEF k0
  <2> QED
    BY <1>0, <1>1, <2>1, ByteReads
<1>7. K!push(d, k0 \o s) = K!push(K!push(d, k0), s)
  BY <1>1, <1>3, PushBoth
<1>8. K!push(d, k0 \o s) = Reading(q, o)
  <2>1. K!push(Reading(Append(<<>>, CMD_DATA), o), Body(p))
          = Reading(Append(<<>>, CMD_DATA) \o p, o)
    BY <1>1, <1>2, BodyReads
  <2> QED
    BY <1>2, <1>6, <1>7, <2>1 DEF s
<1>9. K!push(d, K!kiss_encode(p)) = K!PushByte(Reading(q, o), FEND)
  BY <1>0, <1>4, <1>8, PushLast
<1> DEFINE r == Reading(q, o)
<1>10. r \in Decoder /\ r.in_frame /\ r.buf = q /\ r.out = o
  BY <1>1, <1>2, ReadingType DEF Reading
<1> HIDE DEF r
<1>11. K!PushByte(r, FEND) = Reading(<<>>, Append(o, q))
  <2>1. K!PushByte(r, FEND) = Reading(<<>>, Started(r))
    BY <1>10, StartedIs
  <2>2. Started(r) = IF r.in_frame /\ r.buf # <<>> THEN Append(r.out, r.buf)
                     ELSE r.out
    BY <1>10, StartedIs
  <2>3. Started(r) = Append(o, q)
    BY <1>2, <1>10, <2>2
  <2> QED
    BY <2>1, <2>3
<1> QED
  BY <1>9, <1>11 DEF r, q, o

(* Frames one after another.                                               *)
LEMMA EncodedNone == K!Encoded(<<>>) = <<>>
<1>1. [i \in DOMAIN <<>> |-> K!kiss_encode(<<>>[i])] = <<>>
  OBVIOUS
<1> QED
  BY <1>1, FlatNone DEF K!Encoded

LEMMA EncodedAll ==
  ASSUME NEW fs \in Seq(Seq(K!Byte))
  PROVE  [i \in DOMAIN fs |-> K!kiss_encode(fs[i])] \in Seq(Seq(K!Byte))
<1>1. \A i \in 1..Len(fs) : K!kiss_encode(fs[i]) \in Seq(K!Byte)
  <2>1. \A i \in 1..Len(fs) : fs[i] \in Seq(K!Byte)
    OBVIOUS
  <2> QED
    BY <2>1, EncodeIs
<1>2. DOMAIN fs = 1..Len(fs) /\ Len(fs) \in Nat
  OBVIOUS
<1>3. [i \in 1..Len(fs) |-> K!kiss_encode(fs[i])] \in [1..Len(fs) -> Seq(K!Byte)]
  BY <1>1
<1> QED
  BY <1>2, <1>3, SeqDef

LEMMA MapLast ==
  ASSUME NEW Elem, NEW c \in Elem, NEW ss \in Seq(Elem), NEW rs \in Seq(Elem),
         Len(rs) = Len(ss) + 1,
         \A i \in 1..Len(ss) : rs[i] = ss[i], rs[Len(ss) + 1] = c
  PROVE  rs = Append(ss, c)
  OBVIOUS

LEMMA EncodedLast ==
  ASSUME NEW fs \in Seq(Seq(K!Byte)), NEW p \in Seq(K!Byte)
  PROVE  K!Encoded(Append(fs, p)) = K!Encoded(fs) \o K!kiss_encode(p)
<1> DEFINE ss == [i \in DOMAIN fs |-> K!kiss_encode(fs[i])]
           r == Append(fs, p)
           rs == [i \in DOMAIN r |-> K!kiss_encode(r[i])]
           s == K!kiss_encode(p)
           Elem == Seq(K!Byte)
<1>1. ss \in Seq(Elem) /\ s \in Elem
  BY EncodedAll, EncodeIs
<1>2. fs \in Seq(Elem) /\ p \in Elem
  OBVIOUS
<1> HIDE DEF Elem
<1>3. /\ Len(fs) \in Nat /\ DOMAIN fs = 1..Len(fs) /\ DOMAIN r = 1..Len(fs) + 1
      /\ r[Len(fs) + 1] = p /\ \A i \in 1..Len(fs) : r[i] = fs[i]
  BY <1>2
<1>4. DOMAIN ss = 1..Len(fs) /\ \A i \in 1..Len(fs) : ss[i] = K!kiss_encode(fs[i])
  BY <1>3
<1> HIDE DEF ss, r
<1>5. Len(ss) = Len(fs)
  BY <1>1, <1>3, <1>4
<1>6. rs \in Seq(Elem) /\ Len(rs) = Len(ss) + 1
  <2>1. r \in Seq(Seq(K!Byte))
    BY <1>2 DEF r, Elem
  <2>2. rs \in Seq(Elem)
    BY <2>1, EncodedAll DEF Elem
  <2>3. DOMAIN rs = 1..Len(ss) + 1 /\ Len(ss) + 1 \in Nat
    BY <1>3, <1>5
  <2> HIDE DEF rs
  <2> QED
    BY <2>2, <2>3
<1>7. \A i \in 1..Len(ss) : rs[i] = ss[i]
  BY <1>3, <1>4, <1>5
<1>8. rs[Len(ss) + 1] = s
  BY <1>3, <1>5
<1> HIDE DEF rs, s
<1>9. rs = Append(ss, s)
  BY <1>1, <1>6, <1>7, <1>8, MapLast
<1>10. K!FlattenSeq(rs) = K!FlattenSeq(ss) \o s
  BY <1>1, <1>9, FlatLast DEF Elem
<1> QED
  BY <1>10 DEF K!Encoded, rs, ss, s, r

LEMMA EncodedType ==
  ASSUME NEW fs \in Seq(Seq(K!Byte))
  PROVE  K!Encoded(fs) \in Seq(K!Byte)
<1> DEFINE Elem == Seq(K!Byte)
           G == {t \in Seq(Elem) : K!Encoded(t) \in Seq(K!Byte)}
<1>1. <<>> \in G
  <2>1. <<>> \in Seq(Elem) /\ <<>> \in Seq(K!Byte)
    OBVIOUS
  <2> QED
    BY <2>1, EncodedNone
<1>2. ASSUME NEW u \in Seq(Elem), NEW b \in Elem, u \in G PROVE Append(u, b) \in G
  <2>1. K!Encoded(u) \in Seq(K!Byte) /\ K!kiss_encode(b) \in Seq(K!Byte) /\ Append(u, b) \in Seq(Elem)
    BY <1>2, EncodeIs
  <2>2. K!Encoded(u) \o K!kiss_encode(b) \in Seq(K!Byte)
    BY <2>1
  <2>3. K!Encoded(Append(u, b)) = K!Encoded(u) \o K!kiss_encode(b)
    BY EncodedLast
  <2> QED
    BY <2>1, <2>2, <2>3
<1> HIDE DEF G
<1>3. \A t \in Seq(Elem) : t \in G
  <2> HIDE DEF Elem
  <2> QED
    BY <1>1, <1>2, SeqInduct
<1> QED
  BY <1>3 DEF G

LEMMA TypedNone == K!WithType(<<>>) = <<>>
<1>1. [i \in DOMAIN <<>> |-> <<CMD_DATA>> \o <<>>[i]] = <<>>
  OBVIOUS
<1> QED
  BY <1>1 DEF K!WithType

LEMMA TypedType ==
  ASSUME NEW fs \in Seq(Seq(K!Byte))
  PROVE  K!WithType(fs) \in Seq(Seq(K!Byte)) /\ Len(K!WithType(fs)) = Len(fs)
<1>0. CMD_DATA \in K!Byte
  BY DEF K!Byte
<1>1. \A i \in 1..Len(fs) : <<CMD_DATA>> \o fs[i] \in Seq(K!Byte)
  <2>1. \A t \in Seq(K!Byte) : <<CMD_DATA>> \o t \in Seq(K!Byte)
    BY <1>0
  <2>2. \A i \in 1..Len(fs) : fs[i] \in Seq(K!Byte)
    OBVIOUS
  <2> QED
    BY <2>1, <2>2
<1>2. DOMAIN fs = 1..Len(fs) /\ Len(fs) \in Nat
  OBVIOUS
<1> DEFINE w == [i \in 1..Len(fs) |-> <<CMD_DATA>> \o fs[i]]
<1>3. w \in [1..Len(fs) -> Seq(K!Byte)]
  BY <1>1
<1>4. w = K!WithType(fs)
  BY <1>2 DEF K!WithType
<1> HIDE DEF w
<1>5. w \in Seq(Seq(K!Byte)) /\ Len(w) = Len(fs)
  BY <1>2, <1>3, SeqDef
<1> QED
  BY <1>4, <1>5

LEMMA TypedLast ==
  ASSUME NEW fs \in Seq(Seq(K!Byte)), NEW p \in Seq(K!Byte)
  PROVE  K!WithType(Append(fs, p)) = Append(K!WithType(fs), <<CMD_DATA>> \o p)
<1> DEFINE ss == K!WithType(fs)
           r == Append(fs, p)
           rs == K!WithType(r)
           s == <<CMD_DATA>> \o p
           Elem == Seq(K!Byte)
<1>0. CMD_DATA \in K!Byte
  BY DEF K!Byte
<1>1. ss \in Seq(Elem) /\ s \in Elem /\ Len(ss) = Len(fs)
  BY <1>0, TypedType
<1>2. fs \in Seq(Elem) /\ p \in Elem
  OBVIOUS
<1> HIDE DEF Elem
<1>3. /\ Len(fs) \in Nat /\ DOMAIN fs = 1..Len(fs) /\ DOMAIN r = 1..Len(fs) + 1
      /\ r[Len(fs) + 1] = p /\ \A i \in 1..Len(fs) : r[i] = fs[i]
  BY <1>2
<1>4. \A i \in 1..Len(fs) : ss[i] = <<CMD_DATA>> \o fs[i]
  BY <1>3 DEF K!WithType
<1> HIDE DEF ss, r
<1>5. rs = [i \in DOMAIN r |-> <<CMD_DATA>> \o r[i]]
  BY DEF K!WithType
<1> HIDE DEF rs
<1>6. rs = [i \in 1..Len(ss) + 1 |-> <<CMD_DATA>> \o r[i]]
  BY <1>1, <1>3, <1>5
<1>7. \A i \in 1..Len(ss) : rs[i] = ss[i]
  <2>1. \A i \in 1..Len(ss) + 1 : rs[i] = <<CMD_DATA>> \o r[i]
    BY <1>6
  <2>2. \A i \in 1..Len(ss) : i \in 1..Len(ss) + 1
    BY <1>1, <1>3
  <2> QED
    BY <1>1, <1>3, <1>4, <2>1, <2>2
<1>8. rs[Len(ss) + 1] = s
  BY <1>1, <1>3, <1>6
<1>9. rs \in Seq(Elem) /\ Len(rs) = Len(ss) + 1
  <2>1. r \in Seq(Seq(K!Byte)) /\ Len(r) = Len(ss) + 1
    BY <1>1, <1>2 DEF r, Elem
  <2> QED
    BY <2>1, TypedType DEF Elem, rs
<1> HIDE DEF s
<1>10. rs = Append(ss, s)
  BY <1>1, <1>7, <1>8, <1>9, MapLast
<1> QED
  BY <1>10 DEF rs, ss, s, r

LEMMA FramesRead ==
  ASSUME K!Distinct, NEW d \in Decoder, d.out = <<>>, Started(d) = <<>>,
         NEW fs \in Seq(Seq(K!Byte))
  PROVE  /\ K!push(d, K!Encoded(fs)).out = K!WithType(fs)
         /\ Started(K!push(d, K!Encoded(fs))) = K!WithType(fs)
<1> DEFINE Elem == Seq(K!Byte)
           Right(t) == /\ K!push(d, K!Encoded(t)).out = K!WithType(t)
                      /\ Started(K!push(d, K!Encoded(t))) = K!WithType(t)
           G == {t \in Seq(Elem) : Right(t)}
<1>1. <<>> \in G
  <2>1. <<>> \in Seq(Elem)
    OBVIOUS
  <2> QED
    BY <2>1, EncodedNone, TypedNone, PushNone
<1>2. ASSUME NEW u \in Seq(Elem), NEW b \in Elem, u \in G PROVE Append(u, b) \in G
  <2> DEFINE e == K!push(d, K!Encoded(u))
             o == Append(K!WithType(u), <<CMD_DATA>> \o b)
  <2>0. Right(u)
    BY <1>2
  <2>1. e \in Decoder
    BY EncodedType, PushType
  <2>2. Started(e) = K!WithType(u)
    BY <2>0
  <2> HIDE DEF e
  <2>3. K!push(e, K!kiss_encode(b)) = Reading(<<>>, o)
    BY <2>1, <2>2, FrameReads
  <2>4. K!push(d, K!Encoded(u) \o K!kiss_encode(b)) = K!push(e, K!kiss_encode(b))
    <3>1. K!Encoded(u) \in Seq(K!Byte) /\ K!kiss_encode(b) \in Seq(K!Byte)
      BY EncodedType, EncodeIs
    <3> QED
      BY <3>1, PushBoth DEF e
  <2>5. K!Encoded(Append(u, b)) = K!Encoded(u) \o K!kiss_encode(b)
    BY EncodedLast
  <2>6. K!WithType(Append(u, b)) = o
    BY TypedLast
  <2> DEFINE r == Reading(<<>>, o)
  <2>7. o \in Seq(Seq(K!Byte)) /\ <<>> \in Seq(K!Byte)
    <3> DEFINE t == Append(u, b)
    <3>1. t \in Seq(Seq(K!Byte))
      OBVIOUS
    <3> HIDE DEF t
    <3>2. K!WithType(t) \in Seq(Seq(K!Byte))
      BY <3>1, TypedType
    <3>3. <<>> \in Seq(K!Byte)
      OBVIOUS
    <3> QED
      BY <2>6, <3>2, <3>3 DEF t
  <2> HIDE DEF o
  <2>8. r \in Decoder /\ r.out = o /\ r.buf = <<>>
    BY <2>7, ReadingType DEF Reading
  <2>9. Started(r) = o
    <3> HIDE DEF r
    <3> QED
      BY <2>8, StartedIs
  <2>10. K!push(d, K!Encoded(Append(u, b))) = r
    BY <2>3, <2>4, <2>5
  <2> HIDE DEF r
  <2>11. Right(Append(u, b))
    BY <2>6, <2>8, <2>9, <2>10
  <2>12. Append(u, b) \in Seq(Elem)
    OBVIOUS
  <2> HIDE DEF Right
  <2> QED
    BY <2>11, <2>12
<1> HIDE DEF G
<1>3. \A t \in Seq(Elem) : t \in G
  <2> HIDE DEF Elem
  <2> QED
    BY <1>1, <1>2, SeqInduct
<1>4. fs \in G
  BY <1>3
<1> HIDE DEF Right
<1>5. Right(fs)
  BY <1>4 DEF G
<1> QED
  BY <1>5 DEF Right

(* A byte that is not FEND brings nothing out.                             *)
LEMMA QuietByte ==
  ASSUME K!Distinct, NEW d \in Decoder, NEW b \in K!Byte, b # FEND
  PROVE  K!PushByte(d, b).out = d.out
<1> DEFINE z == K!PushByte(d, b)
<1>0. d = [buf |-> d.buf, in_frame |-> d.in_frame, escape |-> d.escape, out |-> d.out]
      /\ d.in_frame \in BOOLEAN /\ d.escape \in BOOLEAN
  BY DecoderIs
<1>1. CASE ~d.in_frame
  BY <1>1 DEF K!PushByte
<1>2. CASE d.in_frame /\ d.escape
  <2> DEFINE x == CASE b = TFEND -> FEND [] b = TFESC -> FESC [] OTHER -> b
  <2>1. z = [d EXCEPT !.escape = FALSE, !.buf = Append(@, x)]
    BY <1>2 DEF K!PushByte
  <2> HIDE DEF x, z
  <2>2. z.out = d.out
    BY <1>0, <2>1
  <2> QED
    BY <2>2 DEF z
<1>3. CASE b = FESC /\ d.in_frame /\ ~d.escape
  <2>1. z = [d EXCEPT !.escape = TRUE]
    BY <1>3 DEF K!PushByte
  <2> HIDE DEF z
  <2>2. z.out = d.out
    BY <1>0, <2>1
  <2> QED
    BY <2>2 DEF z
<1>4. CASE b # FESC /\ d.in_frame /\ ~d.escape
  <2>1. z = [d EXCEPT !.buf = Append(@, b)]
    BY <1>4 DEF K!PushByte
  <2> HIDE DEF z
  <2>2. z.out = d.out
    BY <1>0, <2>1
  <2> QED
    BY <2>2 DEF z
<1> QED
  BY <1>0, <1>1, <1>2, <1>3, <1>4

(* Nor does what has no FEND but at its start.                             *)
LEMMA QuietRest ==
  ASSUME K!Distinct, NEW d \in Decoder, NEW o, d.out = o, Started(d) = o,
         NEW rest \in Seq(K!Byte), \A i \in 2..Len(rest) : rest[i] # FEND
  PROVE  K!push(d, rest).out = o
<1> DEFINE Ok(t) == \A i \in 2..Len(t) : t[i] # FEND
           G == {t \in Seq(K!Byte) : Ok(t) => K!push(d, t).out = o}
<1>1. <<>> \in G
  <2>1. <<>> \in Seq(K!Byte)
    OBVIOUS
  <2> QED
    BY <2>1, PushNone
<1>2. ASSUME NEW u \in Seq(K!Byte), NEW b \in K!Byte, u \in G PROVE Append(u, b) \in G
  <2> DEFINE w == Append(u, b)
             n == Len(u)
  <2>0. /\ w \in Seq(K!Byte) /\ n \in Nat /\ Len(w) = n + 1 /\ w[n + 1] = b
        /\ \A i \in 1..n : w[i] = u[i]
    OBVIOUS
  <2> SUFFICES ASSUME Ok(w) PROVE K!push(d, w).out = o
    BY <2>0
  <2>1. K!push(d, w) = K!PushByte(K!push(d, u), b)
    BY PushLast
  <2> HIDE DEF w, n
  <2>2. CASE n = 0
    <3>1. u = <<>>
      BY <2>2 DEF n
    <3>2. K!push(d, w) = K!PushByte(d, b)
      BY <2>1, <3>1, PushNone
    <3>3. CASE b = FEND
      BY <3>2, <3>3 DEF Started
    <3>4. CASE b # FEND
      BY <3>2, <3>4, QuietByte
    <3> QED
      BY <3>3, <3>4
  <2>3. CASE n # 0
    <3>1. n + 1 \in 2..Len(w)
      BY <2>0, <2>3
    <3>2. b # FEND
      BY <2>0, <3>1
    <3>3. Ok(u)
      <4> SUFFICES ASSUME NEW i \in 2..n PROVE u[i] # FEND
        BY DEF n
      <4>1. i \in 2..Len(w) /\ i \in 1..n
        BY <2>0
      <4> QED
        BY <2>0, <4>1
    <3>4. K!push(d, u).out = o
      BY <1>2, <3>3
    <3>5. K!push(d, u) \in Decoder
      BY PushType
    <3> QED
      BY <2>1, <3>2, <3>4, <3>5, QuietByte
  <2> QED
    BY <2>2, <2>3
<1> HIDE DEF G
<1>3. \A t \in Seq(K!Byte) : t \in G
  BY <1>1, <1>2, SeqInduct
<1> QED
  BY <1>3 DEF G

LEMMA NewType == K!NewDecoder \in Decoder /\ K!NewDecoder.out = <<>>
<1>1. <<>> \in Seq(K!Byte) /\ <<>> \in Seq(Seq(K!Byte))
  OBVIOUS
<1> QED
  BY <1>1 DEF K!NewDecoder, Decoder

(* What was written comes out: the frames, whatever came before and after. *)
LEMMA StreamReads ==
  ASSUME K!Distinct, NEW litter \in Seq(K!Byte), K!Decoded(Append(litter, FEND)) = <<>>,
         NEW fs \in Seq(Seq(K!Byte)),
         NEW rest \in Seq(K!Byte), \A i \in 2..Len(rest) : rest[i] # FEND
  PROVE  K!Decoded(litter \o K!Encoded(fs) \o rest) = K!WithType(fs)
<1> DEFINE d == K!push(K!NewDecoder, litter)
           e == K!push(d, K!Encoded(fs))
<1>0. FEND \in K!Byte
  BY DEF K!Byte
<1>1. d \in Decoder
  BY NewType, PushType
<1>2. Started(d) = <<>>
  <2>1. K!push(K!NewDecoder, Append(litter, FEND)) = K!PushByte(d, FEND)
    BY <1>0, NewType, PushLast
  <2> QED
    BY <2>1 DEF K!Decoded, Started
<1> HIDE DEF d
<1>3. d.out = <<>>
  <2>1. /\ Started(d) = IF d.in_frame /\ d.buf # <<>> THEN Append(d.out, d.buf)
                        ELSE d.out
        /\ d.out \in Seq(Seq(K!Byte)) /\ d.buf \in Seq(K!Byte)
    BY <1>1, StartedIs, DecoderIs
  <2> DEFINE o == d.out
             u == d.buf
             Elem == Seq(K!Byte)
  <2>2. o \in Seq(Elem) /\ u \in Elem
    BY <2>1
  <2>3. Started(d) = Append(o, u) \/ Started(d) = o
    BY <2>1
  <2> HIDE DEF o, u, Elem
  <2>4. Append(o, u) # <<>>
    <3>1. Len(Append(o, u)) = Len(o) + 1 /\ Len(o) \in Nat
      BY <2>2
    <3>2. Len(Append(o, u)) # 0
      BY <3>1
    <3> QED
      BY <3>2
  <2>5. o = <<>>
    BY <1>2, <2>3, <2>4
  <2> QED
    BY <2>5 DEF o
<1>4. e.out = K!WithType(fs) /\ Started(e) = K!WithType(fs)
  BY <1>1, <1>2, <1>3, FramesRead
<1>5. K!Encoded(fs) \in Seq(K!Byte)
  BY EncodedType
<1>6. e \in Decoder
  BY <1>1, <1>5, PushType
<1> HIDE DEF e
<1>7. K!push(e, rest).out = K!WithType(fs)
  BY <1>4, <1>6, QuietRest
<1> DEFINE s == K!Encoded(fs)
<1>8. s \in Seq(K!Byte)
  BY <1>5
<1> HIDE DEF s
<1>9. litter \o s \in Seq(K!Byte)
  BY <1>8
<1>10. K!push(K!NewDecoder, litter \o s) = K!push(d, s)
  BY <1>8, NewType, PushBoth DEF d
<1>11. K!push(K!NewDecoder, (litter \o s) \o rest) = K!push(K!push(d, s), rest)
  BY <1>9, <1>10, NewType, PushBoth
<1> QED
  BY <1>7, <1>11 DEF K!Decoded, s, e

LEMMA ToldReads ==
  ASSUME K!Distinct, NEW fs \in Seq(Seq(K!Byte))
  PROVE  K!Decoded(K!Encoded(fs)) = K!WithType(fs)
<1>1. Started(K!NewDecoder) = <<>>
  <2>1. Started(K!NewDecoder)
          = IF K!NewDecoder.in_frame /\ K!NewDecoder.buf # <<>>
            THEN Append(K!NewDecoder.out, K!NewDecoder.buf) ELSE K!NewDecoder.out
    BY NewType, StartedIs
  <2> QED
    BY <2>1 DEF K!NewDecoder
<1> QED
  BY <1>1, NewType, FramesRead DEF K!Decoded

(* However a read cuts the stream, the same comes out.                     *)
LEMMA Cut ==
  ASSUME K!Distinct, NEW d \in Decoder, NEW pipe \in Seq(K!Byte), NEW m \in 1..Len(pipe)
  PROVE  LET e == K!push(d, SubSeq(pipe, 1, m))
             rest == SubSeq(pipe, m + 1, Len(pipe))
         IN  /\ e \in Decoder /\ rest \in Seq(K!Byte)
             /\ K!push(d, pipe).out = e.out \o K!push(Emptied(e), rest).out
             /\ K!push(Emptied(e), rest) \in Decoder
<1> DEFINE s == SubSeq(pipe, 1, m)
           rest == SubSeq(pipe, m + 1, Len(pipe))
           e == K!push(d, s)
<1>1. s \in Seq(K!Byte) /\ rest \in Seq(K!Byte) /\ s \o rest = pipe
  OBVIOUS
<1> HIDE DEF s, rest
<1>2. e \in Decoder /\ K!push(d, pipe) = K!push(e, rest)
  BY <1>1, PushType, PushBoth
<1> HIDE DEF e
<1>3. K!push(e, rest) = Follow(e, K!push(Emptied(e), rest))
  BY <1>1, <1>2, PushAfter
<1>4. Emptied(e) \in Decoder
  BY <1>2, EmptiedType
<1> DEFINE z == K!push(Emptied(e), rest)
<1>5. z \in Decoder
  BY <1>1, <1>4, PushType
<1> HIDE DEF z
<1> DEFINE a == Follow(e, z)
<1>a. a = [buf |-> z.buf, in_frame |-> z.in_frame, escape |-> z.escape,
           out |-> e.out \o z.out]
  BY <1>2, <1>5, AfterIs
<1> HIDE DEF a
<1>6. a.out = e.out \o z.out
  BY <1>a
<1> QED
  BY <1>1, <1>2, <1>3, <1>5, <1>6 DEF a, z, e, rest, s

-----------------------------------------------------------------------------
(* The connections.                                                        *)
Conn == [up : BOOLEAN, got : Seq(Seq(K!Byte)), told : Seq(K!Byte), since : Nat,
         writes : BOOLEAN, pipe : Seq(K!Byte), wrote : Seq(Seq(K!Byte))]
Client == [conn : Nat \ {0}, dec : Decoder]

WireType ==
  /\ conn \in Seq(Conn)
  /\ backlog \in Seq(Nat \ {0})
  /\ clients \in [Fds -> Client \cup {K!NoClient}]
  /\ todo \in Seq(Fds \cup {0})
  /\ air \in [frames : Seq(Seq(K!Byte)), open : Seq(K!Byte) \cup {K!Nothing}, events : Nat]
  /\ bc_buf = air.open

(* A client has read what is not in its pipe, and has been told all that   *)
(* came in since.                                                          *)
ReadsTrue(fd) ==
  LET c == clients[fd].conn
  IN  /\ c \in 1..Len(conn)
      /\ clients[fd].dec.out = <<>>
      /\ conn[c].got \o K!push(clients[fd].dec, conn[c].pipe).out = conn[c].wrote
ToldTrue(fd) ==
  LET c == clients[fd].conn
  IN  /\ conn[c].since <= Len(air.frames)
      /\ conn[c].told = K!Encoded(SubSeq(air.frames, conn[c].since + 1, Len(air.frames)))
ClientsTrue ==
  \A fd \in Fds : clients[fd] # K!NoClient => ReadsTrue(fd) /\ ToldTrue(fd)
OwnConn ==
  \A x, y \in Fds :
    clients[x] # K!NoClient /\ clients[y] # K!NoClient
      /\ clients[x].conn = clients[y].conn => x = y

(* One that waits to be accepted is nobody's yet.                          *)
Waiting(cs, c) ==
  /\ c \in 1..Len(cs)
  /\ cs[c].got = <<>> /\ cs[c].told = <<>>
  /\ K!Decoded(cs[c].pipe) = cs[c].wrote
BacklogTrue ==
  /\ \A i \in 1..Len(backlog) :
       /\ Waiting(conn, backlog[i])
       /\ \A fd \in Fds : clients[fd] # K!NoClient => clients[fd].conn # backlog[i]
  /\ \A i, j \in 1..Len(backlog) : backlog[i] = backlog[j] => i = j

(* What select found is still there when its turn comes.                   *)
TodoTrue ==
  /\ \A i \in 1..Len(todo) : IF todo[i] = 0 THEN backlog # <<>>
                              ELSE clients[todo[i]] # K!NoClient
  /\ \A i, j \in 1..Len(todo) : todo[i] = todo[j] => i = j

GotTrue ==
  \A c \in 1..Len(conn) :
    /\ K!IsPrefix(conn[c].got, conn[c].wrote)
    /\ conn[c].pipe = <<>> => conn[c].got = conn[c].wrote

WireInv ==
  WireType /\ ClientsTrue /\ OwnConn /\ BacklogTrue /\ TodoTrue /\ GotTrue

LEMMA WireStart ==
  ASSUME K!WireAssumption, K!Init
  PROVE  WireInv
<1> USE DEF K!Init
<1>1. conn \in Seq(Conn) /\ backlog \in Seq(Nat \ {0}) /\ todo \in Seq(Fds \cup {0})
      /\ Len(conn) = 0 /\ Len(backlog) = 0 /\ Len(todo) = 0
  OBVIOUS
<1>2. \A fd \in Fds : clients[fd] = K!NoClient
  OBVIOUS
<1>3. clients \in [Fds -> Client \cup {K!NoClient}]
  OBVIOUS
<1>4. air \in [frames : Seq(Seq(K!Byte)), open : Seq(K!Byte) \cup {K!Nothing}, events : Nat]
      /\ bc_buf = air.open
  OBVIOUS
<1>5. WireType
  BY <1>1, <1>3, <1>4 DEF WireType
<1>6. ClientsTrue /\ OwnConn
  BY <1>2 DEF ClientsTrue, OwnConn
<1>7. BacklogTrue /\ TodoTrue /\ GotTrue
  <2>1. \A i \in 1..0 : FALSE
    OBVIOUS
  <2> QED
    BY <1>1, <2>1 DEF BacklogTrue, TodoTrue, GotTrue
<1> QED
  BY <1>5, <1>6, <1>7 DEF WireInv

-----------------------------------------------------------------------------
LEMMA PrefixNone ==
  ASSUME NEW B, NEW t \in Seq(B)
  PROVE  K!IsPrefix(<<>>, t)
<1>1. Len(<<>>) = 0 /\ Len(t) \in Nat
  OBVIOUS
<1>2. SubSeq(<<>>, 1, 0) = <<>> /\ SubSeq(t, 1, 0) = <<>>
  OBVIOUS
<1> QED
  BY <1>1, <1>2 DEF K!IsPrefix

LEMMA PrefixOf ==
  ASSUME NEW B, NEW s \in Seq(B), NEW t \in Seq(B)
  PROVE  K!IsPrefix(s, s \o t)
<1>1. Len(s) \in Nat /\ Len(s) <= Len(s \o t)
  OBVIOUS
<1>2. SubSeq(s, 1, Len(s)) = SubSeq(s \o t, 1, Len(s))
  OBVIOUS
<1> QED
  BY <1>1, <1>2 DEF K!IsPrefix

LEMMA ConnIs ==
  ASSUME NEW x \in Conn
  PROVE  /\ x.up \in BOOLEAN /\ x.got \in Seq(Seq(K!Byte)) /\ x.told \in Seq(K!Byte)
         /\ x.since \in Nat /\ x.writes \in BOOLEAN /\ x.pipe \in Seq(K!Byte)
         /\ x.wrote \in Seq(Seq(K!Byte))
         /\ x = [up |-> x.up, got |-> x.got, told |-> x.told, since |-> x.since,
                 writes |-> x.writes, pipe |-> x.pipe, wrote |-> x.wrote]
  BY DEF Conn

(* A connection that has been there does not change in what counts.        *)
SameConn(x, y) ==
  /\ x.got = y.got /\ x.told = y.told /\ x.since = y.since /\ x.pipe = y.pipe
  /\ x.wrote = y.wrote

LEMMA SameAll ==
  ASSUME WireInv, conn' \in Seq(Conn), Len(conn') = Len(conn),
         \A c \in 1..Len(conn) : SameConn(conn'[c], conn[c]),
         UNCHANGED <<clients, backlog>>, air'.frames = air.frames
  PROVE  ClientsTrue' /\ OwnConn' /\ BacklogTrue' /\ GotTrue'
<1> USE DEF WireInv
<1>1. ClientsTrue'
  <2> SUFFICES ASSUME NEW fd \in Fds, clients[fd] # K!NoClient
               PROVE  ReadsTrue(fd)' /\ ToldTrue(fd)'
    BY DEF ClientsTrue
  <2>1. ReadsTrue(fd) /\ ToldTrue(fd)
    BY DEF ClientsTrue
  <2>2. clients[fd].conn \in 1..Len(conn)
    BY <2>1 DEF ReadsTrue
  <2>3. SameConn(conn'[clients[fd].conn], conn[clients[fd].conn])
    BY <2>2
  <2> QED
    BY <2>1, <2>2, <2>3 DEF ReadsTrue, ToldTrue, SameConn
<1>2. OwnConn'
  BY DEF OwnConn
<1>3. BacklogTrue'
  <2>1. \A c \in 1..Len(conn) : Waiting(conn, c) => Waiting(conn', c)
    BY DEF Waiting, SameConn
  <2>2. \A i \in 1..Len(backlog) : Waiting(conn, backlog[i]) /\ backlog[i] \in 1..Len(conn)
    BY DEF BacklogTrue, Waiting
  <2>3. \A i \in 1..Len(backlog) : Waiting(conn', backlog[i])
    BY <2>1, <2>2
  <2> QED
    BY <2>3 DEF BacklogTrue
<1>4. GotTrue'
  BY DEF GotTrue, SameConn
<1> QED
  BY <1>1, <1>2, <1>3, <1>4

LEMMA WireStays ==
  ASSUME WireInv, UNCHANGED K!wire
  PROVE  WireInv'
<1> USE DEF WireInv, K!wire
<1>1. WireType'
  BY DEF WireType
<1>2. TodoTrue'
  BY DEF TodoTrue
<1>3. ClientsTrue' /\ OwnConn' /\ BacklogTrue' /\ GotTrue'
  BY SameAll DEF SameConn, WireType
<1> QED
  BY <1>1, <1>2, <1>3

LEMMA Leaving ==
  ASSUME WireInv, K!Leaves
  PROVE  WireInv'
<1> USE DEF WireInv
<1>1. PICK c \in DOMAIN conn : conn' = [conn EXCEPT ![c].up = FALSE]
  BY DEF K!Leaves
<1>2. UNCHANGED <<backlog, clients, todo, at, bc_buf, air, broadcast>>
  BY DEF K!Leaves
<1>3. conn \in Seq(Conn) /\ c \in 1..Len(conn) /\ Len(conn) \in Nat
  BY DEF WireType
<1>4. \A x \in 1..Len(conn) : conn[x] \in Conn
  BY <1>3
<1>5. \A x \in Conn : [x EXCEPT !.up = FALSE] \in Conn /\ SameConn([x EXCEPT !.up = FALSE], x)
  BY DEF Conn, SameConn
<1>6. \A x \in 1..Len(conn) : conn'[x] \in Conn /\ SameConn(conn'[x], conn[x])
  <2> DEFINE y == [conn[c] EXCEPT !.up = FALSE]
  <2>0. conn' = [conn EXCEPT ![c] = y]
    BY <1>1
  <2>2. y \in Conn /\ SameConn(y, conn[c])
    BY <1>3, <1>4, <1>5
  <2> HIDE DEF y
  <2>1. \A x \in 1..Len(conn) : conn'[x] = IF x = c THEN y ELSE conn[x]
    BY <2>0, <1>3
  <2> QED
    BY <1>4, <2>1, <2>2 DEF SameConn
<1>7. conn' \in Seq(Conn) /\ Len(conn') = Len(conn)
  <2>1. DOMAIN conn' = 1..Len(conn)
    BY <1>1, <1>3
  <2>2. conn' \in [1..Len(conn) -> Conn]
    BY <1>1, <1>3, <1>6, <2>1
  <2> QED
    BY <1>3, <2>2, SeqDef
<1>8. WireType'
  BY <1>2, <1>7 DEF WireType
<1>9. TodoTrue'
  BY <1>2 DEF TodoTrue
<1>10. ClientsTrue' /\ OwnConn' /\ BacklogTrue' /\ GotTrue'
  BY <1>2, <1>6, <1>7, SameAll
<1> QED
  BY <1>8, <1>9, <1>10

LEMMA Choosing ==
  ASSUME K!WireAssumption, WireInv, K!Selects
  PROVE  WireInv'
<1> USE DEF WireInv
<1> DEFINE ready == {fd \in Fds : K!Readable(fd)}
           m == Cardinality(ready)
<1>1. PICK s \in [1..m -> ready] :
        /\ K!Attached(s) /\ todo' = s \o (IF backlog # <<>> THEN <<0>> ELSE <<>>)
  BY WireCardinality DEF K!Selects
<1>2. UNCHANGED <<conn, backlog, clients, bc_buf, air, broadcast>>
  BY DEF K!Selects
<1>3. m \in Nat
  <2>1. IsFiniteSet(ready)
    BY FS_Subset, WireFinite DEF K!WireAssumption
  <2> QED
    BY <2>1, FS_CardinalityType
<1>4. \A x \in ready : x \in Fds /\ clients[x] # K!NoClient /\ x # 0
  BY DEF K!Readable, K!WireAssumption
<1> HIDE DEF ready, m
<1>5. s \in Seq(Fds \cup {0}) /\ Len(s) = m /\ DOMAIN s = 1..m
      /\ \A i \in 1..m : s[i] \in ready
  <2>1. \A i \in 1..m : s[i] \in ready
    OBVIOUS
  <2>2. s \in [1..m -> Fds \cup {0}]
    BY <1>4, <2>1
  <2> QED
    BY <1>3, <2>1, <2>2, SeqDef
<1>6. \A i, j \in 1..m : s[i] = s[j] => i = j
  <2> SUFFICES ASSUME NEW i \in 1..m, NEW j \in 1..m, s[i] = s[j], i < j PROVE FALSE
    BY <1>3
  <2>1. clients[s[i]].conn < clients[s[j]].conn
    BY <1>1, <1>5 DEF K!Attached
  <2>2. clients[s[i]].conn \in Nat
    <3>1. clients[s[i]] \in Client
      BY <1>4, <1>5 DEF WireType
    <3> QED
      BY <3>1 DEF Client
  <2> QED
    BY <2>1, <2>2
<1>7. TodoTrue' /\ todo' \in Seq(Fds \cup {0})
  <2>1. CASE backlog = <<>>
    <3>1. todo' = s
      BY <1>1, <1>5, <2>1
    <3> QED
      BY <1>2, <1>4, <1>5, <1>6, <3>1 DEF TodoTrue
  <2>2. CASE backlog # <<>>
    <3>1. todo' = s \o <<0>>
      BY <1>1, <2>2
    <3> DEFINE t == s \o <<0>>
    <3>2. /\ t \in Seq(Fds \cup {0}) /\ Len(t) = m + 1 /\ t[m + 1] = 0
          /\ \A i \in 1..m : t[i] = s[i]
      BY <1>3, <1>5
    <3> HIDE DEF t
    <3>3. \A i \in 1..m + 1 : i \in 1..m \/ i = m + 1
      BY <1>3
    <3>4. \A i \in 1..m : t[i] \in ready /\ t[i] # 0 /\ clients[t[i]] # K!NoClient
      BY <1>4, <1>5, <3>2
    <3>5. \A i \in 1..m + 1 : IF t[i] = 0 THEN backlog # <<>>
                              ELSE clients[t[i]] # K!NoClient
      BY <2>2, <3>2, <3>3, <3>4
    <3>6. \A i, j \in 1..m + 1 : t[i] = t[j] => i = j
      BY <1>6, <3>2, <3>3, <3>4
    <3>7. todo' = t
      BY <3>1 DEF t
    <3> QED
      BY <1>2, <3>2, <3>5, <3>6, <3>7 DEF TodoTrue
  <2> QED
    BY <2>1, <2>2
<1>8. WireType'
  BY <1>2, <1>7 DEF WireType
<1>9. ClientsTrue' /\ OwnConn' /\ BacklogTrue' /\ GotTrue'
  BY <1>2, SameAll DEF SameConn, WireType
<1> QED
  BY <1>7, <1>8, <1>9

LEMMA NewConn ==
  ASSUME K!WireAssumption, NEW w \in Written
  PROVE  /\ w.litter \o K!Encoded(w.frames) \o w.rest \in Seq(K!Byte)
         /\ K!Decoded(w.litter \o K!Encoded(w.frames) \o w.rest) = K!WithType(w.frames)
         /\ K!WithType(w.frames) \in Seq(Seq(K!Byte))
<1> DEFINE lt == w.litter
           fs == w.frames
           rest == w.rest
           s == K!Encoded(fs)
<1>1. /\ K!Distinct /\ lt \in Seq(K!Byte) /\ K!Decoded(Append(lt, FEND)) = <<>>
      /\ fs \in Seq(Seq(K!Byte)) /\ rest \in Seq(K!Byte)
      /\ \A i \in 2..Len(rest) : rest[i] # FEND
  BY DEF K!WireAssumption
<1> HIDE DEF lt, fs, rest
<1>2. K!Decoded(lt \o s \o rest) = K!WithType(fs)
  BY <1>1, StreamReads
<1>3. s \in Seq(K!Byte)
  BY <1>1, EncodedType
<1> HIDE DEF s
<1>4. lt \o s \o rest \in Seq(K!Byte)
  BY <1>1, <1>3
<1>5. K!WithType(fs) \in Seq(Seq(K!Byte))
  BY <1>1, TypedType
<1> QED
  BY <1>2, <1>4, <1>5 DEF lt, fs, rest, s

LEMMA WaitingGot ==
  ASSUME NEW x \in Conn, x.got = <<>>, K!Decoded(x.pipe) = x.wrote
  PROVE  K!IsPrefix(x.got, x.wrote) /\ (x.pipe = <<>> => x.got = x.wrote)
<1>1. x.wrote \in Seq(Seq(K!Byte))
  BY ConnIs
<1> DEFINE Elem == Seq(K!Byte)
           t == x.wrote
<1>2. t \in Seq(Elem)
  BY <1>1
<1> HIDE DEF Elem, t
<1>3. K!IsPrefix(<<>>, t)
  BY <1>2, PrefixNone
<1>4. K!Decoded(<<>>) = <<>>
  BY NewType, PushNone DEF K!Decoded
<1> QED
  BY <1>3, <1>4 DEF t

LEMMA Connecting ==
  ASSUME K!WireAssumption, WireInv, K!Connects
  PROVE  WireInv'
<1> USE DEF WireInv
<1>1. PICK w \in Written :
        conn' = Append(conn,
         [up |-> TRUE, got |-> <<>>, told |-> <<>>, since |-> 0,
          writes |-> w.frames # <<>> \/ w.rest # <<>>,
          pipe |-> w.litter \o K!Encoded(w.frames) \o w.rest,
          wrote |-> K!WithType(w.frames)])
  BY DEF K!Connects
<1>2. /\ UNCHANGED <<clients, todo, at, bc_buf, air, broadcast>>
      /\ backlog' = Append(backlog, Len(conn) + 1)
  BY DEF K!Connects
<1> DEFINE p == w.litter \o K!Encoded(w.frames) \o w.rest
           o == K!WithType(w.frames)
           v == (w.frames # <<>> \/ w.rest # <<>>)
           r == [up |-> TRUE, got |-> <<>>, told |-> <<>>, since |-> 0,
                 writes |-> v, pipe |-> p, wrote |-> o]
           n == Len(conn) + 1
           m == Len(backlog) + 1
<1>3. p \in Seq(K!Byte) /\ K!Decoded(p) = o /\ o \in Seq(Seq(K!Byte))
  BY NewConn
<1>4. v \in BOOLEAN
  OBVIOUS
<1>5. conn' = Append(conn, r)
  BY <1>1
<1> HIDE DEF p, o, v
<1>6. r \in Conn /\ r.got = <<>> /\ r.told = <<>> /\ K!Decoded(r.pipe) = r.wrote
  <2>1. <<>> \in Seq(K!Byte) /\ <<>> \in Seq(Seq(K!Byte)) /\ 0 \in Nat
    OBVIOUS
  <2> QED
    BY <1>3, <1>4, <2>1 DEF Conn
<1> HIDE DEF r
<1>7. conn \in Seq(Conn) /\ Len(conn) \in Nat /\ backlog \in Seq(Nat \ {0})
      /\ Len(backlog) \in Nat
  BY DEF WireType
<1>8. /\ conn' \in Seq(Conn) /\ Len(conn') = n /\ conn'[n] = r
      /\ \A x \in 1..Len(conn) : conn'[x] = conn[x] /\ x \in 1..n
      /\ n \in 1..n /\ n \in Nat \ {0}
      /\ \A x \in 1..n : x \in 1..Len(conn) \/ x = n
  BY <1>5, <1>6, <1>7
<1>9. /\ backlog' \in Seq(Nat \ {0}) /\ Len(backlog') = m /\ backlog'[m] = n
      /\ \A i \in 1..Len(backlog) : backlog'[i] = backlog[i]
      /\ \A i \in 1..m : i \in 1..Len(backlog) \/ i = m
  BY <1>2, <1>7, <1>8
<1>10. \A i \in 1..Len(conn) : i # n
  BY <1>7
<1> HIDE DEF n, m
<1>11. WireType'
  BY <1>2, <1>8, <1>9 DEF WireType
<1>12. ClientsTrue'
  <2> SUFFICES ASSUME NEW fd \in Fds, clients[fd] # K!NoClient
               PROVE  ReadsTrue(fd)' /\ ToldTrue(fd)'
    BY <1>2 DEF ClientsTrue
  <2>1. ReadsTrue(fd) /\ ToldTrue(fd)
    BY DEF ClientsTrue
  <2>2. clients[fd].conn \in 1..Len(conn)
    BY <2>1 DEF ReadsTrue
  <2>3. conn'[clients[fd].conn] = conn[clients[fd].conn]
        /\ clients[fd].conn \in 1..Len(conn')
    BY <1>8, <2>2
  <2> QED
    BY <1>2, <2>1, <2>3 DEF ReadsTrue, ToldTrue
<1>13. OwnConn'
  BY <1>2 DEF OwnConn
<1>14. BacklogTrue'
  <2>1. \A c \in 1..Len(conn) : Waiting(conn, c) => Waiting(conn', c)
    BY <1>8 DEF Waiting
  <2>2. \A i \in 1..Len(backlog) : Waiting(conn, backlog[i]) /\ backlog[i] \in 1..Len(conn)
    BY DEF BacklogTrue, Waiting
  <2>3. Waiting(conn', n)
    BY <1>6, <1>8 DEF Waiting
  <2>4. \A fd \in Fds : clients[fd] # K!NoClient => clients[fd].conn # n
    BY <1>10 DEF ClientsTrue, ReadsTrue
  <2>5. \A i \in 1..m : Waiting(conn', backlog'[i])
    BY <1>9, <2>1, <2>2, <2>3
  <2>6. \A i \in 1..m : \A fd \in Fds :
          clients[fd] # K!NoClient => clients[fd].conn # backlog'[i]
    BY <1>9, <2>4 DEF BacklogTrue
  <2>7. \A i, j \in 1..m : backlog'[i] = backlog'[j] => i = j
    <3>1. \A i, j \in 1..Len(backlog) : backlog[i] = backlog[j] => i = j
      BY DEF BacklogTrue
    <3>2. \A i \in 1..Len(backlog) : backlog[i] # n
      BY <1>10, <2>2
    <3> QED
      BY <1>9, <3>1, <3>2
  <2> QED
    BY <1>2, <1>9, <2>5, <2>6, <2>7 DEF BacklogTrue, Waiting
<1>15. TodoTrue'
  <2>1. backlog' # <<>>
    BY <1>7, <1>9 DEF m
  <2> QED
    BY <1>2, <2>1 DEF TodoTrue
<1>16. GotTrue'
  <2>1. K!IsPrefix(r.got, r.wrote) /\ (r.pipe = <<>> => r.got = r.wrote)
    BY <1>6, WaitingGot
  <2> QED
    BY <1>8, <2>1 DEF GotTrue
<1> QED
  BY <1>11, <1>12, <1>13, <1>14, <1>15, <1>16

LEMMA TodoTail ==
  ASSUME WireInv, todo # <<>>
  PROVE  /\ Head(todo) = todo[1] /\ 1 \in 1..Len(todo)
         /\ Tail(todo) \in Seq(Fds \cup {0})
         /\ \A i \in 1..Len(Tail(todo)) :
              Tail(todo)[i] = todo[i + 1] /\ i + 1 \in 1..Len(todo) /\ i + 1 # 1
  BY DEF WireInv, WireType

LEMMA Accepting ==
  ASSUME K!WireAssumption, WireInv, K!Accepts
  PROVE  WireInv'
<1> USE DEF WireInv
<1> DEFINE h == Head(backlog)
           n == Len(air.frames)
<1>1. PICK fd \in Fds : /\ clients[fd] = K!NoClient
                        /\ clients' = [clients EXCEPT ![fd] = K!add_client(Head(backlog))]
  BY DEF K!Accepts
<1>2. /\ conn' = [conn EXCEPT ![Head(backlog)].since = Len(air.frames)]
      /\ backlog' = Tail(backlog) /\ todo' = Tail(todo) /\ todo # <<>>
      /\ Head(todo) = 0 /\ UNCHANGED <<at, bc_buf, air, broadcast>>
  BY DEF K!Accepts
<1>3. /\ conn \in Seq(Conn) /\ Len(conn) \in Nat /\ backlog \in Seq(Nat \ {0})
      /\ clients \in [Fds -> Client \cup {K!NoClient}]
      /\ air \in [frames : Seq(Seq(K!Byte)), open : Seq(K!Byte) \cup {K!Nothing}, events : Nat]
  BY DEF WireType
<1>4. backlog # <<>>
  <2>1. todo[1] = 0 /\ 1 \in 1..Len(todo)
    BY <1>2, TodoTail
  <2> QED
    BY <2>1 DEF TodoTrue
<1>5. /\ h = backlog[1] /\ 1 \in 1..Len(backlog) /\ Tail(backlog) \in Seq(Nat \ {0})
      /\ \A i \in 1..Len(Tail(backlog)) : /\ Tail(backlog)[i] = backlog[i + 1]
                                          /\ i + 1 \in 1..Len(backlog) /\ i + 1 # 1
      /\ \A i, j \in 1..Len(Tail(backlog)) : i + 1 = j + 1 => i = j
  BY <1>3, <1>4
<1>6. Waiting(conn, h) /\ h \in 1..Len(conn) /\ h \in Nat \ {0}
  BY <1>5 DEF BacklogTrue, Waiting
<1>7. n \in Nat
  BY <1>3
<1> DEFINE y == [conn[h] EXCEPT !.since = n]
<1>8. conn' = [conn EXCEPT ![h] = y]
  BY <1>2
<1>9. \A x \in 1..Len(conn) : conn[x] \in Conn
  BY <1>3
<1>10. /\ y \in Conn /\ y.since = n
       /\ y.got = conn[h].got /\ y.told = conn[h].told /\ y.pipe = conn[h].pipe
       /\ y.wrote = conn[h].wrote
  <2> DEFINE x == conn[h]
  <2>1. x \in Conn
    BY <1>6, <1>9
  <2>2. y = [x EXCEPT !.since = n]
    OBVIOUS
  <2> HIDE DEF x, y, n
  <2>3. y \in Conn /\ y.since = n /\ y.got = x.got /\ y.told = x.told /\ y.pipe = x.pipe
        /\ y.wrote = x.wrote
    BY <1>7, <2>1, <2>2 DEF Conn
  <2> QED
    BY <2>3 DEF x
<1> HIDE DEF y, n, h
<1>11. /\ \A x \in 1..Len(conn) : conn'[x] = IF x = h THEN y ELSE conn[x]
       /\ DOMAIN conn' = 1..Len(conn)
  BY <1>3, <1>6, <1>8
<1>12. conn' \in Seq(Conn) /\ Len(conn') = Len(conn)
  <2>1. \A x \in 1..Len(conn) : conn'[x] \in Conn
    BY <1>9, <1>10, <1>11
  <2>0. conn \in [1..Len(conn) -> Conn]
    BY <1>3
  <2>2. conn' \in [1..Len(conn) -> Conn]
    BY <1>8, <1>10, <2>0
  <2>3. Len(conn) \in Nat
    BY <1>3
  <2>4. conn' \in Seq(Conn)
    BY <2>2, <2>3, SeqDef
  <2>5. Len(conn') = Len(conn)
    BY <1>11, <2>3, <2>4
  <2> QED
    BY <2>4, <2>5
<1> DEFINE a == K!add_client(h)
<1>13. /\ a \in Client /\ a # K!NoClient /\ a.conn = h /\ a.dec = K!NewDecoder
  BY <1>6, NewType DEF K!add_client, Client, K!NoClient
<1>14. clients' = [clients EXCEPT ![fd] = a]
  BY <1>1 DEF h
<1> HIDE DEF a
<1>15. /\ clients' \in [Fds -> Client \cup {K!NoClient}]
       /\ \A x \in Fds : clients'[x] = IF x = fd THEN a ELSE clients[x]
  BY <1>3, <1>13, <1>14
<1>16. WireType'
  BY <1>2, <1>3, <1>5, <1>12, <1>15, TodoTail DEF WireType
<1>17. \A x \in Fds : clients[x] # K!NoClient => clients[x].conn # h
                                               /\ clients[x].conn \in 1..Len(conn)
  BY <1>5 DEF BacklogTrue, ClientsTrue, ReadsTrue
<1>18. ClientsTrue'
  <2> SUFFICES ASSUME NEW x \in Fds, clients'[x] # K!NoClient
               PROVE  ReadsTrue(x)' /\ ToldTrue(x)'
    BY DEF ClientsTrue
  <2>1. CASE x # fd
    <3>1. clients'[x] = clients[x] /\ clients[x] # K!NoClient
      BY <1>15, <2>1
    <3>2. ReadsTrue(x) /\ ToldTrue(x)
      BY <3>1 DEF ClientsTrue
    <3>3. conn'[clients[x].conn] = conn[clients[x].conn]
          /\ clients[x].conn \in 1..Len(conn')
      BY <1>11, <1>12, <1>17, <3>1
    <3> QED
      BY <1>2, <3>1, <3>2, <3>3 DEF ReadsTrue, ToldTrue
  <2>2. CASE x = fd
    <3>1. clients'[x] = a /\ clients'[x].conn = h /\ clients'[x].dec = K!NewDecoder
      BY <1>13, <1>15, <2>2
    <3>2. conn'[h] = y /\ h \in 1..Len(conn')
      BY <1>6, <1>11, <1>12
    <3>3. y.got = <<>> /\ y.told = <<>> /\ K!Decoded(y.pipe) = y.wrote
      BY <1>6, <1>10 DEF Waiting
    <3>4. ReadsTrue(x)'
      <4>1. y.wrote \in Seq(Seq(K!Byte))
        BY <1>10, ConnIs
      <4> DEFINE t == y.wrote
      <4>2. <<>> \o t = t
        BY <4>1
      <4>3. y.got \o K!push(K!NewDecoder, y.pipe).out = y.wrote
        BY <3>3, <4>2 DEF K!Decoded
      <4> QED
        BY <3>1, <3>2, <4>3, NewType DEF ReadsTrue
    <3>5. ToldTrue(x)'
      <4> DEFINE fs == air.frames
      <4>1. fs \in Seq(Seq(K!Byte)) /\ n = Len(fs)
        BY <1>3 DEF n
      <4>2. SubSeq(fs, n + 1, n) = <<>>
        BY <1>7, <4>1
      <4>3. K!Encoded(SubSeq(fs, n + 1, n)) = <<>>
        BY <4>2, EncodedNone
      <4>4. n <= n
        BY <1>7
      <4> QED
        BY <1>2, <1>10, <3>1, <3>2, <3>3, <4>1, <4>3, <4>4 DEF ToldTrue
    <3> QED
      BY <3>4, <3>5
  <2> QED
    BY <2>1, <2>2
<1>19. OwnConn'
  <2> SUFFICES ASSUME NEW x \in Fds, NEW z \in Fds, clients'[x] # K!NoClient,
                      clients'[z] # K!NoClient, clients'[x].conn = clients'[z].conn
               PROVE  x = z
    BY DEF OwnConn
  <2> QED
    BY <1>13, <1>15, <1>17 DEF OwnConn
<1>20. BacklogTrue'
  <2> DEFINE t == Tail(backlog)
  <2>1. \A i \in 1..Len(t) : t[i] # h
    BY <1>5 DEF BacklogTrue
  <2>2. \A i \in 1..Len(t) : Waiting(conn, t[i])
    BY <1>5 DEF BacklogTrue
  <2>3. \A c \in 1..Len(conn) : Waiting(conn, c) /\ c # h => Waiting(conn', c)
    BY <1>11, <1>12 DEF Waiting
  <2>4. \A i \in 1..Len(t) : Waiting(conn', t[i])
    BY <2>1, <2>2, <2>3 DEF Waiting
  <2>5. \A i \in 1..Len(t) : \A x \in Fds :
          clients'[x] # K!NoClient => clients'[x].conn # t[i]
    BY <1>5, <1>13, <1>15, <2>1 DEF BacklogTrue
  <2>6. \A i, j \in 1..Len(t) : t[i] = t[j] => i = j
    BY <1>5 DEF BacklogTrue
  <2>7. backlog' = t
    BY <1>2
  <2> HIDE DEF t
  <2> QED
    BY <2>4, <2>5, <2>6, <2>7 DEF BacklogTrue, Waiting
<1>21. TodoTrue'
  <2> DEFINE t == Tail(todo)
  <2>1. \A i \in 1..Len(t) : t[i] = todo[i + 1] /\ i + 1 \in 1..Len(todo) /\ i + 1 # 1
    BY <1>2, TodoTail
  <2>2. \A i \in 1..Len(t) : t[i] # 0
    BY <1>2, <2>1, TodoTail DEF TodoTrue
  <2>3. \A i \in 1..Len(t) : clients[t[i]] # K!NoClient /\ t[i] \in Fds
    <3>1. \A i \in 1..Len(todo) : todo[i] \in Fds \cup {0}
      BY DEF WireType
    <3> QED
      BY <2>1, <2>2, <3>1 DEF TodoTrue
  <2>4. \A i \in 1..Len(t) : clients'[t[i]] # K!NoClient
    BY <1>13, <1>15, <2>3
  <2>5. \A i, j \in 1..Len(t) : t[i] = t[j] => i = j
    <3>1. \A i, j \in 1..Len(t) : i + 1 = j + 1 => i = j
      OBVIOUS
    <3> QED
      BY <2>1, <3>1 DEF TodoTrue
  <2>6. todo' = t
    BY <1>2
  <2> HIDE DEF t
  <2> QED
    BY <2>2, <2>4, <2>5, <2>6 DEF TodoTrue
<1>22. GotTrue'
  BY <1>6, <1>10, <1>11, <1>12 DEF GotTrue
<1> QED
  BY <1>16, <1>18, <1>19, <1>20, <1>21, <1>22

(* Of the descriptors still to serve none is the one just served.          *)
LEMMA TodoServed ==
  ASSUME K!WireAssumption, WireInv, todo # <<>>, Head(todo) # 0, todo' = Tail(todo),
         UNCHANGED backlog,
         \A x \in Fds : x # Head(todo) /\ clients[x] # K!NoClient
                          => clients'[x] # K!NoClient
  PROVE  TodoTrue'
<1> USE DEF WireInv
<1> DEFINE t == Tail(todo)
<1>1. \A i \in 1..Len(t) : t[i] = todo[i + 1] /\ i + 1 \in 1..Len(todo) /\ i + 1 # 1
  BY TodoTail
<1>2. \A i \in 1..Len(todo) : todo[i] \in Fds \cup {0}
  BY DEF WireType
<1>3. \A i \in 1..Len(t) : t[i] # Head(todo)
  <2>1. Head(todo) = todo[1] /\ 1 \in 1..Len(todo)
    BY TodoTail
  <2> QED
    BY <1>1, <2>1 DEF TodoTrue
<1>4. \A i \in 1..Len(t) : IF t[i] = 0 THEN backlog # <<>> ELSE clients[t[i]] # K!NoClient
  BY <1>1 DEF TodoTrue
<1>5. \A i \in 1..Len(t) : t[i] = 0 \/ t[i] \in Fds
  BY <1>1, <1>2
<1>6. \A i \in 1..Len(t) : IF t[i] = 0 THEN backlog # <<>> ELSE clients'[t[i]] # K!NoClient
  <2> HIDE DEF t
  <2> QED
    BY <1>3, <1>4, <1>5
<1>7. \A i, j \in 1..Len(t) : t[i] = t[j] => i = j
  <2>1. \A i, j \in 1..Len(t) : i + 1 = j + 1 => i = j
    OBVIOUS
  <2> QED
    BY <1>1, <2>1 DEF TodoTrue
<1>8. todo' = t
  OBVIOUS
<1> HIDE DEF t
<1> QED
  BY <1>6, <1>7, <1>8 DEF TodoTrue

LEMMA Joined3 ==
  ASSUME NEW B, NEW s \in Seq(B), NEW t \in Seq(B), NEW u \in Seq(B)
  PROVE  s \o (t \o u) = (s \o t) \o u
  OBVIOUS

(* A client that has read is as true as it was.                            *)
LEMMA ReadOne ==
  ASSUME K!Distinct, NEW d \in Decoder, NEW x \in Conn, NEW m \in 1..Len(x.pipe),
         x.got \o K!push(d, x.pipe).out = x.wrote
  PROVE  LET e == K!push(d, SubSeq(x.pipe, 1, m))
             rest == SubSeq(x.pipe, m + 1, Len(x.pipe))
             got == x.got \o e.out
         IN  /\ Emptied(e) \in Decoder /\ Emptied(e).out = <<>>
             /\ rest \in Seq(K!Byte) /\ got \in Seq(Seq(K!Byte))
             /\ got \o K!push(Emptied(e), rest).out = x.wrote
             /\ K!IsPrefix(got, x.wrote)
             /\ rest = <<>> => got = x.wrote
<1> DEFINE e == K!push(d, SubSeq(x.pipe, 1, m))
           rest == SubSeq(x.pipe, m + 1, Len(x.pipe))
           z == K!push(Emptied(e), rest)
           p == x.pipe
           g == x.got
           w == x.wrote
           Elem == Seq(K!Byte)
           o == e.out
           r == z.out
<1>1. p \in Seq(K!Byte) /\ g \in Seq(Elem) /\ w \in Seq(Elem)
  BY ConnIs
<1>2. /\ e \in Decoder /\ rest \in Seq(K!Byte) /\ K!push(d, p).out = o \o r
      /\ z \in Decoder
  BY <1>1, Cut
<1>3. o \in Seq(Elem) /\ r \in Seq(Elem)
  <2> HIDE DEF e, z
  <2> QED
    BY <1>2, DecoderIs
<1>4. g \o (o \o r) = w
  BY <1>2
<1>5. Emptied(e) \in Decoder /\ Emptied(e).out = <<>>
  <2> HIDE DEF e
  <2> QED
    BY <1>2, EmptiedType
<1>6. rest = <<>> => r = <<>>
  <2> SUFFICES ASSUME rest = <<>> PROVE r = <<>>
    OBVIOUS
  <2>1. z = K!push(Emptied(e), <<>>)
    OBVIOUS
  <2> HIDE DEF e, z, rest
  <2>2. z = Emptied(e)
    BY <1>5, <2>1, PushNone
  <2> QED
    BY <1>5, <2>2
<1> HIDE DEF g, o, r, w, Elem
<1>7. g \o o \in Seq(Elem) /\ g \o (o \o r) = (g \o o) \o r
  BY <1>1, <1>3
<1>8. (g \o o) \o r = w
  BY <1>4, <1>7
<1> DEFINE h == g \o o
<1>9. h \in Seq(Elem) /\ h \o r = w
  BY <1>7, <1>8
<1> HIDE DEF h
<1>10. K!IsPrefix(h, w)
  <2>1. K!IsPrefix(h, h \o r)
    BY <1>3, <1>9, PrefixOf
  <2> QED
    BY <1>9, <2>1
<1>11. r = <<>> => h = w
  BY <1>9
<1> QED
  BY <1>2, <1>5, <1>6, <1>9, <1>10, <1>11
     DEF h, g, o, r, w, Elem, z, p, e, rest

LEMMA Taken ==
  ASSUME K!WireAssumption, WireInv, NEW fd \in Fds, clients[fd] # K!NoClient,
         NEW c, c = clients[fd].conn, NEW y \in Conn, NEW a \in Client,
         clients' = [clients EXCEPT ![fd] = a], conn' = [conn EXCEPT ![c] = y],
         a.conn = c, a.dec.out = <<>>, y.got \o K!push(a.dec, y.pipe).out = y.wrote,
         y.told = conn[c].told, y.since = conn[c].since,
         K!IsPrefix(y.got, y.wrote), y.pipe = <<>> => y.got = y.wrote,
         todo # <<>>, fd = Head(todo), todo' = Tail(todo),
         UNCHANGED <<backlog, at, bc_buf, air, broadcast>>
  PROVE  WireInv'
<1> USE DEF WireInv
<1>1. /\ conn \in Seq(Conn) /\ Len(conn) \in Nat
      /\ clients \in [Fds -> Client \cup {K!NoClient}]
  BY DEF WireType
<1>2. ReadsTrue(fd) /\ ToldTrue(fd)
  BY DEF ClientsTrue
<1>3. c \in 1..Len(conn)
  BY <1>2 DEF ReadsTrue
<1>4. a # K!NoClient
  BY DEF Client, K!NoClient
<1>10. /\ \A i \in 1..Len(conn) : conn'[i] = IF i = c THEN y ELSE conn[i]
       /\ \A i \in Fds : clients'[i] = IF i = fd THEN a ELSE clients[i]
       /\ clients' \in [Fds -> Client \cup {K!NoClient}]
  BY <1>1, <1>3
<1>11. conn' \in Seq(Conn) /\ Len(conn') = Len(conn)
  <2>0. conn \in [1..Len(conn) -> Conn]
    BY <1>1
  <2>2. conn' \in [1..Len(conn) -> Conn]
    BY <2>0
  <2>3. Len(conn) \in Nat
    BY <1>1
  <2>4. conn' \in Seq(Conn)
    BY <2>2, <2>3, SeqDef
  <2>5. Len(conn') = Len(conn)
    BY <2>2, <2>3, <2>4
  <2> QED
    BY <2>4, <2>5
<1>12. WireType'
  BY <1>10, <1>11, TodoTail DEF WireType
<1>13. \A z \in Fds : z # fd /\ clients[z] # K!NoClient => clients[z].conn # c
  BY DEF OwnConn
<1>14. ClientsTrue'
  <2> SUFFICES ASSUME NEW z \in Fds, clients'[z] # K!NoClient
               PROVE  ReadsTrue(z)' /\ ToldTrue(z)'
    BY DEF ClientsTrue
  <2>1. CASE z # fd
    <3>1. clients'[z] = clients[z] /\ clients[z] # K!NoClient
      BY <1>10, <2>1
    <3>2. ReadsTrue(z) /\ ToldTrue(z)
      BY <3>1 DEF ClientsTrue
    <3>3. conn'[clients[z].conn] = conn[clients[z].conn]
          /\ clients[z].conn \in 1..Len(conn')
      BY <1>10, <1>11, <1>13, <2>1, <3>1, <3>2 DEF ReadsTrue
    <3> QED
      BY <3>1, <3>2, <3>3 DEF ReadsTrue, ToldTrue
  <2>2. CASE z = fd
    <3>1. clients'[z] = a
      BY <1>10, <2>2
    <3>2. conn'[c] = y /\ c \in 1..Len(conn')
      BY <1>3, <1>10, <1>11
    <3>3. ReadsTrue(z)'
      BY <3>1, <3>2 DEF ReadsTrue
    <3>4. ToldTrue(z)'
      BY <1>2, <3>1, <3>2 DEF ToldTrue
    <3> QED
      BY <3>3, <3>4
  <2> QED
    BY <2>1, <2>2
<1>15. OwnConn'
  <2> SUFFICES ASSUME NEW u \in Fds, NEW z \in Fds, clients'[u] # K!NoClient,
                      clients'[z] # K!NoClient, clients'[u].conn = clients'[z].conn
               PROVE  u = z
    BY DEF OwnConn
  <2> QED
    BY <1>10, <1>13 DEF OwnConn
<1>16. BacklogTrue'
  <2>1. \A i \in 1..Len(backlog) : backlog[i] # c /\ Waiting(conn, backlog[i])
    BY DEF BacklogTrue
  <2>2. \A i \in 1..Len(backlog) : Waiting(conn', backlog[i])
    BY <1>10, <1>11, <2>1 DEF Waiting
  <2>3. \A i \in 1..Len(backlog) : \A z \in Fds :
          clients'[z] # K!NoClient => clients'[z].conn # backlog[i]
    BY <1>10, <2>1 DEF BacklogTrue
  <2>4. \A i, j \in 1..Len(backlog) : backlog[i] = backlog[j] => i = j
    BY DEF BacklogTrue
  <2> QED
    BY <2>2, <2>3, <2>4 DEF BacklogTrue, Waiting
<1>17. TodoTrue'
  <2>1. Head(todo) # 0
    BY DEF K!WireAssumption
  <2>2. \A z \in Fds : z # Head(todo) /\ clients[z] # K!NoClient => clients'[z] # K!NoClient
    BY <1>10
  <2> QED
    BY <2>1, <2>2, TodoServed
<1>18. GotTrue'
  BY <1>3, <1>10, <1>11 DEF GotTrue
<1> QED
  BY <1>12, <1>14, <1>15, <1>16, <1>17, <1>18

LEMMA TakenClient ==
  ASSUME NEW x \in Client, NEW e \in Decoder
  PROVE  LET a == [x EXCEPT !.dec = e]
         IN  a \in Client /\ a.conn = x.conn /\ a.dec = e
<1> DEFINE a == [x EXCEPT !.dec = e]
<1>1. x = [conn |-> x.conn, dec |-> x.dec] /\ x.conn \in Nat \ {0}
  BY DEF Client
<1>2. a = [x EXCEPT !.dec = e]
  OBVIOUS
<1> HIDE DEF a
<1>3. a = [conn |-> x.conn, dec |-> e]
  BY <1>1, <1>2
<1>4. a \in Client /\ a.conn = x.conn /\ a.dec = e
  BY <1>1, <1>3 DEF Client
<1> QED
  BY <1>4 DEF a

Taker(fd, c, m) == K!push(clients[fd].dec, SubSeq(conn[c].pipe, 1, m))
Took(fd, c, m, y, a) ==
  /\ a = [clients[fd] EXCEPT !.dec = Emptied(Taker(fd, c, m))]
  /\ y = [conn[c] EXCEPT !.pipe = SubSeq(conn[c].pipe, m + 1, Len(conn[c].pipe)),
                         !.got = conn[c].got \o Taker(fd, c, m).out]
  /\ a.conn = c /\ a.dec.out = <<>>
  /\ y.got \o K!push(a.dec, y.pipe).out = y.wrote
  /\ y.told = conn[c].told /\ y.since = conn[c].since
  /\ K!IsPrefix(y.got, y.wrote) /\ (y.pipe = <<>> => y.got = y.wrote)

LEMMA TakingIs ==
  ASSUME K!WireAssumption, WireInv, NEW fd \in Fds, clients[fd] # K!NoClient,
         NEW c, c = clients[fd].conn, NEW m \in 1..Len(conn[c].pipe)
  PROVE  \E y \in Conn, a \in Client : Took(fd, c, m, y, a)
<1>1. conn \in Seq(Conn) /\ clients[fd] \in Client
  BY DEF WireInv, WireType
<1>2. ReadsTrue(fd)
  BY DEF WireInv, ClientsTrue
<1>3. /\ c \in 1..Len(conn) /\ clients[fd].dec \in Decoder
      /\ conn[c].got \o K!push(clients[fd].dec, conn[c].pipe).out = conn[c].wrote
  BY <1>1, <1>2 DEF ReadsTrue, Client
<1>4. conn[c] \in Conn /\ K!Distinct
  BY <1>1, <1>3 DEF K!WireAssumption
<1> DEFINE x == conn[c]
           k1 == clients[fd]
           dd == k1.dec
           d == K!push(dd, SubSeq(x.pipe, 1, m))
           e == Emptied(d)
           rest == SubSeq(x.pipe, m + 1, Len(x.pipe))
           got == x.got \o d.out
           a == [k1 EXCEPT !.dec = e]
           y == [x EXCEPT !.pipe = rest, !.got = got]
<1> HIDE DEF x, k1, dd, a, y
<1>5. /\ x \in Conn /\ k1 \in Client /\ c = k1.conn /\ dd \in Decoder
      /\ x.got \o K!push(dd, x.pipe).out = x.wrote /\ m \in 1..Len(x.pipe)
  BY <1>1, <1>3, <1>4 DEF x, k1, dd
<1>6. /\ e \in Decoder /\ e.out = <<>> /\ rest \in Seq(K!Byte) /\ got \in Seq(Seq(K!Byte))
      /\ got \o K!push(e, rest).out = x.wrote
      /\ K!IsPrefix(got, x.wrote) /\ (rest = <<>> => got = x.wrote)
  BY <1>4, <1>5, ReadOne
<1> HIDE DEF d, e, rest, got
<1>y. y = [x EXCEPT !.pipe = rest, !.got = got] /\ a = [k1 EXCEPT !.dec = e]
  BY DEF y, a
<1>7. a \in Client /\ a.conn = k1.conn /\ a.dec = e
  BY <1>5, <1>6, TakenClient DEF a
<1>8. /\ y \in Conn /\ y.pipe = rest /\ y.got = got /\ y.wrote = x.wrote
      /\ y.told = x.told /\ y.since = x.since
  <2> HIDE DEF a, y
  <2>1. x = [up |-> x.up, got |-> x.got, told |-> x.told, since |-> x.since,
             writes |-> x.writes, pipe |-> x.pipe, wrote |-> x.wrote]
        /\ x.up \in BOOLEAN /\ x.told \in Seq(K!Byte) /\ x.since \in Nat
        /\ x.writes \in BOOLEAN /\ x.wrote \in Seq(Seq(K!Byte))
    BY <1>5, ConnIs
  <2>2. y = [x EXCEPT !.pipe = rest, !.got = got]
    BY <1>y
  <2>3. y = [up |-> x.up, got |-> got, told |-> x.told, since |-> x.since,
             writes |-> x.writes, pipe |-> rest, wrote |-> x.wrote]
    BY <2>1, <2>2
  <2> QED
    BY <1>6, <2>1, <2>3 DEF Conn
<1>9. /\ y \in Conn /\ a \in Client /\ a.conn = c /\ a.dec.out = <<>>
      /\ y.got \o K!push(a.dec, y.pipe).out = y.wrote
      /\ y.told = x.told /\ y.since = x.since
      /\ K!IsPrefix(y.got, y.wrote) /\ (y.pipe = <<>> => y.got = y.wrote)
  BY <1>5, <1>6, <1>7, <1>8
<1>10. /\ a = [clients[fd] EXCEPT !.dec = Emptied(Taker(fd, c, m))]
       /\ y = [conn[c] EXCEPT !.pipe = SubSeq(conn[c].pipe, m + 1, Len(conn[c].pipe)),
                              !.got = conn[c].got \o Taker(fd, c, m).out]
  BY <1>y DEF x, k1, dd, d, e, rest, got, Taker
<1>11. /\ y \in Conn /\ a \in Client /\ a.conn = c /\ a.dec.out = <<>>
       /\ y.got \o K!push(a.dec, y.pipe).out = y.wrote
       /\ y.told = conn[c].told /\ y.since = conn[c].since
       /\ K!IsPrefix(y.got, y.wrote) /\ (y.pipe = <<>> => y.got = y.wrote)
  BY <1>9 DEF x
<1>12. Took(fd, c, m, y, a)
  BY <1>10, <1>11 DEF Took
<1> QED
  BY <1>11, <1>12

LEMMA Closing ==
  ASSUME K!WireAssumption, WireInv, NEW fd \in Fds,
         clients' = [clients EXCEPT ![fd] = K!NoClient],
         todo # <<>>, fd = Head(todo), todo' = Tail(todo),
         UNCHANGED <<conn, backlog, at, bc_buf, air, broadcast>>
  PROVE  WireInv'
<1> USE DEF WireInv
<1>1. /\ \A x \in Fds : clients'[x] = IF x = fd THEN K!NoClient ELSE clients[x]
      /\ clients' \in [Fds -> Client \cup {K!NoClient}]
  BY DEF WireType
<1>2. WireType'
  BY <1>1, TodoTail DEF WireType
<1>3. ClientsTrue'
  BY <1>1 DEF ClientsTrue, ReadsTrue, ToldTrue
<1>4. OwnConn'
  BY <1>1 DEF OwnConn
<1>5. BacklogTrue'
  BY <1>1 DEF BacklogTrue, Waiting
<1>6. TodoTrue'
  <2>1. Head(todo) # 0
    BY DEF K!WireAssumption
  <2> QED
    BY <1>1, <2>1, TodoServed
<1>7. GotTrue'
  BY DEF GotTrue
<1> QED
  BY <1>2, <1>3, <1>4, <1>5, <1>6, <1>7

LEMMA Serving ==
  ASSUME K!WireAssumption, WireInv, K!Serves
  PROVE  WireInv'
<1> DEFINE fd == Head(todo)
<1>1. /\ todo # <<>> /\ Head(todo) # 0 /\ K!Reads(fd) /\ todo' = Tail(todo)
      /\ UNCHANGED <<backlog, at, bc_buf, air, broadcast>>
  BY DEF K!Serves
<1>2. fd \in Fds /\ clients[fd] # K!NoClient
  <2>1. fd = todo[1] /\ 1 \in 1..Len(todo)
    BY <1>1, TodoTail
  <2>2. todo \in Seq(Fds \cup {0})
    BY DEF WireInv, WireType
  <2> QED
    BY <1>1, <2>1, <2>2 DEF WireInv, TodoTrue
<1>3. CASE conn[clients[fd].conn].pipe # <<>>
  <2>1. PICK m \in 1..Len(conn[clients[fd].conn].pipe) :
          LET c == clients[fd].conn
              d == K!push(clients[fd].dec, SubSeq(conn[c].pipe, 1, m))
          IN  /\ clients' = [clients EXCEPT ![fd].dec = [d EXCEPT !.out = <<>>]]
              /\ conn' = [conn EXCEPT ![c].pipe = SubSeq(@, m + 1, Len(@)),
                                      ![c].got = @ \o d.out]
    BY <1>1, <1>3 DEF K!Reads
  <2> DEFINE c == clients[fd].conn
  <2>3. /\ clients' = [clients EXCEPT ![fd].dec = Emptied(Taker(fd, c, m))]
        /\ conn' = [conn EXCEPT ![c].pipe = SubSeq(@, m + 1, Len(@)),
                                ![c].got = @ \o Taker(fd, c, m).out]
    BY <2>1 DEF Emptied, Taker
  <2>5. c = clients[fd].conn /\ m \in 1..Len(conn[c].pipe) /\ fd = Head(todo)
    OBVIOUS
  <2> HIDE DEF c, fd
  <2>2. PICK y \in Conn, a \in Client : Took(fd, c, m, y, a)
    BY <1>2, <2>5, TakingIs
  <2>4. clients' = [clients EXCEPT ![fd] = a] /\ conn' = [conn EXCEPT ![c] = y]
    BY <2>2, <2>3 DEF Took
  <2>6. /\ a.conn = c /\ a.dec.out = <<>>
        /\ y.got \o K!push(a.dec, y.pipe).out = y.wrote
        /\ y.told = conn[c].told /\ y.since = conn[c].since
        /\ K!IsPrefix(y.got, y.wrote) /\ (y.pipe = <<>> => y.got = y.wrote)
    BY <2>2 DEF Took
  <2> QED
    BY <1>1, <1>2, <2>4, <2>5, <2>6, Taken
<1>4. CASE conn[clients[fd].conn].pipe = <<>>
  <2>1. clients' = [clients EXCEPT ![fd] = K!NoClient] /\ UNCHANGED conn
    BY <1>1, <1>4 DEF K!Reads
  <2> QED
    BY <1>1, <1>2, <2>1, Closing
<1> QED
  BY <1>3, <1>4

(* Frames off the air.                                                     *)
AirType == [frames : Seq(Seq(K!Byte)), open : Seq(K!Byte) \cup {K!Nothing}, events : Nat]

LEMMA AirIs ==
  ASSUME NEW fs \in Seq(Seq(K!Byte)), NEW o \in Seq(K!Byte) \cup {K!Nothing}, NEW e \in Nat,
         NEW x, x = [frames |-> fs, open |-> o, events |-> e]
  PROVE  x \in AirType /\ x.frames = fs /\ x.open = o
  BY DEF AirType

LEMMA SubLast ==
  ASSUME NEW B, NEW fs \in Seq(B), NEW p \in B, NEW n \in Nat, n <= Len(fs)
  PROVE  /\ SubSeq(Append(fs, p), n + 1, Len(Append(fs, p)))
              = Append(SubSeq(fs, n + 1, Len(fs)), p)
         /\ SubSeq(fs, n + 1, Len(fs)) \in Seq(B)
         /\ n <= Len(Append(fs, p))
<1> DEFINE t == Append(fs, p)
           m == Len(fs)
           u == SubSeq(t, n + 1, m + 1)
           v == SubSeq(fs, n + 1, m)
           w == Append(v, p)
<1>1. /\ m \in Nat /\ t \in Seq(B) /\ Len(t) = m + 1 /\ t[m + 1] = p
      /\ \A i \in 1..m : t[i] = fs[i]
  OBVIOUS
<1>2. /\ v \in Seq(B) /\ Len(v) = m - n /\ \A i \in 1..m - n : v[i] = fs[n + i]
  OBVIOUS
<1> HIDE DEF t, v
<1>3. /\ u \in Seq(B) /\ Len(u) = m - n + 1
      /\ \A i \in 1..m - n + 1 : u[i] = t[n + i]
  BY <1>1
<1>4. /\ w \in Seq(B) /\ Len(w) = m - n + 1 /\ w[m - n + 1] = p
      /\ \A i \in 1..m - n : w[i] = v[i]
  BY <1>1, <1>2
<1> HIDE DEF u, w
<1>5. \A i \in 1..m - n + 1 : u[i] = w[i]
  <2> SUFFICES ASSUME NEW i \in 1..m - n + 1 PROVE u[i] = w[i]
    OBVIOUS
  <2>1. CASE i = m - n + 1
    <3>1. n + i = m + 1
      BY <1>1, <2>1
    <3> QED
      BY <1>1, <1>3, <1>4, <2>1, <3>1
  <2>2. CASE i # m - n + 1
    <3>1. i \in 1..m - n /\ n + i \in 1..m
      BY <1>1, <2>2
    <3> QED
      BY <1>1, <1>2, <1>3, <1>4, <3>1
  <2> QED
    BY <2>1, <2>2
<1>6. u = w
  BY <1>3, <1>4, <1>5
<1>7. n <= m + 1
  BY <1>1
<1> QED
  BY <1>1, <1>2, <1>6, <1>7 DEF u, w, v, t

LEMMA Told_ ==
  ASSUME NEW fs \in Seq(Seq(K!Byte)), NEW p \in Seq(K!Byte), NEW n \in Nat, n <= Len(fs)
  PROVE  /\ K!Encoded(SubSeq(Append(fs, p), n + 1, Len(Append(fs, p))))
              = K!Encoded(SubSeq(fs, n + 1, Len(fs))) \o K!kiss_encode(p)
         /\ n <= Len(Append(fs, p))
<1> DEFINE Elem == Seq(K!Byte)
           s == SubSeq(fs, n + 1, Len(fs))
<1>1. fs \in Seq(Elem) /\ p \in Elem
  OBVIOUS
<1> HIDE DEF Elem
<1>2. /\ SubSeq(Append(fs, p), n + 1, Len(Append(fs, p))) = Append(s, p)
      /\ s \in Seq(Elem) /\ n <= Len(Append(fs, p))
  BY <1>1, SubLast
<1> HIDE DEF s
<1>3. K!Encoded(Append(s, p)) = K!Encoded(s) \o K!kiss_encode(p)
  BY <1>2, EncodedLast DEF Elem
<1> QED
  BY <1>2, <1>3 DEF s

LEMMA ToldConn ==
  ASSUME NEW x \in Conn, NEW s \in Seq(K!Byte)
  PROVE  /\ [x EXCEPT !.told = @ \o s] \in Conn
         /\ \A y : y = [x EXCEPT !.told = @ \o s]
                     => /\ y.got = x.got /\ y.pipe = x.pipe /\ y.wrote = x.wrote
                        /\ y.since = x.since /\ y.told = x.told \o s
<1> DEFINE q == x.told \o s
           y == [x EXCEPT !.told = q]
<1>1. x = [up |-> x.up, got |-> x.got, told |-> x.told, since |-> x.since,
           writes |-> x.writes, pipe |-> x.pipe, wrote |-> x.wrote]
      /\ x.up \in BOOLEAN /\ x.got \in Seq(Seq(K!Byte)) /\ x.since \in Nat
      /\ x.writes \in BOOLEAN /\ x.pipe \in Seq(K!Byte) /\ x.wrote \in Seq(Seq(K!Byte))
      /\ x.told \in Seq(K!Byte)
  BY ConnIs
<1>2. q \in Seq(K!Byte)
  BY <1>1
<1>3. [x EXCEPT !.told = @ \o s] = y
  OBVIOUS
<1>4. y = [x EXCEPT !.told = q]
  OBVIOUS
<1> HIDE DEF q, y
<1>5. y = [up |-> x.up, got |-> x.got, told |-> q, since |-> x.since,
           writes |-> x.writes, pipe |-> x.pipe, wrote |-> x.wrote]
  BY <1>1, <1>4
<1>6. y \in Conn
  BY <1>1, <1>2, <1>5 DEF Conn
<1>7. /\ y.got = x.got /\ y.pipe = x.pipe /\ y.wrote = x.wrote
      /\ y.since = x.since /\ y.told = x.told \o s
  BY <1>5 DEF q
<1> QED
  BY <1>3, <1>6, <1>7

LEMMA Hearing ==
  ASSUME K!WireAssumption, WireInv, NEW p \in Seq(K!Byte), todo = <<>>, K!to_hosts(p),
         air'.frames = Append(air.frames, p), air' \in AirType, bc_buf' = air'.open,
         UNCHANGED <<backlog, todo>>
  PROVE  WireInv'
<1> USE DEF WireInv
<1> DEFINE gone == {fd \in Fds : clients[fd] # K!NoClient /\ ~conn[clients[fd].conn].up}
           ears(lost) == {clients[fd].conn :
                             fd \in {x \in Fds : clients[x] # K!NoClient} \ lost}
           s == K!kiss_encode(p)
<1>1. PICK lost \in SUBSET gone :
        /\ clients' = [fd \in Fds |-> IF fd \in lost THEN K!NoClient ELSE clients[fd]]
        /\ conn' = [c \in DOMAIN conn |-> IF c \in ears(lost)
                                          THEN [conn[c] EXCEPT !.told = @ \o s]
                                          ELSE conn[c]]
  BY DEF K!to_hosts
<1>2. s \in Seq(K!Byte)
  BY EncodeIs
<1> HIDE DEF s, gone
<1>3. /\ conn \in Seq(Conn) /\ Len(conn) \in Nat /\ DOMAIN conn = 1..Len(conn)
      /\ clients \in [Fds -> Client \cup {K!NoClient}] /\ air.frames \in Seq(Seq(K!Byte))
  BY DEF WireType
<1>4. \A x \in Fds : clients'[x] = IF x \in lost THEN K!NoClient ELSE clients[x]
  BY <1>1
<1>5. \A x \in Fds : clients'[x] # K!NoClient =>
                       clients'[x] = clients[x] /\ clients[x].conn \in ears(lost)
  BY <1>4
<1>6. \A c \in ears(lost) : \E x \in Fds : clients[x] # K!NoClient /\ clients[x].conn = c
  OBVIOUS
<1> DEFINE told == ears(lost)
<1>7. \A c \in 1..Len(conn) : conn'[c] = IF c \in told
                                         THEN [conn[c] EXCEPT !.told = @ \o s]
                                         ELSE conn[c]
  BY <1>1, <1>3
<1>8. DOMAIN conn' = 1..Len(conn) /\ conn' = [c \in 1..Len(conn) |-> conn'[c]]
  BY <1>1, <1>3
<1> HIDE DEF told, ears
<1>9. \A c \in 1..Len(conn) :
        /\ conn'[c] \in Conn
        /\ conn'[c].got = conn[c].got /\ conn'[c].pipe = conn[c].pipe
        /\ conn'[c].wrote = conn[c].wrote /\ conn'[c].since = conn[c].since
        /\ c \notin told => conn'[c].told = conn[c].told
        /\ c \in told => conn'[c].told = conn[c].told \o s
  <2> SUFFICES ASSUME NEW c \in 1..Len(conn)
               PROVE  /\ conn'[c] \in Conn
                      /\ conn'[c].got = conn[c].got /\ conn'[c].pipe = conn[c].pipe
                      /\ conn'[c].wrote = conn[c].wrote /\ conn'[c].since = conn[c].since
                      /\ c \notin told => conn'[c].told = conn[c].told
                      /\ c \in told => conn'[c].told = conn[c].told \o s
    OBVIOUS
  <2>1. conn[c] \in Conn
    BY <1>3
  <2>2. CASE c \notin told
    BY <1>7, <2>1, <2>2
  <2>3. CASE c \in told
    <3> DEFINE x == conn[c]
               y == conn'[c]
    <3>1. y = [x EXCEPT !.told = @ \o s] /\ x \in Conn
      BY <1>7, <2>1, <2>3
    <3> HIDE DEF x, y
    <3>2. /\ [x EXCEPT !.told = @ \o s] \in Conn
          /\ \A z : z = [x EXCEPT !.told = @ \o s]
                     => /\ z.got = x.got /\ z.pipe = x.pipe /\ z.wrote = x.wrote
                        /\ z.since = x.since /\ z.told = x.told \o s
      <4> HIDE DEF WireInv
      <4> QED
        BY <1>2, <3>1, ToldConn, Zenon
    <3>3. /\ y \in Conn /\ y.got = x.got /\ y.pipe = x.pipe /\ y.wrote = x.wrote
          /\ y.since = x.since /\ y.told = x.told \o s
      <4> HIDE DEF WireInv
      <4> QED
        BY <3>1, <3>2, Zenon
    <3> QED
      BY <2>3, <3>3 DEF x, y
  <2> QED
    BY <2>2, <2>3
<1>10. conn' \in Seq(Conn) /\ Len(conn') = Len(conn)
  <2>1. conn' \in [1..Len(conn) -> Conn]
    BY <1>8, <1>9
  <2>2. Len(conn) \in Nat
    BY <1>3
  <2>3. conn' \in Seq(Conn)
    BY <2>1, <2>2, SeqDef
  <2>4. Len(conn') = Len(conn)
    BY <2>1, <2>2, <2>3
  <2> QED
    BY <2>3, <2>4
<1>11. WireType'
  <2>1. clients' \in [Fds -> Client \cup {K!NoClient}]
    BY <1>1, <1>3
  <2>2. backlog' \in Seq(Nat \ {0}) /\ todo' \in Seq(Fds \cup {0})
    BY DEF WireType
  <2>3. air' \in [frames : Seq(Seq(K!Byte)), open : Seq(K!Byte) \cup {K!Nothing}, events : Nat]
    BY DEF AirType
  <2> QED
    BY <1>10, <2>1, <2>2, <2>3 DEF WireType
<1>12. ClientsTrue'
  <2> SUFFICES ASSUME NEW x \in Fds, clients'[x] # K!NoClient
               PROVE  ReadsTrue(x)' /\ ToldTrue(x)'
    BY DEF ClientsTrue
  <2> DEFINE c == clients[x].conn
             fs == air.frames
  <2>1. clients'[x] = clients[x] /\ clients[x] # K!NoClient /\ c \in told
    BY <1>5 DEF told
  <2>2. ReadsTrue(x) /\ ToldTrue(x)
    BY <2>1 DEF ClientsTrue
  <2>3. c \in 1..Len(conn) /\ c \in 1..Len(conn')
    BY <1>10, <2>2 DEF ReadsTrue
  <2>4. ReadsTrue(x)'
    BY <1>9, <2>1, <2>2, <2>3 DEF ReadsTrue
  <2>5. ToldTrue(x)'
    <3>1. conn[c].since <= Len(fs) /\ conn[c].since \in Nat /\ fs \in Seq(Seq(K!Byte))
          /\ conn[c].told = K!Encoded(SubSeq(fs, conn[c].since + 1, Len(fs)))
      <4>1. conn[c] \in Conn
        BY <1>3, <2>3
      <4>2. conn[c].since \in Nat
        BY <4>1, ConnIs
      <4> QED
        BY <1>3, <2>2, <4>2 DEF ToldTrue
    <3> DEFINE n == conn[c].since
               gs == Append(fs, p)
    <3>2. conn'[c].since = n /\ conn'[c].told = conn[c].told \o s
      BY <1>9, <2>1, <2>3
    <3>3. n <= Len(fs) /\ n \in Nat
      BY <3>1
    <3>4. conn[c].told = K!Encoded(SubSeq(fs, n + 1, Len(fs)))
      BY <3>1
    <3> HIDE DEF n, c, fs
    <3>5. K!Encoded(SubSeq(gs, n + 1, Len(gs)))
             = K!Encoded(SubSeq(fs, n + 1, Len(fs))) \o s /\ n <= Len(gs)
      BY <3>1, <3>3, Told_ DEF s
    <3>6. conn'[c].told = K!Encoded(SubSeq(gs, n + 1, Len(gs)))
      BY <3>2, <3>4, <3>5
    <3>7. air'.frames = gs
      BY DEF fs
    <3>8. clients'[x].conn = c
      BY <2>1 DEF c
    <3> HIDE DEF gs
    <3> QED
      BY <3>2, <3>5, <3>6, <3>7, <3>8 DEF ToldTrue
  <2> QED
    BY <2>4, <2>5
<1>13. OwnConn'
  BY <1>5 DEF OwnConn
<1>14. BacklogTrue'
  <2>1. \A i \in 1..Len(backlog) : backlog[i] \notin told /\ Waiting(conn, backlog[i])
    BY <1>6 DEF BacklogTrue, told
  <2>2. \A i \in 1..Len(backlog) : Waiting(conn', backlog[i])
    BY <1>9, <1>10, <2>1 DEF Waiting
  <2>3. \A i \in 1..Len(backlog) : \A z \in Fds :
          clients'[z] # K!NoClient => clients'[z].conn # backlog[i]
    BY <1>5 DEF BacklogTrue
  <2>4. \A i, j \in 1..Len(backlog) : backlog[i] = backlog[j] => i = j
    BY DEF BacklogTrue
  <2> QED
    BY <2>2, <2>3, <2>4 DEF BacklogTrue, Waiting
<1>15. TodoTrue'
  <2>1. Len(todo) = 0 /\ \A i \in 1..0 : FALSE
    OBVIOUS
  <2> QED
    BY <2>1 DEF TodoTrue
<1>16. GotTrue'
  BY <1>9, <1>10 DEF GotTrue
<1> QED
  BY <1>11, <1>12, <1>13, <1>14, <1>15, <1>16

LEMMA Listening ==
  ASSUME WireInv, air' \in AirType, air'.frames = air.frames, bc_buf' = air'.open,
         UNCHANGED <<conn, clients, backlog, todo>>
  PROVE  WireInv'
<1> USE DEF WireInv
<1>1. WireType'
  BY DEF WireType, AirType
<1>2. TodoTrue'
  BY DEF TodoTrue
<1>3. ClientsTrue' /\ OwnConn' /\ BacklogTrue' /\ GotTrue'
  BY SameAll DEF SameConn, WireType
<1> QED
  BY <1>1, <1>2, <1>3

LEMMA Pumping ==
  ASSUME K!WireAssumption, WireInv, K!Pumps
  PROVE  WireInv'
<1>1. todo = <<>> /\ UNCHANGED <<backlog, todo, broadcast>>
  BY DEF K!Pumps
<1>2. /\ air \in AirType /\ bc_buf = air.open
      /\ air.frames \in Seq(Seq(K!Byte)) /\ air.events \in Nat
      /\ air.open \in Seq(K!Byte) \cup {K!Nothing}
      /\ air = [frames |-> air.frames, open |-> air.open, events |-> air.events]
  BY DEF WireInv, WireType, AirType
<1>3. Payloads \subseteq Seq(K!Byte)
  BY DEF K!WireAssumption
<1>4. CASE K!Message
  <2>1. PICK p \in Payloads :
          /\ K!to_hosts(p)
          /\ air' = [air EXCEPT !.frames = Append(@, p), !.events = @ + 1]
    BY <1>4 DEF K!Message
  <2>2. UNCHANGED bc_buf
    BY <1>4 DEF K!Message
  <2> DEFINE fs == Append(air.frames, p)
             e == air.events + 1
  <2>3. fs \in Seq(Seq(K!Byte)) /\ e \in Nat /\ p \in Seq(K!Byte)
    BY <1>2, <1>3
  <2>4. air' = [air EXCEPT !.frames = fs, !.events = e]
    BY <2>1
  <2> HIDE DEF fs, e
  <2>5. air' = [frames |-> fs, open |-> air.open, events |-> e]
    BY <1>2, <2>4
  <2>6. air' \in AirType /\ air'.frames = fs /\ bc_buf' = air'.open
    BY <1>2, <2>2, <2>3, <2>5, AirIs
  <2> QED
    BY <1>1, <2>1, <2>3, <2>6, Hearing DEF fs
<1>5. CASE K!Starts
  <2>1. /\ air' = [air EXCEPT !.open = <<>>, !.events = @ + 1]
        /\ bc_buf' = <<>> /\ UNCHANGED <<conn, clients>>
    BY <1>5 DEF K!Starts
  <2> DEFINE e == air.events + 1
  <2>2. e \in Nat /\ <<>> \in Seq(K!Byte)
    BY <1>2
  <2>3. air' = [air EXCEPT !.open = <<>>, !.events = e]
    BY <2>1
  <2> HIDE DEF e
  <2>4. air' = [frames |-> air.frames, open |-> <<>>, events |-> e]
    BY <1>2, <2>3
  <2>5. air' \in AirType /\ air'.frames = air.frames /\ bc_buf' = air'.open
    <3>1. <<>> \in Seq(K!Byte) \cup {K!Nothing}
      BY <2>2
    <3> DEFINE o == <<>>
    <3>2. air' = [frames |-> air.frames, open |-> o, events |-> e] /\ bc_buf' = o
          /\ o \in Seq(K!Byte) \cup {K!Nothing}
      BY <2>1, <2>4, <3>1
    <3> HIDE DEF o
    <3> QED
      BY <1>2, <2>2, <3>2, AirIs
  <2> QED
    BY <1>1, <2>1, <2>5, Listening
<1>6. CASE K!Parts
  <2>1. PICK p \in Payloads :
          /\ air' = [air EXCEPT !.open = IF @ = K!Nothing THEN @ ELSE @ \o p,
                                !.events = @ + 1]
          /\ bc_buf' = (IF bc_buf = K!Nothing THEN bc_buf ELSE bc_buf \o p)
          /\ UNCHANGED <<conn, clients>>
    BY <1>6 DEF K!Parts
  <2> DEFINE e == air.events + 1
             o == IF air.open = K!Nothing THEN air.open ELSE air.open \o p
  <2>2. e \in Nat /\ o \in Seq(K!Byte) \cup {K!Nothing}
    BY <1>2, <1>3
  <2>3. air' = [air EXCEPT !.open = o, !.events = e] /\ bc_buf' = o
    BY <1>2, <2>1
  <2> HIDE DEF e, o
  <2>4. air' = [frames |-> air.frames, open |-> o, events |-> e]
    BY <1>2, <2>3
  <2>5. air' \in AirType /\ air'.frames = air.frames /\ bc_buf' = air'.open
    <3>1. air.frames \in Seq(Seq(K!Byte))
      BY <1>2
    <3>2. air' \in AirType /\ air'.frames = air.frames /\ air'.open = o
      BY <2>2, <2>4, <3>1, AirIs
    <3> QED
      BY <2>3, <3>2
  <2> QED
    BY <1>1, <2>1, <2>5, Listening
<1>7. CASE K!Ends
  <2>1. /\ air' = [frames |-> IF air.open = K!Nothing THEN air.frames
                              ELSE Append(air.frames, air.open),
                   open |-> K!Nothing, events |-> air.events + 1]
        /\ bc_buf' = K!Nothing
        /\ IF bc_buf = K!Nothing THEN UNCHANGED <<conn, clients>> ELSE K!to_hosts(bc_buf)
    BY <1>7 DEF K!Ends
  <2>2. air.events + 1 \in Nat
    BY <1>2
  <2>3. CASE air.open = K!Nothing
    <3>1. air' = [frames |-> air.frames, open |-> K!Nothing, events |-> air.events + 1]
      BY <2>1, <2>3
    <3>2. air' \in AirType /\ air'.frames = air.frames /\ bc_buf' = air'.open
      BY <1>2, <2>1, <2>2, <3>1, AirIs
    <3>3. UNCHANGED <<conn, clients>>
      BY <1>2, <2>1, <2>3
    <3> QED
      BY <1>1, <3>2, <3>3, Listening
  <2>4. CASE air.open # K!Nothing
    <3> DEFINE p == air.open
               fs == Append(air.frames, p)
    <3>1. p \in Seq(K!Byte) /\ p = bc_buf
      BY <1>2, <2>4
    <3>2. fs \in Seq(Seq(K!Byte))
      BY <1>2, <3>1
    <3>3. air' = [frames |-> fs, open |-> K!Nothing, events |-> air.events + 1]
      BY <2>1, <2>4
    <3>4. K!to_hosts(p)
      BY <2>1, <2>4, <3>1
    <3> HIDE DEF fs
    <3>5. air' \in AirType /\ air'.frames = fs /\ bc_buf' = air'.open
      <4> DEFINE e == air.events + 1
                 q == K!Nothing
      <4>1. e \in Nat /\ q \in Seq(K!Byte) \cup {K!Nothing} /\ bc_buf' = q
        BY <2>1, <2>2
      <4>2. air' = [frames |-> fs, open |-> q, events |-> e]
        BY <3>3
      <4> HIDE DEF e, q
      <4>3. air' \in AirType /\ air'.frames = fs /\ air'.open = q
        BY <3>2, <4>1, <4>2, AirIs
      <4> QED
        BY <4>1, <4>3
    <3> HIDE DEF p
    <3>6. air'.frames = Append(air.frames, p)
      BY <3>5 DEF fs
    <3> QED
      BY <1>1, <3>1, <3>4, <3>5, <3>6, Hearing
  <2> QED
    BY <2>3, <2>4
<1>8. CASE UNCHANGED <<conn, clients, air, bc_buf>>
  BY <1>1, <1>2, <1>8, Listening
<1> QED
  BY <1>4, <1>5, <1>6, <1>7, <1>8 DEF K!Pumps, K!on_bcast

LEMMA WireStep ==
  ASSUME K!WireAssumption, WireInv, [K!Next]_(K!wire)
  PROVE  WireInv'
  BY WireStays, Connecting, Leaving, Choosing, Accepting, Serving, Pumping
     DEF K!Next

(* FromHostsTrue and ToHostsTrue.                                          *)
LEMMA WireSays ==
  ASSUME K!WireAssumption, WireInv
  PROVE  K!FromHostsTrue /\ K!ToHostsTrue
<1> USE DEF WireInv
<1>1. conn \in Seq(Conn) /\ DOMAIN conn = 1..Len(conn) /\ air.frames \in Seq(Seq(K!Byte))
      /\ Len(air.frames) \in Nat /\ K!Distinct
  BY DEF WireType, K!WireAssumption
<1>2. K!FromHostsTrue
  BY <1>1 DEF K!FromHostsTrue, GotTrue
<1>3. K!ToHostsTrue
  <2> SUFFICES ASSUME NEW fd \in Fds, clients[fd] # K!NoClient
               PROVE  LET c == conn[clients[fd].conn]
                      IN K!Decoded(c.told) =
                           K!WithType(SubSeq(air.frames, c.since + 1, Len(air.frames)))
    BY DEF K!ToHostsTrue
  <2> DEFINE c == conn[clients[fd].conn]
             s == SubSeq(air.frames, c.since + 1, Len(air.frames))
  <2>1. ReadsTrue(fd) /\ ToldTrue(fd)
    BY DEF ClientsTrue
  <2>2. c \in Conn
    BY <1>1, <2>1 DEF ReadsTrue
  <2>3. c.told = K!Encoded(s)
    BY <2>1 DEF ToldTrue
  <2>4. s \in Seq(Seq(K!Byte))
    <3>1. c.since \in Nat
      BY <2>2, ConnIs
    <3> HIDE DEF c
    <3> DEFINE Elem == Seq(K!Byte)
               fs == air.frames
               n == c.since
               m == Len(fs)
    <3>2. fs \in Seq(Elem) /\ n \in Nat /\ m \in Nat /\ m = Len(fs)
      BY <1>1, <3>1
    <3> HIDE DEF Elem, fs, n, m
    <3>3. SubSeq(fs, n + 1, m) \in Seq(Elem)
      BY <3>2
    <3> QED
      BY <3>3 DEF Elem, fs, n, m
  <2> HIDE DEF c, s
  <2>5. K!Decoded(c.told) = K!WithType(s)
    BY <1>1, <2>3, <2>4, ToldReads
  <2> QED
    BY <2>5 DEF c, s
<1> QED
  BY <1>2, <1>3

(* No frame is lost in silence, frames of one size keep their order and    *)
(* the board's queue stays under the gate (the bridge and the tunnel); a   *)
(* program reads and is read exactly the frames written, in order, for     *)
(* reads that cut them anywhere (FramesKept).  The tunnel's part rests on  *)
(* the code's numbers: its gate is below the size of the board's queue.    *)
THEOREM FramesKeptAlways ==
  ASSUME TunnelRoom
  PROVE  Spec => []FramesKept
<1> DEFINE Inv == /\ which = "net" => NetInv
                  /\ which = "wire" => WireInv
<1>1. NetAssumption /\ K!WireAssumption
  BY HostsAssumption DEF NetAssumption
<1>2. Init => Inv
  BY <1>1, NetStart, WireStart DEF Init
<1>3. Inv /\ [Next]_all => Inv'
  <2> SUFFICES ASSUME Inv, [Next]_all PROVE Inv'
    OBVIOUS
  <2>1. ASSUME which' = "net" PROVE NetInv'
    <3>1. which = "net"
      BY <2>1, Stays
    <3>2. [N!HostNext]_(N!allvars)
      BY <3>1 DEF Next, all, N!allvars, N!vars, N!board, N!others, N!tunnel
    <3> QED
      BY <1>1, <3>1, <3>2, NetStep
  <2>2. ASSUME which' = "wire" PROVE WireInv'
    <3>1. which = "wire"
      BY <2>2, Stays
    <3>2. [K!Next]_(K!wire)
      BY <3>1 DEF Next, all, K!wire
    <3> QED
      BY <1>1, <3>1, <3>2, WireStep
  <2> QED
    BY <2>1, <2>2
<1>4. Inv => FramesKept
  BY <1>1, TunnelRoom, NetTrue, WireSays DEF FramesKept
<1> QED
  BY <1>2, <1>3, <1>4, PTL DEF Spec
-----------------------------------------------------------------------------
(* The voice server.  Its proofs are in VoiceLinkProofs; what they say is  *)
(* said here of the composition, whose V is the same module.               *)
VP == INSTANCE VoiceLinkProofs

LEMMA SameVoiceSteps ==
  /\ V!VoiceAssumption => VP!VoiceAssumption
  /\ V!Init => VP!Init
  /\ V!Next => VP!Next
  /\ V!vars = VP!vars
<1>1. V!VoiceAssumption => VP!VoiceAssumption
  BY DEF V!VoiceAssumption, VP!VoiceAssumption
<1>2. V!Init => VP!Init
  BY DEF V!Init, VP!Init, V!IdleEnc, VP!IdleEnc, V!IdleDec, VP!IdleDec,
         V!IdleFin, VP!IdleFin
<1>3. V!vars = VP!vars
  BY DEF V!vars, VP!vars, V!stream, VP!stream, V!ingest, VP!ingest, V!listen,
         VP!listen, V!decoded, VP!decoded, V!world, VP!world, V!ghosts,
         VP!ghosts
<1>4. V!Ingest => VP!Ingest
  BY DEF V!Ingest, VP!Ingest, V!stream, VP!stream, V!ingest, VP!ingest,
         V!listen, VP!listen, V!decoded, VP!decoded, V!world, VP!world,
         V!ghosts, VP!ghosts
<1>5. \A e \in Encoders : V!EncTake(e) => VP!EncTake(e)
  BY DEF V!EncTake, VP!EncTake, V!IdleEnc, VP!IdleEnc,
         V!stream, VP!stream, V!ingest, VP!ingest, V!listen, VP!listen,
         V!decoded, VP!decoded, V!world, VP!world, V!ghosts, VP!ghosts
<1>6. \A e \in Encoders : V!EncExit(e) => VP!EncExit(e)
  BY DEF V!EncExit, VP!EncExit, V!stream, VP!stream, V!ingest, VP!ingest,
         V!listen, VP!listen, V!decoded, VP!decoded, V!world, VP!world,
         V!ghosts, VP!ghosts
<1>7. \A e \in Encoders : V!FeedEnter(e) => VP!FeedEnter(e)
  BY DEF V!FeedEnter, VP!FeedEnter, V!EncDone, VP!EncDone, V!IdleEnc,
         VP!IdleEnc, V!stream, VP!stream, V!ingest, VP!ingest, V!listen,
         VP!listen, V!decoded, VP!decoded, V!world, VP!world, V!ghosts,
         VP!ghosts
<1>8. \A e \in Encoders : V!FeedChunk(e) => VP!FeedChunk(e)
  BY DEF V!FeedChunk, VP!FeedChunk, V!EncodeChunk, VP!EncodeChunk, V!Encodable,
         VP!Encodable, V!Tokens, VP!Tokens, V!Send, VP!Send, V!SendChunk,
         VP!SendChunk, V!Data, VP!Data, V!EndOfStream, VP!EndOfStream,
         V!stream, VP!stream, V!ingest, VP!ingest, V!listen, VP!listen,
         V!decoded, VP!decoded, V!world, VP!world, V!ghosts, VP!ghosts
<1>9. \A e \in Encoders : V!FeedLeave(e) => VP!FeedLeave(e)
  BY DEF V!FeedLeave, VP!FeedLeave, V!EncDone, VP!EncDone, V!IdleEnc,
         VP!IdleEnc, V!Encodable, VP!Encodable, V!stream, VP!stream, V!ingest,
         VP!ingest, V!listen, VP!listen, V!decoded, VP!decoded, V!world,
         VP!world, V!ghosts, VP!ghosts
<1>10. V!Receive => VP!Receive
  BY DEF V!Receive, VP!Receive, V!stream, VP!stream, V!ingest, VP!ingest,
         V!listen, VP!listen, V!decoded, VP!decoded, V!world, VP!world,
         V!ghosts, VP!ghosts
<1>11. V!Fade => VP!Fade
  BY DEF V!Fade, VP!Fade, V!Acts, VP!Acts,
         V!stream, VP!stream, V!ingest, VP!ingest, V!listen,
         VP!listen, V!decoded, VP!decoded, V!world, VP!world, V!ghosts,
         VP!ghosts
<1>12. \A d \in Decoders : V!DecLook(d) => VP!DecLook(d)
  BY DEF V!DecLook, VP!DecLook, V!Decodable, VP!Decodable, V!Marker, VP!Marker,
         V!stream, VP!stream, V!ingest, VP!ingest, V!listen, VP!listen,
         V!decoded, VP!decoded, V!world, VP!world, V!ghosts, VP!ghosts
<1>13. \A d \in Decoders : V!DecVocode(d) => VP!DecVocode(d)
  BY DEF V!DecVocode, VP!DecVocode, V!Decodable, VP!Decodable, V!Marker,
         VP!Marker, V!IdleDec, VP!IdleDec, V!stream, VP!stream, V!ingest,
         VP!ingest, V!listen, VP!listen, V!decoded, VP!decoded, V!world,
         VP!world, V!ghosts, VP!ghosts
<1>14. \A d \in Decoders : V!DecCommit(d) => VP!DecCommit(d)
  BY DEF V!DecCommit, VP!DecCommit, V!IdleDec, VP!IdleDec, V!stream, VP!stream,
         V!ingest, VP!ingest, V!listen, VP!listen, V!decoded, VP!decoded,
         V!world, VP!world, V!ghosts, VP!ghosts
<1>15. \A d \in Decoders : V!DecExit(d) => VP!DecExit(d)
  BY DEF V!DecExit, VP!DecExit, V!stream, VP!stream, V!ingest, VP!ingest,
         V!listen, VP!listen, V!decoded, VP!decoded, V!world, VP!world,
         V!ghosts, VP!ghosts
<1>16. \A s \in Stops : V!StopPressed(s) => VP!StopPressed(s)
  BY DEF V!StopPressed, VP!StopPressed, V!Acts, VP!Acts,
         V!stream, VP!stream, V!ingest,
         VP!ingest, V!listen, VP!listen, V!decoded, VP!decoded, V!world,
         VP!world, V!ghosts, VP!ghosts
<1>17. \A s \in Stops : V!StopDrained(s) => VP!StopDrained(s)
  BY DEF V!StopDrained, VP!StopDrained, V!EncoderIdle, VP!EncoderIdle,
         V!stream, VP!stream, V!ingest, VP!ingest, V!listen, VP!listen,
         V!decoded, VP!decoded, V!world, VP!world, V!ghosts, VP!ghosts
<1>18. \A s \in Stops : V!StopGivesUp(s) => VP!StopGivesUp(s)
  BY DEF V!StopGivesUp, VP!StopGivesUp, V!EncoderIdle, VP!EncoderIdle,
         V!stream, VP!stream, V!ingest, VP!ingest, V!listen, VP!listen,
         V!decoded, VP!decoded, V!world, VP!world, V!ghosts, VP!ghosts
<1>19. \A s \in Stops : V!StopFlush(s) => VP!StopFlush(s)
  BY DEF V!StopFlush, VP!StopFlush, V!Silence, VP!Silence, V!stream, VP!stream,
         V!ingest, VP!ingest, V!listen, VP!listen, V!decoded, VP!decoded,
         V!world, VP!world, V!ghosts, VP!ghosts
<1>20. \A s \in Stops : V!StopChunk(s) => VP!StopChunk(s)
  BY DEF V!StopChunk, VP!StopChunk, V!EncodeChunk, VP!EncodeChunk, V!Encodable,
         VP!Encodable, V!Tokens, VP!Tokens, V!Send, VP!Send, V!SendChunk,
         VP!SendChunk, V!Data, VP!Data, V!EndOfStream, VP!EndOfStream,
         V!stream, VP!stream, V!ingest, VP!ingest, V!listen, VP!listen,
         V!decoded, VP!decoded, V!world, VP!world, V!ghosts, VP!ghosts
<1>21. \A s \in Stops : V!StopClose(s) => VP!StopClose(s)
  BY DEF V!StopClose, VP!StopClose, V!Padded, VP!Padded, V!Marker, VP!Marker,
         V!Answer, VP!Answer, V!IdleFin, VP!IdleFin, V!SendChunk, VP!SendChunk,
         V!Data, VP!Data, V!EndOfStream, VP!EndOfStream, V!Encodable,
         VP!Encodable, V!stream, VP!stream, V!ingest, VP!ingest, V!listen,
         VP!listen, V!decoded, VP!decoded, V!world, VP!world, V!ghosts,
         VP!ghosts
<1>22. \A s \in Stops : V!StopRaises(s) => VP!StopRaises(s)
  BY DEF V!StopRaises, VP!StopRaises, V!Answer, VP!Answer, V!IdleFin,
         VP!IdleFin, V!stream, VP!stream, V!ingest, VP!ingest, V!listen,
         VP!listen, V!decoded, VP!decoded, V!world, VP!world, V!ghosts,
         VP!ghosts
<1>23. \A s \in Stops : V!StopWaited(s) => VP!StopWaited(s)
  BY DEF V!StopWaited, VP!StopWaited, V!Decodable, VP!Decodable, V!Marker,
         VP!Marker, V!Front, VP!Front, V!Answer, VP!Answer, V!IdleFin,
         VP!IdleFin, V!stream, VP!stream, V!ingest, VP!ingest, V!listen,
         VP!listen, V!decoded, VP!decoded, V!world, VP!world, V!ghosts,
         VP!ghosts
<1>24. \A s \in Stops : V!StopSnapshot(s) => VP!StopSnapshot(s)
  BY DEF V!StopSnapshot, VP!StopSnapshot, V!stream, VP!stream, V!ingest,
         VP!ingest, V!listen, VP!listen, V!decoded, VP!decoded, V!world,
         VP!world, V!ghosts, VP!ghosts
<1>25. \A s \in Stops : V!StopWrite(s) => VP!StopWrite(s)
  BY DEF V!StopWrite, VP!StopWrite, V!Decodable, VP!Decodable, V!Marker,
         VP!Marker, V!Answer, VP!Answer, V!IdleFin, VP!IdleFin, V!stream,
         VP!stream, V!ingest, VP!ingest, V!listen, VP!listen, V!decoded,
         VP!decoded, V!world, VP!world, V!ghosts, VP!ghosts
<1>26. \A talk \in BOOLEAN : V!ResetBegins(talk) => VP!ResetBegins(talk)
  BY DEF V!ResetBegins, VP!ResetBegins, V!Acts, VP!Acts,
         V!stream, VP!stream, V!ingest,
         VP!ingest, V!listen, VP!listen, V!decoded, VP!decoded, V!world,
         VP!world, V!ghosts, VP!ghosts
<1>27. V!ResetEnds => VP!ResetEnds
  BY DEF V!ResetEnds, VP!ResetEnds, V!stream, VP!stream, V!ingest, VP!ingest,
         V!listen, VP!listen, V!decoded, VP!decoded, V!world, VP!world,
         V!ghosts, VP!ghosts
<1>28. V!Talk => VP!Talk
  BY DEF V!Talk, VP!Talk, V!stream, VP!stream, V!ingest, VP!ingest, V!listen,
         VP!listen, V!decoded, VP!decoded, V!world, VP!world, V!ghosts,
         VP!ghosts
<1>29. V!SelectPressed => VP!SelectPressed
  BY DEF V!SelectPressed, VP!SelectPressed, V!Acts, VP!Acts,
         V!stream, VP!stream, V!ingest,
         VP!ingest, V!listen, VP!listen, V!decoded, VP!decoded, V!world,
         VP!world, V!ghosts, VP!ghosts
<1>30. V!Joined => VP!Joined
  BY DEF V!Joined, VP!Joined, V!WorkersJoined, VP!WorkersJoined,
         V!stream, VP!stream, V!ingest, VP!ingest, V!listen,
         VP!listen, V!decoded, VP!decoded, V!world, VP!world, V!ghosts,
         VP!ghosts
<1>31. V!Opened => VP!Opened
  BY DEF V!Opened, VP!Opened, V!Unused, VP!Unused, V!IdleEnc, VP!IdleEnc, V!IdleDec, VP!IdleDec,
         V!stream, VP!stream, V!ingest, VP!ingest, V!listen, VP!listen,
         V!decoded, VP!decoded, V!world, VP!world, V!ghosts, VP!ghosts
<1>32. V!Next => VP!Next
  BY <1>4, <1>5, <1>6, <1>7, <1>8, <1>9, <1>10, <1>11, <1>12, <1>13, <1>14,
     <1>15, <1>16, <1>17, <1>18, <1>19, <1>20, <1>21, <1>22, <1>23, <1>24,
     <1>25, <1>26, <1>27, <1>28, <1>29, <1>30, <1>31
     DEF V!Next, VP!Next, V!Encoding, VP!Encoding, V!Decoding, VP!Decoding,
         V!Stopping, VP!Stopping, V!Control, VP!Control
<1> QED
  BY <1>1, <1>2, <1>3, <1>32

LEMMA VoiceMoves ==
  ASSUME [Next]_all, which' = "voice"
  PROVE  which = "voice" /\ [VP!Next]_(VP!vars)
<1>1. which = "voice"
  BY Stays
<1>2. V!Next \/ UNCHANGED V!vars
  BY <1>1 DEF Next, all, V!vars, V!stream, V!ingest, V!listen, V!decoded,
              V!world, V!ghosts
<1>3. CASE V!Next
  BY <1>1, <1>3, SameVoiceSteps
<1>4. CASE UNCHANGED V!vars
  BY <1>1, <1>4 DEF V!vars, V!stream, V!ingest, V!listen, V!decoded, V!world,
                    V!ghosts, VP!vars, VP!stream, VP!ingest, VP!listen,
                    VP!decoded, VP!world, VP!ghosts
<1> QED
  BY <1>2, <1>3, <1>4

(* With one STOP at a time, the voice server keeps its invariant.          *)
LEMMA VoiceAlways ==
  ASSUME \A s, t \in Stops : s = t
  PROVE  Spec => [](which = "voice" => VP!VoiceInv)
<1> DEFINE Inv == which = "voice" => VP!VoiceInv
<1>1. VP!VoiceAssumption /\ VP!Solo
  BY HostsAssumption, SameVoiceSteps DEF VP!Solo
<1>2. Init => Inv
  BY <1>1, SameVoiceSteps, VP!VoiceStart DEF Init
<1>3. Inv /\ [Next]_all => Inv'
  <2> SUFFICES ASSUME Inv, [Next]_all, which' = "voice"
               PROVE  VP!VoiceInv'
    OBVIOUS
  <2>1. which = "voice" /\ [VP!Next]_(VP!vars)
    BY VoiceMoves
  <2> QED
    BY <1>1, <2>1, VP!VoiceSteps
<1> QED
  BY <1>2, <1>3, PTL DEF Spec

(* What was handed to the board is a prefix of what was said in this       *)
(* session, once, in order and from its first post on, behind what the     *)
(* reset before it let through, and one broadcast carries it (StreamTrue), *)
(* for any number of posts, resets and workers and any size of a chunk,    *)
(* with one STOP at a time.  What an encoder that outlived its join does   *)
(* to the order, and a STOP between a reset and the talking it starts, are *)
(* excepted in StreamTrue.                                                 *)
THEOREM StreamTrueAlways ==
  ASSUME \A s, t \in Stops : s = t
  PROVE  Spec => []StreamTrue
<1>1. VP!VoiceInv => V!StreamTrue /\ V!OneStream
  <2>1. VP!VoiceInv => VP!StreamTrue /\ VP!OneStream
    BY HostsAssumption, SameVoiceSteps, VP!VoiceSays
  <2>2. VP!StreamTrue => V!StreamTrue
    BY DEF VP!StreamTrue, V!StreamTrue, VP!Settled, V!Settled, VP!Silence,
           V!Silence, VP!Marker, V!Marker, VP!Posts, V!Posts, VP!Once, V!Once,
           VP!ToSet, V!ToSet, VP!Cardinality, V!Cardinality, VP!Speech,
           V!Speech, VP!IsPrefix, V!IsPrefix
  <2>3. VP!OneStream => V!OneStream
    BY DEF VP!OneStream, V!OneStream
  <2> QED
    BY <2>1, <2>2, <2>3
<1>2. (which = "voice" => VP!VoiceInv) => StreamTrue
  BY <1>1 DEF StreamTrue
<1>3. Spec => [](which = "voice" => VP!VoiceInv)
  BY VoiceAlways
<1> QED
  BY <1>2, <1>3, PTL

(* STOP cuts nothing that was heard before it was pressed, unless it gave  *)
(* up waiting for the encoder or a worker outlived its join; and no frame  *)
(* of a warm-up deafens the far station while a transmission is on the air *)
(* whose warming was neither skipped, refused nor given up, however old    *)
(* the status it looked at, unless a request slipped in while STOP flushed *)
(* (NothingCut), for any times that keep WarmUpAssumption.                 *)
THEOREM NothingCutAlways ==
  ASSUME \A s, t \in Stops : s = t
  PROVE  Spec => []NothingCut
<1>1. VP!VoiceInv => V!NothingCut
  <2>1. VP!VoiceInv => VP!NothingCut
    BY HostsAssumption, SameVoiceSteps, VP!VoiceSays
  <2>2. VP!NothingCut => V!NothingCut
    BY DEF VP!NothingCut, V!NothingCut, VP!Settled, V!Settled, VP!Speech,
           V!Speech, VP!IsPrefix, V!IsPrefix
  <2> QED
    BY <2>1, <2>2
<1>2. (which = "voice" => VP!VoiceInv) /\ (which = "warmup" => W!QuietAir)
        => NothingCut
  BY <1>1 DEF NothingCut
<1>3. Spec => [](which = "voice" => VP!VoiceInv)
  BY VoiceAlways
<1>4. Spec => [](which = "warmup" => W!QuietAir)
  BY QuietAirAlways
<1> QED
  BY <1>2, <1>3, <1>4, PTL
-----------------------------------------------------------------------------
(* The voice streamer, whose steps are those of VoiceLinkProofs' S.         *)
LEMMA SameSpeechSteps ==
  /\ S!StreamerAssumption => VP!S!StreamerAssumption
  /\ S!Init => VP!S!Init
  /\ S!Next => VP!S!Next
  /\ S!streaming = VP!S!streaming
  /\ VP!S!SpeechTrue => S!SpeechTrue
<1>1. S!StreamerAssumption => VP!S!StreamerAssumption
  BY DEF S!StreamerAssumption, VP!S!StreamerAssumption, S!Halved, VP!S!Halved
<1>2. S!Init => VP!S!Init
  BY DEF S!Init, VP!S!Init
<1>3. S!streaming = VP!S!streaming
  BY DEF S!streaming, VP!S!streaming
<1>4. \A v : S!pack10(v) = VP!S!pack10(v)
  BY DEF S!pack10, VP!S!pack10, S!FlattenSeq, VP!S!FlattenSeq, S!BitsOf,
         VP!S!BitsOf, S!Halved, VP!S!Halved
<1>5. \A v, n : S!unpack10(v, n) = VP!S!unpack10(v, n)
  BY DEF S!unpack10, VP!S!unpack10, S!FlattenSeq, VP!S!FlattenSeq, S!TokenOf,
         VP!S!TokenOf
<1>6. S!Speak => VP!S!Speak
  BY <1>4 DEF S!Speak, VP!S!Speak, S!FlattenSeq, VP!S!FlattenSeq, S!Group,
         VP!S!Group, S!Command, VP!S!Command, S!WholeBytes, VP!S!WholeBytes
<1>7. S!Close => VP!S!Close
  BY <1>4 DEF S!Close, VP!S!Close, S!FlattenSeq, VP!S!FlattenSeq, S!Command,
         VP!S!Command, S!Tail10, VP!S!Tail10, S!Last, VP!S!Last
<1>8. S!receiver => VP!S!receiver
  BY DEF S!receiver, VP!S!receiver
<1>9. S!Result => VP!S!Result
  BY DEF S!Result, VP!S!Result
<1>10. S!Next => VP!S!Next
  BY <1>6, <1>7, <1>8, <1>9 DEF S!Next, VP!S!Next
<1>11. VP!S!SpeechTrue => S!SpeechTrue
  BY <1>5 DEF S!SpeechTrue, VP!S!SpeechTrue, S!IsPrefix, VP!S!IsPrefix,
         S!Tokens, VP!S!Tokens
<1> QED
  BY <1>1, <1>2, <1>3, <1>10, <1>11

(* A recording has every token that had arrived once and in order, with    *)
(* any number of workers and of STOPs at a time, unless a step of the      *)
(* decoder crossed the session's reset (VoiceLink); and what the           *)
(* receiver unpacks of a stream is what was said, however it is cut into   *)
(* chunks, groups, commands and pieces on the air (VoiceStream).           *)
THEOREM RecordingTrueAlways == Spec => []RecordingTrue
<1> DEFINE Inv == /\ which = "voice" => VP!RecordingInv
                  /\ which = "speech" => VP!PackInv
<1>1. VP!VoiceAssumption /\ VP!S!StreamerAssumption
  BY HostsAssumption, SameVoiceSteps, SameSpeechSteps
<1>2. Init => Inv
  BY <1>1, SameVoiceSteps, SameSpeechSteps, VP!RecordingStart, VP!StreamStart
     DEF Init
<1>3. Inv /\ [Next]_all => Inv'
  <2> SUFFICES ASSUME Inv, [Next]_all PROVE Inv'
    OBVIOUS
  <2>1. ASSUME which' = "voice" PROVE VP!RecordingInv'
    <3>1. which = "voice" /\ [VP!Next]_(VP!vars)
      BY <2>1, VoiceMoves
    <3> QED
      BY <1>1, <3>1, VP!RecordingSteps
  <2>2. ASSUME which' = "speech" PROVE VP!PackInv'
    <3>1. which = "speech"
      BY <2>2, Stays
    <3>2. S!Next \/ UNCHANGED S!streaming
      BY <3>1 DEF Next, all, S!streaming
    <3>3. [VP!S!Next]_(VP!S!streaming)
      <4>1. CASE S!Next
        BY <4>1, SameSpeechSteps
      <4>2. CASE UNCHANGED S!streaming
        BY <4>2 DEF S!streaming, VP!S!streaming
      <4> QED
        BY <3>2, <4>1, <4>2
    <3> QED
      BY <1>1, <3>1, <3>3, VP!StreamKeeps
  <2> QED
    BY <2>1, <2>2
<1>4. Inv => RecordingTrue
  <2>1. VP!RecordingInv => V!RecordingTrue
    <3>1. VP!RecordingInv => VP!RecordingTrue
      BY VP!RecordingSays
    <3>2. VP!RecordingTrue => V!RecordingTrue
      BY DEF VP!RecordingTrue, V!RecordingTrue, VP!AudioTrue, V!AudioTrue,
             VP!Decodable, V!Decodable, VP!Marker, V!Marker
    <3> QED
      BY <3>1, <3>2
  <2>2. VP!PackInv => S!SpeechTrue
    BY <1>1, SameSpeechSteps, VP!StreamSays
  <2> QED
    BY <2>1, <2>2 DEF RecordingTrue
<1> QED
  BY <1>2, <1>3, <1>4, PTL DEF Spec
=============================================================================
