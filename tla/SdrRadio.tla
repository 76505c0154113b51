------------------------------ MODULE SdrRadio ------------------------------
(***************************************************************************)
(* One half-duplex radio behind the SDR driver (sdr_driver.py: pump, tick, *)
(* SoapyBackend).  A tick of audio is written to the radio, or else the    *)
(* radio is switched back to receive and read.  A write returns when the   *)
(* samples are buffered; the radio plays them as time passes, and what is  *)
(* left in its buffer when the transmit stream is deactivated is gone.     *)
(* Time is in fractions of a tick; sleeps and reads take as long as they   *)
(* take.                                                                   *)
(***************************************************************************)
EXTENDS Integers

CONSTANTS
  Fractions,    \* of a tick
  Jitter,       \* by how much a sleep may be late
  MaxSleep,     \* the two seconds of end_tx
  MaxWritten,   \* bound: ticks of audio the app queues
  MaxRounds     \* bound: rounds of the pump

RadioAssumption ==
  /\ {Fractions, MaxSleep} \subseteq Nat \ {0} /\ Jitter \subseteq Nat
  /\ {MaxWritten, MaxRounds} \subseteq Nat

VARIABLES
  mode,         \* "rx" or "tx"
  queued,       \* what end_tx believes was written since the switch
  tx_started,   \* time of the switch
  next_t,       \* time of the next round
  now,
  txq,          \* ticks of audio that wait
  fifo,         \* external: what the radio has not played
  idle, gap,    \* history: time its buffer was empty since the last write,
                \* and before it, in this transmission
  cut, cause,   \* history: what the last switch cut, and its gap
  written, rounds

device == <<fifo, idle, gap>>
seen == <<cut, cause>>
vars == <<mode, queued, tx_started, next_t, now, txq, device, seen, written,
          rounds>>

Init ==
  /\ mode = "rx" /\ queued = 0 /\ tx_started = 0 /\ next_t = 0 /\ now = 0
  /\ txq = 0 /\ fifo = 0 /\ idle = 0 /\ gap = 0 /\ cut = 0 /\ cause = 0
  /\ written = 0 /\ rounds = 0

Larger(a, b) == IF a > b THEN a ELSE b
Smaller(a, b) == IF a < b THEN a ELSE b
(* The radio (external) plays while time passes.                           *)
Left(held, time) == Larger(0, held - time)
Dry(held, time) == Larger(0, time - held)

Submit ==
  /\ written < MaxWritten
  /\ written' = written + 1 /\ txq' = txq + 1
  /\ UNCHANGED <<mode, queued, tx_started, next_t, now, device, seen, rounds>>

(* pump: at the end of a round it sleeps until the next is due; one that   *)
(* fell behind does not catch up.                                          *)
Paced(at, late) ==
  /\ rounds < MaxRounds
  /\ rounds' = rounds + 1
  /\ IF next_t + Fractions > at
     THEN next_t' = next_t + Fractions /\ now' = next_t' + late
     ELSE next_t' = at /\ now' = at

(* write: the switch to transmit starts the count.                         *)
Write ==
  /\ txq > 0 /\ txq' = txq - 1
  /\ mode' = "tx"
  /\ queued' = (IF mode = "tx" THEN queued ELSE 0) + Fractions
  /\ tx_started' = IF mode = "tx" THEN tx_started ELSE now
  /\ \E late \in Jitter: Paced(now, late)
  /\ LET held == fifo + Fractions
     IN /\ fifo' = Left(held, now' - now)
        /\ idle' = Dry(held, now' - now)
        /\ gap' = IF mode = "tx" THEN gap + idle ELSE 0
  /\ UNCHANGED <<seen, written>>

Reading == {0, Fractions}
(* end_tx: it waits for as long as what it counted takes.  Mutant: it does *)
(* not wait.                                                               *)
DrainNone == 0
Drain == Larger(0, Smaller(MaxSleep, queued - (now - tx_started)))
EndTx ==
  /\ txq = 0 /\ mode = "tx"
  /\ mode' = "rx" /\ queued' = 0
  /\ cut' = Left(fifo, Drain) /\ cause' = gap
  /\ fifo' = 0 /\ idle' = 0 /\ gap' = 0
  /\ \E late \in Jitter, took \in Reading: Paced(now + Drain + took, late)
  /\ UNCHANGED <<tx_started, txq, written>>

(* read in receive: what the radio has; the call takes up to a tick.       *)
Read ==
  /\ txq = 0 /\ mode = "rx"
  /\ \E late \in Jitter, took \in Reading: Paced(now + took, late)
  /\ UNCHANGED <<mode, queued, tx_started, txq, device, seen, written>>

Next == Submit \/ Write \/ EndTx \/ Read
Spec == Init /\ [][Next]_vars
-----------------------------------------------------------------------------
(* The end of a frame is not cut off: what the switch to receive throws    *)
(* away is at most what the radio lost in gaps between writes; a start     *)
(* that was late, or reads that took their time, cost nothing (end_tx).    *)
TailPlayed == cut <= cause
=============================================================================
