------------------------------- MODULE LinkCtl -------------------------------
(***************************************************************************)
(* Rate adaptation of one directed link (ofdm_phy/link.py).  The receiver  *)
(* asks for a rung from what it measures, and lowers the request while it  *)
(* hears nothing; the request and its report of the signal ride in every   *)
(* frame it sends back.  The transmitter follows the request, capped by    *)
(* the report, by age, and by its own losses, and learns how much worse    *)
(* each rung is than the table says.  The caller is ofdm_phy/station.py.   *)
(*                                                                         *)
(* Levels are in steps of 1/20 dB, time in steps of 15 s.  An exchange     *)
(* takes no time; Tick is what separates exchanges.                        *)
(***************************************************************************)
EXTENDS Integers, Sequences

CONSTANTS
  Sens,         \* LADDER: sensitivity of each rung by the table
  MarginUp, MarginKeep,   \* margin_up, margin_keep
  StaleTx, StaleRx,       \* stale_s, rx_stale_s
  MaxAge,       \* snr_max_age_s
  HistLen,      \* entries of the history
  LossStep, GainStep, MaxOffset,  \* note_outcome
  Horizons,     \* ways of running: 0, or ticks until the run stops
  Channels,     \* pairs of a level at the receiver and of how much worse
                \* than the table this receiver is
  MaxFrames,    \* bound: frames of a run with a horizon
  MaxFades,     \* bound: frames lost although the rung holds
  MaxChanges    \* bound: changes of the channel, with a horizon

LinkAssumption ==
  /\ Sens \in Seq(Int) /\ Sens # <<>>
  /\ {MarginUp, MarginKeep, MaxAge, LossStep, GainStep, MaxOffset, MaxFrames,
      MaxFades, MaxChanges} \subseteq Nat
  /\ {StaleTx, StaleRx, HistLen} \subseteq Nat \ {0}
  /\ Horizons \subseteq Nat
  /\ Channels \subseteq [level : Int, bias : Nat]

Rung == 0 .. Len(Sens) - 1
SensOf(r) == Sens[r + 1]
LongAgo == -1000
LC_SNR_NONE == -99 * 20

VARIABLES
  now, horizon, channel,
  rx,       \* of the receiver: hist, req (_my_req), last (last_rx_time),
            \* decay (_req_decay_t)
  tx,       \* of the transmitter: req, time (peer_req_time), report, losses
            \* (up to 4), offset (rung_offset_db)
  frames, fades, changes,
  before, after, fresh  \* history: the request before the present silence
            \* was charged, after the last charge, the best level heard since

bounds == <<frames, fades, changes>>
ghosts == <<before, after, fresh>>
vars == <<now, horizon, channel, rx, tx, bounds, ghosts>>

Init ==
  /\ now = 0
  /\ horizon \in Horizons
  /\ channel \in Channels
  /\ rx = [hist |-> <<>>, req |-> 0, last |-> LongAgo, decay |-> LongAgo]
  /\ tx = [req |-> 0, time |-> LongAgo, report |-> LC_SNR_NONE, losses |-> 0,
           offset |-> [r \in Rung |-> 0]]
  /\ frames = 0 /\ fades = 0 /\ changes = 0
  /\ before = 0 /\ after = 0 /\ fresh = LC_SNR_NONE

-----------------------------------------------------------------------------
Larger(a, b) == IF a > b THEN a ELSE b
Smaller(a, b) == IF a < b THEN a ELSE b
(* The highest rung i that holds with margin, or 0. *)
Highest(Enough(_)) ==
  LET all == {r \in Rung: Enough(r)}
  IN IF all = {} THEN 0 ELSE CHOOSE r \in all: \A s \in all: s <= r

(* The receive side.  filtered_snr: the second-lowest of the measurements  *)
(* that are not too old, the lowest when there are less than three.        *)
Recent(y) == {i \in DOMAIN y.hist: now - y.hist[i].time <= MaxAge}
Lowest(y, places) ==
  CHOOSE i \in places: \A j \in places: y.hist[i].snr <= y.hist[j].snr
filtered_snr(y) ==
  LET recent == Recent(y)
      lowest == Lowest(y, recent)
      others == recent \ {lowest}
  IN IF recent = {} THEN LC_SNR_NONE
     ELSE IF \E i, j \in others: i # j THEN y.hist[Lowest(y, others)].snr
     ELSE y.hist[lowest].snr

(* rx_request outside silence: up at once, down to what holds.             *)
Follow(y) ==
  LET snr == filtered_snr(y)
      up == Highest(LAMBDA r: snr >= SensOf(r) + MarginUp)
      down == Highest(LAMBDA r: snr >= SensOf(r) + MarginKeep)
  IN IF up > y.req THEN up
     ELSE IF snr < SensOf(y.req) + MarginKeep THEN Smaller(y.req, down)
     ELSE y.req

(* Silence since base is charged by whole intervals and remembered as      *)
(* charged; the measurements before it are dropped.                        *)
Base(y) == Larger(y.decay, y.last)
Due(y) == now - Base(y) > StaleRx
ChargeFromLast(y) ==
  LET n == (now - y.last) \div StaleRx
  IN [y EXCEPT !.req = Larger(0, @ - n), !.decay = y.last + n * StaleRx,
               !.hist = <<>>]
ChargeKeeping(y) ==
  LET n == (now - Base(y)) \div StaleRx
  IN [y EXCEPT !.req = Larger(0, @ - n), !.decay = Base(y) + n * StaleRx]
Charge(y) ==
  LET n == (now - Base(y)) \div StaleRx
  IN [y EXCEPT !.req = Larger(0, @ - n), !.decay = Base(y) + n * StaleRx,
               !.hist = <<>>]

rx_requestAgain(y) ==
  IF now - y.last > StaleRx THEN ChargeFromLast(y)
  ELSE [y EXCEPT !.req = Follow(y)]
rx_request(y) ==
  IF Due(y) THEN Charge(y)
  ELSE IF now - y.last > StaleRx THEN y
  ELSE [y EXCEPT !.req = Follow(y)]

on_rx_frame(y) ==
  [y EXCEPT !.hist = LET h == Append(@, [time |-> now, snr |-> channel.level])
                     IN IF Len(h) > HistLen THEN Tail(h) ELSE h,
            !.last = now]

(* The receiver asks itself when it builds a frame (poll_tx).              *)
Ask(y) ==
  /\ rx' = rx_request(y)
  /\ before' = IF Due(y) /\ y.decay <= y.last THEN y.req ELSE before
  /\ after' = IF Due(y) THEN rx'.req ELSE after
  /\ fresh' = IF Due(y) THEN LC_SNR_NONE
              ELSE IF y # rx THEN Larger(fresh, channel.level)
              ELSE fresh

(* The word of a frame: the report in steps of 2 dB, -22 .. +6 dB, ties to *)
(* even, or no measurement (LinkControl).                                  *)
Quantum(snr) ==
  LET code == (snr + 24 * 20 + 20) \div 40
      tie == (snr + 24 * 20 + 20) % 40 = 0
      even == IF tie /\ code % 2 = 1 THEN code - 1 ELSE code
  IN Larger(1, Smaller(15, even)) * 40 - 24 * 20
Word(y) ==
  LET snr == filtered_snr(y)
  IN [req |-> y.req,
      report |-> IF snr <= -90 * 20 THEN LC_SNR_NONE ELSE Quantum(snr)]

-----------------------------------------------------------------------------
(* The transmit side. *)
Hears(x, word) ==
  [x EXCEPT !.req = word.req, !.time = now, !.report = word.report,
            !.losses = 0]

on_timeout(x) == [x EXCEPT !.losses = Smaller(4, @ + 1)]

note_outcomeNever(x, r, ok) == x
note_outcome(x, r, ok) ==
  [x EXCEPT !.offset[r] = IF ok THEN Larger(0, @ - GainStep)
                          ELSE Smaller(MaxOffset, @ + LossStep)]

Cap(x) ==
  IF x.report <= -90 * 20 THEN x.req
  ELSE Smaller(x.req,
         Highest(LAMBDA r: x.report >= SensOf(r) + x.offset[r] + MarginKeep))
Aged(x) ==
  LET age == now - x.time
  IN IF age > StaleTx THEN Larger(0, Cap(x) - age \div StaleTx) ELSE Cap(x)
tx_rung(x) ==
  IF x.losses >= 4 THEN 0
  ELSE IF x.losses >= 2 THEN Larger(0, Aged(x) - 2)
  ELSE Aged(x)

tx_rung_for_class(x, qos) ==
  IF qos = "bulk" THEN tx_rung(x) ELSE Larger(0, tx_rung(x) - 1)

-----------------------------------------------------------------------------
Holds(r) == channel.level >= SensOf(r) + channel.bias
MayFade == fades < MaxFades /\ fades' = fades + 1
Sends ==
  /\ frames' = IF horizon = 0 THEN 0 ELSE frames + 1
  /\ horizon > 0 => frames < MaxFrames
  /\ UNCHANGED <<now, horizon, channel, changes>>

(* A data frame and its answer.  It is not heard; or it is and the answer  *)
(* is lost, which the transmitter cannot tell; or both arrive.             *)
Exchange(qos) ==
  LET r == tx_rung_for_class(tx, qos)
      lost == note_outcome(on_timeout(tx), r, FALSE)
  IN /\ Sends
     /\ \/ /\ IF Holds(r) THEN MayFade ELSE UNCHANGED fades
           /\ tx' = lost
           /\ UNCHANGED <<rx, ghosts>>
        \/ /\ Holds(r) /\ MayFade
           /\ Ask(on_rx_frame(rx))
           /\ tx' = lost
        \/ /\ Holds(r) /\ UNCHANGED fades
           /\ Ask(on_rx_frame(rx))
           /\ tx' = note_outcome(Hears(tx, Word(rx')), r, TRUE)

(* A frame of the receiver's own, heard or not.                            *)
Speaks ==
  /\ horizon > 0
  /\ Sends /\ UNCHANGED fades
  /\ Ask(rx)
  /\ tx' \in {tx, Hears(tx, Word(rx'))}

Tick ==
  /\ now < horizon
  /\ now' = now + 1
  /\ UNCHANGED <<horizon, channel, rx, tx, bounds, ghosts>>

Changes ==
  /\ horizon > 0 /\ changes < MaxChanges
  /\ changes' = changes + 1
  /\ channel' \in Channels
  /\ UNCHANGED <<now, horizon, rx, tx, frames, fades, ghosts>>

Classes == IF horizon = 0 THEN {"bulk", "interactive"} ELSE {"bulk"}
AnyExchange == \E qos \in Classes: Exchange(qos)
Next == AnyExchange \/ Speaks \/ Tick \/ Changes

Spec == Init /\ [][Next]_vars
FairSpec == Spec /\ WF_vars(AnyExchange)
-----------------------------------------------------------------------------
(* Silence lowers the request by one rung for each interval of it, however *)
(* often the station asked in the meantime (the comment in rx_request).    *)
ChargedOnce ==
  rx.decay > rx.last =>
    LET silence == rx.decay - rx.last
    IN /\ silence % StaleRx = 0
       /\ rx.req = Larger(0, before - silence \div StaleRx)

(* What was measured before a silence does not raise the request after it: *)
(* a rise takes a frame heard since (filtered_snr, rx_request).            *)
NoResurrection ==
  rx.req > after => fresh >= SensOf(rx.req) + MarginUp

(* On a steady channel worse than the table by less than can be learned,   *)
(* the transmitter stops choosing rungs that do not hold (note_outcome).   *)
Steady == horizon = 0 /\ 2 * channel.bias <= MaxOffset
Settled == \A qos \in Classes: Holds(tx_rung_for_class(tx, qos))
Converges == <>[](Steady => Settled)
=============================================================================
