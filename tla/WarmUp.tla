------------------------------- MODULE WarmUp -------------------------------
(***************************************************************************)
(* Warming and settling the link before a voice broadcast, in the Link of  *)
(* host/webvoice/server.py.  The link is half duplex: while a station keys *)
(* a warm-up frame or its acknowledgement, it misses what is broadcast.    *)
(* The request that warms or starts polls what the two drain loops keep:   *)
(* the messages the far board has heard, and the last status of the near   *)
(* one, which may be older than what it is asked about.  Time passes in    *)
(* ticks, so that it is known how much older.  One browser sends one such  *)
(* request at a time.                                                      *)
(***************************************************************************)
EXTENDS Integers, Sequences, FiniteSets

CONSTANTS
  Tries,       \* frames of one warm-up: 8
  MaxSubmits,  \* bound: frames submitted
  MaxFaults,   \* bound: frames and acknowledgements lost
  MaxStarts,   \* bound: transmissions
  MaxDecays,   \* bound: times the link goes stale
  AirTime,     \* ticks it takes a frame to be heard, at least: 0.64 s
  MaxAge,      \* ticks a status may be old: the board makes one every 0.5 s
  Gap,         \* ticks between two looks at it: 0.25 s
  Patience     \* ticks before the wait for an echo is given up: 20 s

WarmUpAssumption ==
  /\ Tries \in Nat \ {0}
  /\ {MaxSubmits, MaxFaults, MaxStarts, MaxDecays} \subseteq Nat
  /\ {AirTime, MaxAge, Gap, Patience} \subseteq Nat
  /\ AirTime <= Patience /\ MaxAge < AirTime + Gap

VARIABLES
  req,        \* the request being served: where it is, for what, frames it
              \* sent, clean looks, how many it needs, ticks until it looks or
              \* may give up, and (history) whether it was refused or gave up
  talks,      \* idle, talking, flushing (STOP, before it drains), draining
  linkFresh,  \* last_link_t is at most 60 s old
  rx_msgs,    \* frames heard by the far board, new since the last submit
  tx_status,  \* whether nothing was pending or queued at the last status
  age,        \* ticks since the board made it
  \* the board and the air (external)
  queue, flight, air,
  busy,       \* ticks since the board got something to send, or Long
  submits, faults, starts, decays,
  quiet,      \* history: this transmission follows a settle that saw quiet
  slipped     \* history: a request was let in while STOP flushed, see Posted

warming == <<req, talks, linkFresh, rx_msgs, tx_status, age, queue, flight,
             air, busy, submits, faults, starts, decays, quiet, slipped>>
station == <<queue, flight, air, busy>>
bounds == <<submits, faults, starts, decays>>
host == <<req, talks, linkFresh, rx_msgs, tx_status, age, submits, starts,
          decays, quiet, slipped>>

NoFrame == 0
Long == AirTime + Gap
Least(a, b) == IF a < b THEN a ELSE b
Idle == [pc |-> "idle", for |-> "warmup", settle |-> TRUE, n |-> 0,
         clean |-> 0, need |-> 0, rest |-> 0, trouble |-> FALSE]

Init ==
  /\ req = Idle /\ talks = "idle" /\ linkFresh = FALSE
  /\ rx_msgs = {} /\ tx_status = FALSE /\ age = 0
  /\ queue = <<>> /\ flight = NoFrame /\ air = "clear" /\ busy = Long
  /\ submits = 0 /\ faults = 0 /\ starts = 0 /\ decays = 0
  /\ quiet = FALSE /\ slipped = FALSE

(* The status must be read again before it is older than MaxAge.           *)
Tick ==
  /\ age < MaxAge
  /\ age' = age + 1
  /\ busy' = Least(busy + 1, Long)
  /\ req' = [req EXCEPT !.rest = IF @ = 0 THEN 0 ELSE @ - 1]
  /\ UNCHANGED <<talks, linkFresh, rx_msgs, tx_status, queue, flight, air,
                 bounds, quiet, slipped>>

-----------------------------------------------------------------------------
(* The board keys one frame at a time and waits for its acknowledgement;   *)
(* what is lost is sent again, or given up with nothing left to come.      *)
Keys ==
  /\ \/ /\ flight = NoFrame /\ queue # <<>>
        /\ flight' = Head(queue) /\ queue' = Tail(queue)
     \/ /\ flight # NoFrame /\ air = "silent" /\ UNCHANGED <<flight, queue>>
  /\ air' = "frame"
  /\ UNCHANGED <<host, busy, faults>>
Lost ==
  /\ air \in {"frame", "ack"} /\ faults < MaxFaults
  /\ faults' = faults + 1
  /\ air' = "silent"
  /\ UNCHANGED <<host, busy, queue, flight>>
GivesUp ==
  /\ air = "silent"
  /\ air' = "clear" /\ flight' = NoFrame
  /\ UNCHANGED <<host, busy, queue, faults>>

(* The far board hears the frame, tells its host, and keys what it owes.   *)
Heard ==
  /\ air = "frame" /\ busy >= AirTime
  /\ air' = "ack"
  /\ rx_msgs' = rx_msgs \cup {flight}
  /\ UNCHANGED <<req, talks, linkFresh, tx_status, age, queue, flight, busy,
                 bounds, quiet, slipped>>
Acknowledged ==
  /\ air = "ack"
  /\ air' = "clear" /\ flight' = NoFrame
  /\ UNCHANGED <<host, busy, queue, faults>>

-----------------------------------------------------------------------------
(* The drain loop of the near board takes a status, any time before the    *)
(* last one is too old.                                                    *)
NothingToSend == flight = NoFrame /\ queue = <<>>
TxLoop ==
  /\ tx_status' = NothingToSend
  /\ age' = 0
  /\ UNCHANGED <<req, talks, linkFresh, rx_msgs, station, bounds, quiet,
                 slipped>>

-----------------------------------------------------------------------------
(* The requests.  A warm-up is refused while a transmission is on the air; *)
(* START warms a stale link and settles any other, and goes on whatever    *)
(* came of it.  STOP flushes with talking clear and draining not yet set:  *)
(* a request that comes then warms a link that is on the air.              *)
OnAir == talks \in {"talking", "draining"}
Posted(kind, settle) ==
  /\ req.pc = "idle"
  /\ req' = [Idle EXCEPT !.for = kind, !.settle = settle,
                         !.pc = CASE kind = "warmup" -> "warm"
                                  [] ~settle -> "talk"
                                  [] settle /\ ~linkFresh /\ ~OnAir -> "warm"
                                  [] settle /\ ~linkFresh /\ OnAir -> "talk"
                                  [] OTHER -> "settle",
                         !.need = IF kind = "start" THEN 1 ELSE 2,
                         !.rest = Gap,
                         !.trouble = ~settle \/ (~linkFresh /\ OnAir)]
  /\ slipped' = (slipped \/ talks = "flushing")
Warmup ==
  /\ ~OnAir                            \* else refused
  /\ \E settle \in BOOLEAN: Posted("warmup", settle)
  /\ UNCHANGED <<talks, linkFresh, rx_msgs, tx_status, age, station, bounds,
                 quiet>>
Start ==
  /\ starts < MaxStarts
  /\ \E settle \in BOOLEAN: Posted("start", settle)
  /\ starts' = starts + 1
  /\ UNCHANGED <<talks, linkFresh, rx_msgs, tx_status, age, station, submits,
                 faults, decays, quiet>>

(* The next frame.  What was heard before it does not count for it.        *)
Submit ==
  /\ req.pc = "warm" /\ submits < MaxSubmits
  /\ req' = [req EXCEPT !.pc = "wait", !.n = @ + 1, !.rest = Patience]
  /\ submits' = submits + 1
  /\ queue' = Append(queue, req.n + 1)
  /\ busy' = IF NothingToSend THEN 0 ELSE busy
  /\ rx_msgs' = {}
  /\ UNCHANGED <<talks, linkFresh, tx_status, age, flight, air, faults, starts,
                 decays, quiet, slipped>>

Answered(r) == IF r.for = "start" THEN [r EXCEPT !.pc = "talk"] ELSE Idle
Settles(r) == [r EXCEPT !.pc = "settle", !.clean = 0, !.need = 2, !.rest = Gap]
(* Mutant: the status that lies there is asked before any time has passed.  *)
EchoedAtOnce(r) == IF r.settle /\ ~tx_status THEN Settles(r) ELSE Answered(r)
Echoed(r) == IF r.settle THEN Settles(r) ELSE Answered(r)
Echo ==
  /\ req.pc = "wait" /\ req.n \in rx_msgs
  /\ req' = Echoed(req)
  /\ linkFresh' = (linkFresh \/ ~req.settle)
  /\ UNCHANGED <<talks, rx_msgs, tx_status, age, station, bounds, quiet,
                 slipped>>
WaitEnds ==
  /\ req.pc = "wait" /\ req.rest = 0
  /\ \/ req.n < Tries /\ req' = [req EXCEPT !.pc = "warm"]
     \/ req' = Answered([req EXCEPT !.trouble = TRUE])
  /\ UNCHANGED <<talks, linkFresh, rx_msgs, tx_status, age, station, bounds,
                 quiet, slipped>>

(* settle: looks a quarter of a second apart, at a status that comes every *)
(* half, until enough of them were clean or the budget is used up.         *)
Look ==
  /\ req.pc = "settle" /\ req.rest = 0
  /\ LET clean == IF tx_status THEN req.clean + 1 ELSE 0
     IN /\ req' = IF clean >= req.need THEN Answered(req)
                  ELSE [req EXCEPT !.clean = clean, !.rest = Gap]
        /\ linkFresh' = (linkFresh \/ (clean >= req.need /\ req.n > 0))
  /\ UNCHANGED <<talks, rx_msgs, tx_status, age, station, bounds, quiet,
                 slipped>>
SettleGivesUp ==
  /\ req.pc = "settle"
  /\ req' = Answered([req EXCEPT !.trouble = TRUE])
  /\ linkFresh' = (linkFresh \/ req.n > 0)
  /\ UNCHANGED <<talks, rx_msgs, tx_status, age, station, bounds, quiet,
                 slipped>>

(* reset_session waits for a STOP to end.                                  *)
Talk ==
  /\ req.pc = "talk" /\ talks \in {"idle", "talking"}
  /\ talks' = "talking"
  /\ quiet' = ~req.trouble
  /\ slipped' = FALSE
  /\ req' = Idle
  /\ UNCHANGED <<linkFresh, rx_msgs, tx_status, age, station, bounds>>
Stop ==
  /\ \/ talks = "talking" /\ talks' = "flushing"
     \/ talks = "flushing" /\ talks' = "draining"
     \/ talks = "draining" /\ talks' = "idle"
  /\ UNCHANGED <<req, linkFresh, rx_msgs, tx_status, age, station, bounds,
                 quiet, slipped>>
Decays ==
  /\ linkFresh /\ decays < MaxDecays
  /\ linkFresh' = FALSE /\ decays' = decays + 1
  /\ UNCHANGED <<req, talks, rx_msgs, tx_status, age, station, submits, faults,
                 starts, quiet, slipped>>

Board == Keys \/ Lost \/ GivesUp \/ Heard \/ Acknowledged
Warms == Submit \/ Echo \/ WaitEnds \/ Look \/ SettleGivesUp
Next ==
  \/ Board \/ TxLoop \/ Tick
  \/ Warmup \/ Start \/ Warms \/ Talk \/ Stop \/ Decays
Spec == Init /\ [][Next]_warming

-----------------------------------------------------------------------------
(* A transmission whose warming was neither skipped, refused nor given up  *)
(* goes out, until it has drained, with no frame of a warm-up queued, sent *)
(* or being acknowledged: the far station listens, however old the status  *)
(* is that settle trusted.  Only a request that slipped in while STOP      *)
(* flushed may break that (warmup, settle, START, _finish).                *)
AllQuiet == queue = <<>> /\ flight = NoFrame /\ air = "clear"
QuietAir == quiet /\ ~slipped /\ talks # "idle" => AllQuiet
=============================================================================
