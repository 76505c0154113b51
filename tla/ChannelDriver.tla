--------------------------- MODULE ChannelDriver ---------------------------
(***************************************************************************)
(* The virtual channel between two stations (demoapp/driver.py, and the    *)
(* loopback of sdr_driver.py): each tick takes audio off what an app       *)
(* queued, passes it through a propagation line (or straight through the   *)
(* other station's receiver), and hands the peer what it hears.  Apps come *)
(* and go, and the delay is configured while it runs.  A sample is a       *)
(* number, 0 is silence; fading, noise and levels are left out.            *)
(***************************************************************************)
EXTENDS Integers, Sequences

CONSTANTS
  TICK,         \* samples of a tick
  Delays,       \* delays that may be configured, in samples
  MaxSamples,   \* bound: samples an app writes
  MaxTicks,     \* bound on the ticks
  MaxConns      \* bound: connections to either station

DriverAssumption ==
  /\ TICK \in Nat \ {0} /\ Delays \subseteq Nat
  /\ {MaxSamples, MaxTicks, MaxConns} \subseteq Nat

VARIABLES
  device,       \* "sim" or "loopback"
  cfg_delay,
  txq, delay,   \* per station: queued audio, and its propagation line
  air,          \* per station: what it sent through the loopback
  writer,       \* per station: the connection that is written to, or 0
  open,         \* per station: connections whose handler runs
  heard,        \* per station: what the app was last given
  sent, conns, ticks,   \* history
  shared,       \* history: stations two apps were connected to at once
  entered,      \* history: samples that were sent, and when
  last_heard,   \* history: newest sample a station had heard before
  delayed       \* history: the delay configured in the last tick

line == <<txq, delay, air>>
apps == <<writer, open, conns, shared>>
vars == <<device, cfg_delay, line, apps, heard, sent, ticks, entered,
          last_heard, delayed>>

Stations == {1, 2}
peer(i) == 3 - i
Least(a, b) == IF a < b THEN a ELSE b
Silence(n) == [k \in 1 .. n |-> 0]
Drop(s, n) == SubSeq(s, n + 1, Len(s))

Init ==
  /\ device \in {"sim", "loopback"} /\ cfg_delay \in Delays
  /\ txq = [i \in Stations |-> <<>>] /\ delay = [i \in Stations |-> <<>>]
  /\ air = [i \in Stations |-> <<>>]
  /\ writer = [i \in Stations |-> 0] /\ open = [i \in Stations |-> {}]
  /\ heard = [i \in Stations |-> <<>>]
  /\ sent = [i \in Stations |-> 0] /\ conns = [i \in Stations |-> 0]
  /\ ticks = 0 /\ shared = {}
  /\ entered = [i \in Stations |-> {}]
  /\ last_heard = [i \in Stations |-> 0] /\ delayed = cfg_delay

-----------------------------------------------------------------------------
(* station_conn: the newest connection is the one written to; a handler    *)
(* that ends takes the writer and the queue away, whosever they are.       *)
Connect(i) ==
  /\ conns[1] + conns[2] < MaxConns
  /\ conns' = [conns EXCEPT ![i] = @ + 1]
  /\ open' = [open EXCEPT ![i] = @ \cup {conns[i] + 1}]
  /\ writer' = [writer EXCEPT ![i] = conns[i] + 1]
  /\ shared' = IF open[i] = {} THEN shared ELSE shared \cup {i}
  /\ UNCHANGED <<device, cfg_delay, line, heard, sent, ticks, entered,
                 last_heard, delayed>>
Queues(i) ==
  /\ open[i] # {} /\ sent[i] < MaxSamples
  /\ \E n \in 1 .. Least(TICK + 1, MaxSamples - sent[i]):
       /\ txq' = [txq EXCEPT ![i] = @ \o [k \in 1 .. n |-> sent[i] + k]]
       /\ sent' = [sent EXCEPT ![i] = @ + n]
  /\ UNCHANGED <<device, cfg_delay, delay, air, apps, heard, ticks, entered,
                 last_heard, delayed>>
Disconnect(i) ==
  /\ \E c \in open[i]: open' = [open EXCEPT ![i] = @ \ {c}]
  /\ writer' = [writer EXCEPT ![i] = 0]
  /\ txq' = [txq EXCEPT ![i] = <<>>]
  /\ UNCHANGED <<device, cfg_delay, delay, air, conns, shared, heard, sent,
                 ticks, entered, last_heard,
                 delayed>>
ctl_conn ==
  /\ cfg_delay' \in Delays \ {cfg_delay}
  /\ UNCHANGED <<device, line, apps, heard, sent, ticks, entered, last_heard,
                 delayed>>

-----------------------------------------------------------------------------
Taken(i) == SubSeq(txq[i], 1, Least(TICK, Len(txq[i])))
Txing(i) == txq[i] # <<>>
Keyed(i) == Taken(i) \o Silence(TICK - Len(Taken(i)))

(* The propagation line gives a tick of audio once it holds the delay and  *)
(* a tick; what a shorter delay leaves over is cut at four ticks.          *)
(* Mutant: it gives what it has as soon as it holds the delay.             *)
PrimedEarly(held) == Len(held) >= cfg_delay /\ Len(held) >= TICK
Primed(held) == Len(held) >= cfg_delay + TICK
Trimmed(rest) ==
  IF Len(rest) > cfg_delay + 4 * TICK
  THEN Drop(rest, Len(rest) - cfg_delay - TICK) ELSE rest
Line(i) == delay[i] \o Keyed(i)
Out(i) == IF Primed(Line(i)) THEN SubSeq(Line(i), 1, TICK) ELSE Silence(TICK)
Rest(i) == IF Primed(Line(i)) THEN Trimmed(Drop(Line(i), TICK)) ELSE Line(i)

(* Who transmits hears nothing of the peer.                                *)
Delivered(out) ==
  [i \in Stations |-> IF Txing(i) THEN Silence(TICK) ELSE out[peer(i)]]
Newest(s, before) ==
  LET all == {before} \cup {s[k]: k \in DOMAIN s}
  IN CHOOSE m \in all: \A v \in all: v <= m

(* The history of the samples: when each was sent, which was heard last.   *)
(* Time is counted in samples.                                             *)
Record(given) ==
  /\ heard' = given
  /\ entered' = [i \in Stations |->
                   entered[i] \cup {<<Taken(i)[k], ticks * TICK + k>>:
                                      k \in DOMAIN Taken(i)}]
  /\ last_heard' = [i \in Stations |-> Newest(heard[i], last_heard[i])]
  /\ ticks' = ticks + 1 /\ delayed' = cfg_delay

Dequeued == [i \in Stations |-> Drop(txq[i], Len(Taken(i)))]
tick ==
  /\ device = "sim" /\ ticks < MaxTicks
  /\ txq' = Dequeued
  /\ delay' = [i \in Stations |-> Rest(i)]
  /\ Record(Delivered([i \in Stations |-> Out(i)]))
  /\ UNCHANGED <<device, cfg_delay, air, apps, sent>>

(* SDRDriver.tick over a LoopbackChannel: a station that transmits submits *)
(* a whole tick, and each takes a tick of what the other one submitted.    *)
(* Both transmit before either receives.                                   *)
Submitted(i) == IF Txing(i) THEN air[i] \o Keyed(i) ELSE air[i]
Take(i) ==
  LET src == Submitted(peer(i))
  IN SubSeq(src, 1, Least(TICK, Len(src)))
       \o Silence(TICK - Least(TICK, Len(src)))
SDRTick ==
  /\ device = "loopback" /\ ticks < MaxTicks
  /\ txq' = Dequeued
  /\ air' = [i \in Stations |->
               Drop(Submitted(i), Least(TICK, Len(Submitted(i))))]
  /\ Record([i \in Stations |-> IF Txing(i) THEN Silence(TICK) ELSE Take(i)])
  /\ UNCHANGED <<device, cfg_delay, delay, apps, sent>>

Pump == tick \/ SDRTick
Next == \/ Pump \/ ctl_conn
        \/ \E i \in Stations: Connect(i) \/ Queues(i) \/ Disconnect(i)
Spec == Init /\ [][Next]_vars
-----------------------------------------------------------------------------
(* A station hears the samples of its peer in order, each once; through    *)
(* the line none sooner than the delay configured; and an app that has the *)
(* station to itself is the one it is heard by (tick, station_conn).       *)
HeardAt(k) == (ticks - 1) * TICK + k
ChannelTrue ==
  \A i \in Stations:
    /\ \A k \in DOMAIN heard[i]: heard[i][k] # 0 =>
         /\ heard[i][k] > last_heard[i]
         /\ \A j \in 1 .. k - 1: heard[i][j] < heard[i][k]
         /\ device = "sim" =>
              \E e \in entered[peer(i)]:
                e[1] = heard[i][k] /\ HeardAt(k) - e[2] >= delayed
    /\ i \notin shared => (open[i] # {} <=> writer[i] # 0)
=============================================================================
