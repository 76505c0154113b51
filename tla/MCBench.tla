------------------------------ MODULE MCBench -------------------------------
(***************************************************************************)
(* The programs that drive stations from outside, one per behaviour: a     *)
(* session with a board over USB, the two-board benchmark, the filters of  *)
(* the SDR driver, its radio, and the virtual channel.                     *)
(***************************************************************************)
EXTENDS Integers, Sequences

CONSTANTS
  Devices, SerialOf, Benches, Whichever, Mute, Tries, MaxFailures, MaxFrames,
  MaxCalls, MaxStalls, Reads, Busies, Plans, NMsgs, NBulk, MaxTrouble, Inputs,
  Cuts, HilbertTaps, LowTaps, R1, R2, R3, Step, TICK, Delays, MaxSamples,
  MaxTicks, MaxConns, Fractions, Jitter, MaxSleep, MaxWritten, MaxRounds, d1,
  d2, d3

VARIABLES
  which,   \* the component this behaviour is about
  bench, phase, error, busy, seen, attempt, poisoned, failures, dev, wire,
  sent, drained, buf, q, want, commands, write_failed, closed, calls, stalls,
  parsed, yielded, taken, goodbyes, late, names, at, script, failing,
  attached, jobs, calling, fault, got, mark, pending, transit, server, holds,
  final_detach, results, trouble, own, credited, last_id, contended, input,
  mod, dem, iq, audio, device, cfg_delay, txq, delay, air, writer, open,
  heard, conns, ticks, shared, entered, last_heard, delayed, mode, queued,
  tx_started, next_t, now, fifo, idle, gap, cut, cause, written, rounds

H == INSTANCE HostSession
B == INSTANCE BoardBench
F == INSTANCE SsbChain
D == INSTANCE ChannelDriver
R == INSTANCE SdrRadio

ASSUME BenchAssumption ==
  /\ H!HostSessionAssumption
  /\ B!BenchAssumption
  /\ F!ChainAssumption
  /\ D!DriverAssumption
  /\ R!RadioAssumption

MCPlans ==
  {<<"message", "bulk">>, <<"speech", "file", "speech_file">>,
   <<"bcast", "bcast_msg">>, <<"bcastfile", "file">>,
   <<"attach", "warmup", "chat">>,
   <<"file", "file_bidir">>, <<"speech", "file_chat", "stale">>}
MCSerialOf == [d \in {d1, d2, d3} |-> IF d = d1 THEN "a" ELSE "b"]
MCBenches ==
  {<<{}, "any">>, <<{d1, d2}, "any">>, <<{d1, d2}, "a">>, <<{d1, d3}, "c">>}
MCInputs ==
  {[n \in 1 .. 7 |-> <<((n * n * k + 3 * n) % 7) - 3, 0>>] : k \in 1 .. 3}
MCHilbert == <<-1, -3, 0, 3, 1>>
MCLow == <<1, 2, 1>>

all == <<which,
         bench, phase, error, busy, seen, attempt, poisoned, failures, dev,
         wire, sent, drained, buf, q, want, commands, write_failed, closed,
         calls, stalls, parsed, yielded, taken, goodbyes, late, names, at,
         script, failing, attached, jobs, calling, fault, got, mark, pending,
         transit, server, holds, final_detach, results, trouble, own,
         credited, last_id, contended, input, mod, dem, iq, audio, device,
         cfg_delay, txq, delay, air, writer, open, heard, conns, ticks,
         shared, entered, last_heard, delayed, mode, queued, tx_started,
         next_t, now, fifo, idle, gap, cut, cause, written, rounds>>

(* The state of the components a behaviour is not about stays unset. *)
Off == "off"
SessionOnly ==
  /\ names = Off /\ at = Off /\ script = Off /\ failing = Off
  /\ attached = Off /\ jobs = Off /\ calling = Off /\ fault = Off /\ got = Off
  /\ mark = Off /\ pending = Off /\ transit = Off /\ server = Off
  /\ holds = Off /\ final_detach = Off /\ results = Off /\ trouble = Off
  /\ own = Off /\ credited = Off /\ last_id = Off /\ contended = Off
  /\ input = Off /\ mod = Off /\ dem = Off /\ iq = Off /\ audio = Off
  /\ device = Off /\ cfg_delay = Off /\ txq = Off /\ delay = Off /\ air = Off
  /\ writer = Off /\ open = Off /\ heard = Off /\ conns = Off /\ ticks = Off
  /\ shared = Off /\ entered = Off /\ last_heard = Off /\ delayed = Off
  /\ mode = Off /\ queued = Off /\ tx_started = Off /\ next_t = Off
  /\ now = Off /\ fifo = Off /\ idle = Off /\ gap = Off /\ cut = Off
  /\ cause = Off /\ written = Off /\ rounds = Off
SessionAlone ==
  UNCHANGED <<which,
              names, at, script, failing, attached, jobs, calling, fault, got,
              mark, pending, transit, server, holds, final_detach, results,
              trouble, own, credited, last_id, contended, input, mod, dem, iq,
              audio, device, cfg_delay, txq, delay, air, writer, open, heard,
              conns, ticks, shared, entered, last_heard, delayed, mode,
              queued, tx_started, next_t, now, fifo, idle, gap, cut, cause,
              written, rounds>>
BenchOnly ==
  /\ bench = Off /\ error = Off /\ busy = Off /\ seen = Off /\ attempt = Off
  /\ poisoned = Off /\ failures = Off /\ dev = Off /\ wire = Off /\ sent = Off
  /\ drained = Off /\ buf = Off /\ q = Off /\ want = Off /\ commands = Off
  /\ write_failed = Off /\ closed = Off /\ calls = Off /\ stalls = Off
  /\ parsed = Off /\ yielded = Off /\ taken = Off /\ goodbyes = Off
  /\ late = Off /\ input = Off /\ mod = Off /\ dem = Off /\ iq = Off
  /\ audio = Off /\ device = Off /\ cfg_delay = Off /\ txq = Off
  /\ delay = Off /\ air = Off /\ writer = Off /\ open = Off /\ heard = Off
  /\ conns = Off /\ ticks = Off /\ shared = Off /\ entered = Off
  /\ last_heard = Off /\ delayed = Off /\ mode = Off /\ queued = Off
  /\ tx_started = Off /\ next_t = Off /\ now = Off /\ fifo = Off /\ idle = Off
  /\ gap = Off /\ cut = Off /\ cause = Off /\ written = Off /\ rounds = Off
BenchAlone ==
  UNCHANGED <<which,
              bench, error, busy, seen, attempt, poisoned, failures, dev,
              wire, sent, drained, buf, q, want, commands, write_failed,
              closed, calls, stalls, parsed, yielded, taken, goodbyes, late,
              input, mod, dem, iq, audio, device, cfg_delay, txq, delay, air,
              writer, open, heard, conns, ticks, shared, entered, last_heard,
              delayed, mode, queued, tx_started, next_t, now, fifo, idle, gap,
              cut, cause, written, rounds>>
ChainOnly ==
  /\ bench = Off /\ phase = Off /\ error = Off /\ busy = Off /\ seen = Off
  /\ attempt = Off /\ poisoned = Off /\ failures = Off /\ dev = Off
  /\ wire = Off /\ sent = Off /\ drained = Off /\ buf = Off /\ q = Off
  /\ want = Off /\ commands = Off /\ write_failed = Off /\ closed = Off
  /\ calls = Off /\ stalls = Off /\ parsed = Off /\ yielded = Off
  /\ goodbyes = Off /\ late = Off /\ names = Off /\ at = Off /\ script = Off
  /\ failing = Off /\ attached = Off /\ jobs = Off /\ calling = Off
  /\ fault = Off /\ got = Off /\ mark = Off /\ pending = Off /\ transit = Off
  /\ server = Off /\ holds = Off /\ final_detach = Off /\ results = Off
  /\ trouble = Off /\ own = Off /\ credited = Off /\ last_id = Off
  /\ contended = Off /\ device = Off /\ cfg_delay = Off /\ txq = Off
  /\ delay = Off /\ air = Off /\ writer = Off /\ open = Off /\ heard = Off
  /\ conns = Off /\ ticks = Off /\ shared = Off /\ entered = Off
  /\ last_heard = Off /\ delayed = Off /\ mode = Off /\ queued = Off
  /\ tx_started = Off /\ next_t = Off /\ now = Off /\ fifo = Off /\ idle = Off
  /\ gap = Off /\ cut = Off /\ cause = Off /\ written = Off /\ rounds = Off
ChainAlone ==
  UNCHANGED <<which,
              bench, phase, error, busy, seen, attempt, poisoned, failures,
              dev, wire, sent, drained, buf, q, want, commands, write_failed,
              closed, calls, stalls, parsed, yielded, goodbyes, late, names,
              at, script, failing, attached, jobs, calling, fault, got, mark,
              pending, transit, server, holds, final_detach, results, trouble,
              own, credited, last_id, contended, device, cfg_delay, txq,
              delay, air, writer, open, heard, conns, ticks, shared, entered,
              last_heard, delayed, mode, queued, tx_started, next_t, now,
              fifo, idle, gap, cut, cause, written, rounds>>
DriverOnly ==
  /\ bench = Off /\ phase = Off /\ error = Off /\ busy = Off /\ seen = Off
  /\ attempt = Off /\ poisoned = Off /\ failures = Off /\ dev = Off
  /\ wire = Off /\ drained = Off /\ buf = Off /\ q = Off /\ want = Off
  /\ commands = Off /\ write_failed = Off /\ closed = Off /\ calls = Off
  /\ stalls = Off /\ parsed = Off /\ yielded = Off /\ taken = Off
  /\ goodbyes = Off /\ late = Off /\ names = Off /\ at = Off /\ script = Off
  /\ failing = Off /\ attached = Off /\ jobs = Off /\ calling = Off
  /\ fault = Off /\ got = Off /\ mark = Off /\ pending = Off /\ transit = Off
  /\ server = Off /\ holds = Off /\ final_detach = Off /\ results = Off
  /\ trouble = Off /\ own = Off /\ credited = Off /\ last_id = Off
  /\ contended = Off /\ input = Off /\ mod = Off /\ dem = Off /\ iq = Off
  /\ audio = Off /\ mode = Off /\ queued = Off /\ tx_started = Off
  /\ next_t = Off /\ now = Off /\ fifo = Off /\ idle = Off /\ gap = Off
  /\ cut = Off /\ cause = Off /\ written = Off /\ rounds = Off
DriverAlone ==
  UNCHANGED <<which,
              bench, phase, error, busy, seen, attempt, poisoned, failures,
              dev, wire, drained, buf, q, want, commands, write_failed,
              closed, calls, stalls, parsed, yielded, taken, goodbyes, late,
              names, at, script, failing, attached, jobs, calling, fault, got,
              mark, pending, transit, server, holds, final_detach, results,
              trouble, own, credited, last_id, contended, input, mod, dem, iq,
              audio, mode, queued, tx_started, next_t, now, fifo, idle, gap,
              cut, cause, written, rounds>>
RadioOnly ==
  /\ bench = Off /\ phase = Off /\ error = Off /\ busy = Off /\ seen = Off
  /\ attempt = Off /\ poisoned = Off /\ failures = Off /\ dev = Off
  /\ wire = Off /\ sent = Off /\ drained = Off /\ buf = Off /\ q = Off
  /\ want = Off /\ commands = Off /\ write_failed = Off /\ closed = Off
  /\ calls = Off /\ stalls = Off /\ parsed = Off /\ yielded = Off
  /\ taken = Off /\ goodbyes = Off /\ late = Off /\ names = Off /\ at = Off
  /\ script = Off /\ failing = Off /\ attached = Off /\ jobs = Off
  /\ calling = Off /\ fault = Off /\ got = Off /\ mark = Off /\ pending = Off
  /\ transit = Off /\ server = Off /\ holds = Off /\ final_detach = Off
  /\ results = Off /\ trouble = Off /\ own = Off /\ credited = Off
  /\ last_id = Off /\ contended = Off /\ input = Off /\ mod = Off /\ dem = Off
  /\ iq = Off /\ audio = Off /\ device = Off /\ cfg_delay = Off /\ delay = Off
  /\ air = Off /\ writer = Off /\ open = Off /\ heard = Off /\ conns = Off
  /\ ticks = Off /\ shared = Off /\ entered = Off /\ last_heard = Off
  /\ delayed = Off
RadioAlone ==
  UNCHANGED <<which,
              bench, phase, error, busy, seen, attempt, poisoned, failures,
              dev, wire, sent, drained, buf, q, want, commands, write_failed,
              closed, calls, stalls, parsed, yielded, taken, goodbyes, late,
              names, at, script, failing, attached, jobs, calling, fault, got,
              mark, pending, transit, server, holds, final_detach, results,
              trouble, own, credited, last_id, contended, input, mod, dem, iq,
              audio, device, cfg_delay, delay, air, writer, open, heard,
              conns, ticks, shared, entered, last_heard, delayed>>

Init ==
  \/ which = "session" /\ H!Init /\ SessionOnly
  \/ which = "bench" /\ B!Init /\ BenchOnly
  \/ which = "chain" /\ F!Init /\ ChainOnly
  \/ which = "driver" /\ D!Init /\ DriverOnly
  \/ which = "radio" /\ R!Init /\ RadioOnly
Next ==
  \/ which = "session" /\ H!Next /\ SessionAlone
  \/ which = "bench" /\ B!Next /\ BenchAlone
  \/ which = "chain" /\ F!Next /\ ChainAlone
  \/ which = "driver" /\ D!Next /\ DriverAlone
  \/ which = "radio" /\ R!Next /\ RadioAlone
Spec == Init /\ [][Next]_all

(* The bench goes on and its pumps run what they are handed, see BoardBench. *)
benchVars == B!vars
FairSpec ==
  /\ Spec
  /\ WF_benchVars(which = "bench" /\ B!Script)
  /\ \A n \in {"A", "B"}: WF_benchVars(which = "bench" /\ B!RunsJob(n))

-----------------------------------------------------------------------------
(* The device opened is the one asked for, the frames of the board are     *)
(* found however the reads cut them, and waiting for a reply loses none    *)
(* (HostSession).                                                          *)
SessionTrue ==
  which = "session" => H!OpensRight /\ H!ParsesTrue /\ H!SessionTrue

(* What satisfies a scenario is what it sent itself (BoardBench).          *)
OkIsOwn ==
  which = "bench" => B!OkIsOwn

(* Every scenario gets its verdict, whatever fails (BoardBench).           *)
RunEnds ==
  <>[](which = "bench" =>
         \/ phase = "aborted"
         \/ /\ phase = "done" /\ attached = {} /\ server # "ours"
            /\ Len(results) = Len(names)
            /\ \A i \in DOMAIN names: results[i].name = names[i])

(* The filters give the same in chunks as at once (SsbChain).              *)
ChunkFree ==
  which = "chain" => F!ChunkFree

(* A station hears its peer in order and no sooner than the delay          *)
(* (ChannelDriver).                                                        *)
ChannelTrue ==
  which = "driver" => D!ChannelTrue

(* The radio plays a frame to its end, but for what it lost in gaps        *)
(* (SdrRadio).                                                             *)
TailPlayed ==
  which = "radio" => R!TailPlayed
=============================================================================
