# TLA+ models of the ham OFDM transceiver

The repository is a modem for narrow-band HF voice channels: an OFDM physical
layer with a float and a fixed-point implementation, a half-duplex link layer
with ARQ, firmware for an STM32, programs on the host that talk to a board over
USB, and a demo application.  The models are of the parts whose difficulty is
*control*: two stations that share one channel, lose each other's frames, time
out and retransmit; a main loop against its interrupt; receivers that find
their place in a recording; worker threads and drain loops of the host programs
against a board that refuses, reports late and stalls.

Paths below are relative to the repository root (`src/` in `PROJECT.json`).

## 1. Inventory

### 1.1 Components

| Component | State it keeps | Operations | Difficulty |
|---|---|---|---|
| **Station**, `cport/src/station.c`, `station.h`; twin of the stop-and-wait part: `ofdm_phy/station.py` | message store, three queues, two open messages, outstanding fragment, sequence numbers, reassembly buffers, delivered log, burst being sent and received, handshake, reply timer, RTO, HARQ and AFC | submit, poll for transmission, end of transmission, decoded frame, abort, log reset, configuration | loss, late replies, two-bit numbers, two transports for one message, limits |
| **Link adaptation**, `ofdm_phy/link.py`; twin `cport/src/link.c` | rung, margin, silence, learned offsets | observe, tick, choose | order of measurement, silence and failure |
| **Host protocol**, `cport/src/usb_modem.c`, `usb_proto.c` | staging ring, count of log entries staged, dropped counter; the parser's bytes | tick, commands, events, diagnostics, reads | a full ring, a reset in between, partial reads, lost bytes |
| **Radio main loop**, `cport/usb/usb_radio_main.c` | capture FIFO, transmit FIFO, burst walk, broadcast engine | sample interrupt and main loop | interrupt against main loop, end of transmission, who owns the transmitter |
| **Carrier sense**, `csense.c`; **streaming receiver**, `rx_stream.c` | floor and busy time; sample ring and candidate | update; push | sustained energy; a new preamble during a frame |
| **Physical layer**, `ofdm_phy/*.py`, `ofdm_phy/fixed/*.py` and its C twins | position in a recording, soft values kept, timing, codes | transmit, find, tune, demodulate, decode | false locks, clock slip, lost blocks, integer widths |
| **Broadcast framing**, `ofdm_phy/broadcast.py` | group, sequence numbers, pieces held | plan, receive | lost pieces, a short last group |
| **Host programs**, `host/*.py`, `voice/*.py` | queues of a bridge, connections, worker threads and their sessions, a benchmark's scenarios | relay, hold, probe, pace, warm, encode, flush, reset | stale reports, refusals, threads over shared fields, retries |
| **Demo application**, `demoapp/*` | files in parts, a virtual channel, filters with state, a half-duplex radio | send, store, mix, play | order of parts, delay under reconfiguration, cut tails |
| **Boards, USB stack, tests, benches** | registers | | hardware; read as evidence |

### 1.2 How they interact

The sample interrupt fills the capture FIFO and empties the transmit FIFO.  The
main loop feeds the receiver; a decoded frame is given to the station.  When
the channel is idle (carrier sense) the loop polls the station for a frame,
which is modulated into the transmit FIFO; the station is told when it has left
and then arms the reply timer if it expects one.  A host submits messages and
reads the delivered log through `usb_modem`, whose tick runs in the same loop:
the operations of one station never overlap.  What interleaves is the
operations of one station in any order, the two stations through the channel,
the interrupt with the loop, and -- across USB -- a board with the threads of a
program that knows it only through reports that are already old.

### 1.3 What must be right

* *Store*: a slot has one owner or is free; a handle reads what it was given.
* *Stop-and-wait*: fragments are accepted once and in order; what was
  acknowledged was received; messages are completed whole, once, in order.
* *Bursts*: the bitmap says the truth; a refusal is retried; a lost window does
  not end a transfer.  *Handshake*: no probe is forgotten; numbers keep in step.
* *Link adaptation*: silence is charged once and forgets what preceded it.
* *Host protocol*: frames are whole; a delivered message reaches the host or is
  counted as dropped.
* *Radio loop*: a frame leaves whole; the receiver's stream has no seam; the
  transmitter is released and only a station's own end is told to it.
* *Physical layer*: nothing comes out in a wrong place; errors do not spread
  from block to block; what a code corrects comes back; a frame off frequency,
  with an echo or a stuck carrier is found, and judged as it is.
* *Host programs*: nothing is lost in silence or overtakes; one session's
  speech goes out whole, in order and in one broadcast, with nothing of another
  session behind its first word; STOP cuts nothing it had time for; a recording
  is the audio of what arrived; the right board is opened; a verdict is about
  the scenario's own traffic.
* *Demo application*: a file reported complete is the file; the channel keeps
  order and delay; a filter does not depend on how samples are cut; the end of
  a transmission is played.

`PROJECT.json` lists forty hazards behind these, each at its line.  Known and
left off that list: a reply to a probe may find the shared store full
(station.c:1656); a station that restarts (234); the shared memory of the
broadcast and burst walks; SEQ gaps of 32 groups and more; the page server.

## 2. Modules

One module per component; the MC modules compose the components that one run
asks about.  A component of such a run is chosen at the start of a behaviour
(`which`, `setting`), the variables of the others stay unset, so that a run
costs the sum of its components and not their product.

| Module | Models |
|---|---|
| `MsgStore` | the slots of one station: free list, queues, open messages, delivered log |
| `ReliableStreams` | abstract: what two stations promise their hosts |
| `StopAndWait` | two stations, bursts and handshake off, on a lossy channel |
| `Station` | two stations with bursts and handshake |
| `LinkCtl` | both ends of one directed link's rate control |
| `FramePipe` | abstract: a stream of whole frames, read from the front |
| `UsbModem` | the host protocol: staging ring, tick, commands, diagnostics |
| `RadioLoop` | one board: main loop, sample interrupt, the two FIFOs between them |
| `StreamPhy`, `FrameRx`, `Broadcast` | layout, acquisition and resynchronisation of a stream; reception of single frames with soft combining; groups of a broadcast |
| `BlockCodec` | packets, CRCs, codes, interleaver, scrambler, mapping and both decoders |
| `FixedPoint`, `FixedRx` | integer arithmetic; the fixed-point chain sample by sample |
| `FreqSearch` | what is left of a frequency offset, and its shortlist of hypotheses |
| `BoardPort` | a board as its host sees it |
| `KissBridge`, `KissWire`, `IpTunnel` | packet bridge (held frames, probes), its wire and clients, tunnel |
| `VoiceLink`, `WarmUp`, `VoiceStream` | voice server: threads, sessions, STOP; warming of the link; tokens in bytes |
| `HostSession`, `BoardBench` | opening a board, parser, replies; the two-board benchmark |
| `BoardConsole` | file transfer of the demo application |
| `ChannelDriver`, `SsbChain`, `SdrRadio` | virtual channel; streaming filters; half-duplex radio |
| `MCModem` (`MCMsgStore`), `MCStopAndWait`, `MCStation`, `MCStations`, `MCHosts`, `MCPhy` (`PhyCases`, `FxCases`), `MCBench` | the small instances |
| `NaturalLemmas`, `MCModemProofs`, `StopAndWaitProofs`, `StationProofs`, `RadioLoopProofs`, `VoiceLinkProofs`, `MCHostsProofs`, `MCBenchProofs` | theorems |

`StopAndWait` implements `ReliableStreams`.  `Station` INSTANCEs `StopAndWait`
both to reuse its operators (its stop-and-wait path *is* theirs) and as an
abstract specification: with its extensions off it implements `StopAndWait`,
and with them on (one-way traffic) it still implements `ReliableStreams`.
`UsbModem` implements `FramePipe`.  `IpTunnel` extends `KissBridge`, which
extends `BoardPort`: the tunnel borrows the bridge's rules.

### 2.1 MsgStore

`free` is the free list as a set (which slot `pool_alloc` picks is
immaterial), `pool` the payload of each slot, `pool_used` the live count that
the host sees, `queue` the three rings, `cur` the open messages, `delivered`
the log.  A handle pairs a slot with a ghost: the payload it was given.  Actions
are the places in `station.c` that move a slot: `Submit` (`station_submit`),
`OpenPrio` and `OpenBulk` (`take_fragment`, `pop_msg`), `Complete` (the last ack,
`msg_release`), `AbortBulk`, `Deliver` and `DeliveredReset`.  `doubled` records
that `pool_free` was handed a slot that is free, which its guard is against.

### 2.2 StopAndWait

| Variable | Code (`station_t`) |
|---|---|
| `queue`, `cur` | `qslot`/`qlen` rings, `cur_prio`, `cur_bulk` with their offset |
| `pending`, `seq`, `last_rx_seq`, `reply_due` | the same names |
| `await` | `await_until` is set |
| `assembly` | `assembly[2]` up to `assembly_len` |
| `delivered_n` | entries of the log, each holding a slot |
| `air` | the channel: one frame or none |
| `submitted`, `log`, `taken`, `accepted` | history |

`Transmit` is `station_poll_tx` on an idle channel together with
`station_on_tx_end`: pending fragment, else a new one, else an owed
acknowledgment.  `Timeout` is a poll past `await_until`, which clears the timer
and returns.  `Receive` is `station_on_decoded` in the code's order: retire the
outstanding fragment if the frame's ack names it, then accept or reject the
data.  `Lose` is the channel.

Abstractions: a message is a run of units and a fragment carries as many as the
rung allows (`ChunkCaps`), so reordering, loss or duplication of any part shows.
Time is gone: the reply timer may expire whenever it is armed, also under a
reply that is on the air.  `not_before` (hold and random backoff) only delays a
poll.  A collision is a loss of the first frame, then of the second.  The code
sends an empty message as one zero byte; messages here have at least one unit.

### 2.3 Station

Adds `asm`/`asm_len` (the reassembly buffers as arrays: a burst writes by index
into the buffer that the stop-and-wait path appends to), `btx`, `brx` and
`caps`.  `Poll` is `station_poll_tx` in its order: bitmap acknowledgment,
capability frame, burst fragment, stop-and-wait path.  `Timeout` adds what
expiry does to the handshake and to a burst (a probe window of one fragment).
`Receive` splits by kind of frame.  Rungs are classes: the fragment size a burst
engages with (`FragSize`, 0 below `BURST_MIN_RUNG`) and the largest fragment
that stays within `BURST_FRAG_MAX_AIR_S` (`FragMax`).  The rung is chosen anew at
every poll, and the width of the window at engagement is any that the limits of
the moment allow: this covers whatever the controller, the operator and the
peer's record decide.  Ages (a record or verdict that expired) are choices made
only where the code compares a time.

Host pushes and kicks, expired records and verdicts, and collapses of the rung
are rare events: a run names those that may happen (`Rare`) and how many of them
(`RareMax`).  Runs without "collapse" keep the rung from falling under a
transfer.

### 2.4 UsbModem

`txq`, `txq_head`, `txq_len`, `dropped`, `diag_on` and `delivered_seen` are the
fields of `usb_modem_t`; the ring is the array the code has, with its indices
modulo `UM_TXQ`.  A unit in it names its frame and its place in that frame, so a
frame half written, a gap or an overwritten unit shows in what the host reads.
`usb_modem_tick` is a loop over the delivered log; it is modelled with its
control point (`ticking`): while it is set only its own steps are enabled, as
the main loop runs nothing in between.  Whether the station accepts a submission
is a choice (`MsgStore` has the rule), as is every length an endpoint has room
for (`PollCaps`).  `emit` cuts a payload at 256 bytes; only lengths matter here
and those of short frames are one constant.

### 2.5 RadioLoop

| Variable | Code (`usb_radio_main.c`) |
|---|---|
| `tx_on`, `tx_is_bc` | `g_tx_on`, `g_tx_is_bc` |
| `txf`, `txf_w`, `txf_r` | the DAC's FIFO, `g_txf` with its indexes |
| `cap`, `cap_w`, `cap_r` | the capture FIFO, `g_cap` with its indexes |
| `txs`, `left`, `tail` | `g_txs`: what the open generator, and then the channel simulator's tail, still have to give |
| `arena` | who wrote the scratch memory of `arena.h` last |
| `pc`, `keying`, `room`, `got`, `chunk` | where the main loop is, and the locals of `tx_fill` and of the capture block |
| `kinds`, `promise`, `air`, `ends` | history |

`TickPlay`, `TickUnderrun` and `TickCapture` are the branches of `tim6_isr`.
`FillMore` to `Advance` are `tx_fill`, `CarrierOff` and `TxEnd` the end of a
transmission, `Copy` and `rxs_push` the capture block, `KeyUp`, `KeyDrop` and
`CarrierOn` the gate.  `TxEnd` leaves out that the receivers are armed again
(1543-1561); that the receiver's stream has no seam is claimed within a chunk of
the capture.

*Atomicity.*  The interrupt runs whole, as on the board.  The loop is cut
wherever it touches something the interrupt touches too: the sample it writes
into `txf` and the index that publishes it are two steps, `g_tx_on = 0` and
what follows it are two, the samples of a chunk are read in one step and given
back in another.  Where one step stands for more than one read (the condition
of the fill loop and the room it computes; two reads of a level) the interrupt
can between them only make the level smaller, or the room larger, so that the
later read permits whatever the earlier one did.

*Abstractions.*  A sample is `<<transmission, place in it>>`, a captured sample
`<<index, transmissions ended before it>>`: an overwritten, repeated, lost or
foreign sample shows.  Carrier sense, the burst and broadcast walks, the
settling time after start and the clock decide *when* the gate opens and *what*
is keyed, and are a choice (`KeyUp` or `Pass`).  A capture overrun is counted by
the code and changes nothing else.  Two branches are left out: `tx_fill`'s exit
for a room of zero, which its own loop condition excludes, and the gate's
branch that drops an open generator when the frame's length came out as zero
(1990-1995), since every caller that opens one returns the length it promised,
which is positive.  `station_on_tx_end` itself is part of `Station`; here only
whether it is called.

### 2.6 LinkCtl

One directed link: the receiver's half measures and asks (`req`, `decay`,
`last_rx`, the kept measurements, `before` for the request silence started
from), the transmitter's half chooses (`LinkRx`, `LinkTx` of `link.py`).  An
exchange takes no time; `Tick` separates exchanges.  Levels are in steps of
1/20 dB and time in steps of 15 s, the coarsest in which every constant of the
code is whole or rounds without changing an order.  Modelled from
`ofdm_phy/link.py`; `cport/src/link.c` is its twin.

### 2.7 Host programs

*The board* (`BoardPort`) is what the programs see of the firmware: a class
queue, a rung that exchanges move, events on their way.  Everything a program
knows of it is old by an arbitrary number of its steps (`Sample`).

*KissBridge* and *IpTunnel* cut a turn of the program's loop where it reads or
writes the port (`pc`); *KissWire* is the socket side: descriptors are used
again, each connection has its decoder.  *HostSession* reads bytes in pieces cut
anywhere; the two places that ask a device for its serial number are both there,
the lookup with its retries (`_read_serial`) and the naming of the board that
was opened, which asks once (357): `OpensRight` says that a lookup ends without
a board only when none, or more than one, was to be found, and that naming fails
only with a request that failed.  *BoardBench* is a script of scenarios over two
pump threads.

*VoiceLink* has one action per region between two lock operations of a thread.
Shared fields that the code touches without a lock are touched in a step of
their own, with one exception: the check of `talking` and the append to the
ingest queue (`Ingest`) are one step.  A reset is two steps, since threads that
never take the airlock run between its first assignment and its last: first
`gen`, `closed`, `buf` and the decoded audio (`ResetBegins`), then the rest
(`ResetEnds`).  A worker that outlives its four seconds of `join` goes on
beside its successor (`Joined`, `Opened`).  Four pieces of history say what the
properties cannot claim of this code, each narrow and each reset:

| Variable | Set when | What is not claimed, and until when |
|---|---|---|
| `early` | STOP flushes what a reset let through, before START has set `talking` | `StreamTrue`, `NothingCut`, `OneStream`; until the next reset |
| `outlived` | SELECT opened the boards while an encoder of the last ones still ran | the *order* in `StreamTrue` (that nothing is foreign or sent twice stays claimed) and `NothingCut`; until the next SELECT |
| `crossed` | a step of the decoder counted the tokens before a reset and read the generation after it had moved | `RecordingTrue`; until the next reset.  Run `reset_inert` is this case |
| `gaveup` | STOP waited 30 s for the encoder in vain | `NothingCut`; until the next STOP |

A batch that an encoder takes in the middle of a reset carries the new
generation and passes `feed`'s check: it is of the session before, and is
spoken in front of the new one.  This is not excepted: `heard`, the speech that
a session's stream is compared with, begins with what the reset let through, so
that `StreamTrue` says exactly that such speech may stand in front and nowhere
else.

*WarmUp* is the request thread against the two drain loops.  Time passes in
ticks, so that it is known how old a status is: the board makes one every half
second and the loop reads it (`MaxAge` bounds both together), a frame takes at
least `AirTime` to be heard, looks are `Gap` apart, the wait for an echo ends
after `Patience`.  Nothing else is assumed of the order of reports and looks: a
status made before the last frame was submitted lies there and is looked at.
One browser sends one warm-up or START at a time.  `slipped` records that a
request was let in while STOP flushed (`talking` is clear and `draining` not yet
set); it is reset when the next transmission begins, and until then nothing is
claimed of the warm-up's frames.

### 2.8 Physical layer

`StreamPhy`, `FrameRx` and `Broadcast` decide *where* the receiver is and what
it keeps; noise is a bounded choice of what is lost, hidden or falsely shown.
`BlockCodec`, `FixedPoint`, `FixedRx` and `FreqSearch` compute: they are
operators over data, checked over the cases listed in `PhyCases` and `FxCases`
(a chain of sixteen bins and seven carriers, the code's own integer operations
with narrower widths).

### 2.9 Demo application

`BoardConsole` is two consoles and what their boards tell them.  Any frame of a
broadcast group may be lost, the SYNC that starts the broadcast and the EOS that
ends it too.  The listening board reports a start only for a SYNC it decoded
with none open (`evt_open`), an end only for an EOS it decoded, and forgets an
open broadcast after a silence; the console empties its buffer at a start, stores
it at an end, and does nothing else to it (`OnBcast`).  So files merge, and
`unmarked` records with each stored file whether a start or an end among what
was collected was lost or never keyed (a starved or overrun broadcast has no
end).  Not modelled: the drop of a held broadcast after 180 s without a report
(`bc_poll_link`), and broadcasts of text (`cmd_bcast`).

`ChannelDriver` is the virtual channel tick by tick, `SsbChain` the filters with
short taps and Gaussian integers (equal output for differently cut input is a
statement about state, not about values), `SdrRadio` the pump with sleeps that
end late.

## 3. Runs

| Run | Instance | Shows |
|---|---|---|
| `modem` | one of: store of 3 slots and 2 payloads; ring of six units, messages of one and four; ladder of three rungs, silences of up to two and a half minutes | slots never leak, double or change under an owner; frames whole, every message accounted for, the log never stalls; silence is charged once, the learned offsets end the losses |
| `stop_and_wait` | three messages from A (five fragments in all), one from B | exactly once, the inductive invariant, `ReliableStreams`; a message is delivered or shows as dropped for a full log, and is delivered while there is room; silence |
| `station` | one of: one-way bursts with a log of one message, so that transfers are refused; handshake beside one-way traffic; both off, two-way; bursts and handshake with one rare event of five kinds; a longer message and a collapse among three rungs | the bitmap is true, released only when kept, `ReliableStreams`, `StopAndWait`, delivery; a CAPS frame in flight is awaited; an open window has a fragment |
| `radio_loop` | two transmissions, FIFOs of four | frames leave whole and in order, the receiver's stream has no seam, ends are told to whom they belong, the transmitter is given back |
| `hosts` | bridge, tunnel, wire, console, voice server, warm-up or streamer | no frame silently lost or overtaken, files, broadcast files and recordings true, speech in order behind what a reset let through, nothing cut, everything begun ends |
| `phy` | streams, frames, broadcasts, coded blocks, samples, offsets | places, retries, broadcasts, correction, reception, the receiver's own judgements |
| `bench` | session, benchmark, filters, channel, radio | the right board, own verdicts, filters free of chunks, order and delay, the tail played, every run ends |
| `false_retire` | bursts, two-way | **violated**: see below |
| `burst_stuck` | bursts, two-way, fairness | **violated** |
| `climb` | one-way, the rung climbs and falls | **violated** |
| `caps_wrap` | handshake, two-way | **violated** |
| `reset_inert` | the instance of `hosts` | **violated** |

*Bounds.*  Each configuration names its bounds in its first comment.  For the
pairs of stations: `MaxMsgs` 2 per queue, messages of one to three units, a
burst of up to three fragments and a window of two -- the smallest that has an
inside and an end; three fragments then need two windows; five fragments of
stop-and-wait wrap the two-bit number.  `radio_loop`: both FIFOs hold four
samples with a slack of one (the code's 256), capture indexes are modulo eight
(2^32), a pass takes two samples; frames of one and of six samples, with and
without a tail, are one that fits into the first fill and one that goes around
the FIFO; two transmissions give every order of a station's frame and a
broadcast group.  `bench`: two or three of everything that is counted, one of
each fault.  `hosts`: the same, and a queue limit that is reached; in the voice
server two encoders and a decoder, so that one encoder can outlive its join
beside its successor, and `MaxActs` 3 bounds resets, presses of STOP and losses
on the air *together*: three of one kind, or any mixture -- two resets and a
STOP among them, so that a worker of one session can meet the third.  A tick of
`WarmUp` is a fifth of a second: a frame takes three (0.64 s), a status is up
to three old (one every half second), looks are one apart (0.25 s); the wait for
an echo is shortened to three, which only makes it end earlier.  The console
sends two files or broadcast files of two parts or three chunks, against a buffer
of two, with one loss and one ping that times out.  The theorems of section 4
lift these bounds where there is one.

Each property of a passing run is also run against a plausible bug in a mapped
definition (`mutants`).  `NothingCut` has two halves: the one listed, a settle
that asks the status at once (`EchoedAtOnce`), breaks that of the warm-up;
`EncoderIdleQueueOnly` in place of `EncoderIdle`, a STOP that looks at the queue
only, breaks that of the voice server (hazard at server.py:846).

Deadlock checking is on for `radio_loop`, whose main loop never stops, and off
elsewhere: a pair of stations with nothing left to say, a finished benchmark
and a stopped program rightly stop.

`one-way` is no accident: with bursts or the handshake on *and* traffic both
ways the properties are violated, which is what the first four violation runs
show, each by one shortest behaviour.  The fifth is of the voice server.

### 3.1 Findings

* `false_retire`: `station_on_decoded` retires the outstanding fragment when
  the frame's ack equals its number, on every kind of frame.  In a bitmap
  acknowledgment the ack field is the transfer id.  A control fragment whose
  number happens to equal it is dropped unreceived.
* `burst_stuck`: any decoded frame disarms the reply timer.  A burst whose
  window has ended waits with that timer; if the bitmap is lost and another
  frame of the peer arrives, nothing ever opens another window.
* `climb`: `assembly_len` is not reset when a burst completes into the buffer.
  A message begun in stop-and-wait and finished by a burst leaves its first
  fragment in front of the next stop-and-wait message.
* `caps_wrap`: each capability frame takes a sequence number, heard or not.
  After three unheard ones a fragment gets number 0, and 0 is the ack field of
  a station that has received nothing.
* `reset_inert`: a step of the decoder counts what has arrived (server.py:778)
  before it captures the generation (785), and a reset moves the generation and
  clears the position (250, 260) before it empties the received bytes (266).  A
  step that straddles the first half of a reset vocodes the bytes of the old
  session with the generation and position of the new one and is committed
  there; the comment at 785-788 says that it must be inert.

Met while modelling, and not in a run of this version: an owed acknowledgment
lets the stop-and-wait path carry the message of an engaged burst (1240); a
late bitmap after a collapse can retire a fragment of the restarted message, and
a transfer that was complete is delivered a second time; a control message waits
for the rest of an open window although `docs/link.md:93` promises preemption at
fragment boundaries; a record pushed between a fragment and its retransmission
makes the peer take the fragment twice (`usb_modem.c:149`); and `caps_seq` can
match an ack that does not confirm it.  In `usb_modem.c:253` the log is drained
also when the ring had no room for a message, so that a message whose sender has
released it may never reach the host: the comment above it says "once its
contents are on the wire", `docs/modem-protocol.md` section 7 says that frames
are dropped and counted; `Accounted` states the latter.
`usb_radio_main.c` says at 625 that a stream the host stopped feeding is closed
on the air by an empty EOS group; the starve timeout (1720) sets
`g_bc_complete` only, with nothing left to send, and never `g_bc_close_due`, so
that no group is keyed.

The host programs, in the same way.  These are disagreements with a comment
that a behaviour of the model shows; the properties state what does hold beside
them, by the condition named, or the constants exclude them, where a constant is
named:

* `VoiceLink`, resets: a batch taken between `gen += 1` (250) and the emptying
  of the queue (269-270) passes `feed`'s check (547), against 241-248 and
  497-501: speech of the session before begins the next one.  It stands in
  front only, which `StreamTrue` says.  A STOP between a reset and START's
  `talking = True` flushes such a batch as a session of its own (`early`).
* `VoiceLink`, SELECT: a worker that outlives its join is revived when `open`
  clears the stop event (against 321-324): two encoders then take batches in
  turn and may feed them in the wrong order (`outlived`).
* `VoiceLink`, STOP: two at a time may merge sessions (`Stops` has one member);
  with tokens not aligned to bytes (`Align = 1`; the code has 4) a session's
  last token is lost; the end of an earlier stream is believed while STOP
  flushes (366-369).
* `WarmUp`: between `_finish` setting `talking = False` (857) and `draining =
  True` (897) a warm-up passes the refusal at 390 and is sent while the tail is
  on the air, which the comment at 383-389 says must not happen (`slipped`).
* `BoardConsole`: when the EOS of a broadcast file is lost and another file
  follows, or no end is keyed because the sender starved or overran, no start is
  reported for the second one (usb_radio_main.c:1129), `_bc_buf` is not reset
  (board_console.py:433-455) and both are stored as one file (`unmarked`).
* `KissWire`: a partial write to the pseudo-terminal is ignored, a full one
  closes it for ever; a lost START or EOS event merges broadcasts there too.
  `KissBridge`: a status without queues ends the program (295-299).
* `IpTunnel`: `stuck` is never cleared when the ladder rises (docstring
  210-217); the CoDel target is re-applied only when the queue's depth changes.
* `VoiceStream`: the last incomplete chunk of a speech is not sent, and no
  stream is closed when nothing remains of it (comment at 153).
* `BoardConsole`: parts submitted by two commands can interleave (290-314).
* `HostSession`: the board that was opened is asked for its serial number once
  (357), and one failed request ends the program, where the docstring of the
  lookup says that one failure is not "no board" (243-248); `OpensRight` claims
  only that a request did fail.  A leftover reply answers a later ping.
* `BoardBench`: a scenario for both boards may run with one (738; 956);
  `quiesce` counts one stale status repeatedly.
* `ChannelDriver`: the end of an older connection deafens the newer one
  (driver.py:183); lowering the delay by less than three ticks is never
  trimmed.  `SdrRadio`: gaps the host left still cut the tail.
* `FixedRx`: "overflow-free" (fft.py:5) is not true of complex corners; a strong
  tilt of the spectrum can excise a station's own lowest carrier.
* `FrameRx`: the fixed-point receiver has no network key (station.py:115,
  `docs/modem-protocol.md:645`), so networks are not apart.
* `Broadcast`: `_extent` persists across receptions; a short last group followed
  by another broadcast skips its beginning.

### 3.2 Fairness

`SF(Transmit)`/`SF(Poll)`: polls recur in the main loop; the channel may be taken
at each single poll, but the random backoff of both stations gives it to each
again and again.  `SF(Receive)`: frames may be lost any number of times but not
all of them.  `WF(Timeout)`: an armed timer that stays armed expires.
`WF(Drain)` (only `Station`): the host protocol reads the log at every tick.
In `RadioLoop`, `WF(MainLoop)`: the loop never blocks (it polls, and every step
of it is bounded), and `WF(Tick)`: the timer never stops.  Both are needed for
`GivenBack`: the one drains the generator, the other the FIFO.
In `MCModem`, `WF` of the steps of the binding's tick, which the main loop calls
for ever -- the host need not read (`LogDrained` holds for a host that is
absent) -- and of an exchange on the link, which its station retries.
In `MCHosts`, `WF` of each thread's next step (the bridge's and the tunnel's
loop, the console's loop and its reports, the encoder, STOP, a reset under way):
each is a loop with bounded waits.  In `MCBench`, `WF` of the script and of the
two pump threads.  Nothing is assumed of submissions, of the rung, of what a
program's user does or of rare events.

## 4. Proofs

Every theorem holds for all values of the constants under the assumptions named
in the modules (`...Assumption`, evaluated by TLC in every run).  `PROJECT.json`
lists the theorems; a module per component holds its proofs.  All of them
follow one argument: an inductive invariant, of which TLC checked every part on
the small instance first, one lemma per part or per action, and the property as
a consequence.  Facts about remainders, least elements, induction over a set of
naturals and counting are in `NaturalLemmas`.

| Property of a run | Theorem |
|---|---|
| `StoreSafe`, `Accounted`, `SilenceCharged`, `ImplementsPipe` | `MCModemProofs`: `StoreSafeAlways`, `AccountedAlways`, `SilenceChargedAlways`, `PipeImplemented` |
| `ExactlyOnce`, `IInv`, `ImplementsStreams` | `StopAndWaitProofs`: `FragmentsExactlyOnce`, `Inductive`, `StreamsImplemented` |
| `InflightAwaited`, `WindowHasCandidate` | `StationProofs`: `InflightAwaitedAlways`, `WindowHasCandidateAlways` |
| `BitmapTrue`, `KeptBeforeReleased` (one-way bursts) | `StationProofs`: `OneWayBurstsTrue` |
| `ImplementsStreams`, `ExactlyOnce` of `Station` (one-way bursts; extensions off) | `StationProofs`: `OneWayBurstsKeepPromise`, `SwitchedOffKeepsPromise` |
| `HalfDuplex`, `EndsTold`, `ChunkTrue`, `FrameWhole` | `RadioLoopProofs`: the same names with `Always` |
| `StreamTrue`, `NothingCut`, `TransfersTrue`, `FramesKept`, `RecordingTrue` | `MCHostsProofs`: the same names with `Always`, on `VoiceLinkProofs` |
| `TailPlayed`, `ChannelTrue` | `MCBenchProofs`: the same names with `Always` |

### 4.1 The firmware beside the ARQ (`MCModemProofs`)

*Store.*  `IInv` is the conjunction of `TypeOK`, `OneOwner`, `NoLeak`,
`Integrity` and `~doubled`, with the live count equal to the slots that are not
free.  Every operation is one of five effects (a slot added to a queue, moved to
an open message, released, added to the log, the log emptied), with one lemma
each.  Assumed: the slots are finite and `None` is no slot.

*Binding.*  `RingInv`: the ring holds, from its head, the units of the stream
behind those the host has read, and both counts add up; diagnostics are
only among the oldest units up to half the ring and one frame.  From it, every
step is a step of `FramePipe`.  `LogInv`: the four places a delivered message can be in
are disjoint and complete, and both lists keep the order of completion.

*Link.*  `LinkInv` ties the request to time: `ChargedWhole` (the charge stands at
`last + n` intervals and the request is `n` below what it was before, but not below 0), `InSilence`
(something was charged only if an interval has passed), `BestHeard` (what is kept is
no better than what was measured since) and `NoResurrection`.  No monotonicity of the ladder is needed --
its sensitivities are in fact not monotone at rungs 1 and 2.

### 4.2 Stop-and-wait (`StopAndWaitProofs`)

`ExactlyOnce` is not inductive: that an ack names the newest fragment and not
one four before it depends on what is on the channel.  `IInv` adds

* `Numbered`: both ends count fragments modulo four, and the outstanding
  fragment is the newest one;
* `InFlight`: a frame on the channel carries the newest fragment of its sender
  and the current ack (the channel holds one frame, and a station does not
  transmit over its own);
* `PendingOpen`: the outstanding fragment belongs to an open message.

Since sent and accepted counts differ by at most one, they are equal exactly
when they agree modulo four, which is what the duplicate test and the ack test
of the code decide.

`StreamsImplemented` shows every step to be an offer, a completion, a release, a
completion and a release at once, or a stutter of `ReliableStreams`.  It adds
`StreamInv` for each direction: what waits is the rest of what was submitted;
the fragment that is out is the next part of an open message; the receiver
holds the retired parts, or one fragment more when it is ahead of the ack;
completed messages are those released, and one more exactly when it is ahead
with a last fragment.

### 4.3 Station (`StationProofs`)

`IInv` is `Typed` (variables, messages and frames have their types: the reassembly
buffers, the bitmaps and the two-bit numbers stay in their arrays and bits)
with `WindowInv` and `InflightAwaited`.  A probe is only polled when no reply is
awaited, and everything that clears the timer also settles the probe, whence
`InflightAwaited`; `WindowInv` says that a burst lasts only while a fragment of
it is unacknowledged and that an open window has a candidate, which the code
relies on when it takes the first one found.  TLC checked both parts on the
`station` run.

`SwitchedOffIsStopAndWait`: with bursts and handshake off, `assembled` maps the
buffers to those of `StopAndWait`; the extensions stay inert; and a new fragment
always fits (`NewFits`), by `StopAndWait`'s own invariants, when a message is no
larger than a buffer (station.h:20-24: 256 and 4096).  So each step of the
station is the step of `StopAndWait` it claims to reuse, and
`SwitchedOffKeepsPromise` follows.

`OneWayBurstsTrue`: bursts of one station, at every number and size of messages,
at any window, buffer, store and loss.  `OneWayBursts(a)` is what is assumed:
only `a` submits, the handshake is off, every bulk message may be sent as a burst
at every rung, and no rung is too slow for a fragment cut at another (what
happens without the last three is shown by the violation runs).  `BurstInv` is

* `Answers`: the peer opens nothing and owes only acknowledgments, and what `a`
  sends by stop-and-wait is of the priority stream;
* `Line`: what was submitted is what is gone, the open message, and what waits;
* `Engages`: a burst is cut from the open message, to its end;
* `Knows`: the transfer at the peer is this burst or, before its first
  fragment arrives, the one numbered just before; then nothing is acknowledged,
  so that two bits are enough;
* `Whole`: what the peer's bitmap says it holds is in its buffer, at its place;
* `OnAir`: a fragment on the channel is of this burst, a bitmap is the peer's
  current one;
* `Completed`: the peer stored what is gone, and the open message if its
  transfer is done, in order.

The step that matters is the arrival of a fragment: writing it harms none of the
others (the places of different fragments may not even be compared, since what is
written at a place is always what the message has there), and when all are held the buffer is the
message (`FragmentsCover`: each unit lies in a fragment).  A refusal takes back
the fragment that came, never an acknowledged one.  TLC checked `BurstInv` on
the bursts setting of `station` and with two rungs.

`OneWayBurstsKeepPromise`: under the same assumptions, and a message no larger
than a buffer, the station implements `ReliableStreams` -- priority messages by
stop-and-wait and bulk messages by bursts, on one channel.  The argument splits
the state in two:

* The *priority half* is the state with the bulk columns blanked (`prioQueue`,
  `prioCur`, `prioLog`, ...) and a channel that shows no burst frame (`prioAir`).  Every step of
  the station leaves this half alone or is a step of `StopAndWait` on it
  (`PrioMoves`), so the invariants and the refinement of `StopAndWaitProofs`
  hold of it (`PV`, `PrioInv`).  This rests on `Phases`: while a burst is engaged no
  fragment is outstanding, a bitmap is owed only of the present burst, and an
  acknowledgment of data only while its fragment is outstanding.  So no bitmap,
  whose `ack` is a transfer id, retires a fragment.
* The *bulk half* makes two kinds of step that count: the arrival of a last
  missing fragment completes the next message (`StoredStep`), and a full bitmap
  releases one that is completed (`ReleasedStep`), both by `BurstInv`; every other step leaves what is
  completed and what is gone where it was (`BulkQuiet`).

`GoneHalves` and `Counts` add the halves up to what the promise counts, so that a
step of either half is a step of the promise to the whole (`LiftStep`).

### 4.4 Radio loop (`RadioLoopProofs`)

For FIFOs, chunks, frames, tails and numbers of transmissions of every size.
Assumed: sizes are positive, the slack is less than the FIFO, and the capture
FIFO's size divides 2^32 and is less (the code has 2^16).  `IInv` has to say
where each sample of a frame is:

* `Phase`, `Locals`: which flags go with which place of the loop, and that the
  room `tx_fill` holds is still free and does not pass the end of the array;
* `Counts`: written, held, left in the generator and in the tail add up to what
  was promised;
* `Fifo`, `Played`: cells between the indexes hold what is to be played next,
  and what was played is the beginning of the frame;
* `Fresh`, `Taken`: the same for capture, with indexes that wrap;
* `Party`: `tx_is_bc` tells the kind of what is on the air, and of nothing else.

### 4.5 Host programs (`VoiceLinkProofs`, `MCHostsProofs`)

*Voice* (`SpeechKept`, and `StreamTrueAlways` for the composed hosts), with one
STOP at a time (`Solo`): any number of resets and selections, at any point of
the encoders, and workers that outlive their join.  `VoiceInv`: types;
`Workers` and `Locks` (who may be where, and who owns the airlock);
`Generations` (a worker's session is not newer than the current one, and what
it carries from an old one is thrown away); `StopTrue`, `OneTrue`; `SaidTrue` --
what was sent with what waits is the speech of the posts encoded and, with one
encoder, what was heard is what it has, the batch it took and the ingest queue,
in this order; `Strayed` -- in the middle of a reset the one encoder holds
nothing, or the batch that `heard` begins with; `Mine` and `Apart` -- what any
encoder holds for this session was heard in it, and no two of batches, queue and
buffer hold the same post, which is all that is left beside an encoder that
outlived its join; `AllSent`.  The proof
found two hidden assumptions: whole bytes hold more than one token (`Align >
1`), and only one STOP runs.

*Recordings* (`RecordingKept`), with any number of decoders, of STOPs at a time
and of workers that outlive their join; its only assumption is the component's
own.  `RecordInv`: a decoder's step that carries the current generation is, unless
one crossed the session's reset, of this session and of tokens that have arrived
in it (`Looking`, `Vocoded`); what a STOP took of the received bytes stays their
beginning until the file is written, since no reset runs while a STOP holds the
airlock (`Snapped`); the audio is that of the first `dec_pos` tokens, and a
reset that has begun left none (`Heeded`).  It rests on `Locks` and
`Generations`, and on the fact that more bytes decode to the same tokens and
more.

*Packing* (`PackingKept`), for any size of the chunks and groups of a speech, of
a token and of a byte; assumed is that every token fits its bits
(`StreamerAssumption`): the model numbers tokens as they are spoken, so that
`TokenBits` bounds the speech, where the codec's tokens are below 1024.  What the
receiver unpacks of a beginning of the bytes is a beginning of the tokens
packed into them (`BitsOf`, `TokenOf`: halving a token and doubling it up again
gives it back).  `PackInv`: while the speech lasts, the bytes sent are a
beginning of what was said, packed, and `carry` and `pend` are the rest
(`Sending`); after its end they are all that was said, followed by fewer than
`Whole` copies of the last token (`SaidAll`).  `RecordingTrueAlways` says this
and `RecordingKept` of the composed hosts.

*Bridge and tunnel* (`FramesKeptAlways`).  `NetInv`: `NetType`; `Places` (where
in its turn a program may hold what); `Kept` -- the frames offered are no more
than those taken, kept, held and refused out loud, with the refusals on their
way; `Lines`, `InOrder` -- frames of one size stand in the
order they came in, from the program's queue to the far end; `Gate` -- what is
on the board, with the room that the reports under way and those already read
still allow, stays within the bound.  Assumed for the tunnel (`TunnelRoom`): its
gate lies below the board's queue (`QUEUE_HIGH` 2, `ST_MAX_MSGS` 8); a packet the
board refuses is not counted by the tunnel (ip_tun.py:353-354), and below the
gate none is refused.  The proof corrected the bound of the model: several
reports may be read together, and those read and those still in the port each
open the gate, so that a queue can grow to twice what one batch of reports
allows; TLC has the counterexample to the smaller bound with two reports.

*KISS line* (same theorem).  Lemmas on the decoder: what it makes of a piece and
then of another is what it makes of both, and what `kiss_encode` writes is
decoded to the frame and leaves nothing.  `WireInv`: a descriptor belongs to one
connection (`OwnConn`); one waiting to be accepted is nobody's yet
(`BacklogTrue`); what `select` found is still there when its turn comes
(`TodoTrue`); for each client the frames got, followed by those its decoder
would make of the bytes still in the pipe, are the frames written, and it was
told all that came in since it was accepted (`ClientsTrue`).  So the frames got
are a beginning of those written, and all of them once the pipe is empty
(`GotTrue`).

*Warm-up* (`NothingCutAlways`).  `WarmInv` has no assumption about the order of
reports and looks, only times: `AirTime <= Patience` and `MaxAge < AirTime + Gap`
(`WarmUpAssumption`; the code has 0.64 s, 20 s, 0.5 s and 0.25 s).
`AirOfFlight`: nothing is on the air without a frame in flight.  `Timed`: while
the board has something to send, a clean status was made before it had; it has
had it for `AirTime` when an echo is there, and when settle looks for a `Gap`
more -- so that a status clean and younger than that does not exist, and a clean
look means a quiet board.  `RequestTrue`: nothing is submitted during a
transmission unless the request slipped in, and a request about to talk without
trouble has seen quiet.

*Files and broadcasts* (`TransfersTrueAlways`).  `FileInv`: as long as nothing
was refused or lost, the parts on their way are *linked*: each follows its
neighbour from where the peer stands to where the sender stands; and files are
alike, part by part.  `CastInv`, with any frame of any group lost: `CastTypes`,
by which chunks in the source follow one another and what the peer holds is in
order; `Airing` -- what it holds lies below what is next on the air, and that
reaches up to what the console has fed; `Marked` -- while no start or end is
missing, what it holds is of one file and, with a broadcast open and no end due,
of the file on the air; `Entire` -- with one broadcast and no loss the peer has
all that left the buffer.  No assumption beyond the console's.

### 4.6 Radio and channel of the demo application (`MCBenchProofs`)

*Radio* (`TailPlayedAlways`).  `OnTime`: the pump is never later than its longest
sleep, and what is queued is never ahead of the tick; `Played`: the samples in
the radio's buffer are those queued, less the time played, plus the gaps it ran
dry in.  What the switch cuts is thus at most the gaps, provided no sleep ends
later than the code's cap of two seconds (`PromptSleep`).

*Channel* (`ChannelTrueAlways`).  `Ordered`: last heard, heard, in the line and
waiting are each rising and each ahead of the next, and no later than what was
sent; `LineTimed`, `HeardTimed`: what is in the line, or was heard, is no
sooner than its delay; `AppsInv`: connections and the applications behind them.

### 4.7 Only model-checked, and why

* Liveness: `EventuallyDelivered`, `EventuallySilent`, `DeliveredInTheEnd`,
  `GivenBack`, `LogDrained`, `Converges`, `Answered`, `RunEnds`.
* `BurstsTrue` and `KeepPromise` hold in their settings only (`climb` and
  `false_retire` show that they fail in general).  What they say of bursts is
  `OneWayBurstsTrue` and `OneWayBurstsKeepPromise`; what they say beside the
  handshake is only model-checked, and not true of every instance: three CAPS
  frames lost in a row wrap the two-bit numbers (`caps_wrap`).
  `LegacyIsStopAndWait` is one instance of `SwitchedOffIsStopAndWait`.
* `phy`: operators over data by recursion (`FixedPoint` declares RECURSIVE
  operators, which no module with a theorem may reach).
* `SessionTrue`, `OkIsOwn`, `ChunkFree`: a parser over bytes, scripts by
  `FlattenSeq`, filters by folds, which the provers know no facts about.

## 5. Not modelled

* Streamed windows (`burst_stream`, off by default), `station_abort_bulk` beside
  a burst (it is in `MsgStore`), and a restart of a station.
* RTO smoothing and AFC: they decide *when* a timer expires, which the models
  leave open; and the contents of the capability record.
* Carrier sense and the streaming receiver in C; the burst walk and the
  broadcast engine of the radio main loop, which `RadioLoop` leaves open.
* The real waveform: Hilbert filter, clipping, levels of noise and fading.
* In the host programs: what a write to the radio returns when it is short
  (`sdr_driver.py:352`); the benchmark's summary, which is outside its `try`
  (`board_bench.py:974`), and a server it starts that never comes up (790-796);
  the drop of a held broadcast after 180 s (`bc_poll_link`) and text broadcasts
  of the console.  The benchmark's plans in `MCBench` repeat no scenario, so that a payload
  of an earlier repetition is only met among those already recorded.
* Board support, the USB stack, page serving, reports of the benchmark.

## 6. Plan

1. *Proof*: `SessionTrue` and `OkIsOwn`, as far as the folds allow.
2. *Models*: streamed windows and a restart in `Station`; `BurstWalk` on top of
   `RadioLoop`; `CarrierSense`; `RxStream`.
