---------------------------- MODULE HostSession ----------------------------
(***************************************************************************)
(* A program's session with a board over USB (host/ofdm_modem.py): which   *)
(* of the attached devices is opened, what an earlier session left in the  *)
(* IN endpoint, the parser that finds frames in the bytes that come,       *)
(* replies awaited among events, writes that time out, and the goodbye.    *)
(* Bytes are small numbers; a frame is SYNC, a type, a length and a body.  *)
(***************************************************************************)
EXTENDS Integers, Sequences, SequencesExt, FiniteSets

CONSTANTS
  Devices,       \* with this vendor and product on the bus
  SerialOf,      \* their serials
  Benches,       \* pairs: those that speak the framing; --serial, or Whichever
  Whichever, Mute,
  Tries,         \* of _read_serial
  MaxFailures,   \* bound: string requests that fail
  MaxFrames,     \* bound: frames the board sends
  MaxCalls,      \* bound: calls of the program
  MaxStalls,     \* bound: writes that time out
  Reads,         \* bytes a read may return
  Busies         \* sets of devices other programs may hold

HostSessionAssumption ==
  /\ \A b \in Benches: b[1] \subseteq Devices
  /\ Reads \subseteq Nat \ {0}
  /\ {Tries, MaxFailures, MaxFrames, MaxCalls, MaxStalls} \subseteq Nat

VARIABLES
  bench,         \* the pair there is
  phase, error,
  busy,          \* devices another program has claimed
  seen,          \* answers of the devices to the serial request
  attempt,       \* requests made of the one being asked
  poisoned,      \* devices whose failed lookup is cached by the library
  failures,
  dev,           \* the device opened
  wire,          \* bytes staged in its IN endpoint
  sent,          \* history: frames the board staged
  drained,       \* history: bytes that reached no parser
  buf, q,        \* of the parser, and OfdmModem.q
  want,          \* type awaited, or 0
  commands,      \* written, not yet served by the board
  write_failed, closed,
  calls, stalls,
  parsed, yielded, taken,  \* history: frames found, given as events, awaited
  goodbyes, late           \* history: and one sent after a failed write

bus == <<bench, busy, seen, attempt, poisoned, failures, dev>>
stream == <<wire, sent, drained>>
reader == <<buf, q, parsed, yielded, taken>>
writer == <<commands, write_failed, stalls, goodbyes, late>>
vars == <<phase, error, bus, stream, reader, want, writer, closed, calls>>

SYNC == <<9, 8>>
HDR == 4
MAX_PAYLOAD == 4
RSP_INFO == 1
RSP_PONG == 2
EVT_STATUS == 3
EVT_MESSAGE == 4
CMD_INFO == 5
CMD_PING == 6
CMD_SUBMIT == 7
CMD_DISCONNECT == 0
encode(f) == SYNC \o <<f.type, Len(f.body)>> \o f.body
Wire(frames) == FlattenSeq([i \in DOMAIN frames |-> encode(frames[i])])

(* What a board says: a status, a message whose text looks like the head   *)
(* of a frame, one that looks like the head of a frame too long.           *)
Says(n) ==
  {[type |-> EVT_STATUS, body |-> <<n>>],
   [type |-> EVT_MESSAGE, body |-> SYNC \o <<EVT_STATUS, 1>>],
   [type |-> EVT_MESSAGE, body |-> SYNC \o <<EVT_STATUS, MAX_PAYLOAD + 1>>]}
Unread == "unread"

Ours == bench[1]
Wanted == bench[2]

Init ==
  /\ bench \in Benches
  /\ phase = "scan" /\ error = "none"
  /\ busy \in Busies
  /\ seen = [d \in Devices |-> Unread] /\ attempt = 0
  /\ poisoned = {} /\ failures = 0 /\ dev = Whichever
  /\ sent \in {<<f>>: f \in Says(1)}
  /\ drained \in 0 .. Len(encode(sent[1])) - 1
  /\ wire = SubSeq(encode(sent[1]), drained + 1, Len(encode(sent[1])))
  /\ buf = <<>> /\ q = <<>> /\ want = 0 /\ commands = <<>>
  /\ write_failed = FALSE /\ closed = FALSE /\ calls = 0 /\ stalls = 0
  /\ parsed = <<>> /\ yielded = <<>> /\ taken = 0
  /\ goodbyes = 0 /\ late = FALSE

-----------------------------------------------------------------------------
(* The board (external) serves commands and stages frames whenever.        *)
Stages(f) ==
  /\ Len(sent) < MaxFrames
  /\ sent' = Append(sent, f)
  /\ wire' = wire \o encode(f)
  /\ UNCHANGED drained
Reports ==
  /\ phase \in {"drain", "idle", "await"}   \* Init has what was staged before
  /\ \E f \in Says(Len(sent) + 1): Stages(f)
  /\ UNCHANGED <<phase, error, bus, reader, want, writer, closed, calls>>
Serves ==
  /\ commands # <<>>
  /\ commands' = Tail(commands)
  /\ CASE Head(commands) = CMD_INFO -> Stages([type |-> RSP_INFO, body |-> <<>>])
       [] Head(commands) = CMD_PING -> Stages([type |-> RSP_PONG, body |-> <<>>])
       [] OTHER -> UNCHANGED stream
  /\ UNCHANGED <<phase, error, bus, reader, want, write_failed, stalls,
                 goodbyes, late, closed, calls>>

-----------------------------------------------------------------------------
(* _UsbTransport: strangers on the product id are told apart.              *)
Fails(why) == phase' = "failed" /\ error' = why
Scan ==
  /\ phase = "scan"
  /\ IF Ours = {} THEN Fails("no modem")
     ELSE /\ phase' = IF Wanted = Whichever THEN "pick" ELSE "serials"
          /\ UNCHANGED error
  /\ UNCHANGED <<bus, stream, reader, want, writer, closed, calls>>

(* _read_serial: a request that failed is cached by the library until the  *)
(* cache is cleared.  Mutant: it is not.                                   *)
ClearsNot(d) == poisoned \cup {d}
Clears(d) == poisoned \ {d}
ReadSerial(d) ==
  /\ phase = "serials" /\ d \in Ours /\ seen[d] = Unread
  /\ \A e \in Ours: seen[e] = Unread => d = e \/ attempt = 0
  /\ \/ /\ d \notin poisoned
        /\ seen' = [seen EXCEPT ![d] = SerialOf[d]]
        /\ attempt' = 0
        /\ UNCHANGED <<poisoned, failures>>
     \/ /\ d \in poisoned \/ failures < MaxFailures
        /\ failures' = IF d \in poisoned THEN failures ELSE failures + 1
        /\ poisoned' = Clears(d)
        /\ IF attempt + 1 < Tries
           THEN attempt' = attempt + 1 /\ UNCHANGED seen
           ELSE attempt' = 0 /\ seen' = [seen EXCEPT ![d] = Mute]
  /\ UNCHANGED <<phase, error, bench, busy, dev, stream, reader, want, writer,
                 closed, calls>>

Matches ==
  IF Wanted = Whichever THEN Ours ELSE {d \in Ours: seen[d] = Wanted}
Pick ==
  /\ \/ phase = "pick"
     \/ phase = "serials" /\ \A d \in Ours: seen[d] # Unread
  /\ CASE Matches = {} -> Fails("no serial") /\ UNCHANGED dev
       [] Cardinality(Matches) > 1 -> Fails("several") /\ UNCHANGED dev
       [] OTHER -> /\ dev' \in Matches
                   /\ IF dev' \in busy THEN Fails("claimed")
                      ELSE phase' = "named" /\ UNCHANGED error
  /\ UNCHANGED <<bench, busy, seen, attempt, poisoned, failures, stream, reader,
                 want, writer, closed, calls>>

(* The serial is asked for once more, this time without a retry.           *)
Named ==
  /\ phase = "named"
  /\ \/ /\ phase' = "drain"
        /\ seen' = [d \in Devices |-> Unread]
        /\ failures' = 0
        /\ UNCHANGED error
     \/ /\ failures < MaxFailures
        /\ failures' = failures + 1
        /\ Fails("raised")
        /\ UNCHANGED seen
  /\ UNCHANGED <<bench, busy, attempt, poisoned, dev, stream, reader, want,
                 writer, closed, calls>>

(* _drain: what is armed is read until the endpoint is quiet, or for two   *)
(* seconds, wherever in a frame that ends.                                 *)
Drain ==
  /\ phase = "drain"
  /\ \/ /\ wire # <<>>
        /\ \E n \in Reads:
             /\ wire' = SubSeq(wire, n + 1, Len(wire))
             /\ drained' = drained + (IF n < Len(wire) THEN n ELSE Len(wire))
        /\ UNCHANGED phase
     \/ phase' = "idle" /\ UNCHANGED <<wire, drained>>
  /\ UNCHANGED <<error, bus, sent, reader, want, writer, closed, calls>>

-----------------------------------------------------------------------------
(* Parser.push: what a false head swallowed is searched again only from    *)
(* its next byte if the length is impossible.                              *)
Junk(b) == \/ b[1] # SYNC[1]
           \/ Len(b) >= 2 /\ b[2] # SYNC[2]
           \/ Len(b) >= HDR /\ b[HDR] > MAX_PAYLOAD
Whole(b) == Len(b) >= HDR /\ Len(b) >= HDR + b[HDR]
push(b) ==
  LET from[n \in 1 .. Len(b) + 1] ==
        LET c == SubSeq(b, n, Len(b))
        IN CASE c = <<>> -> [buf |-> c, out |-> <<>>]
             [] c # <<>> /\ Junk(c) -> from[n + 1]
             [] c # <<>> /\ ~Junk(c) /\ Whole(c) ->
                  LET end == HDR + c[HDR]
                      rest == from[n + end]
                  IN [buf |-> rest.buf,
                      out |-> <<[type |-> c[3],
                                 body |-> SubSeq(c, HDR + 1, end)]>>
                                \o rest.out]
             [] OTHER -> [buf |-> c, out |-> <<>>]
  IN from[1]

(* _pump: one read, of which the parser makes what it can.                 *)
(* Mutant: a frame begun in one read does not go on in the next.           *)
Chunk(n) == SubSeq(wire, 1, IF n < Len(wire) THEN n ELSE Len(wire))
FoundAfresh(n) == push(Chunk(n))
Found(n) == push(buf \o Chunk(n))
Pump(n) ==
  /\ wire' = SubSeq(wire, Len(Chunk(n)) + 1, Len(wire))
  /\ buf' = Found(n).buf
  /\ parsed' = parsed \o Found(n).out

(* write: a timeout is remembered, a success forgets it.                   *)
Writes(cmd) ==
  /\ commands' = Append(commands, cmd)
  /\ write_failed' = FALSE
  /\ UNCHANGED stalls
Stalls ==
  /\ stalls < MaxStalls
  /\ stalls' = stalls + 1
  /\ write_failed' = TRUE
  /\ UNCHANGED commands

(* info, ping: the command, then the wait; a write that raises ends it.    *)
Requests ==
  /\ phase = "idle" /\ calls < MaxCalls
  /\ calls' = calls + 1
  /\ \E c \in {<<CMD_INFO, RSP_INFO>>, <<CMD_PING, RSP_PONG>>}:
       \/ Writes(c[1]) /\ phase' = "await" /\ want' = c[2]
       \/ Stalls /\ UNCHANGED <<phase, want>>
  /\ UNCHANGED <<error, bus, stream, reader, goodbyes, late, closed>>
(* submit, config, reset.                                                  *)
Submits ==
  /\ phase = "idle" /\ calls < MaxCalls
  /\ calls' = calls + 1
  /\ Writes(CMD_SUBMIT) \/ Stalls
  /\ UNCHANGED <<phase, error, bus, stream, reader, want, goodbyes, late,
                 closed>>

(* _await: the first frame of that type is taken out of the queue; other   *)
(* frames stay for events.  Mutant: those before it go with it.            *)
TakenWithRest(i) == SubSeq(q, i + 1, Len(q))
TakenAt(i) == RemoveAt(q, i)
Awaits ==
  /\ phase = "await"
  /\ LET i == SelectInSeq(q, LAMBDA f: f.type = want)
     IN IF i > 0
        THEN /\ q' = TakenAt(i)
             /\ taken' = taken + 1
             /\ phase' = "idle" /\ want' = 0
             /\ UNCHANGED <<wire, buf, parsed>>
        ELSE /\ \E n \in Reads: Pump(n) /\ q' = q \o Found(n).out
             /\ UNCHANGED <<taken, phase, want>>
  /\ UNCHANGED <<error, bus, sent, drained, yielded, writer, closed, calls>>
TimesOut ==
  /\ phase = "await"
  /\ phase' = "idle" /\ want' = 0
  /\ UNCHANGED <<error, bus, stream, reader, writer, closed, calls>>

(* events: perhaps a ping first, one read, then the whole queue.           *)
Events ==
  /\ phase = "idle" /\ calls < MaxCalls
  /\ calls' = calls + 1
  /\ \/ /\ Writes(CMD_PING) \/ UNCHANGED <<commands, write_failed, stalls>>
        /\ \E n \in Reads: Pump(n) /\ yielded' = yielded \o q \o Found(n).out
        /\ q' = <<>>
     \/ /\ Stalls
        /\ UNCHANGED <<wire, buf, parsed, yielded, q>>
  /\ UNCHANGED <<phase, error, bus, sent, drained, want, taken, goodbyes, late,
                 closed>>

(* close: the goodbye is best effort, and left out after a failed write.   *)
(* A second close, as by leaving the with block, does nothing.             *)
(* Mutant: it is said whatever became of the last write.                   *)
SaysAnyway == TRUE
SaysGoodbye == ~write_failed
Close ==
  /\ phase = "idle"
  /\ closed' = TRUE
  /\ phase' = "idle"
  /\ IF closed \/ ~SaysGoodbye
     THEN UNCHANGED <<commands, write_failed, stalls, goodbyes, late>>
     ELSE /\ Writes(CMD_DISCONNECT) \/ Stalls
          /\ goodbyes' = goodbyes + 1
          /\ late' = write_failed
  /\ calls' = IF closed THEN calls ELSE MaxCalls
  /\ UNCHANGED <<error, bus, stream, reader, want>>

Opening == Scan \/ (\E d \in Devices: ReadSerial(d)) \/ Pick \/ Named \/ Drain
Next == \/ Opening \/ Requests \/ Submits \/ Awaits \/ TimesOut \/ Events
        \/ Close \/ Serves \/ Reports
Spec == Init /\ [][Next]_vars
-----------------------------------------------------------------------------
(* However the reads cut them, the frames the parser finds are the frames  *)
(* the board sent, in order, from the first it is given whole; where the   *)
(* stream began inside a frame it may take text for a head, but once it    *)
(* has found a frame it stays with them (Parser.push).                     *)
Boundary(k) == Len(Wire(SubSeq(sent, 1, k)))
ParsesTrue ==
  phase \in {"idle", "await"} =>
    LET start == CHOOSE k \in 0 .. Len(sent):
                   /\ drained <= Boundary(k)
                   /\ \A j \in 0 .. k - 1: drained > Boundary(j)
        true(i) == \E k \in DOMAIN sent:
                      /\ k > start
                      /\ SubSeq(parsed, i, Len(parsed))
                           = SubSeq(sent, k, k + Len(parsed) - i)
    IN /\ drained = Boundary(start) =>
            IsPrefix(parsed, SubSeq(sent, start + 1, Len(sent)))
       /\ \A i \in DOMAIN parsed:
            parsed[i] \in ToSet(SubSeq(sent, start + 1, Len(sent))) => true(i)

(* Waiting for a reply loses no event and changes no order (_await), and   *)
(* a board that does not read is not waited for once more to say goodbye,  *)
(* which is said once (close).                                             *)
IsEvent(f) == f.type \in {EVT_STATUS, EVT_MESSAGE}
SessionTrue ==
  /\ SelectSeq(yielded \o q, IsEvent) = SelectSeq(parsed, IsEvent)
  /\ Len(parsed) = Len(yielded) + Len(q) + taken
  /\ goodbyes <= 1 /\ ~late

(* The device opened is the one asked for, ours, and nobody else's, and    *)
(* every failure to open has its cause: "one failure is not no board"      *)
(* holds while the devices are told apart, where one that fails fewer      *)
(* requests than _read_serial makes is found.  It does not hold once the   *)
(* board is found: the last request, for its name, has no second try, and  *)
(* one failure there raises (_UsbTransport, _read_serial).                 *)
Candidates == {d \in Ours: Wanted \in {Whichever, SerialOf[d]}}
OpensRight ==
  /\ phase \in {"named", "drain", "idle", "await"} \/ error = "raised" =>
       dev \in Candidates \ busy
  /\ error = "no modem" => Ours = {}
  /\ error = "no serial" /\ failures < Tries => Candidates = {}
  /\ error = "several" => Cardinality(Candidates) > 1
  /\ error = "claimed" => dev \in Candidates \cap busy
  /\ error = "raised" => failures > 0
  /\ error # "none" <=> phase = "failed"
=============================================================================
