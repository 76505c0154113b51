---------------------------- MODULE BoardConsole ----------------------------
(***************************************************************************)
(* The file transfers of demoapp/board_console.py between two stations     *)
(* that run on boards.  The sending console tops the bulk queue of its     *)
(* board up to Inflight parts whenever a report arrives, and takes one     *)
(* part back when the board logs a refusal; the receiving console puts     *)
(* parts together in the order they come.  A broadcast file is fed in      *)
(* chunks against the free space the last report gave and keyed one group  *)
(* after the other; any frame of a group may be lost, the one that starts  *)
(* the broadcast and the one that ends it too.  The console of the peer    *)
(* stores what it collected when its board reports an end.  Reports and    *)
(* log lines wait in the port until the loop reads them.                   *)
(***************************************************************************)
EXTENDS Integers, Sequences, SequencesExt

CONSTANTS
  NParts,       \* parts of each file
  MaxCommands,  \* bound: commands of the user
  MaxLosses,    \* bound: messages the station gives up, groups not heard
  MaxMisses,    \* pings in a row that may time out
  MaxStalls,    \* bound: pings that time out
  Inflight,     \* parts wanted in the bulk queue
  QueueLimit,   \* messages the bulk queue holds
  Chunks,       \* chunks of the broadcast file
  BcSize        \* chunks the source buffer of the board holds

ConsoleAssumption ==
  /\ {MaxCommands, MaxLosses, MaxStalls} \subseteq Nat
  /\ {NParts, MaxMisses, Inflight, QueueLimit, Chunks, BcSize}
        \subseteq Nat \ {0}

VARIABLES
  pc,           \* ping, events, command, detached
  misses, stalls,
  status,       \* the last report, or NoStatus
  pending,      \* number of the file being sent, 0: none
  sentParts,    \* parts of it handed over
  refused,      \* refusals logged
  bcOff,        \* chunks of the broadcast file handed over
  bcOpen,       \* a broadcast file is being fed
  inbox,        \* events being handled
  queue,        \* bulk messages on the board (external)
  source,       \* chunks in the broadcast buffer of the board, not keyed yet
  flight,       \* g_bc_src_len > 0: a continuation is taken
  complete,     \* g_bc_complete: the host has sent the last chunk
  closing,      \* g_bc_close_due: the one before was cut short, its end is due
  events,       \* staged by the board
  rx,           \* RxFile of the peer: the parts it holds, or Closed
  files,        \* files the peer completed
  evt_open,     \* g_bc_evt_open of the listening board: a start was reported
  storing,      \* _bc_ptype of the listening console is that of a file
  bcBuf,        \* _bc_buf: chunks it has collected
  stored,       \* broadcast files it stored
  sent, bulk, losses, casts, fades,  \* history: files, bulk messages and
                \* broadcasts of the user, messages and chunks lost,
  overrun,      \* a chunk did not fit,
  unmarked,     \* a start or an end among what is collected was not keyed or
                \* not heard,
  handed        \* parts of the present file accepted in order, or Disorder

sender == <<pc, misses, stalls, status, pending, sentParts, refused, bcOff,
            bcOpen, inbox>>
air == <<source, flight, complete, closing>>
port == <<queue, events>>
peer == <<rx, files>>
listener == <<evt_open, storing, bcBuf, stored>>
ghosts == <<sent, bulk, losses, casts, fades, overrun, unmarked, handed>>
vars == <<sender, port, air, peer, listener, ghosts>>

NoStatus == [kind |-> "none", depth |-> 0, free |-> 0]
RefusedLog == [kind |-> "refused", depth |-> 0, free |-> 0]
Disorder == -1
Closed == [n |-> 0, parts |-> <<>>]
Part(file, i) == [file |-> file, part |-> i]
Chunk(c, i) == [cast |-> c, chunk |-> i, last |-> i = Chunks - 1]
Pattern == [file |-> 0, part |-> 0]

Init ==
  /\ pc = "ping" /\ misses = 0 /\ stalls = 0 /\ status = NoStatus
  /\ pending = 0 /\ sentParts = 0 /\ refused = 0
  /\ bcOff = 0 /\ bcOpen = FALSE /\ inbox = <<>>
  /\ queue = <<>> /\ events = <<>>
  /\ source = <<>> /\ flight = FALSE /\ complete = TRUE /\ closing = FALSE
  /\ rx = Closed /\ files = <<>>
  /\ evt_open = FALSE /\ storing = FALSE /\ bcBuf = <<>> /\ stored = <<>>
  /\ sent = 0 /\ bulk = 0 /\ losses = 0 /\ casts = 0 /\ fades = 0
  /\ overrun = FALSE /\ unmarked = FALSE /\ handed = 0

-----------------------------------------------------------------------------
(* The board: what fits is queued, the rest is refused in a log line.      *)
Least(a, b) == IF a < b THEN a ELSE b
Accepted(msgs) == SubSeq(msgs, 1, Least(Len(msgs), QueueLimit - Len(queue)))

Submit(msgs) ==
  /\ queue' = queue \o Accepted(msgs)
  /\ events' = events \o [i \in 1 .. Len(msgs) - Len(Accepted(msgs)) |->
                            RefusedLog]

Reports ==
  /\ ~\E i \in DOMAIN events: events[i].kind = "status"
  /\ events' = Append(events, [kind |-> "status", depth |-> Len(queue),
                               free |-> BcSize - Len(source)])
  /\ UNCHANGED <<sender, queue, air, peer, listener, ghosts>>

GivesUp ==
  /\ queue # <<>> /\ losses + fades < MaxLosses
  /\ queue' = Tail(queue)
  /\ losses' = losses + 1
  /\ UNCHANGED <<sender, events, air, peer, listener, sent, bulk, casts, fades,
                 overrun, unmarked, handed>>

(* bc_cmd.  A fresh chunk supersedes what is on the air; a continuation    *)
(* without a broadcast is ignored, one that does not fit drops all of it.  *)
BcWrite(new) ==
  LET fresh == new # <<>> /\ Head(new).chunk = 0
      all == IF fresh THEN new ELSE source \o new
      over == Len(all) > BcSize
  IN IF new = <<>> \/ ~(fresh \/ flight)
     THEN UNCHANGED <<air, overrun, unmarked>>
     ELSE /\ source' = IF over THEN <<>> ELSE all
          /\ flight' = ~over
          /\ complete' = (over \/ new[Len(new)].last)
          /\ closing' = (closing \/ (fresh /\ (~complete \/ source # <<>>)))
          /\ overrun' = (overrun \/ over)
          /\ unmarked' = (unmarked \/ over)

-----------------------------------------------------------------------------
(* One keying of the sending board (bc_open_group), what the listening     *)
(* board reports of the frames it decodes (bc_advance), and what its       *)
(* console makes of that (on_bcast): a start empties the buffer, an end    *)
(* stores it and leaves it as it is.                                       *)
OnStartKept == bcBuf                        \* mutant: what was collected stays
OnStart == <<>>
OnData(buf, c, heard) == IF heard THEN Append(buf, c) ELSE buf
OnEnd(buf, mark) == Append(stored, [chunks |-> buf, unmarked |-> mark])

(* A start is reported only when none is open.                             *)
OnBcast(c, heard) ==
  LET start == "sync" \in heard /\ ~evt_open
      data == "data" \in heard
      buf == OnData(IF start THEN OnStart ELSE bcBuf, c, data)
      mark == ~start /\ (unmarked \/ (data /\ ~evt_open))
  IN /\ bcBuf' = buf
     /\ storing' = (storing \/ start)
     /\ evt_open' = ((evt_open \/ start) /\ "eos" \notin heard)
     /\ stored' = IF "eos" \in heard /\ (storing \/ start) THEN OnEnd(buf, mark)
                  ELSE stored
     /\ unmarked' = (mark \/ (c.last /\ "eos" \notin heard))

Frames(c) == {"sync", "data"} \cup (IF c.last THEN {"eos"} ELSE {})
Faded(lost) ==
  /\ lost => losses + fades < MaxLosses
  /\ fades' = fades + (IF lost THEN 1 ELSE 0)

KeysGroup ==
  /\ ~closing /\ source # <<>>
  /\ \E heard \in SUBSET Frames(Head(source)):
       OnBcast(Head(source), heard) /\ Faded(heard # Frames(Head(source)))
  /\ source' = Tail(source)
  /\ UNCHANGED <<sender, port, peer, flight, complete, closing, sent, bulk,
                 losses, casts, overrun, handed>>

(* The end of a broadcast cut short is keyed before anything else.         *)
KeysClosing ==
  /\ closing
  /\ closing' = FALSE
  /\ \E heard \in BOOLEAN:
       /\ Faded(~heard)
       /\ evt_open' = (evt_open /\ ~heard)
       /\ stored' = IF heard /\ storing THEN OnEnd(bcBuf, unmarked) ELSE stored
       /\ unmarked' = (unmarked \/ ~heard)
  /\ UNCHANGED <<sender, port, peer, source, flight, complete, storing, bcBuf,
                 sent, bulk, losses, casts, overrun, handed>>

(* The host has promised more and has not come for 30 s: no end is keyed.  *)
Starves ==
  /\ ~complete /\ flight /\ source = <<>>
  /\ complete' = TRUE
  /\ unmarked' = TRUE
  /\ UNCHANGED <<sender, port, peer, source, flight, closing, listener, sent,
                 bulk, losses, casts, fades, overrun, handed>>

(* After a silence of twice the hold the next frame is a new start; it     *)
(* counts as a loss.                                                       *)
Forgets ==
  /\ evt_open
  /\ evt_open' = FALSE
  /\ Faded(TRUE)
  /\ UNCHANGED <<sender, port, air, peer, storing, bcBuf, stored, sent, bulk,
                 losses, casts, overrun, unmarked, handed>>

-----------------------------------------------------------------------------
(* The receiving console: on_file_part.                                    *)
InOrder(cur, m) == cur # Closed /\ Len(cur.parts) = m.part
OnFilePart(m) ==
  LET cur == IF m.part = 0 THEN [n |-> NParts, parts |-> <<>>] ELSE rx
      got == Append(cur.parts, m)
  IN IF ~InOrder(cur, m)
     THEN rx' = Closed /\ UNCHANGED files
     ELSE IF Len(got) >= cur.n
          THEN rx' = Closed /\ files' = Append(files, got)
          ELSE rx' = [cur EXCEPT !.parts = got] /\ UNCHANGED files

(* The peer's board delivers in order; a text message is printed.          *)
Delivers ==
  /\ queue # <<>>
  /\ queue' = Tail(queue)
  /\ IF Head(queue) = Pattern
     THEN UNCHANGED <<rx, files>>
     ELSE OnFilePart(Head(queue))
  /\ UNCHANGED <<sender, events, air, listener, ghosts>>

-----------------------------------------------------------------------------
(* The sending console.  pump_file tops the queue up from part "from" of   *)
(* the file, by the depth in report st.                                    *)
Count(st, from) ==
  IF st = NoStatus \/ st.depth >= Inflight THEN 0
  ELSE Least(Inflight - st.depth, NParts - from)

(* History: how many parts the board has accepted in order, or Disorder.   *)
Continue(before, parts) ==
  IF before = Disorder \/ parts = <<>> THEN before
  ELSE IF Head(parts).part = before THEN before + Len(parts)
  ELSE Disorder

PumpFile(st, file, from, before) ==
  LET n == Count(st, from)
      parts == [i \in 1 .. n |-> Part(file, from + i - 1)]
  IN /\ Submit(parts)
     /\ handed' = Continue(before, Accepted(parts))
     /\ IF from + n >= NParts
        THEN pending' = 0 /\ sentParts' = 0
        ELSE pending' = file /\ sentParts' = from + n

(* pump_bcfile: two chunks must be free for one to be written.             *)
PumpBcfile(st, c, off, open) ==
  LET n == IF open /\ st.free >= 2 THEN Least(st.free - 1, Chunks - off) ELSE 0
  IN /\ BcWrite([i \in 1 .. n |-> Chunk(c, off + i - 1)])
     /\ bcOff' = off + n
     /\ bcOpen' = (open /\ off + n < Chunks)

Pings ==
  /\ pc = "ping"
  /\ \/ misses' = 0 /\ pc' = "events" /\ UNCHANGED stalls
     \/ /\ stalls < MaxStalls
        /\ stalls' = stalls + 1
        /\ misses' = misses + 1
        /\ pc' = IF misses + 1 >= MaxMisses THEN "detached" ELSE "events"
  /\ UNCHANGED <<status, pending, sentParts, refused, bcOff, bcOpen, inbox,
                 port, air, peer, listener, ghosts>>

Polls ==
  /\ pc = "events"
  /\ inbox' = events
  /\ events' = <<>>
  /\ pc' = IF events = <<>> THEN "command" ELSE "handle"
  /\ UNCHANGED <<misses, stalls, status, pending, sentParts, refused, bcOff,
                 bcOpen, queue, air, peer, listener, ghosts>>

OnStatus(st) ==
  /\ status' = st
  /\ PumpBcfile(st, casts, bcOff, bcOpen)
  /\ IF pending = 0
     THEN UNCHANGED <<queue, events, handed, pending, sentParts>>
     ELSE PumpFile(st, pending, sentParts, handed)
  /\ UNCHANGED refused

(* The part is put back for the next report to retry.                      *)
OnRefused ==
  /\ refused' = refused + 1
  /\ sentParts' = IF sentParts > 0 THEN sentParts - 1 ELSE 0
  /\ UNCHANGED <<status, pending, bcOff, bcOpen, port, air, overrun, unmarked,
                 handed>>

Handles ==
  /\ pc = "handle"
  /\ inbox' = Tail(inbox)
  /\ pc' = IF Len(inbox) = 1 THEN "command" ELSE "handle"
  /\ IF Head(inbox).kind = "status" THEN OnStatus(Head(inbox)) ELSE OnRefused
  /\ UNCHANGED <<misses, stalls, peer, listener, sent, bulk, losses, casts,
                 fades>>

Goes == pc = "command" /\ pc' = "ping"

NoCommand ==
  /\ Goes
  /\ UNCHANGED <<misses, stalls, status, pending, sentParts, refused, bcOff,
                 bcOpen, inbox, port, air, peer, listener, ghosts>>

CmdSendfile ==
  /\ Goes /\ pending = 0 /\ sent + bulk + casts < MaxCommands
  /\ sent' = sent + 1
  /\ PumpFile(status, sent + 1, 0, 0)
  /\ UNCHANGED <<misses, stalls, status, refused, bcOff, bcOpen, inbox, air,
                 peer, listener, bulk, losses, casts, fades, overrun, unmarked>>

CmdBulk ==
  /\ Goes /\ sent + bulk + casts < MaxCommands
  /\ bulk' = bulk + 1
  /\ Submit(<<Pattern>>)
  /\ UNCHANGED <<misses, stalls, status, pending, sentParts, refused, bcOff,
                 bcOpen, inbox, air, peer, listener, sent, losses, casts, fades,
                 overrun, unmarked, handed>>

(* No guard keeps a second file from taking the place of one being fed.    *)
CmdBcastfile ==
  /\ Goes /\ sent + bulk + casts < MaxCommands
  /\ casts' = casts + 1
  /\ PumpBcfile(status, casts + 1, 0, TRUE)
  /\ UNCHANGED <<misses, stalls, status, pending, sentParts, refused, inbox,
                 port, peer, listener, sent, bulk, losses, fades, handed>>

Loop == Pings \/ Polls \/ Handles \/ NoCommand
Board == \/ Reports \/ Delivers \/ GivesUp
         \/ KeysGroup \/ KeysClosing \/ Starves \/ Forgets
Next == \/ Loop \/ CmdSendfile \/ CmdBulk \/ CmdBcastfile
        \/ Board

Spec == Init /\ [][Next]_vars
FairSpec == Spec /\ WF_vars(Loop) /\ WF_vars(Reports) /\ WF_vars(Delivers)
-----------------------------------------------------------------------------
(* A file the peer reports complete has every part once, at its place, and *)
(* unless a message was refused or given up on the way all parts belong to *)
(* one transfer (on_file_part).                                            *)
FileTrue ==
  \A i \in DOMAIN files:
    /\ Len(files[i]) = NParts
    /\ \A p \in 1 .. NParts: files[i][p].part = p - 1
    /\ refused = 0 /\ losses = 0 /\ RefusedLog \notin ToSet(events \o inbox) =>
         \A p \in 1 .. NParts: files[i][p].file = files[i][1].file

(* A transfer under way is handed over, or the console detaches.           *)
TransferEnds == pending # 0 ~> (pending = 0 \/ pc = "detached")

(* on_log: "we paced against the queue depth and the board still said no.  *)
(* Put the part back and let the next status retry it", so what the board  *)
(* accepts of a transfer is its parts in order.                            *)
PartsInOrder == handed # Disorder

(* What the peer stores as one broadcast file is in order and repeats      *)
(* nothing, whatever was lost.  It is of one file unless the start or the  *)
(* end that parts two files was lost or never keyed: nothing else resets   *)
(* what on_bcast collects.  It is the whole file when every frame was      *)
(* heard, no chunk overran the buffer and no other file took its place     *)
(* (on_bcast, pump_bcfile, bc_cmd, bc_open_group, bc_advance).             *)
Before(a, b) == a.cast < b.cast \/ (a.cast = b.cast /\ a.chunk < b.chunk)
BcastTrue ==
  \A i \in DOMAIN stored:
    LET f == stored[i].chunks
    IN /\ \A j, k \in DOMAIN f: j < k => Before(f[j], f[k])
       /\ ~stored[i].unmarked => \A k \in DOMAIN f: f[k].cast = f[1].cast
       /\ casts = 1 /\ fades = 0 /\ ~overrun => Len(f) = Chunks
=============================================================================
