------------------------------ MODULE Station ------------------------------
(***************************************************************************)
(* Two stations with everything StopAndWait leaves out: the burst          *)
(* extension (a window of fragments of one bulk message, then one bitmap   *)
(* acknowledgment) and the capability handshake (cport/src/station.c).     *)
(*                                                                         *)
(* The fragments of a window are sent as separate frames (burst_stream =   *)
(* 0, the default).  A rung is a class of rungs: what matters of it is the *)
(* fragment size it engages with and the largest fragment it may carry.    *)
(* What the controllers, the operator's knobs and the peer's record make   *)
(* of the rung and of the window is a choice within those limits.  Time is *)
(* abstracted as in StopAndWait; the pacing of probes and the ages of      *)
(* records are choices, made only where the code compares a time.          *)
(***************************************************************************)
EXTENDS Integers, Sequences, FiniteSets

CONSTANTS
  A, B, Messages, From, QosOf, Size, ChunkCaps, MaxMsgs, PoolSlots,
  DeliveredMax, MsgMax, None,   \* as in StopAndWait
  Rungs,         \* the classes of rungs the controllers may choose
  FragSize,      \* burst_frag_size_for_rung, in units; 0 below BURST_MIN_RUNG
  FragMax,       \* the largest fragment within BURST_FRAG_MAX_AIR_S
  BurstWindow,   \* burst_window: 0 or 1 switches bursts off
  MaxFrags,      \* BURST_MAX_FRAGS
  AsmMax,        \* ST_ASM_MAX, in units
  CapsStations,  \* the stations without caps_disabled
  CapsTries,     \* CAPS_TRIES
  Rare,          \* the rare events of the run: "push", "kick", "record",
                 \* "verdict", "collapse"
  RareMax        \* how many of them happen in it

ASSUME StationAssumption ==
  /\ A # B
  /\ None \notin Messages \cup Nat
  /\ From \in [Messages -> {A, B}]
  /\ QosOf \in [Messages -> 0..2]
  /\ Size \in [Messages -> Nat \ {0}]
  /\ ChunkCaps \subseteq Nat \ {0}
  /\ FragSize \in [Rungs -> Nat]
  /\ FragMax \in [Rungs -> Nat]
  /\ \A r \in Rungs : FragSize[r] <= FragMax[r]
  /\ {BurstWindow, MaxFrags, AsmMax, DeliveredMax, CapsTries} \subseteq Nat
  /\ CapsStations \subseteq {A, B}
  /\ RareMax \in Nat

VARIABLES
  queue, cur, pending, seq, last_rx_seq, reply_due, await, delivered_n, air,
  submitted, log, taken, accepted,   \* as in StopAndWait
  asm,      \* assembly: the reassembly buffers, None where never written
  asm_len,  \* assembly_len: units appended by the stop-and-wait path
  btx,      \* the burst being sent
  brx,      \* the burst being received, and remembered
  caps,     \* the capability handshake
  rare      \* rare events so far: bounds the runs, and nothing else

assembled ==
  [s \in {A, B} |-> [c \in {"prio", "bulk"} |->
     SubSeq(asm[s][c], 1, asm_len[s][c])]]
SW == INSTANCE StopAndWait WITH assembly <- assembled

Station == {A, B}
Peer(s) == SW!Peer(s)
BULK == SW!QOS_BULK

msgVars == <<queue, cur, pending, seq>>
inVars == <<last_rx_seq, asm, asm_len, delivered_n, log, accepted>>
vars == <<msgVars, inVars, reply_due, await, air, submitted, taken, btx, brx,
          caps, rare>>

(* burst_disengage: everything goes but the transfer id. *)
Disengaged(id) ==
  [active |-> FALSE, id |-> id, n |-> 0, frag_size |-> 0, last_len |-> 0,
   win |-> 0, window_left |-> 0, cursor |-> 0, acked |-> {}, sent |-> {}]

NoTransfer ==
  [active |-> FALSE, id |-> 0, n |-> 0, frag_size |-> 0, last_len |-> 0,
   have |-> {}, ack_due |-> FALSE, done |-> FALSE]

(* paced: caps_next_t was set, so the next probe may have to wait. *)
Stranger ==
  [valid |-> FALSE, legacy |-> FALSE, tries |-> 0, paced |-> FALSE,
   reply_due |-> FALSE, kick |-> FALSE, inflight |-> FALSE, sent |-> FALSE,
   seq |-> 0, confirmed |-> FALSE]

Init ==
  /\ queue = [s \in Station |-> [q \in SW!Class |-> <<>>]]
  /\ cur = [s \in Station |-> [c \in SW!Stream |-> SW!Nothing]]
  /\ pending = [s \in Station |-> SW!NoFragment]
  /\ seq = [s \in Station |-> 0]
  /\ last_rx_seq = [s \in Station |-> -1]
  /\ reply_due = [s \in Station |-> FALSE]
  /\ await = [s \in Station |-> FALSE]
  /\ delivered_n = [s \in Station |-> 0]
  /\ air = None
  /\ submitted = [s \in Station |-> [q \in SW!Class |-> <<>>]]
  /\ log = [s \in Station |-> [c \in SW!Stream |-> <<>>]]
  /\ taken = [s \in Station |-> <<>>]
  /\ accepted = [s \in Station |-> <<>>]
  /\ asm = [s \in Station |-> [c \in SW!Stream |-> [i \in 1..AsmMax |-> None]]]
  /\ asm_len = [s \in Station |-> [c \in SW!Stream |-> 0]]
  /\ btx = [s \in Station |-> Disengaged(0)]
  /\ brx = [s \in Station |-> NoTransfer]
  /\ caps = [s \in Station |-> Stranger]
  /\ rare = 0

Happens(event) == event \in Rare /\ rare < RareMax /\ rare' = rare + 1

-----------------------------------------------------------------------------
(* The host: submissions and draining as before; a configuration change    *)
(* pushes the record to a peer that is known (usb_modem), a held broadcast *)
(* asks for a probe (bc_cmd, bc_poll_link).                                *)
Submit(s, m) ==
  /\ UNCHANGED <<asm, asm_len, btx, brx, caps, rare>>
  /\ SW!Submit(s, m)

Drain(s) ==
  /\ delivered_n[s] > 0
  /\ delivered_n' = [delivered_n EXCEPT ![s] = 0]
  /\ UNCHANGED <<msgVars, last_rx_seq, asm, asm_len, log, accepted, reply_due,
                 await, air, submitted, taken, btx, brx, caps, rare>>

PushCaps(s) ==
  /\ Happens("push")
  /\ caps[s].valid
  /\ caps' = [caps EXCEPT ![s].reply_due = TRUE]
  /\ UNCHANGED <<msgVars, inVars, reply_due, await, air, submitted, taken,
                 btx, brx>>

KickCaps(s) ==
  /\ Happens("kick")
  /\ ~caps[s].valid /\ ~caps[s].legacy
  /\ caps' = [caps EXCEPT ![s].kick = TRUE]
  /\ UNCHANGED <<msgVars, inVars, reply_due, await, air, submitted, taken,
                 btx, brx>>

-----------------------------------------------------------------------------
owes_ack(s) == SW!owes_ack(s) \/ brx[s].ack_due
has_traffic(s) == SW!has_traffic(s) \/ btx[s].active
priority_waiting(s) ==
  \/ cur[s]["prio"] # SW!Nothing
  \/ queue[s][SW!QOS_CONTROL] # <<>>
  \/ queue[s][SW!QOS_INTERACTIVE] # <<>>

(* The bitmap acknowledgment: of a transfer, not of a sequence number. *)
SendBurstAck(s) ==
  /\ brx[s].ack_due
  /\ air' = [to |-> Peer(s), kind |-> "burst_ack", seq |-> seq[s],
             ack |-> brx[s].id, have |-> brx[s].have]
  /\ brx' = [brx EXCEPT ![s].ack_due = FALSE]
  /\ await' = [await EXCEPT ![s] = FALSE]
  /\ reply_due' = [reply_due EXCEPT ![s] = FALSE]
  /\ UNCHANGED <<msgVars, taken, btx, caps, rare>>

-----------------------------------------------------------------------------
(* Mutant of CapsBusy: a probe may come between a fragment and its         *)
(* retransmission.                                                         *)
CapsBusyNoFragment(s) == btx[s].active \/ caps[s].inflight
CapsBusy(s) == btx[s].active \/ pending[s].active \/ caps[s].inflight

(* caps_probe_wanted, with the record's age and the pacing given: the      *)
(* verdict, and what asking did to the handshake.                          *)
caps_probe_wanted(s, stale, expired) ==
  LET c == caps[s]
      d == IF c.legacy THEN [c EXCEPT !.legacy = FALSE, !.tries = 0] ELSE c
      reason == queue[s][BULK] # <<>> \/ cur[s]["bulk"] # SW!Nothing \/ c.kick
      asked == ~(c.valid /\ ~stale) /\ ~(c.legacy /\ ~expired)
      ready == asked /\ reason /\ ~CapsBusy(s) /\ expired
      gives_up == ready /\ d.tries >= CapsTries
  IN  [wanted |-> ready /\ ~gives_up,
       caps |-> CASE ~asked -> c
                  [] gives_up -> [d EXCEPT !.legacy = TRUE, !.paced = TRUE]
                  [] OTHER -> d]

(* What one poll may make of the handshake.  A record or a verdict that    *)
(* has grown old is a rare event.                                          *)
Probes(s) ==
  LET c == caps[s]
      old(event) == event \in Rare /\ rare < RareMax
      ages == IF c.valid /\ old("record") THEN BOOLEAN ELSE {FALSE}
      waits == CASE ~c.paced -> {TRUE}
                 [] c.paced /\ c.legacy /\ ~old("verdict") -> {FALSE}
                 [] OTHER -> BOOLEAN
      spent(stale, expired) == (c.valid /\ stale) \/ (c.legacy /\ expired)
      as_is(wanted) == [caps |-> c, wanted |-> wanted, rare |-> rare]
      probe(stale, expired) ==
        LET p == caps_probe_wanted(s, stale, expired)
        IN  [caps |-> p.caps, wanted |-> p.wanted,
             rare |-> IF spent(stale, expired) THEN rare + 1 ELSE rare]
  IN  CASE s \notin CapsStations -> {as_is(FALSE)}
        [] s \in CapsStations /\ c.reply_due -> {as_is(TRUE)}
        [] OTHER -> {probe(stale, expired) : stale \in ages, expired \in waits}

(* Mutant of NextSeq: the two bits are forgotten. *)
NextSeqUnwrapped(s) == seq[s] + 1
NextSeq(s) == (seq[s] + 1) % 4

(* The handshake once a CAPS frame numbered n has gone out.                *)
Told(c, n) ==
  [c EXCEPT !.reply_due = FALSE, !.kick = FALSE, !.sent = TRUE,
            !.inflight = TRUE, !.seq = n, !.paced = @ \/ ~c.reply_due]

(* Leg 2 when it is owed, else leg 1: a CAPS frame takes a sequence number *)
(* of its own and is always answered.                                      *)
SendCaps(s) ==
  /\ ~brx[s].ack_due
  /\ \E p \in Probes(s) :
       /\ p.wanted
       /\ seq' = [seq EXCEPT ![s] = NextSeq(s)]
       /\ air' = [to |-> Peer(s), kind |-> "caps", seq |-> NextSeq(s),
                  ack |-> SW!AckField(s), reply |-> p.caps.reply_due]
       /\ caps' = [caps EXCEPT ![s] = Told(p.caps, NextSeq(s))]
       /\ rare' = p.rare
  /\ await' = [await EXCEPT ![s] = TRUE]
  /\ reply_due' = [reply_due EXCEPT ![s] = FALSE]
  /\ UNCHANGED <<queue, cur, pending, taken, btx, brx>>

-----------------------------------------------------------------------------
(* Fragments of the burst, by index from zero: those neither acknowledged  *)
(* nor sent in this window, and the next of them from the cursor on.       *)
Candidates(b) == {i \in 0..b.n - 1 : i \notin b.acked \cup b.sent}
Candidate(b) ==
  LET away(i) == (i + b.n - b.cursor) % b.n
  IN  CHOOSE i \in Candidates(b) : \A j \in Candidates(b) : away(i) <= away(j)
FragLen(b, i) == IF i = b.n - 1 THEN b.last_len ELSE b.frag_size

(* Mutant of Asks: a window that has run out of fragments does not ask. *)
AsksAtWindowEnd(b) == b.window_left = 1
Asks(b) == b.window_left = 1 \/ Cardinality(Candidates(b)) = 1

(* Mutant of MayEngage: bursts are never switched off. *)
MayEngageAlways(s, r) ==
  /\ ~btx[s].active /\ ~pending[s].active /\ ~priority_waiting(s)
  /\ FragSize[r] > 0
  /\ SW!OpenedCur(s)["bulk"] # SW!Nothing

(* A burst engages for bulk alone, at a rung fast enough. *)
MayEngage(s, r) ==
  /\ BurstWindow >= 2
  /\ ~btx[s].active /\ ~pending[s].active /\ ~priority_waiting(s)
  /\ FragSize[r] > 0
  /\ SW!OpenedCur(s)["bulk"] # SW!Nothing

(* burst_try_engage: the bursts that may come of it, one for each window   *)
(* the limits of the moment allow.  A message of too many fragments is     *)
(* left to the stop-and-wait path.                                         *)
Engaged(s, r) ==
  LET len == Size[SW!OpenedCur(s)["bulk"].msg]
      fs == FragSize[r]
      n == (len + fs - 1) \div fs
      widest == IF n < BurstWindow THEN n ELSE BurstWindow
  IN  {[active |-> TRUE, id |-> (btx[s].id + 1) % 4, n |-> n,
        frag_size |-> fs, last_len |-> len - (n - 1) * fs, win |-> w,
        window_left |-> w, cursor |-> 0, acked |-> {}, sent |-> {}] :
       w \in IF n > MaxFrags THEN {} ELSE 1..widest}
BurstAt(s, r) ==
  IF MayEngage(s, r) /\ Engaged(s, r) # {} THEN Engaged(s, r) ELSE {btx[s]}

Sending(b) == b.active /\ b.window_left > 0 /\ Candidates(b) # {}
TooLong(b, r) == FragLen(b, Candidate(b)) > FragMax[r]

(* One fragment of the burst; the last of the window, or of the message,   *)
(* asks for the acknowledgment and only that one arms the reply timer.     *)
SendBurstFrag(s, r, b) ==
  LET i == Candidate(b)
      asks == Asks(b)
      open == IF btx[s].active THEN cur[s] ELSE SW!OpenedCur(s)
  IN  /\ Sending(b) /\ ~TooLong(b, r)
      /\ open["bulk"] # SW!Nothing
      /\ air' = [to |-> Peer(s), kind |-> "burst", id |-> b.id,
                 ack |-> SW!AckField(s), idx |-> i, n |-> b.n,
                 frag_size |-> b.frag_size, ack_req |-> asks,
                 chunk |-> SW!Units(open["bulk"].msg, i * b.frag_size,
                                    FragLen(b, i))]
      /\ btx' = [btx EXCEPT ![s] =
                   [b EXCEPT !.cursor = i + 1, !.sent = @ \cup {i},
                             !.window_left = IF asks THEN 0 ELSE @ - 1]]
      /\ cur' = [cur EXCEPT ![s] = open]
      /\ queue' = [queue EXCEPT ![s] =
                     IF btx[s].active THEN @ ELSE SW!OpenedQueue(s)]
      /\ await' = [await EXCEPT ![s] = asks]
      /\ reply_due' = [reply_due EXCEPT ![s] = FALSE]
      /\ UNCHANGED <<pending, seq, taken>>

(* The message was released under the burst: it is dropped. *)
DropBurst(s, r, b) ==
  /\ Sending(b) /\ ~TooLong(b, r)
  /\ btx[s].active /\ cur[s]["bulk"] = SW!Nothing
  /\ btx' = [btx EXCEPT ![s] = Disengaged(b.id)]
  /\ UNCHANGED <<msgVars, await, reply_due, air, taken>>

(* The rung has collapsed under the transfer: the burst is dropped and     *)
(* the stop-and-wait path carries the message, from its start.             *)
Collapsed(b, r) == Sending(b) /\ TooLong(b, r)
Refragged(b, r) == IF Collapsed(b, r) THEN Disengaged(b.id) ELSE b

(* An engaged burst owns the bulk message, unless something else is to be  *)
(* said anyway.                                                            *)
Owned(s, b) == b.active /\ ~owes_ack(s) /\ ~priority_waiting(s)

(* The stop-and-wait path: what it sends, or a poll that sends nothing.    *)
SendLegacy(s, r, b) ==
  LET kept == Refragged(b, r)
  IN  /\ Sending(b) => TooLong(b, r)
      /\ btx' = [btx EXCEPT ![s] = kept]
      /\ \/ /\ ~Owned(s, kept)
            /\ SW!SendPending(s) \/ SW!SendNew(s) \/ SW!SendAck(s)
            /\ reply_due' = [reply_due EXCEPT ![s] = FALSE]
         \/ /\ Owned(s, kept) \/ (~SW!has_traffic(s) /\ ~owes_ack(s))
            /\ UNCHANGED <<msgVars, await, reply_due, air, taken>>

SendMessage(s) ==
  /\ ~brx[s].ack_due
  /\ \E p \in Probes(s), r \in Rungs : \E b \in BurstAt(s, r) :
       /\ ~p.wanted
       /\ caps' = [caps EXCEPT ![s] = [p.caps EXCEPT !.kick = FALSE]]
       /\ IF Collapsed(b, r) THEN p.rare = rare /\ Happens("collapse")
          ELSE rare' = p.rare
       /\ \/ SendBurstFrag(s, r, b)
          \/ DropBurst(s, r, b)
          \/ SendLegacy(s, r, b)
  /\ UNCHANGED brx

(* station_poll_tx on an idle channel with no reply outstanding, and       *)
(* station_on_tx_end when a frame went out.                                *)
Poll(s) ==
  /\ air = None
  /\ ~await[s]
  /\ owes_ack(s) \/ has_traffic(s) \/ caps[s].kick \/ caps[s].reply_due
  /\ SendBurstAck(s) \/ SendCaps(s) \/ SendMessage(s)
  /\ UNCHANGED <<inVars, submitted>>

(* The window a timeout opens: one fragment, of all that are missing.      *)
(* Mutant: what was sent in the lost window still counts as sent.          *)
ProbeOfRest(b) == [b EXCEPT !.window_left = 1]
Probe(b) == [b EXCEPT !.window_left = 1, !.sent = {}]

(* station_poll_tx past await_until: a CAPS frame that was not answered is *)
(* counted, a burst is probed with one fragment.                           *)
Timeout(s) ==
  LET c == caps[s]
      tried == IF c.tries < CapsTries THEN c.tries + 1 ELSE c.tries
  IN  /\ await[s]
      /\ await' = [await EXCEPT ![s] = FALSE]
      /\ caps' = [caps EXCEPT ![s] =
                    IF c.inflight
                    THEN [c EXCEPT !.inflight = FALSE, !.tries = tried,
                                   !.paced = TRUE]
                    ELSE c]
      /\ btx' = [btx EXCEPT ![s] =
                   IF @.active THEN Probe(@) ELSE @]
      /\ UNCHANGED <<msgVars, inVars, reply_due, air, submitted, taken, brx,
                     rare>>

-----------------------------------------------------------------------------
(* Mutant of Heard: an answer other than a CAPS frame does not end the     *)
(* wait for one.                                                           *)
HeardForgetful(s, f) ==
  [caps[s] EXCEPT !.confirmed = @ \/ (caps[s].sent /\ f.ack = caps[s].seq)]

(* station_on_decoded.  Whatever came is an answer: it retires the         *)
(* outstanding fragment its ack names, ends the wait for a CAPS reply, and *)
(* confirms the record when its ack names the frame that carried it.       *)
Heard(s, f) ==
  LET c == caps[s]
  IN  [c EXCEPT !.inflight = FALSE,
                !.confirmed = @ \/ (c.sent /\ f.ack = c.seq)]

RetirePending(s, f) ==
  pending' = [pending EXCEPT ![s] = IF SW!Retires(s, f) THEN SW!NoFragment ELSE @]

(* A capability record is stored and, unless it answers ours, owed one.    *)
Stored(c, f) ==
  [c EXCEPT !.valid = TRUE, !.legacy = FALSE, !.tries = 0,
            !.confirmed = @ \/ f.reply, !.reply_due = @ \/ ~f.reply]

ReceiveCaps(s, f) ==
  /\ f.kind = "caps" /\ s \in CapsStations
  /\ SW!Retire(s, f)
  /\ caps' = [caps EXCEPT ![s] = Stored(Heard(s, f), f)]
  /\ last_rx_seq' = [last_rx_seq EXCEPT ![s] = f.seq]
  /\ reply_due' = [reply_due EXCEPT ![s] = TRUE]
  /\ UNCHANGED <<asm, asm_len, delivered_n, log, accepted, btx, brx>>

(* burst_all_acked.  Mutant: the last fragment stands for all. *)
AllAckedByLast(b, acked) == b.n - 1 \in acked
AllAcked(b, acked) == 0..b.n - 1 \subseteq acked

(* The bitmap of the transfer being sent: either everything has arrived    *)
(* and the message is released, or the next window opens.                  *)
ReceiveBurstAck(s, f) ==
  LET b == btx[s]
      acked == b.acked \cup f.have
      mine == b.active /\ f.ack = b.id
      all == AllAcked(b, acked)
      after == SW!RetiredCur(s, f)
  IN  /\ f.kind = "burst_ack"
      /\ RetirePending(s, f)
      /\ btx' = [btx EXCEPT ![s] =
                   CASE mine /\ all -> Disengaged(b.id)
                     [] mine /\ ~all -> [b EXCEPT !.acked = acked, !.sent = {},
                                                 !.window_left = b.win]
                     [] OTHER -> b]
      /\ cur' = [cur EXCEPT ![s] =
                   IF mine /\ all THEN [after EXCEPT !["bulk"] = SW!Nothing]
                   ELSE after]
      /\ caps' = [caps EXCEPT ![s] = Heard(s, f)]
      /\ UNCHANGED <<inVars, reply_due, brx>>

-----------------------------------------------------------------------------
HasRoom(s, len) ==
  /\ delivered_n[s] < DeliveredMax
  /\ len <= MsgMax
  /\ SW!outbound(s, cur'[s]) + delivered_n[s] < PoolSlots

Overlay(buffer, at, units) ==
  [i \in 1..AsmMax |->
     IF i \in at + 1..at + Len(units) THEN units[i - at] ELSE buffer[i]]

(* The transfer a fragment belongs to: any difference starts a new one.    *)
(* Mutant: the new one keeps the bits of the old.                          *)
Same(b, f) == b.active /\ b.id = f.id /\ b.n = f.n /\ b.frag_size = f.frag_size
TransferKeepsBits(s, f) ==
  IF Same(brx[s], f) THEN brx[s]
  ELSE [NoTransfer EXCEPT !.active = TRUE, !.id = f.id, !.n = f.n,
                          !.frag_size = f.frag_size, !.have = brx[s].have]
Transfer(s, f) ==
  IF Same(brx[s], f) THEN brx[s]
  ELSE [NoTransfer EXCEPT !.active = TRUE, !.id = f.id, !.n = f.n,
                          !.frag_size = f.frag_size]

(* What is held of a transfer after a fragment that completed it was       *)
(* refused.  Mutant: the fragment is not given back.                       *)
GivenBackNever(have, f) == have
GivenBack(have, f) == have \ {f.idx}

(* A fragment is placed by its index.  A transfer that is complete is      *)
(* stored once; when there is no room the fragment is given back, so that  *)
(* the bitmap stays true and the sender tries again.                       *)
ReceiveBurst(s, f) ==
  LET at == f.idx * f.frag_size
      b == Transfer(s, f)
      fits == at + Len(f.chunk) <= AsmMax
      have == IF fits THEN b.have \cup {f.idx} ELSE b.have
      last_len == IF fits /\ f.idx = f.n - 1 THEN Len(f.chunk) ELSE b.last_len
      buffer == IF fits THEN Overlay(asm[s]["bulk"], at, f.chunk)
                ELSE asm[s]["bulk"]
      len == (f.n - 1) * f.frag_size + last_len
      complete == ~b.done /\ last_len > 0 /\ have = 0..f.n - 1
      stored == complete /\ HasRoom(s, len)
      refused == complete /\ ~HasRoom(s, len)
  IN  /\ f.kind = "burst"
      /\ SW!Retire(s, f)
      /\ asm' = [asm EXCEPT ![s]["bulk"] = buffer]
      /\ brx' = [brx EXCEPT ![s] =
                   [b EXCEPT !.have = IF refused THEN GivenBack(have, f) ELSE have,
                             !.last_len = last_len,
                             !.ack_due = @ \/ f.ack_req \/ refused,
                             !.done = @ \/ stored]]
      /\ delivered_n' = [delivered_n EXCEPT ![s] = IF stored THEN @ + 1 ELSE @]
      /\ log' = [log EXCEPT ![s]["bulk"] =
                   IF stored
                   THEN Append(@, [units |-> SubSeq(buffer, 1, len),
                                   kept |-> TRUE])
                   ELSE @]
      /\ caps' = [caps EXCEPT ![s] = Heard(s, f)]
      /\ UNCHANGED <<last_rx_seq, asm_len, accepted, reply_due, btx>>

(* A new stop-and-wait fragment joins the buffer where the last one ended, *)
(* as far as the buffer reaches; a last fragment completes the message.    *)
Accept(s, f) ==
  LET c == f.stream
      room == AsmMax - asm_len[s][c]
      units == IF Len(f.chunk) <= room THEN f.chunk ELSE SubSeq(f.chunk, 1, room)
      len == asm_len[s][c] + Len(units)
      buffer == Overlay(asm[s][c], asm_len[s][c], units)
      kept == HasRoom(s, len)
  IN  /\ asm' = [asm EXCEPT ![s][c] = buffer]
      /\ asm_len' = [asm_len EXCEPT ![s][c] = IF f.last THEN 0 ELSE len]
      /\ delivered_n' = [delivered_n EXCEPT ![s] =
                           IF f.last /\ kept THEN @ + 1 ELSE @]
      /\ log' = [log EXCEPT ![s][c] =
                   IF f.last
                   THEN Append(@, [units |-> SubSeq(buffer, 1, len),
                                   kept |-> kept])
                   ELSE @]
      /\ accepted' = [accepted EXCEPT ![s] =
                        Append(@, [active |-> TRUE, seq |-> f.seq, stream |-> c,
                                   chunk |-> f.chunk, last |-> f.last])]

ReceiveData(s, f) ==
  /\ f.kind = "data"
  /\ SW!Retire(s, f)
  /\ IF f.seq # last_rx_seq[s] THEN Accept(s, f)
     ELSE UNCHANGED <<asm, asm_len, delivered_n, log, accepted>>
  /\ last_rx_seq' = [last_rx_seq EXCEPT ![s] = f.seq]
  /\ reply_due' = [reply_due EXCEPT ![s] = TRUE]
  /\ caps' = [caps EXCEPT ![s] = Heard(s, f)]
  /\ UNCHANGED <<btx, brx>>

(* A station that predates the handshake reads a CAPS frame as no data.    *)
ReceiveNoData(s, f) ==
  /\ \/ f.kind = "nodata"
     \/ f.kind = "caps" /\ s \notin CapsStations
  /\ SW!Retire(s, f)
  /\ caps' = [caps EXCEPT ![s] = Heard(s, f)]
  /\ UNCHANGED <<inVars, reply_due, btx, brx>>

Receive(s) ==
  /\ air # None
  /\ air.to = s
  /\ \/ ReceiveCaps(s, air)
     \/ ReceiveBurstAck(s, air)
     \/ ReceiveBurst(s, air)
     \/ ReceiveData(s, air)
     \/ ReceiveNoData(s, air)
  /\ await' = [await EXCEPT ![s] = FALSE]
  /\ air' = None
  /\ UNCHANGED <<queue, seq, submitted, taken, rare>>

Lose ==
  /\ air # None
  /\ air' = None
  /\ UNCHANGED <<msgVars, inVars, reply_due, await, submitted, taken, btx, brx,
                 caps, rare>>

Next ==
  \/ \E s \in Station, m \in Messages : Submit(s, m)
  \/ \E s \in Station : Drain(s)
  \/ \E s \in Station : PushCaps(s)
  \/ \E s \in Station : KickCaps(s)
  \/ \E s \in Station : Poll(s)
  \/ \E s \in Station : Timeout(s)
  \/ \E s \in Station : Receive(s)
  \/ Lose

Spec == Init /\ [][Next]_vars

(* As in StopAndWait: polls and decodes keep happening, and not every      *)
(* frame to a station is lost.  The host reads the log at every tick of    *)
(* its own (usb_modem_tick), so a full log does not stay full.             *)
Fairness ==
  \A s \in Station : /\ SF_vars(Poll(s))
                     /\ SF_vars(Receive(s))
                     /\ WF_vars(Timeout(s))
                     /\ WF_vars(Drain(s))

FairSpec == Spec /\ Fairness

-----------------------------------------------------------------------------
Unit == Messages \X Nat
BurstTx ==
  [active : BOOLEAN, id : 0..3, n : 0..MaxFrags, frag_size : Nat,
   last_len : Nat, win : Nat, window_left : Nat, cursor : Nat,
   acked : SUBSET (0..MaxFrags - 1), sent : SUBSET (0..MaxFrags - 1)]
BurstRx ==
  [active : BOOLEAN, id : 0..3, n : 0..MaxFrags, frag_size : Nat,
   last_len : Nat, have : SUBSET (0..MaxFrags - 1), ack_due : BOOLEAN,
   done : BOOLEAN]
Handshake ==
  [valid : BOOLEAN, legacy : BOOLEAN, tries : 0..CapsTries, paced : BOOLEAN,
   reply_due : BOOLEAN, kick : BOOLEAN, inflight : BOOLEAN, sent : BOOLEAN,
   seq : 0..3, confirmed : BOOLEAN]

(* Type invariant: the bursts, the handshake, the buffers and the two-bit  *)
(* numbers of station_t; buffers and transfers stay within their arrays.   *)
TypeOK ==
  /\ asm \in [Station -> [SW!Stream -> [1..AsmMax -> Unit \cup {None}]]]
  /\ asm_len \in [Station -> [SW!Stream -> 0..AsmMax]]
  /\ btx \in [Station -> BurstTx]
  /\ brx \in [Station -> BurstRx]
  /\ caps \in [Station -> Handshake]
  /\ seq \in [Station -> 0..3]
  /\ last_rx_seq \in [Station -> -1..3]
  /\ delivered_n \in [Station -> 0..DeliveredMax]

(* An open window always has a fragment to send, so that it ends with the  *)
(* fragment that asks for the acknowledgment: the code's branch for an     *)
(* exhausted window is never taken.                                        *)
WindowHasCandidate ==
  \A s \in Station :
    btx[s].active /\ btx[s].window_left > 0 => Candidates(btx[s]) # {}

(* What the sender of a burst takes for acknowledged, the receiver holds:  *)
(* the bits of the bitmap and the bytes in the buffer.                     *)
BitmapTrue ==
  \A s \in Station :
    LET b == btx[s]
        held == asm[Peer(s)]["bulk"]
    IN  b.active =>
          \A i \in b.acked :
             /\ brx[Peer(s)].id = b.id
             /\ i \in brx[Peer(s)].have
             /\ \A k \in 1..FragLen(b, i) :
                  held[i * b.frag_size + k]
                    = <<cur[s]["bulk"].msg, i * b.frag_size + k>>

(* A bulk message leaves its sender only after the peer has stored it: a   *)
(* full log or store never makes an acknowledged message disappear.        *)
KeptBeforeReleased ==
  \A s \in Station :
    LET completed == log[Peer(s)]["bulk"]
        kept == {i \in 1..Len(completed) : completed[i].kept}
    IN  SW!gone[s][BULK] <= Cardinality(kept)

(* The promise to the hosts holds of the whole station: messages completed *)
(* whole, once, in order, and given up by the sender only then.            *)
ImplementsStreams == SW!Promise!Spec

(* Switched off, the extensions are inert: what station_poll_tx and        *)
(* station_on_decoded do is what StopAndWait says.                         *)
ImplementsStopAndWait == SW!Spec

(* The stop-and-wait fragments that a peer accepts are those that were     *)
(* cut, in order and once each, although CAPS frames take numbers between  *)
(* them and bitmap acknowledgments reuse the ack field for a transfer id.  *)
ExactlyOnce == SW!ExactlyOnce

(* Every message the host had accepted is delivered, by a burst or by the  *)
(* stop-and-wait path, or shows as dropped when the peer has no room.      *)
EventuallyDelivered == SW!EventuallyDelivered

(* Every message completed by station_on_decoded is one that was           *)
(* submitted, whole and with nothing in front of it or behind.             *)
Intact ==
  \A s \in Station, c \in SW!Stream : \A i \in 1..Len(log[s][c]) :
    \E m \in Messages : log[s][c][i].units = SW!Units(m, 0, Size[m])

(* While a CAPS frame is taken for unanswered its timer is armed: a frame  *)
(* forgotten in flight would hold back every later probe for ever.         *)
InflightAwaited == \A s \in Station : caps[s].inflight => await[s]

(* Once the hosts have nothing more to say, the channel falls silent: no   *)
(* acknowledgment is acknowledged and no probe repeated for ever.          *)
EventuallySilent == SW!EventuallySilent
=============================================================================
