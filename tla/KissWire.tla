------------------------------ MODULE KissWire ------------------------------
(***************************************************************************)
(* The host side of host/kiss_bridge.py: packet programs on TCP            *)
(* connections, KISS frames cut anyhow by the reads, and what comes off    *)
(* the air written to every one of them.  A descriptor is used again by    *)
(* the next connection; each connection has a decoder of its own.  In      *)
(* broadcast mode a frame arrives as a start, parts and an end.            *)
(***************************************************************************)
EXTENDS Integers, Sequences, FiniteSets, SequencesExt

CONSTANTS
  FEND, FESC, TFEND, TFESC, CMD_DATA,  \* the bytes of the framing
  Payloads,     \* frames the air brings
  Written,      \* what a program may write: litter, frames, and the rest of
                \* a frame it was writing when it went
  Fds,          \* descriptors, the lowest free one is taken
  MaxConns,     \* bound: connections
  MaxWork       \* bound: connections, those that write, and events off the air

(* CMD_DATA stands for every byte the framing gives no meaning.            *)
Byte == {FEND, FESC, TFEND, TFESC, CMD_DATA}
Distinct ==
  /\ FEND \notin {FESC, TFEND, TFESC, CMD_DATA}
  /\ FESC \notin {TFEND, TFESC, CMD_DATA}
  /\ TFEND \notin {TFESC, CMD_DATA} /\ TFESC # CMD_DATA

VARIABLES
  conn,        \* the connections there have been
  backlog,     \* those the listener has not accepted
  clients,     \* fd -> its connection and decoder, or NoClient
  todo,        \* descriptors select found readable, 0 for the listener
  at,          \* selecting, serving
  bc_buf,      \* the broadcast being put together, or Nothing
  air,         \* history: frames that came in whole, and the events sent
  broadcast    \* --mode broadcast (fixed at start)

wire == <<conn, backlog, clients, todo, at, bc_buf, air, broadcast>>

NoClient == [conn |-> 0]
Nothing == <<"none">>

-----------------------------------------------------------------------------
(* kiss_encode and KissDecoder.push.                                       *)
Stuffed(b) ==
  CASE b = FEND -> <<FESC, TFEND>>
    [] b = FESC -> <<FESC, TFESC>>
    [] OTHER -> <<b>>
kiss_encode(payload) ==
  <<FEND, CMD_DATA>> \o FlattenSeq([i \in DOMAIN payload |-> Stuffed(payload[i])])
    \o <<FEND>>

Encoded(frames) == FlattenSeq([i \in DOMAIN frames |-> kiss_encode(frames[i])])
WithType(frames) == [i \in DOMAIN frames |-> <<CMD_DATA>> \o frames[i]]

NewDecoder == [buf |-> <<>>, in_frame |-> FALSE, escape |-> FALSE, out |-> <<>>]
PushByte(d, b) ==
  CASE b = FEND ->
         [buf |-> <<>>, in_frame |-> TRUE, escape |-> FALSE,
          out |-> IF d.in_frame /\ d.buf # <<>> THEN Append(d.out, d.buf)
                  ELSE d.out]
    [] b # FEND /\ ~d.in_frame -> d
    [] b # FEND /\ d.in_frame /\ d.escape ->
         [d EXCEPT !.escape = FALSE,
                   !.buf = Append(@, CASE b = TFEND -> FEND
                                       [] b = TFESC -> FESC
                                       [] OTHER -> b)]
    [] b = FESC /\ d.in_frame /\ ~d.escape -> [d EXCEPT !.escape = TRUE]
    [] OTHER -> [d EXCEPT !.buf = Append(@, b)]
push(d, data) ==
  LET fed[n \in 0 .. Len(data)] ==
        IF n = 0 THEN d ELSE PushByte(fed[n - 1], data[n])
  IN fed[Len(data)]
Decoded(data) == push(NewDecoder, data).out

(* What a program writes before its first frame ends no frame, and what it *)
(* leaves unfinished has no FEND but the one it begins with.               *)
WireAssumption ==
  /\ Distinct
  /\ Payloads \subseteq Seq(Byte)
  /\ \A w \in Written:
       /\ w.litter \in Seq(Byte) /\ Decoded(Append(w.litter, FEND)) = <<>>
       /\ w.frames \in Seq(Seq(Byte))
       /\ w.rest \in Seq(Byte) /\ \A i \in 2 .. Len(w.rest): w.rest[i] # FEND
  /\ Fds \subseteq Nat \ {0} /\ IsFiniteSet(Fds)
  /\ {MaxConns, MaxWork} \subseteq Nat

-----------------------------------------------------------------------------
Init ==
  /\ conn = <<>> /\ backlog = <<>>
  /\ clients = [fd \in Fds |-> NoClient]
  /\ todo = <<>> /\ at = "selecting" /\ bc_buf = Nothing
  /\ broadcast \in BOOLEAN
  /\ air = [frames |-> <<>>, open |-> Nothing, events |-> 0]

(* A program connects and writes, and goes, perhaps in mid-frame.  When it *)
(* writes does not matter: the reads take the bytes in any pieces.         *)
Work ==
  Len(conn) + Cardinality({c \in DOMAIN conn: conn[c].writes}) + air.events
Connects ==
  /\ Len(conn) < MaxConns /\ Work < MaxWork
  /\ \E w \in Written:
       conn' = Append(conn,
         [up |-> TRUE, got |-> <<>>, told |-> <<>>, since |-> 0,
          writes |-> w.frames # <<>> \/ w.rest # <<>>,
          pipe |-> w.litter \o Encoded(w.frames) \o w.rest,
          wrote |-> WithType(w.frames)])
  /\ backlog' = Append(backlog, Len(conn) + 1)
  /\ UNCHANGED <<clients, todo, at, bc_buf, air, broadcast>>
Leaves ==
  \E c \in DOMAIN conn:
    /\ conn[c].up
    /\ conn' = [conn EXCEPT ![c].up = FALSE]
    /\ UNCHANGED <<backlog, clients, todo, at, bc_buf, air, broadcast>>

-----------------------------------------------------------------------------
(* run: the readable descriptors in the order they were attached, and the  *)
(* listener last.                                                          *)
Readable(fd) ==
  /\ clients[fd] # NoClient
  /\ LET c == conn[clients[fd].conn] IN c.pipe # <<>> \/ ~c.up
Attached(s) ==
  \A i, j \in DOMAIN s: i < j => clients[s[i]].conn < clients[s[j]].conn
Selects ==
  /\ at = "selecting" /\ todo = <<>>
  /\ at' = "serving"
  /\ LET ready == {fd \in Fds: Readable(fd)}
     IN \E s \in [1 .. Cardinality(ready) -> ready]:
          /\ Attached(s)
          /\ todo' = s \o (IF backlog # <<>> THEN <<0>> ELSE <<>>)
  /\ UNCHANGED <<conn, backlog, clients, bc_buf, air, broadcast>>

add_client(c) == [conn |-> c, dec |-> NewDecoder]
Accepts ==
  /\ at = "serving" /\ todo # <<>> /\ Head(todo) = 0
  /\ \E fd \in Fds:
       /\ clients[fd] = NoClient
       /\ \A x \in Fds: x < fd => clients[x] # NoClient
       /\ clients' = [clients EXCEPT ![fd] = add_client(Head(backlog))]
  /\ conn' = [conn EXCEPT ![Head(backlog)].since = Len(air.frames)]
  /\ backlog' = Tail(backlog)
  /\ todo' = Tail(todo)
  /\ UNCHANGED <<at, bc_buf, air, broadcast>>

(* recv takes what it likes of what is there; nothing at all is the end.   *)
Reads(fd) ==
  LET c == clients[fd].conn
      take(n) ==
        LET d == push(clients[fd].dec, SubSeq(conn[c].pipe, 1, n))
        IN /\ clients' = [clients EXCEPT ![fd].dec = [d EXCEPT !.out = <<>>]]
           /\ conn' = [conn EXCEPT ![c].pipe = SubSeq(@, n + 1, Len(@)),
                                   ![c].got = @ \o d.out]
  IN IF conn[c].pipe # <<>>
     THEN \E n \in 1 .. Len(conn[c].pipe): take(n)
     ELSE clients' = [clients EXCEPT ![fd] = NoClient] /\ UNCHANGED conn
Serves ==
  /\ at = "serving" /\ todo # <<>> /\ Head(todo) # 0
  /\ Reads(Head(todo))
  /\ todo' = Tail(todo)
  /\ UNCHANGED <<backlog, at, bc_buf, air, broadcast>>
-----------------------------------------------------------------------------
(* to_hosts: a frame goes to every client; one that cannot be written to   *)
(* is dropped and the others still get theirs.                             *)
to_hosts(frame) ==
  LET gone == {fd \in Fds: clients[fd] # NoClient /\ ~conn[clients[fd].conn].up}
      heard(lost) == {clients[fd].conn:
                        fd \in {x \in Fds: clients[x] # NoClient} \ lost}
  IN \E lost \in SUBSET gone:          \* a write after the end may succeed
       /\ clients' = [fd \in Fds |-> IF fd \in lost THEN NoClient ELSE clients[fd]]
       /\ conn' = [c \in DOMAIN conn |->
                     IF c \in heard(lost)
                     THEN [conn[c] EXCEPT !.told = @ \o kiss_encode(frame)]
                     ELSE conn[c]]

(* What pump_modem finds: a message (a link probe is too short to be a     *)
(* frame, and changes nothing),                                            *)
Message ==
  /\ ~broadcast /\ Work < MaxWork
  /\ \E p \in Payloads:
       /\ to_hosts(p)
       /\ air' = [air EXCEPT !.frames = Append(@, p), !.events = @ + 1]
  /\ UNCHANGED bc_buf

(* or the start, a part or the end of a broadcast; a new one may start     *)
(* before the last has ended, and the first may be heard from its middle.  *)
Starts ==
  /\ air' = [air EXCEPT !.open = <<>>, !.events = @ + 1]
  /\ bc_buf' = <<>>
  /\ UNCHANGED <<conn, clients>>
Parts ==
  \E p \in Payloads:
    /\ air' = [air EXCEPT !.open = IF @ = Nothing THEN @ ELSE @ \o p,
                          !.events = @ + 1]
    /\ bc_buf' = IF bc_buf = Nothing THEN bc_buf ELSE bc_buf \o p
    /\ UNCHANGED <<conn, clients>>
Ends ==
  /\ air' = [frames |-> IF air.open = Nothing THEN air.frames
                        ELSE Append(air.frames, air.open),
             open |-> Nothing, events |-> air.events + 1]
  /\ bc_buf' = Nothing
  /\ IF bc_buf = Nothing THEN UNCHANGED <<conn, clients>> ELSE to_hosts(bc_buf)
on_bcast == broadcast /\ Work < MaxWork /\ (Starts \/ Parts \/ Ends)

Pumps ==
  /\ at = "serving" /\ todo = <<>>
  /\ at' = "selecting"
  /\ Message \/ on_bcast \/ UNCHANGED <<conn, clients, air, bc_buf>>
  /\ UNCHANGED <<backlog, todo, broadcast>>

Next ==
  \/ Connects \/ Leaves
  \/ Selects \/ Accepts \/ Serves \/ Pumps
Spec == Init /\ [][Next]_wire

-----------------------------------------------------------------------------
(* What was decoded of a connection is what its program wrote, from the    *)
(* first frame and in order, and all of it once all was read, however the  *)
(* reads cut it, whatever came before the first frame, and whoever had the *)
(* descriptor before.                                                      *)
FromHostsTrue ==
  \A c \in DOMAIN conn:
    /\ IsPrefix(conn[c].got, conn[c].wrote)
    /\ conn[c].pipe = <<>> => conn[c].got = conn[c].wrote

(* A program that stays reads, of all that came in since it was accepted,  *)
(* every frame once and in order, whatever the others do.                  *)
ToHostsTrue ==
  \A fd \in Fds:
    clients[fd] # NoClient =>
      LET c == conn[clients[fd].conn]
      IN Decoded(c.told) =
           WithType(SubSeq(air.frames, c.since + 1, Len(air.frames)))
=============================================================================
