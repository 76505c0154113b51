------------------------------ MODULE IpTunnel ------------------------------
(***************************************************************************)
(* The tunnel of host/ip_tun.py beside the bridge it borrows its rules     *)
(* from: one of the two programs claims the board.  The tunnel holds       *)
(* nothing.  While the board carries enough it leaves the packets in the   *)
(* kernel's queue, and a packet that cannot go is dropped.  A turn of its  *)
(* loop: perhaps one packet, then the events, then a probe, then the depth *)
(* of the interface queue for the rung.                                    *)
(***************************************************************************)
EXTENDS KissBridge

CONSTANT DepthOf   \* interface queue depth for a rung (wanted_qlen)

TunnelAssumption == DepthOf \in [{-1, 0, 1} -> Nat \ {0}]

VARIABLES
  program,      \* bridge or tunnel: who claimed the board
  stuck,        \* the last drop was the ladder's
  qlenWanted, qlen

tunnel == <<stuck, qlenWanted, qlen>>
bridgeOnly == <<holding, held, keep, needRung, resume>>
allvars == <<vars, program, tunnel>>

HostInit ==
  /\ Init
  /\ program \in {"bridge", "tunnel"}
  /\ program = "tunnel" => ~holding
  /\ stuck = FALSE /\ qlenWanted = 0 /\ qlen = 2

-----------------------------------------------------------------------------
WantsRead == ~BoardFull

(* on_packet.  The test of the board repeats that of wants_read.           *)
OnPacket(packet) ==
  CASE BoardFull -> /\ refused' = refused + 1
                    /\ stuck' = FALSE
                    /\ NoBoard /\ UNCHANGED inflight
    [] ~BoardFull /\ ~FitsAir(packet.size) ->
                    /\ refused' = refused + 1
                    /\ stuck' = TRUE
                    /\ NoBoard /\ UNCHANGED inflight
    [] OTHER -> Transmit(packet) /\ UNCHANGED stuck

ReadsPacket ==
  /\ WantsRead /\ offered < MaxFrames
  /\ offered' = offered + 1
  /\ \E size \in {Short, Long}: OnPacket([id |-> offered + 1, size |-> size])

(* wants_read keeps the descriptor out of the select; a full board also    *)
(* forgets that the ladder was the obstacle.                               *)
ReadsNothing ==
  /\ stuck' = (stuck /\ WantsRead)
  /\ NoBoard /\ UNCHANGED <<inflight, refused, offered>>

TunReads ==
  /\ pc = "host"
  /\ pc' = "events"
  /\ ReadsPacket \/ ReadsNothing
  /\ UNCHANGED <<rungNow, moves, bridgeOnly, status, inbox, probeDue, timers,
                 qlenWanted, qlen>>

TunPolls ==
  /\ pc = "events"
  /\ inbox' = events
  /\ events' = <<>>
  /\ pc' = IF events = <<>> THEN "probe" ELSE "pump"
  /\ UNCHANGED <<queue, taken, probing, rungNow, moves, stalls, bridgeOnly,
                 status, inflight, probeDue, timers, refused, offered, tunnel>>

OnStatus(ev) ==
  /\ status' = ev
  /\ inflight' = 0
  /\ qlenWanted' = IF ev.rung = status.rung THEN qlenWanted
                   ELSE DepthOf[ev.rung]

TunHandles ==
  /\ pc = "pump"
  /\ inbox' = Tail(inbox)
  /\ pc' = IF Len(inbox) = 1 THEN "probe" ELSE "pump"
  /\ IF Head(inbox).kind = "status"
     THEN OnStatus(Head(inbox))
     ELSE UNCHANGED <<status, inflight, qlenWanted>>      \* printed
  /\ UNCHANGED <<board, bridgeOnly, probeDue, timers, refused, offered,
                 stuck, qlen>>

TunProbes ==
  /\ pc = "probe"
  /\ pc' = "depth"
  /\ IF stuck /\ probeDue
     THEN /\ probeDue' = FALSE
          /\ WriteStalls \/ AcceptProbe
     ELSE NoBoard /\ UNCHANGED probeDue
  /\ UNCHANGED <<rungNow, moves, bridgeOnly, status, inflight, inbox, timers,
                 refused, offered, tunnel>>

TunSetsDepth ==
  /\ pc = "depth"
  /\ pc' = "host"
  /\ qlen' = IF qlenWanted # 0 THEN qlenWanted ELSE qlen
  /\ UNCHANGED <<board, bridgeOnly, status, inflight, inbox, probeDue,
                 timers, refused, offered, stuck, qlenWanted>>

TunLoop == TunReads \/ TunPolls \/ TunHandles \/ TunProbes \/ TunSetsDepth

HostNext ==
  /\ UNCHANGED program
  /\ \/ program = "bridge" /\ Next /\ UNCHANGED tunnel
     \/ /\ program = "tunnel"
        /\ \/ TunLoop
           \/ /\ ProbeTimer \/ (BoardStep /\ UNCHANGED <<others, holding>>)
              /\ UNCHANGED tunnel

HostSpec == HostInit /\ [][HostNext]_allvars

(* Each program keeps turning; its frames do age.                          *)
HostFairness ==
  /\ WF_allvars(program = "bridge" /\ Loop /\ UNCHANGED <<program, tunnel>>)
  /\ WF_allvars(program = "bridge" /\ Deadline /\ UNCHANGED <<program, tunnel>>)
  /\ WF_allvars(program = "tunnel" /\ TunLoop /\ UNCHANGED program)

FairHostSpec == HostSpec /\ HostFairness
-----------------------------------------------------------------------------
(* The queue of the board never grows past the gate by more than what each *)
(* stale report can let through, those in the port and those read together *)
(* with them: the bridge that holds counts its own submits, and forgets    *)
(* them at a report (board_full).  The tunnel reads a packet only when     *)
(* there is room and none between two reports, so it is one over at most.  *)
GateKept ==
  /\ holding => Len(queue) <= QueueHigh * (IF MaxReports = 0 THEN 1
                                           ELSE 2 * MaxReports)
  /\ program = "tunnel" => Len(queue) <= QueueHigh + 1

(* Once the reported rung stays the same the interface queue has the depth *)
(* for that rung and keeps it (wanted_qlen, on_status and the loop).       *)
DepthFollows ==
  \A r \in {0, 1}: <>[](program = "tunnel" /\ status.rung = r) =>
                     <>[](qlen = DepthOf[r])
=============================================================================
