------------------------------ MODULE BoardPort ------------------------------
(***************************************************************************)
(* A board as the programs of host/ see it through OfdmModem: a class      *)
(* queue that commands fill and the radio empties, a rung that exchanges   *)
(* move, and the events on their way to the host.  Everything here is the  *)
(* firmware's and the cable's; the programs are in KissBridge and IpTunnel.*)
(***************************************************************************)
EXTENDS Integers, Sequences, FiniteSets

CONSTANTS
  QueueLimit,   \* frames a class queue holds
  MaxReports,   \* reports that may wait for the host to read them
  MaxMoves,     \* bound: changes of the rung
  MaxStalls     \* bound: writes that time out

BoardAssumption ==
  {QueueLimit, MaxReports, MaxMoves, MaxStalls} \subseteq Nat

VARIABLES
  queue,        \* frames of our class on the board, not yet keyed
  taken,        \* history: the frames the board accepted, in order
  probing,      \* the one-byte probe waits for the radio
  rungNow,      \* 0: nothing long fits, 1: every frame fits
  events,       \* staged for the host, oldest first
  moves, stalls

board == <<queue, taken, probing, rungNow, events, moves, stalls>>

Status(depth, r) == [kind |-> "status", depth |-> depth, rung |-> r]
RefusedLog == [kind |-> "refused", depth |-> 0, rung |-> 0]
Among(s, kind) == {i \in DOMAIN s: s[i].kind = kind}

BoardInit ==
  /\ queue = <<>> /\ taken = <<>> /\ probing = FALSE
  /\ rungNow = 0 /\ events = <<>> /\ moves = 0 /\ stalls = 0

(* A write that raises USBTimeoutError leaves nothing on the board.         *)
WriteStalls ==
  /\ stalls < MaxStalls
  /\ stalls' = stalls + 1
  /\ UNCHANGED <<queue, taken, probing, events>>

Accept(frame) ==
  /\ IF Len(queue) < QueueLimit
     THEN /\ queue' = Append(queue, frame)
          /\ taken' = Append(taken, frame)
          /\ UNCHANGED events
     ELSE /\ events' = Append(events, RefusedLog)
          /\ UNCHANGED <<queue, taken>>
  /\ UNCHANGED <<probing, stalls>>

AcceptProbe ==
  /\ IF Len(queue) < QueueLimit
     THEN probing' = TRUE /\ UNCHANGED events
     ELSE events' = Append(events, RefusedLog) /\ UNCHANGED probing
  /\ UNCHANGED <<queue, taken, stalls>>

(* An exchange moves the ladder: up when it was answered, down when not.   *)
Exchange(r) ==
  /\ r # rungNow => moves < MaxMoves
  /\ rungNow' = r
  /\ moves' = moves + (IF r # rungNow THEN 1 ELSE 0)

Keys ==
  /\ queue # <<>>
  /\ queue' = Tail(queue)
  /\ \E r \in {0, 1}: Exchange(r)
  /\ UNCHANGED <<taken, probing, events, stalls>>

ProbeKeys ==
  /\ probing
  /\ probing' = FALSE
  /\ \E r \in {0, 1}: Exchange(r)
  /\ UNCHANGED <<queue, taken, events, stalls>>

(* An idle station decays.                                                 *)
Decays ==
  /\ rungNow = 1 /\ moves < MaxMoves
  /\ rungNow' = 0
  /\ moves' = moves + 1
  /\ UNCHANGED <<queue, taken, probing, events, stalls>>

Reporting ==
  /\ Cardinality(Among(events, "status")) < MaxReports
  /\ events' = Append(events, Status(Len(queue), rungNow))
  /\ UNCHANGED <<queue, taken, probing, rungNow, moves, stalls>>

BoardStep == Keys \/ ProbeKeys \/ Decays \/ Reporting
=============================================================================
