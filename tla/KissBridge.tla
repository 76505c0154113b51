----------------------------- MODULE KissBridge -----------------------------
(***************************************************************************)
(* The bridge of host/kiss_bridge.py: AX.25 frames of a packet-radio stack *)
(* go out as station messages, one turn of the program's loop at a time -- *)
(* what the stack wrote, what the board reported, what is held.  A frame   *)
(* too long for the rung, or for a board that carries enough, is held; a   *)
(* one-byte probe moves the ladder while a held frame needs it.  The board *)
(* works, reports and refuses between any two steps of the program.        *)
(***************************************************************************)
EXTENDS BoardPort

CONSTANTS
  MaxFrames,    \* bound: frames the stack writes
  QueueHigh,    \* frames the bridge wants on the board
  HoldMax,      \* frames it holds before it drops the oldest
  MaxProbes     \* bound: times the probe timer runs out

BridgeAssumption ==
  {MaxFrames, MaxProbes} \subseteq Nat /\ {QueueHigh, HoldMax} \subseteq Nat \ {0}

VARIABLES
  pc,           \* host, pump, flush
  holding,      \* --hold is positive (fixed at start)
  status,       \* the last report, or NoStatus
  inflight,     \* submits since that report
  held, keep,   \* waiting frames; those a flush has decided to keep
  needRung,     \* stuck_on_rung of the flush under way
  resume,       \* where the loop goes on after the flush
  inbox,        \* the events one call of events() has read
  probeDue,     \* next_probe has passed
  timers,       \* times it has
  refused,      \* frames reported as not sent
  offered       \* history: number of frames read from the stack

others == <<pc, status, inflight, held, keep, needRung, resume, inbox,
             probeDue, timers, refused, offered>>
vars == <<board, others, holding>>

NoStatus == [kind |-> "none", depth |-> 0, rung |-> -1]
Short == 1
Long == 2
Entry(frame) == [id |-> frame.id, size |-> frame.size, late |-> FALSE]
Frame(entry) == [id |-> entry.id, size |-> entry.size]

Init ==
  /\ BoardInit
  /\ holding \in BOOLEAN
  /\ pc = "host" /\ status = NoStatus /\ inflight = 0 /\ held = <<>>
  /\ keep = <<>> /\ needRung = FALSE /\ resume = "host" /\ inbox = <<>>
  /\ probeDue = TRUE /\ timers = 0 /\ refused = 0 /\ offered = 0

-----------------------------------------------------------------------------
(* An unknown rung counts as the lowest.                                   *)
FitsAir(size) == size = Short \/ status.rung = 1

BoardFullStale == status.depth >= QueueHigh  \* mutant: own submits forgotten
BoardFull == status.depth + inflight >= QueueHigh

Transmit(frame) ==
  \/ /\ WriteStalls
     /\ refused' = refused + 1
     /\ UNCHANGED inflight
  \/ /\ Accept(frame)
     /\ inflight' = inflight + 1
     /\ UNCHANGED refused

HoldFrame(frame) ==
  IF Len(held) >= HoldMax
  THEN held' = Append(Tail(held), Entry(frame)) /\ refused' = refused + 1
  ELSE held' = Append(held, Entry(frame)) /\ UNCHANGED refused

NoBoard == UNCHANGED <<queue, taken, probing, events, stalls>>

FromHost(frame) ==
  IF (BoardFull \/ ~FitsAir(frame.size)) /\ holding
  THEN HoldFrame(frame) /\ NoBoard /\ UNCHANGED inflight
  ELSE IF FitsAir(frame.size)
       THEN Transmit(frame) /\ UNCHANGED held
       ELSE /\ refused' = refused + 1
            /\ NoBoard /\ UNCHANGED <<inflight, held>>

(* A data frame of the stack.  With nothing reported yet and the gate shut *)
(* the message the bridge prints reads status['queues']: see Crashes.      *)
Reads ==
  /\ pc = "host" /\ offered < MaxFrames
  /\ ~(BoardFull /\ holding /\ status = NoStatus)
  /\ \E size \in {Short, Long}:
       LET frame == [id |-> offered + 1, size |-> size]
       IN /\ offered' = offered + 1
          /\ FromHost(frame)
  /\ UNCHANGED <<rungNow, moves, pc, holding, status, keep, needRung, resume,
                 inbox, probeDue, timers>>

Crashes ==                                  \* KeyError: 'queues'
  /\ pc = "host" /\ offered < MaxFrames
  /\ BoardFull /\ holding /\ status = NoStatus
  /\ pc' = "crashed"
  /\ UNCHANGED <<board, holding, status, inflight, held, keep, needRung,
                 resume, inbox, probeDue, refused, timers, offered>>

(* pump_modem: everything the port has, then one event after the other.    *)
Pump ==
  /\ pc = "host"
  /\ pc' = "pump"
  /\ inbox' = events
  /\ events' = <<>>
  /\ UNCHANGED <<queue, taken, probing, rungNow, moves, stalls, holding,
                 status, inflight, held, keep, needRung, resume, probeDue,
                 refused, timers, offered>>

Flushing(next) ==
  /\ pc' = "flush"
  /\ keep' = <<>> /\ needRung' = FALSE /\ resume' = next

OnEvent ==
  /\ pc = "pump" /\ inbox # <<>>
  /\ inbox' = Tail(inbox)
  /\ LET ev == Head(inbox)
     IN IF ev.kind = "status"
        THEN /\ status' = ev
             /\ inflight' = 0
             /\ IF held # <<>> /\ ev.rung # status.rung
                THEN Flushing("pump")
                ELSE UNCHANGED <<pc, keep, needRung, resume>>
             /\ UNCHANGED refused
        ELSE /\ refused' = refused + 1
             /\ UNCHANGED <<status, inflight, pc, keep, needRung, resume>>
  /\ UNCHANGED <<board, holding, held, probeDue, timers, offered>>

Pumped ==
  /\ pc = "pump" /\ inbox = <<>>
  /\ IF held # <<>>
     THEN Flushing("host")
     ELSE pc' = "host" /\ UNCHANGED <<keep, needRung, resume>>
  /\ UNCHANGED <<board, holding, status, inflight, held, inbox, probeDue,
                 refused, timers, offered>>

(* flush_held: release what fits, drop what waited too long, keep the rest.*)
ReleaseOnlyUp ==                            \* mutant: the deadline is ignored
  /\ pc = "flush" /\ held # <<>>
  /\ held' = Tail(held)
  /\ LET entry == Head(held)
         fits == FitsAir(entry.size)
     IN IF fits /\ ~BoardFull
        THEN Transmit(Frame(entry)) /\ UNCHANGED <<keep, needRung>>
        ELSE /\ NoBoard /\ UNCHANGED <<inflight, refused>>
             /\ keep' = Append(keep, entry)
             /\ needRung' = (needRung \/ ~fits)
  /\ UNCHANGED <<rungNow, moves, pc, holding, status, resume, inbox,
                 probeDue, timers, offered>>

Release ==
  /\ pc = "flush" /\ held # <<>>
  /\ held' = Tail(held)
  /\ LET entry == Head(held)
         fits == FitsAir(entry.size)
     IN IF fits /\ ~BoardFull
        THEN Transmit(Frame(entry)) /\ UNCHANGED <<keep, needRung>>
        ELSE /\ NoBoard /\ UNCHANGED inflight
             /\ IF entry.late
                THEN refused' = refused + 1 /\ UNCHANGED <<keep, needRung>>
                ELSE /\ keep' = Append(keep, entry)
                     /\ needRung' = (needRung \/ ~fits)
                     /\ UNCHANGED refused
  /\ UNCHANGED <<rungNow, moves, pc, holding, status, resume, inbox,
                 probeDue, timers, offered>>

Flushed ==
  /\ pc = "flush" /\ held = <<>>
  /\ held' = keep /\ keep' = <<>>
  /\ pc' = resume
  /\ IF needRung /\ probeDue
     THEN /\ probeDue' = FALSE
          /\ WriteStalls \/ AcceptProbe
     ELSE NoBoard /\ UNCHANGED probeDue
  /\ UNCHANGED <<rungNow, moves, holding, status, inflight, needRung, resume,
                 inbox, refused, timers, offered>>

(* Time: the oldest frame's deadline, and the next probe.                  *)
OneLate(s) ==
  \E i \in DOMAIN s:
    /\ ~s[i].late
    /\ \A j \in 1 .. i - 1: s[j].late
    /\ s' = [s EXCEPT ![i].late = TRUE]

Deadline ==
  /\ IF \E i \in DOMAIN keep: ~keep[i].late
     THEN OneLate(keep) /\ UNCHANGED held
     ELSE OneLate(held) /\ UNCHANGED keep
  /\ UNCHANGED <<board, holding, pc, status, inflight, needRung, resume,
                 inbox, probeDue, refused, timers, offered>>

ProbeTimer ==
  /\ ~probeDue /\ timers < MaxProbes
  /\ probeDue' = TRUE
  /\ timers' = timers + 1
  /\ UNCHANGED <<board, holding, pc, status, inflight, held, keep, needRung,
                 resume, inbox, refused, offered>>

Loop == Pump \/ OnEvent \/ Pumped \/ Release \/ Flushed

Next ==
  \/ Reads \/ Crashes \/ Loop \/ Deadline \/ ProbeTimer
  \/ BoardStep /\ UNCHANGED <<others, holding>>

Spec == Init /\ [][Next]_vars
Fairness == WF_vars(Loop) /\ WF_vars(Deadline)
FairSpec == Spec /\ Fairness
-----------------------------------------------------------------------------
Waiting == keep \o held
RefusalsToCome ==
  Cardinality(Among(events, "refused")) + Cardinality(Among(inbox, "refused"))

(* Nothing is lost in silence: every frame the stack wrote is on the board *)
(* or beyond it, held, or counted as refused (from_host, transmit,         *)
(* flush_held and the log line that arrives later).                        *)
NothingSilent ==
  offered <= Len(taken) + Len(Waiting) + refused + RefusalsToCome

(* Frames of one size reach the board in the order the stack wrote them:   *)
(* neither holding nor releasing lets one overtake.                        *)
FifoPerSize ==
  \A i, j \in DOMAIN taken:
    (i < j /\ taken[i].size = taken[j].size) => taken[i].id < taken[j].id

(* A held frame does not wait for ever: it goes out or is dropped at its   *)
(* deadline, whatever the ladder does.                                     *)
HeldResolved == Waiting # <<>> ~> (Waiting = <<>> \/ pc = "crashed")
=============================================================================
