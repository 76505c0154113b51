------------------------------ MODULE MsgStore ------------------------------
(***************************************************************************)
(* The shared message store of one station (cport/src/station.c): a free   *)
(* list over fixed slots, and the positions that may own a slot -- three   *)
(* transmit queues, the two messages in flight, and the log of delivered   *)
(* messages waiting for the host.  A slot never moves: ownership does.     *)
(*                                                                         *)
(* The free list is kept as the set of its slots (the order slots are      *)
(* reused in is not observable) and a queue ring as the sequence of its    *)
(* occupied positions.                                                     *)
(***************************************************************************)
EXTENDS Integers, Sequences, FiniteSets

CONSTANTS
  Slots,         \* the ST_POOL_SLOTS slots of the store
  Payloads,      \* the messages a host may submit and a peer may complete
  MaxMsgs,       \* ST_MAX_MSGS, the positions of one queue
  DeliveredMax,  \* ST_DELIVERED_MAX, the positions of the delivered log
  None           \* slot -1: holds nothing

ASSUME StoreAssumption ==
  /\ IsFiniteSet(Slots)
  /\ None \notin Slots
  /\ MaxMsgs \in Nat
  /\ DeliveredMax \in Nat

VARIABLES
  free,       \* pool_head/pool_next: the slots on the free list
  pool_used,  \* live slots, as the code counts them
  pool,       \* the bytes of each slot
  queue,      \* qslot/qlen: queued handles of each class, oldest first
  cur,        \* cur_prio and cur_bulk
  delivered,  \* delivered_slot/delivered_len, oldest first
  doubled     \* g_pool_dbl # 0

vars == <<free, pool_used, pool, queue, cur, delivered, doubled>>

QOS_CONTROL     == 0
QOS_INTERACTIVE == 1
QOS_BULK        == 2
Class == {QOS_CONTROL, QOS_INTERACTIVE, QOS_BULK}
Current == {"prio", "bulk"}

(* A handle names a slot; msg is the message it was handed (the code keeps *)
(* only its length beside the slot).                                       *)
Handle == [slot : Slots, msg : Payloads]
Nothing == [slot |-> None, msg |-> None]

(* The slots named from each kind of position, and from any. *)
Named(handles) == {handles[i].slot : i \in 1..Len(handles)}
QueuedSlots == UNION {Named(queue[q]) : q \in Class}
CurSlots == {cur[c].slot : c \in Current} \ {None}
DeliveredSlots == Named(delivered)
Owned == QueuedSlots \cup CurSlots \cup DeliveredSlots

Init ==
  /\ free = Slots
  /\ pool_used = 0
  /\ pool = [s \in Slots |-> None]
  /\ queue = [q \in Class |-> <<>>]
  /\ cur = [c \in Current |-> Nothing]
  /\ delivered = <<>>
  /\ doubled = FALSE

-----------------------------------------------------------------------------
(* Take a free slot and write message m in it. *)
pool_alloc(s, m) ==
  /\ s \in free
  /\ free' = free \ {s}
  /\ pool_used' = pool_used + 1
  /\ pool' = [pool EXCEPT ![s] = m]
  /\ UNCHANGED doubled

(* Mutant of pool_free: the live count is not taken down. *)
pool_freeUncounted(S) ==
  LET live == S \ {None}
  IN  /\ free' = free \cup live
      /\ doubled' = (doubled \/ live \cap free # {})
      /\ UNCHANGED <<pool, pool_used>>

(* Give back the slots in S.  None is skipped; a slot found on the free    *)
(* list is counted as a double release and left where it is.               *)
pool_free(S) ==
  LET live == S \ {None}
  IN  /\ free' = free \cup live
      /\ pool_used' = pool_used - Cardinality(live \ free)
      /\ doubled' = (doubled \/ live \cap free # {})
      /\ UNCHANGED pool

-----------------------------------------------------------------------------
(* station_submit: a full queue or a full store refuses the message. *)
Submit(q, m) ==
  /\ Len(queue[q]) < MaxMsgs
  /\ \E s \in free :
       /\ pool_alloc(s, m)
       /\ queue' = [queue EXCEPT ![q] = Append(@, [slot |-> s, msg |-> m])]
  /\ UNCHANGED <<cur, delivered>>

(* Mutant of pop_msg: the head is handed over and left in the queue. *)
pop_msgKept(q, c) ==
  /\ queue[q] # <<>>
  /\ pool_free({cur[c].slot})
  /\ cur' = [cur EXCEPT ![c] = Head(queue[q])]
  /\ UNCHANGED <<queue, delivered>>

(* pop_msg: ownership of the head's slot moves to the current message; the *)
(* slot the destination still names, if any, is released first.            *)
pop_msg(q, c) ==
  /\ queue[q] # <<>>
  /\ pool_free({cur[c].slot})
  /\ cur' = [cur EXCEPT ![c] = Head(queue[q])]
  /\ queue' = [queue EXCEPT ![q] = Tail(@)]
  /\ UNCHANGED delivered

(* take_fragment opens the next priority message, control before           *)
(* interactive, when none is in flight.                                    *)
OpenPrio ==
  /\ cur["prio"] = Nothing
  /\ \/ pop_msg(QOS_CONTROL, "prio")
     \/ /\ queue[QOS_CONTROL] = <<>>
        /\ pop_msg(QOS_INTERACTIVE, "prio")

(* take_fragment and burst_try_engage open a bulk message only when        *)
(* nothing of higher class is in flight or queued.                         *)
OpenBulk ==
  /\ cur["prio"] = Nothing /\ cur["bulk"] = Nothing
  /\ queue[QOS_CONTROL] = <<>> /\ queue[QOS_INTERACTIVE] = <<>>
  /\ pop_msg(QOS_BULK, "bulk")

(* msg_release: the acknowledged message gives its slot back. *)
msg_release(c) ==
  /\ pool_free({cur[c].slot})
  /\ cur' = [cur EXCEPT ![c] = Nothing]
  /\ UNCHANGED <<queue, delivered>>

(* The last fragment (or the last missing burst fragment) is acknowledged. *)
Complete(c) ==
  /\ cur[c] # Nothing
  /\ msg_release(c)

(* station_abort_bulk: from outside, whether or not bulk is in flight. *)
AbortBulk == msg_release("bulk")

(* A completed inbound message is stored in the log when the log has a     *)
(* position and the store a slot; otherwise nothing is kept.               *)
Deliver(m) ==
  /\ Len(delivered) < DeliveredMax
  /\ \E s \in free :
       /\ pool_alloc(s, m)
       /\ delivered' = Append(delivered, [slot |-> s, msg |-> m])
  /\ UNCHANGED <<queue, cur>>

(* station_delivered_reset: the host has read the log. *)
DeliveredReset ==
  /\ pool_free(DeliveredSlots)
  /\ delivered' = <<>>
  /\ UNCHANGED <<queue, cur>>

Next ==
  \/ \E q \in Class, m \in Payloads : Submit(q, m)
  \/ OpenPrio
  \/ OpenBulk
  \/ \E c \in Current : Complete(c)
  \/ AbortBulk
  \/ \E m \in Payloads : Deliver(m)
  \/ DeliveredReset

Spec == Init /\ [][Next]_vars

-----------------------------------------------------------------------------
(* Type invariant of pool, queues, open messages and delivered log. *)
TypeOK ==
  /\ free \subseteq Slots
  /\ pool_used \in Int
  /\ pool \in [Slots -> Payloads \cup {None}]
  /\ queue \in [Class -> Seq(Handle)]
  /\ cur \in [Current -> Handle \cup {Nothing}]
  /\ delivered \in Seq(Handle)
  /\ doubled \in BOOLEAN

(* Two positions never name one slot: otherwise "the next two allocations  *)
(* hand the SAME payload to two owners" (pool_free).  Stated kind by kind. *)
QueueOnce ==
  \A p, q \in Class : \A i \in 1..Len(queue[p]), j \in 1..Len(queue[q]) :
     queue[p][i].slot = queue[q][j].slot => p = q /\ i = j
CurOnce ==
  cur["prio"].slot = cur["bulk"].slot => cur["prio"].slot = None
DeliveredOnce ==
  \A i, j \in 1..Len(delivered) :
     delivered[i].slot = delivered[j].slot => i = j
KindsApart ==
  /\ QueuedSlots \cap CurSlots = {}
  /\ QueuedSlots \cap DeliveredSlots = {}
  /\ CurSlots \cap DeliveredSlots = {}
OneOwner == QueueOnce /\ CurOnce /\ DeliveredOnce /\ KindsApart

(* The free list holds exactly the slots nobody names: no slot is lost     *)
(* (the store would shrink until submit always refuses) and none is handed *)
(* out while still in use.                                                 *)
NoLeak == free = Slots \ Owned

(* Every handle still reads the message it was given: slots are reused but *)
(* never under an owner.                                                   *)
Integrity ==
  /\ \A q \in Class : \A i \in 1..Len(queue[q]) :
        pool[queue[q][i].slot] = queue[q][i].msg
  /\ \A c \in Current : cur[c] # Nothing => pool[cur[c].slot] = cur[c].msg
  /\ \A i \in 1..Len(delivered) :
        pool[delivered[i].slot] = delivered[i].msg

(* The live count station_pool_free reports to the host is exact, so a     *)
(* host that checks it before a multi-message submission is never refused  *)
(* half way, and no release is ever a double one.                          *)
UsedExact == pool_used = Cardinality(Owned) /\ ~doubled
=============================================================================
