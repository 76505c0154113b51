---------------------------- MODULE MCModemProofs ----------------------------
(***************************************************************************)
(* Proofs of what MCModem's run checks of the message store, the host      *)
(* binding and the link controller, for every store, ring, message and     *)
(* ladder.                                                                 *)
(***************************************************************************)
EXTENDS MCModem, NaturalLemmas, TLAPS, FiniteSetTheorems, SequenceTheorems

-----------------------------------------------------------------------------
(* The message store: a slot has one owner or is free, what an owner reads *)
(* is what it was handed, and the count of live slots is exact.            *)

(* The inductive invariant.  OneOwner alone is not inductive: a slot that  *)
(* is handed out must not be named already (NoLeak), and a slot that is    *)
(* released must be off the free list (NoLeak again), or the release would *)
(* be counted as a double one.                                             *)
Counted == pool_used = Cardinality(Slots \ free)
IInv == TypeOK /\ OneOwner /\ NoLeak /\ Integrity /\ Counted /\ ~doubled

-----------------------------------------------------------------------------
(* Every position names a slot of the store. *)
LEMMA OwnedType ==
  ASSUME TypeOK
  PROVE  Owned \subseteq Slots
<1>1. \A q \in Class : \A i \in 1..Len(queue[q]) : queue[q][i].slot \in Slots
  <2> SUFFICES ASSUME NEW q \in Class, NEW i \in 1..Len(queue[q])
               PROVE  queue[q][i].slot \in Slots
    OBVIOUS
  <2>1. queue[q] \in Seq(Handle)
    BY DEF TypeOK
  <2>2. queue[q][i] \in Handle
    BY <2>1
  <2> QED
    BY <2>2 DEF Handle
<1>2. \A i \in 1..Len(delivered) : delivered[i].slot \in Slots
  <2> SUFFICES ASSUME NEW i \in 1..Len(delivered)
               PROVE  delivered[i].slot \in Slots
    OBVIOUS
  <2>1. delivered[i] \in Handle
    BY DEF TypeOK
  <2> QED
    BY <2>1 DEF Handle
<1>3. \A c \in Current : cur[c].slot \in Slots \cup {None}
  BY DEF TypeOK, Handle, Nothing
<1> QED
  BY <1>1, <1>2, <1>3
     DEF Owned, QueuedSlots, CurSlots, DeliveredSlots, Named

(* The slot taken by pool_alloc is nobody's, and the count follows. *)
LEMMA AllocFacts ==
  ASSUME IInv, NEW s \in free, NEW m \in Payloads, pool_alloc(s, m)
  PROVE  /\ s \in Slots /\ s \notin Owned /\ s # None
         /\ free' = free \ {s}
         /\ pool' = [pool EXCEPT ![s] = m]
         /\ pool' \in [Slots -> Payloads \cup {None}]
         /\ \A x \in Owned : pool'[x] = pool[x]
         /\ pool'[s] = m
         /\ ~doubled' /\ doubled' \in BOOLEAN
         /\ pool_used' \in Int
         /\ Counted'
<1> USE DEF IInv
<1>1. s \in Slots /\ s \notin Owned /\ s # None
  BY StoreAssumption DEF NoLeak, TypeOK
<1>2. /\ free' = free \ {s}
      /\ pool_used' = pool_used + 1
      /\ pool' = [pool EXCEPT ![s] = m]
      /\ ~doubled' /\ doubled' \in BOOLEAN
  BY DEF pool_alloc, TypeOK
<1>3. pool' \in [Slots -> Payloads \cup {None}]
  BY <1>2 DEF TypeOK
<1>4. pool'[s] = m /\ \A x \in Owned : pool'[x] = pool[x]
  BY <1>1, <1>2, OwnedType DEF TypeOK
<1>5. Counted'
  <2> DEFINE live == Slots \ free
  <2>1. IsFiniteSet(live)
    BY StoreAssumption, FS_Subset
  <2>2. Slots \ free' = live \cup {s} /\ s \notin live
    BY <1>1, <1>2
  <2>3. Cardinality(live \cup {s}) = Cardinality(live) + 1
    BY <2>1, <2>2, FS_AddElement
  <2> QED
    BY <1>2, <2>2, <2>3 DEF Counted
<1>6. pool_used' \in Int
  BY <1>2 DEF TypeOK
<1> QED
  BY <1>1, <1>2, <1>3, <1>4, <1>5, <1>6

(* Slots that are owned are given back once each, and the count follows. *)
LEMMA FreeFacts ==
  ASSUME IInv, NEW S, S \subseteq Owned \cup {None}, pool_free(S)
  PROVE  /\ free' = free \cup (S \ {None})
         /\ free' \subseteq Slots
         /\ pool' = pool
         /\ ~doubled' /\ doubled' \in BOOLEAN
         /\ pool_used' \in Int
         /\ Counted'
<1> USE DEF IInv
<1> DEFINE live == S \ {None}
<1>1. live \cap free = {} /\ live \subseteq Slots
  BY OwnedType DEF NoLeak
<1>2. /\ free' = free \cup live
      /\ pool_used' = pool_used - Cardinality(live \ free)
      /\ pool' = pool
      /\ doubled' = (doubled \/ live \cap free # {})
  BY DEF pool_free
<1>3. ~doubled' /\ doubled' \in BOOLEAN
  BY <1>1, <1>2 DEF TypeOK
<1>4. live \ free = live
  BY <1>1
<1>5. /\ IsFiniteSet(live) /\ Cardinality(live) \in Nat
      /\ IsFiniteSet(Slots \ free) /\ Cardinality(Slots \ free) \in Nat
  BY <1>1, StoreAssumption, FS_Subset, FS_CardinalityType
<1>6. Cardinality((Slots \ free) \ live) = Cardinality(Slots \ free) - Cardinality(live)
  <2>1. (Slots \ free) \cap live = live
    BY <1>1
  <2> QED
    BY <2>1, <1>5, FS_Difference
<1>7. Slots \ free' = (Slots \ free) \ live
  BY <1>2
<1>8. pool_used' = pool_used - Cardinality(live)
  BY <1>2, <1>4
<1>9. Counted'
  BY <1>6, <1>7, <1>8 DEF Counted
<1>10. pool_used' \in Int
  BY <1>8, <1>5 DEF TypeOK
<1>11. free' \subseteq Slots
  BY <1>1, <1>2 DEF TypeOK
<1> QED
  BY <1>1, <1>2, <1>3, <1>9, <1>10, <1>11

-----------------------------------------------------------------------------
(* A handle put on the log, or at the end of a queue, adds its slot.       *)
LEMMA NamedAppend ==
  ASSUME NEW handles \in Seq(Handle), NEW h \in Handle
  PROVE  /\ Append(handles, h) \in Seq(Handle)
         /\ Len(Append(handles, h)) = Len(handles) + 1
         /\ \A i \in 1..Len(handles) : Append(handles, h)[i] = handles[i]
         /\ Append(handles, h)[Len(handles) + 1] = h
         /\ Named(Append(handles, h)) = Named(handles) \cup {h.slot}
<1> DEFINE more == Append(handles, h)
<1>1. /\ more \in Seq(Handle)
      /\ Len(more) = Len(handles) + 1 /\ Len(handles) \in Nat
      /\ \A i \in 1..Len(handles) : more[i] = handles[i]
      /\ more[Len(handles) + 1] = h
  OBVIOUS
<1> HIDE DEF more
<1>2. 1..Len(more) = 1..Len(handles) \cup {Len(handles) + 1}
  BY <1>1
<1>3. Named(more) = Named(handles) \cup {h.slot}
  BY <1>1, <1>2 DEF Named
<1> QED
  BY <1>1, <1>3 DEF more

(* The slots of the queues are those of the untouched queues and of the    *)
(* one that changed.                                                       *)
LEMMA QueuedSplit ==
  ASSUME NEW q \in Class,
         \A p \in Class : p # q => queue'[p] = queue[p]
  PROVE  /\ QueuedSlots = Named(queue[q])
              \cup UNION {Named(queue[p]) : p \in Class \ {q}}
         /\ QueuedSlots' = Named(queue'[q])
              \cup UNION {Named(queue[p]) : p \in Class \ {q}}
<1>1. QueuedSlots = Named(queue[q])
        \cup UNION {Named(queue[p]) : p \in Class \ {q}}
  BY DEF QueuedSlots
<1>2. QueuedSlots' = UNION {Named(queue'[p]) : p \in Class}
  BY DEF QueuedSlots, Named
<1>3. QueuedSlots' = Named(queue'[q])
        \cup UNION {Named(queue'[p]) : p \in Class \ {q}}
  BY <1>2
<1>4. \A p \in Class \ {q} : Named(queue'[p]) = Named(queue[p])
  OBVIOUS
<1> QED
  BY <1>1, <1>3, <1>4

(* station_submit names one more slot: the one it took.                    *)
LEMMA SubmitKeeps ==
  ASSUME IInv, NEW q \in Class, NEW m \in Payloads, Submit(q, m)
  PROVE  IInv'
<1> USE DEF IInv
<1>1. PICK s \in free :
        /\ pool_alloc(s, m)
        /\ queue' = [queue EXCEPT ![q] = Append(@, [slot |-> s, msg |-> m])]
  BY DEF Submit
<1> DEFINE h == [slot |-> s, msg |-> m]
<1>2. cur' = cur /\ delivered' = delivered
  BY DEF Submit
<1>3. /\ s \in Slots /\ s \notin Owned /\ s # None
      /\ free' = free \ {s}
      /\ pool' \in [Slots -> Payloads \cup {None}]
      /\ \A x \in Owned : pool'[x] = pool[x]
      /\ pool'[s] = m
      /\ ~doubled' /\ doubled' \in BOOLEAN
      /\ pool_used' \in Int /\ Counted'
  BY <1>1, AllocFacts
<1>4. h \in Handle /\ h.slot = s /\ h.msg = m
  BY <1>3 DEF Handle
<1> HIDE DEF h
<1>5. queue[q] \in Seq(Handle) /\ queue \in [Class -> Seq(Handle)]
  BY DEF TypeOK
<1>6. /\ queue'[q] = Append(queue[q], h)
      /\ \A p \in Class : p # q => queue'[p] = queue[p]
  BY <1>1, <1>5 DEF h
<1>7. /\ queue'[q] \in Seq(Handle)
      /\ Len(queue'[q]) = Len(queue[q]) + 1 /\ Len(queue[q]) \in Nat
      /\ \A i \in 1..Len(queue[q]) : queue'[q][i] = queue[q][i]
      /\ queue'[q][Len(queue[q]) + 1] = h
      /\ Named(queue'[q]) = Named(queue[q]) \cup {s}
  BY <1>4, <1>5, <1>6, NamedAppend
<1>8. QueuedSlots' = QueuedSlots \cup {s}
  BY <1>6, <1>7, QueuedSplit
<1>9. CurSlots' = CurSlots /\ DeliveredSlots' = DeliveredSlots
  BY <1>2 DEF CurSlots, DeliveredSlots, Named
<1>10. TypeOK'
  <2>1. queue' \in [Class -> Seq(Handle)]
    BY <1>1, <1>4, <1>5 DEF h
  <2>2. free' \subseteq Slots
    BY <1>3 DEF TypeOK
  <2> QED
    BY <1>2, <1>3, <2>1, <2>2 DEF TypeOK
<1>11. \A p \in Class : \A i \in 1..Len(queue'[p]) :
         \/ i \in 1..Len(queue[p]) /\ queue'[p][i] = queue[p][i]
         \/ p = q /\ i = Len(queue[q]) + 1 /\ queue'[p][i] = h
  BY <1>6, <1>7
<1>12. \A p \in Class : \A i \in 1..Len(queue[p]) : queue[p][i].slot \in QueuedSlots
  BY DEF QueuedSlots, Named
<1>13. QueueOnce'
  <2>1. s \notin QueuedSlots
    BY <1>3 DEF Owned
  <2> SUFFICES ASSUME NEW p1 \in Class, NEW p2 \in Class,
                      NEW i \in 1..Len(queue'[p1]), NEW j \in 1..Len(queue'[p2]),
                      queue'[p1][i].slot = queue'[p2][j].slot
               PROVE  p1 = p2 /\ i = j
    BY DEF QueueOnce
  <2>2. CASE i \in 1..Len(queue[p1]) /\ j \in 1..Len(queue[p2])
    <3>1. queue'[p1][i] = queue[p1][i] /\ queue'[p2][j] = queue[p2][j]
      BY <2>2, <1>6, <1>7
    <3> QED
      BY <3>1, <2>2 DEF QueueOnce, OneOwner
  <2>3. CASE i \notin 1..Len(queue[p1])
    <3>1. p1 = q /\ i = Len(queue[q]) + 1 /\ queue'[p1][i].slot = s
      BY <2>3, <1>4, <1>11
    <3>2. j \notin 1..Len(queue[p2])
      BY <3>1, <2>1, <1>11, <1>12, <1>6, <1>7
    <3> QED
      BY <3>1, <3>2, <1>11
  <2>4. CASE j \notin 1..Len(queue[p2])
    <3>1. p2 = q /\ j = Len(queue[q]) + 1 /\ queue'[p2][j].slot = s
      BY <2>4, <1>4, <1>11
    <3>2. i \notin 1..Len(queue[p1])
      BY <3>1, <2>1, <1>11, <1>12, <1>6, <1>7
    <3> QED
      BY <3>1, <3>2, <1>11
  <2> QED
    BY <2>2, <2>3, <2>4
<1>14. KindsApart'
  BY <1>3, <1>8, <1>9 DEF KindsApart, OneOwner, Owned
<1>15. OneOwner'
  BY <1>2, <1>13, <1>14 DEF OneOwner, CurOnce, DeliveredOnce
<1>16. NoLeak'
  BY <1>3, <1>8, <1>9 DEF NoLeak, Owned
<1>17. Integrity'
  <2>1. \A p \in Class : \A i \in 1..Len(queue'[p]) :
          pool'[queue'[p][i].slot] = queue'[p][i].msg
    <3> SUFFICES ASSUME NEW p \in Class, NEW i \in 1..Len(queue'[p])
                 PROVE  pool'[queue'[p][i].slot] = queue'[p][i].msg
      OBVIOUS
    <3>1. CASE i \in 1..Len(queue[p]) /\ queue'[p][i] = queue[p][i]
      <4>1. queue[p][i].slot \in Owned
        BY <3>1, <1>12 DEF Owned
      <4>2. pool[queue[p][i].slot] = queue[p][i].msg
        BY <3>1 DEF Integrity
      <4> QED
        BY <4>1, <4>2, <3>1, <1>3
    <3>2. CASE queue'[p][i] = h
      BY <3>2, <1>3, <1>4
    <3> QED
      BY <3>1, <3>2, <1>11
  <2>2. \A c \in Current : cur'[c] # Nothing => pool'[cur'[c].slot] = cur'[c].msg
    <3> SUFFICES ASSUME NEW c \in Current, cur[c] # Nothing
                 PROVE  pool'[cur[c].slot] = cur[c].msg
      BY <1>2
    <3>1. cur[c].slot \in CurSlots
      BY StoreAssumption DEF TypeOK, Handle, CurSlots
    <3> QED
      BY <3>1, <1>3 DEF Integrity, Owned
  <2>3. \A i \in 1..Len(delivered') : pool'[delivered'[i].slot] = delivered'[i].msg
    BY <1>2, <1>3 DEF Integrity, Owned, DeliveredSlots, Named
  <2> QED
    BY <2>1, <2>2, <2>3 DEF Integrity
<1> QED
  BY <1>3, <1>10, <1>15, <1>16, <1>17

-----------------------------------------------------------------------------
(* The slot of a queued or current handle is owned, and what it reads is   *)
(* unchanged when the store is.                                            *)
LEMMA PositionsOwned ==
  ASSUME TypeOK
  PROVE  /\ \A p \in Class : \A i \in 1..Len(queue[p]) :
              queue[p][i].slot \in QueuedSlots
         /\ \A c \in Current : cur[c] # Nothing => cur[c].slot \in CurSlots
         /\ \A c \in Current : cur[c].slot \in CurSlots \cup {None}
         /\ \A i \in 1..Len(delivered) : delivered[i].slot \in DeliveredSlots
<1>1. \A c \in Current : cur[c] # Nothing => cur[c].slot # None
  BY StoreAssumption DEF TypeOK, Handle
<1> QED
  BY <1>1 DEF QueuedSlots, CurSlots, DeliveredSlots, Named

(* The head of a queue becomes the current message of c, which had none.   *)
LEMMA PopKeeps ==
  ASSUME IInv, NEW q \in Class, NEW c \in Current, cur[c] = Nothing,
         pop_msg(q, c)
  PROVE  IInv'
<1> USE DEF IInv
<1> DEFINE h == Head(queue[q])
           n == Len(queue[q])
<1>1. queue[q] \in Seq(Handle) /\ queue[q] # <<>> /\ queue \in [Class -> Seq(Handle)]
  BY DEF TypeOK, pop_msg
<1>2. /\ h = queue[q][1] /\ h \in Handle /\ n \in Nat /\ 1 \in 1..n
      /\ Tail(queue[q]) \in Seq(Handle)
      /\ Len(Tail(queue[q])) = n - 1
      /\ \A i \in 1..n - 1 : Tail(queue[q])[i] = queue[q][i + 1]
  BY <1>1
<1> HIDE DEF h, n
<1>3. /\ cur' = [cur EXCEPT ![c] = h]
      /\ queue' = [queue EXCEPT ![q] = Tail(@)]
      /\ delivered' = delivered
  BY DEF pop_msg, h
<1>4. cur[c].slot = None /\ pool_free({None})
  BY DEF pop_msg, Nothing
<1>5. /\ free' = free /\ pool' = pool
      /\ ~doubled' /\ doubled' \in BOOLEAN /\ pool_used' \in Int /\ Counted'
  <2>1. {None} \subseteq Owned \cup {None}
    OBVIOUS
  <2>2. {None} \ {None} = {}
    OBVIOUS
  <2>3. /\ free' = free \cup ({None} \ {None}) /\ pool' = pool
        /\ ~doubled' /\ doubled' \in BOOLEAN /\ pool_used' \in Int /\ Counted'
    BY <1>4, <2>1, FreeFacts
  <2> QED
    BY <2>2, <2>3
<1>6. /\ queue'[q] = Tail(queue[q])
      /\ \A p \in Class : p # q => queue'[p] = queue[p]
  BY <1>1, <1>3
<1>7. /\ cur'[c] = h
      /\ \A d \in Current : d # c => cur'[d] = cur[d]
      /\ cur' \in [Current -> Handle \cup {Nothing}]
  BY <1>2, <1>3 DEF TypeOK
<1>8. TypeOK'
  <2>1. queue' \in [Class -> Seq(Handle)]
    BY <1>1, <1>2, <1>3
  <2> QED
    BY <1>3, <1>5, <1>7, <2>1 DEF TypeOK
<1>9. \A p \in Class : \A i \in 1..Len(queue'[p]) :
        LET k == IF p = q THEN i + 1 ELSE i
        IN  k \in 1..Len(queue[p]) /\ queue'[p][i] = queue[p][k]
  <2> SUFFICES ASSUME NEW p \in Class, NEW i \in 1..Len(queue'[p])
               PROVE  LET k == IF p = q THEN i + 1 ELSE i
                      IN  k \in 1..Len(queue[p]) /\ queue'[p][i] = queue[p][k]
    OBVIOUS
  <2>1. CASE p = q
    BY <2>1, <1>2, <1>6 DEF n
  <2>2. CASE p # q
    BY <2>2, <1>6
  <2> QED
    BY <2>1, <2>2
<1>10. h.slot \in QueuedSlots /\ h.slot \in Slots
  BY <1>2, PositionsOwned DEF n, Handle
<1>11. QueuedSlots' = QueuedSlots \ {h.slot}
  <2>1. QueuedSlots' \subseteq QueuedSlots
    BY <1>9, PositionsOwned DEF QueuedSlots, Named
  <2>2. h.slot \notin QueuedSlots'
    <3> SUFFICES ASSUME NEW p \in Class, NEW i \in 1..Len(queue'[p])
                 PROVE  queue'[p][i].slot # h.slot
      BY DEF QueuedSlots, Named
    <3> DEFINE k == IF p = q THEN i + 1 ELSE i
    <3>1. k \in 1..Len(queue[p]) /\ queue'[p][i] = queue[p][k]
      BY <1>9
    <3>2. p = q => k # 1
      OBVIOUS
    <3> HIDE DEF k
    <3>3. queue[p][k].slot = queue[q][1].slot => p = q /\ k = 1
      BY <3>1, <1>2 DEF QueueOnce, OneOwner, n
    <3> QED
      BY <3>1, <3>2, <3>3, <1>2
  <2>3. \A x \in QueuedSlots : x # h.slot => x \in QueuedSlots'
    <3> SUFFICES ASSUME NEW x \in QueuedSlots, x # h.slot
                 PROVE  x \in QueuedSlots'
      OBVIOUS
    <3>0. PICK p \in Class : \E k \in 1..Len(queue[p]) : x = queue[p][k].slot
      BY DEF QueuedSlots, Named
    <3>4. PICK k \in 1..Len(queue[p]) : x = queue[p][k].slot
      BY <3>0
    <3>1. CASE p = q
      <4>1. k - 1 \in 1..Len(queue'[p]) /\ queue'[p][k - 1] = queue[p][k]
        BY <3>1, <3>4, <1>2, <1>6 DEF n
      <4> QED
        BY <3>4, <4>1 DEF QueuedSlots, Named
    <3>2. CASE p # q
      BY <3>2, <3>4, <1>6 DEF QueuedSlots, Named
    <3> QED
      BY <3>1, <3>2
  <2> QED
    BY <2>1, <2>2, <2>3
<1>12. CurSlots' = CurSlots \cup {h.slot}
  <2>1. h.slot # None
    BY <1>10, StoreAssumption
  <2> QED
    BY <1>4, <1>7, <2>1 DEF CurSlots
<1>13. DeliveredSlots' = DeliveredSlots
  BY <1>3 DEF DeliveredSlots, Named
<1>14. Owned' = Owned
  BY <1>10, <1>11, <1>12, <1>13 DEF Owned
<1>15. NoLeak'
  BY <1>5, <1>14 DEF NoLeak
<1>16. QueueOnce'
  <2> SUFFICES ASSUME NEW p1 \in Class, NEW p2 \in Class,
                      NEW i \in 1..Len(queue'[p1]), NEW j \in 1..Len(queue'[p2]),
                      queue'[p1][i].slot = queue'[p2][j].slot
               PROVE  p1 = p2 /\ i = j
    BY DEF QueueOnce
  <2> DEFINE k1 == IF p1 = q THEN i + 1 ELSE i
             k2 == IF p2 = q THEN j + 1 ELSE j
  <2>1. /\ k1 \in 1..Len(queue[p1]) /\ queue'[p1][i] = queue[p1][k1]
        /\ k2 \in 1..Len(queue[p2]) /\ queue'[p2][j] = queue[p2][k2]
    BY <1>9
  <2>2. p1 = p2 /\ k1 = k2
    <3> HIDE DEF k1, k2
    <3> QED
      BY <2>1 DEF QueueOnce, OneOwner
  <2> QED
    BY <2>2
<1>17. CurOnce'
  <2>1. h.slot \notin CurSlots
    BY <1>10 DEF OneOwner, KindsApart
  <2>2. \A d \in Current : d # c => cur'[d].slot # h.slot
    BY <2>1, <1>7, <1>10, StoreAssumption, PositionsOwned
  <2> QED
    BY <2>2, <1>7 DEF CurOnce, Current
<1>18. OneOwner'
  <2>1. KindsApart'
    BY <1>10, <1>11, <1>12, <1>13 DEF KindsApart, OneOwner
  <2> QED
    BY <2>1, <1>3, <1>16, <1>17 DEF OneOwner, DeliveredOnce
<1>19. Integrity'
  <2>1. \A p \in Class : \A i \in 1..Len(queue'[p]) :
          pool'[queue'[p][i].slot] = queue'[p][i].msg
    <3> SUFFICES ASSUME NEW p \in Class, NEW i \in 1..Len(queue'[p])
                 PROVE  pool[queue'[p][i].slot] = queue'[p][i].msg
      BY <1>5
    <3>1. PICK k \in 1..Len(queue[p]) : queue'[p][i] = queue[p][k]
      BY <1>9
    <3> QED
      BY <3>1 DEF Integrity
  <2>2. pool[h.slot] = h.msg
    BY <1>2 DEF Integrity, n
  <2>3. \A d \in Current : cur'[d] # Nothing => pool'[cur'[d].slot] = cur'[d].msg
    BY <1>5, <1>7, <2>2 DEF Integrity
  <2> QED
    BY <1>3, <1>5, <2>1, <2>3 DEF Integrity
<1> QED
  BY <1>5, <1>8, <1>15, <1>18, <1>19

(* msg_release gives the slot of an open message back.                     *)
LEMMA ReleaseKeeps ==
  ASSUME IInv, NEW c \in Current, msg_release(c)
  PROVE  IInv'
<1> USE DEF IInv
<1> DEFINE s == cur[c].slot
<1>1. s \in CurSlots \cup {None}
  BY PositionsOwned
<1>2. /\ cur' = [cur EXCEPT ![c] = Nothing]
      /\ queue' = queue /\ delivered' = delivered
      /\ pool_free({s})
  BY DEF msg_release
<1>3. /\ free' = free \cup ({s} \ {None}) /\ free' \subseteq Slots
      /\ pool' = pool /\ ~doubled' /\ doubled' \in BOOLEAN
      /\ pool_used' \in Int /\ Counted'
  BY <1>1, <1>2, FreeFacts DEF Owned
<1>4. /\ cur'[c] = Nothing
      /\ \A d \in Current : d # c => cur'[d] = cur[d]
      /\ cur' \in [Current -> Handle \cup {Nothing}]
  BY <1>2 DEF TypeOK
<1>5. TypeOK'
  BY <1>2, <1>3, <1>4 DEF TypeOK
<1>6. QueuedSlots' = QueuedSlots /\ DeliveredSlots' = DeliveredSlots
  BY <1>2 DEF QueuedSlots, DeliveredSlots, Named
<1>7. CurSlots' = CurSlots \ {s}
  <2>1. \A d \in Current : d # c => cur[d].slot # s \/ s = None
    BY DEF OneOwner, CurOnce, Current
  <2>2. cur'[c].slot = None
    BY <1>4 DEF Nothing
  <2>3. \A d \in Current : d # c => cur'[d].slot = cur[d].slot
    BY <1>4
  <2>4. CurSlots' = {cur'[d].slot : d \in Current} \ {None}
    BY DEF CurSlots
  <2> HIDE DEF s
  <2>5. cur[c].slot = s
    BY DEF s
  <2> QED
    BY <2>1, <2>2, <2>3, <2>4, <2>5 DEF CurSlots
<1>8. OneOwner'
  <2>1. CurOnce'
    BY <1>4 DEF CurOnce, OneOwner, Current, Nothing
  <2> QED
    BY <1>2, <1>6, <1>7, <2>1 DEF OneOwner, QueueOnce, DeliveredOnce, KindsApart
<1>9. NoLeak'
  <2>1. Owned' = Owned \ {s}
    <3>1. s \notin QueuedSlots /\ s \notin DeliveredSlots
      <4>1. None \notin Owned
        BY OwnedType, StoreAssumption
      <4> QED
        BY <1>1, <4>1 DEF OneOwner, KindsApart, Owned
    <3> QED
      BY <3>1, <1>6, <1>7 DEF Owned
  <2>2. Owned \subseteq Slots /\ s \in Owned \cup {None}
    BY <1>1, OwnedType DEF Owned
  <2> HIDE DEF s
  <2>3. free' = Slots \ Owned'
    BY <1>3, <2>1, <2>2, StoreAssumption DEF NoLeak
  <2> QED
    BY <2>3 DEF NoLeak
<1>10. Integrity'
  BY <1>2, <1>3, <1>4 DEF Integrity
<1> QED
  BY <1>3, <1>5, <1>8, <1>9, <1>10

(* A message that goes on the delivered log takes a slot nobody names.     *)
LEMMA DeliverKeeps ==
  ASSUME IInv, NEW m \in Payloads, Deliver(m)
  PROVE  IInv'
<1> USE DEF IInv
<1>1. PICK s \in free :
        /\ pool_alloc(s, m)
        /\ delivered' = Append(delivered, [slot |-> s, msg |-> m])
  BY DEF Deliver
<1> DEFINE h == [slot |-> s, msg |-> m]
<1>2. cur' = cur /\ queue' = queue
  BY DEF Deliver
<1>3. /\ s \in Slots /\ s \notin Owned /\ s # None
      /\ free' = free \ {s}
      /\ pool' \in [Slots -> Payloads \cup {None}]
      /\ \A x \in Owned : pool'[x] = pool[x]
      /\ pool'[s] = m
      /\ ~doubled' /\ doubled' \in BOOLEAN
      /\ pool_used' \in Int /\ Counted'
  BY <1>1, AllocFacts
<1>4. h \in Handle /\ h.slot = s /\ h.msg = m /\ delivered' = Append(delivered, h)
  BY <1>1, <1>3 DEF Handle
<1> HIDE DEF h
<1>5. /\ delivered' \in Seq(Handle)
      /\ Len(delivered') = Len(delivered) + 1 /\ Len(delivered) \in Nat
      /\ \A i \in 1..Len(delivered) : delivered'[i] = delivered[i]
      /\ delivered'[Len(delivered) + 1] = h
      /\ Named(delivered') = Named(delivered) \cup {s}
  BY <1>4, NamedAppend DEF TypeOK
<1>6. QueuedSlots' = QueuedSlots /\ CurSlots' = CurSlots
  BY <1>2 DEF QueuedSlots, CurSlots, Named
<1>7. DeliveredSlots' = DeliveredSlots \cup {s}
  BY <1>5 DEF DeliveredSlots, Named
<1>8. TypeOK'
  <2>1. free' \subseteq Slots
    BY <1>3 DEF TypeOK
  <2> QED
    BY <1>2, <1>3, <1>5, <2>1 DEF TypeOK
<1>9. \A i \in 1..Len(delivered') :
         \/ i \in 1..Len(delivered) /\ delivered'[i] = delivered[i]
         \/ i = Len(delivered) + 1 /\ delivered'[i] = h
  BY <1>5
<1>10. DeliveredOnce'
  <2>1. s \notin DeliveredSlots
    BY <1>3 DEF Owned
  <2>2. \A i \in 1..Len(delivered) : delivered[i].slot # s
    BY <2>1, PositionsOwned
  <2> QED
    BY <2>2, <1>4, <1>9 DEF DeliveredOnce, OneOwner
<1>11. OneOwner'
  <2>1. KindsApart'
    BY <1>3, <1>6, <1>7 DEF KindsApart, OneOwner, Owned
  <2> QED
    BY <2>1, <1>2, <1>10 DEF OneOwner, QueueOnce, CurOnce
<1>12. NoLeak'
  BY <1>3, <1>6, <1>7 DEF NoLeak, Owned
<1>13. Integrity'
  <2>1. \A p \in Class : \A i \in 1..Len(queue[p]) :
          pool'[queue[p][i].slot] = queue[p][i].msg
    BY <1>3, PositionsOwned DEF Integrity, Owned
  <2>2. \A c \in Current : cur[c] # Nothing => pool'[cur[c].slot] = cur[c].msg
    BY <1>3, PositionsOwned DEF Integrity, Owned
  <2>3. \A i \in 1..Len(delivered') : pool'[delivered'[i].slot] = delivered'[i].msg
    <3> SUFFICES ASSUME NEW i \in 1..Len(delivered')
                 PROVE  pool'[delivered'[i].slot] = delivered'[i].msg
      OBVIOUS
    <3>1. CASE i \in 1..Len(delivered) /\ delivered'[i] = delivered[i]
      BY <3>1, <1>3, PositionsOwned DEF Integrity, Owned
    <3>2. CASE delivered'[i] = h
      BY <3>2, <1>3, <1>4
    <3> QED
      BY <3>1, <3>2, <1>9
  <2> QED
    BY <1>2, <2>1, <2>2, <2>3 DEF Integrity
<1> QED
  BY <1>3, <1>8, <1>11, <1>12, <1>13

(* station_delivered_reset gives every slot of the log back.               *)
LEMMA ResetKeeps ==
  ASSUME IInv, DeliveredReset
  PROVE  IInv'
<1> USE DEF IInv
<1>1. /\ delivered' = <<>> /\ queue' = queue /\ cur' = cur
      /\ pool_free(DeliveredSlots)
  BY DEF DeliveredReset
<1>2. /\ free' = free \cup (DeliveredSlots \ {None}) /\ free' \subseteq Slots
      /\ pool' = pool /\ ~doubled' /\ doubled' \in BOOLEAN
      /\ pool_used' \in Int /\ Counted'
  BY <1>1, FreeFacts DEF Owned
<1>3. /\ QueuedSlots' = QueuedSlots /\ CurSlots' = CurSlots
      /\ DeliveredSlots' = {}
  BY <1>1 DEF QueuedSlots, CurSlots, DeliveredSlots, Named
<1>4. TypeOK'
  BY <1>1, <1>2 DEF TypeOK
<1>5. OneOwner'
  <2>1. DeliveredOnce'
    BY <1>1 DEF DeliveredOnce
  <2> QED
    BY <1>1, <1>3, <2>1 DEF OneOwner, QueueOnce, CurOnce, KindsApart
<1>6. NoLeak'
  <2>1. None \notin Owned
    BY OwnedType, StoreAssumption
  <2> QED
    BY <1>2, <1>3, <2>1, OwnedType DEF NoLeak, Owned, OneOwner, KindsApart
<1>7. Integrity'
  BY <1>1, <1>2 DEF Integrity
<1> QED
  BY <1>2, <1>4, <1>5, <1>6, <1>7

-----------------------------------------------------------------------------
(* The invariant holds at the start and is kept by every operation.        *)
LEMMA InitIInv == Init => IInv
<1> SUFFICES ASSUME Init PROVE IInv
  OBVIOUS
<1>1. TypeOK
  <2>1. queue = [q \in Class |-> <<>>] /\ delivered = <<>>
    BY DEF Init
  <2>2. queue \in [Class -> Seq(Handle)] /\ delivered \in Seq(Handle)
    BY <2>1
  <2>3. cur \in [Current -> Handle \cup {Nothing}]
    BY DEF Init
  <2>4. pool \in [Slots -> Payloads \cup {None}] /\ free \subseteq Slots
    BY DEF Init
  <2>5. pool_used \in Int
    BY DEF Init
  <2>6. doubled \in BOOLEAN
    BY Zenon DEF Init
  <2> QED
    BY <2>2, <2>3, <2>4, <2>5, <2>6 DEF TypeOK
<1>5. Integrity
  BY DEF Init, Integrity
<1>2. QueuedSlots = {} /\ CurSlots = {} /\ DeliveredSlots = {}
  BY DEF Init, QueuedSlots, CurSlots, DeliveredSlots, Named, Nothing
<1>3. OneOwner /\ NoLeak
  <2>1. QueueOnce
    BY DEF Init, QueueOnce
  <2>2. CurOnce
    BY DEF Init, CurOnce, Current, Nothing
  <2>3. DeliveredOnce
    BY DEF Init, DeliveredOnce
  <2>4. KindsApart
    BY <1>2 DEF KindsApart
  <2>5. NoLeak
    BY <1>2 DEF Init, NoLeak, Owned
  <2> QED
    BY <2>1, <2>2, <2>3, <2>4, <2>5 DEF OneOwner
<1>4. Counted /\ ~doubled
  <2>1. Slots \ free = {}
    BY DEF Init
  <2> QED
    BY <2>1, FS_EmptySet DEF Init, Counted
<1> QED
  BY <1>1, <1>3, <1>4, <1>5 DEF IInv

(* Every operation of the store keeps the inductive invariant.             *)
LEMMA StepIInv == IInv /\ [Next]_vars => IInv'
<1> SUFFICES ASSUME IInv, [Next]_vars PROVE IInv'
  OBVIOUS
<1>1. ASSUME NEW q \in Class, NEW m \in Payloads, Submit(q, m) PROVE IInv'
  BY <1>1, SubmitKeeps
<1>2. CASE OpenPrio
  BY <1>2, PopKeeps DEF OpenPrio, Class, Current
<1>3. CASE OpenBulk
  BY <1>3, PopKeeps DEF OpenBulk, Class, Current
<1>4. ASSUME NEW c \in Current, Complete(c) PROVE IInv'
  BY <1>4, ReleaseKeeps DEF Complete
<1>5. CASE AbortBulk
  BY <1>5, ReleaseKeeps DEF AbortBulk, Current
<1>6. ASSUME NEW m \in Payloads, Deliver(m) PROVE IInv'
  BY <1>6, DeliverKeeps
<1>7. CASE DeliveredReset
  BY <1>7, ResetKeeps
<1>8. CASE UNCHANGED vars
  <2>1. /\ free' = free /\ pool_used' = pool_used /\ pool' = pool
        /\ queue' = queue /\ cur' = cur /\ delivered' = delivered
    BY <1>8 DEF vars
  <2>2. doubled' = doubled
    BY <1>8 DEF vars
  <2>3. TypeOK' /\ ~doubled'
    BY <2>1, <2>2 DEF IInv, TypeOK
  <2>4. /\ QueuedSlots' = QueuedSlots /\ CurSlots' = CurSlots
        /\ DeliveredSlots' = DeliveredSlots
    BY <2>1 DEF QueuedSlots, CurSlots, DeliveredSlots, Named
  <2>5. OneOwner' /\ NoLeak'
    BY <2>1, <2>4 DEF IInv, OneOwner, QueueOnce, CurOnce, DeliveredOnce,
                      KindsApart, NoLeak, Owned
  <2>6. Integrity' /\ Counted'
    BY <2>1 DEF IInv, Integrity, Counted
  <2> QED
    BY <2>3, <2>5, <2>6 DEF IInv
<1> QED
  BY <1>1, <1>2, <1>3, <1>4, <1>5, <1>6, <1>7, <1>8 DEF Next

(* The inductive invariant holds of every behaviour of the store.          *)
LEMMA Inductive == Spec => []IInv
<1> QED
  BY InitIInv, StepIInv, PTL DEF Spec

(* The state of the store keeps its types. *)
THEOREM TypeCorrect == Spec => []TypeOK
<1>1. IInv => TypeOK
  BY DEF IInv
<1> QED
  BY <1>1, Inductive, PTL

(* No slot ever has two owners (pool_free, pop_msg, msg_release): two      *)
(* messages never share a payload.                                         *)
THEOREM SlotsHaveOneOwner == Spec => []OneOwner
<1>1. IInv => OneOwner
  BY DEF IInv
<1> QED
  BY <1>1, Inductive, PTL

(* A slot is free exactly when nothing names it: none is lost, whatever    *)
(* the order of submissions, completions, aborts and drains.               *)
THEOREM SlotsNeverLeak == Spec => []NoLeak
<1>1. IInv => NoLeak
  BY DEF IInv
<1> QED
  BY <1>1, Inductive, PTL

(* Every queued, current and delivered handle reads the message it was     *)
(* given until it is released.                                             *)
THEOREM PayloadsKept == Spec => []Integrity
<1>1. IInv => Integrity
  BY DEF IInv
<1> QED
  BY <1>1, Inductive, PTL

(* station_pool_free reports the truth, and no release is a double one.    *)
THEOREM CountExact == Spec => []UsedExact
<1>1. IInv => UsedExact
  <2> SUFFICES ASSUME IInv PROVE UsedExact
    OBVIOUS
  <2>1. Slots \ free = Owned
    BY OwnedType DEF IInv, NoLeak
  <2> QED
    BY <2>1 DEF IInv, Counted, UsedExact
<1> QED
  BY <1>1, Inductive, PTL

-----------------------------------------------------------------------------
(* The link controller.  A silence charged so far is a whole number of     *)
(* intervals; it is longer than one, so only a frame heard ends it; and no *)
(* measurement that is kept is better than the best level heard since the  *)
(* last charge.                                                            *)
Measurement == [time : Int, snr : Int]
LinkType ==
  /\ now \in Nat /\ horizon \in Nat
  /\ channel \in [level : Int, bias : Nat]
  /\ rx \in [hist : Seq(Measurement), req : L!Rung, last : Int, decay : Int]
  /\ rx.last <= now /\ rx.decay <= now
  /\ before \in Nat /\ after \in Nat /\ fresh \in Int
ChargedWhole ==
  rx.decay > rx.last =>
    \E n \in Nat : /\ rx.decay = rx.last + n * StaleRx
                   /\ rx.req = L!Larger(0, before - n)
InSilence == rx.decay > rx.last => now - rx.last > StaleRx
BestHeard ==
  /\ \A i \in DOMAIN rx.hist : rx.hist[i].snr <= fresh
  /\ L!LC_SNR_NONE <= fresh
LinkInv == LinkType /\ ChargedWhole /\ InSilence /\ BestHeard
           /\ L!NoResurrection

(* The constants, from LinkAssumption.                                     *)
LEMMA LinkConstants ==
  /\ Sens \in Seq(Int) /\ Len(Sens) \in Nat \ {0}
  /\ MarginUp \in Nat /\ MarginKeep \in Nat /\ MaxAge \in Nat
  /\ StaleRx \in Nat \ {0} /\ HistLen \in Nat \ {0}
  /\ Horizons \subseteq Nat /\ Channels \subseteq [level : Int, bias : Nat]
  BY ModemAssumption DEF L!LinkAssumption

LEMMA RungSens ==
  /\ 0 \in L!Rung /\ L!Rung \subseteq Nat
  /\ \A r \in L!Rung : L!SensOf(r) \in Int
  BY LinkConstants DEF L!Rung, L!SensOf

(* Highest gives a rung that holds, or 0.                                  *)
LEMMA HighestFacts ==
  ASSUME NEW A, A \subseteq L!Rung
  PROVE  LET h == IF A = {} THEN 0 ELSE CHOOSE r \in A : \A s \in A : s <= r
         IN h \in L!Rung /\ (A # {} => h \in A) /\ (A = {} => h = 0)
<1>1. CASE A = {}
  BY <1>1, RungSens
<1>2. CASE A # {}
  <2>1. \E r \in A : \A s \in A : s <= r
    <3>1. Len(Sens) - 1 \in Nat /\ A \subseteq 0..(Len(Sens) - 1)
      BY LinkConstants DEF L!Rung
    <3> QED
      BY <3>1, <1>2, Greatest
  <2>2. (CHOOSE r \in A : \A s \in A : s <= r) \in A
    BY <2>1, Zenon
  <2> QED
    BY <2>2, <1>2
<1> QED
  BY <1>1, <1>2

(* A filtered measurement is one of the measurements, or none.             *)
LEMMA FilteredBound ==
  ASSUME NEW y, y.hist \in Seq(Measurement), NEW b \in Int, now \in Nat,
         \A i \in DOMAIN y.hist : y.hist[i].snr <= b, L!LC_SNR_NONE <= b
  PROVE  L!filtered_snr(y) \in Int /\ L!filtered_snr(y) <= b
<1> DEFINE n == Len(y.hist)
           f == [i \in 1..n |-> y.hist[i].snr]
<1>1. n \in Nat /\ DOMAIN y.hist = 1..n
  OBVIOUS
<1>2. \A i \in 1..n : y.hist[i].snr \in Int
  <2> TAKE i \in 1..n
  <2>1. y.hist[i] \in Measurement
    BY <1>1
  <2> QED
    BY <2>1 DEF Measurement
<1>3. ASSUME NEW D, D \subseteq 1..n, D # {}
      PROVE  L!Lowest(y, D) \in D
  <2> HIDE DEF n
  <2>1. \A i \in D : f[i] \in Int
    BY <1>2, <1>3
  <2>2. \E i \in D : \A j \in D : f[i] <= f[j]
    <3> HIDE DEF f
    <3> QED
      BY <1>1, <1>3, <2>1, LowestPlace, Zenon
  <2>3. \A i \in D : f[i] = y.hist[i].snr
    BY <1>3
  <2> HIDE DEF f
  <2>4. \E i \in D : \A j \in D : y.hist[i].snr <= y.hist[j].snr
    BY <2>2, <2>3
  <2> QED
    BY <2>4, Zenon DEF L!Lowest
<1>4. L!Recent(y) \subseteq 1..n
  BY <1>1 DEF L!Recent
<1>5. L!LC_SNR_NONE \in Int
  BY DEF L!LC_SNR_NONE
<1> DEFINE R == L!Recent(y)
           low == L!Lowest(y, R)
           second == L!Lowest(y, R \ {low})
<1>6. CASE R = {}
  BY <1>5, <1>6 DEF L!filtered_snr
<1>7. CASE R # {}
  <2>1. low \in R
    BY <1>3, <1>4, <1>7
  <2>2. CASE \E i, j \in R \ {low} : i # j
    <3>1. L!filtered_snr(y) = y.hist[second].snr
      BY <1>7, <2>2 DEF L!filtered_snr
    <3>2. R \ {low} # {} /\ R \ {low} \subseteq 1..n
      BY <1>4, <2>2
    <3>3. second \in 1..n
      BY <1>3, <3>2
    <3> QED
      BY <3>1, <3>3, <1>1, <1>2
  <2>3. CASE ~ \E i, j \in R \ {low} : i # j
    <3>1. L!filtered_snr(y) = y.hist[low].snr
      BY <1>7, <2>3 DEF L!filtered_snr
    <3> QED
      BY <3>1, <2>1, <1>1, <1>2, <1>4
  <2> QED
    BY <2>2, <2>3
<1> QED
  BY <1>6, <1>7

(* Outside silence the request rises to what holds with margin, and falls  *)
(* to 0 or to a rung that asks for less.                                   *)
LEMMA FollowFacts ==
  ASSUME NEW y, y.req \in L!Rung, L!filtered_snr(y) \in Int
  PROVE  /\ L!Follow(y) \in L!Rung
         /\ \/ L!filtered_snr(y) >= L!SensOf(L!Follow(y)) + MarginUp
            \/ L!Follow(y) = 0
            \/ /\ L!Follow(y) <= y.req
               /\ L!SensOf(L!Follow(y)) <= L!SensOf(y.req)
<1> DEFINE snr == L!filtered_snr(y)
           U1 == {r \in L!Rung : snr >= L!SensOf(r) + MarginUp}
           D1 == {r \in L!Rung : snr >= L!SensOf(r) + MarginKeep}
           up == IF U1 = {} THEN 0 ELSE CHOOSE r \in U1 : \A s \in U1 : s <= r
           down == IF D1 = {} THEN 0 ELSE CHOOSE r \in D1 : \A s \in D1 : s <= r
<1>1. up \in L!Rung /\ (U1 # {} => up \in U1) /\ (U1 = {} => up = 0)
  BY U1 \subseteq L!Rung, HighestFacts
<1>2. down \in L!Rung /\ (D1 # {} => down \in D1) /\ (D1 = {} => down = 0)
  BY D1 \subseteq L!Rung, HighestFacts
<1>3. L!Follow(y) = IF up > y.req THEN up
                    ELSE IF snr < L!SensOf(y.req) + MarginKeep
                         THEN L!Smaller(y.req, down)
                    ELSE y.req
  BY DEF L!Follow, L!Highest
<1>4. /\ U1 # {} => snr >= L!SensOf(up) + MarginUp
      /\ D1 # {} => snr >= L!SensOf(down) + MarginKeep
  BY <1>1, <1>2
<1> HIDE DEF up, down, U1, D1
<1>5. /\ L!SensOf(up) \in Int /\ L!SensOf(down) \in Int
      /\ L!SensOf(y.req) \in Int /\ up \in Nat /\ down \in Nat /\ y.req \in Nat
  BY <1>1, <1>2, RungSens
<1>6. CASE up > y.req
  BY <1>1, <1>3, <1>4, <1>5, <1>6
<1>7. CASE ~ up > y.req /\ snr < L!SensOf(y.req) + MarginKeep
  <2>1. L!Follow(y) = L!Smaller(y.req, down)
    BY <1>3, <1>7
  <2>2. CASE y.req < down
    BY <2>1, <2>2, <1>5 DEF L!Smaller
  <2>3. CASE ~ y.req < down
    <3>1. L!Follow(y) = down
      BY <2>1, <2>3, <1>5 DEF L!Smaller
    <3> QED
      BY <3>1, <2>3, <1>2, <1>4, <1>5, <1>7, LinkConstants
  <2> QED
    BY <2>2, <2>3
<1>8. CASE ~ up > y.req /\ ~ snr < L!SensOf(y.req) + MarginKeep
  BY <1>3, <1>5, <1>8
<1> QED
  BY <1>6, <1>7, <1>8

(* A frame heard leaves measurements no better than the best so far or its *)
(* own level, and ends every silence.                                      *)
RxType(y) ==
  /\ y \in [hist : Seq(Measurement), req : L!Rung, last : Int, decay : Int]
  /\ y.last <= now /\ y.decay <= now
LEMMA HeardFacts ==
  ASSUME LinkInv
  PROVE  LET y == L!on_rx_frame(rx)
             best == L!Larger(fresh, channel.level)
         IN /\ RxType(y) /\ y.last = now /\ y.req = rx.req
            /\ \A i \in DOMAIN y.hist : y.hist[i].snr <= best
<1> DEFINE y == L!on_rx_frame(rx)
           best == L!Larger(fresh, channel.level)
           m == [time |-> now, snr |-> channel.level]
           h == Append(rx.hist, m)
<1> USE DEF LinkInv, LinkType
<1>1. m \in Measurement /\ rx.hist \in Seq(Measurement)
  BY DEF Measurement
<1>2. h \in Seq(Measurement) /\ Tail(h) \in Seq(Measurement)
  BY <1>1
<1> DEFINE k == IF Len(h) > HistLen THEN Tail(h) ELSE h
<1>10. k \in Seq(Measurement)
  BY <1>2
<1>11. y = [rx EXCEPT !.hist = k, !.last = now]
  BY DEF L!on_rx_frame
<1>12. rx \in [hist : Seq(Measurement), req : L!Rung, last : Int, decay : Int]
  OBVIOUS
<1>3. /\ y \in [hist : Seq(Measurement), req : L!Rung, last : Int, decay : Int]
      /\ y.hist = (IF Len(h) > HistLen THEN Tail(h) ELSE h)
      /\ y.last = now /\ y.req = rx.req /\ y.decay = rx.decay
  <2> HIDE DEF k, y, h
  <2>1. y \in [hist : Seq(Measurement), req : L!Rung, last : Int, decay : Int]
    <3>1. now \in Int
      OBVIOUS
    <3> HIDE DEF LinkInv, LinkType
    <3> QED
      BY <3>1, <1>10, <1>11, <1>12, Zenon
  <2>2. y.hist = k /\ y.last = now /\ y.req = rx.req /\ y.decay = rx.decay
    BY <1>11, <1>12
  <2> QED
    BY <2>1, <2>2 DEF k
<1>4. channel.level \in Int /\ fresh \in Int
  OBVIOUS
<1>5. fresh <= best /\ channel.level <= best /\ best \in Int
  BY <1>4 DEF L!Larger
<1>6. \A i \in 1..Len(h) : h[i].snr <= best
  <2> TAKE i \in 1..Len(h)
  <2>1. CASE i = Len(rx.hist) + 1
    <3>1. h[i] = m
      BY <1>1, <2>1
    <3> QED
      BY <3>1, <1>5
  <2>2. CASE i # Len(rx.hist) + 1
    <3>1. i \in 1..Len(rx.hist) /\ h[i] = rx.hist[i]
      BY <1>1, <2>2
    <3>2. rx.hist[i].snr <= fresh /\ rx.hist[i].snr \in Int
      <4>1. rx.hist[i] \in Measurement
        BY <1>1, <3>1
      <4> QED
        BY <3>1, <4>1 DEF BestHeard, Measurement
    <3> QED
      BY <3>1, <3>2, <1>4, <1>5
  <2> QED
    BY <2>1, <2>2
<1> HIDE DEF h, y, best
<1>7. \A i \in 1..Len(Tail(h)) : Tail(h)[i] = h[i + 1] /\ i + 1 \in 1..Len(h)
  <2>1. h # <<>>
    BY <1>1 DEF h
  <2> QED
    BY <1>2, <2>1
<1>8. \A i \in DOMAIN y.hist : y.hist[i].snr <= best
  BY <1>2, <1>3, <1>6, <1>7
<1>9. RxType(y)
  BY <1>3 DEF RxType
<1> QED
  BY <1>3, <1>8, <1>9 DEF y, best

(* A silence of more than an interval charges a whole number of them, one  *)
(* at least, and not beyond now.                                           *)
LEMMA Intervals ==
  ASSUME NEW base \in Int, now \in Nat, now - base > StaleRx
  PROVE  LET n == (now - base) \div StaleRx
         IN n \in Nat \ {0} /\ n * StaleRx \in Nat
            /\ base + n * StaleRx <= now
<1> DEFINE a == now - base
           n == a \div StaleRx
           c == n * StaleRx
<1>1. StaleRx \in Nat \ {0} /\ a \in Nat
  BY LinkConstants
<1> HIDE DEF a
<1>2. a = StaleRx * n + (a % StaleRx) /\ n \in Nat
  BY <1>1, Division
<1>3. a % StaleRx \in 0..StaleRx - 1
  BY <1>1, ModRange
<1>4. StaleRx * n = c /\ c \in Nat
  BY <1>1, <1>2, SMTT(30)
<1>5. n # 0
  <2>1. n = 0 => c = 0
    BY <1>1
  <2>2. a > StaleRx
    BY DEF a
  <2> HIDE DEF n, c
  <2> QED
    BY <1>1, <1>2, <1>3, <1>4, <2>1, <2>2
<1>6. c <= a
  <2> HIDE DEF n, c
  <2> QED
    BY <1>1, <1>2, <1>3, <1>4
<1> QED
  <2>1. base + c <= now
    <3> HIDE DEF c
    <3> QED
      BY <1>4, <1>6 DEF a
  <2> QED
    BY <1>2, <1>4, <1>5, <2>1 DEF a

(* What the receiver asks with, its own state or after a frame heard.      *)
Asker(y) ==
  /\ RxType(y) /\ y.req = rx.req
  /\ \/ y = rx
     \/ /\ y.last = now
        /\ \A i \in DOMAIN y.hist :
             y.hist[i].snr <= L!Larger(fresh, channel.level)

LEMMA AskKeeps ==
  ASSUME LinkInv, NEW y, Asker(y), L!Ask(y),
         now' = now, horizon' = horizon, channel' = channel
  PROVE  LinkInv'
<1> DEFINE base == L!Base(y)
           n == (now - base) \div StaleRx
           c == n * StaleRx
<1>1. /\ y \in [hist : Seq(Measurement), req : L!Rung, last : Int, decay : Int]
      /\ y.last <= now /\ y.decay <= now
  BY DEF Asker, RxType
<1>2. /\ now \in Nat /\ horizon \in Nat
      /\ channel \in [level : Int, bias : Nat]
      /\ before \in Nat /\ after \in Nat /\ fresh \in Int
      /\ rx.req \in L!Rung /\ y.req = rx.req
  BY DEF LinkInv, LinkType, Asker
<1>3. base \in Int /\ y.last <= base /\ y.decay <= base /\ base <= now
  BY <1>1, <1>2 DEF L!Base, L!Larger
<1>4. y.req \in Nat /\ y.req \in 0..Len(Sens) - 1 /\ Len(Sens) \in Nat
  BY <1>2, RungSens, LinkConstants DEF L!Rung
<1>5. L!LC_SNR_NONE \in Int
  BY DEF L!LC_SNR_NONE
<1>6. StaleRx \in Nat \ {0}
  BY LinkConstants
<1>7. ASSUME y.decay > y.last PROVE y = rx
  BY <1>7, <1>1, <1>2 DEF Asker
<1> HIDE DEF base
<1>10. CASE L!Due(y)
  <2>1. /\ rx' = [y EXCEPT !.req = L!Larger(0, y.req - n),
                          !.decay = base + n * StaleRx, !.hist = <<>>]
        /\ before' = IF y.decay <= y.last THEN y.req ELSE before
        /\ after' = rx'.req /\ fresh' = L!LC_SNR_NONE
    BY <1>10 DEF L!Ask, L!rx_request, L!Charge, base
  <2>2. now - base > StaleRx
    BY <1>10 DEF L!Due, base
  <2>3. n \in Nat \ {0} /\ c \in Nat /\ base + c <= now
    BY <1>2, <1>3, <2>2, Intervals
  <2>4. /\ rx'.req = L!Larger(0, y.req - n) /\ rx'.decay = base + c
        /\ rx'.hist = <<>> /\ rx'.last = y.last
    BY <1>1, <2>1
  <2> DEFINE q == L!Larger(0, y.req - n)
  <2>5. q \in L!Rung /\ q \in Nat
    BY <1>4, <2>3 DEF L!Larger, L!Rung
  <2>6. rx' \in [hist : Seq(Measurement), req : L!Rung, last : Int,
                 decay : Int]
    <3>1. base + c \in Int /\ <<>> \in Seq(Measurement)
      BY <1>3, <2>3
    <3> HIDE DEF q, c, n
    <3>2. rx' = [y EXCEPT !.req = q, !.decay = base + c, !.hist = <<>>]
      BY <2>1 DEF q, c
    <3> QED
      BY <3>1, <3>2, <2>5, <1>1, Zenon
  <2>7. before' \in Nat /\ after' \in Nat /\ fresh' \in Int
    BY <1>2, <1>4, <1>5, <2>1, <2>4, <2>5
  <2>8. rx'.last <= now' /\ rx'.decay <= now'
    BY <1>1, <2>3, <2>4
  <2>9. LinkType'
    BY <1>2, <2>6, <2>7, <2>8 DEF LinkType
  <2>10. ChargedWhole'
    <3>1. CASE y.decay <= y.last
      <4>1. base = y.last /\ before' = y.req
        BY <3>1, <2>1, <1>1 DEF base, L!Base, L!Larger
      <4> QED
        BY <4>1, <2>3, <2>4 DEF ChargedWhole
    <3>2. CASE ~ y.decay <= y.last
      <4>1. y = rx /\ base = rx.decay /\ before' = before
        BY <3>2, <2>1, <1>1, <1>7 DEF base, L!Base, L!Larger
      <4>2. PICK m \in Nat : /\ rx.decay = rx.last + m * StaleRx
                             /\ rx.req = L!Larger(0, before - m)
        BY <3>2, <4>1, <1>1 DEF LinkInv, ChargedWhole
      <4>3. (m + n) * StaleRx = m * StaleRx + c /\ m * StaleRx \in Nat
        <5>1. n \in Nat
          BY <2>3
        <5> HIDE DEF n
        <5> QED
          BY <5>1, <1>6, SMTT(30)
      <4>4. rx'.decay = rx'.last + (m + n) * StaleRx
        <5>1. rx.last \in Int
          BY <4>1, <1>1
        <5> HIDE DEF n, c
        <5> QED
          BY <4>1, <4>2, <4>3, <2>3, <2>4, <5>1
      <4>5. rx'.req = L!Larger(0, before' - (m + n))
        <5> HIDE DEF n, c
        <5> QED
          BY <4>1, <4>2, <2>3, <2>4, <1>2 DEF L!Larger
      <4>6. m + n \in Nat
        BY <2>3
      <4> QED
        BY <4>4, <4>5, <4>6 DEF ChargedWhole
    <3> QED
      BY <3>1, <3>2
  <2>11. InSilence'
    <3> HIDE DEF n, c
    <3> QED
      BY <1>1, <1>2, <1>3, <1>6, <2>2, <2>4 DEF InSilence
  <2>12. BestHeard'
    BY <2>1, <2>4, <1>5 DEF BestHeard
  <2>13. (L!NoResurrection)'
    BY <2>1, <2>7 DEF L!NoResurrection
  <2> QED
    BY <2>9, <2>10, <2>11, <2>12, <2>13 DEF LinkInv
<1>11. CASE ~ L!Due(y) /\ now - y.last > StaleRx
  <2>1. y = rx
    BY <1>11, <1>1, <1>2, <1>6 DEF Asker
  <2>2. rx' = rx /\ before' = before /\ after' = after /\ fresh' = fresh
    BY <1>11, <2>1 DEF L!Ask, L!rx_request
  <2> QED
    BY <2>2 DEF LinkInv, LinkType, ChargedWhole, InSilence, BestHeard,
                L!NoResurrection
<1>12. CASE ~ L!Due(y) /\ ~ now - y.last > StaleRx
  <2>1. /\ rx' = [y EXCEPT !.req = L!Follow(y)]
        /\ before' = before /\ after' = after
        /\ fresh' = IF y # rx THEN L!Larger(fresh, channel.level) ELSE fresh
    BY <1>12 DEF L!Ask, L!rx_request
  <2>2. fresh' \in Int /\ fresh <= fresh'
    BY <1>2, <2>1 DEF L!Larger
  <2>3. /\ \A i \in DOMAIN y.hist : y.hist[i].snr <= fresh'
        /\ L!LC_SNR_NONE <= fresh'
    <3>1. L!LC_SNR_NONE <= fresh /\ (y = rx =>
             \A i \in DOMAIN y.hist : y.hist[i].snr <= fresh)
      BY DEF LinkInv, BestHeard
    <3>2. y # rx => \A i \in DOMAIN y.hist :
                      y.hist[i].snr <= L!Larger(fresh, channel.level)
      BY DEF Asker
    <3> QED
      BY <3>1, <3>2, <2>1, <2>2, <1>2, <1>5
  <2>4. L!filtered_snr(y) \in Int /\ L!filtered_snr(y) <= fresh'
    BY <1>1, <1>2, <2>2, <2>3, FilteredBound
  <2>5. /\ L!Follow(y) \in L!Rung
        /\ \/ L!filtered_snr(y) >= L!SensOf(L!Follow(y)) + MarginUp
           \/ L!Follow(y) = 0
           \/ /\ L!Follow(y) <= y.req
              /\ L!SensOf(L!Follow(y)) <= L!SensOf(y.req)
    BY <1>1, <2>4, FollowFacts
  <2> DEFINE f == L!Follow(y)
  <2> HIDE DEF f
  <2>6. /\ rx' \in [hist : Seq(Measurement), req : L!Rung, last : Int,
                    decay : Int]
        /\ rx'.hist = y.hist /\ rx'.req = f /\ rx'.last = y.last
        /\ rx'.decay = y.decay
    <3>1. rx' = [y EXCEPT !.req = f] /\ f \in L!Rung
      BY <2>1, <2>5 DEF f
    <3> QED
      BY <3>1, <1>1
  <2>7. ~ y.decay > y.last
    <3> SUFFICES ASSUME y.decay > y.last PROVE FALSE
      OBVIOUS
    <3>1. now - y.last > StaleRx
      BY <1>7 DEF LinkInv, InSilence
    <3> QED
      BY <3>1, <1>12
  <2>8. LinkType'
    BY <1>1, <1>2, <2>1, <2>2, <2>6 DEF LinkType
  <2>9. ChargedWhole' /\ InSilence'
    BY <2>6, <2>7 DEF ChargedWhole, InSilence
  <2>10. BestHeard'
    BY <2>3, <2>6 DEF BestHeard
  <2>11. (L!NoResurrection)'
    <3> SUFFICES ASSUME f > after
                 PROVE  fresh' >= L!SensOf(f) + MarginUp
      BY <2>1, <2>6 DEF L!NoResurrection
    <3>1. f \in L!Rung /\ f \in Nat /\ L!SensOf(f) \in Int
          /\ L!SensOf(y.req) \in Int /\ MarginUp \in Nat
      BY <2>5, <1>2, RungSens, LinkConstants DEF f
    <3>2. CASE L!filtered_snr(y) >= L!SensOf(f) + MarginUp
      BY <3>1, <3>2, <2>2, <2>4
    <3>3. CASE f = 0
      BY <3>3, <1>2
    <3>4. CASE f <= y.req /\ L!SensOf(f) <= L!SensOf(y.req)
      <4>1. rx.req > after
        BY <3>1, <3>4, <1>2, <1>4
      <4>2. fresh >= L!SensOf(y.req) + MarginUp
        BY <4>1, <1>2 DEF LinkInv, L!NoResurrection
      <4> QED
        BY <4>2, <3>1, <3>4, <2>2, <1>2
    <3> QED
      BY <2>5, <3>2, <3>3, <3>4 DEF f
  <2> QED
    BY <2>8, <2>9, <2>10, <2>11 DEF LinkInv
<1> QED
  BY <1>10, <1>11, <1>12

(* What an action that leaves the receiver and its history alone keeps.    *)
LEMMA LinkRest ==
  ASSUME LinkInv, UNCHANGED <<rx, L!ghosts>>,
         now' \in Nat, now' >= now, horizon' \in Nat,
         channel' \in [level : Int, bias : Nat]
  PROVE  LinkInv'
<1>1. rx' = rx /\ before' = before /\ after' = after /\ fresh' = fresh
  BY DEF L!ghosts
<1>2. now \in Nat /\ rx.last \in Int /\ rx.decay \in Int
  BY DEF LinkInv, LinkType
<1>3. StaleRx \in Nat
  BY LinkConstants
<1>4. LinkType'
  BY <1>1, <1>2 DEF LinkInv, LinkType
<1>5. InSilence'
  BY <1>1, <1>2, <1>3 DEF LinkInv, InSilence
<1> QED
  BY <1>1, <1>4, <1>5
  DEF LinkInv, ChargedWhole, BestHeard, L!NoResurrection

LEMMA LinkInit == L!Init => LinkInv
<1> SUFFICES ASSUME L!Init PROVE LinkInv
  OBVIOUS
<1> USE DEF L!Init
<1>1. L!LongAgo \in Int /\ L!LongAgo <= 0 /\ L!LC_SNR_NONE \in Int
  BY DEF L!LongAgo, L!LC_SNR_NONE
<1>2. LinkType
  BY <1>1, LinkConstants, RungSens DEF LinkType
<1>3. ChargedWhole /\ InSilence
  BY <1>1 DEF ChargedWhole, InSilence
<1>4. BestHeard
  BY <1>1 DEF BestHeard
<1>5. L!NoResurrection
  BY DEF L!NoResurrection
<1> QED
  BY <1>2, <1>3, <1>4, <1>5 DEF LinkInv

LEMMA LinkStep == LinkInv /\ L!Next => LinkInv'
<1> SUFFICES ASSUME LinkInv, L!Next PROVE LinkInv'
  OBVIOUS
<1>1. now \in Nat /\ horizon \in Nat /\ channel \in [level : Int, bias : Nat]
  BY DEF LinkInv, LinkType
<1>2. Asker(rx)
  BY DEF Asker, RxType, LinkInv, LinkType
<1>3. Asker(L!on_rx_frame(rx))
  BY HeardFacts DEF Asker
<1>4. ASSUME NEW qos, L!Exchange(qos) PROVE LinkInv'
  <2>1. now' = now /\ horizon' = horizon /\ channel' = channel
    BY <1>4 DEF L!Exchange, L!Sends
  <2>2. CASE UNCHANGED <<rx, L!ghosts>>
    BY <1>1, <2>1, <2>2, LinkRest
  <2>3. CASE L!Ask(L!on_rx_frame(rx))
    BY <1>3, <2>1, <2>3, AskKeeps
  <2> QED
    BY <1>4, <2>2, <2>3 DEF L!Exchange
<1>5. CASE L!Speaks
  <2>1. now' = now /\ horizon' = horizon /\ channel' = channel /\ L!Ask(rx)
    BY <1>5 DEF L!Speaks, L!Sends
  <2> QED
    BY <1>2, <2>1, AskKeeps
<1>6. CASE L!Tick
  <2>1. /\ now' = now + 1 /\ horizon' = horizon /\ channel' = channel
        /\ UNCHANGED <<rx, L!ghosts>>
    BY <1>6 DEF L!Tick
  <2> QED
    BY <1>1, <2>1, LinkRest
<1>7. CASE L!Changes
  <2>1. /\ now' = now /\ horizon' = horizon /\ channel' \in Channels
        /\ UNCHANGED <<rx, L!ghosts>>
    BY <1>7 DEF L!Changes
  <2>2. channel' \in [level : Int, bias : Nat]
    BY <2>1, LinkConstants
  <2> QED
    BY <1>1, <2>1, <2>2, LinkRest
<1> QED
  BY <1>4, <1>5, <1>6, <1>7 DEF L!Next, L!AnyExchange

LEMMA LinkSafe == LinkInv => L!ChargedOnce /\ L!NoResurrection
<1> SUFFICES ASSUME LinkInv, rx.decay > rx.last
             PROVE  /\ (rx.decay - rx.last) % StaleRx = 0
                    /\ rx.req = L!Larger(0, before -
                                           (rx.decay - rx.last) \div StaleRx)
  BY DEF LinkInv, L!ChargedOnce
<1>1. PICK n \in Nat : /\ rx.decay = rx.last + n * StaleRx
                       /\ rx.req = L!Larger(0, before - n)
  BY DEF LinkInv, ChargedWhole
<1> DEFINE s == rx.decay - rx.last
           c == n * StaleRx
<1>2. StaleRx \in Nat \ {0} /\ rx.last \in Int
  BY LinkConstants DEF LinkInv, LinkType
<1>3. c \in Nat /\ c = StaleRx * n
  BY <1>2, SMTT(30)
<1>4. s = c
  <2> HIDE DEF c
  <2> QED
    BY <1>1, <1>2, <1>3 DEF c
<1>5. s = StaleRx * n + 0 /\ 0 \in 0..StaleRx - 1
  BY <1>2, <1>3, <1>4
<1> HIDE DEF s, c
<1>6. s % StaleRx = 0
  BY <1>2, <1>5, Remainder
<1>7. s = StaleRx * (s \div StaleRx) + (s % StaleRx) /\ s \div StaleRx \in Nat
  BY <1>2, <1>3, <1>4, Division
<1>8. s \div StaleRx = n
  <2> DEFINE d == s \div StaleRx
  <2>1. StaleRx * d + 0 = StaleRx * n + 0 /\ d \in Nat
    BY <1>5, <1>6, <1>7
  <2> HIDE DEF d
  <2>2. d = n
    BY <2>1, <1>2, <1>5, Unique
  <2> QED
    BY <2>2 DEF d
<1> QED
  BY <1>1, <1>6, <1>8 DEF s

(* Silence is charged once per interval, and does not raise the request    *)
(* after it, whatever the ladder, its margins and the channel.             *)
THEOREM SilenceChargedAlways == ModemSpec => []SilenceCharged
<1> DEFINE Inv == which = "link" => LinkInv
<1>1. ModemInit => Inv
  BY LinkInit DEF ModemInit
<1>2. Inv /\ [ModemNext]_all => Inv'
  <2> SUFFICES ASSUME Inv, [ModemNext]_all, which' = "link" PROVE LinkInv'
    OBVIOUS
  <2>1. CASE which = "link" /\ L!Next
    BY <2>1, LinkStep
  <2>2. CASE UNCHANGED all
    <3>1. which = "link" /\ now' = now /\ horizon' = horizon
          /\ channel' = channel /\ UNCHANGED <<rx, L!ghosts>>
      BY <2>2 DEF all, L!ghosts
    <3>2. LinkInv
      BY <3>1
    <3> QED
      BY <3>1, <3>2, LinkRest DEF LinkInv, LinkType
  <2>3. CASE which = "store" /\ StoreAlone
    BY <2>3 DEF StoreAlone
  <2>4. CASE which = "usb" /\ UsbAlone
    BY <2>4 DEF UsbAlone
  <2> QED
    BY <2>1, <2>2, <2>3, <2>4 DEF ModemNext
<1>3. Inv => SilenceCharged
  BY LinkSafe DEF SilenceCharged
<1> QED
  BY <1>1, <1>2, <1>3, PTL DEF ModemSpec

-----------------------------------------------------------------------------
(* The stream of the host binding.  Where its frames start is a sum over   *)
(* the frames before, which exists and is found by induction.              *)
LEMMA BindingConstants ==
  /\ UM_TXQ \in Nat \ {0} /\ None \notin Messages /\ None \notin Nat \X Nat
  /\ MessageLen \in [Messages -> Nat \ {0}]
  /\ OtherLen \in [U!Other -> Nat \ {0}]
  /\ PollCaps \subseteq Nat \ {0}
  BY ModemAssumption DEF U!UsbModemAssumption

LEMMA FrameLength ==
  ASSUME NEW f \in U!Frames
  PROVE  U!FrameLen(f) \in Nat \ {0}
<1>1. CASE \E m \in Messages : f = U!Message(m)
  <2>1. PICK m \in Messages : f = U!Message(m)
    BY <1>1
  <2> QED
    BY <2>1, BindingConstants DEF U!FrameLen, U!Message
<1>2. CASE \E k \in U!Other : f = U!Plain(k)
  <2>1. PICK k \in U!Other : f = U!Plain(k)
    BY <1>2
  <2>2. f.kind = k /\ k # "message"
    BY <2>1 DEF U!Plain, U!Other
  <2> QED
    BY <2>2, BindingConstants DEF U!FrameLen
<1> QED
  BY <1>1, <1>2 DEF U!Frames

LEMMA Sums ==
  ASSUME NEW s \in Seq(U!Frames)
  PROVE  \E g \in [0..Len(s) -> Nat] :
           g = [i \in 0..Len(s) |->
                  IF i = 0 THEN 0 ELSE g[i - 1] + U!FrameLen(s[i])]
<1> DEFINE R(g, m) == g = [i \in 0..m |->
                             IF i = 0 THEN 0 ELSE g[i - 1] + U!FrameLen(s[i])]
           S == {m \in Nat : m <= Len(s) => \E g \in [0..m -> Nat] : R(g, m)}
<1>1. 0 \in S
  <2> DEFINE g == [i \in 0..0 |-> 0]
  <2>1. g \in [0..0 -> Nat] /\ R(g, 0)
    OBVIOUS
  <2> QED
    BY <2>1
<1>2. ASSUME NEW m \in Nat, m \in S PROVE m + 1 \in S
  <2> SUFFICES ASSUME m + 1 <= Len(s)
               PROVE  \E g \in [0..m + 1 -> Nat] : R(g, m + 1)
    OBVIOUS
  <2>1. PICK g \in [0..m -> Nat] : R(g, m)
    BY <1>2
  <2> DEFINE h == [i \in 0..m + 1 |->
                     IF i = m + 1 THEN g[m] + U!FrameLen(s[m + 1]) ELSE g[i]]
  <2>2. U!FrameLen(s[m + 1]) \in Nat
    BY FrameLength
  <2>3. h \in [0..m + 1 -> Nat]
    BY <2>2
  <2>4. ASSUME NEW i \in 0..m + 1
        PROVE  h[i] = IF i = 0 THEN 0 ELSE h[i - 1] + U!FrameLen(s[i])
    <3>1. CASE i = m + 1
      BY <3>1
    <3>2. CASE i # m + 1
      <4>1. i \in 0..m /\ h[i] = g[i] /\ (i # 0 => h[i - 1] = g[i - 1])
        BY <3>2
      <4>2. g[i] = IF i = 0 THEN 0 ELSE g[i - 1] + U!FrameLen(s[i])
        BY <2>1, <4>1
      <4> QED
        BY <4>1, <4>2
    <3> QED
      BY <3>1, <3>2
  <2>5. R(h, m + 1)
    BY <2>3, <2>4
  <2> HIDE DEF h, R
  <2> QED
    BY <2>3, <2>5
<1> HIDE DEF S
<1>3. \A m \in Nat : m \in S
  BY <1>1, <1>2, Induct
<1>4. Len(s) \in S
  BY <1>3
<1> QED
  BY <1>4 DEF S

LEMMA StartFacts ==
  ASSUME NEW s \in Seq(U!Frames)
  PROVE  /\ U!Pipe!Start(s, 1) = 0
         /\ \A n \in 1..Len(s) + 1 : U!Pipe!Start(s, n) \in Nat
         /\ \A n \in 1..Len(s) :
              U!Pipe!Start(s, n + 1) = U!Pipe!Start(s, n) + U!FrameLen(s[n])
<1> DEFINE R(g) == g = [i \in 0..Len(s) |->
                          IF i = 0 THEN 0 ELSE g[i - 1] + U!FrameLen(s[i])]
           up == CHOOSE g : R(g)
<1>1. \A n : U!Pipe!Start(s, n) = up[n - 1]
  BY DEF U!Pipe!Start
<1>2. R(up)
  BY Sums
<1> HIDE DEF up
<1>3. /\ up[0] = 0
      /\ \A i \in 1..Len(s) : up[i] = up[i - 1] + U!FrameLen(s[i])
  BY <1>2
<1> DEFINE S == {m \in Nat : m <= Len(s) => up[m] \in Nat}
<1>4. \A m \in Nat : m \in S
  <2>1. 0 \in S
    BY <1>3
  <2>2. ASSUME NEW m \in Nat, m \in S PROVE m + 1 \in S
    <3> SUFFICES ASSUME m + 1 <= Len(s) PROVE up[m + 1] \in Nat
      OBVIOUS
    <3>1. up[m] \in Nat /\ up[m + 1] = up[m] + U!FrameLen(s[m + 1])
      BY <1>3, <2>2
    <3> QED
      BY <3>1, FrameLength
  <2> HIDE DEF S
  <2> QED
    BY <2>1, <2>2, Induct
<1>5. \A n \in 1..Len(s) + 1 : n - 1 \in S /\ n - 1 <= Len(s)
  BY <1>4
<1>6. \A n \in 1..Len(s) : (n + 1) - 1 = n /\ n \in 1..Len(s)
  OBVIOUS
<1> HIDE DEF R
<1> QED
  BY <1>1, <1>3, <1>5, <1>6

LEMMA StartRises ==
  ASSUME NEW s \in Seq(U!Frames), NEW m \in 1..Len(s) + 1,
         NEW n \in 1..Len(s) + 1, m <= n
  PROVE  U!Pipe!Start(s, m) <= U!Pipe!Start(s, n)
<1> DEFINE S == {d \in Nat : m + d <= Len(s) + 1 =>
                              U!Pipe!Start(s, m) <= U!Pipe!Start(s, m + d)}
<1>1. 0 \in S
  BY StartFacts
<1>2. ASSUME NEW d \in Nat, d \in S PROVE d + 1 \in S
  <2> SUFFICES ASSUME m + (d + 1) <= Len(s) + 1
               PROVE  U!Pipe!Start(s, m) <= U!Pipe!Start(s, m + (d + 1))
    OBVIOUS
  <2>1. m + d \in 1..Len(s) /\ m + (d + 1) = (m + d) + 1
    OBVIOUS
  <2>2. /\ U!Pipe!Start(s, m) \in Nat /\ U!Pipe!Start(s, m + d) \in Nat
        /\ U!Pipe!Start(s, m) <= U!Pipe!Start(s, m + d)
    BY <1>2, <2>1, StartFacts
  <2>3. U!Pipe!Start(s, (m + d) + 1) =
          U!Pipe!Start(s, m + d) + U!FrameLen(s[m + d])
    BY <2>1, StartFacts
  <2>4. U!FrameLen(s[m + d]) \in Nat
    BY <2>1, FrameLength
  <2> QED
    BY <2>1, <2>2, <2>3, <2>4
<1> HIDE DEF S
<1>3. n - m \in S
  BY <1>1, <1>2, Induct
<1> QED
  BY <1>3, m + (n - m) = n DEF S

(* A frame more leaves the starts of those before it.                      *)
LEMMA StartAppend ==
  ASSUME NEW s \in Seq(U!Frames), NEW f \in U!Frames
  PROVE  /\ \A n \in 1..Len(s) + 1 :
              U!Pipe!Start(Append(s, f), n) = U!Pipe!Start(s, n)
         /\ U!Pipe!Total(Append(s, f)) = U!Pipe!Total(s) + U!FrameLen(f)
<1> DEFINE z == Append(s, f)
<1>1. /\ z \in Seq(U!Frames) /\ Len(z) = Len(s) + 1 /\ z[Len(s) + 1] = f
      /\ \A n \in 1..Len(s) : z[n] = s[n]
  OBVIOUS
<1> HIDE DEF z
<1> DEFINE S == {m \in Nat : m <= Len(s) =>
                   U!Pipe!Start(z, m + 1) = U!Pipe!Start(s, m + 1)}
<1>2. 0 \in S
  <2>1. U!Pipe!Start(z, 1) = 0 /\ U!Pipe!Start(s, 1) = 0
    BY <1>1, StartFacts
  <2> QED
    BY <2>1
<1>3. ASSUME NEW m \in Nat, m \in S PROVE m + 1 \in S
  <2> SUFFICES ASSUME m + 1 <= Len(s)
               PROVE  U!Pipe!Start(z, (m + 1) + 1) = U!Pipe!Start(s, (m + 1) + 1)
    OBVIOUS
  <2>1. m + 1 \in 1..Len(s) /\ m + 1 \in 1..Len(z)
    BY <1>1
  <2>2. U!Pipe!Start(z, m + 1) = U!Pipe!Start(s, m + 1)
    BY <1>3
  <2>3. U!Pipe!Start(z, (m + 1) + 1) =
          U!Pipe!Start(z, m + 1) + U!FrameLen(z[m + 1])
    BY <1>1, <2>1, StartFacts
  <2>4. U!Pipe!Start(s, (m + 1) + 1) =
          U!Pipe!Start(s, m + 1) + U!FrameLen(s[m + 1])
    BY <2>1, StartFacts
  <2>5. z[m + 1] = s[m + 1]
    BY <1>1, <2>1
  <2> QED
    BY <2>2, <2>3, <2>4, <2>5
<1>4. ASSUME NEW n \in 1..Len(s) + 1
      PROVE  U!Pipe!Start(z, n) = U!Pipe!Start(s, n)
  <2> HIDE DEF S
  <2>1. n - 1 \in S
    BY <1>2, <1>3, Induct
  <2> QED
    BY <2>1, (n - 1) + 1 = n DEF S
<1>5. U!Pipe!Start(z, Len(z) + 1) =
        U!Pipe!Start(z, Len(z)) + U!FrameLen(z[Len(z)])
  BY <1>1, StartFacts
<1>6. U!Pipe!Total(z) = U!Pipe!Total(s) + U!FrameLen(f)
  BY <1>1, <1>4, <1>5 DEF U!Pipe!Total
<1> QED
  BY <1>4, <1>6 DEF z

(* The unit j of frame n follows the j - 1 before it, and every position   *)
(* of the stream is one of these.                                          *)
LEMMA UnitPlace ==
  ASSUME NEW s \in Seq(U!Frames), NEW n \in 1..Len(s),
         NEW j \in 1..U!FrameLen(s[n])
  PROVE  /\ U!Pipe!UnitAt(s, U!Pipe!Start(s, n) + j) = <<n, j>>
         /\ U!Pipe!Start(s, n) + j \in 1..U!Pipe!Total(s)
<1> DEFINE k == U!Pipe!Start(s, n) + j
           Holder(i) == /\ U!Pipe!Start(s, i) < k
                        /\ k <= U!Pipe!Start(s, i) + U!FrameLen(s[i])
           h == CHOOSE i \in 1..Len(s) : Holder(i)
<1>1. U!FrameLen(s[n]) \in Nat /\ U!Pipe!Start(s, n) \in Nat
  BY FrameLength, StartFacts
<1>2. Holder(n) /\ k \in Nat
  BY <1>1
<1>3. h \in 1..Len(s) /\ Holder(h)
  BY <1>2
<1> HIDE DEF h
<1>4. U!Pipe!Start(s, h) \in Nat /\ U!FrameLen(s[h]) \in Nat
  BY <1>3, FrameLength, StartFacts
<1>5. U!Pipe!Start(s, n + 1) = U!Pipe!Start(s, n) + U!FrameLen(s[n])
  BY StartFacts
<1>6. U!Pipe!Start(s, h + 1) = U!Pipe!Start(s, h) + U!FrameLen(s[h])
  BY <1>3, StartFacts
<1>7. ~ h < n
  <2> SUFFICES ASSUME h < n PROVE FALSE
    OBVIOUS
  <2>1. U!Pipe!Start(s, h + 1) <= U!Pipe!Start(s, n)
    BY <1>3, h + 1 \in 1..Len(s) + 1, h + 1 <= n, n \in 1..Len(s) + 1,
       StartRises
  <2> QED
    BY <1>1, <1>3, <1>4, <1>6, <2>1
<1>8. ~ n < h
  <2> SUFFICES ASSUME n < h PROVE FALSE
    OBVIOUS
  <2>1. U!Pipe!Start(s, n + 1) <= U!Pipe!Start(s, h)
    BY <1>3, n + 1 \in 1..Len(s) + 1, n + 1 <= h, h \in 1..Len(s) + 1,
       StartRises
  <2> QED
    BY <1>1, <1>2, <1>3, <1>4, <1>5, <2>1
<1>9. h = n
  BY <1>3, <1>7, <1>8
<1>10. U!Pipe!UnitAt(s, k) = <<h, k - U!Pipe!Start(s, h)>>
  BY DEF U!Pipe!UnitAt, h
<1>11. k - U!Pipe!Start(s, n) = j
  BY <1>1
<1>12. U!Pipe!Start(s, n + 1) <= U!Pipe!Start(s, Len(s) + 1)
  BY n + 1 \in 1..Len(s) + 1, Len(s) + 1 \in 1..Len(s) + 1, n + 1 <= Len(s) + 1,
     StartRises
<1>13. U!Pipe!Start(s, Len(s) + 1) \in Nat
  BY Len(s) + 1 \in 1..Len(s) + 1, StartFacts
<1>14. k \in 1..U!Pipe!Total(s)
  BY <1>1, <1>5, <1>12, <1>13 DEF U!Pipe!Total
<1> QED
  BY <1>9, <1>10, <1>11, <1>14

LEMMA Covered ==
  ASSUME NEW s \in Seq(U!Frames), NEW k \in 1..U!Pipe!Total(s)
  PROVE  \E n \in 1..Len(s) : \E j \in 1..U!FrameLen(s[n]) :
           k = U!Pipe!Start(s, n) + j
<1> DEFINE T == {n \in 1..Len(s) + 1 : k <= U!Pipe!Start(s, n)}
<1>1. Len(s) + 1 \in T /\ T \subseteq Nat
  <2>1. Len(s) \in Nat /\ Len(s) + 1 \in 1..Len(s) + 1
    OBVIOUS
  <2> QED
    BY <2>1 DEF U!Pipe!Total
<1>2. PICK n \in T : \A m \in T : n <= m
  <2> HIDE DEF T
  <2> QED
    BY <1>1, LeastElement, Zenon
<1>3. n # 1
  BY <1>2, StartFacts
<1>4. n - 1 \in 1..Len(s) /\ n - 1 \notin T
  BY <1>2, <1>3
<1>5. U!Pipe!Start(s, n - 1) \in Nat
  BY <1>4, StartFacts
<1>6. U!Pipe!Start(s, n - 1) < k
  BY <1>4, <1>5
<1>7. U!Pipe!Start(s, (n - 1) + 1) =
        U!Pipe!Start(s, n - 1) + U!FrameLen(s[n - 1])
  BY <1>4, StartFacts
<1>8. (n - 1) + 1 = n /\ k <= U!Pipe!Start(s, n)
  BY <1>2
<1>9. U!FrameLen(s[n - 1]) \in Nat
  BY <1>4, FrameLength
<1> DEFINE p == n - 1
           j == k - U!Pipe!Start(s, p)
<1>10. j \in 1..U!FrameLen(s[p]) /\ k = U!Pipe!Start(s, p) + j
  BY <1>5, <1>6, <1>7, <1>8, <1>9
<1> QED
  BY <1>4, <1>10

LEMMA UnitAppend ==
  ASSUME NEW s \in Seq(U!Frames), NEW f \in U!Frames
  PROVE  /\ \A k \in 1..U!Pipe!Total(s) :
              U!Pipe!UnitAt(Append(s, f), k) = U!Pipe!UnitAt(s, k)
         /\ \A j \in 1..U!FrameLen(f) :
              U!Pipe!UnitAt(Append(s, f), U!Pipe!Total(s) + j)
                = <<Len(s) + 1, j>>
<1> DEFINE z == Append(s, f)
<1>1. /\ z \in Seq(U!Frames) /\ Len(z) = Len(s) + 1 /\ z[Len(s) + 1] = f
      /\ \A n \in 1..Len(s) : z[n] = s[n]
  OBVIOUS
<1>2. \A n \in 1..Len(s) + 1 : U!Pipe!Start(z, n) = U!Pipe!Start(s, n)
  BY StartAppend
<1> HIDE DEF z
<1>3. ASSUME NEW k \in 1..U!Pipe!Total(s)
      PROVE  U!Pipe!UnitAt(z, k) = U!Pipe!UnitAt(s, k)
  <2>5. PICK n \in 1..Len(s) : \E j \in 1..U!FrameLen(s[n]) :
          k = U!Pipe!Start(s, n) + j
    BY Covered
  <2>1. PICK j \in 1..U!FrameLen(s[n]) : k = U!Pipe!Start(s, n) + j
    BY <2>5
  <2>2. U!Pipe!UnitAt(s, k) = <<n, j>>
    BY <2>1, UnitPlace
  <2>3. n \in 1..Len(z) /\ j \in 1..U!FrameLen(z[n])
        /\ k = U!Pipe!Start(z, n) + j
    BY <1>1, <1>2, <2>1
  <2>4. U!Pipe!UnitAt(z, k) = <<n, j>>
    BY <1>1, <2>3, UnitPlace
  <2> QED
    BY <2>2, <2>4
<1>4. ASSUME NEW j \in 1..U!FrameLen(f)
      PROVE  U!Pipe!UnitAt(z, U!Pipe!Total(s) + j) = <<Len(s) + 1, j>>
  <2>1. Len(s) + 1 \in 1..Len(z) /\ j \in 1..U!FrameLen(z[Len(s) + 1])
    BY <1>1
  <2>2. U!Pipe!Start(z, Len(s) + 1) = U!Pipe!Total(s)
    BY <1>2 DEF U!Pipe!Total
  <2> QED
    BY <1>1, <2>1, <2>2, UnitPlace
<1> QED
  BY <1>3, <1>4 DEF z

-----------------------------------------------------------------------------
(* The staging ring holds the units of the stream that the host has not    *)
(* read, the oldest first, and diagnostics only among the oldest.          *)
RingType ==
  /\ txq \in [0..UM_TXQ - 1 -> (Nat \X Nat) \cup {None}]
  /\ txq_head \in 0..UM_TXQ - 1 /\ txq_len \in 0..UM_TXQ
  /\ staged \in Seq(U!Frames) /\ lost \in Seq(U!Frames)
  /\ got \in Seq(Nat \X Nat)
RingTrue ==
  /\ Len(got) + txq_len = U!Pipe!Total(staged)
  /\ \A i \in 1..txq_len :
       U!Content[i] = U!Pipe!UnitAt(staged, Len(got) + i)
DiagFirst ==
  \A i \in 1..txq_len :
    i > (UM_TXQ \div 2) + OtherLen["diag"] => U!IsOther(U!Content[i])
RingInv == RingType /\ RingTrue /\ DiagFirst

LEMMA DiagLength ==
  /\ OtherLen["diag"] \in Nat \ {0} /\ UM_TXQ \div 2 \in Nat
  /\ U!FrameLen(U!Plain("diag")) = OtherLen["diag"]
  /\ \A k \in U!Other : U!Plain(k) \in U!Frames /\ U!Plain(k).kind = k
  /\ \A m \in Messages : U!Message(m) \in U!Frames
                         /\ U!Message(m).kind = "message"
                         /\ U!Message(m).msg = m
  BY BindingConstants
  DEF U!Plain, U!Message, U!Frames, U!FrameLen, U!Other

(* A unit in the ring is of a staged frame.                                *)
LEMMA UnitFrame ==
  ASSUME RingType, RingTrue, NEW i \in 1..txq_len
  PROVE  \E n \in 1..Len(staged) : \E j \in Nat : U!Content[i] = <<n, j>>
<1>1. Len(got) + i \in 1..U!Pipe!Total(staged)
  BY DEF RingType, RingTrue
<1>2. PICK n \in 1..Len(staged) : \E j \in 1..U!FrameLen(staged[n]) :
        Len(got) + i = U!Pipe!Start(staged, n) + j
  BY <1>1, Covered DEF RingType
<1>3. PICK j \in 1..U!FrameLen(staged[n]) :
        Len(got) + i = U!Pipe!Start(staged, n) + j
  BY <1>2
<1>4. U!Pipe!UnitAt(staged, Len(got) + i) = <<n, j>>
  BY <1>3, UnitPlace DEF RingType
<1>5. staged[n] \in U!Frames
  BY DEF RingType
<1>6. j \in Nat
  BY <1>3, <1>5, FrameLength
<1> QED
  BY <1>4, <1>6 DEF RingTrue

(* A frame that fits is behind what is in the ring, and moves none of it.  *)
LEMMA WrittenFacts ==
  ASSUME RingType, NEW f \in U!Frames, U!FrameLen(f) <= UM_TXQ - txq_len,
         txq' = U!Written(U!FrameLen(f)), txq_head' = txq_head,
         txq_len' = txq_len + U!FrameLen(f)
  PROVE  /\ txq' \in [0..UM_TXQ - 1 -> (Nat \X Nat) \cup {None}]
         /\ \A i \in 1..txq_len : U!Content'[i] = U!Content[i]
         /\ \A i \in txq_len + 1..txq_len' :
              U!Content'[i] = <<Len(staged) + 1, i - txq_len>>
<1> DEFINE n == U!FrameLen(f)
           x(i) == (txq_head + i - 1) % UM_TXQ
           k(p) == (p + UM_TXQ - ((txq_head + txq_len) % UM_TXQ)) % UM_TXQ
<1>1. /\ n \in Nat \ {0} /\ UM_TXQ \in Nat \ {0} /\ txq_head \in Nat
      /\ txq_len \in 0..UM_TXQ /\ n <= UM_TXQ - txq_len
      /\ Len(staged) \in Nat
  BY FrameLength, BindingConstants DEF RingType
<1>2. txq' = [p \in 0..UM_TXQ - 1 |->
                IF k(p) < n THEN <<Len(staged) + 1, k(p) + 1>> ELSE txq[p]]
  BY DEF U!Written
<1>3. ASSUME NEW p \in 0..UM_TXQ - 1
      PROVE  k(p) \in Nat
  <2>1. p + UM_TXQ - ((txq_head + txq_len) % UM_TXQ) \in Nat
    <3>1. (txq_head + txq_len) % UM_TXQ \in 0..UM_TXQ - 1
      BY <1>1, txq_head + txq_len \in Nat, ModRange
    <3> QED
      BY <3>1, <1>1
  <2> QED
    BY <2>1, <1>1, ModRange
<1>4. ASSUME NEW i \in 1..UM_TXQ
      PROVE  /\ x(i) \in 0..UM_TXQ - 1
             /\ k(x(i)) = IF i - 1 < txq_len
                          THEN UM_TXQ + (i - 1 - txq_len)
                          ELSE i - 1 - txq_len
  <2>1. txq_head + i - 1 \in Nat
    BY <1>1
  <2>2. x(i) \in 0..UM_TXQ - 1
    BY <2>1, <1>1, ModRange
  <2>3. k(x(i)) = IF i - 1 < txq_len THEN UM_TXQ + (i - 1 - txq_len)
                                     ELSE i - 1 - txq_len
    BY <1>1, Distance
  <2> QED
    BY <2>2, <2>3
<1>5. txq' \in [0..UM_TXQ - 1 -> (Nat \X Nat) \cup {None}]
  <2> HIDE DEF k, n
  <2>1. \A p \in 0..UM_TXQ - 1 :
          (IF k(p) < n THEN <<Len(staged) + 1, k(p) + 1>> ELSE txq[p])
            \in (Nat \X Nat) \cup {None}
    BY <1>1, <1>3 DEF RingType
  <2> QED
    BY <1>2, <2>1
<1>6. /\ U!Content = [i \in 1..txq_len |-> txq[x(i)]]
      /\ U!Content' = [i \in 1..txq_len' |-> txq'[x(i)]]
  BY DEF U!Content
<1>7. txq_len' \in 0..UM_TXQ /\ txq_len <= txq_len'
      /\ txq_len' = txq_len + n
  BY <1>1
<1> HIDE DEF x, k, n
<1>8. ASSUME NEW i \in 1..txq_len PROVE U!Content'[i] = U!Content[i]
  <2>1. i \in 1..UM_TXQ /\ i \in 1..txq_len' /\ i - 1 < txq_len
    BY <1>1, <1>7
  <2>2. ~ k(x(i)) < n
    BY <1>1, <1>4, <2>1
  <2>3. x(i) \in 0..UM_TXQ - 1
    BY <1>4, <2>1
  <2> QED
    BY <1>2, <1>6, <2>1, <2>2, <2>3
<1>9. ASSUME NEW i \in txq_len + 1..txq_len'
      PROVE  U!Content'[i] = <<Len(staged) + 1, i - txq_len>>
  <2>1. i \in 1..UM_TXQ /\ i \in 1..txq_len' /\ ~ i - 1 < txq_len
    BY <1>1, <1>7
  <2>2. k(x(i)) = i - 1 - txq_len /\ x(i) \in 0..UM_TXQ - 1
    BY <1>4, <2>1
  <2>3. k(x(i)) < n /\ k(x(i)) + 1 = i - txq_len
    BY <1>1, <1>7, <2>1, <2>2
  <2> QED
    BY <1>2, <1>6, <2>1, <2>2, <2>3
<1> QED
  BY <1>5, <1>8, <1>9

(* Staging keeps the ring; a diagnostic comes only into half a ring.       *)
LEMMA PushKeeps ==
  ASSUME RingInv, NEW f \in U!Frames, U!txq_push(f), got' = got,
         f.kind = "diag" => txq_len <= UM_TXQ \div 2
  PROVE  RingInv' /\ (U!Pipe!Stage(f) \/ UNCHANGED <<staged, got>>)
<1> USE DEF RingInv
<1> DEFINE n == U!FrameLen(f)
<1>1. n \in Nat \ {0} /\ UM_TXQ \in Nat \ {0}
  BY FrameLength, BindingConstants
<1>2. CASE n > UM_TXQ - txq_len
  <2>1. /\ UNCHANGED <<txq, txq_head, txq_len, staged>>
        /\ lost' = Append(lost, f)
    BY <1>2 DEF U!txq_push
  <2>2. RingType'
    BY <2>1 DEF RingType
  <2>3. RingTrue' /\ DiagFirst'
    BY <2>1 DEF RingTrue, DiagFirst, U!Content, U!IsOther
  <2> QED
    BY <2>1, <2>2, <2>3
<1>3. CASE ~ n > UM_TXQ - txq_len
  <2>1. /\ txq' = U!Written(n) /\ txq_len' = txq_len + n
        /\ staged' = Append(staged, f) /\ UNCHANGED <<txq_head, lost>>
    BY <1>3 DEF U!txq_push
  <2>2. n <= UM_TXQ - txq_len /\ txq_len \in Nat /\ txq_len <= UM_TXQ
    BY <1>1, <1>3 DEF RingType
  <2>3. /\ txq' \in [0..UM_TXQ - 1 -> (Nat \X Nat) \cup {None}]
        /\ \A i \in 1..txq_len : U!Content'[i] = U!Content[i]
        /\ \A i \in txq_len + 1..txq_len' :
             U!Content'[i] = <<Len(staged) + 1, i - txq_len>>
    BY <2>1, <2>2, WrittenFacts
  <2>4. txq_len' \in 0..UM_TXQ
    BY <1>1, <2>1, <2>2
  <2>5. RingType'
    BY <2>1, <2>3, <2>4 DEF RingType
  <2>6. U!Pipe!Total(staged') = U!Pipe!Total(staged) + n
    BY <2>1, StartAppend DEF RingType
  <2>7. Len(got) \in Nat /\ Len(got) + txq_len = U!Pipe!Total(staged)
    BY DEF RingType, RingTrue
  <2>8. ASSUME NEW i \in 1..txq_len'
        PROVE  U!Content'[i] = U!Pipe!UnitAt(staged', Len(got) + i)
    <3>1. CASE i <= txq_len
      <4>1. i \in 1..txq_len
        BY <3>1, <2>2, <2>8
      <4>2. Len(got) + i \in 1..U!Pipe!Total(staged)
        BY <2>2, <2>7, <4>1
      <4>3. U!Pipe!UnitAt(staged', Len(got) + i)
              = U!Pipe!UnitAt(staged, Len(got) + i)
        BY <2>1, <4>2, UnitAppend DEF RingType
      <4> QED
        BY <2>3, <4>1, <4>3 DEF RingTrue
    <3>2. CASE ~ i <= txq_len
      <4> DEFINE j == i - txq_len
      <4>1. i \in txq_len + 1..txq_len' /\ j \in 1..n
        BY <3>2, <2>1, <2>2, <2>4, <1>1
      <4>2. Len(got) + i = U!Pipe!Total(staged) + j
        BY <2>2, <2>7
      <4> HIDE DEF n
      <4>3. U!Pipe!UnitAt(staged', U!Pipe!Total(staged) + j)
              = <<Len(staged) + 1, j>>
        BY <2>1, <4>1, UnitAppend DEF RingType, n
      <4> QED
        BY <2>3, <4>1, <4>2, <4>3
    <3> QED
      BY <3>1, <3>2
  <2>9. RingTrue'
    <3> HIDE DEF n
    <3> QED
      BY <2>1, <2>2, <2>6, <2>7, <2>8, <1>1 DEF RingTrue
  <2>10. DiagFirst'
    <3> SUFFICES ASSUME NEW i \in 1..txq_len',
                        i > (UM_TXQ \div 2) + OtherLen["diag"]
                 PROVE  U!IsOther(U!Content[i])'
      BY DEF DiagFirst
    <3>1. CASE i <= txq_len
      <4>1. i \in 1..txq_len
        BY <3>1, <2>2
      <4>2. PICK p \in 1..Len(staged), j \in Nat : U!Content[i] = <<p, j>>
        BY <4>1, UnitFrame
      <4>3. staged[p].kind # "diag"
        BY <4>1, <4>2 DEF DiagFirst, U!IsOther
      <4>4. staged'[p] = staged[p]
        BY <2>1, <4>2 DEF RingType
      <4>5. U!Content'[i] = <<p, j>>
        BY <2>3, <4>1, <4>2
      <4>6. <<p, j>> # None
        BY BindingConstants, <4>2
      <4> QED
        BY <4>3, <4>4, <4>5, <4>6 DEF U!IsOther
    <3>2. CASE ~ i <= txq_len
      <4>1. i \in txq_len + 1..txq_len'
        BY <3>2, <2>2, <2>4
      <4>2. U!Content'[i] = <<Len(staged) + 1, i - txq_len>>
        BY <2>3, <4>1
      <4>3. staged'[Len(staged) + 1] = f
        BY <2>1 DEF RingType
      <4>4. <<Len(staged) + 1, i - txq_len>> # None
        <5>1. Len(staged) + 1 \in Nat /\ i - txq_len \in Nat
          BY <4>1, <2>2 DEF RingType
        <5> QED
          BY <5>1, BindingConstants
      <4>5. f.kind # "diag"
        <5> SUFFICES ASSUME f.kind = "diag" PROVE FALSE
          OBVIOUS
        <5>1. n = OtherLen["diag"]
          BY DEF U!FrameLen
        <5>2. txq_len <= UM_TXQ \div 2 /\ i <= txq_len + n
          BY <2>1
        <5> HIDE DEF n
        <5> QED
          BY <5>1, <5>2, <2>2, DiagLength
      <4> QED
        BY <4>2, <4>3, <4>4, <4>5 DEF U!IsOther
    <3> QED
      BY <3>1, <3>2
  <2>11. U!Pipe!Stage(f)
    <3>1. U!Pipe!Total(staged) - Len(got) + n <= UM_TXQ
      <4> HIDE DEF n
      <4> QED
        BY <1>1, <2>2, <2>7
    <3> QED
      BY <2>1, <3>1 DEF U!Pipe!Stage
  <2> QED
    BY <2>5, <2>9, <2>10, <2>11
<1> QED
  BY <1>2, <1>3

(* The host reads the oldest units, and the others move up.                *)
LEMMA PollKeeps ==
  ASSUME RingInv, NEW cap \in PollCaps, U!Poll(cap)
  PROVE  RingInv' /\ \E n \in 1..UM_TXQ : U!Pipe!Read(n)
<1> USE DEF RingInv
<1> DEFINE n == IF txq_len < cap THEN txq_len ELSE cap
<1>1. /\ cap \in Nat \ {0} /\ UM_TXQ \in Nat \ {0}
      /\ txq_len \in 0..UM_TXQ /\ txq_head \in 0..UM_TXQ - 1
      /\ got \in Seq(Nat \X Nat) /\ txq_len > 0
  BY BindingConstants DEF RingType, U!Poll
<1>2. n \in 1..txq_len
  BY <1>1
<1>3. /\ got' = got \o SubSeq(U!Content, 1, n)
      /\ txq_head' = (txq_head + n) % UM_TXQ /\ txq_len' = txq_len - n
      /\ UNCHANGED <<txq, staged, lost>>
  BY DEF U!Poll
<1> HIDE DEF n
<1>4. \A i \in 1..txq_len :
        U!Content[i] = U!Pipe!UnitAt(staged, Len(got) + i)
  BY DEF RingTrue
<1>5. U!Content \in Seq(Nat \X Nat) /\ Len(U!Content) = txq_len
  <2>1. \A i \in 1..txq_len : U!Content[i] \in Nat \X Nat
    <3> TAKE i \in 1..txq_len
    <3>1. PICK p \in 1..Len(staged), j \in Nat : U!Content[i] = <<p, j>>
      BY UnitFrame
    <3>2. p \in Nat
      BY DEF RingType
    <3> QED
      BY <3>1, <3>2
  <2>2. U!Content = [i \in 1..txq_len |-> U!Content[i]]
    BY DEF U!Content
  <2>3. txq_len \in Nat
    BY <1>1
  <2> QED
    BY <2>1, <2>2, <2>3
<1> DEFINE read == SubSeq(U!Content, 1, n)
<1>6. /\ read \in Seq(Nat \X Nat) /\ Len(read) = n
      /\ \A i \in 1..n : read[i] = U!Content[i]
  BY <1>2, <1>5
<1>7. read = [i \in 1..n |-> U!Pipe!UnitAt(staged, Len(got) + i)]
  <2>1. \A i \in 1..n : read[i] = U!Pipe!UnitAt(staged, Len(got) + i)
    <3>1. \A i \in 1..n : i \in 1..txq_len
      BY <1>1, <1>2
    <3> HIDE DEF read
    <3> QED
      BY <3>1, <1>4, <1>6
  <2>2. read = [i \in 1..n |-> read[i]]
    BY <1>6
  <2> QED
    BY <2>1, <2>2
<1> HIDE DEF read
<1>8. got' \in Seq(Nat \X Nat) /\ Len(got') = Len(got) + n
  BY <1>1, <1>3, <1>6 DEF read
<1>9. txq_len' \in 0..UM_TXQ /\ txq_head' \in 0..UM_TXQ - 1
  <2>1. txq_head + n \in Nat
    BY <1>1, <1>2
  <2>2. (txq_head + n) % UM_TXQ \in 0..UM_TXQ - 1
    BY <2>1, <1>1, ModRange
  <2> QED
    BY <2>2, <1>1, <1>2, <1>3
<1>10. RingType'
  BY <1>3, <1>8, <1>9 DEF RingType
<1>11. ASSUME NEW i \in 1..txq_len'
       PROVE  U!Content'[i] = U!Content[n + i] /\ n + i \in 1..txq_len
  <2>1. n + i \in 1..txq_len /\ i \in Nat
    BY <1>1, <1>2, <1>3
  <2>2. ((txq_head + n) % UM_TXQ) + (i - 1) \in Nat
        /\ (((txq_head + n) % UM_TXQ) + (i - 1)) % UM_TXQ
             = ((txq_head + n) + (i - 1)) % UM_TXQ
    <3> DEFINE a == txq_head + n
               j == i - 1
    <3>1. a \in Nat /\ j \in Nat /\ UM_TXQ \in Nat \ {0}
      BY <1>1, <1>2
    <3> HIDE DEF a, j
    <3>2. a % UM_TXQ \in 0..UM_TXQ - 1
      BY <3>1, ModRange
    <3>3. ((a % UM_TXQ) + j) % UM_TXQ = (a + j) % UM_TXQ
      BY <3>1, Turn
    <3>4. (a % UM_TXQ) + j \in Nat
      BY <3>1, <3>2
    <3> QED
      BY <3>3, <3>4 DEF a, j
  <2>3. txq_head' + i - 1 = ((txq_head + n) % UM_TXQ) + (i - 1)
    BY <1>3, <1>9, <2>1
  <2>4. (txq_head + n) + (i - 1) = txq_head + (n + i) - 1
    BY <1>1, <1>2, <2>1
  <2>5. U!Content'[i] = txq'[(txq_head' + i - 1) % UM_TXQ]
    BY DEF U!Content
  <2>6. U!Content[n + i] = txq[(txq_head + (n + i) - 1) % UM_TXQ]
    BY <2>1 DEF U!Content
  <2> QED
    BY <1>3, <2>1, <2>2, <2>3, <2>4, <2>5, <2>6
<1>12. RingTrue'
  <2>1. Len(got') + txq_len' = U!Pipe!Total(staged')
    BY <1>1, <1>2, <1>3, <1>8 DEF RingTrue
  <2>2. ASSUME NEW i \in 1..txq_len'
        PROVE  U!Content'[i] = U!Pipe!UnitAt(staged', Len(got') + i)
    <3>1. Len(got) + (n + i) = Len(got') + i
      BY <1>1, <1>2, <1>8, <1>9
    <3> QED
      BY <3>1, <1>3, <1>4, <1>11
  <2> QED
    BY <2>1, <2>2 DEF RingTrue
<1>13. DiagFirst'
  <2> SUFFICES ASSUME NEW i \in 1..txq_len',
                      i > (UM_TXQ \div 2) + OtherLen["diag"]
               PROVE  U!IsOther(U!Content[i])'
    BY DEF DiagFirst
  <2>1. n + i \in 1..txq_len /\ n + i > (UM_TXQ \div 2) + OtherLen["diag"]
    BY <1>2, <1>9, <1>11, DiagLength
  <2>2. U!IsOther(U!Content[n + i])
    BY <2>1 DEF DiagFirst
  <2> QED
    BY <2>2, <1>3, <1>11 DEF U!IsOther
<1>14. U!Pipe!Read(n) /\ n \in 1..UM_TXQ
  <2>1. Len(got) + n <= U!Pipe!Total(staged)
    BY <1>1, <1>2 DEF RingTrue
  <2> QED
    BY <1>1, <1>2, <1>3, <1>7, <2>1 DEF U!Pipe!Read, read
<1> QED
  BY <1>10, <1>12, <1>13, <1>14

(* When a frame is refused, the newest units of the ring are of frames     *)
(* other than diagnostics.                                                 *)
LEMMA RefusedFull ==
  ASSUME RingInv, NEW f \in U!Frames, U!txq_push(f)
  PROVE  U!Shedding
<1> USE DEF RingInv
<1> SUFFICES ASSUME lost' # lost
             PROVE  U!Cardinality({i \in 1..txq_len : U!IsOther(U!Content[i])})
                      + U!FrameLen(f)
                    > UM_TXQ - (UM_TXQ \div 2) - OtherLen["diag"]
  <2>1. lost' # lost => lost'[Len(lost')] = f
    BY DEF U!txq_push, RingType
  <2> QED
    BY <2>1 DEF U!Shedding
<1>1. U!FrameLen(f) > UM_TXQ - txq_len
  BY DEF U!txq_push
<1> DEFINE d == (UM_TXQ \div 2) + OtherLen["diag"]
           K == {i \in 1..txq_len : U!IsOther(U!Content[i])}
<1>2. /\ d \in Nat /\ txq_len \in 0..UM_TXQ /\ UM_TXQ \in Nat
      /\ U!FrameLen(f) \in Nat
  BY DiagLength, FrameLength, BindingConstants DEF RingType
<1>3. d + 1..txq_len \subseteq K
  BY <1>2 DEF DiagFirst
<1>4. IsFiniteSet(1..txq_len) /\ K \subseteq 1..txq_len
  <2>1. 0 \in Int /\ 1 \in Int /\ txq_len \in Int
    BY <1>2
  <2>2. IsFiniteSet(1..txq_len)
    BY <2>1, FS_Interval
  <2> QED
    BY <2>2
<1> HIDE DEF K, d
<1>5. IsFiniteSet(K)
  BY <1>4, FS_Subset
<1>6. Cardinality(d + 1..txq_len) <= Cardinality(K) /\ Cardinality(K) \in Nat
  BY <1>3, <1>5, FS_Subset, FS_CardinalityType
<1>7. Cardinality(d + 1..txq_len)
        = IF d + 1 > txq_len THEN 0 ELSE txq_len - (d + 1) + 1
  BY <1>2, FS_Interval
<1>8. Cardinality(K) >= txq_len - d
  BY <1>2, <1>6, <1>7
<1>9. U!Cardinality(K) = Cardinality(K)
  BY DEF U!Cardinality, Cardinality
<1>10. U!Cardinality(K) + U!FrameLen(f) > UM_TXQ - d
  BY <1>1, <1>2, <1>6, <1>8, <1>9
<1>11. UM_TXQ - d = UM_TXQ - (UM_TXQ \div 2) - OtherLen["diag"]
  BY <1>2, DiagLength DEF d
<1> QED
  BY <1>10, <1>11 DEF K

-----------------------------------------------------------------------------
(* The delivered log.  A message that was delivered is in one of the four  *)
(* places, and the order in which the host is told of messages, and will   *)
(* be, is that in which they were delivered.                               *)
Known == {completed[i] : i \in 1..Len(completed)}
Earlier(a, b) ==
  \E i, j \in 1..Len(completed) : /\ i < j
                                  /\ completed[i] = a /\ completed[j] = b
LogType ==
  /\ completed \in Seq(Messages) /\ delivered \in Seq(Messages)
  /\ delivered_seen \in 0..Len(delivered)
  /\ staged \in Seq(U!Frames) /\ lost \in Seq(U!Frames)
Once ==
  \A i, j \in 1..Len(completed) : completed[i] = completed[j] => i = j
Apart ==
  /\ U!Waiting \cap U!Told = {} /\ U!Waiting \cap U!Refused = {}
  /\ U!Waiting \cap discarded = {} /\ U!Told \cap U!Refused = {}
  /\ U!Told \cap discarded = {} /\ U!Refused \cap discarded = {}
AllPlaced == Known = U!Waiting \cup U!Told \cup U!Refused \cup discarded
LogOrder ==
  /\ \A i \in 1..Len(delivered) : delivered[i] \in Known
  /\ \A i, j \in 1..Len(delivered) :
       i < j => Earlier(delivered[i], delivered[j])
ToldOrder ==
  /\ \A i, j \in U!MessagesOf(staged) :
       i < j => Earlier(staged[i].msg, staged[j].msg)
  /\ \A i \in U!MessagesOf(staged) :
       \A j \in delivered_seen + 1..Len(delivered) :
         Earlier(staged[i].msg, delivered[j])
LogInv == LogType /\ Once /\ Apart /\ AllPlaced /\ LogOrder /\ ToldOrder

LEMMA MessagesAppend ==
  ASSUME NEW s \in Seq(U!Frames), NEW f \in U!Frames
  PROVE  /\ f.kind = "message" =>
              U!MessagesOf(Append(s, f)) = U!MessagesOf(s) \cup {Len(s) + 1}
         /\ f.kind # "message" =>
              U!MessagesOf(Append(s, f)) = U!MessagesOf(s)
         /\ \A i \in U!MessagesOf(s) : Append(s, f)[i] = s[i]
         /\ Append(s, f)[Len(s) + 1] = f
         /\ Append(s, f) \in Seq(U!Frames)
<1> DEFINE z == Append(s, f)
<1>1. /\ z \in Seq(U!Frames) /\ Len(z) = Len(s) + 1 /\ z[Len(s) + 1] = f
      /\ \A n \in 1..Len(s) : z[n] = s[n]
  OBVIOUS
<1>2. 1..Len(z) = 1..Len(s) \cup {Len(s) + 1} /\ Len(s) + 1 \notin 1..Len(s)
  BY <1>1
<1> HIDE DEF z
<1>3. \A i \in U!MessagesOf(s) : z[i] = s[i] /\ i \in 1..Len(s)
  BY <1>1 DEF U!MessagesOf
<1>4. f.kind = "message" => U!MessagesOf(z) = U!MessagesOf(s) \cup {Len(s) + 1}
  <2> SUFFICES ASSUME f.kind = "message"
               PROVE  U!MessagesOf(z) = U!MessagesOf(s) \cup {Len(s) + 1}
    OBVIOUS
  <2>1. \A i \in 1..Len(z) : U!IsMessage(z[i]) <=>
          i \in U!MessagesOf(s) \cup {Len(s) + 1}
    BY <1>1, <1>2 DEF U!MessagesOf, U!IsMessage
  <2> QED
    BY <2>1, <1>2 DEF U!MessagesOf
<1>5. f.kind # "message" => U!MessagesOf(z) = U!MessagesOf(s)
  <2> SUFFICES ASSUME f.kind # "message"
               PROVE  U!MessagesOf(z) = U!MessagesOf(s)
    OBVIOUS
  <2>1. \A i \in 1..Len(z) : U!IsMessage(z[i]) <=> i \in U!MessagesOf(s)
    BY <1>1, <1>2 DEF U!MessagesOf, U!IsMessage
  <2> QED
    BY <2>1, <1>2 DEF U!MessagesOf
<1> QED
  BY <1>1, <1>3, <1>4, <1>5 DEF z

(* What staging a frame does to the places.                                *)
LEMMA PushPlaces ==
  ASSUME LogType, NEW f \in U!Frames, U!txq_push(f)
  PROVE  LET add == IF f.kind = "message" THEN {f.msg} ELSE {}
         IN \/ /\ staged' = staged /\ lost' = Append(lost, f)
               /\ U!Told' = U!Told /\ U!Refused' = U!Refused \cup add
            \/ /\ staged' = Append(staged, f) /\ lost' = lost
               /\ U!Told' = U!Told \cup add /\ U!Refused' = U!Refused
<1> DEFINE add == IF f.kind = "message" THEN {f.msg} ELSE {}
           Named_(s) == {s[i].msg : i \in U!MessagesOf(s)}
<1>1. ASSUME NEW s \in Seq(U!Frames)
      PROVE  Named_(Append(s, f)) = Named_(s) \cup add
  <2> DEFINE z == Append(s, f)
  <2>1. /\ f.kind = "message" =>
             U!MessagesOf(z) = U!MessagesOf(s) \cup {Len(s) + 1}
        /\ f.kind # "message" => U!MessagesOf(z) = U!MessagesOf(s)
        /\ \A i \in U!MessagesOf(s) : z[i] = s[i]
        /\ z[Len(s) + 1] = f
    BY MessagesAppend
  <2> HIDE DEF z
  <2>2. \A i \in U!MessagesOf(s) : z[i].msg = s[i].msg
    BY <2>1
  <2>3. {z[i].msg : i \in U!MessagesOf(s)} = Named_(s)
    BY <2>2
  <2>4. CASE f.kind = "message"
    <3>1. Named_(z) = {z[i].msg : i \in U!MessagesOf(s)} \cup {z[Len(s) + 1].msg}
      BY <2>1, <2>4
    <3> QED
      BY <2>1, <2>3, <2>4, <3>1 DEF z
  <2>5. CASE f.kind # "message"
    BY <2>1, <2>3, <2>5 DEF z
  <2> QED
    BY <2>4, <2>5
<1>2. /\ U!Told = Named_(staged) /\ U!Told' = Named_(staged')
      /\ U!Refused = Named_(lost) /\ U!Refused' = Named_(lost')
  BY DEF U!Told, U!Refused
<1>3. CASE U!FrameLen(f) > UM_TXQ - txq_len
  <2>1. staged' = staged /\ lost' = Append(lost, f)
    BY <1>3 DEF U!txq_push
  <2>2. U!Told' = U!Told
    BY <1>2, <2>1
  <2>3. U!Refused' = U!Refused \cup add
    <3> HIDE DEF add, Named_
    <3> QED
      BY <1>1, <1>2, <2>1 DEF LogType
  <2> QED
    BY <2>1, <2>2, <2>3
<1>4. CASE ~ U!FrameLen(f) > UM_TXQ - txq_len
  <2>1. lost' = lost /\ staged' = Append(staged, f)
    BY <1>4 DEF U!txq_push
  <2>2. U!Refused' = U!Refused
    BY <1>2, <2>1
  <2>3. U!Told' = U!Told \cup add
    <3> HIDE DEF add, Named_
    <3> QED
      BY <1>1, <1>2, <2>1 DEF LogType
  <2> QED
    BY <2>1, <2>2, <2>3
<1> QED
  BY <1>3, <1>4

(* Frames that are not messages change nothing here, nor does dropping a   *)
(* log that has been sent.                                                 *)
LEMMA PlainKeeps ==
  ASSUME LogInv, completed' = completed, discarded' = discarded,
         \/ \E k \in U!Other : U!txq_push(U!Plain(k))
         \/ UNCHANGED <<staged, lost>>,
         \/ UNCHANGED <<delivered, delivered_seen>>
         \/ /\ delivered' = <<>> /\ delivered_seen' = 0
            /\ delivered_seen >= Len(delivered)
  PROVE  LogInv'
<1> USE DEF LogInv
<1>1. /\ U!Told' = U!Told /\ U!Refused' = U!Refused
      /\ staged' \in Seq(U!Frames) /\ lost' \in Seq(U!Frames)
      /\ U!MessagesOf(staged') = U!MessagesOf(staged)
      /\ \A i \in U!MessagesOf(staged) : staged'[i] = staged[i]
  <2>1. CASE UNCHANGED <<staged, lost>>
    BY <2>1 DEF U!Told, U!Refused, LogType
  <2>2. CASE \E k \in U!Other : U!txq_push(U!Plain(k))
    <3>1. PICK k \in U!Other : U!txq_push(U!Plain(k))
      BY <2>2
    <3> DEFINE f == U!Plain(k)
    <3>2. f \in U!Frames /\ f.kind # "message"
      BY DiagLength DEF U!Other
    <3> HIDE DEF f
    <3>3. U!txq_push(f)
      BY <3>1 DEF f
    <3>4. \/ /\ staged' = staged /\ lost' = Append(lost, f)
             /\ U!Told' = U!Told /\ U!Refused' = U!Refused
          \/ /\ staged' = Append(staged, f) /\ lost' = lost
             /\ U!Told' = U!Told /\ U!Refused' = U!Refused
      BY <3>2, <3>3, PushPlaces
    <3>5. staged \in Seq(U!Frames) /\ lost \in Seq(U!Frames)
      BY DEF LogType
    <3>6. CASE staged' = staged /\ lost' = Append(lost, f)
               /\ U!Told' = U!Told /\ U!Refused' = U!Refused
      BY <3>2, <3>5, <3>6
    <3>7. CASE staged' = Append(staged, f) /\ lost' = lost
               /\ U!Told' = U!Told /\ U!Refused' = U!Refused
      <4>1. /\ U!MessagesOf(Append(staged, f)) = U!MessagesOf(staged)
            /\ \A i \in U!MessagesOf(staged) : Append(staged, f)[i] = staged[i]
            /\ Append(staged, f) \in Seq(U!Frames)
        BY <3>2, <3>5, MessagesAppend
      <4> QED
        BY <3>5, <3>7, <4>1
    <3> QED
      BY <3>4, <3>6, <3>7
  <2> QED
    BY <2>1, <2>2
<1>2. U!Waiting' = U!Waiting
  <2>1. CASE UNCHANGED <<delivered, delivered_seen>>
    BY <2>1 DEF U!Waiting
  <2>2. CASE /\ delivered' = <<>> /\ delivered_seen' = 0
             /\ delivered_seen >= Len(delivered)
    <3>1. delivered_seen + 1..Len(delivered) = {}
      BY <2>2 DEF LogType
    <3>2. delivered_seen' + 1..Len(delivered') = {}
      BY <2>2
    <3> QED
      BY <3>1, <3>2 DEF U!Waiting
  <2> QED
    BY <2>1, <2>2
<1>7. /\ delivered' \in Seq(Messages) /\ delivered_seen' \in 0..Len(delivered')
      /\ \A i \in 1..Len(delivered') : /\ i \in 1..Len(delivered)
                                      /\ delivered'[i] = delivered[i]
      /\ \A j \in delivered_seen' + 1..Len(delivered') :
           /\ j \in delivered_seen + 1..Len(delivered)
           /\ delivered'[j] = delivered[j]
  <2>1. CASE UNCHANGED <<delivered, delivered_seen>>
    BY <2>1 DEF LogType
  <2>2. CASE delivered' = <<>> /\ delivered_seen' = 0
    <3>1. <<>> \in Seq(Messages) /\ Len(<<>>) = 0
      OBVIOUS
    <3> QED
      BY <2>2, <3>1
  <2> QED
    BY <2>1, <2>2
<1>3. LogType'
  BY <1>1, <1>7 DEF LogType
<1>4. Once' /\ Apart' /\ AllPlaced'
  BY <1>1, <1>2 DEF Once, Apart, AllPlaced, Known
<1>8. \A a, b : Earlier(a, b)' <=> Earlier(a, b)
  BY DEF Earlier
<1>9. Known' = Known
  BY DEF Known
<1>5. LogOrder'
  BY <1>7, <1>8, <1>9 DEF LogOrder
<1>6. ToldOrder'
  BY <1>1, <1>7, <1>8 DEF ToldOrder
<1> QED
  BY <1>3, <1>4, <1>5, <1>6

(* A message delivered joins the log, behind all the others.               *)
LEMMA ArrivalKeeps ==
  ASSUME LogInv, NEW m \in Messages, U!StationDelivers(m)
  PROVE  LogInv'
<1> USE DEF LogInv
<1>1. /\ delivered' = Append(delivered, m) /\ completed' = Append(completed, m)
      /\ UNCHANGED <<delivered_seen, staged, lost, discarded>>
      /\ \A i \in 1..Len(completed) : completed[i] # m
  BY DEF U!StationDelivers, U!ringVars
<1>2. /\ completed' \in Seq(Messages) /\ Len(completed') = Len(completed) + 1
      /\ \A i \in 1..Len(completed) : completed'[i] = completed[i]
      /\ completed'[Len(completed) + 1] = m
      /\ delivered' \in Seq(Messages) /\ Len(delivered') = Len(delivered) + 1
      /\ \A i \in 1..Len(delivered) : delivered'[i] = delivered[i]
      /\ delivered'[Len(delivered) + 1] = m
      /\ Len(completed) \in Nat /\ Len(delivered) \in Nat
      /\ delivered_seen \in 0..Len(delivered)
  BY <1>1 DEF LogType
<1>3. LogType'
  BY <1>1, <1>2 DEF LogType
<1>4. Once'
  BY <1>1, <1>2 DEF Once
<1>5. 1..Len(completed') = 1..Len(completed) \cup {Len(completed) + 1}
  BY <1>2
<1>6. Known' = Known \cup {m} /\ m \notin Known
  <2>1. Known' = {completed'[i] : i \in 1..Len(completed)} \cup {m}
    BY <1>2, <1>5 DEF Known
  <2>2. {completed'[i] : i \in 1..Len(completed)} = Known
    BY <1>2 DEF Known
  <2> QED
    BY <1>1, <2>1, <2>2 DEF Known
<1>7. delivered_seen + 1..Len(delivered')
        = (delivered_seen + 1..Len(delivered)) \cup {Len(delivered) + 1}
  BY <1>2
<1>8. U!Waiting' = U!Waiting \cup {m}
  <2>1. \A i \in delivered_seen + 1..Len(delivered) : delivered'[i] = delivered[i]
    BY <1>2
  <2>2. {delivered'[i] : i \in delivered_seen + 1..Len(delivered)} = U!Waiting
    BY <2>1 DEF U!Waiting
  <2>3. U!Waiting' =
          {delivered'[i] : i \in delivered_seen + 1..Len(delivered)} \cup {m}
    BY <1>1, <1>2, <1>7 DEF U!Waiting
  <2> QED
    BY <2>2, <2>3
<1>9. U!Told' = U!Told /\ U!Refused' = U!Refused
  BY <1>1 DEF U!Told, U!Refused
<1>10. Apart'
  BY <1>1, <1>6, <1>8, <1>9 DEF Apart, AllPlaced
<1>11. AllPlaced'
  BY <1>1, <1>6, <1>8, <1>9 DEF AllPlaced
<1>12. \A a, b : Earlier(a, b) => Earlier(a, b)'
  BY <1>2, <1>5 DEF Earlier
<1>13. \A a \in Known : Earlier(a, m)'
  <2> TAKE a \in Known
  <2>1. PICK i \in 1..Len(completed) : completed[i] = a
    BY DEF Known
  <2>2. /\ i \in 1..Len(completed') /\ Len(completed) + 1 \in 1..Len(completed')
        /\ i < Len(completed) + 1
    BY <1>2
  <2> QED
    BY <1>2, <2>1, <2>2 DEF Earlier
<1>14. LogOrder'
  <2>1. ASSUME NEW i \in 1..Len(delivered') PROVE delivered'[i] \in Known'
    BY <1>2, <1>6 DEF LogOrder
  <2>2. ASSUME NEW i \in 1..Len(delivered'), NEW j \in 1..Len(delivered'), i < j
        PROVE  Earlier(delivered[i], delivered[j])'
    <3>1. i \in 1..Len(delivered) /\ delivered'[i] = delivered[i]
      BY <1>2, <2>2
    <3>2. CASE j = Len(delivered) + 1
      BY <1>2, <1>13, <3>1, <3>2 DEF LogOrder
    <3>3. CASE j # Len(delivered) + 1
      <4>1. j \in 1..Len(delivered) /\ delivered'[j] = delivered[j]
        BY <1>2, <3>3
      <4> QED
        BY <1>12, <2>2, <3>1, <4>1 DEF LogOrder
    <3> QED
      BY <3>2, <3>3
  <2> QED
    BY <2>1, <2>2 DEF LogOrder
<1>15. ToldOrder'
  <2>1. ASSUME NEW i \in U!MessagesOf(staged),
               NEW j \in delivered_seen + 1..Len(delivered')
        PROVE  Earlier(staged[i].msg, delivered[j])'
    <3>1. CASE j = Len(delivered) + 1
      <4>1. staged[i].msg \in U!Told
        BY DEF U!Told
      <4>2. staged[i].msg \in Known
        BY <4>1 DEF AllPlaced
      <4> QED
        BY <1>1, <1>2, <1>13, <3>1, <4>2
    <3>2. CASE j # Len(delivered) + 1
      <4>1. j \in delivered_seen + 1..Len(delivered)
            /\ delivered'[j] = delivered[j]
        BY <1>2, <1>7, <3>2
      <4> QED
        BY <1>1, <1>12, <4>1 DEF ToldOrder
    <3> QED
      BY <3>1, <3>2
  <2> QED
    BY <1>1, <1>12, <2>1 DEF ToldOrder
<1> QED
  BY <1>3, <1>4, <1>10, <1>11, <1>14, <1>15

(* A reset throws away what is waiting.                                    *)
LEMMA ResetLog ==
  ASSUME LogInv, U!Reset
  PROVE  LogInv'
<1> USE DEF LogInv
<1>1. /\ delivered' = <<>> /\ delivered_seen' = 0
      /\ discarded' = discarded \cup U!Waiting
      /\ UNCHANGED <<staged, lost, completed>>
  BY DEF U!Reset, U!Waiting, U!ringVars
<1>2. <<>> \in Seq(Messages) /\ Len(<<>>) = 0
  OBVIOUS
<1>3. LogType'
  BY <1>1, <1>2 DEF LogType
<1>4. delivered_seen' + 1..Len(delivered') = {} /\ 1..Len(delivered') = {}
  BY <1>1, <1>2
<1>5. U!Waiting' = {}
  BY <1>4 DEF U!Waiting
<1>6. U!Told' = U!Told /\ U!Refused' = U!Refused /\ Known' = Known
  BY <1>1 DEF U!Told, U!Refused, Known
<1>7. Apart' /\ AllPlaced'
  BY <1>1, <1>5, <1>6 DEF Apart, AllPlaced
<1>8. Once' /\ LogOrder'
  BY <1>1, <1>4 DEF Once, LogOrder
<1>9. ToldOrder'
  BY <1>1, <1>4 DEF ToldOrder, Earlier
<1> QED
  BY <1>3, <1>7, <1>8, <1>9

(* The next message of the log is told, or refused and counted.            *)
LEMMA StageKeeps ==
  ASSUME LogInv, U!TickStage
  PROVE  LogInv'
<1> USE DEF LogInv
<1> DEFINE p == delivered_seen + 1
           m == delivered[p]
           f == U!Message(m)
<1>1. /\ delivered_seen' = p /\ U!txq_push(f)
      /\ UNCHANGED <<delivered, completed, discarded>>
      /\ delivered_seen < Len(delivered)
  BY DEF U!TickStage
<1>2. p \in 1..Len(delivered) /\ delivered_seen \in Nat /\ Len(delivered) \in Nat
  BY <1>1 DEF LogType
<1>3. m \in Messages /\ f \in U!Frames /\ f.kind = "message" /\ f.msg = m
  BY <1>2, DiagLength DEF LogType
<1> HIDE DEF f, m
<1>4. \/ /\ staged' = staged /\ lost' = Append(lost, f)
         /\ U!Told' = U!Told /\ U!Refused' = U!Refused \cup {m}
      \/ /\ staged' = Append(staged, f) /\ lost' = lost
         /\ U!Told' = U!Told \cup {m} /\ U!Refused' = U!Refused
  BY <1>1, <1>3, PushPlaces
<1>5. p..Len(delivered) = {p} \cup (p + 1..Len(delivered))
  BY <1>2
<1>6. \A a, b : Earlier(a, b)' <=> Earlier(a, b)
  BY <1>1 DEF Earlier
<1>7. Known' = Known
  BY <1>1 DEF Known
<1>8. ASSUME NEW a, Earlier(a, a) PROVE FALSE
  <2>1. PICK i, j \in 1..Len(completed) :
          i < j /\ completed[i] = a /\ completed[j] = a
    BY <1>8 DEF Earlier
  <2>2. i = j
    BY <2>1 DEF Once
  <2> QED
    BY <2>1, <2>2
<1>9. \A j \in p + 1..Len(delivered) :
        j \in 1..Len(delivered) /\ Earlier(m, delivered[j])
  BY <1>2 DEF LogOrder, m
<1>10. U!Waiting = {m} \cup {delivered[j] : j \in p + 1..Len(delivered)}
  BY <1>5 DEF U!Waiting, m
<1>11. U!Waiting' = {delivered[j] : j \in p + 1..Len(delivered)}
  BY <1>1 DEF U!Waiting
<1>12. m \notin U!Waiting'
  BY <1>8, <1>9, <1>11
<1>13. LogType'
  <2>1. staged' \in Seq(U!Frames) /\ lost' \in Seq(U!Frames)
    <3>1. /\ staged \in Seq(U!Frames) /\ lost \in Seq(U!Frames)
      BY DEF LogType
    <3>2. /\ Append(staged, f) \in Seq(U!Frames)
          /\ Append(lost, f) \in Seq(U!Frames)
      BY <1>3, <3>1, MessagesAppend
    <3> QED
      BY <1>4, <3>1, <3>2
  <2>2. p \in 0..Len(delivered)
    BY <1>2
  <2> QED
    BY <1>1, <2>1, <2>2 DEF LogType
<1>14. Apart'
  BY <1>1, <1>4, <1>10, <1>11, <1>12 DEF Apart
<1>15. AllPlaced'
  BY <1>1, <1>4, <1>7, <1>10, <1>11 DEF AllPlaced
<1>16. Once' /\ LogOrder'
  BY <1>1, <1>6, <1>7 DEF Once, LogOrder
<1>17. ToldOrder'
  <2>1. \A j \in p + 1..Len(delivered) : j \in delivered_seen + 1..Len(delivered)
    BY <1>2
  <2>2. CASE staged' = staged
    BY <1>1, <1>6, <2>1, <2>2 DEF ToldOrder
  <2>3. CASE staged' = Append(staged, f)
    <3>1. /\ U!MessagesOf(staged') = U!MessagesOf(staged) \cup {Len(staged) + 1}
          /\ \A i \in U!MessagesOf(staged) : staged'[i] = staged[i]
          /\ staged'[Len(staged) + 1].msg = m
      BY <1>3, <2>3, MessagesAppend DEF LogType
    <3>2. \A i \in U!MessagesOf(staged) : i \in 1..Len(staged)
      BY DEF U!MessagesOf
    <3>3. \A i \in U!MessagesOf(staged) : Earlier(staged[i].msg, m)
      BY <1>2, <1>5 DEF ToldOrder, m
    <3>4. ASSUME NEW i \in U!MessagesOf(staged'), NEW j \in U!MessagesOf(staged'),
                 i < j
          PROVE  Earlier(staged[i].msg, staged[j].msg)'
      <4>1. i \in U!MessagesOf(staged)
        <5>1. i # Len(staged) + 1
          BY <3>1, <3>2, <3>4 DEF LogType
        <5> QED
          BY <3>1, <5>1
      <4>2. CASE j = Len(staged) + 1
        BY <1>6, <3>1, <3>3, <4>1, <4>2
      <4>3. CASE j # Len(staged) + 1
        BY <1>6, <3>1, <3>4, <4>1, <4>3 DEF ToldOrder
      <4> QED
        BY <4>2, <4>3
    <3>5. ASSUME NEW i \in U!MessagesOf(staged'), NEW j \in p + 1..Len(delivered)
          PROVE  Earlier(staged[i].msg, delivered[j])'
      <4>1. CASE i = Len(staged) + 1
        BY <1>1, <1>6, <1>9, <3>1, <4>1
      <4>2. CASE i # Len(staged) + 1
        BY <1>1, <1>6, <2>1, <3>1, <4>2 DEF ToldOrder
      <4> QED
        BY <4>1, <4>2
    <3> QED
      BY <1>1, <3>4, <3>5 DEF ToldOrder
  <2> QED
    BY <1>4, <2>2, <2>3
<1> QED
  BY <1>13, <1>14, <1>15, <1>16, <1>17

-----------------------------------------------------------------------------
UsbInv == RingInv /\ LogInv

LEMMA UsbInit == U!Init => UsbInv
<1> SUFFICES ASSUME U!Init PROVE UsbInv
  OBVIOUS
<1> USE DEF U!Init
<1>1. UM_TXQ \in Nat \ {0}
  BY BindingConstants
<1>2. RingType
  BY <1>1 DEF RingType
<1>3. Len(staged) = 0 /\ staged \in Seq(U!Frames) /\ Len(got) = 0
  OBVIOUS
<1>4. U!Pipe!Total(staged) = 0
  <2>1. U!Pipe!Start(staged, 1) = 0
    BY <1>3, StartFacts
  <2>2. Len(staged) + 1 = 1
    BY <1>3
  <2>3. U!Pipe!Total(staged) = U!Pipe!Start(staged, Len(staged) + 1)
    BY DEF U!Pipe!Total
  <2> QED
    BY <2>1, <2>2, <2>3
<1>5. RingTrue /\ DiagFirst
  BY <1>3, <1>4 DEF RingTrue, DiagFirst
<1>6. U!MessagesOf(staged) = {} /\ U!MessagesOf(lost) = {}
  BY DEF U!MessagesOf
<1>7. U!Waiting = {} /\ U!Told = {} /\ U!Refused = {} /\ Known = {}
  BY <1>6 DEF U!Waiting, U!Told, U!Refused, Known
<1>8. LogType
  BY DEF LogType
<1>9. Once /\ Apart /\ AllPlaced /\ LogOrder
  BY <1>7 DEF Once, Apart, AllPlaced, LogOrder
<1>10. ToldOrder
  BY <1>6 DEF ToldOrder
<1> QED
  BY <1>2, <1>5, <1>8, <1>9, <1>10 DEF UsbInv, RingInv, LogInv

(* What each step does: to the invariant, to the stream, and when it drops *)
(* a frame.                                                                *)
UsbStepOK ==
  /\ UsbInv'
  /\ U!Pipe!Next \/ UNCHANGED <<staged, got>>
  /\ U!Shedding

LEMMA QuietStep ==
  ASSUME UsbInv, UNCHANGED <<txq, txq_head, txq_len, staged, lost, got>>,
         LogInv'
  PROVE  UsbStepOK
<1>1. RingInv'
  BY DEF UsbInv, RingInv, RingType, RingTrue, DiagFirst, U!Content, U!IsOther
<1>2. U!Shedding
  BY DEF U!Shedding
<1> QED
  BY <1>1, <1>2 DEF UsbStepOK, UsbInv

LEMMA PushStep ==
  ASSUME UsbInv, NEW f \in U!Frames, U!txq_push(f), got' = got,
         f.kind = "diag" => txq_len <= UM_TXQ \div 2, LogInv'
  PROVE  UsbStepOK
<1>1. RingInv' /\ (U!Pipe!Stage(f) \/ UNCHANGED <<staged, got>>)
  BY PushKeeps DEF UsbInv
<1>2. U!Shedding
  BY RefusedFull DEF UsbInv
<1> QED
  BY <1>1, <1>2 DEF UsbStepOK, UsbInv, U!Pipe!Next

LEMMA UsbStep == UsbInv /\ U!Next => UsbStepOK
<1> SUFFICES ASSUME UsbInv, U!Next PROVE UsbStepOK
  OBVIOUS
<1>1. RingInv /\ LogInv
  BY DEF UsbInv
<1>2. ASSUME NEW m \in Messages, U!StationDelivers(m) PROVE UsbStepOK
  <2>1. UNCHANGED <<txq, txq_head, txq_len, staged, lost, got>>
    BY <1>2 DEF U!StationDelivers, U!ringVars
  <2> QED
    BY <1>1, <1>2, <2>1, ArrivalKeeps, QuietStep
<1>3. ASSUME NEW k \in U!Other, U!txq_push(U!Plain(k)),
             k = "diag" => txq_len <= UM_TXQ \div 2,
             UNCHANGED <<got, completed, discarded>>,
             \/ UNCHANGED <<delivered, delivered_seen>>
             \/ /\ delivered' = <<>> /\ delivered_seen' = 0
                /\ delivered_seen >= Len(delivered)
      PROVE  UsbStepOK
  <2>1. LogInv'
    BY <1>1, <1>3, PlainKeeps
  <2> DEFINE f == U!Plain(k)
  <2>2. f \in U!Frames /\ f.kind = k
    BY DiagLength
  <2>3. U!txq_push(f)
    BY <1>3
  <2> HIDE DEF f
  <2> QED
    BY <1>3, <2>1, <2>2, <2>3, PushStep
<1>4. ASSUME UNCHANGED <<txq, txq_head, txq_len, staged, lost, got>>,
             UNCHANGED <<completed, discarded>>,
             \/ UNCHANGED <<delivered, delivered_seen>>
             \/ /\ delivered' = <<>> /\ delivered_seen' = 0
                /\ delivered_seen >= Len(delivered)
      PROVE  UsbStepOK
  <2>1. LogInv'
    BY <1>1, <1>4, PlainKeeps
  <2> QED
    BY <1>4, <2>1, QuietStep
<1>5. CASE U!Ask \/ U!Emit
  <2>1. "short" \in U!Other /\ "short" # "diag"
    BY DEF U!Other
  <2> QED
    BY <1>3, <1>5, <2>1 DEF U!Ask, U!Emit
<1>6. CASE U!Diag
  <2>1. "diag" \in U!Other
    BY DEF U!Other
  <2> QED
    BY <1>3, <1>6, <2>1 DEF U!Diag, U!DiagYields
<1>7. CASE (\E on \in BOOLEAN : U!ConfigDiag(on)) \/ U!TickBegin
  BY <1>4, <1>7 DEF U!ConfigDiag, U!TickBegin, U!ringVars
<1>8. CASE U!Reset
  <2>1. UNCHANGED <<txq, txq_head, txq_len, staged, lost, got>>
    BY <1>8 DEF U!Reset, U!ringVars
  <2> QED
    BY <1>1, <1>8, <2>1, ResetLog, QuietStep
<1>9. CASE U!TickStage
  <2> DEFINE m == delivered[delivered_seen + 1]
             f == U!Message(m)
  <2>1. m \in Messages
    BY <1>1, <1>9 DEF U!TickStage, LogInv, LogType
  <2>2. f \in U!Frames /\ f.kind # "diag"
    BY <2>1, DiagLength
  <2>3. U!txq_push(f) /\ got' = got
    BY <1>9 DEF U!TickStage
  <2> HIDE DEF f
  <2> QED
    BY <1>1, <1>9, <2>2, <2>3, StageKeeps, PushStep
<1>10. ASSUME NEW status \in BOOLEAN, U!TickEnd(status) PROVE UsbStepOK
  <2>1. /\ UNCHANGED <<got, completed, discarded>>
        /\ \/ UNCHANGED <<delivered, delivered_seen>>
           \/ /\ delivered' = <<>> /\ delivered_seen' = 0
              /\ delivered_seen >= Len(delivered)
    BY <1>10 DEF U!TickEnd
  <2>2. CASE status
    <3>1. "status" \in U!Other /\ "status" # "diag"
      BY DEF U!Other
    <3>2. U!txq_push(U!Plain("status"))
      BY <1>10, <2>2 DEF U!TickEnd
    <3> QED
      BY <1>3, <2>1, <3>1, <3>2
  <2>3. CASE ~ status
    <3>1. UNCHANGED <<txq, txq_head, txq_len, staged, lost>>
      BY <1>10, <2>3 DEF U!TickEnd, U!ringVars
    <3> QED
      BY <1>4, <2>1, <3>1
  <2> QED
    BY <2>2, <2>3
<1>11. ASSUME NEW cap \in PollCaps, U!Poll(cap) PROVE UsbStepOK
  <2>1. RingInv' /\ \E n \in 1..UM_TXQ : U!Pipe!Read(n)
    BY <1>1, <1>11, PollKeeps
  <2>2. /\ UNCHANGED <<staged, lost, delivered, delivered_seen, completed,
                       discarded>>
    BY <1>11 DEF U!Poll
  <2>3. LogInv'
    BY <1>1, <2>2, PlainKeeps
  <2>4. U!Shedding
    BY <2>2 DEF U!Shedding
  <2> QED
    BY <2>1, <2>3, <2>4 DEF UsbStepOK, UsbInv, U!Pipe!Next
<1> QED
  BY <1>2, <1>5, <1>6, <1>7, <1>8, <1>9, <1>10, <1>11 DEF U!Next

LEMMA UsbSafe == UsbInv => U!Accounted
<1> SUFFICES ASSUME UsbInv PROVE U!Accounted
  OBVIOUS
<1> USE DEF UsbInv, LogInv
<1>1. ASSUME NEW i \in 1..Len(completed)
      PROVE  \E p \in U!places(completed[i]) : U!places(completed[i]) = {p}
  <2> DEFINE m == completed[i]
  <2>1. m \in U!Waiting \cup U!Told \cup U!Refused \cup discarded
    BY DEF AllPlaced, Known
  <2> HIDE DEF m
  <2>2. CASE m \in U!Waiting
    <3>1. U!places(m) = {<<1, U!Waiting>>}
      BY <2>2 DEF Apart, U!places
    <3> QED
      BY <3>1 DEF m
  <2>3. CASE m \in U!Told
    <3>1. U!places(m) = {<<2, U!Told>>}
      BY <2>3 DEF Apart, U!places
    <3> QED
      BY <3>1 DEF m
  <2>4. CASE m \in U!Refused
    <3>1. U!places(m) = {<<3, U!Refused>>}
      BY <2>4 DEF Apart, U!places
    <3> QED
      BY <3>1 DEF m
  <2>5. CASE m \in discarded
    <3>1. U!places(m) = {<<4, discarded>>}
      BY <2>5 DEF Apart, U!places
    <3> QED
      BY <3>1 DEF m
  <2> QED
    BY <2>1, <2>2, <2>3, <2>4, <2>5
<1>2. \A i \in 1..Len(completed) : U!Position(completed[i]) = i
  BY DEF U!Position, Once
<1>3. ASSUME NEW i \in U!MessagesOf(staged), NEW j \in U!MessagesOf(staged),
             i < j
      PROVE  U!Position(staged[i].msg) < U!Position(staged[j].msg)
  <2>1. PICK k, l \in 1..Len(completed) :
          k < l /\ completed[k] = staged[i].msg /\ completed[l] = staged[j].msg
    BY <1>3 DEF ToldOrder, Earlier
  <2> QED
    BY <1>2, <2>1
<1> QED
  BY <1>1, <1>3 DEF U!Accounted

LEMMA UsbAlways == ModemSpec => [](which = "usb" => UsbInv)
<1> DEFINE Inv == which = "usb" => UsbInv
<1>1. ModemInit => Inv
  BY UsbInit DEF ModemInit
<1>2. Inv /\ [ModemNext]_all => Inv'
  <2> SUFFICES ASSUME Inv, [ModemNext]_all, which' = "usb" PROVE UsbInv'
    OBVIOUS
  <2>1. CASE which = "usb" /\ U!Next
    BY <2>1, UsbStep DEF UsbStepOK
  <2>2. CASE UNCHANGED all
    <3>1. /\ which = "usb"
          /\ UNCHANGED <<txq, txq_head, txq_len, staged, lost, got>>
          /\ UNCHANGED <<completed, discarded, delivered, delivered_seen>>
      BY <2>2 DEF all
    <3>2. UsbInv /\ LogInv
      BY <3>1 DEF UsbInv
    <3>3. LogInv'
      BY <3>1, <3>2, PlainKeeps
    <3> QED
      BY <3>1, <3>2, <3>3, QuietStep DEF UsbStepOK
  <2>3. CASE which = "store" /\ StoreAlone
    BY <2>3 DEF StoreAlone
  <2>4. CASE which = "link" /\ LinkAlone
    BY <2>4 DEF LinkAlone
  <2> QED
    BY <2>1, <2>2, <2>3, <2>4 DEF ModemNext
<1> QED
  BY <1>1, <1>2, PTL DEF ModemSpec

(* Every message delivered is in exactly one place, and the host is told   *)
(* of messages in order and once, however it reads and resets (usb_modem_  *)
(* tick, UP_CMD_RESET), whatever the ring and the messages.                *)
THEOREM AccountedAlways == ModemSpec => []Accounted
<1>1. (which = "usb" => UsbInv) => Accounted
  BY UsbSafe DEF Accounted
<1> QED
  BY <1>1, UsbAlways, PTL

(* The binding implements the pipe of whole frames, and drops a frame that *)
(* is not a diagnostic only for other frames (txq_push, usb_modem_poll).   *)
THEOREM PipeImplemented == ModemSpec => ImplementsPipe
<1> DEFINE Step == which = "usb" => /\ U!Pipe!Next \/ UNCHANGED <<staged, got>>
                                    /\ U!Shedding
<1>1. (which = "usb" => UsbInv) /\ [ModemNext]_all => [Step]_all
  <2> SUFFICES ASSUME which = "usb", UsbInv, ModemNext PROVE Step
    OBVIOUS
  <2>1. U!Next
    BY DEF ModemNext
  <2> QED
    BY <2>1, UsbStep DEF UsbStepOK
<1>2. ImplementsPipe <=> [][Step]_all
  BY DEF ImplementsPipe
<1> HIDE DEF Step
<1> QED
  BY <1>1, <1>2, UsbAlways, PTL DEF ModemSpec

(* Slots of the store are neither lost, shared nor reused under an owner,  *)
(* whatever the number of slots and messages (MsgStore).                   *)
THEOREM StoreSafeAlways == ModemSpec => []StoreSafe
<1> DEFINE Inv == which = "store" => IInv
<1>1. ModemInit => Inv
  BY InitIInv DEF ModemInit
<1>2. Inv /\ [ModemNext]_all => Inv'
  <2> SUFFICES ASSUME Inv, [ModemNext]_all, which' = "store" PROVE IInv'
    OBVIOUS
  <2>1. CASE which = "store" /\ Next
    BY <2>1, StepIInv
  <2>2. CASE UNCHANGED all
    <3>1. which = "store" /\ UNCHANGED vars
      BY <2>2 DEF all, vars
    <3> QED
      BY <3>1, StepIInv
  <2>3. CASE which = "usb" /\ UsbAlone
    BY <2>3 DEF UsbAlone
  <2>4. CASE which = "link" /\ LinkAlone
    BY <2>4 DEF LinkAlone
  <2> QED
    BY <2>1, <2>2, <2>3, <2>4 DEF ModemNext
<1>3. Inv => StoreSafe
  <2> SUFFICES ASSUME IInv PROVE OneOwner /\ NoLeak /\ Integrity /\ UsedExact
    BY DEF StoreSafe
  <2>1. Slots \ free = Owned
    BY OwnedType DEF IInv, NoLeak
  <2> QED
    BY <2>1 DEF IInv, Counted, UsedExact
<1> QED
  BY <1>1, <1>2, <1>3, PTL DEF ModemSpec
=============================================================================
