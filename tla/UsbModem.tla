------------------------------ MODULE UsbModem ------------------------------
(***************************************************************************)
(* The modem as its host sees it (cport/src/usb_modem.c): commands in, and *)
(* out of a staging ring whole frames: replies, delivered messages, status *)
(* frames, firmware events and the diagnostic stream.  The host may read   *)
(* slowly or not at all.                                                   *)
(*                                                                         *)
(* A frame is a run of units, each named after the frame's place in the    *)
(* stream; the kind and the message of a frame stand for its contents.  Of *)
(* the station there is the delivered log; its queues and its store are    *)
(* those of MsgStore, and whether it accepts a submission a choice here.   *)
(***************************************************************************)
EXTENDS Integers, Sequences, FiniteSets

CONSTANTS
  UM_TXQ,        \* units in the staging ring
  Messages,      \* what the radio will deliver
  MessageLen,    \* length of the frame of each
  OtherLen,      \* length of the other frames: "short" (a reply or an
                 \* event), "status" and "diag"
  PollCaps,      \* room in the endpoint, as polls find it
  DeliveredMax,  \* ST_DELIVERED_MAX
  MaxOther,      \* bound: frames other than messages in a run
  None

Other == {"short", "status", "diag"}

UsbModemAssumption ==
  /\ UM_TXQ \in Nat \ {0}
  /\ MessageLen \in [Messages -> Nat \ {0}]
  /\ OtherLen \in [Other -> Nat \ {0}]
  /\ PollCaps \subseteq Nat \ {0}
  /\ DeliveredMax \in Nat /\ MaxOther \in Nat
  /\ None \notin Messages /\ None \notin Nat \X Nat

VARIABLES
  txq, txq_head, txq_len,  \* the staging ring
  dropped,         \* frames refused because the ring was full
  diag_on,         \* the host has asked for the diagnostic stream
  delivered,       \* the station's delivered log
  delivered_seen,  \* how much of it usb_modem_tick has sent
  ticking,         \* inside usb_modem_tick's loop over the log
  staged,          \* history: frames accepted by the ring
  lost,            \* history: frames refused by it
  got,             \* history: units the host has read
  completed,       \* history: messages delivered by the station, in order
  discarded        \* history: messages a reset threw away

ringVars == <<txq, txq_head, txq_len, dropped, staged, lost>>
vars == <<ringVars, diag_on, delivered, delivered_seen, ticking, got,
          completed, discarded>>

Message(m) == [kind |-> "message", msg |-> m]
Plain(kind) == [kind |-> kind, msg |-> None]
FrameLen(f) == IF f.kind = "message" THEN MessageLen[f.msg] ELSE OtherLen[f.kind]
Frames == {Message(m) : m \in Messages} \cup {Plain(k) : k \in Other}

Init ==
  /\ txq = [i \in 0..UM_TXQ - 1 |-> None]
  /\ txq_head = 0
  /\ txq_len = 0
  /\ dropped = 0
  /\ diag_on = FALSE
  /\ delivered = <<>>
  /\ delivered_seen = 0
  /\ ticking = FALSE
  /\ staged = <<>>
  /\ lost = <<>>
  /\ got = <<>>
  /\ completed = <<>>
  /\ discarded = {}

-----------------------------------------------------------------------------
(* The ring after n more units of the next frame: they follow the txq_len  *)
(* units that are in it.                                                   *)
Written(n) ==
  [i \in 0..UM_TXQ - 1 |->
     LET k == (i + UM_TXQ - ((txq_head + txq_len) % UM_TXQ)) % UM_TXQ
     IN  IF k < n THEN <<Len(staged) + 1, k + 1>> ELSE txq[i]]

(* Mutant of txq_push: what fits of the frame is written.                  *)
txq_pushPartly(f) ==
  LET room == UM_TXQ - txq_len
      n == IF FrameLen(f) > room THEN room ELSE FrameLen(f)
  IN  /\ txq' = Written(n)
      /\ txq_len' = txq_len + n
      /\ staged' = Append(staged, f)
      /\ UNCHANGED <<txq_head, dropped, lost>>

(* A frame is staged whole or dropped and counted.                         *)
txq_push(f) ==
  IF FrameLen(f) > UM_TXQ - txq_len
  THEN /\ dropped' = dropped + 1
       /\ lost' = Append(lost, f)
       /\ UNCHANGED <<txq, txq_head, txq_len, staged>>
  ELSE /\ txq' = Written(FrameLen(f))
       /\ txq_len' = txq_len + FrameLen(f)
       /\ staged' = Append(staged, f)
       /\ UNCHANGED <<txq_head, dropped, lost>>

others(frames) ==
  LET other(f) == f.kind # "message" IN Len(SelectSeq(frames, other))
(* The bound of the run on frames nobody must wait for.                    *)
MayEmit == others(staged) + others(lost) < MaxOther

-----------------------------------------------------------------------------
(* The station delivers a message when its log has room.                   *)
StationDelivers(m) ==
  /\ ~ticking
  /\ \A i \in 1..Len(completed) : completed[i] # m
  /\ Len(delivered) < DeliveredMax
  /\ delivered' = Append(delivered, m)
  /\ completed' = Append(completed, m)
  /\ UNCHANGED <<ringVars, diag_on, delivered_seen, ticking, got,
                 discarded>>

-----------------------------------------------------------------------------
(* on_frame: INFO, PING and an empty CONFIG are answered, a refused SUBMIT *)
(* is reported.                                                            *)
Ask ==
  /\ ~ticking
  /\ MayEmit
  /\ txq_push(Plain("short"))
  /\ UNCHANGED <<diag_on, delivered, delivered_seen, ticking, got,
                 completed, discarded>>

(* UP_CFG_DIAG_STREAM.                                                     *)
ConfigDiag(on) ==
  /\ ~ticking
  /\ diag_on' = on
  /\ UNCHANGED <<ringVars, delivered, delivered_seen, ticking, got,
                 completed, discarded>>

(* RESET empties the log, and leaves ring and queues as they are.          *)
Reset ==
  /\ ~ticking
  /\ delivered_seen' = 0
  /\ delivered' = <<>>
  /\ discarded' = discarded \cup
       {delivered[i] : i \in delivered_seen + 1..Len(delivered)}
  /\ UNCHANGED <<ringVars, diag_on, ticking, got, completed>>

-----------------------------------------------------------------------------
(* usb_modem_tick.  Nothing else runs between its steps: one entry of the  *)
(* log at a time, then the log is emptied, then the status frame.          *)
TickBegin ==
  /\ ~ticking
  /\ ticking' = TRUE
  /\ UNCHANGED <<ringVars, diag_on, delivered, delivered_seen, got,
                 completed, discarded>>

(* Mutant of TickStage: the loop ends at the first message that is refused *)
(* and the log is drained all the same.                                    *)
TickStageGivesUp ==
  LET f == Message(delivered[delivered_seen + 1])
  IN  /\ ticking
      /\ delivered_seen < Len(delivered)
      /\ delivered_seen' = IF FrameLen(f) > UM_TXQ - txq_len
                           THEN Len(delivered) ELSE delivered_seen + 1
      /\ txq_push(f)
      /\ UNCHANGED <<diag_on, delivered, ticking, got, completed,
                     discarded>>

TickStage ==
  /\ ticking
  /\ delivered_seen < Len(delivered)
  /\ delivered_seen' = delivered_seen + 1
  /\ txq_push(Message(delivered[delivered_seen + 1]))
  /\ UNCHANGED <<diag_on, delivered, ticking, got, completed,
                 discarded>>

(* Mutant of TickEnd: the log is kept until the host has read the ring.    *)
TickEndRead(status) ==
  /\ ticking
  /\ delivered_seen >= Len(delivered)
  /\ ticking' = FALSE
  /\ IF delivered_seen > 0 /\ txq_len = 0
     THEN delivered' = <<>> /\ delivered_seen' = 0
     ELSE UNCHANGED <<delivered, delivered_seen>>
  /\ IF status THEN MayEmit /\ txq_push(Plain("status"))
     ELSE UNCHANGED ringVars
  /\ UNCHANGED <<diag_on, got, completed, discarded>>

TickEnd(status) ==
  /\ ticking
  /\ delivered_seen >= Len(delivered)
  /\ ticking' = FALSE
  /\ IF delivered_seen > 0
     THEN delivered' = <<>> /\ delivered_seen' = 0
     ELSE UNCHANGED <<delivered, delivered_seen>>
  /\ IF status THEN MayEmit /\ txq_push(Plain("status"))
     ELSE UNCHANGED ringVars
  /\ UNCHANGED <<diag_on, got, completed, discarded>>

(* usb_modem_emit: a firmware event.                                       *)
Emit ==
  /\ ~ticking
  /\ MayEmit
  /\ txq_push(Plain("short"))
  /\ UNCHANGED <<diag_on, delivered, delivered_seen, ticking, got,
                 completed, discarded>>

(* usb_modem_diag.  Mutant of DiagYields: the stream does not yield.       *)
DiagYieldsNever == diag_on
DiagYields == diag_on /\ txq_len <= UM_TXQ \div 2
Diag ==
  /\ ~ticking
  /\ DiagYields
  /\ MayEmit
  /\ txq_push(Plain("diag"))
  /\ UNCHANGED <<diag_on, delivered, delivered_seen, ticking, got,
                 completed, discarded>>

(* What is in the ring, the oldest unit first.                             *)
Content == [i \in 1..txq_len |-> txq[(txq_head + i - 1) % UM_TXQ]]

(* Mutant of Poll: the head runs off the array.                            *)
PollUnwrapped(cap) ==
  LET n == IF txq_len < cap THEN txq_len ELSE cap
  IN  /\ ~ticking
      /\ txq_len > 0
      /\ got' = got \o SubSeq(Content, 1, n)
      /\ txq_head' = txq_head + n
      /\ txq_len' = txq_len - n
      /\ UNCHANGED <<txq, dropped, staged, lost, diag_on, delivered,
                     delivered_seen, ticking, completed, discarded>>

(* usb_modem_poll: the host reads as much as its endpoint holds.           *)
Poll(cap) ==
  LET n == IF txq_len < cap THEN txq_len ELSE cap
  IN  /\ ~ticking
      /\ txq_len > 0
      /\ got' = got \o SubSeq(Content, 1, n)
      /\ txq_head' = (txq_head + n) % UM_TXQ
      /\ txq_len' = txq_len - n
      /\ UNCHANGED <<txq, dropped, staged, lost, diag_on, delivered,
                     delivered_seen, ticking, completed, discarded>>

Next ==
  \/ \E m \in Messages : StationDelivers(m)
  \/ Ask
  \/ \E on \in BOOLEAN : ConfigDiag(on)
  \/ Reset
  \/ TickBegin
  \/ TickStage
  \/ \E status \in BOOLEAN : TickEnd(status)
  \/ Emit
  \/ Diag
  \/ \E cap \in PollCaps : Poll(cap)

Spec == Init /\ [][Next]_vars

(* The main loop ticks for ever; a tick is never left unfinished.  Nothing *)
(* is assumed of the host.                                                 *)
Fairness == WF_vars(TickBegin) /\ WF_vars(TickStage) /\ WF_vars(TickEnd(FALSE))
FairSpec == Spec /\ Fairness

-----------------------------------------------------------------------------
(* Type invariant of usb_modem_t: the ring keeps to its array.             *)
TypeOK ==
  /\ txq \in [0..UM_TXQ - 1 -> ((Nat \X Nat) \cup {None})]
  /\ txq_head \in 0..UM_TXQ - 1
  /\ txq_len \in 0..UM_TXQ
  /\ dropped = Len(lost)
  /\ delivered \in Seq(Messages)
  /\ delivered_seen \in 0..Len(delivered)
  /\ staged \in Seq(Frames)
  /\ lost \in Seq(Frames)

(* The host reads the staged frames, whole and in order, whatever the      *)
(* sizes in which it reads and wherever the ring wraps (txq_push,          *)
(* usb_modem_poll): never a part of one that was dropped.                  *)
Pipe == INSTANCE FramePipe WITH Capacity <- UM_TXQ
ImplementsPipe == Pipe!Spec

(* Every message the station delivered is in exactly one place: waiting in *)
(* the log, staged, dropped and counted, or thrown away by a reset; and    *)
(* the host is told of messages in the order they were delivered, none of  *)
(* them twice (usb_modem_tick, UP_CMD_RESET).                              *)
IsMessage(f) == f.kind = "message"
MessagesOf(frames) == {i \in 1..Len(frames) : IsMessage(frames[i])}
Position(m) == CHOOSE i \in 1..Len(completed) : completed[i] = m
Waiting == {delivered[i] : i \in delivered_seen + 1..Len(delivered)}
Told == {staged[i].msg : i \in MessagesOf(staged)}
Refused == {lost[i].msg : i \in MessagesOf(lost)}
places(m) == {p \in {<<1, Waiting>>, <<2, Told>>, <<3, Refused>>,
                     <<4, discarded>>} : m \in p[2]}
Accounted ==
  /\ \A i \in 1..Len(completed) :
       \E p \in places(completed[i]) : places(completed[i]) = {p}
  /\ \A i, j \in MessagesOf(staged) :
       i < j => Position(staged[i].msg) < Position(staged[j].msg)

(* "A lost diagnostic costs nothing and a lost reply costs the session":   *)
(* when a frame other than a diagnostic is dropped, it is other frames     *)
(* that fill the ring, half of it less one diagnostic (usb_modem_diag).    *)
IsOther(u) == u # None /\ staged[u[1]].kind # "diag"
Shedding ==
  LET f == lost'[Len(lost')]
      kept == Cardinality({i \in 1..txq_len : IsOther(Content[i])})
  IN  lost' # lost /\ f.kind # "diag" =>
        kept + FrameLen(f) > UM_TXQ - UM_TXQ \div 2 - OtherLen["diag"]
ShedFirst == [][Shedding]_vars

(* A delivered message does not stay in the log, whether the host reads or *)
(* not: "leaving it to fill would stall delivery at ST_DELIVERED_MAX".     *)
LogDrained == []<>(delivered = <<>>)
=============================================================================
