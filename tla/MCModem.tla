------------------------------ MODULE MCModem -------------------------------
(***************************************************************************)
(* The parts of the firmware beside the ARQ, one per behaviour: the        *)
(* message store of the station on a few slots; the host binding with a    *)
(* ring of six units, two messages of one and four units, other frames of  *)
(* one and two; and the controller of a directed link.                     *)
(***************************************************************************)
EXTENDS MCMsgStore

CONSTANTS
  UM_TXQ, Messages, MessageLen, OtherLen, PollCaps, MaxOther, Sens, MarginUp,
  MarginKeep, StaleTx, StaleRx, MaxAge, HistLen, LossStep, GainStep,
  MaxOffset, Horizons, Channels, MaxFrames, MaxFades, MaxChanges

VARIABLES
  which,   \* the component this behaviour is about
  txq, txq_head, txq_len, dropped, diag_on, delivered_seen, ticking, staged,
  lost, got, completed, discarded, now, horizon, channel, rx, tx, frames,
  fades, changes, before, after, fresh

U == INSTANCE UsbModem
L == INSTANCE LinkCtl

ASSUME ModemAssumption ==
  /\ U!UsbModemAssumption
  /\ L!LinkAssumption

MCMessages == {m1, m2}
MCMessageLen == [m \in Messages |-> IF m = m1 THEN 1 ELSE 4]
MCOtherLen == [k \in {"short", "status", "diag"} |-> IF k = "short" THEN 1 ELSE 2]
(* Rungs 0, 4 and 9 of LADDER: -17.9, -7.6 and -2.2 dB. *)
MCSens == <<-358, -152, -44>>
MCChannels == {[level |-> 10, bias |-> 60], [level |-> 120, bias |-> 200],
               [level |-> -90, bias |-> 0]}

all == <<which,
         free, pool_used, pool, queue, cur, delivered, doubled, txq, txq_head,
         txq_len, dropped, diag_on, delivered_seen, ticking, staged, lost,
         got, completed, discarded, now, horizon, channel, rx, tx, frames,
         fades, changes, before, after, fresh>>

(* The state of the components a behaviour is not about stays unset. *)
Off == "off"
StoreOnly ==
  /\ txq = Off /\ txq_head = Off /\ txq_len = Off /\ dropped = Off
  /\ diag_on = Off /\ delivered_seen = Off /\ ticking = Off /\ staged = Off
  /\ lost = Off /\ got = Off /\ completed = Off /\ discarded = Off
  /\ now = Off /\ horizon = Off /\ channel = Off /\ rx = Off /\ tx = Off
  /\ frames = Off /\ fades = Off /\ changes = Off /\ before = Off
  /\ after = Off /\ fresh = Off
StoreAlone ==
  UNCHANGED <<which,
              txq, txq_head, txq_len, dropped, diag_on, delivered_seen,
              ticking, staged, lost, got, completed, discarded, now, horizon,
              channel, rx, tx, frames, fades, changes, before, after, fresh>>
UsbOnly ==
  /\ free = Off /\ pool_used = Off /\ pool = Off /\ queue = Off /\ cur = Off
  /\ doubled = Off /\ now = Off /\ horizon = Off /\ channel = Off /\ rx = Off
  /\ tx = Off /\ frames = Off /\ fades = Off /\ changes = Off /\ before = Off
  /\ after = Off /\ fresh = Off
UsbAlone ==
  UNCHANGED <<which,
              free, pool_used, pool, queue, cur, doubled, now, horizon,
              channel, rx, tx, frames, fades, changes, before, after, fresh>>
LinkOnly ==
  /\ free = Off /\ pool_used = Off /\ pool = Off /\ queue = Off /\ cur = Off
  /\ delivered = Off /\ doubled = Off /\ txq = Off /\ txq_head = Off
  /\ txq_len = Off /\ dropped = Off /\ diag_on = Off /\ delivered_seen = Off
  /\ ticking = Off /\ staged = Off /\ lost = Off /\ got = Off
  /\ completed = Off /\ discarded = Off
LinkAlone ==
  UNCHANGED <<which,
              free, pool_used, pool, queue, cur, delivered, doubled, txq,
              txq_head, txq_len, dropped, diag_on, delivered_seen, ticking,
              staged, lost, got, completed, discarded>>

ModemInit ==
  \/ which = "store" /\ Init /\ StoreOnly
  \/ which = "usb" /\ U!Init /\ UsbOnly
  \/ which = "link" /\ L!Init /\ LinkOnly
ModemNext ==
  \/ which = "store" /\ Next /\ StoreAlone
  \/ which = "usb" /\ U!Next /\ UsbAlone
  \/ which = "link" /\ L!Next /\ LinkAlone
ModemSpec == ModemInit /\ [][ModemNext]_all

(* The main loop ticks for ever and stations go on sending, as in UsbModem *)
(* and LinkCtl.                                                            *)
usbVars == U!vars
linkVars == L!vars
FairModemSpec ==
  /\ ModemSpec
  /\ WF_usbVars(which = "usb" /\ U!TickBegin)
  /\ WF_usbVars(which = "usb" /\ U!TickStage)
  /\ WF_usbVars(which = "usb" /\ U!TickEnd(FALSE))
  /\ WF_linkVars(which = "link" /\ L!AnyExchange)

-----------------------------------------------------------------------------
(* Slots of the store are neither lost, shared nor reused under an owner,  *)
(* and their count is exact (MsgStore).                                    *)
StoreSafe ==
  which = "store" => OneOwner /\ NoLeak /\ Integrity /\ UsedExact

(* Every message delivered is in one place, and the host is told of        *)
(* messages in order and once (UsbModem).                                  *)
Accounted ==
  which = "usb" => U!Accounted

(* The host reads the staged frames whole and in order (FramePipe), and a  *)
(* frame other than a diagnostic is dropped only when other frames fill    *)
(* the ring (UsbModem).                                                    *)
ImplementsPipe ==
  [][which = "usb" =>
       /\ U!Pipe!Next \/ UNCHANGED <<staged, got>>
       /\ U!Shedding]_all

(* Silence lowers the request once per interval, and what was measured     *)
(* before it does not raise the request again (LinkCtl).                   *)
SilenceCharged ==
  which = "link" => L!ChargedOnce /\ L!NoResurrection

(* On a steady channel the learned offsets end the loss of frames          *)
(* (LinkCtl).                                                              *)
Converges ==
  <>[](which = "link" /\ L!Steady => L!Settled)

(* A delivered message does not stay in the log, whether the host reads or *)
(* not (UsbModem).                                                         *)
LogDrained ==
  []<>(which = "usb" => delivered = <<>>)
=============================================================================
