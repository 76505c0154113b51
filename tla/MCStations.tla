----------------------------- MODULE MCStations -----------------------------
(***************************************************************************)
(* Five settings of a pair of stations, one per behaviour.  Bursts:        *)
(* one-way bulk at one rung with a control message, and a log that holds   *)
(* one message, so that completed transfers are refused.  Caps: the        *)
(* handshake beside one-way stop-and-wait traffic.  Legacy: bursts and     *)
(* handshake switched off, which leaves StopAndWait.  Kicked: one          *)
(* message, bursts and handshake, a rung that cannot engage a burst and    *)
(* one whose fragments are too long for it, and any one rare event.        *)
(* Falling: a longer message at all three rungs, with a collapse.          *)
(***************************************************************************)
EXTENDS MCStation

VARIABLE setting

FragSizes(rungs) == [r \in rungs |-> r]
FragMaxes(rungs) == [r \in rungs |-> IF r = EXTREME THEN 1 ELSE 2]

Bursts == INSTANCE Station WITH
  Messages <- MCOneWayMixed, ChunkCaps <- {1}, DeliveredMax <- 1,
  BurstWindow <- 2, CapsStations <- {}
Caps == INSTANCE Station WITH
  Messages <- {i1, d2}, ChunkCaps <- {1}, BurstWindow <- 1,
  CapsStations <- {A, B}
Legacy == INSTANCE Station WITH
  Messages <- MCTwoWay, ChunkCaps <- {1, 2}, BurstWindow <- 1,
  CapsStations <- {}
Kicked == INSTANCE Station WITH
  Messages <- {d2}, ChunkCaps <- {1}, DeliveredMax <- 1,
  Rungs <- {EXTREME, HIGH}, FragSize <- FragSizes({EXTREME, HIGH}),
  FragMax <- FragMaxes({EXTREME, HIGH}),
  BurstWindow <- 2, CapsStations <- {A, B},
  Rare <- {"push", "kick", "record", "verdict", "collapse"}, RareMax <- 1
Falling == INSTANCE Station WITH
  Messages <- {d1}, ChunkCaps <- {1}, DeliveredMax <- 1,
  Rungs <- {EXTREME, LOW, HIGH}, FragSize <- FragSizes({EXTREME, LOW, HIGH}),
  FragMax <- FragMaxes({EXTREME, LOW, HIGH}),
  BurstWindow <- 2, CapsStations <- {}, Rare <- {"collapse"}, RareMax <- 1

allvars == <<vars, setting>>

SettingInit ==
  \/ setting = "bursts" /\ Bursts!Init
  \/ setting = "caps" /\ Caps!Init
  \/ setting = "legacy" /\ Legacy!Init
  \/ setting = "kicked" /\ Kicked!Init
  \/ setting = "falling" /\ Falling!Init
SettingNext ==
  /\ \/ setting = "bursts" /\ Bursts!Next
     \/ setting = "caps" /\ Caps!Next
     \/ setting = "legacy" /\ Legacy!Next
     \/ setting = "kicked" /\ Kicked!Next
     \/ setting = "falling" /\ Falling!Next
  /\ UNCHANGED setting
SettingSpec == SettingInit /\ [][SettingNext]_allvars

(* Polls, decodes, timers and the host's reads go on, as in Station; the   *)
(* other settings are asked nothing about what happens in the end.         *)
Either(inBursts, inCaps) ==
  \/ setting = "bursts" /\ inBursts
  \/ setting = "caps" /\ inCaps
SettingFairness ==
  \A s \in Station :
    /\ SF_vars(Either(Bursts!Poll(s), Caps!Poll(s)))
    /\ SF_vars(Either(Bursts!Receive(s), Caps!Receive(s)))
    /\ WF_vars(Either(Bursts!Timeout(s), Caps!Timeout(s)))
    /\ WF_vars(Either(Bursts!Drain(s), Caps!Drain(s)))
FairSettings == SettingSpec /\ SettingFairness

-----------------------------------------------------------------------------
(* What the sender of a burst takes for acknowledged the receiver holds,   *)
(* and no message leaves its sender before the peer has stored it; the     *)
(* handshake does not upset the numbering of the fragments.                *)
BurstsTrue ==
  /\ setting = "bursts" => Bursts!BitmapTrue /\ Bursts!KeptBeforeReleased
  /\ setting = "caps" => Caps!ExactlyOnce

(* Bursts and handshake keep the promise of ReliableStreams.               *)
KeepPromise ==
  [][ /\ setting = "bursts" =>
           Bursts!SW!Promise!Next \/ UNCHANGED Bursts!SW!Promise!rsVars
      /\ setting = "caps" =>
           Caps!SW!Promise!Next \/ UNCHANGED Caps!SW!Promise!rsVars ]_allvars

(* Switched off, the extensions are inert: what station_poll_tx and        *)
(* station_on_decoded do is what StopAndWait says.                         *)
LegacyIsStopAndWait ==
  [][setting = "legacy" => Legacy!SW!Next \/ UNCHANGED Legacy!SW!vars]_allvars

(* Every message the host had accepted is delivered, in bursts and beside  *)
(* the handshake; only a control or an interactive one may show as dropped *)
(* for a full log, where bulk is refused and kept by its sender.  And once *)
(* the hosts have nothing more to say the handshake ends too: no probe is  *)
(* repeated for ever.                                                      *)
DeliveredInTheEnd ==
  <>[]( /\ setting \in {"bursts", "caps"} =>
              \A m \in MCOneWayMixed \cup {i1} :
                SW!Queued(m) => \/ SW!Delivered(m)
                                \/ QosOf[m] # BULK /\ SW!Dropped(m)
        /\ setting = "caps" => air = None )
=============================================================================
