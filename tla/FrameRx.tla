------------------------------- MODULE FrameRx -------------------------------
(***************************************************************************)
(* The receiver of single frames (ofdm_phy/transceiver.py, fixed/rx.py)    *)
(* and the link station's soft combining over it (ofdm_phy/station.py).    *)
(* A recording is tried with the modem of each mode in turn; only the one  *)
(* it was sent with finds a preamble, save for false peaks.  A frame whose *)
(* header decodes and whose data do not leaves its soft values behind, and *)
(* the next attempt is decoded alone and then in sum with them.            *)
(***************************************************************************)
EXTENDS Integers, Sequences, FiniteSets

CONSTANTS
  Modes,         \* link modes, in the order they are tried
  Contents,      \* data blocks the peer may send
  LengthOf,      \* their coded length: soft values of other lengths never sum
  Nets,          \* keys of the header CRC seed
  MaxBursts,     \* bound: bursts received
  MaxFalse,      \* bound: false peaks in the other modes
  NoError        \* last_exc is None

FrameRxAssumption ==
  /\ LengthOf \in [Contents -> Nat \ {0}]
  /\ MaxBursts \in Nat /\ MaxFalse \in Nat /\ 0 \in Nets

VARIABLES
  phy,           \* "float" or "fixed": the station's phy
  net_key,       \* the station's
  burst,         \* the recording: its mode, content, net and quality
  tried,         \* modes tried on it; -1: nothing to try
  last_exc,      \* the DemodError kept of them
  harq_llrs,     \* _harq_llrs: content the soft values tell of, NoError none
  got,           \* contents received, in order
  bursts, falses,
  weak_before    \* history: content of the last burst that came through weak,
                 \*          NoError when the last received one came after it

vars == <<phy, net_key, burst, tried, last_exc, harq_llrs, got, bursts, falses,
          weak_before>>

Silence == [mode |-> 0, content |-> NoError, net |-> 0, quality |-> "silent"]
Idle == -1

Init ==
  /\ phy \in {"float", "fixed"}
  /\ net_key \in Nets
  /\ burst = Silence /\ tried = Idle
  /\ last_exc = NoError /\ harq_llrs = NoError /\ weak_before = NoError
  /\ got = <<>> /\ bursts = 0 /\ falses = 0

(* A burst: clean; weak, with the header readable; lost, with the header   *)
(* unreadable; or silence.                                                 *)
Hear ==
  /\ tried = Idle /\ bursts < MaxBursts
  /\ \E m \in 1 .. Len(Modes), c \in Contents, n \in Nets,
        q \in {"clean", "weak", "lost"}:
       burst' = [mode |-> m, content |-> c, net |-> n, quality |-> q]
  /\ tried' = 0 /\ bursts' = bursts + 1
  /\ last_exc' = NoError
  /\ UNCHANGED <<phy, net_key, harq_llrs, got, falses, weak_before>>
HearSilence ==
  /\ tried = Idle /\ bursts < MaxBursts
  /\ burst' = Silence /\ tried' = 0 /\ bursts' = bursts + 1
  /\ last_exc' = NoError
  /\ UNCHANGED <<phy, net_key, harq_llrs, got, falses, weak_before>>

-----------------------------------------------------------------------------
(* The key a receiver checks the header's CRC with: the adapter of the     *)
(* integer chain makes its receivers without one.                          *)
RxKey == IF phy = "float" THEN net_key ELSE 0
HeaderReads == burst.quality \in {"clean", "weak"} /\ burst.net = RxKey
SumsWith(prev) ==
  IF prev = NoError THEN FALSE ELSE LengthOf[prev] = LengthOf[burst.content]
DataDecodes(prev) ==
  \/ burst.quality = "clean"
  \/ SumsWith(prev) /\ prev = burst.content

Stage(stage) == [stage |-> stage, llrs |-> NoError]
DataError == [stage |-> "data", llrs |-> burst.content]

(* demod_frame with the modem of mode m: the outcomes, a packet or the     *)
(* stage it failed at.                                                     *)
FloatFrame(m, prev) ==
  IF m # burst.mode
  THEN {Stage("preamble")} \cup (IF falses < MaxFalse THEN {Stage("head")}
                                 ELSE {})
  ELSE IF ~HeaderReads THEN {Stage("preamble"), Stage("head")}
  ELSE IF DataDecodes(prev) THEN {Stage("packet")}
  ELSE {DataError}
(* receive, of the integer chain. *)
FixedFrame(m, prev) ==
  CASE m # burst.mode /\ falses < MaxFalse ->
         {Stage("preamble"), Stage("head")}
    [] m # burst.mode -> {Stage("preamble")}
    [] ~HeaderReads -> {Stage("preamble"), Stage("head")}
    [] DataDecodes(prev) -> {Stage("packet")}
    [] OTHER -> {DataError}

(* What is kept of the modes' errors: one with soft values, if there was.  *)
KeepsLast(exc) == TRUE
Keeps(exc) ==
  exc.llrs # NoError \/ last_exc = NoError
    \/ (IF last_exc = NoError THEN TRUE ELSE last_exc.llrs = NoError)

TryMode(frame(_, _)) ==
  /\ tried \in 0 .. Len(Modes) - 1
  /\ \E out \in frame(tried + 1, harq_llrs):
       /\ falses' = IF out.stage = "head" /\ tried + 1 # burst.mode
                    THEN falses + 1 ELSE falses
       /\ IF out.stage = "packet"
          THEN /\ got' = Append(got, burst.content)
               /\ harq_llrs' = NoError /\ weak_before' = NoError
               /\ tried' = Idle
               /\ UNCHANGED last_exc
          ELSE /\ tried' = tried + 1
               /\ last_exc' = IF Keeps(out) THEN out ELSE last_exc
               /\ UNCHANGED <<got, harq_llrs, weak_before>>
  /\ UNCHANGED <<phy, net_key, burst, bursts>>

FloatAuto == phy = "float" /\ TryMode(FloatFrame)
(* The adapter refuses a recording of zeroes before trying any mode. *)
FixedAuto ==
  \/ phy = "fixed" /\ burst.quality # "silent" /\ TryMode(FixedFrame)
  \/ /\ phy = "fixed" /\ burst.quality = "silent" /\ tried = 0
     /\ last_exc' = Stage("silent")
     /\ tried' = Len(Modes)
     /\ UNCHANGED <<phy, net_key, burst, harq_llrs, got, bursts, falses,
                    weak_before>>

(* rx_frame, when no mode had a packet: soft values of this burst replace  *)
(* those kept; without any, those kept stay.                               *)
RxFailed ==
  /\ tried = Len(Modes)
  /\ harq_llrs' = IF last_exc.llrs # NoError THEN last_exc.llrs ELSE harq_llrs
  /\ weak_before' = IF burst.quality = "weak" /\ burst.net = RxKey
                    THEN burst.content ELSE weak_before
  /\ tried' = Idle
  /\ UNCHANGED <<phy, net_key, burst, last_exc, got, bursts, falses>>

Next == Hear \/ HearSilence \/ FloatAuto \/ FixedAuto \/ RxFailed
Spec == Init /\ [][Next]_vars

-----------------------------------------------------------------------------
(* A retransmission that comes through weak decodes when the frame came    *)
(* through weak before and nothing was decoded in between, whichever modes *)
(* were tried after the one that kept the soft values and whatever         *)
(* unreadable bursts and silences came between the two.                    *)
RetransmissionCombines ==
  tried = Len(Modes) /\ burst.quality = "weak" /\ burst.net = RxKey
    => burst.content # weak_before

(* Only frames of the station's own net reach it.                          *)
NetsApart ==
  [][Len(got') > Len(got) => burst.net = net_key]_vars
=============================================================================
