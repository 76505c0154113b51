------------------------------- MODULE MCPhy --------------------------------
(***************************************************************************)
(* The components of the physical layer, one per behaviour: streams of     *)
(* blocks, single frames with soft combining, broadcasts, the coding of a  *)
(* block, the fixed-point receiver on its samples, and the search for what *)
(* is left of a frequency offset.                                          *)
(***************************************************************************)
EXTENDS PhyCases, FxCases

CONSTANTS
  Counts, Periods, Slips, Extra, FftBins, Tile, ToneTile, FloatDetectFft,
  FixedDetectFft, HdrSymbols, BlockSymbols, MaxFaults, OpenEnded, Modes,
  Contents, LengthOf, Nets, MaxBursts, MaxFalse, NoError, Lengths, FrameBytes,
  Group, SEQ_MOD, Sym, Pre, Hdr, FrameLen, Preroll, ResyncEvery, Jitter,
  Delay, Leads, Gaps, NoSeq, Cases, Levels, Keys, Amp, ScramblerSeed, CallLen,
  CallBits, CallBase, QthBases, BeaconMode, PublicTypes, Types, Erased, Q,
  Turn, CosRom, RomSize, AtanRom, N, Tiles, T, DetectFft, CyclicPrefix, Channel,
  Pilots, PilotRoot, ZcRoot, Comb, CombShift, ZcGroup, ZcHyps, MaxCfo,
  ToneThreshold, ZcThreshold, SearchWords, Target, Amplitude, RecalRom,
  NotchR, MaxNotches, MinToneBlocks, Sessions, Stride, Sub, CombBins,
  CombPeriod, Few, Circle, Many, Hyps, Offsets, c1, c2, c3

VARIABLES
  which,   \* the component this behaviour is about
  chain, sent, every, slip, n_blocks, cut, attempt, pc, k, pos, packets, llrs,
  prev_llrs, faults, preamble_hit, anchor, heard, phy, net_key, burst, tried,
  last_exc, harq_llrs, got, bursts, falses, weak_before, data_len, frames,
  starts, audio_len, extent, scan, found, last_seq, restarted, out, frames_ok,
  frames_lost, saw_eos, packet, code, mu, tx_key, rx_key, stage, air, soft,
  damage, bits, session, rec, samples, tuned, last_hyp, head, data, decoded,
  snr, words, case, answer

S == INSTANCE StreamPhy
F == INSTANCE FrameRx
B == INSTANCE Broadcast
C == INSTANCE BlockCodec
X == INSTANCE FixedRx
Y == INSTANCE FreqSearch

ASSUME PhyAssumption ==
  /\ S!StreamAssumption
  /\ F!FrameRxAssumption
  /\ B!BroadcastAssumption
  /\ X!FixedRxAssumption
  /\ Y!FreqAssumption

MCSlips == -1 .. 1
MCModes == <<"NORMAL", "ROBUST", "EXTREME">>
MCLengthOf == [c \in Contents |-> IF c = c3 THEN 2 ELSE 1]
MCJitter == -1 .. 1
MCLeads == {-7, -3, 1, 4, 9}

all == <<which,
         chain, sent, every, slip, n_blocks, cut, attempt, pc, k, pos,
         packets, llrs, prev_llrs, faults, preamble_hit, anchor, heard, phy,
         net_key, burst, tried, last_exc, harq_llrs, got, bursts, falses,
         weak_before, data_len, frames, starts, audio_len, extent, scan,
         found, last_seq, restarted, out, frames_ok, frames_lost, saw_eos,
         packet, code, mu, tx_key, rx_key, stage, air, soft, damage, bits,
         session, rec, samples, tuned, last_hyp, head, data, decoded, snr,
         words, case, answer>>

(* The state of the components a behaviour is not about stays unset. *)
Off == "off"
StreamOnly ==
  /\ phy = Off /\ net_key = Off /\ burst = Off /\ tried = Off
  /\ last_exc = Off /\ harq_llrs = Off /\ got = Off /\ bursts = Off
  /\ falses = Off /\ weak_before = Off /\ data_len = Off /\ frames = Off
  /\ starts = Off /\ audio_len = Off /\ extent = Off /\ scan = Off
  /\ found = Off /\ last_seq = Off /\ restarted = Off /\ out = Off
  /\ frames_ok = Off /\ frames_lost = Off /\ saw_eos = Off /\ packet = Off
  /\ code = Off /\ mu = Off /\ tx_key = Off /\ rx_key = Off /\ stage = Off
  /\ air = Off /\ soft = Off /\ damage = Off /\ bits = Off /\ session = Off
  /\ rec = Off /\ samples = Off /\ tuned = Off /\ last_hyp = Off /\ head = Off
  /\ data = Off /\ decoded = Off /\ snr = Off /\ words = Off /\ case = Off
  /\ answer = Off
StreamAlone ==
  UNCHANGED <<which,
              phy, net_key, burst, tried, last_exc, harq_llrs, got, bursts,
              falses, weak_before, data_len, frames, starts, audio_len,
              extent, scan, found, last_seq, restarted, out, frames_ok,
              frames_lost, saw_eos, packet, code, mu, tx_key, rx_key, stage,
              air, soft, damage, bits, session, rec, samples, tuned, last_hyp,
              head, data, decoded, snr, words, case, answer>>
FrameOnly ==
  /\ chain = Off /\ sent = Off /\ every = Off /\ slip = Off /\ n_blocks = Off
  /\ cut = Off /\ attempt = Off /\ pc = Off /\ k = Off /\ pos = Off
  /\ packets = Off /\ llrs = Off /\ prev_llrs = Off /\ faults = Off
  /\ preamble_hit = Off /\ anchor = Off /\ heard = Off /\ data_len = Off
  /\ frames = Off /\ starts = Off /\ audio_len = Off /\ extent = Off
  /\ scan = Off /\ found = Off /\ last_seq = Off /\ restarted = Off
  /\ out = Off /\ frames_ok = Off /\ frames_lost = Off /\ saw_eos = Off
  /\ packet = Off /\ code = Off /\ mu = Off /\ tx_key = Off /\ rx_key = Off
  /\ stage = Off /\ air = Off /\ soft = Off /\ damage = Off /\ bits = Off
  /\ session = Off /\ rec = Off /\ samples = Off /\ tuned = Off
  /\ last_hyp = Off /\ head = Off /\ data = Off /\ decoded = Off /\ snr = Off
  /\ words = Off /\ case = Off /\ answer = Off
FrameAlone ==
  UNCHANGED <<which,
              chain, sent, every, slip, n_blocks, cut, attempt, pc, k, pos,
              packets, llrs, prev_llrs, faults, preamble_hit, anchor, heard,
              data_len, frames, starts, audio_len, extent, scan, found,
              last_seq, restarted, out, frames_ok, frames_lost, saw_eos,
              packet, code, mu, tx_key, rx_key, stage, air, soft, damage,
              bits, session, rec, samples, tuned, last_hyp, head, data,
              decoded, snr, words, case, answer>>
BroadcastOnly ==
  /\ sent = Off /\ every = Off /\ slip = Off /\ n_blocks = Off /\ cut = Off
  /\ attempt = Off /\ k = Off /\ packets = Off /\ llrs = Off
  /\ prev_llrs = Off /\ preamble_hit = Off /\ anchor = Off /\ heard = Off
  /\ phy = Off /\ net_key = Off /\ burst = Off /\ tried = Off
  /\ last_exc = Off /\ harq_llrs = Off /\ got = Off /\ bursts = Off
  /\ falses = Off /\ weak_before = Off /\ packet = Off /\ code = Off
  /\ mu = Off /\ tx_key = Off /\ rx_key = Off /\ stage = Off /\ air = Off
  /\ soft = Off /\ damage = Off /\ bits = Off /\ session = Off /\ rec = Off
  /\ samples = Off /\ tuned = Off /\ last_hyp = Off /\ head = Off
  /\ data = Off /\ decoded = Off /\ snr = Off /\ words = Off /\ case = Off
  /\ answer = Off
BroadcastAlone ==
  UNCHANGED <<which,
              sent, every, slip, n_blocks, cut, attempt, k, packets, llrs,
              prev_llrs, preamble_hit, anchor, heard, phy, net_key, burst,
              tried, last_exc, harq_llrs, got, bursts, falses, weak_before,
              packet, code, mu, tx_key, rx_key, stage, air, soft, damage,
              bits, session, rec, samples, tuned, last_hyp, head, data,
              decoded, snr, words, case, answer>>
BlockOnly ==
  /\ chain = Off /\ sent = Off /\ every = Off /\ slip = Off /\ n_blocks = Off
  /\ cut = Off /\ attempt = Off /\ pc = Off /\ k = Off /\ pos = Off
  /\ packets = Off /\ llrs = Off /\ prev_llrs = Off /\ faults = Off
  /\ preamble_hit = Off /\ anchor = Off /\ phy = Off /\ net_key = Off
  /\ burst = Off /\ tried = Off /\ last_exc = Off /\ harq_llrs = Off
  /\ bursts = Off /\ falses = Off /\ weak_before = Off /\ data_len = Off
  /\ frames = Off /\ starts = Off /\ audio_len = Off /\ extent = Off
  /\ scan = Off /\ found = Off /\ last_seq = Off /\ restarted = Off
  /\ out = Off /\ frames_ok = Off /\ frames_lost = Off /\ saw_eos = Off
  /\ session = Off /\ rec = Off /\ samples = Off /\ tuned = Off
  /\ last_hyp = Off /\ head = Off /\ data = Off /\ decoded = Off /\ snr = Off
  /\ words = Off /\ case = Off /\ answer = Off
BlockAlone ==
  UNCHANGED <<which,
              chain, sent, every, slip, n_blocks, cut, attempt, pc, k, pos,
              packets, llrs, prev_llrs, faults, preamble_hit, anchor, phy,
              net_key, burst, tried, last_exc, harq_llrs, bursts, falses,
              weak_before, data_len, frames, starts, audio_len, extent, scan,
              found, last_seq, restarted, out, frames_ok, frames_lost,
              saw_eos, session, rec, samples, tuned, last_hyp, head, data,
              decoded, snr, words, case, answer>>
SamplesOnly ==
  /\ chain = Off /\ sent = Off /\ every = Off /\ slip = Off /\ n_blocks = Off
  /\ cut = Off /\ attempt = Off /\ pc = Off /\ k = Off /\ pos = Off
  /\ packets = Off /\ llrs = Off /\ prev_llrs = Off /\ faults = Off
  /\ preamble_hit = Off /\ anchor = Off /\ heard = Off /\ phy = Off
  /\ net_key = Off /\ burst = Off /\ tried = Off /\ last_exc = Off
  /\ harq_llrs = Off /\ got = Off /\ bursts = Off /\ falses = Off
  /\ weak_before = Off /\ data_len = Off /\ frames = Off /\ starts = Off
  /\ audio_len = Off /\ extent = Off /\ scan = Off /\ found = Off
  /\ last_seq = Off /\ restarted = Off /\ out = Off /\ frames_ok = Off
  /\ frames_lost = Off /\ saw_eos = Off /\ packet = Off /\ code = Off
  /\ mu = Off /\ tx_key = Off /\ rx_key = Off /\ air = Off /\ soft = Off
  /\ damage = Off /\ bits = Off /\ case = Off /\ answer = Off
SamplesAlone ==
  UNCHANGED <<which,
              chain, sent, every, slip, n_blocks, cut, attempt, pc, k, pos,
              packets, llrs, prev_llrs, faults, preamble_hit, anchor, heard,
              phy, net_key, burst, tried, last_exc, harq_llrs, got, bursts,
              falses, weak_before, data_len, frames, starts, audio_len,
              extent, scan, found, last_seq, restarted, out, frames_ok,
              frames_lost, saw_eos, packet, code, mu, tx_key, rx_key, air,
              soft, damage, bits, case, answer>>
OffsetOnly ==
  /\ chain = Off /\ sent = Off /\ every = Off /\ slip = Off /\ n_blocks = Off
  /\ cut = Off /\ attempt = Off /\ pc = Off /\ k = Off /\ pos = Off
  /\ packets = Off /\ llrs = Off /\ prev_llrs = Off /\ faults = Off
  /\ preamble_hit = Off /\ anchor = Off /\ heard = Off /\ phy = Off
  /\ net_key = Off /\ burst = Off /\ tried = Off /\ last_exc = Off
  /\ harq_llrs = Off /\ got = Off /\ bursts = Off /\ falses = Off
  /\ weak_before = Off /\ data_len = Off /\ frames = Off /\ starts = Off
  /\ audio_len = Off /\ extent = Off /\ scan = Off /\ found = Off
  /\ last_seq = Off /\ restarted = Off /\ out = Off /\ frames_ok = Off
  /\ frames_lost = Off /\ saw_eos = Off /\ packet = Off /\ code = Off
  /\ mu = Off /\ tx_key = Off /\ rx_key = Off /\ stage = Off /\ air = Off
  /\ soft = Off /\ damage = Off /\ bits = Off /\ session = Off /\ rec = Off
  /\ samples = Off /\ tuned = Off /\ last_hyp = Off /\ head = Off
  /\ data = Off /\ decoded = Off /\ snr = Off /\ words = Off
OffsetAlone ==
  UNCHANGED <<which,
              chain, sent, every, slip, n_blocks, cut, attempt, pc, k, pos,
              packets, llrs, prev_llrs, faults, preamble_hit, anchor, heard,
              phy, net_key, burst, tried, last_exc, harq_llrs, got, bursts,
              falses, weak_before, data_len, frames, starts, audio_len,
              extent, scan, found, last_seq, restarted, out, frames_ok,
              frames_lost, saw_eos, packet, code, mu, tx_key, rx_key, stage,
              air, soft, damage, bits, session, rec, samples, tuned, last_hyp,
              head, data, decoded, snr, words>>

Init ==
  \/ which = "stream" /\ S!Init /\ StreamOnly
  \/ which = "frame" /\ F!Init /\ FrameOnly
  \/ which = "broadcast" /\ B!Init /\ BroadcastOnly
  \/ which = "block" /\ C!Init /\ BlockOnly
  \/ which = "samples" /\ X!Init /\ SamplesOnly
  \/ which = "offset" /\ Y!Init /\ OffsetOnly
Next ==
  \/ which = "stream" /\ S!Next /\ StreamAlone
  \/ which = "frame" /\ F!Next /\ FrameAlone
  \/ which = "broadcast" /\ B!Next /\ BroadcastAlone
  \/ which = "block" /\ C!Next /\ BlockAlone
  \/ which = "samples" /\ X!Next /\ SamplesAlone
  \/ which = "offset" /\ Y!Next /\ OffsetAlone
Spec == Init /\ [][Next]_all

-----------------------------------------------------------------------------
(* A block of a stream comes out as itself or not at all, and the layout   *)
(* the transmitter counts with is the one both chains send; a stream is    *)
(* missed for noise on its preamble or header only, and a false lock harms *)
(* the blocks up to the next resync and no further (StreamPhy).            *)
StreamTrue ==
  which = "stream" =>
    S!BlockTrue /\ S!LayoutTrue /\ S!Acquired /\ S!NoCascade

(* A frame that came through weak twice decodes (FrameRx), and a stream    *)
(* sent again is combined block by block with what the first attempt left  *)
(* (StreamPhy).                                                            *)
RetriesCombine ==
  /\ which = "stream" => S!RetryHelps
  /\ which = "frame" => F!RetransmissionCombines

(* Frames of a broadcast come out once, in order, and with the missing     *)
(* ones counted, and a clean recording yields every group it holds whole   *)
(* (Broadcast).                                                            *)
BroadcastTrue ==
  which = "broadcast" => B!InOrderOnce /\ B!LossCounted /\ B!NothingMissed

(* A block comes back when the code can correct what the noise hit, the    *)
(* decoder finds the best path, transmitter and receiver count its symbols *)
(* alike, and headers are read by those the net key lets read them         *)
(* (BlockCodec).                                                           *)
Corrects ==
  which = "block" =>
    C!Corrects /\ C!BestPath /\ C!SymbolsAgree /\ C!KeyRule

(* A frame is found, tuned to and decoded from its samples, whichever      *)
(* neighbour the coarse search took, however the oscillator drifts,        *)
(* wherever the tracker stood before, and whatever its symbols and         *)
(* carriers suffer (FixedRx).                                              *)
Received ==
  which = "samples" => X!Received

(* Carriers that last are taken out and no others, residuals are added at  *)
(* one scale and the carrier that is hit counts least, and fading is not   *)
(* read as noise (FixedRx); what is left of an offset is found on the      *)
(* right turn, in the tiles of a symbol and by a shortlist that loses      *)
(* nothing (FreqSearch).                                                   *)
Judged ==
  /\ which = "samples" => X!Excised /\ X!Weighted /\ X!Measured
  /\ which = "offset" => Y!OnTheRightTurn /\ Y!TilesAddUp /\ Y!GateLossless
=============================================================================
