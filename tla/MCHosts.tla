------------------------------ MODULE MCHosts -------------------------------
(***************************************************************************)
(* The programs on the host, one per behaviour: the packet bridge or the   *)
(* tunnel, and the bridge towards its packet programs; the board console;  *)
(* the voice server, and its warming of the link; and the voice streamer.  *)
(***************************************************************************)
EXTENDS Integers, Sequences

CONSTANTS
  QueueLimit, MaxReports, MaxMoves, MaxStalls, MaxFrames, QueueHigh, HoldMax,
  MaxProbes, DepthOf, NParts, MaxCommands, MaxLosses, MaxMisses, Inflight,
  Chunks, BcSize, ConsoleQueue, ConsoleStalls, Encoders, Decoders, Stops,
  MaxPosts, MaxActs, TokensPerPost, Align, PerMsg, TokenChunk, Ahead, Nobody,
  FEND, FESC, TFEND, TFESC, CMD_DATA, Payloads, Written, Fds, MaxConns,
  MaxWork, Tries, MaxSubmits, MaxFaults, MaxStarts, MaxDecays, AirTime, MaxAge,
  Gap, Patience, TokenBits, ByteBits, Whole, Per, ChunkSizes, MaxChunks,
  e1, e2, d1, s1

VARIABLES
  which,   \* the component this behaviour is about
  queue, taken, probing, rungNow, events, moves, stalls, pc, holding, status,
  inflight, held, keep, needRung, resume, inbox, probeDue, timers, refused,
  offered, program, stuck, qlenWanted, qlen, misses, pending, sentParts,
  bcOff, bcOpen, source, flight, closing, rx, files, bcBuf, stored, sent,
  bulk, losses, casts, fades, overrun, unmarked, complete, evt_open, storing,
  handed, gen, closed, bc_open, tail_marker, buf, k, tokcarry, tx_stream,
  talking, eos, inq, enc_busy, rx_bytes, dec_pos, pcm_out, airlock, stop, enc,
  dec, fin, ctl, boards, onair, air, posted, heard, pressed, cmds, gaveup,
  resets, early, crossed, outlived, presses, conn, backlog, clients, todo, at,
  bc_buf, broadcast, req, talks, linkFresh, rx_msgs, tx_status, age, busy,
  submits, faults, starts, decays, quiet, slipped, pend, carry, board, chunks,
  said

N == INSTANCE IpTunnel
C == INSTANCE BoardConsole WITH QueueLimit <- ConsoleQueue,
                             MaxStalls <- ConsoleStalls
V == INSTANCE VoiceLink
K == INSTANCE KissWire
W == INSTANCE WarmUp
S == INSTANCE VoiceStream

ASSUME HostsAssumption ==
  /\ N!BoardAssumption
  /\ N!BridgeAssumption
  /\ N!TunnelAssumption
  /\ C!ConsoleAssumption
  /\ V!VoiceAssumption
  /\ K!WireAssumption
  /\ W!WarmUpAssumption
  /\ S!StreamerAssumption

MCPayloads == {<<"FEND">>, <<"FESC", "TFEND">>}
MCWritten ==
  {[litter |-> w[1], frames |-> w[2], rest |-> w[3]]:
     w \in {<< <<>>, <<>>, <<>> >>,
            << <<"TFEND", "FEND", "FESC">>, << <<"FEND">>, <<"FESC">> >>, <<>> >>,
            << <<>>, <<>>, <<"FEND", "a", "FESC">> >>}}
MCDepth == [r \in {-1, 0, 1} |-> IF r = 1 THEN 2 ELSE 1]

all == <<which,
         queue, taken, probing, rungNow, events, moves, stalls, pc, holding,
         status, inflight, held, keep, needRung, resume, inbox, probeDue,
         timers, refused, offered, program, stuck, qlenWanted, qlen, misses,
         pending, sentParts, bcOff, bcOpen, source, flight, closing, rx,
         files, bcBuf, stored, sent, bulk, losses, casts, fades, overrun,
         unmarked, complete, evt_open, storing, handed, gen, closed, bc_open,
         tail_marker, buf, k, tokcarry, tx_stream, talking, eos, inq,
         enc_busy, rx_bytes, dec_pos, pcm_out, airlock, stop, enc, dec, fin,
         ctl, boards, onair, air, posted, heard, pressed, cmds, gaveup,
         resets, early, crossed, outlived, presses, conn, backlog, clients,
         todo, at, bc_buf, broadcast, req, talks, linkFresh, rx_msgs,
         tx_status, age, busy, submits, faults, starts, decays, quiet,
         slipped, pend, carry, board, chunks, said>>

(* The state of the components a behaviour is not about stays unset. *)
Off == "off"
NetOnly ==
  /\ misses = Off /\ pending = Off /\ sentParts = Off /\ bcOff = Off
  /\ bcOpen = Off /\ source = Off /\ flight = Off /\ closing = Off /\ rx = Off
  /\ files = Off /\ bcBuf = Off /\ stored = Off /\ sent = Off /\ bulk = Off
  /\ losses = Off /\ casts = Off /\ fades = Off /\ overrun = Off
  /\ unmarked = Off /\ complete = Off /\ evt_open = Off /\ storing = Off
  /\ handed = Off /\ gen = Off /\ closed = Off /\ bc_open = Off
  /\ tail_marker = Off /\ buf = Off /\ k = Off /\ tokcarry = Off
  /\ tx_stream = Off /\ talking = Off /\ eos = Off /\ inq = Off
  /\ enc_busy = Off /\ rx_bytes = Off /\ dec_pos = Off /\ pcm_out = Off
  /\ airlock = Off /\ stop = Off /\ enc = Off /\ dec = Off /\ fin = Off
  /\ ctl = Off /\ boards = Off /\ onair = Off /\ air = Off /\ posted = Off
  /\ heard = Off /\ pressed = Off /\ cmds = Off /\ gaveup = Off
  /\ resets = Off /\ early = Off /\ crossed = Off /\ outlived = Off
  /\ presses = Off /\ conn = Off /\ backlog = Off /\ clients = Off
  /\ todo = Off /\ at = Off /\ bc_buf = Off /\ broadcast = Off /\ req = Off
  /\ talks = Off /\ linkFresh = Off /\ rx_msgs = Off /\ tx_status = Off
  /\ age = Off /\ busy = Off /\ submits = Off /\ faults = Off /\ starts = Off
  /\ decays = Off /\ quiet = Off /\ slipped = Off /\ pend = Off /\ carry = Off
  /\ board = Off /\ chunks = Off /\ said = Off
NetAlone ==
  UNCHANGED <<which,
              misses, pending, sentParts, bcOff, bcOpen, source, flight,
              closing, rx, files, bcBuf, stored, sent, bulk, losses, casts,
              fades, overrun, unmarked, complete, evt_open, storing, handed,
              gen, closed, bc_open, tail_marker, buf, k, tokcarry, tx_stream,
              talking, eos, inq, enc_busy, rx_bytes, dec_pos, pcm_out,
              airlock, stop, enc, dec, fin, ctl, boards, onair, air, posted,
              heard, pressed, cmds, gaveup, resets, early, crossed, outlived,
              presses, conn, backlog, clients, todo, at, bc_buf, broadcast,
              req, talks, linkFresh, rx_msgs, tx_status, age, busy, submits,
              faults, starts, decays, quiet, slipped, pend, carry, board,
              chunks, said>>
ConsoleOnly ==
  /\ taken = Off /\ probing = Off /\ rungNow = Off /\ moves = Off
  /\ holding = Off /\ inflight = Off /\ held = Off /\ keep = Off
  /\ needRung = Off /\ resume = Off /\ probeDue = Off /\ timers = Off
  /\ offered = Off /\ program = Off /\ stuck = Off /\ qlenWanted = Off
  /\ qlen = Off /\ gen = Off /\ closed = Off /\ bc_open = Off
  /\ tail_marker = Off /\ buf = Off /\ k = Off /\ tokcarry = Off
  /\ tx_stream = Off /\ talking = Off /\ eos = Off /\ inq = Off
  /\ enc_busy = Off /\ rx_bytes = Off /\ dec_pos = Off /\ pcm_out = Off
  /\ airlock = Off /\ stop = Off /\ enc = Off /\ dec = Off /\ fin = Off
  /\ ctl = Off /\ boards = Off /\ onair = Off /\ air = Off /\ posted = Off
  /\ heard = Off /\ pressed = Off /\ cmds = Off /\ gaveup = Off
  /\ resets = Off /\ early = Off /\ crossed = Off /\ outlived = Off
  /\ presses = Off /\ conn = Off /\ backlog = Off /\ clients = Off
  /\ todo = Off /\ at = Off /\ bc_buf = Off /\ broadcast = Off /\ req = Off
  /\ talks = Off /\ linkFresh = Off /\ rx_msgs = Off /\ tx_status = Off
  /\ age = Off /\ busy = Off /\ submits = Off /\ faults = Off /\ starts = Off
  /\ decays = Off /\ quiet = Off /\ slipped = Off /\ pend = Off /\ carry = Off
  /\ board = Off /\ chunks = Off /\ said = Off
ConsoleAlone ==
  UNCHANGED <<which,
              taken, probing, rungNow, moves, holding, inflight, held, keep,
              needRung, resume, probeDue, timers, offered, program, stuck,
              qlenWanted, qlen, gen, closed, bc_open, tail_marker, buf, k,
              tokcarry, tx_stream, talking, eos, inq, enc_busy, rx_bytes,
              dec_pos, pcm_out, airlock, stop, enc, dec, fin, ctl, boards,
              onair, air, posted, heard, pressed, cmds, gaveup, resets, early,
              crossed, outlived, presses, conn, backlog, clients, todo, at,
              bc_buf, broadcast, req, talks, linkFresh, rx_msgs, tx_status,
              age, busy, submits, faults, starts, decays, quiet, slipped,
              pend, carry, board, chunks, said>>
VoiceOnly ==
  /\ queue = Off /\ taken = Off /\ probing = Off /\ rungNow = Off
  /\ events = Off /\ moves = Off /\ stalls = Off /\ pc = Off /\ holding = Off
  /\ status = Off /\ inflight = Off /\ held = Off /\ keep = Off
  /\ needRung = Off /\ resume = Off /\ inbox = Off /\ probeDue = Off
  /\ timers = Off /\ refused = Off /\ offered = Off /\ program = Off
  /\ stuck = Off /\ qlenWanted = Off /\ qlen = Off /\ misses = Off
  /\ sentParts = Off /\ bcOff = Off /\ bcOpen = Off /\ source = Off
  /\ flight = Off /\ closing = Off /\ rx = Off /\ bcBuf = Off /\ stored = Off
  /\ sent = Off /\ bulk = Off /\ losses = Off /\ casts = Off /\ overrun = Off
  /\ unmarked = Off /\ complete = Off /\ evt_open = Off /\ storing = Off
  /\ handed = Off /\ conn = Off /\ backlog = Off /\ clients = Off
  /\ todo = Off /\ at = Off /\ bc_buf = Off /\ broadcast = Off /\ req = Off
  /\ talks = Off /\ linkFresh = Off /\ rx_msgs = Off /\ tx_status = Off
  /\ age = Off /\ busy = Off /\ submits = Off /\ faults = Off /\ starts = Off
  /\ decays = Off /\ quiet = Off /\ slipped = Off /\ pend = Off /\ carry = Off
  /\ board = Off /\ chunks = Off /\ said = Off
VoiceAlone ==
  UNCHANGED <<which,
              queue, taken, probing, rungNow, events, moves, stalls, pc,
              holding, status, inflight, held, keep, needRung, resume, inbox,
              probeDue, timers, refused, offered, program, stuck, qlenWanted,
              qlen, misses, sentParts, bcOff, bcOpen, source, flight, closing,
              rx, bcBuf, stored, sent, bulk, losses, casts, overrun, unmarked,
              complete, evt_open, storing, handed, conn, backlog, clients,
              todo, at, bc_buf, broadcast, req, talks, linkFresh, rx_msgs,
              tx_status, age, busy, submits, faults, starts, decays, quiet,
              slipped, pend, carry, board, chunks, said>>
WireOnly ==
  /\ queue = Off /\ taken = Off /\ probing = Off /\ rungNow = Off
  /\ events = Off /\ moves = Off /\ stalls = Off /\ pc = Off /\ holding = Off
  /\ status = Off /\ inflight = Off /\ held = Off /\ keep = Off
  /\ needRung = Off /\ resume = Off /\ inbox = Off /\ probeDue = Off
  /\ timers = Off /\ refused = Off /\ offered = Off /\ program = Off
  /\ stuck = Off /\ qlenWanted = Off /\ qlen = Off /\ misses = Off
  /\ pending = Off /\ sentParts = Off /\ bcOff = Off /\ bcOpen = Off
  /\ source = Off /\ flight = Off /\ closing = Off /\ rx = Off /\ files = Off
  /\ bcBuf = Off /\ stored = Off /\ sent = Off /\ bulk = Off /\ losses = Off
  /\ casts = Off /\ fades = Off /\ overrun = Off /\ unmarked = Off
  /\ complete = Off /\ evt_open = Off /\ storing = Off /\ handed = Off
  /\ gen = Off /\ closed = Off /\ bc_open = Off /\ tail_marker = Off
  /\ buf = Off /\ k = Off /\ tokcarry = Off /\ tx_stream = Off
  /\ talking = Off /\ eos = Off /\ inq = Off /\ enc_busy = Off
  /\ rx_bytes = Off /\ dec_pos = Off /\ pcm_out = Off /\ airlock = Off
  /\ stop = Off /\ enc = Off /\ dec = Off /\ fin = Off /\ ctl = Off
  /\ boards = Off /\ onair = Off /\ posted = Off /\ heard = Off
  /\ pressed = Off /\ cmds = Off /\ gaveup = Off /\ resets = Off
  /\ early = Off /\ crossed = Off /\ outlived = Off /\ presses = Off
  /\ req = Off /\ talks = Off /\ linkFresh = Off /\ rx_msgs = Off
  /\ tx_status = Off /\ age = Off /\ busy = Off /\ submits = Off
  /\ faults = Off /\ starts = Off /\ decays = Off /\ quiet = Off
  /\ slipped = Off /\ pend = Off /\ carry = Off /\ board = Off /\ chunks = Off
  /\ said = Off
WireAlone ==
  UNCHANGED <<which,
              queue, taken, probing, rungNow, events, moves, stalls, pc,
              holding, status, inflight, held, keep, needRung, resume, inbox,
              probeDue, timers, refused, offered, program, stuck, qlenWanted,
              qlen, misses, pending, sentParts, bcOff, bcOpen, source, flight,
              closing, rx, files, bcBuf, stored, sent, bulk, losses, casts,
              fades, overrun, unmarked, complete, evt_open, storing, handed,
              gen, closed, bc_open, tail_marker, buf, k, tokcarry, tx_stream,
              talking, eos, inq, enc_busy, rx_bytes, dec_pos, pcm_out,
              airlock, stop, enc, dec, fin, ctl, boards, onair, posted, heard,
              pressed, cmds, gaveup, resets, early, crossed, outlived,
              presses, req, talks, linkFresh, rx_msgs, tx_status, age, busy,
              submits, faults, starts, decays, quiet, slipped, pend, carry,
              board, chunks, said>>
WarmupOnly ==
  /\ taken = Off /\ probing = Off /\ rungNow = Off /\ events = Off
  /\ moves = Off /\ stalls = Off /\ pc = Off /\ holding = Off /\ status = Off
  /\ inflight = Off /\ held = Off /\ keep = Off /\ needRung = Off
  /\ resume = Off /\ inbox = Off /\ probeDue = Off /\ timers = Off
  /\ refused = Off /\ offered = Off /\ program = Off /\ stuck = Off
  /\ qlenWanted = Off /\ qlen = Off /\ misses = Off /\ pending = Off
  /\ sentParts = Off /\ bcOff = Off /\ bcOpen = Off /\ source = Off
  /\ closing = Off /\ rx = Off /\ files = Off /\ bcBuf = Off /\ stored = Off
  /\ sent = Off /\ bulk = Off /\ losses = Off /\ casts = Off /\ fades = Off
  /\ overrun = Off /\ unmarked = Off /\ complete = Off /\ evt_open = Off
  /\ storing = Off /\ handed = Off /\ gen = Off /\ closed = Off
  /\ bc_open = Off /\ tail_marker = Off /\ buf = Off /\ k = Off
  /\ tokcarry = Off /\ tx_stream = Off /\ talking = Off /\ eos = Off
  /\ inq = Off /\ enc_busy = Off /\ rx_bytes = Off /\ dec_pos = Off
  /\ pcm_out = Off /\ airlock = Off /\ stop = Off /\ enc = Off /\ dec = Off
  /\ fin = Off /\ ctl = Off /\ boards = Off /\ onair = Off /\ posted = Off
  /\ heard = Off /\ pressed = Off /\ cmds = Off /\ gaveup = Off
  /\ resets = Off /\ early = Off /\ crossed = Off /\ outlived = Off
  /\ presses = Off /\ conn = Off /\ backlog = Off /\ clients = Off
  /\ todo = Off /\ at = Off /\ bc_buf = Off /\ broadcast = Off /\ pend = Off
  /\ carry = Off /\ board = Off /\ chunks = Off /\ said = Off
WarmupAlone ==
  UNCHANGED <<which,
              taken, probing, rungNow, events, moves, stalls, pc, holding,
              status, inflight, held, keep, needRung, resume, inbox, probeDue,
              timers, refused, offered, program, stuck, qlenWanted, qlen,
              misses, pending, sentParts, bcOff, bcOpen, source, closing, rx,
              files, bcBuf, stored, sent, bulk, losses, casts, fades, overrun,
              unmarked, complete, evt_open, storing, handed, gen, closed,
              bc_open, tail_marker, buf, k, tokcarry, tx_stream, talking, eos,
              inq, enc_busy, rx_bytes, dec_pos, pcm_out, airlock, stop, enc,
              dec, fin, ctl, boards, onair, posted, heard, pressed, cmds,
              gaveup, resets, early, crossed, outlived, presses, conn,
              backlog, clients, todo, at, bc_buf, broadcast, pend, carry,
              board, chunks, said>>
SpeechOnly ==
  /\ queue = Off /\ taken = Off /\ probing = Off /\ rungNow = Off
  /\ events = Off /\ moves = Off /\ stalls = Off /\ pc = Off /\ holding = Off
  /\ status = Off /\ inflight = Off /\ held = Off /\ keep = Off
  /\ needRung = Off /\ resume = Off /\ inbox = Off /\ probeDue = Off
  /\ timers = Off /\ refused = Off /\ offered = Off /\ program = Off
  /\ stuck = Off /\ qlenWanted = Off /\ qlen = Off /\ misses = Off
  /\ pending = Off /\ sentParts = Off /\ bcOff = Off /\ bcOpen = Off
  /\ source = Off /\ flight = Off /\ closing = Off /\ files = Off
  /\ bcBuf = Off /\ stored = Off /\ sent = Off /\ bulk = Off /\ losses = Off
  /\ casts = Off /\ fades = Off /\ overrun = Off /\ unmarked = Off
  /\ complete = Off /\ evt_open = Off /\ storing = Off /\ handed = Off
  /\ gen = Off /\ closed = Off /\ tail_marker = Off /\ buf = Off /\ k = Off
  /\ tokcarry = Off /\ tx_stream = Off /\ talking = Off /\ eos = Off
  /\ inq = Off /\ enc_busy = Off /\ rx_bytes = Off /\ dec_pos = Off
  /\ pcm_out = Off /\ airlock = Off /\ stop = Off /\ enc = Off /\ dec = Off
  /\ fin = Off /\ ctl = Off /\ boards = Off /\ onair = Off /\ air = Off
  /\ posted = Off /\ heard = Off /\ pressed = Off /\ cmds = Off
  /\ gaveup = Off /\ resets = Off /\ early = Off /\ crossed = Off
  /\ outlived = Off /\ presses = Off /\ conn = Off /\ backlog = Off
  /\ clients = Off /\ todo = Off /\ bc_buf = Off /\ broadcast = Off
  /\ req = Off /\ talks = Off /\ linkFresh = Off /\ rx_msgs = Off
  /\ tx_status = Off /\ age = Off /\ busy = Off /\ submits = Off
  /\ faults = Off /\ starts = Off /\ decays = Off /\ quiet = Off
  /\ slipped = Off
SpeechAlone ==
  UNCHANGED <<which,
              queue, taken, probing, rungNow, events, moves, stalls, pc,
              holding, status, inflight, held, keep, needRung, resume, inbox,
              probeDue, timers, refused, offered, program, stuck, qlenWanted,
              qlen, misses, pending, sentParts, bcOff, bcOpen, source, flight,
              closing, files, bcBuf, stored, sent, bulk, losses, casts, fades,
              overrun, unmarked, complete, evt_open, storing, handed, gen,
              closed, tail_marker, buf, k, tokcarry, tx_stream, talking, eos,
              inq, enc_busy, rx_bytes, dec_pos, pcm_out, airlock, stop, enc,
              dec, fin, ctl, boards, onair, air, posted, heard, pressed, cmds,
              gaveup, resets, early, crossed, outlived, presses, conn,
              backlog, clients, todo, bc_buf, broadcast, req, talks,
              linkFresh, rx_msgs, tx_status, age, busy, submits, faults,
              starts, decays, quiet, slipped>>

Init ==
  \/ which = "net" /\ N!HostInit /\ NetOnly
  \/ which = "console" /\ C!Init /\ ConsoleOnly
  \/ which = "voice" /\ V!Init /\ VoiceOnly
  \/ which = "wire" /\ K!Init /\ WireOnly
  \/ which = "warmup" /\ W!Init /\ WarmupOnly
  \/ which = "speech" /\ S!Init /\ SpeechOnly
Next ==
  \/ which = "net" /\ N!HostNext /\ NetAlone
  \/ which = "console" /\ C!Next /\ ConsoleAlone
  \/ which = "voice" /\ V!Next /\ VoiceAlone
  \/ which = "wire" /\ K!Next /\ WireAlone
  \/ which = "warmup" /\ W!Next /\ WarmupAlone
  \/ which = "speech" /\ S!Next /\ SpeechAlone
Spec == Init /\ [][Next]_all

(* The fairness of each program, see IpTunnel, BoardConsole and VoiceLink. *)
netVars == N!allvars
consoleVars == C!vars
voiceVars == V!vars
Fairness ==
  /\ WF_netVars(which = "net" /\ program = "bridge" /\ N!Loop
                /\ UNCHANGED <<program, stuck, qlenWanted, qlen>>)
  /\ WF_netVars(which = "net" /\ program = "bridge" /\ N!Deadline
                /\ UNCHANGED <<program, stuck, qlenWanted, qlen>>)
  /\ WF_netVars(which = "net" /\ program = "tunnel" /\ N!TunLoop
                /\ UNCHANGED program)
  /\ WF_consoleVars(which = "console" /\ C!Loop)
  /\ WF_consoleVars(which = "console" /\ C!Reports)
  /\ WF_consoleVars(which = "console" /\ C!Delivers)
  /\ \A e \in Encoders:
       /\ WF_voiceVars(which = "voice" /\ V!FeedEnter(e))
       /\ WF_voiceVars(which = "voice" /\ V!FeedChunk(e))
       /\ WF_voiceVars(which = "voice" /\ V!FeedLeave(e))
  /\ \A s \in Stops: WF_voiceVars(which = "voice" /\ V!Stopping(s))
  /\ WF_voiceVars(which = "voice" /\ V!ResetEnds)
FairSpec == Spec /\ Fairness

Busy ==
  \/ which = "net" /\ pc # "crashed" /\ N!Waiting # <<>>
  \/ which = "console" /\ pc # "detached" /\ pending # 0
  \/ which = "voice" /\ \E s \in Stops: fin[s].pc # "idle"

-----------------------------------------------------------------------------
(* "a reset during it must make it INERT, or session N's audio and position*)
(* land in session N+1", says _dec_loop of a step of the decoder: what is  *)
(* decoded is of the session it stands in (VoiceLink).                     *)
ResetInert ==
  which = "voice" => V!ResetInert

(* Every frame or packet handed over is on the board, held, or reported as *)
(* refused, frames of one size keep their order on the way, and the board  *)
(* is not given more than the gate lets through (KissBridge, IpTunnel);    *)
(* packet programs and the bridge read each other whole and in order       *)
(* (KissWire).                                                             *)
FramesKept ==
  /\ which = "net" => N!NothingSilent /\ N!FifoPerSize /\ N!GateKept
  /\ which = "wire" => K!FromHostsTrue /\ K!ToHostsTrue

(* A file is complete in order, and is one file unless a part was refused  *)
(* or lost; a broadcast file is stored in order, and is one file unless    *)
(* what parts it from the next was lost (BoardConsole).                    *)
TransfersTrue ==
  which = "console" => C!FileTrue /\ C!BcastTrue

(* The stream on the air holds the speech of one session, in order, behind *)
(* what a reset may have let through, and one broadcast is open at a time  *)
(* (VoiceLink).                                                            *)
StreamTrue ==
  which = "voice" => V!StreamTrue /\ V!OneStream

(* STOP cuts nothing it had time for (VoiceLink), and nothing of the warm- *)
(* up deafens the far station while a transmission is on the air (WarmUp). *)
NothingCut ==
  /\ which = "voice" => V!NothingCut
  /\ which = "warmup" => W!QuietAir

(* A recording holds what was heard (VoiceLink), and what the receiver     *)
(* unpacks of a stream is what was said (VoiceStream).                     *)
RecordingTrue ==
  /\ which = "voice" => V!RecordingTrue
  /\ which = "speech" => S!SpeechTrue

(* What was begun comes to an end: a held frame goes out or is dropped at  *)
(* its deadline, whatever the ladder does (KissBridge); a transfer is      *)
(* handed over, or the console detaches (BoardConsole); a STOP is answered *)
(* (VoiceLink).                                                            *)
Answered ==
  Busy ~> ~Busy
=============================================================================
