------------------------------ MODULE VoiceLink ------------------------------
(***************************************************************************)
(* The Link of host/webvoice/server.py: push-to-talk voice over one        *)
(* broadcast.  Requests of the browser (start, audio, stop, select), the   *)
(* encoder and decoder workers and the drain loops are threads over shared *)
(* fields.  The airlock serializes encoding, flushing and resetting; the   *)
(* ingest queue and the decoded audio have locks of their own; what the    *)
(* receive loop writes has none.                                           *)
(*                                                                         *)
(* One post is one second of audio and one encoder chunk; a chunk needs    *)
(* the next post as lookahead and becomes TokensPerPost tokens, each named *)
(* by its post.  Whole bytes hold a multiple of Align tokens.  Pacing      *)
(* against the board's free space, resampling and the codec only take      *)
(* time.  The radio between the two boards keeps order and may lose any    *)
(* command or report.                                                      *)
(***************************************************************************)
EXTENDS Integers, Sequences, SequencesExt, FiniteSets

CONSTANTS
  Encoders, Decoders,    \* worker threads that may ever be started
  Stops,                 \* requests for /api/stop that may run side by side
  MaxPosts, MaxActs,     \* bounds: posts of the browser; resets, presses of
                         \* STOP and losses on the air together
  TokensPerPost, Align,  \* tokens of a chunk, tokens that fill whole bytes
  PerMsg,                \* chunks per broadcast command
  TokenChunk, Ahead,     \* the decode profile: tokens per step, lookahead
  Nobody                 \* the owner of a free airlock

VoiceAssumption ==
  /\ Encoders \cap Stops = {} /\ Nobody # "ctl"
  /\ {Nobody, "ctl"} \cap (Encoders \cup Stops) = {}
  /\ {MaxPosts, MaxActs, Ahead} \subseteq Nat
  /\ {TokensPerPost, PerMsg, TokenChunk} \subseteq Nat \ {0}
  /\ Align \in Nat \ {0, 1}              \* a token is not whole bytes

VARIABLES
  \* set by reset_session, guarded by the airlock
  gen, closed, bc_open, tail_marker, buf, k, pending, tokcarry, tx_stream,
  \* set by reset_session, read or written without the airlock
  talking, eos, inq, enc_busy, rx_bytes, dec_pos, pcm_out,
  \* threads: the airlock, the stop event, one control point per thread
  airlock, stop, enc, dec, fin, ctl,
  \* the boards and the air between them (external)
  boards, onair, air,
  \* history: posts so far, posts accepted in this session behind those that
  \* the reset before it let through, those accepted when STOP was pressed,
  \* the commands of the stream, recordings, whether STOP gave up waiting;
  \* resets that have ended, losses, presses; whether STOP flushed what a
  \* reset let through before START talked, whether the decoder looked before
  \* a reset and vocoded after it began, whether a worker outlived its join
  posted, heard, pressed, cmds, files, gaveup, resets, fades, presses,
  early, crossed, outlived

stream == <<closed, bc_open, tail_marker, buf, k, pending, tokcarry, tx_stream>>
ingest == <<inq, enc_busy>>
listen == <<rx_bytes, eos>>
decoded == <<dec_pos, pcm_out>>
world == <<boards, onair, air>>
ghosts == <<posted, heard, pressed, cmds, files, gaveup, resets, fades,
            presses, early, crossed, outlived>>
vars == <<gen, stream, talking, ingest, listen, decoded, airlock, stop, enc,
          dec, fin, ctl, world, ghosts>>

Silence == 0
Marker == -1
Posts == 1 .. MaxPosts
Acts == gen - 1 + presses + fades
Tokens(p) == [i \in 1 .. TokensPerPost |-> p]
Data(raw) == [eos |-> FALSE, raw |-> raw]
EndOfStream == [eos |-> TRUE, raw |-> <<>>]

(* What decodes: unpack10 finds no token in the single byte of the marker. *)
Decodable(bytes) ==
  LET d[i \in 0 .. Len(bytes)] ==
        IF i = 0 THEN <<>>
        ELSE IF bytes[i] = Marker THEN d[i - 1] ELSE Append(d[i - 1], bytes[i])
  IN d[Len(bytes)]

IdleEnc == [pc |-> "idle", batch |-> <<>>, g |-> 0]
IdleDec == [pc |-> "idle", avail |-> 0, g |-> 0, lo |-> 0, hi |-> 0,
            y |-> <<>>, seen |-> 0]
IdleFin == [pc |-> "idle", data |-> <<>>, done |-> 0, head |-> <<>>]

(* A thread to start: one that is not running.                             *)
Unused(workers) == CHOOSE w \in DOMAIN workers: workers[w].pc = "off"

Init ==
  /\ gen = 1 /\ closed = FALSE /\ bc_open = FALSE /\ tail_marker = FALSE
  /\ buf = <<>> /\ k = 0 /\ pending = <<>> /\ tokcarry = <<>>
  /\ tx_stream = <<>> /\ talking = FALSE /\ eos = FALSE
  /\ inq = <<>> /\ enc_busy = FALSE /\ rx_bytes = <<>>
  /\ dec_pos = 0 /\ pcm_out = <<>>
  /\ airlock = Nobody /\ stop = FALSE
  /\ enc = [e \in Encoders |-> IF e = CHOOSE x \in Encoders: TRUE THEN IdleEnc
                               ELSE [IdleEnc EXCEPT !.pc = "off"]]
  /\ dec = [d \in Decoders |-> IF d = CHOOSE x \in Decoders: TRUE THEN IdleDec
                               ELSE [IdleDec EXCEPT !.pc = "off"]]
  /\ fin = [s \in Stops |-> IdleFin]
  /\ ctl = [pc |-> "idle", talk |-> FALSE]
  /\ boards = TRUE /\ onair = FALSE /\ air = <<>>
  /\ posted = 0 /\ heard = <<>> /\ pressed = <<>> /\ cmds = <<>>
  /\ files = <<>> /\ gaveup = FALSE /\ resets = 1
  /\ fades = 0 /\ presses = 0
  /\ early = FALSE /\ crossed = FALSE /\ outlived = FALSE

-----------------------------------------------------------------------------
(* The sender.  One command under the USB lock: the continuation bit is    *)
(* read, the command written and the bit updated as one step.  A command   *)
(* without the bit supersedes what the board still has, which ends there;  *)
(* one with it is ignored by a board that has nothing.                     *)
SendChunk(raw, final) ==
  IF closed /\ ~final
  THEN UNCHANGED <<closed, bc_open, tx_stream, onair, air, cmds>>
  ELSE /\ cmds' = Append(cmds, [cont |-> bc_open, final |-> final])
       /\ IF bc_open /\ ~onair
          THEN UNCHANGED <<onair, air>>
          ELSE /\ onair' = ~final
               /\ air' = air \o (IF onair /\ ~bc_open THEN <<EndOfStream>>
                                                      ELSE <<>>)
                             \o <<Data(raw)>>
                             \o (IF final THEN <<EndOfStream>> ELSE <<>>)
       /\ bc_open' = ~final
       /\ closed' = (closed \/ final)
       /\ tx_stream' = tx_stream \o raw

(* Only whole bytes leave; the rest waits for the next group.              *)
Send(tokens) ==
  LET all == tokcarry \o tokens
      keep == (Len(all) \div Align) * Align
  IN /\ tokcarry' = SubSeq(all, keep + 1, Len(all))
     /\ IF keep = 0
        THEN UNCHANGED <<closed, bc_open, tx_stream, onair, air, cmds>>
        ELSE SendChunk(SubSeq(all, 1, keep), FALSE)

Encodable == k + 2 <= Len(buf)

EncodeChunk ==
  /\ Encodable
  /\ k' = k + 1
  /\ LET group == pending \o Tokens(buf[k + 1])
     IN IF Len(group) >= PerMsg * TokensPerPost
        THEN pending' = <<>> /\ Send(group)
        ELSE /\ pending' = group
             /\ UNCHANGED <<tokcarry, closed, bc_open, tx_stream, onair, air,
                            cmds>>
  /\ UNCHANGED <<tail_marker, buf, boards>>

-----------------------------------------------------------------------------
(* Microphone audio and the encoder workers.                               *)

(* A block that comes when nobody talks is a straggler and is dropped.      *)
Ingest ==
  /\ talking /\ posted < MaxPosts
  /\ posted' = posted + 1
  /\ inq' = Append(inq, posted')
  /\ heard' = IF ctl.pc = "clear" THEN heard ELSE Append(heard, posted')
  /\ UNCHANGED <<gen, stream, talking, enc_busy, listen, decoded, airlock,
                 stop, enc, dec, fin, ctl, world, pressed, cmds, files,
                 gaveup, resets, fades, presses, early, crossed, outlived>>

(* The generation is read with the queue, not under the airlock: a batch    *)
(* taken in the middle of a reset is of the session before and passes for  *)
(* one of the session to come: it will be fed in front of it.              *)
EncTake(e) ==
  /\ enc[e].pc = "idle" /\ ~stop
  /\ inq' = <<>>
  /\ enc_busy' = (inq # <<>>)
  /\ enc' = [enc EXCEPT ![e] =
               IF inq = <<>> THEN IdleEnc
               ELSE [pc |-> "taken", batch |-> inq, g |-> gen]]
  /\ heard' = IF ctl.pc = "clear" THEN heard \o inq ELSE heard
  /\ UNCHANGED <<gen, stream, talking, listen, decoded, airlock, stop, dec,
                 fin, ctl, world, posted, pressed, cmds, files, gaveup, resets,
                 fades, presses, early, crossed, outlived>>

EncExit(e) ==
  /\ enc[e].pc = "idle" /\ stop
  /\ enc' = [enc EXCEPT ![e].pc = "off"]
  /\ UNCHANGED <<gen, stream, talking, ingest, listen, decoded, airlock,
                 stop, dec, fin, ctl, world, ghosts>>

EncDone(e) ==
  /\ enc' = [enc EXCEPT ![e] = IdleEnc]
  /\ enc_busy' = FALSE

FeedAnySession(e) ==                        \* mutant: no generation check
  /\ enc[e].pc = "taken" /\ airlock = Nobody
  /\ airlock' = e
  /\ buf' = buf \o enc[e].batch
  /\ enc' = [enc EXCEPT ![e].pc = "feed"]
  /\ UNCHANGED <<gen, closed, bc_open, tail_marker, k, pending, tokcarry,
                 tx_stream, talking, ingest, listen, decoded, stop, dec, fin,
                 ctl, world, ghosts>>

(* feed: the airlock, then the generation, then the audio.                 *)
FeedEnter(e) ==
  /\ enc[e].pc = "taken" /\ airlock = Nobody
  /\ IF enc[e].g # gen
     THEN EncDone(e) /\ UNCHANGED <<buf, airlock>>
     ELSE /\ airlock' = e
          /\ buf' = buf \o enc[e].batch
          /\ enc' = [enc EXCEPT ![e].pc = "feed"]
          /\ UNCHANGED enc_busy
  /\ UNCHANGED <<gen, closed, bc_open, tail_marker, k, pending, tokcarry,
                 tx_stream, talking, inq, listen, decoded, stop, dec, fin,
                 ctl, world, ghosts>>

FeedChunk(e) ==
  /\ enc[e].pc = "feed" /\ boards
  /\ EncodeChunk
  /\ UNCHANGED <<gen, talking, ingest, listen, decoded, airlock, stop, enc,
                 dec, fin, ctl, posted, heard, pressed, files, gaveup,
                 resets, fades, presses, early, crossed, outlived>>

(* The batch is used up, or the write raised because the board is closed.  *)
FeedLeave(e) ==
  /\ enc[e].pc = "feed"
  /\ ~Encodable \/ ~boards
  /\ EncDone(e)
  /\ airlock' = Nobody
  /\ UNCHANGED <<gen, stream, talking, inq, listen, decoded, stop, dec, fin,
                 ctl, world, ghosts>>

-----------------------------------------------------------------------------
(* The receive loop: the one reader of the far board.                      *)

Receive ==
  /\ air # <<>> /\ boards
  /\ air' = Tail(air)
  /\ LET ev == Head(air)
     IN IF ev.eos
        THEN eos' = (eos \/ ~talking) /\ UNCHANGED rx_bytes
        ELSE rx_bytes' = rx_bytes \o ev.raw /\ UNCHANGED eos
  /\ UNCHANGED <<gen, stream, talking, ingest, decoded, airlock, stop, enc,
                 dec, fin, ctl, boards, onair, ghosts>>

Fade ==
  /\ air # <<>> /\ Acts < MaxActs
  /\ air' = Tail(air)
  /\ fades' = fades + 1
  /\ UNCHANGED <<gen, stream, talking, ingest, listen, decoded, airlock,
                 stop, enc, dec, fin, ctl, boards, onair, posted, heard,
                 pressed, cmds, files, gaveup, resets, presses, early,
                 crossed, outlived>>

-----------------------------------------------------------------------------
(* The decoder workers.  A step looks at what has arrived, captures the    *)
(* generation and the position, vocodes without any lock and commits under *)
(* the lock of the decoded audio.  A prompt was uploaded, so that no step  *)
(* waits for two seconds of speech to derive one from.                     *)

DecLook(d) ==
  LET n == Len(Decodable(rx_bytes))
  IN /\ dec[d].pc = "idle" /\ ~stop
     /\ n - dec_pos >= TokenChunk + Ahead
     /\ dec' = [dec EXCEPT ![d].pc = "looked", ![d].avail = n,
                           ![d].seen = resets]
     /\ UNCHANGED <<gen, stream, talking, ingest, listen, decoded, airlock,
                    stop, enc, fin, ctl, world, ghosts>>

DecVocode(d) ==
  LET lo == dec_pos
      usable == dec[d].avail - Ahead
      hi == lo + ((usable - lo) \div TokenChunk) * TokenChunk
      tokens == Decodable(rx_bytes)
      clamped == IF hi < Len(tokens) THEN hi ELSE Len(tokens)
  IN /\ dec[d].pc = "looked"
     /\ IF clamped <= lo                    \* _vocode returns None
        THEN dec' = [dec EXCEPT ![d] = IdleDec] /\ UNCHANGED crossed
        ELSE /\ dec' = [dec EXCEPT ![d] =
                          [pc |-> "vocoded", avail |-> 0, g |-> gen, lo |-> lo,
                           hi |-> hi, y |-> SubSeq(tokens, lo + 1, clamped),
                           seen |-> 0]]
             /\ crossed' = (crossed \/ dec[d].seen # gen)
     /\ UNCHANGED <<gen, stream, talking, ingest, listen, decoded, airlock,
                    stop, enc, fin, ctl, world, posted, heard, pressed, cmds,
                    files, gaveup, resets, fades, presses, early, outlived>>

DecCommitAnySession(d) ==                   \* mutant: no check at the commit
  /\ dec[d].pc = "vocoded"
  /\ dec' = [dec EXCEPT ![d] = IdleDec]
  /\ pcm_out' = pcm_out \o dec[d].y
  /\ dec_pos' = dec[d].hi
  /\ UNCHANGED <<gen, stream, talking, ingest, listen, airlock, stop, enc,
                 fin, ctl, world, ghosts>>

DecCommit(d) ==
  /\ dec[d].pc = "vocoded"
  /\ dec' = [dec EXCEPT ![d] = IdleDec]
  /\ IF dec[d].g # gen \/ dec_pos # dec[d].lo
     THEN UNCHANGED decoded
     ELSE /\ pcm_out' = pcm_out \o dec[d].y
          /\ dec_pos' = dec[d].hi
  /\ UNCHANGED <<gen, stream, talking, ingest, listen, airlock, stop, enc,
                 fin, ctl, world, ghosts>>

DecExit(d) ==
  /\ dec[d].pc = "idle" /\ stop
  /\ dec' = [dec EXCEPT ![d].pc = "off"]
  /\ UNCHANGED <<gen, stream, talking, ingest, listen, decoded, airlock,
                 stop, enc, fin, ctl, world, ghosts>>

-----------------------------------------------------------------------------
(* STOP: refuse a second one, wait for the encoder, flush under the        *)
(* airlock, close the stream, wait for its end, write the recording.       *)

StopPressed(s) ==
  /\ fin[s].pc = "idle" /\ Acts < MaxActs
  /\ ~(closed /\ ~talking)                  \* else: nothing in flight
  /\ fin' = [fin EXCEPT ![s].pc = "drain"]
  /\ pressed' = heard
  /\ gaveup' = FALSE
  /\ presses' = presses + 1
  /\ UNCHANGED <<gen, stream, talking, ingest, listen, decoded, airlock,
                 stop, enc, dec, ctl, world, posted, heard, cmds, files,
                 resets, fades, early, crossed, outlived>>

EncoderIdleQueueOnly == inq = <<>>          \* mutant: the worker is forgotten
EncoderIdle == inq = <<>> /\ ~enc_busy

StopDrained(s) ==
  /\ fin[s].pc = "drain" /\ EncoderIdle
  /\ fin' = [fin EXCEPT ![s].pc = "lock"]
  /\ UNCHANGED <<gen, stream, talking, ingest, listen, decoded, airlock,
                 stop, enc, dec, ctl, world, ghosts>>

StopGivesUp(s) ==                           \* after 30 s
  /\ fin[s].pc = "drain" /\ ~EncoderIdle
  /\ fin' = [fin EXCEPT ![s].pc = "lock"]
  /\ gaveup' = TRUE
  /\ UNCHANGED <<gen, stream, talking, ingest, listen, decoded, airlock,
                 stop, enc, dec, ctl, world, posted, heard, pressed, cmds,
                 files, resets, fades, presses, early, crossed, outlived>>

(* The tail of the speech gets silence for a lookahead.                    *)
StopFlush(s) ==
  /\ fin[s].pc = "lock" /\ airlock = Nobody
  /\ airlock' = s
  /\ talking' = FALSE
  /\ early' = (early \/ (ctl.pc = "talk" /\ buf # <<>>))
  /\ fin' = [fin EXCEPT ![s].pc = "flush"]
  /\ buf' = IF Len(buf) > k THEN buf \o <<Silence, Silence>> ELSE buf
  /\ UNCHANGED <<gen, closed, bc_open, tail_marker, k, pending, tokcarry,
                 tx_stream, ingest, listen, decoded, stop, enc, dec, ctl,
                 world, posted, heard, pressed, cmds, files, gaveup, resets,
                 fades, presses, crossed, outlived>>

StopChunk(s) ==
  /\ fin[s].pc = "flush" /\ boards
  /\ EncodeChunk
  /\ UNCHANGED <<gen, talking, ingest, listen, decoded, airlock, stop, enc,
                 dec, fin, ctl, posted, heard, pressed, files, gaveup,
                 resets, fades, presses, early, crossed, outlived>>

(* The last chunk of data closes the stream, padded to whole bytes by      *)
(* repeating its last token; an open stream with nothing left to say is    *)
(* closed by a marker of one byte.                                         *)
Padded(tail) ==
  LET r == Len(tail) % Align
  IN IF r = 0 THEN tail
     ELSE tail \o [i \in 1 .. Align - r |-> tail[Len(tail)]]

Answer(s) ==
  /\ fin' = [fin EXCEPT ![s] = IdleFin]
  /\ airlock' = Nobody

StopClose(s) ==
  LET tail == tokcarry \o pending
  IN /\ fin[s].pc = "flush" /\ boards /\ ~Encodable
     /\ pending' = <<>> /\ tokcarry' = <<>>
     /\ IF tail # <<>>
        THEN SendChunk(Padded(tail), TRUE) /\ UNCHANGED tail_marker
        ELSE IF bc_open
             THEN SendChunk(<<Marker>>, TRUE) /\ tail_marker' = TRUE
             ELSE UNCHANGED <<tail_marker, closed, bc_open, tx_stream, onair,
                              air, cmds>>
     /\ IF tx_stream' = <<>>
        THEN Answer(s)                      \* nothing to send
        ELSE fin' = [fin EXCEPT ![s].pc = "wait"] /\ UNCHANGED airlock
     /\ UNCHANGED <<gen, buf, k, talking, ingest, listen, decoded, stop, enc,
                    dec, ctl, boards, posted, heard, pressed, files, gaveup,
                    resets, fades, presses, early, crossed, outlived>>

StopRaises(s) ==                            \* the board was closed meanwhile
  /\ fin[s].pc = "flush" /\ ~boards
  /\ Answer(s)
  /\ UNCHANGED <<gen, stream, talking, ingest, listen, decoded, stop, enc,
                 dec, ctl, world, ghosts>>

(* The end of stream, a quiet period or the budget ends the wait.          *)
StopWaited(s) ==
  /\ fin[s].pc = "wait"
  /\ IF rx_bytes = <<>>
     THEN Answer(s)                         \* nothing received
     ELSE /\ fin' = [fin EXCEPT ![s].pc = "snap", ![s].data =
                       Decodable(IF tail_marker THEN Front(rx_bytes)
                                 ELSE rx_bytes)]
          /\ UNCHANGED airlock
  /\ UNCHANGED <<gen, stream, talking, ingest, listen, decoded, stop, enc,
                 dec, ctl, world, ghosts>>

(* Position and audio of the streaming decoder, as one snapshot.           *)
StopSnapshot(s) ==
  LET n == Len(fin[s].data)
      done == IF dec_pos < n THEN dec_pos ELSE n
      upto == IF done < Len(pcm_out) THEN done ELSE Len(pcm_out)
  IN /\ fin[s].pc = "snap"
     /\ fin' = [fin EXCEPT ![s].pc = "write", ![s].done = done,
                           ![s].head = SubSeq(pcm_out, 1, upto)]
     /\ UNCHANGED <<gen, stream, talking, ingest, listen, decoded, airlock,
                    stop, enc, dec, ctl, world, ghosts>>

StopWrite(s) ==
  LET data == fin[s].data
      tail == SubSeq(Decodable(rx_bytes), fin[s].done + 1, Len(data))
  IN /\ fin[s].pc = "write"
     /\ files' = Append(files, [audio |-> fin[s].head \o tail, data |-> data])
     /\ Answer(s)
     /\ UNCHANGED <<gen, stream, talking, ingest, listen, decoded, stop, enc,
                    dec, ctl, world, posted, heard, pressed, cmds, gaveup,
                    resets, fades, presses, early, crossed, outlived>>

-----------------------------------------------------------------------------
(* START and SELECT.  reset_session runs under the airlock, which the      *)
(* decoder and the receive loop never take: the generation moves first,    *)
(* the received bytes and the ingest queue are emptied after it.           *)

ResetBegins(talk) ==
  /\ IF talk THEN ctl.pc = "idle" /\ Acts < MaxActs ELSE ctl.pc = "reset"
  /\ airlock = Nobody
  /\ airlock' = "ctl"
  /\ ctl' = [pc |-> "clear", talk |-> talk]
  /\ gen' = gen + 1
  /\ buf' = <<>> /\ closed' = FALSE
  /\ dec_pos' = 0 /\ pcm_out' = <<>>
  /\ heard' = <<>> /\ files' = <<>> /\ crossed' = FALSE
  /\ UNCHANGED <<bc_open, tail_marker, k, pending, tokcarry, tx_stream,
                 talking, ingest, listen, stop, enc, dec, fin, world, posted,
                 pressed, cmds, gaveup, resets, fades, presses, early,
                 outlived>>

ResetEnds ==
  /\ ctl.pc = "clear"
  /\ ctl' = [ctl EXCEPT !.pc = IF ctl.talk THEN "talk" ELSE "idle"]
  /\ airlock' = Nobody
  /\ k' = 0 /\ pending' = <<>> /\ tokcarry' = <<>> /\ tx_stream' = <<>>
  /\ bc_open' = FALSE /\ tail_marker' = FALSE
  /\ rx_bytes' = <<>> /\ inq' = <<>> /\ eos' = FALSE /\ talking' = FALSE
  /\ resets' = gen /\ pressed' = <<>> /\ cmds' = <<>>
  /\ early' = FALSE
  /\ UNCHANGED <<gen, closed, buf, enc_busy, decoded, stop, enc, dec, fin,
                 world, posted, heard, files, gaveup, fades, presses, crossed,
                 outlived>>

Talk ==
  /\ ctl.pc = "talk"
  /\ talking' = TRUE
  /\ ctl' = [ctl EXCEPT !.pc = "idle"]
  /\ UNCHANGED <<gen, stream, ingest, listen, decoded, airlock, stop, enc,
                 dec, fin, world, ghosts>>

SelectPressed ==
  /\ ctl.pc = "idle" /\ Acts < MaxActs
  /\ ctl' = [pc |-> "join", talk |-> FALSE]
  /\ stop' = TRUE
  /\ UNCHANGED <<gen, stream, talking, ingest, listen, decoded, airlock, enc,
                 dec, fin, world, ghosts>>

(* join(timeout=4) returns when the worker has ended, or while it is in a   *)
(* step that takes longer than that.  Such a worker goes on with those     *)
(* that open starts: the stop event is cleared before it looks at it.      *)
WorkersJoined == /\ \A e \in Encoders: enc[e].pc # "idle"
                 /\ \A d \in Decoders: dec[d].pc # "idle"

Joined ==
  /\ ctl.pc = "join"
  /\ WorkersJoined
  /\ ctl' = [ctl EXCEPT !.pc = "open"]
  /\ boards' = FALSE
  /\ UNCHANGED <<gen, stream, talking, ingest, listen, decoded, airlock,
                 stop, enc, dec, fin, onair, air, ghosts>>

Opened ==
  /\ ctl.pc = "open"
  /\ \E e \in Encoders: enc[e].pc = "off"
  /\ \E d \in Decoders: dec[d].pc = "off"
  /\ enc' = [enc EXCEPT ![Unused(enc)] = IdleEnc]
  /\ dec' = [dec EXCEPT ![Unused(dec)] = IdleDec]
  /\ outlived' = \E e \in Encoders: enc[e].pc # "off"
  /\ stop' = FALSE /\ boards' = TRUE /\ onair' = FALSE /\ air' = <<>>
  /\ ctl' = [ctl EXCEPT !.pc = "reset"]
  /\ UNCHANGED <<gen, stream, talking, ingest, listen, decoded, airlock, fin,
                 posted, heard, pressed, cmds, files, gaveup, resets, fades,
                 presses, early, crossed>>

-----------------------------------------------------------------------------
Encoding == \E e \in Encoders: EncTake(e) \/ EncExit(e) \/ FeedEnter(e)
                                \/ FeedChunk(e) \/ FeedLeave(e)
Decoding == \E d \in Decoders: DecLook(d) \/ DecVocode(d) \/ DecCommit(d)
                                \/ DecExit(d)
Stopping(s) == \/ StopDrained(s) \/ StopGivesUp(s) \/ StopFlush(s)
               \/ StopChunk(s) \/ StopClose(s) \/ StopRaises(s)
               \/ StopWaited(s) \/ StopSnapshot(s) \/ StopWrite(s)
Control == \/ \E talk \in BOOLEAN: ResetBegins(talk)
           \/ ResetEnds \/ Talk \/ Joined \/ Opened

Next ==
  \/ Ingest \/ Encoding \/ Receive \/ Fade \/ Decoding
  \/ \E s \in Stops: StopPressed(s) \/ Stopping(s)
  \/ SelectPressed \/ Control

Spec == Init /\ [][Next]_vars

(* Every thread keeps running; nobody has to press a button.               *)
Fairness ==
  /\ \A e \in Encoders: WF_vars(FeedEnter(e)) /\ WF_vars(FeedChunk(e))
                        /\ WF_vars(FeedLeave(e))
  /\ \A s \in Stops: WF_vars(Stopping(s))
  /\ WF_vars(ResetEnds)

FairSpec == Spec /\ Fairness
-----------------------------------------------------------------------------
(* The tokens the posts stand for, in their order.                         *)
Speech(posts) ==
  [i \in 1 .. Len(posts) * TokensPerPost |->
     posts[(i - 1) \div TokensPerPost + 1]]

(* No reset has written half of its fields.                                *)
Settled == ctl.pc \notin {"reset", "clear"}

(* What was handed to the board is a prefix of what was said in this       *)
(* session, once, in order, from its first post on: nothing of a rival     *)
(* encoder, and of an earlier session only what a reset let through, in    *)
(* front.  At the end only padding may follow.  When an encoder outlived   *)
(* its join, order is lost, but what is sent is still of this session, and *)
(* no post is sent twice (feed, reset_session and close).                  *)
Once(sent, posts) ==
  \A p \in ToSet(sent):
    /\ p \in ToSet(posts) \cup {Silence, Marker}
    /\ p \in Posts => Cardinality({i \in DOMAIN sent: sent[i] = p})
                        <= TokensPerPost
StreamTrue ==
  Settled /\ ~early =>
    \E j \in 0 .. (IF closed THEN Align - 1 ELSE 0):
      /\ j <= Len(tx_stream)
      /\ LET sent == SubSeq(tx_stream, 1, Len(tx_stream) - j)
         IN IF outlived THEN Once(sent, heard)
            ELSE \E n \in 0 .. Len(heard):
                   IsPrefix(sent, Speech(Append(SubSeq(heard, 1, n), Silence)))

(* A closed stream carries everything heard before STOP was pressed,       *)
(* unless STOP gave up on the encoder: the last second is never cut off by *)
(* a queue that is empty while its batch is still being encoded (finish).  *)
NothingCut ==
  closed /\ ~gaveup /\ Settled /\ ~early /\ ~outlived =>
    IsPrefix(Speech(pressed), tx_stream)

(* A session sends one broadcast: the first command starts it, all others  *)
(* continue it, and nothing follows the final one (_send_chunk).           *)
OneStream ==
  ~early => \A i \in DOMAIN cmds:
              /\ cmds[i].cont <=> (i > 1)
              /\ cmds[i].final => i = Len(cmds)

(* The audio decoded so far is that of the first dec_pos tokens.           *)
AudioTrue ==
  /\ dec_pos <= Len(Decodable(rx_bytes))
  /\ pcm_out = SubSeq(Decodable(rx_bytes), 1, dec_pos)

(* What was vocoded while it arrived is the audio of the tokens counted as *)
(* done, and a recording has every token that had arrived once, in order:  *)
(* the streaming decoder and the tail vocoded by STOP neither skip nor     *)
(* repeat one (_dec_loop against _wait_and_write and reset_session).  A    *)
(* step of the decoder that looked before a reset and took its generation  *)
(* after it began is the exception, see ResetInert.                        *)
RecordingTrue ==
  ~crossed => AudioTrue /\ \A i \in DOMAIN files: files[i].audio = files[i].data

(* What _dec_loop says of a reset during a step of the decoder, without    *)
(* the exception.                                                          *)
ResetInert == AudioTrue

(* Every STOP is answered: nobody keeps the airlock for ever (finish,      *)
(* feed, reset_session).                                                   *)
StopAnswered == \A s \in Stops: fin[s].pc # "idle" ~> fin[s].pc = "idle"
=============================================================================
