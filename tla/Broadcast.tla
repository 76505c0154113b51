------------------------------ MODULE Broadcast ------------------------------
(***************************************************************************)
(* Non-ARQ broadcasting (ofdm_phy/broadcast.py): the transmitter cuts a    *)
(* payload into frames and sends them in groups, each a stream of its own; *)
(* the receiver walks a recording from group to group.  Nothing is sent    *)
(* again: a lost frame is a hole, counted by the sequence numbers.         *)
(*                                                                         *)
(* Positions count half symbols.  The detectors answer within Jitter of a  *)
(* preamble; noise may hide one, show one where there is none, or take a   *)
(* frame, within a bound.  A search over more than one preamble answers    *)
(* any of them.                                                            *)
(***************************************************************************)
EXTENDS Integers, Sequences, FiniteSets, SequencesExt

CONSTANTS
  Lengths,        \* payload lengths
  FrameBytes, Group,
  SEQ_MOD,         \* sequence numbers, 64 in the code
  Sym, Pre, Hdr, FrameLen,   \* lengths: symbol, preamble, header, data block
  Preroll,        \* MIN_PREROLL
  ResyncEvery,    \* STREAM_RESYNC_EVERY
  Jitter,         \* of a detector's answer
  Delay,          \* group delay of the integer chain's Hilbert filter
  Leads,          \* where in the recording the first group starts; negative
                  \* for a late joiner
  Gaps,           \* listening gap between two groups
  MaxFaults,      \* bound: what noise does to one recording
  NoSeq

BroadcastAssumption ==
  /\ {Lengths, Gaps} \subseteq SUBSET Nat /\ Leads \subseteq Int
  /\ FrameBytes \in Nat /\ FrameBytes > 3
  /\ {Group, SEQ_MOD, Sym, Pre, Hdr, FrameLen} \subseteq Nat \ {0}
  /\ {Preroll, ResyncEvery, Delay, MaxFaults} \subseteq Nat
  /\ Jitter \subseteq Int /\ NoSeq \notin Nat

VARIABLES
  chain,          \* "float" or "fixed"
  data_len,       \* payload of the broadcast
  frames, starts, \* its groups of frames, and where the recording has them
  audio_len,
  extent,         \* _extent: preamble start to group end, 0 not yet learned
  pc,             \* "search", "decode" or "done"
  pos, scan,      \* where the walk and its search have come to
  found,          \* the preamble the search answered
  last_seq, restarted,
  out,            \* frames put out, in order
  frames_ok, frames_lost, saw_eos,
  faults

rec == <<chain, data_len, frames, starts, audio_len>>
stats == <<out, last_seq, frames_ok, frames_lost, saw_eos>>
vars == <<rec, extent, pc, pos, scan, found, restarted, stats, faults>>

-----------------------------------------------------------------------------
(* The transmitter. *)
Cap(sync) == FrameBytes - 2 - (IF sync THEN 1 ELSE 0)
Smaller(a, b) == IF a < b THEN a ELSE b

(* _plan: the payload bytes of every frame, by group; a group's first      *)
(* frame carries the descriptor and so one byte less.                      *)
Plan(len) ==
  LET step(s, i) ==
        IF s.off >= len /\ i > 1 THEN s
        ELSE LET take == Smaller(Cap(s.cur = <<>>), len - s.off)
                 cur == Append(s.cur, take)
                 full == Len(cur) = Group \/ s.off + take >= len
             IN  [ groups |-> IF full THEN Append(s.groups, cur)
                              ELSE s.groups,
                   cur |-> IF full THEN <<>> ELSE cur,
                   off |-> s.off + take ]
  IN  FoldLeft(step, [groups |-> <<>>, cur |-> <<>>, off |-> 0],
               [i \in 1 .. len + 1 |-> i]).groups

(* build: the frames of the plan, numbered through.                        *)
Build(len) ==
  LET plan == Plan(len)
      before(g) == FoldLeft(LAMBDA n, sizes: n + Len(sizes), 0,
                            SubSeq(plan, 1, g - 1))
  IN  [g \in DOMAIN plan |->
        [f \in DOMAIN plan[g] |->
          [ id |-> before(g) + f, seq |-> (before(g) + f - 1) % SEQ_MOD,
            take |-> plan[g][f], sync |-> f = 1,
            eos |-> g = Len(plan) /\ f = Len(plan[g]) ]]]
Bytes(fs) == FoldLeft(LAMBDA n, f: n + f.take, 0, fs)

(* build_group: what a stream of n frames spans behind its preamble. *)
StreamLen(n) == Hdr + n * FrameLen + ((n - 1) \div ResyncEvery) * Sym

(* Where the groups start in a recording: one behind the other, with the   *)
(* caller's listening gaps between them.                                   *)
Lay(groups, first, gap) ==
  FoldLeft(LAMBDA at, g: Append(at, at[Len(at)] + Pre + StreamLen(Len(g)) + gap),
           <<first>>, groups)

Init ==
  /\ chain \in {"float", "fixed"}
  /\ data_len \in Lengths
  /\ frames = Build(data_len)
  /\ \E first \in Leads, gap \in Gaps: starts = Lay(frames, first, gap)
  /\ audio_len = starts[Len(starts)] + Sym
  /\ extent \in {0, Pre + StreamLen(Group)}
  /\ pc = "search" /\ pos = 0 /\ scan = 0 /\ found = 0
  /\ restarted = FALSE
  /\ out = <<>> /\ last_seq = NoSeq
  /\ frames_ok = 0 /\ frames_lost = 0 /\ saw_eos = FALSE
  /\ faults = 0

-----------------------------------------------------------------------------
Noise == faults < MaxFaults
Held(a, b) == {g \in DOMAIN frames: a <= starts[g] /\ starts[g] + Pre <= b}

(* The detectors answer where the preamble ends, in their own indices: the *)
(* integer one behind the delay of its Hilbert filter.                     *)
FloatDetect(end) == end
FixedDetect(end) == end + Delay - Delay
PreambleEnd(end) == IF chain = "float" THEN FloatDetect(end)
                    ELSE FixedDetect(end)

(* _next_preamble: one window of the search. *)
Win == IF extent > Sym THEN extent - Sym ELSE Pre + Hdr
Answers ==
  {PreambleEnd(starts[g] + j + Pre) - Pre:
     g \in Held(scan, Smaller(scan + Win, audio_len)), j \in Jitter}
FalseAnswers == IF Noise THEN scan .. scan + Win - Pre ELSE {}
Hidden == Held(scan, Smaller(scan + Win, audio_len)) = {} \/ Noise

MoreAudio == scan + Pre < audio_len
Lock(start) ==
  IF start >= scan
  THEN /\ pc' = "decode" /\ found' = start
       /\ UNCHANGED scan
  ELSE /\ scan' = scan + Hdr
       /\ UNCHANGED <<pc, found>>
NextPreamble ==
  /\ pc = "search" /\ MoreAudio
  /\ \/ \E start \in Answers: Lock(start) /\ UNCHANGED faults
     \/ \E start \in FalseAnswers: Lock(start) /\ faults' = faults + 1
     \/ /\ Hidden
        /\ scan' = scan + Hdr
        /\ faults' = IF Held(scan, Smaller(scan + Win, audio_len)) = {}
                     THEN faults ELSE faults + 1
        /\ UNCHANGED <<pc, found>>
  /\ UNCHANGED <<rec, extent, pos, restarted, stats>>
WalkEnds ==
  /\ pc = "search" /\ ~MoreAudio
  /\ pc' = "done"
  /\ UNCHANGED <<rec, extent, pos, scan, found, restarted, stats, faults>>

-----------------------------------------------------------------------------
(* receive: the slice handed to the decoder, from a little before the      *)
(* preamble on, up to one group once the extent is known.                  *)
LeadIn == IF Sym > Preroll THEN Sym ELSE Preroll
SliceStart == IF found > LeadIn THEN found - LeadIn ELSE 0
Pad == IF found < LeadIn THEN LeadIn - found ELSE 0
SliceEnd ==
  IF extent = 0 THEN audio_len
  ELSE Smaller(audio_len, SliceStart + extent + LeadIn)

Further(p) ==
  /\ pc' = "search"
  /\ pos' = p /\ scan' = p

(* No group decodes in the slice: the preamble was none, or noise took all *)
(* of it.                                                                  *)
DecodeFails ==
  /\ pc = "decode"
  /\ Held(SliceStart, SliceEnd) = {} \/ Noise
  /\ Further(IF found > pos THEN found + Sym ELSE pos + Sym)
  /\ faults' = IF Held(SliceStart, SliceEnd) = {} THEN faults ELSE faults + 1
  /\ UNCHANGED <<rec, extent, found, restarted, stats>>

(* The frames of a group that decoded, counted one after the other. *)
Gap(seq, last) == (seq - last - 1) % SEQ_MOD
TakeFrame(s, f) ==
  LET missing == IF s.last_seq = NoSeq THEN 0 ELSE Gap(f.seq, s.last_seq)
  IN  [ out |-> Append(s.out, f), last_seq |-> f.seq,
        frames_ok |-> s.frames_ok + 1,
        frames_lost |-> s.frames_lost
          + (IF missing < SEQ_MOD \div 2 THEN missing ELSE 0),
        saw_eos |-> s.saw_eos \/ f.eos ]

GroupLen == StreamLen(Group)
AdvancePadded(g, j) == SliceStart + (starts[g] + j + Pre - SliceStart + Pad)
                         + GroupLen - Sym
Advance(g, j) == starts[g] + j + Pre + GroupLen - Sym

(* The first group that decodes supplies the extent and the walk starts    *)
(* over; from then on it resumes a symbol before the next group.           *)
ClearsNothing(s) == /\ out' = s.out /\ last_seq' = NoSeq
                    /\ frames_ok' = 0 /\ frames_lost' = 0 /\ saw_eos' = FALSE
Clears(s) == /\ out' = <<>> /\ last_seq' = NoSeq
             /\ frames_ok' = 0 /\ frames_lost' = 0 /\ saw_eos' = FALSE
DecodeGroup ==
  /\ pc = "decode"
  /\ \E g \in Held(SliceStart, SliceEnd), j \in Jitter:
     \E lost \in SUBSET (DOMAIN frames[g]):
       LET heard == SelectSeq(frames[g], LAMBDA f: f.id - frames[g][1].id + 1
                                                     \notin lost)
           s == FoldLeft(TakeFrame,
                  [ out |-> out, last_seq |-> last_seq,
                    frames_ok |-> frames_ok, frames_lost |-> frames_lost,
                    saw_eos |-> saw_eos ], heard)
           next == Advance(g, j)
       IN  /\ faults + Cardinality(lost) <= MaxFaults
           /\ heard # <<>>
           /\ faults' = faults + Cardinality(lost)
           /\ IF extent = 0 /\ ~restarted
              THEN /\ extent' = Pre + GroupLen
                   /\ restarted' = TRUE
                   /\ Clears(s)
                   /\ Further(0)
              ELSE /\ out' = s.out /\ last_seq' = s.last_seq
                   /\ frames_ok' = s.frames_ok
                   /\ frames_lost' = s.frames_lost
                   /\ saw_eos' = s.saw_eos
                   /\ Further(IF next > pos + Sym THEN next ELSE pos + Sym)
                   /\ UNCHANGED <<extent, restarted>>
  /\ UNCHANGED <<rec, found>>

Next == NextPreamble \/ WalkEnds \/ DecodeFails \/ DecodeGroup
Spec == Init /\ [][Next]_vars

-----------------------------------------------------------------------------
(* The frames put out are frames sent, in the order sent and none twice,   *)
(* whatever preamble each search and each decoder locked on and although   *)
(* the walk starts over.                                                   *)
InOrderOnce ==
  \A i, j \in DOMAIN out: i < j => out[i].id < out[j].id

(* A recording that noise left alone yields the groups it holds whole,     *)
(* wherever it begins: all the payload when it holds the first.            *)
Heard == FlattenSeq(SelectSeq([g \in DOMAIN frames |->
             IF starts[g] >= 0 THEN frames[g] ELSE <<>>], LAMBDA g: g # <<>>))
NothingMissed ==
  pc = "done" /\ faults = 0 =>
    /\ out = Heard
    /\ Heard # <<>> => saw_eos
    /\ starts[1] >= 0 => Bytes(out) = data_len

(* Losses are counted over the span that was heard: decoded and missing    *)
(* frames add up to it, as long as no gap reaches half the number space.   *)
LossCounted ==
  (\A i \in 1 .. Len(out) - 1: out[i + 1].id - out[i].id <= SEQ_MOD \div 2)
    => /\ frames_ok = Len(out)
       /\ out # <<>> =>
            frames_ok + frames_lost = out[Len(out)].id - out[1].id + 1
=============================================================================
