----------------------------- MODULE VoiceStream -----------------------------
(***************************************************************************)
(* voice/voice_bcast.py: speech as one broadcast stream.  The codec gives  *)
(* tokens of TokenBits bits; a command carries whole bytes, and the        *)
(* receiver, which sees only bytes, cut by the radio as it pleases,        *)
(* unpacks all of them as one string of tokens.  What does not fill whole  *)
(* bytes waits for the next group.  The codec and the wait for the         *)
(* microphone are left out; tokens are numbered as they are spoken.        *)
(***************************************************************************)
EXTENDS Integers, Sequences, SequencesExt

CONSTANTS
  TokenBits, ByteBits,  \* 10 and 8
  Whole,                \* tokens that fill whole bytes: 4
  Per,                  \* PER, chunks in a group
  ChunkSizes,           \* tokens a chunk may have
  MaxChunks             \* bound: chunks of the speech

(* A token, halved 0 .. TokenBits times. *)
Halved(v) ==
  LET h[j \in 0 .. TokenBits] == IF j = 0 THEN v ELSE h[j - 1] \div 2 IN h

StreamerAssumption ==
  /\ {TokenBits, ByteBits, Whole, Per} \subseteq Nat \ {0}
  /\ (Whole * TokenBits) % ByteBits = 0
  /\ ChunkSizes \subseteq Nat \ {0} /\ MaxChunks \in Nat
  /\ \A n \in ChunkSizes: \A v \in 1 .. MaxChunks * n:
       Halved(v)[TokenBits] = 0          \* every token has TokenBits bits

VARIABLES
  pend, carry,   \* chunks of the group, tokens left of the last one
  bc_open,       \* a command of the stream has been sent
  board,         \* bytes the transmitting board has not aired (external)
  rx,            \* bytes received
  at,            \* speaking, draining, result
  chunks, said   \* history: chunks and tokens spoken

streaming == <<pend, carry, bc_open, board, rx, at, chunks, said>>

-----------------------------------------------------------------------------
(* pack10, zero-padded to a byte, and unpack10 of the first n tokens.      *)
TokenOf(bits) ==
  LET v[i \in 0 .. Len(bits)] == IF i = 0 THEN 0 ELSE 2 * v[i - 1] + bits[i]
  IN v[Len(bits)]
BitsOf(v) == [i \in 1 .. TokenBits |-> Halved(v)[TokenBits - i] % 2]
pack10(idx) ==
  LET bits == FlattenSeq([i \in DOMAIN idx |-> BitsOf(idx[i])])
      padded(i) == IF i <= Len(bits) THEN bits[i] ELSE 0
  IN [j \in 1 .. (Len(bits) + ByteBits - 1) \div ByteBits |->
        [i \in 1 .. ByteBits |-> padded((j - 1) * ByteBits + i)]]
unpack10(raw, n) ==
  LET b == FlattenSeq(raw)
  IN [i \in 1 .. n |-> TokenOf(SubSeq(b, (i - 1) * TokenBits + 1, i * TokenBits))]
Tokens(raw) == (Len(raw) * ByteBits) \div TokenBits

Init ==
  /\ pend = <<>> /\ carry = <<>> /\ bc_open = FALSE
  /\ board = <<>> /\ rx = <<>>
  /\ at = "speaking" /\ chunks = 0 /\ said = <<>>

(* The board (external) lets a command that does not continue the stream   *)
(* supersede what it has not sent.                                         *)
Command(continues, raw) ==
  board' = (IF continues THEN board ELSE <<>>) \o raw

(* A chunk is encoded; with the last of a group the whole bytes go out.    *)
Group(idx, keep) ==
  /\ pend' = <<>>
  /\ carry' = SubSeq(idx, keep + 1, Len(idx))
  /\ IF keep = 0 THEN UNCHANGED <<bc_open, board>>
     ELSE /\ Command(bc_open, pack10(SubSeq(idx, 1, keep)))
          /\ bc_open' = TRUE
WholeBytes(n) == (n \div Whole) * Whole
Speak ==
  /\ at = "speaking" /\ chunks < MaxChunks
  /\ \E n \in ChunkSizes:
       LET chunk == [i \in 1 .. n |-> Len(said) + i]
           group == Append(pend, chunk)
           idx == carry \o FlattenSeq(group)
       IN /\ said' = said \o chunk
          /\ IF Len(group) >= Per THEN Group(idx, WholeBytes(Len(idx)))
             ELSE pend' = group /\ UNCHANGED <<carry, bc_open, board>>
  /\ chunks' = chunks + 1
  /\ UNCHANGED <<rx, at>>

(* The speech is over: what is left goes out, filled up with its last      *)
(* token.                                                                  *)
Tail10(tail) ==
  LET r == Len(tail) % Whole
  IN tail \o (IF r = 0 THEN <<>> ELSE [i \in 1 .. Whole - r |-> Last(tail)])
Close ==
  /\ at = "speaking"
  /\ at' = "draining"
  /\ LET tail == carry \o FlattenSeq(pend)
     IN IF tail = <<>> THEN UNCHANGED board
        ELSE Command(bc_open, pack10(Tail10(tail)))
  /\ UNCHANGED <<pend, carry, bc_open, rx, chunks, said>>

(* The receiver keeps the bytes of every piece, whatever starts or ends.   *)
receiver ==
  /\ at # "result"
  /\ \E n \in 1 .. Len(board):
       /\ rx' = rx \o SubSeq(board, 1, n)
       /\ board' = SubSeq(board, n + 1, Len(board))
  /\ UNCHANGED <<pend, carry, bc_open, at, chunks, said>>

(* 25 s without a piece, or 90 s in all.                                   *)
Result ==
  /\ at = "draining"
  /\ at' = "result"
  /\ UNCHANGED <<pend, carry, bc_open, board, rx, chunks, said>>

Next == Speak \/ Close \/ receiver \/ Result
Spec == Init /\ [][Next]_streaming

-----------------------------------------------------------------------------
(* What the receiver unpacks is what was said, from the first token and in *)
(* order, however groups, bytes and the pieces of the radio fall; at the   *)
(* end its last token may be repeated to fill the last bytes, and once all *)
(* bytes came in nothing is missing (carry, the tail, unpack10).           *)
SpeechTrue ==
  LET heard == unpack10(rx, Tokens(rx))
      filled == said \o [i \in 1 .. Whole - 1 |-> Len(said)]
  IN /\ IsPrefix(heard, filled)
     /\ at # "speaking" /\ board = <<>> => IsPrefix(said, heard)
=============================================================================
