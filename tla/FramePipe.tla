----------------------------- MODULE FramePipe -----------------------------
(***************************************************************************)
(* What the way from the device to its host promises: a stream of units    *)
(* that is the staged frames one after another, each of them whole, of     *)
(* which the host has read a beginning and is behind by no more than the   *)
(* capacity.                                                               *)
(***************************************************************************)
EXTENDS Integers, Sequences

CONSTANTS Frames, FrameLen(_), Capacity

VARIABLES
  staged,  \* the frames accepted so far
  got      \* how many units of them the host has read, and which they were

(* Where frame n of frames starts in the stream, its length, and the unit  *)
(* at position k.                                                          *)
Start(frames, n) ==
  LET upto[i \in 0..Len(frames)] ==
        IF i = 0 THEN 0 ELSE upto[i - 1] + FrameLen(frames[i])
  IN  upto[n - 1]
Total(frames) == Start(frames, Len(frames) + 1)
UnitAt(frames, k) ==
  LET n == CHOOSE i \in 1..Len(frames) :
             /\ Start(frames, i) < k
             /\ k <= Start(frames, i) + FrameLen(frames[i])
  IN  <<n, k - Start(frames, n)>>

Init == staged = <<>> /\ got = <<>>

Stage(f) ==
  /\ Total(staged) - Len(got) + FrameLen(f) <= Capacity
  /\ staged' = Append(staged, f)
  /\ UNCHANGED got

Read(n) ==
  /\ Len(got) + n <= Total(staged)
  /\ got' = got \o [i \in 1..n |-> UnitAt(staged, Len(got) + i)]
  /\ UNCHANGED staged

Next ==
  \/ \E f \in Frames : Stage(f)
  \/ \E n \in 1..Capacity : Read(n)

Spec == Init /\ [][Next]_<<staged, got>>
=============================================================================
