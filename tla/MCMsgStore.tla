----------------------------- MODULE MCMsgStore -----------------------------
(* MsgStore on a store of a few slots. *)
EXTENDS MsgStore, TLC

CONSTANTS s1, s2, s3, m1, m2

MCSlots == {s1, s2, s3}
MCPayloads == {m1, m2}

(* Slots and messages are only ever compared. *)
Symmetry == Permutations(MCSlots) \cup Permutations(MCPayloads)
=============================================================================
