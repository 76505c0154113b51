-------------------------- MODULE ReliableStreams --------------------------
(***************************************************************************)
(* What a pair of stations promises its hosts, protocol aside: in each     *)
(* direction the messages of one class are completed whole, once each and  *)
(* in the order they were submitted, and a message leaves its sender only  *)
(* after it was completed at the peer.  The classes of one stream share a  *)
(* log and may interleave in it at message boundaries.  A message          *)
(* completed while the peer has no room is in the log but not kept.        *)
(***************************************************************************)
EXTENDS Integers, Sequences, FiniteSets

CONSTANTS A, B, Messages, From, QosOf, Size, None

VARIABLES submitted, log, released

Station == {A, B}
Peer(s) == IF s = A THEN B ELSE A
Class == 0..2
StreamOf(q) == IF q = 2 THEN "bulk" ELSE "prio"
Whole(m) == [i \in 1..Size[m] |-> <<m, i>>]

rsVars == <<submitted, log, released>>

(* How many messages of class q from the peer are in the log of s. *)
Completed(s, q) ==
  LET done == log[s][StreamOf(q)]
  IN  Cardinality({i \in 1..Len(done) : QosOf[done[i].units[1][1]] = q})

Init ==
  /\ submitted = [s \in Station |-> [q \in Class |-> <<>>]]
  /\ log = [s \in Station |-> [c \in {"prio", "bulk"} |-> <<>>]]
  /\ released = [s \in Station |-> [q \in Class |-> 0]]

(* The host hands over a message. *)
Offer(s, m) ==
  /\ From[m] = s
  /\ submitted' = [submitted EXCEPT ![s][QosOf[m]] = Append(@, m)]
  /\ UNCHANGED <<log, released>>

(* The next message of class q is completed at s. *)
CompleteNext(s, q) ==
  LET n == Completed(s, q) + 1
      from == submitted[Peer(s)][q]
  IN  /\ n <= Len(from)
      /\ \E kept \in BOOLEAN :
           log' = [log EXCEPT ![s][StreamOf(q)] =
                     Append(@, [units |-> Whole(from[n]), kept |-> kept])]
      /\ UNCHANGED submitted

(* The sender gives up a message it knows to be completed. *)
ReleaseNext(s, q) ==
  /\ released[s][q] < Completed(Peer(s), q)
  /\ released' = [released EXCEPT ![s][q] = @ + 1]
  /\ UNCHANGED submitted

(* One decoded frame may both complete a message here and release one.     *)
Both(s, p, q) == ReleaseNext(s, p) /\ CompleteNext(s, q)

Next ==
  \/ \E s \in Station, m \in Messages : Offer(s, m)
  \/ \E s \in Station, q \in Class : CompleteNext(s, q) /\ UNCHANGED released
  \/ \E s \in Station, q \in Class : ReleaseNext(s, q) /\ UNCHANGED log
  \/ \E s \in Station, p, q \in Class : Both(s, p, q)

Spec == Init /\ [][Next]_rsVars
=============================================================================
