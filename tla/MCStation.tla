----------------------------- MODULE MCStation -----------------------------
(* Two stations with a few messages, for the runs of Station.  A sends a   *)
(* control message, an interactive one and bulk ones of three and two      *)
(* units; B sends an interactive message and a bulk one.                   *)
EXTENDS Station

CONSTANTS c1, i1, d1, d2, j1, e1

MCOneWayMixed == {c1, d1, d2}
MCTwoWay == {i1, d2, e1}
MCTwoWayBulk == {d2, j1}
MCTwoWayPrio == {i1, d2, j1}
MCFrom == [m \in Messages |-> IF m \in {e1, j1} THEN B ELSE A]
MCQosOf == [m \in Messages |-> CASE m = c1 -> 0            \* QOS_CONTROL
                                  [] m \in {i1, j1} -> 1    \* QOS_INTERACTIVE
                                  [] OTHER -> 2]            \* QOS_BULK
MCSize == [m \in Messages |-> CASE m = d1 -> 3 [] m \in {d2, e1} -> 2
                                 [] OTHER -> 1]

(* Three classes of rungs: EXTREME, which cannot engage a burst; the lower *)
(* NORMAL ones with short fragments; the upper ones with fragments too     *)
(* long for EXTREME.                                                       *)
EXTREME == 0
LOW == 1
HIGH == 2
MCFragSize == [r \in Rungs |-> r]
MCFragMax == [r \in Rungs |-> IF r = EXTREME THEN 1 ELSE 2]
=============================================================================
