--------------------------- MODULE MCStopAndWait ---------------------------
(* Two stations with a few messages each: A sends a control message, an    *)
(* interactive one and a two-unit bulk message, B a two-unit bulk one.     *)
EXTENDS StopAndWait, TLC

CONSTANTS c1, i1, d1, e1

MCMessages == {c1, i1, d1, e1}

MCFrom == [m \in Messages |-> IF m = e1 THEN B ELSE A]
MCQosOf == [m \in Messages |-> CASE m = c1 -> QOS_CONTROL
                                  [] m = i1 -> QOS_INTERACTIVE
                                  [] OTHER -> QOS_BULK]
MCSize == [m \in Messages |-> IF m = c1 THEN 1 ELSE 2]
=============================================================================
