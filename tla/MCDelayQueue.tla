----------------------------- MODULE MCDelayQueue -----------------------------
(* Model checking of DelayQueue on small instances. *)
EXTENDS DelayQueue

CONSTANTS w1, w2, p1, p2, p3

\* One worker that can come to have two poll threads, and another.
TwoAndOne == [p \in {p1, p2, p3} |-> IF p = p3 THEN w2 ELSE w1]
===============================================================================
