-------------------------------- MODULE MCSaga --------------------------------
(* Model checking of Saga with two runs that share a coordinator object. *)
EXTENDS Saga

Shared == [r \in {"s1", "s2"} |-> "k1"]
===============================================================================
