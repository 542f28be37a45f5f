-------------------------------- MODULE Mutex --------------------------------
(***************************************************************************)
(* What a lock with a lease promises to the code between acquire() and     *)
(* release(): a client enters only when everybody inside has lost its      *)
(* lease.  If no lease is ever lost this is a mutex.                       *)
(***************************************************************************)
CONSTANT Clients
VARIABLES
    inside,   \* the clients in their critical sections
    lost      \* those of them whose lease has expired

Init == inside = {} /\ lost = {}

Enter(c) ==
    /\ c \notin inside
    /\ inside \subseteq lost
    /\ inside' = inside \union {c}
    /\ lost' = lost

Leave(c) ==
    /\ c \in inside
    /\ inside' = inside \ {c}
    /\ lost' = lost \ {c}

Expire(c) ==
    /\ c \in inside
    /\ lost' = lost \union {c}
    /\ inside' = inside

Next == \E c \in Clients : Enter(c) \/ Leave(c) \/ Expire(c)

Spec == Init /\ [][Next]_<<inside, lost>>
=============================================================================
