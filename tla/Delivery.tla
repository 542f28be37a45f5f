------------------------------ MODULE Delivery ------------------------------
(***************************************************************************)
(* What a queue with retries promises to the code that puts items into it. *)
(* An item is in the queue or in the hands of one keeper, who takes it     *)
(* from the queue and can only put it back there; every attempt is its     *)
(* keeper's.  It is done after an attempt, and given up after Tries of     *)
(* them, never earlier.  Both are final.  It is lost only for a reason.    *)
(* The delay queue of core/redis_delay_queue.py implements it, and so does *)
(* the local message table of core/redis_transaction.py.                   *)
(***************************************************************************)
EXTENDS Naturals

CONSTANTS
    Items,
    Keepers,
    Tries        \* the attempts after which an item is given up

VARIABLES
    state,       \* where each item is
    keepers,     \* in whose hands it is
    attempts,    \* the attempts made on it
    excused      \* the items there is a reason to lose

deliveryVars == <<state, keepers, attempts, excused>>

Init ==
    /\ state = [i \in Items |-> "outside"]
    /\ keepers = [i \in Items |-> {}]
    /\ attempts = [i \in Items |-> 0]
    /\ excused = {}

Same(i) == UNCHANGED <<state[i], keepers[i], attempts[i]>>

\* The item goes from one state to another, without an attempt.
Goes(i, from, to, hands) ==
    /\ state[i] = from
    /\ state'[i] = to
    /\ keepers'[i] = hands
    /\ UNCHANGED attempts[i]

Offer(i) == Goes(i, "outside", "queued", {})

Take(i) == \E k \in Keepers : Goes(i, "queued", "held", {k})

Attempt(i) ==
    /\ state[i] = "held"
    /\ attempts[i] < Tries
    /\ attempts'[i] = attempts[i] + 1
    /\ UNCHANGED <<state[i], keepers[i]>>

\* A keeper puts an item back that it has tried, when attempts are left.
PutBack(i) == attempts[i] \in 1 .. (Tries - 1) /\ Goes(i, "held", "queued", {})

Finish(i) == attempts[i] > 0 /\ Goes(i, "held", "done", {})

GiveUp(i) == attempts[i] = Tries /\ Goes(i, "held", "failed", {})

Lose(i) ==
    /\ i \in excused'
    /\ \E from \in {"outside", "queued", "held"} : Goes(i, from, "lost", {})

Step(i) ==
    Offer(i) \/ Take(i) \/ Attempt(i) \/ PutBack(i) \/ Finish(i) \/ GiveUp(i) \/ Lose(i)

\* A batch, or the death of a keeper, moves several items at once.
Next ==
    /\ state' \in [Items -> {"outside", "queued", "held", "done", "failed", "lost"}]
    /\ keepers' \in [Items -> SUBSET Keepers]
    /\ attempts' \in [Items -> 0 .. Tries]
    /\ excused \subseteq excused'
    /\ \A i \in Items : Same(i) \/ Step(i)

Spec == Init /\ [][Next]_deliveryVars
=============================================================================
