-------------------------------- MODULE Tcc --------------------------------
(***************************************************************************)
(* core/redis_transaction.py, TccCoordinator: Try, Confirm and, when       *)
(* Confirm raises, Cancel.  The participant is the one the class's         *)
(* docstring registers: Try takes the quantity from stock:frozen, Confirm  *)
(* takes it from stock:real and creates the order, Cancel gives it back to *)
(* stock:frozen.  Its Redis helpers swallow errors: atomic_deduct returns  *)
(* False, cache_incr returns -1.  The record the coordinator keeps in      *)
(* Redis is written and never read, so it is no variable here.             *)
(***************************************************************************)
EXTENDS Faults, FiniteSets

CONSTANTS
    Txns,         \* calls of execute()
    Quantity,     \* the quantity each of them orders
    Stock         \* stock:frozen and stock:real at the beginning

ASSUME TccAssumption == Quantity \in [Txns -> Nat] /\ Stock \in Nat

VARIABLES
    frozen,    \* stock:frozen, what is left to reserve
    real,      \* stock:real, what is left to sell
    phase,     \* where each execution is, or how it ended
    reserved,  \* history: the executions whose Try took effect and no Cancel
    deducted,  \* history: those whose Confirm took its quantity
    ordered    \* the orders in the database

history == <<reserved, deducted>>
tccVars == <<frozen, real, phase, reserved, deducted, ordered, errors, crashes>>

Answered == {"confirmed", "refused", "cancelled", "stuck"}
InFlight == {"confirming", "ordering", "cancelling"}

TccInit ==
    /\ frozen = Stock
    /\ real = Stock
    /\ phase = [t \in Txns |-> "start"]
    /\ reserved = {}
    /\ deducted = {}
    /\ ordered = {}
    /\ NoFaults

Enter(t, place) == phase' = [phase EXCEPT ![t] = place]

Reserve(t) ==
    /\ frozen >= Quantity[t]
    /\ frozen' = frozen - Quantity[t]
    /\ reserved' = reserved \union {t}
NoReserve == UNCHANGED <<frozen, reserved>>

\* Mutant of Try: the stock is not compared with the quantity.
TryUnchecked(t) ==
    /\ phase[t] = "start"
    /\ frozen' = IF frozen >= Quantity[t] THEN frozen - Quantity[t] ELSE 0
    /\ reserved' = reserved \union {t}
    /\ Enter(t, "confirming")
    /\ UNCHANGED <<real, deducted, ordered, errors, crashes>>

\* Phase 1.  The script deducts, or finds too little; or the call fails, with
\* or without having deducted.  A Try that did not return true ends the
\* execution: there is no Cancel after it.
Try(t) ==
    /\ phase[t] = "start"
    /\ \/ Reserve(t) /\ Enter(t, "confirming") /\ UNCHANGED errors
       \/ frozen < Quantity[t] /\ NoReserve /\ Enter(t, "refused") /\ UNCHANGED errors
       \/ (Reserve(t) \/ NoReserve) /\ Enter(t, "refused") /\ Fault
    /\ UNCHANGED <<real, deducted, ordered, crashes>>

\* Phase 2, the deduction from stock:real.  Its result is not looked at.
Deduct(t) ==
    /\ phase[t] = "confirming"
    /\ Enter(t, "ordering")
    /\ \/ /\ real >= Quantity[t]
          /\ real' = real - Quantity[t]
          /\ deducted' = deducted \union {t}
          /\ UNCHANGED errors \/ Fault
       \/ real < Quantity[t] /\ UNCHANGED <<real, deducted, errors>>
       \/ Fault /\ UNCHANGED <<real, deducted>>
    /\ UNCHANGED <<frozen, reserved, ordered, crashes>>

\* Phase 2, the order.  Confirm returns, the execution is a success.
CreateOrder(t) ==
    /\ phase[t] = "ordering"
    /\ ordered' = ordered \union {t}
    /\ Enter(t, "confirmed")
    /\ UNCHANGED <<frozen, real, history, errors, crashes>>

\* Confirm raises because the order cannot be stored; the session that stores
\* it is rolled back.
CreateFails(t) ==
    /\ phase[t] = "ordering"
    /\ Enter(t, "cancelling")
    /\ UNCHANGED <<frozen, real, history, ordered, errors, crashes>>

Unreserve(t) ==
    /\ frozen' = frozen + Quantity[t]
    /\ reserved' = reserved \ {t}

\* Cancel returns: the quantity is given back, or the call failed, with or
\* without effect, and cache_incr's -1 is not looked at.
Cancel(t) ==
    /\ phase[t] = "cancelling"
    /\ Enter(t, "cancelled")
    /\ \/ Unreserve(t) /\ UNCHANGED errors
       \/ (Unreserve(t) \/ NoReserve) /\ Fault
    /\ UNCHANGED <<real, deducted, ordered, crashes>>

\* Cancel raises before it has given anything back: the caller is told to
\* repair the transaction by hand.
CancelFails(t) ==
    /\ phase[t] = "cancelling"
    /\ Enter(t, "stuck")
    /\ UNCHANGED <<frozen, real, history, ordered, errors, crashes>>

\* The coordinator dies; nobody takes its transactions over.
CoordinatorDies(t) ==
    /\ phase[t] \in InFlight
    /\ Enter(t, "crashed")
    /\ Death
    /\ UNCHANGED <<frozen, real, history, ordered, errors>>

Execute(t) == Try(t) \/ Deduct(t) \/ CreateOrder(t) \/ CreateFails(t) \/ Cancel(t) \/ CancelFails(t)

TccNext == \E t \in Txns : Execute(t) \/ CoordinatorDies(t)

TccSpec == TccInit /\ [][TccNext]_tccVars
-----------------------------------------------------------------------------
(***************************************************************************)
(* Properties                                                              *)
(***************************************************************************)

\* The pieces that a set of executions orders.
Pieces(S) == UNION {{t} \X (1..Quantity[t]) : t \in S}
Amount(S) == Cardinality(Pieces(S))

\* A confirmed order has taken its quantity from stock:real: a reservation is
\* enough for the deduction that follows it, unless a Redis call failed or a
\* cancelled execution has kept what its Confirm had taken.
OrderedWasDeducted ==
    \A t \in ordered :
        t \in deducted \/ errors > 0 \/ \E u \in deducted : phase[u] = "cancelled"

\* An execution that ended as refused or cancelled holds no reservation,
\* however its order failed, unless a Redis call failed.
LeakNeedsFault == \A t \in reserved : phase[t] \in {"refused", "cancelled"} => errors > 0

\* What Try, Confirm and Cancel are for: the orders never exceed the stock,
\* whatever calls fail, coordinators die or executions interleave between
\* the two stock counters - although Confirm ignores a failed deduction; and
\* orders, deductions and reservations match unless something failed.
NoOversell == Amount(ordered) <= Stock /\ OrderedWasDeducted /\ LeakNeedsFault
=============================================================================
