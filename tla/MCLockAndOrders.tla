---------------------------- MODULE MCLockAndOrders ----------------------------
(***************************************************************************)
(* Model checking of DistributedLock, and of the order dialogues that      *)
(* cancel under such a lock, one after the other: machine names the one    *)
(* that is explored, and the variables of the other stay at their initial  *)
(* values.  OrderActions takes the lock as the abstract Mutex.             *)
(***************************************************************************)
EXTENDS DistributedLock, OrderActions

VARIABLE machine

allVars == <<machine, vars, orderVars>>

MCInit == machine \in {"lock", "orders"} /\ Init /\ OrderInit

LockRuns == machine = "lock" /\ UNCHANGED <<machine, orderVars>>
OrdersRun == machine = "orders" /\ UNCHANGED <<machine, vars>>

\* Dialogues may end; the lock's threads never all wait.
OrdersDone == machine = "orders" /\ ~ENABLED OrderNext /\ UNCHANGED allVars

MCNext ==
    \/ LockRuns /\ Next
    \/ OrdersRun /\ OrderNext
    \/ OrdersDone

\* The fairness is that of FairSpec and OrderFairSpec.
MCSpec ==
    /\ MCInit /\ [][MCNext]_allVars
    /\ WF_allVars(LockRuns /\ Tick)
    /\ \A c \in Clients : WF_allVars(LockRuns /\ DogStep(c))
    /\ \A c \in Cancellers : WF_allVars(OrdersRun /\ CancelStep(c))
    /\ \A m \in Modifiers : WF_allVars(OrdersRun /\ ModifyStep(m))
===============================================================================
