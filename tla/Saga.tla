-------------------------------- MODULE Saga --------------------------------
(***************************************************************************)
(* core/redis_transaction.py, SagaCoordinator: execute() runs the steps in *)
(* order and, when one fails, compensates the steps its coordinator object *)
(* remembers, last one first.  A run is one call of execute with its own   *)
(* params; several runs may use one coordinator, one after the other or at *)
(* the same time.  The steps and their compensations are the caller's.     *)
(* The record that execute writes to Redis is left out: its failures are   *)
(* swallowed and no code reads it.                                         *)
(***************************************************************************)
EXTENDS Naturals, Sequences

CONSTANTS
    Runs,            \* calls of execute
    Coordinators,    \* SagaCoordinator objects
    CoordinatorOf,   \* the object each run is called on
    N                \* len(self._steps)

ASSUME SagaAssumption ==
    /\ CoordinatorOf \in [Runs -> Coordinators]
    /\ N \in Nat \ {0}

Steps == 1..N

VARIABLES
    pc,         \* where each run is
    at,         \* the step it executes next, or its index in the reversed list
    executed,   \* self._executed_steps of each coordinator
    worked,     \* history: the steps of each run that returned a true value
    undone,     \* history: how often each run has compensated each step
    wordless    \* history: the runs whose compensation raised without a text

sagaVars == <<pc, at, executed, worked, undone, wordless>>

SagaEnded == {"completed", "compensated", "compensation_failed", "crashed"}

Remembered(r) == executed[CoordinatorOf[r]]

SagaInit ==
    /\ pc = [r \in Runs |-> "idle"]
    /\ at = [r \in Runs |-> 0]
    /\ executed = [c \in Coordinators |-> <<>>]
    /\ worked = [r \in Runs |-> {}]
    /\ undone = [r \in Runs |-> [s \in Steps |-> 0]]
    /\ wordless = {}

Goto(r, place, index) ==
    /\ pc' = [pc EXCEPT ![r] = place]
    /\ at' = [at EXCEPT ![r] = index]

-----------------------------------------------------------------------------
Begin(r) ==
    /\ pc[r] = "idle"
    /\ Goto(r, "running", 1)
    /\ UNCHANGED <<executed, worked, undone, wordless>>

\* step.execute returns a true value: the coordinator remembers the step.
StepSucceeds(r) ==
    /\ pc[r] = "running"
    /\ at[r] \in Steps
    /\ Goto(r, "running", at[r] + 1)
    /\ executed' = [executed EXCEPT ![CoordinatorOf[r]] = Append(@, at[r])]
    /\ worked' = [worked EXCEPT ![r] = @ \union {at[r]}]
    /\ UNCHANGED <<undone, wordless>>

\* Mutant of StepFails: the list is cleared before the rollback.
FailsAndForgets(r) ==
    /\ pc[r] = "running"
    /\ at[r] \in Steps
    /\ Goto(r, "compensating", 0)
    /\ executed' = [executed EXCEPT ![CoordinatorOf[r]] = <<>>]
    /\ UNCHANGED <<worked, undone, wordless>>

\* Mutant of StepFails: the next step runs all the same.
FailsAndGoesOn(r) ==
    /\ pc[r] = "running"
    /\ at[r] \in Steps
    /\ Goto(r, "running", at[r] + 1)
    /\ UNCHANGED <<executed, worked, undone, wordless>>

\* step.execute returns a false value or raises: _compensate starts at the end
\* of the list.  Whatever the failed step has done is not part of the model.
StepFails(r) ==
    /\ pc[r] = "running"
    /\ at[r] \in Steps
    /\ Goto(r, "compensating", Len(Remembered(r)))
    /\ UNCHANGED <<executed, worked, undone, wordless>>

Complete(r) ==
    /\ pc[r] = "running"
    /\ at[r] > N
    /\ Goto(r, "completed", 0)
    /\ UNCHANGED <<executed, worked, undone, wordless>>

\* The compensation of a remembered step, called with this run's params.
Compensated(r) == undone' = [undone EXCEPT ![r][Remembered(r)[at[r]]] = @ + 1]

\* Mutant of Compensate: the list is walked from its head.
CompensateForwards(r) ==
    /\ pc[r] = "compensating"
    /\ at[r] > 0
    /\ undone' = [undone EXCEPT ![r][Remembered(r)[Len(Remembered(r)) + 1 - at[r]]] = @ + 1]
    /\ Goto(r, "compensating", at[r] - 1)
    /\ UNCHANGED <<executed, worked, wordless>>

Compensate(r) ==
    /\ pc[r] = "compensating"
    /\ at[r] > 0
    /\ Compensated(r)
    /\ Goto(r, "compensating", at[r] - 1)
    /\ UNCHANGED <<executed, worked, wordless>>

\* A compensation raises, before or after its effect: the others are skipped.
\* _compensate returns str(e), which execute tests for truth: an exception
\* without a text counts as a rollback.
CompensateFails(r) ==
    /\ pc[r] = "compensating"
    /\ at[r] > 0
    /\ Compensated(r) \/ UNCHANGED undone
    /\ \/ Goto(r, "compensation_failed", 0) /\ UNCHANGED wordless
       \/ Goto(r, "compensated", 0) /\ wordless' = wordless \union {r}
    /\ UNCHANGED <<executed, worked>>

EndCompensation(r) ==
    /\ pc[r] = "compensating"
    /\ at[r] = 0
    /\ Goto(r, "compensated", 0)
    /\ UNCHANGED <<executed, worked, undone, wordless>>

\* The process of a coordinator dies.  Nothing reads the saga records that
\* its runs have written: they stay as they are.
CoordinatorCrashes(c) ==
    /\ \E r \in Runs : CoordinatorOf[r] = c /\ pc[r] \in {"running", "compensating"}
    /\ pc' = [r \in Runs |-> IF CoordinatorOf[r] = c /\ pc[r] \in {"running", "compensating"}
                             THEN "crashed" ELSE pc[r]]
    /\ executed' = [executed EXCEPT ![c] = <<>>]
    /\ UNCHANGED <<at, worked, undone, wordless>>

RunStep(r) ==
    \/ StepSucceeds(r) \/ StepFails(r) \/ Complete(r)
    \/ Compensate(r) \/ CompensateFails(r) \/ EndCompensation(r)

SagaNext ==
    \/ \E r \in Runs : Begin(r) \/ RunStep(r)
    \/ \E c \in Coordinators : CoordinatorCrashes(c)

SagaSpec == SagaInit /\ [][SagaNext]_sagaVars

-----------------------------------------------------------------------------
(***************************************************************************)
(* Properties                                                              *)
(***************************************************************************)

\* Every variable has its type.
SagaTypeOK ==
    /\ pc \in [Runs -> {"idle", "running", "compensating"} \union SagaEnded]
    /\ at \in [Runs -> Nat]
    /\ executed \in [Coordinators -> Seq(Steps)]
    /\ worked \in [Runs -> SUBSET Steps]
    /\ undone \in [Runs -> [Steps -> Nat]]
    /\ wordless \subseteq Runs

\* A run that reports its rollback has compensated every step it did, also
\* when other runs add to the coordinator's list meanwhile.  Only an exception
\* without a text makes the report wrong.
NothingLeftBehind ==
    \A r \in Runs : pc[r] = "compensated" /\ r \notin wordless =>
        \A s \in worked[r] : undone[r][s] > 0

\* A completed run has done every step, and the rollbacks of other runs on
\* the same coordinator leave its steps alone.
CompletedIntact ==
    \A r \in Runs : pc[r] = "completed" =>
        worked[r] = Steps /\ \A s \in Steps : undone[r][s] = 0

\* A step is compensated at most once, only after it was done, and after the
\* steps that followed it.
InReverse(r) ==
    \A s \in Steps :
        /\ undone[r][s] <= 1
        /\ undone[r][s] = 1 =>
              s \in worked[r] /\ \A t \in worked[r] : t > s => undone[r][t] = 1

\* The coordinator of the run serves no other.
Alone(r) == \A q \in Runs \ {r} : CoordinatorOf[q] # CoordinatorOf[r]

\* A run on a coordinator of its own compensates in reverse order, wherever it
\* fails or dies.
AloneInReverse == \A r \in Runs : Alone(r) => InReverse(r)

\* The class's docstring: every run compensates in reverse order.
UndoneInReverse == \A r \in Runs : InReverse(r)

=============================================================================
