---------------------------- MODULE MCTransactions ----------------------------
(***************************************************************************)
(* Model checking of Tcc, Outbox and LocalMessages on small instances.     *)
(* They share nothing but the number of failures, so one run explores them *)
(* one after the other: machine names the one that is explored, and the    *)
(* variables of the others stay at their initial values.                   *)
(***************************************************************************)
EXTENDS Tcc, Outbox, LocalMessages

VARIABLE machine

\* One of the executions orders two pieces.
OneOfTwo == [t1 |-> 2, t2 |-> 1, t3 |-> 1]

MCInit ==
    /\ machine \in {"TCC", "outbox", "local messages"}
    /\ TccInit /\ OutboxInit /\ LocalInit

\* Their variables without the counters of failures.
tccOwn == <<frozen, real, phase, reserved, deducted, ordered>>
outboxOwn == <<outbox, publish, at, left, raw, accepted>>
localOwn == <<pending, dead, hash, create, task, turns, msgId, retry, sends>>

TccRuns == machine = "TCC" /\ UNCHANGED <<machine, outboxOwn, localOwn>>
OutboxRuns == machine = "outbox" /\ UNCHANGED <<machine, tccOwn, localOwn>>
LocalRuns == machine = "local messages" /\ UNCHANGED <<machine, tccOwn, outboxOwn>>

MCNext ==
    \/ TccRuns /\ TccNext
    \/ OutboxRuns /\ OutboxNext
    \/ LocalRuns /\ LocalNext

allVars == <<machine, tccVars, outboxVars, localVars>>

\* The fairness is that of OutboxFairSpec and LocalFairSpec.
MCSpec ==
    /\ MCInit /\ [][MCNext]_allVars
    /\ \A d \in Dispatchers :
        /\ WF_allVars(OutboxRuns /\ Dispatch(d))
        /\ WF_allVars(OutboxRuns /\ DispatchStep(d))
        /\ \A m \in Events : SF_allVars(OutboxRuns /\ Accepts(d, m))
    /\ \A p \in Tasks :
        WF_allVars(LocalRuns /\ Process(p)) /\ WF_allVars(LocalRuns /\ TaskStep(p))
===============================================================================
