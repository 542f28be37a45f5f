---------------------------- MODULE MCRedisTools ----------------------------
(***************************************************************************)
(* Model checking of the sagas and of the modules under core/ that build   *)
(* on Redis and do not use each other.  One run explores them one after    *)
(* the other: machine names the one that is explored, and the variables of *)
(* the others keep one of their initial values.                            *)
(***************************************************************************)
EXTENDS ReadThrough, DeadLetters, SharedLock, Connection, Batches, RedisCalls, DistributedId,
        Idempotency, Bloom, RateLimiter, Saga

VARIABLE machine

\* Two elements of the Bloom filter that have one of their two positions in common.
FirstHash == [e \in {"a", "b"} |-> IF e = "a" THEN 0 ELSE 1]
SecondHash == [e \in {"a", "b"} |-> IF e = "a" THEN 1 ELSE 2]

\* Two generators on hosts of the same hash.
Hosts == [g \in {"g1", "g2"} |-> 0]

\* The first two runs of a saga share a coordinator object, the third has its own.
TwoShareOne == [r \in {"s1", "s2", "s3"} |-> IF r = "s3" THEN "k2" ELSE "k1"]

Machines == {"events", "letters", "readThrough", "connection", "batches", "calls", "limiter",
             "ids", "idempotency", "bloom", "sharedLock", "saga"}

\* In a stream whose messages no one replays the copies are out of the question.
NoReplay == copies = [m \in Messages |-> 1] /\ unsent = {}

MCInit ==
    /\ machine \in Machines
    /\ IF machine = "letters" THEN LettersInit ELSE StreamInit /\ NoReplay
    /\ CacheInit /\ ConnectionInit /\ CallsInit /\ IdInit /\ IdempotencyInit /\ BloomInit
    /\ SharedInit /\ SagaInit
    /\ BatchesInit
    /\ machine # "batches" => ~aligned /\ way = [t \in Movers |-> "WATCH"]
    /\ LimiterInit /\ (machine # "limiter" => dimension = "fixed_window")

MCNext ==
    /\ \/ machine = "events" /\ StreamNext /\ UNCHANGED <<copies, unsent>>
       \/ machine = "letters" /\ LettersNext
       \/ machine = "readThrough" /\ CacheNext
       \/ machine = "connection" /\ ConnectionNext
       \/ machine = "batches" /\ BatchesNext
       \/ machine = "calls" /\ CallsNext
       \/ machine = "limiter" /\ LimiterNext
       \/ machine = "ids" /\ IdNext
       \/ machine = "idempotency" /\ IdempotencyNext
       \/ machine = "bloom" /\ BloomNext
       \/ machine = "sharedLock" /\ SharedNext
       \/ machine = "saga" /\ SagaNext
    /\ UNCHANGED machine
    /\ machine \notin {"events", "letters"} => UNCHANGED letterVars
    /\ machine # "readThrough" => UNCHANGED readThroughVars
    /\ machine # "connection" => UNCHANGED connectionVars
    /\ machine # "batches" => UNCHANGED batchVars
    /\ machine # "calls" => UNCHANGED callVars
    /\ machine # "limiter" => UNCHANGED limiterVars
    /\ machine # "ids" => UNCHANGED idVars
    /\ machine # "idempotency" => UNCHANGED idempotencyVars
    /\ machine # "bloom" => UNCHANGED bloomVars
    /\ machine # "sharedLock" => UNCHANGED sharedVars
    /\ machine # "saga" => UNCHANGED sagaVars

MCSpec ==
    MCInit /\ [][MCNext]_<<machine, letterVars, readThroughVars, connectionVars, batchVars,
                           callVars, limiterVars, idVars, idempotencyVars, bloomVars,
                           sharedVars, sagaVars>>

=============================================================================
