----------------------------- MODULE DelayQueue -----------------------------
(***************************************************************************)
(* core/redis_delay_queue.py: delayed tasks in a Redis sorted set, their   *)
(* data in one hash per task, and worker processes whose poll threads pop  *)
(* the due tasks in a batch and execute them one by one.                   *)
(*                                                                         *)
(* Time is left out: any queued task may be due, and the TTL of the hashes *)
(* (a day more than the delay) does not run out.  So is the lock that      *)
(* _execute_task takes: an id is in the sorted set once, it comes back at  *)
(* the earliest 120 s after its handler failed, and the lock's TTL is 30 s *)
(* - the lock is never found taken by another thread.  What acquire can do *)
(* besides succeeding is to find its own key (the reply of its first SET   *)
(* was lost) or to raise.                                                  *)
(***************************************************************************)
EXTENDS Naturals, FiniteSets

CONSTANTS
    Tasks,
    Workers,        \* processes with a DelayQueue object
    Threads,        \* identities of poll threads
    WorkerOf,       \* the worker of each
    MaxRetry,       \* self._max_retry
    BatchSize,      \* _process_due_tasks's batch_size
    MaxErrors,      \* bound: Redis calls that raise RedisError
    MaxEnds         \* bound: calls of stop_polling and workers that die

\* No task: what a thread that executes none has for an id.
NoTask == "none"

ASSUME QueueAssumption ==
    /\ NoTask \notin Tasks
    /\ WorkerOf \in [Threads -> Workers]
    /\ MaxRetry \in Nat \ {0}
    /\ BatchSize \in Nat \ {0}
    /\ {MaxErrors, MaxEnds} \subseteq Nat

VARIABLES
    queue,       \* the ids in the sorted set
    hash,        \* the hash of each task
    adder,       \* how far add() is with each task
    registered,  \* the workers whose handler is registered
    running,     \* the workers whose _running flag is set
    at,          \* where each poll thread is
    batch,       \* the popped ids it has not started
    task,        \* the id it executes
    copy,        \* the retry_count it has read
    calls,       \* history: handler calls for each task
    outcome,     \* history: "done" or "failed" once decided
    skipped,     \* history: the tasks that were popped where no handler was registered
    stops,       \* calls of stop_polling so far
    crashes,     \* deaths so far
    errors       \* RedisErrors raised so far

redisVars == <<queue, hash>>
workerVars == <<registered, running>>
threadVars == <<at, batch, task, copy>>
bounds == <<stops, crashes>>
history == <<calls, outcome, skipped>>
vars == <<queue, hash, adder, registered, running, at, batch, task, copy,
          calls, outcome, skipped, stops, crashes, errors>>

\* What a task's hash says: nothing, a live task with its retry_count, or a
\* task whose status field is "failed".
Hash(status, retries) == [status |-> status, retries |-> retries]
NoHash == Hash("none", 0)

Init ==
    /\ queue = {}
    /\ hash = [t \in Tasks |-> NoHash]
    /\ adder = [t \in Tasks |-> "hset"]
    /\ registered = {}
    /\ running = {}
    /\ at = [p \in Threads |-> "off"]
    /\ batch = [p \in Threads |-> {}]
    /\ task = [p \in Threads |-> NoTask]
    /\ copy = [p \in Threads |-> 0]
    /\ calls = [t \in Tasks |-> 0]
    /\ outcome = [t \in Tasks |-> "open"]
    /\ skipped = {}
    /\ stops = 0
    /\ crashes = 0
    /\ errors = 0

Fault == errors < MaxErrors /\ errors' = errors + 1

\* A Redis call has its effect and returns (ok), or raises with or without
\* having had it (raised).
Call(effect, none, ok, raised) ==
    \/ effect /\ ok /\ UNCHANGED errors
    \/ (effect \/ none) /\ raised /\ Fault

-----------------------------------------------------------------------------
(***************************************************************************)
(* add: three commands, one after the other                                *)
(***************************************************************************)

AddStep(t, step, effect, next) ==
    /\ adder[t] = step
    /\ Call(effect, UNCHANGED redisVars,
            adder' = [adder EXCEPT ![t] = next],
            adder' = [adder EXCEPT ![t] = "refused"])
    /\ UNCHANGED <<bounds, workerVars, threadVars, history>>

AddHset(t) ==
    AddStep(t, "hset", hash' = [hash EXCEPT ![t] = Hash("live", 0)] /\ UNCHANGED queue, "expire")

AddExpire(t) ==
    AddStep(t, "expire", UNCHANGED redisVars, "zadd")

AddZadd(t) ==
    AddStep(t, "zadd", queue' = queue \union {t} /\ UNCHANGED hash, "accepted")

-----------------------------------------------------------------------------
(***************************************************************************)
(* Workers and their poll threads                                          *)
(***************************************************************************)

Register(w) ==
    /\ w \notin registered
    /\ registered' = registered \union {w}
    /\ UNCHANGED <<bounds, redisVars, adder, running, threadVars, history, errors>>

\* start_polling: nothing if the flag is set, else a new thread; an old one
\* that is still busy finds the flag set again and goes on polling.
StartPolling(w) ==
    /\ w \notin running
    /\ running' = running \union {w}
    /\ \E p \in Threads :
        /\ WorkerOf[p] = w
        /\ at[p] = "off"
        /\ at' = [at EXCEPT ![p] = "idle"]
    /\ UNCHANGED <<bounds, redisVars, adder, registered, batch, task, copy, history, errors>>

\* stop_polling: clears the flag; the join gives up after five seconds.
StopPolling(w) ==
    /\ stops + crashes < MaxEnds
    /\ stops' = stops + 1
    /\ w \in running
    /\ running' = running \ {w}
    /\ UNCHANGED <<crashes, redisVars, adder, registered, threadVars, history, errors>>

\* The loop condition is false: the thread ends.
EndThread(p) ==
    /\ at[p] = "idle"
    /\ WorkerOf[p] \notin running
    /\ at' = [at EXCEPT ![p] = "off"]
    /\ UNCHANGED <<bounds, redisVars, adder, workerVars, batch, task, copy, history, errors>>

\* The process dies with all its threads; a new one starts from scratch.
Crash(w) ==
    LET Mine == {p \in Threads : WorkerOf[p] = w} IN
    /\ stops + crashes < MaxEnds
    /\ crashes' = crashes + 1
    /\ running' = running \ {w}
    /\ registered' = registered \ {w}
    /\ at' = [p \in Threads |-> IF p \in Mine THEN "off" ELSE at[p]]
    /\ batch' = [p \in Threads |-> IF p \in Mine THEN {} ELSE batch[p]]
    /\ task' = [p \in Threads |-> IF p \in Mine THEN NoTask ELSE task[p]]
    /\ copy' = [p \in Threads |-> IF p \in Mine THEN 0 ELSE copy[p]]
    /\ UNCHANGED <<stops, redisVars, adder, history, errors>>

-----------------------------------------------------------------------------
(***************************************************************************)
(* _process_due_tasks and _execute_task                                    *)
(***************************************************************************)

Goto(p, place) == at' = [at EXCEPT ![p] = place]

\* Done with one task: the lock is released and the batch goes on.
NextTask(p) ==
    /\ Goto(p, "next")
    /\ task' = [task EXCEPT ![p] = NoTask]
    /\ copy' = [copy EXCEPT ![p] = 0]
    /\ UNCHANGED batch

\* An exception leaves _execute_task: _poll_loop logs it, and the rest of the
\* popped batch is gone.
DropBatch(p) ==
    /\ Goto(p, "idle")
    /\ batch' = [batch EXCEPT ![p] = {}]
    /\ task' = [task EXCEPT ![p] = NoTask]
    /\ copy' = [copy EXCEPT ![p] = 0]

\* Mutant of Pop: ZRANGEBYSCORE without ZREM.
PopKeeps(p) ==
    /\ at[p] = "idle"
    /\ WorkerOf[p] \in running
    /\ \E S \in SUBSET queue :
        /\ Cardinality(S) \in 1..BatchSize
        /\ Call(UNCHANGED queue, UNCHANGED queue,
                Goto(p, "next") /\ batch' = [batch EXCEPT ![p] = S],
                UNCHANGED <<at, batch>>)
    /\ UNCHANGED <<bounds, hash, adder, workerVars, task, copy, history>>

\* Mutant of Pop: the first due id is skipped.
PopSkipsFirst(p) ==
    /\ at[p] = "idle"
    /\ WorkerOf[p] \in running
    /\ \E S \in SUBSET queue \ {queue} :
        /\ Cardinality(S) \in 1..BatchSize
        /\ Call(queue' = queue \ S, UNCHANGED queue,
                Goto(p, "next") /\ batch' = [batch EXCEPT ![p] = S],
                UNCHANGED <<at, batch>>)
    /\ UNCHANGED <<bounds, hash, adder, workerVars, task, copy, history>>

\* The Lua script takes up to BatchSize due ids out of the sorted set at once.
\* A RedisError is swallowed: the poll returns, whatever the script has done.
Pop(p) ==
    /\ at[p] = "idle"
    /\ WorkerOf[p] \in running
    /\ \E S \in SUBSET queue :
        /\ Cardinality(S) \in 1..BatchSize
        /\ Call(queue' = queue \ S, UNCHANGED queue,
                Goto(p, "next") /\ batch' = [batch EXCEPT ![p] = S],
                UNCHANGED <<at, batch>>)
    /\ UNCHANGED <<bounds, hash, adder, workerVars, task, copy, history>>

EndBatch(p) ==
    /\ at[p] = "next"
    /\ batch[p] = {}
    /\ Goto(p, "idle")
    /\ UNCHANGED <<bounds, redisVars, adder, workerVars, batch, task, copy, history, errors>>

\* The next task of the batch: its lock is acquired; or acquire returns False
\* because it finds its own key, and the task is passed over; or it raises.
Take(p) ==
    /\ at[p] = "next"
    /\ \E t \in batch[p] :
        \/ /\ Goto(p, "load")
           /\ task' = [task EXCEPT ![p] = t]
           /\ batch' = [batch EXCEPT ![p] = @ \ {t}]
           /\ UNCHANGED <<copy, errors>>
        \/ /\ batch' = [batch EXCEPT ![p] = @ \ {t}]
           /\ Fault
           /\ UNCHANGED <<at, task, copy>>
        \/ DropBatch(p) /\ Fault
    /\ UNCHANGED <<bounds, redisVars, adder, workerVars, history>>

\* hgetall: without data or without a handler the task is passed over, else
\* the handler is called.
Load(p) ==
    LET t == task[p] IN
    /\ at[p] = "load"
    /\ \/ /\ hash[t].status # "none"
          /\ WorkerOf[p] \in registered
          /\ Goto(p, "handle")
          /\ copy' = [copy EXCEPT ![p] = hash[t].retries]
          /\ calls' = [calls EXCEPT ![t] = @ + 1]
          /\ UNCHANGED <<batch, task, skipped, errors>>
       \/ /\ hash[t].status = "none"
          /\ NextTask(p)
          /\ UNCHANGED <<calls, skipped, errors>>
       \/ /\ hash[t].status # "none"
          /\ WorkerOf[p] \notin registered
          /\ NextTask(p)
          /\ skipped' = skipped \union {t}
          /\ UNCHANGED <<calls, errors>>
       \/ DropBatch(p) /\ Fault /\ UNCHANGED <<calls, skipped>>
    /\ UNCHANGED <<bounds, redisVars, adder, workerVars, outcome>>

\* The handler returns True, or it returns False or raises.
Handle(p) ==
    /\ at[p] = "handle"
    /\ \/ Goto(p, "clean") /\ outcome' = [outcome EXCEPT ![task[p]] = "done"]
       \/ Goto(p, "retry") /\ UNCHANGED outcome
    /\ UNCHANGED <<bounds, redisVars, adder, workerVars, batch, task, copy, calls, skipped, errors>>

\* A success deletes the hash.
Clean(p) ==
    /\ at[p] = "clean"
    /\ Call(hash' = [hash EXCEPT ![task[p]] = NoHash], UNCHANGED hash,
            NextTask(p), DropBatch(p))
    /\ UNCHANGED <<bounds, queue, adder, workerVars, history>>

\* A failure with attempts left writes the task back with the new count ...
Retry(p) ==
    LET t == task[p] IN
    /\ at[p] = "retry"
    /\ copy[p] + 1 < MaxRetry
    /\ Call(hash' = [hash EXCEPT ![t] = Hash("live", copy[p] + 1)], UNCHANGED hash,
            Goto(p, "requeue") /\ UNCHANGED <<batch, task, copy>>,
            DropBatch(p))
    /\ UNCHANGED <<bounds, queue, adder, workerVars, history>>

\* ... and puts the id back.
Requeue(p) ==
    /\ at[p] = "requeue"
    /\ Call(queue' = queue \union {task[p]}, UNCHANGED queue, NextTask(p), DropBatch(p))
    /\ UNCHANGED <<bounds, hash, adder, workerVars, history>>

\* Mutant of GiveUp: it gives up one attempt early.
GiveUpEarly(p) ==
    LET t == task[p] IN
    /\ at[p] = "retry"
    /\ copy[p] + 2 >= MaxRetry
    /\ Call(hash' = [hash EXCEPT ![t].status = "failed"], UNCHANGED hash,
            NextTask(p), DropBatch(p))
    /\ outcome' = [outcome EXCEPT ![t] = "failed"]
    /\ UNCHANGED <<bounds, queue, adder, workerVars, calls, skipped>>

\* The last failure marks the hash.
GiveUp(p) ==
    LET t == task[p] IN
    /\ at[p] = "retry"
    /\ copy[p] + 1 >= MaxRetry
    /\ Call(hash' = [hash EXCEPT ![t].status = "failed"], UNCHANGED hash,
            NextTask(p), DropBatch(p))
    /\ outcome' = [outcome EXCEPT ![t] = "failed"]
    /\ UNCHANGED <<bounds, queue, adder, workerVars, calls, skipped>>

ThreadStep(p) ==
    \/ EndThread(p) \/ Pop(p) \/ EndBatch(p) \/ Take(p) \/ Load(p) \/ Handle(p)
    \/ Clean(p) \/ Retry(p) \/ Requeue(p) \/ GiveUp(p)

Next ==
    \/ \E t \in Tasks : AddHset(t) \/ AddExpire(t) \/ AddZadd(t)
    \/ \E w \in Workers : Register(w) \/ StartPolling(w) \/ StopPolling(w) \/ Crash(w)
    \/ \E p \in Threads : ThreadStep(p)

Spec == Init /\ [][Next]_vars

\* Workers are started, poll threads run and handlers return.
FairSpec ==
    /\ Spec
    /\ \A w \in Workers : WF_vars(Register(w)) /\ WF_vars(StartPolling(w))
    /\ \A p \in Threads : WF_vars(ThreadStep(p))

-----------------------------------------------------------------------------
(***************************************************************************)
(* Properties                                                              *)
(***************************************************************************)

\* The tasks a thread has taken off the sorted set and not settled.
InHand(p) == batch[p] \union ({task[p]} \ {NoTask})

\* A task is in one place: in the sorted set or in the hands of one thread,
\* although several threads of several workers pop, fail and re-queue.
OneKeeper ==
    /\ \A p, q \in Threads : p # q => InHand(p) \cap InHand(q) = {}
    /\ \A p \in Threads : InHand(p) \cap queue = {}

CallsBounded == \A t \in Tasks : calls[t] <= MaxRetry

\* A task whose handler has succeeded, or that has used up its attempts, is
\* never handled again, and no task is handled more than max_retry times, whatever
\* Redis calls fail and whichever workers share its retries.
SettledStaysSettled ==
    /\ CallsBounded
    /\ \A t \in Tasks : outcome[t] # "open" =>
        t \notin queue /\ \A p \in Threads : t \notin batch[p]

\* What may go wrong with an accepted task: a worker that has popped it has no
\* handler registered yet, dies, or sees a Redis call fail.
Excused(t) == t \in skipped \/ crashes > 0 \/ errors > 0

\* Every accepted task is handled to an end, unless it is excused.
AcceptedSettled ==
    \A t \in Tasks : adder[t] = "accepted" ~> outcome[t] # "open" \/ Excused(t)

\* Where a task is, for those who add it: it counts as done when its handler has
\* succeeded and as failed when its last attempt has, whatever is still to be
\* cleaned up.
Fate(t) ==
    IF outcome[t] # "open" THEN outcome[t]
    ELSE IF t \in queue THEN "queued"
    ELSE IF \E p \in Threads : t \in InHand(p) THEN "held"
    ELSE IF adder[t] \in {"hset", "expire", "zadd"} THEN "outside"
    ELSE "lost"

KeptBy(t) == IF Fate(t) = "held" THEN {p \in Threads : t \in InHand(p)} ELSE {}

Delivered == INSTANCE Delivery WITH
    Items <- Tasks, Keepers <- Threads, Tries <- MaxRetry,
    state <- [t \in Tasks |-> Fate(t)],
    keepers <- [t \in Tasks |-> KeptBy(t)],
    attempts <- calls,
    excused <- {t \in Tasks : Excused(t)}

\* The delay queue delivers its tasks: what one thread pops no other thread
\* handles before it is back in the sorted set, every call of a handler is made
\* by the keeper, a task is given up after exactly max_retry calls, and it is lost
\* only when it was skipped, a Redis call failed or a worker died.
ImplementsDelivery == Delivered!Spec
=============================================================================
