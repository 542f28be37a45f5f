------------------------------ MODULE Batches ------------------------------
(***************************************************************************)
(* core/redis_client.py's ways to send several commands: RedisPipeline,    *)
(* with and without MULTI/EXEC, and optimistic_transaction.  Each thread   *)
(* moves one piece between two counters in one of these ways, by DECR and  *)
(* INCR.  Commands that raise may have been executed.                      *)
(***************************************************************************)
EXTENDS Naturals

CONSTANTS
    Movers,      \* threads
    MaxRetries,  \* max_retries
    MaxRaises    \* bound: commands, and bodies of with statements, that raise

ASSUME BatchesAssumption == MaxRetries \in Nat \ {0}

Ways == {"pipeline", "MULTI", "WATCH"}

VARIABLES
    way,      \* how each thread moves its piece
    aligned,  \* the watched keys, which get the prefix, are the ones the block
              \* writes; the example in the docstring writes others
    step,     \* where each thread is, or how its call ended
    queued,   \* commands in its pipeline
    attempt,
    dirty,    \* a key it watches has been written since
    debits,   \* history: how often its DECR and its INCR have been executed
    credits,
    raises

batchVars == <<way, aligned, step, queued, attempt, dirty, debits, credits, raises>>

BatchesInit ==
    /\ way \in [Movers -> Ways]
    /\ aligned \in BOOLEAN
    /\ step = [t \in Movers |-> "start"]
    /\ queued = [t \in Movers |-> 0]
    /\ attempt = [t \in Movers |-> 0]
    /\ dirty = [t \in Movers |-> FALSE]
    /\ debits = [t \in Movers |-> 0]
    /\ credits = [t \in Movers |-> 0]
    /\ raises = 0

StepTo(t, place) == step' = [step EXCEPT ![t] = place]

Raise(t) ==
    /\ raises < MaxRaises
    /\ raises' = raises + 1
    /\ StepTo(t, "raised")

\* Redis executes the first n of DECR and INCR, or the INCR alone.  A write
\* makes the watched keys dirty, for the client that watches them too.
Write(t, d, c) ==
    /\ debits' = [debits EXCEPT ![t] = @ + d]
    /\ credits' = [credits EXCEPT ![t] = @ + c]
    /\ dirty' = [s \in Movers |-> dirty[s] \/ (aligned /\ d + c > 0)]

\* One command, answered or not.
Send(t, d, c, next) ==
    \/ Write(t, d, c) /\ StepTo(t, next) /\ UNCHANGED raises
    \/ (Write(t, d, c) \/ UNCHANGED <<debits, credits, dirty>>) /\ Raise(t)

-----------------------------------------------------------------------------
(***************************************************************************)
(* with RedisPipeline(transaction) as p                                    *)
(***************************************************************************)

\* The body queues its two commands
Queue(t) ==
    /\ way[t] # "WATCH"
    /\ step[t] \in {"start", "half"}
    /\ queued' = [queued EXCEPT ![t] = @ + 1]
    /\ StepTo(t, IF step[t] = "start" THEN "half" ELSE "exit")
    /\ UNCHANGED <<way, aligned, attempt, dirty, debits, credits, raises>>

\* or raises after the first; __exit__ executes what is queued all the same.
BodyRaises(t) ==
    /\ step[t] = "half"
    /\ raises < MaxRaises
    /\ raises' = raises + 1
    /\ StepTo(t, "exit")
    /\ UNCHANGED <<way, aligned, queued, attempt, dirty, debits, credits>>

\* Mutant of ExitMulti: the argument transaction is not passed on, and the
\* commands are executed one by one.
ExitUnwrapped(t) ==
    /\ way[t] = "MULTI"
    /\ \/ step[t] = "exit" /\ Send(t, 1, 0, IF queued[t] = 2 THEN "second" ELSE "raised")
       \/ step[t] = "second" /\ Send(t, 0, 1, "True")
    /\ UNCHANGED <<way, aligned, queued, attempt>>

\* With MULTI/EXEC the commands are one step
ExitMulti(t) ==
    /\ way[t] = "MULTI"
    /\ step[t] = "exit"
    /\ Send(t, 1, queued[t] - 1, IF queued[t] = 2 THEN "True" ELSE "raised")
    /\ UNCHANGED <<way, aligned, queued, attempt>>

\* and without it each is its own, although they are sent together.
ExitPlain(t) ==
    /\ way[t] = "pipeline"
    /\ \/ step[t] = "exit" /\ Send(t, 1, 0, IF queued[t] = 2 THEN "second" ELSE "raised")
       \/ step[t] = "exit" /\ Write(t, 1, queued[t] - 1) /\ Raise(t)
       \/ step[t] = "second" /\ Send(t, 0, 1, "True")
    /\ UNCHANGED <<way, aligned, queued, attempt>>

-----------------------------------------------------------------------------
(***************************************************************************)
(* optimistic_transaction                                                  *)
(***************************************************************************)
Watch(t) ==
    /\ way[t] = "WATCH"
    /\ step[t] = "start"
    /\ \/ dirty' = [dirty EXCEPT ![t] = FALSE] /\ StepTo(t, "DECR") /\ UNCHANGED raises
       \/ Raise(t) /\ UNCHANGED dirty
    /\ UNCHANGED <<way, aligned, queued, attempt, debits, credits>>

\* The first exec_block(pipe): after WATCH, and before MULTI, redis-py sends
\* every command at once.
BlockAtOnce(t) ==
    /\ \/ step[t] = "DECR" /\ Send(t, 1, 0, "INCR")
       \/ step[t] = "INCR" /\ Send(t, 0, 1, "EXEC")
    /\ UNCHANGED <<way, aligned, queued, attempt>>

\* multi, the second exec_block, and execute
Exec(t) ==
    /\ step[t] = "EXEC"
    /\ ~dirty[t]
    /\ Send(t, 1, 1, "True")
    /\ UNCHANGED <<way, aligned, queued, attempt>>

\* or a WatchError, max_retries times at most.
WatchError(t) ==
    /\ step[t] = "EXEC"
    /\ dirty[t]
    /\ attempt' = [attempt EXCEPT ![t] = @ + 1]
    /\ StepTo(t, IF attempt[t] + 1 < MaxRetries THEN "start" ELSE "False")
    /\ UNCHANGED <<way, aligned, queued, dirty, debits, credits, raises>>

MoverStep(t) ==
    \/ Queue(t) \/ BodyRaises(t) \/ ExitMulti(t) \/ ExitPlain(t)
    \/ Watch(t) \/ BlockAtOnce(t) \/ Exec(t) \/ WatchError(t)

BatchesNext == \E t \in Movers : MoverStep(t)

BatchesSpec == BatchesInit /\ [][BatchesNext]_batchVars

-----------------------------------------------------------------------------
(***************************************************************************)
(* Properties                                                              *)
(***************************************************************************)

\* What a caller can conclude.  A pipeline that returns has moved one piece.  No
\* answer leaves half a piece behind, True or False, however many attempts there
\* were; an exception does only if it came from the body of the with statement
\* or the commands were not under MULTI.
MovedAsAnswered == \A t \in Movers :
    /\ step[t] \in {"True", "False"} => debits[t] = credits[t]
    /\ step[t] = "True" /\ way[t] # "WATCH" => debits[t] = 1
    /\ step[t] = "raised" /\ way[t] = "MULTI" /\ queued[t] = 2 => debits[t] = credits[t]

\* The docstring's transfer: an optimistic transaction that returns True has
\* executed its block.  Violated: the block runs a first time before MULTI, where
\* its commands are executed at once, and the piece is moved twice.
TransferOnce == \A t \in Movers :
    step[t] = "True" => debits[t] = 1 /\ credits[t] = 1

=============================================================================
