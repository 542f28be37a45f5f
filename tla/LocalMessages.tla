---------------------------- MODULE LocalMessages ----------------------------
(***************************************************************************)
(* core/redis_transaction.py, the local message table: one hash for each   *)
(* message and the lists local_messages:pending and local_messages:dead.   *)
(* create_local_message() writes a message with three commands;            *)
(* process_local_messages() is called by background tasks and pops, sends  *)
(* and retries.  No Redis call of it is inside a try block: when one       *)
(* raises, the call is left with the message in hand.  The hashes' TTL of  *)
(* a day is left out.                                                      *)
(***************************************************************************)
EXTENDS Faults, Sequences, SequencesExt

CONSTANTS
    Messages,
    Tasks,        \* background tasks that call process_local_messages
    NoMessage,    \* a task's hands are empty
    MaxRetry,     \* max_retry of every message
    Limit         \* process_local_messages's limit

ASSUME LocalAssumption == NoMessage \notin Messages /\ MaxRetry \in Nat /\ Limit \in Nat

VARIABLES
    pending,   \* local_messages:pending
    dead,      \* local_messages:dead
    hash,      \* status and retry_count of each message
    create,    \* how far create_local_message is with each message
    task,      \* where each task is
    turns,     \* the turns its loop has left
    msgId,     \* the message it has popped
    retry,     \* the retry_count it has read
    sends      \* history: calls of the sender for each message

lists == <<pending, dead>>
redisVars == <<pending, dead, hash>>
taskVars == <<task, turns, msgId, retry>>
localVars == <<pending, dead, hash, create, task, turns, msgId, retry, sends, errors, crashes>>

LocalInit ==
    /\ pending = <<>>
    /\ dead = <<>>
    /\ hash = [m \in Messages |-> [status |-> "none", retries |-> 0]]
    /\ create = [m \in Messages |-> "hset"]
    /\ task = [p \in Tasks |-> "off"]
    /\ turns = [p \in Tasks |-> 0]
    /\ msgId = [p \in Tasks |-> NoMessage]
    /\ retry = [p \in Tasks |-> 0]
    /\ sends = [m \in Messages |-> 0]
    /\ NoFaults

Move(p, place) == task' = [task EXCEPT ![p] = place]

\* The task's hands are empty again, at the top of the loop or outside it.
Drop(p, place, n) ==
    /\ Move(p, place)
    /\ turns' = [turns EXCEPT ![p] = n]
    /\ msgId' = [msgId EXCEPT ![p] = NoMessage]
    /\ retry' = [retry EXCEPT ![p] = 0]
NextMessage(p) == Drop(p, "pop", turns[p])
Return(p) == Drop(p, "off", 0)

\* A Redis call has its effect and execution goes on at ok, or it raises with
\* or without effect and execution goes on at raised.
Call(effect, none, ok, raised) ==
    \/ effect /\ ok /\ UNCHANGED errors
    \/ /\ effect \/ none
       /\ raised
       /\ Fault

SetStatus(m, s) == hash' = [hash EXCEPT ![m].status = s]

-----------------------------------------------------------------------------
(***************************************************************************)
(* create_local_message.  Its except clause names RedisError, which the    *)
(* module does not import: a failed command raises NameError.              *)
(***************************************************************************)

CreateStep(m, step, effect, next) ==
    /\ create[m] = step
    /\ Call(effect, UNCHANGED redisVars,
            create' = [create EXCEPT ![m] = next],
            create' = [create EXCEPT ![m] = "raised"])
    /\ UNCHANGED <<taskVars, sends, crashes>>

CreateHset(m) == CreateStep(m, "hset", SetStatus(m, "pending") /\ UNCHANGED lists, "expire")
CreateExpire(m) == CreateStep(m, "expire", UNCHANGED redisVars, "rpush")
CreateRpush(m) ==
    CreateStep(m, "rpush", pending' = Append(pending, m) /\ UNCHANGED <<dead, hash>>, "created")

-----------------------------------------------------------------------------
(***************************************************************************)
(* process_local_messages                                                  *)
(***************************************************************************)

Process(p) ==
    /\ task[p] = "off"
    /\ Drop(p, "pop", Limit)
    /\ UNCHANGED <<redisVars, create, sends, errors, crashes>>

PopMessage(p) ==
    /\ task[p] = "pop"
    /\ turns[p] > 0
    /\ pending # <<>>
    /\ Call(pending' = Tail(pending), UNCHANGED pending,
            /\ Move(p, "load")
            /\ turns' = [turns EXCEPT ![p] = @ - 1]
            /\ msgId' = [msgId EXCEPT ![p] = Head(pending)]
            /\ UNCHANGED retry,
            Return(p))
    /\ UNCHANGED <<dead, hash, create, sends, crashes>>

\* Mutant of EndProcess: a list with one message left counts as empty.
ProcessEndsEarly(p) ==
    /\ task[p] = "pop"
    /\ Len(pending) <= 1 \/ turns[p] = 0
    /\ Return(p)
    /\ UNCHANGED <<redisVars, create, sends, errors, crashes>>

\* The list is empty, or the loop has made its last turn.
EndProcess(p) ==
    /\ task[p] = "pop"
    /\ pending = <<>> \/ turns[p] = 0
    /\ Return(p)
    /\ UNCHANGED <<redisVars, create, sends, errors, crashes>>

\* hgetall; a message without data would be passed over.
Load(p) ==
    LET m == msgId[p] IN
    /\ task[p] = "load"
    /\ Call(UNCHANGED redisVars, UNCHANGED redisVars,
            IF hash[m].status = "none"
            THEN NextMessage(p)
            ELSE /\ Move(p, "send")
                 /\ retry' = [retry EXCEPT ![p] = hash[m].retries]
                 /\ UNCHANGED <<turns, msgId>>,
            Return(p))
    /\ UNCHANGED <<create, sends, crashes>>

\* Mutant of Send: the last retry is not made.
SendGivesUpEarly(p) ==
    /\ task[p] = "send"
    /\ sends' = [sends EXCEPT ![msgId[p]] = @ + 1]
    /\ Move(p, "sent") \/ Move(p, IF retry[p] + 1 < MaxRetry THEN "retry" ELSE "fail")
    /\ UNCHANGED <<redisVars, create, turns, msgId, retry, errors, crashes>>

\* The sender returns true, or it returns false or raises.
Send(p) ==
    /\ task[p] = "send"
    /\ sends' = [sends EXCEPT ![msgId[p]] = @ + 1]
    /\ Move(p, "sent") \/ Move(p, IF retry[p] + 1 <= MaxRetry THEN "retry" ELSE "fail")
    /\ UNCHANGED <<redisVars, create, turns, msgId, retry, errors, crashes>>

\* One command on the message in hand, and where the task goes after it.
HandStep(p, step, effect, ok) ==
    /\ task[p] = step
    /\ Call(effect, UNCHANGED redisVars, ok, Return(p))
    /\ UNCHANGED <<create, sends, crashes>>

StayAt(p, place) == Move(p, place) /\ UNCHANGED <<turns, msgId, retry>>

MarkSent(p) ==
    HandStep(p, "sent", SetStatus(msgId[p], "sent") /\ UNCHANGED lists, NextMessage(p))

CountRetry(p) ==
    HandStep(p, "retry",
             hash' = [hash EXCEPT ![msgId[p]].retries = retry[p] + 1] /\ UNCHANGED lists,
             StayAt(p, "requeue"))

Requeue(p) ==
    HandStep(p, "requeue",
             pending' = Append(pending, msgId[p]) /\ UNCHANGED <<dead, hash>>,
             NextMessage(p))

MarkFailed(p) ==
    HandStep(p, "fail", SetStatus(msgId[p], "failed") /\ UNCHANGED lists, StayAt(p, "bury"))

Bury(p) ==
    HandStep(p, "bury", dead' = Append(dead, msgId[p]) /\ UNCHANGED <<pending, hash>>, NextMessage(p))

TaskDies(p) ==
    /\ task[p] # "off"
    /\ Return(p)
    /\ Death
    /\ UNCHANGED <<redisVars, create, sends, errors>>

TaskStep(p) ==
    \/ PopMessage(p) \/ EndProcess(p) \/ Load(p) \/ Send(p) \/ MarkSent(p)
    \/ CountRetry(p) \/ Requeue(p) \/ MarkFailed(p) \/ Bury(p)

LocalNext ==
    \/ \E m \in Messages : CreateHset(m) \/ CreateExpire(m) \/ CreateRpush(m)
    \/ \E p \in Tasks : Process(p) \/ TaskStep(p) \/ TaskDies(p)

LocalSpec == LocalInit /\ [][LocalNext]_localVars

\* The background tasks run and are started again.  Nothing is assumed of the
\* sender but that it returns.
LocalFairSpec == LocalSpec /\ \A p \in Tasks : WF_localVars(Process(p)) /\ WF_localVars(TaskStep(p))

-----------------------------------------------------------------------------
(***************************************************************************)
(* Properties                                                              *)
(***************************************************************************)

SendsBounded == \A m \in Messages : sends[m] <= MaxRetry + 1

\* A message that is marked as sent or failed is not sent again: it is not
\* pending, and whoever holds it is done with it.  No message is sent more than
\* max_retry times after its first failure, however the tasks interleave and
\* whatever Redis calls fail.
SettledStaysSettled ==
    /\ SendsBounded
    /\ \A m \in Messages : hash[m].status \in {"sent", "failed"} =>
        /\ m \notin ToSet(pending)
        /\ \A p \in Tasks : msgId[p] = m => task[p] = "bury"

Created(m) == create[m] = "created"
Settled(m) == hash[m].status = "sent" \/ m \in ToSet(dead) \/ errors + crashes > 0

\* A created message is sent or becomes a dead letter, whatever the sender
\* does, unless a Redis call failed or a task died.
EveryMessageSettled == \A m \in Messages : Created(m) ~> Settled(m)

\* Where a message is, for those who create it.
Fate(m) ==
    IF hash[m].status = "sent" THEN "done"
    ELSE IF hash[m].status = "failed" THEN "failed"
    ELSE IF m \in ToSet(pending) THEN "queued"
    ELSE IF \E p \in Tasks : msgId[p] = m THEN "held"
    ELSE IF create[m] \in {"hset", "expire", "rpush"} THEN "outside"
    ELSE "lost"

KeptBy(m) == IF Fate(m) = "held" THEN {p \in Tasks : msgId[p] = m} ELSE {}

Delivered == INSTANCE Delivery WITH
    Items <- Messages, Keepers <- Tasks, Tries <- MaxRetry + 1,
    state <- [m \in Messages |-> Fate(m)],
    keepers <- [m \in Messages |-> KeptBy(m)],
    attempts <- sends,
    excused <- IF errors + crashes > 0 THEN Messages ELSE {}

\* The message table delivers its messages: only the task that popped a message
\* sends it, it is marked as sent after a send and as failed after exactly
\* max_retry + 1 of them, and it is lost only when a Redis call failed or a task
\* died.
ImplementsDelivery == Delivered!Spec
=============================================================================
