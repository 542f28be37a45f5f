---------------------------- MODULE Idempotency ----------------------------
(***************************************************************************)
(* core/idempotency.py: threads that call one function under @idempotent   *)
(* with the same arguments, and that ask idempotent_request_id for one     *)
(* request.  The record of a call holds its status as a member of the Enum *)
(* IdempotencyStatus; json.dumps, which cache_set calls outside its try,   *)
(* raises TypeError for it.  So no record is ever stored, and what the     *)
(* wrapper does with a stored record, and after the function has run, is   *)
(* never reached.                                                          *)
(***************************************************************************)
EXTENDS Naturals, Sequences

CONSTANTS
    Submitters,    \* threads
    RequestTtl,    \* ttl of a request id, in ticks
    MaxRuns,       \* bound: calls
    MaxClock,      \* bound: ticks
    MaxTroubles    \* bound: outages, and calls to Redis that raise

ASSUME IdempotencyAssumption == RequestTtl \in Nat

VARIABLES
    reachable,  \* Redis answers
    phase,      \* where each thread is in the wrapper, or how its last call ended
    submits,    \* calls
    ticks,      \* the time
    requestDies,\* when the key of the request id expires
    fresh,      \* history: when callers were told that the request is new
    turnedAway, \* history: someone was told that it is not
    troubles

idempotencyVars == <<reachable, phase, submits, ticks, requestDies, fresh, turnedAway, troubles>>
requestVars == <<requestDies, fresh, turnedAway>>

Ended == {"idle", "result", "TypeError"}

IdempotencyInit ==
    /\ reachable = TRUE
    /\ phase = [t \in Submitters |-> "idle"]
    /\ submits = 0
    /\ ticks = 0
    /\ requestDies = 0
    /\ fresh = <<>>
    /\ turnedAway = FALSE
    /\ troubles = 0

Become(t, place) == phase' = [phase EXCEPT ![t] = place]
Trouble == troubles < MaxTroubles /\ troubles' = troubles + 1

-----------------------------------------------------------------------------
(***************************************************************************)
(* @idempotent                                                             *)
(***************************************************************************)

\* _is_idempotency_enabled
Submit(t) ==
    /\ phase[t] \in Ended
    /\ submits < MaxRuns
    /\ submits' = submits + 1
    /\ Become(t, IF reachable THEN "read" ELSE "func")
    /\ UNCHANGED <<reachable, ticks, requestVars, troubles>>

\* cache_get_json finds nothing: nobody stores a record.  cache_set of the
\* record "processing" raises, whether Redis is still there or not.
SetProcessing(t) ==
    /\ phase[t] = "read"
    /\ Become(t, "TypeError")
    /\ UNCHANGED <<reachable, submits, ticks, requestVars, troubles>>

\* func(*args, **kwargs), which runs without any guard.
Func(t) ==
    /\ phase[t] = "func"
    /\ Become(t, "result")
    /\ UNCHANGED <<reachable, submits, ticks, requestVars, troubles>>

-----------------------------------------------------------------------------
(***************************************************************************)
(* idempotent_request_id: one SET NX, and False for every RedisError       *)
(***************************************************************************)
Stored == ticks < requestDies

\* Mutant of SetNx: without NX.
SetAlways == requestDies' = ticks + RequestTtl

SetNx == ~Stored /\ requestDies' = ticks + RequestTtl

TakenForNew ==
    /\ reachable
    /\ SetNx
    /\ fresh' = Append(fresh, ticks)
    /\ UNCHANGED <<turnedAway, troubles>>

TakenForOld ==
    /\ turnedAway' = TRUE
    /\ UNCHANGED fresh
    /\ \/ (~reachable \/ Stored) /\ UNCHANGED <<requestDies, troubles>>
       \/ reachable /\ (SetNx \/ UNCHANGED requestDies) /\ Trouble

Ask ==
    /\ TakenForNew \/ TakenForOld
    /\ UNCHANGED <<reachable, phase, submits, ticks>>

-----------------------------------------------------------------------------
Outage ==
    /\ \/ reachable /\ Trouble /\ reachable' = FALSE
       \/ ~reachable /\ reachable' = TRUE /\ UNCHANGED troubles
    /\ UNCHANGED <<phase, submits, ticks, requestVars>>

Pass ==
    /\ ticks < MaxClock
    /\ ticks' = ticks + 1
    /\ UNCHANGED <<reachable, phase, submits, requestVars, troubles>>

IdempotencyNext ==
    \/ \E t \in Submitters : Submit(t) \/ SetProcessing(t) \/ Func(t)
    \/ Ask \/ Outage \/ Pass

IdempotencySpec == IdempotencyInit /\ [][IdempotencyNext]_idempotencyVars

-----------------------------------------------------------------------------
(***************************************************************************)
(* Properties                                                              *)
(***************************************************************************)

\* Nobody is told that a request is new within its TTL after somebody else was,
\* whatever outages and lost replies there are, and it is turned away without
\* ever having been new only after one of these.
NewOncePerTtl ==
    /\ \A i, j \in DOMAIN fresh : i < j => fresh[j] >= fresh[i] + RequestTtl
    /\ turnedAway /\ fresh = <<>> => troubles > 0

=============================================================================
