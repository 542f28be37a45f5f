----------------------------- MODULE Connection -----------------------------
(***************************************************************************)
(* core/redis_client.py, get_redis_client(): the threads of one process    *)
(* share the module's global _client and take no lock.  The function reads *)
(* the global again wherever its name stands in the code, so every read is *)
(* a step of its own.  _mode is never assigned: the client is always made  *)
(* from a new pool.                                                        *)
(***************************************************************************)
EXTENDS Naturals, FiniteSets

CONSTANTS
    Threads,
    NoClient,     \* None
    MaxPools,     \* bound: pools built
    MaxOutages    \* bound: how often Redis goes down

ASSUME ConnectionAssumption == IsFiniteSet(Threads) /\ NoClient \notin Nat \ {0}

VARIABLES
    client,     \* _client: the number of its pool, or NoClient
    pools,      \* pools built so far; nobody closes one
    up,         \* Redis answers
    outages,
    call,       \* where each thread is in get_redis_client, or how its call ended
    refused,    \* history: pings that failed
    pulled      \* history: the threads whose client another thread has set to
                \* None since they called

connectionVars == <<client, pools, up, outages, call, refused, pulled>>

Over == {"idle", "client", "RedisError", "AttributeError"}

ConnectionInit ==
    /\ client = NoClient
    /\ pools = 0
    /\ up = TRUE
    /\ outages = 0
    /\ call = [t \in Threads |-> "idle"]
    /\ refused = 0
    /\ pulled = {}

CallAt(t, place) == call' = [call EXCEPT ![t] = place]

\* A ping through the global; None has no method ping, and AttributeError is
\* not among the exceptions that are caught.
Ping(t, answered, failed) ==
    /\ IF client = NoClient THEN CallAt(t, "AttributeError") /\ UNCHANGED refused
       ELSE IF up THEN CallAt(t, answered) /\ UNCHANGED refused
       ELSE CallAt(t, failed) /\ refused' = refused + 1
    /\ UNCHANGED <<client, pools, up, outages, pulled>>

-----------------------------------------------------------------------------
\* if _client is not None
Call(t) ==
    /\ call[t] \in Over
    /\ CallAt(t, IF client = NoClient THEN "building" ELSE "pinging")
    /\ pulled' = pulled \ {t}
    /\ UNCHANGED <<client, pools, up, outages, refused>>

PingOld(t) == call[t] = "pinging" /\ Ping(t, "returning", "dropping")
PingNew(t) == call[t] = "checking" /\ Ping(t, "returning", "giving up")

SetNone(t) ==
    /\ client' = NoClient
    /\ pulled' = pulled \union {s \in Threads \ {t} : call[s] \notin Over}

\* Mutant of Drop: a client that answers is dropped as well.
DropAny(t) ==
    /\ call[t] \in {"dropping", "returning"}
    /\ SetNone(t)
    /\ CallAt(t, "building")
    /\ UNCHANGED <<pools, up, outages, refused>>

\* _client = None after the old client's ping has failed,
Drop(t) ==
    /\ call[t] = "dropping"
    /\ SetNone(t)
    /\ CallAt(t, "building")
    /\ UNCHANGED <<pools, up, outages, refused>>

\* and after the new one's: the exception goes on to the caller.
GiveUp(t) ==
    /\ call[t] = "giving up"
    /\ SetNone(t)
    /\ CallAt(t, "RedisError")
    /\ UNCHANGED <<pools, up, outages, refused>>

\* _build_pool and Redis(connection_pool=_pool).
Build(t) ==
    /\ call[t] = "building"
    /\ pools < MaxPools
    /\ pools' = pools + 1
    /\ client' = pools'
    /\ CallAt(t, "checking")
    /\ UNCHANGED <<up, outages, refused, pulled>>

\* return _client; the caller of a None meets AttributeError at its first use.
Return(t) ==
    /\ call[t] = "returning"
    /\ CallAt(t, IF client = NoClient THEN "AttributeError" ELSE "client")
    /\ UNCHANGED <<client, pools, up, outages, refused, pulled>>

-----------------------------------------------------------------------------
GoDown ==
    /\ up /\ outages < MaxOutages
    /\ up' = FALSE
    /\ outages' = outages + 1
    /\ UNCHANGED <<client, pools, call, refused, pulled>>

ComeBack ==
    /\ ~up
    /\ up' = TRUE
    /\ UNCHANGED <<client, pools, outages, call, refused, pulled>>

CallStep(t) == PingOld(t) \/ PingNew(t) \/ Drop(t) \/ GiveUp(t) \/ Build(t) \/ Return(t)

ConnectionNext ==
    \/ \E t \in Threads : Call(t) \/ CallStep(t)
    \/ GoDown \/ ComeBack

ConnectionSpec == ConnectionInit /\ [][ConnectionNext]_connectionVars

-----------------------------------------------------------------------------
(***************************************************************************)
(* Properties                                                              *)
(***************************************************************************)

\* Every failed ping costs each thread one new pool at the most, and so does the
\* first use; the pools are never closed.
PoolsBounded == pools <= Cardinality(Threads) * (refused + 1)

\* The exception that no caller expects reaches a thread only if another thread
\* has taken the client away during its call: a thread alone never meets it.  And
\* threads that take it from each other do not build pools without end.
PulledByAnother ==
    /\ PoolsBounded
    /\ \A t \in Threads : call[t] = "AttributeError" => t \in pulled
=============================================================================
