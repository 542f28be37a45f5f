---------------------------- MODULE ReadThrough ----------------------------
(***************************************************************************)
(* core/redis_client.py, get_or_set_advanced(): readers of one cached key  *)
(* that load it from the database under the key mutex:{key}, a bare "1"    *)
(* without an owner; and writers that update the database and then delete  *)
(* the cached value, as cache_evict of core/cache_decorator.py does.       *)
(*                                                                         *)
(* A row that does not exist is a version like any other: it is cached as  *)
(* the marker __NULL__, with a TTL of its own.  A failing Redis call is    *)
(* swallowed: a read is a miss, SET NX is a refusal.                       *)
(***************************************************************************)
EXTENDS Naturals

CONSTANTS
    Readers,
    Writers,
    Nothing,          \* no value is cached
    Polls,            \* how often a reader without the mutex looks for the value
    MaxWrites,        \* bound: updates of the row
    MaxFailures,      \* bound: Redis calls that raise RedisError
    MaxFactoryRaises  \* bound: factories that raise

VARIABLES
    row,            \* the version of the row in the database
    cached,         \* the cached version, or Nothing
    mutex,          \* the key mutex:{key} exists
    stage,          \* where each reader and writer is
    polls,          \* how often a waiting reader has polled
    result,         \* the version its factory has returned
    failures,       \* RedisErrors so far
    factoryRaises,  \* factories that raised so far
    overdue,        \* history: a reader gave up waiting, or the mutex expired
    crossed         \* history: the row was updated while a reader held a result

cacheVars == <<cached, mutex>>
readVars == <<stage, polls, result>>
cacheHistory == <<overdue, crossed>>
readThroughVars == <<row, cached, mutex, stage, polls, result, failures, factoryRaises, overdue, crossed>>

Versions == 0..MaxWrites

CacheInit ==
    /\ row = 0
    /\ cached = Nothing
    /\ mutex = FALSE
    /\ stage = [p \in Readers \union Writers |-> "idle"]
    /\ polls = [r \in Readers |-> 0]
    /\ result = [r \in Readers |-> 0]
    /\ failures = 0
    /\ factoryRaises = 0
    /\ overdue = FALSE
    /\ crossed = FALSE

Failure == failures < MaxFailures /\ failures' = failures + 1
Proceed(p, place) == stage' = [stage EXCEPT ![p] = place]
Stay == UNCHANGED <<polls, result>>

-----------------------------------------------------------------------------
(***************************************************************************)
(* get_or_set_advanced                                                     *)
(***************************************************************************)

\* The cached value is returned; or there is none, or the read fails.
Look(r) ==
    /\ stage[r] = "idle"
    /\ polls' = [polls EXCEPT ![r] = 0]
    /\ \/ cached # Nothing /\ UNCHANGED <<stage, failures>>
       \/ cached = Nothing /\ Proceed(r, "locking") /\ UNCHANGED failures
       \/ Proceed(r, "locking") /\ Failure
    /\ UNCHANGED <<row, cacheVars, result, factoryRaises, cacheHistory>>

\* Mutant of TakeMutex: SET without NX.
TakeAlways(r) ==
    /\ stage[r] = "locking"
    /\ mutex' = TRUE
    /\ Proceed(r, "loading")
    /\ UNCHANGED <<row, cached, failures>> /\ Stay
    /\ UNCHANGED <<factoryRaises, cacheHistory>>

\* SET mutex NX EX: the reader loads the value or waits for it.  A call that
\* fails counts as refused, whether the key was set or not.
TakeMutex(r) ==
    /\ stage[r] = "locking"
    /\ \/ ~mutex /\ mutex' = TRUE /\ Proceed(r, "loading") /\ UNCHANGED failures
       \/ mutex /\ Proceed(r, "waiting") /\ UNCHANGED <<mutex, failures>>
       \/ mutex' \in {mutex, TRUE} /\ Proceed(r, "waiting") /\ Failure
    /\ Stay
    /\ UNCHANGED <<row, cached, factoryRaises, cacheHistory>>

\* One round of the loop: the value is there and returned, or not.
Poll(r) ==
    /\ stage[r] = "waiting"
    /\ polls[r] < Polls
    /\ polls' = [polls EXCEPT ![r] = @ + 1]
    /\ \/ cached # Nothing /\ Proceed(r, "idle") /\ UNCHANGED failures
       \/ cached = Nothing /\ UNCHANGED <<stage, failures>>
       \/ UNCHANGED stage /\ Failure
    /\ UNCHANGED <<row, cacheVars, result, factoryRaises, cacheHistory>>

\* The rounds are used up: the reader loads the value without the mutex.
StopWaiting(r) ==
    /\ stage[r] = "waiting"
    /\ polls[r] = Polls
    /\ Proceed(r, "loading")
    /\ overdue' = TRUE
    /\ Stay
    /\ UNCHANGED <<row, cacheVars, failures, factoryRaises, crossed>>

\* factory() reads the row,
Load(r) ==
    /\ stage[r] = "loading"
    /\ result' = [result EXCEPT ![r] = row]
    /\ Proceed(r, "storing")
    /\ UNCHANGED <<row, cacheVars, polls, failures, factoryRaises, cacheHistory>>

\* or raises: the call is left, and the mutex with it.
LoadRaises(r) ==
    /\ stage[r] = "loading"
    /\ factoryRaises < MaxFactoryRaises
    /\ factoryRaises' = factoryRaises + 1
    /\ Proceed(r, "idle")
    /\ Stay
    /\ UNCHANGED <<row, cacheVars, failures, cacheHistory>>

\* The result is cached, and goes back to the caller also when that fails.
Store(r) ==
    /\ stage[r] = "storing"
    /\ Proceed(r, "unlocking")
    /\ \/ cached' = result[r] /\ UNCHANGED failures
       \/ cached' \in {cached, result[r]} /\ Failure
    /\ Stay
    /\ UNCHANGED <<row, mutex, factoryRaises, cacheHistory>>

\* DEL mutex, whoever has set it.
Unlock(r) ==
    /\ stage[r] = "unlocking"
    /\ Proceed(r, "idle")
    /\ \/ mutex' = FALSE /\ UNCHANGED failures
       \/ mutex' \in {mutex, FALSE} /\ Failure
    /\ Stay
    /\ UNCHANGED <<row, cached, factoryRaises, cacheHistory>>

-----------------------------------------------------------------------------
(***************************************************************************)
(* cache_evict and the clock                                               *)
(***************************************************************************)

\* The decorated function updates the row.
Update(w) ==
    /\ stage[w] = "idle"
    /\ row < MaxWrites
    /\ row' = row + 1
    /\ Proceed(w, "evicting")
    /\ crossed' = (crossed \/ \E r \in Readers : stage[r] = "storing")
    /\ Stay
    /\ UNCHANGED <<cacheVars, failures, factoryRaises, overdue>>

\* Mutant of Evict: the cached value is left to its TTL.
EvictNothing(w) ==
    /\ stage[w] = "evicting"
    /\ Proceed(w, "idle")
    /\ Stay
    /\ UNCHANGED <<row, cacheVars, failures, factoryRaises, cacheHistory>>

\* The cached value is deleted, or Redis is not available.
Evict(w) ==
    /\ stage[w] = "evicting"
    /\ Proceed(w, "idle")
    /\ \/ cached' = Nothing /\ UNCHANGED failures
       \/ cached' \in {cached, Nothing} /\ Failure
    /\ Stay
    /\ UNCHANGED <<row, mutex, factoryRaises, cacheHistory>>

ValueExpires ==
    /\ cached # Nothing
    /\ cached' = Nothing
    /\ UNCHANGED <<row, mutex, readVars, failures, factoryRaises, cacheHistory>>

\* mutex_ttl is over, maybe before the factory has returned.
Working == {r \in Readers : stage[r] \in {"loading", "storing", "unlocking"}}
MutexExpires ==
    /\ mutex
    /\ mutex' = FALSE
    /\ overdue' = (overdue \/ Working # {})
    /\ UNCHANGED <<row, cached, readVars, failures, factoryRaises, crossed>>

ReaderStep(r) ==
    \/ TakeMutex(r) \/ Poll(r) \/ StopWaiting(r) \/ Load(r) \/ LoadRaises(r) \/ Store(r) \/ Unlock(r)

CacheNext ==
    \/ \E r \in Readers : Look(r) \/ ReaderStep(r)
    \/ \E w \in Writers : Update(w) \/ Evict(w)
    \/ ValueExpires \/ MutexExpires

CacheSpec == CacheInit /\ [][CacheNext]_readThroughVars

-----------------------------------------------------------------------------
(***************************************************************************)
(* Properties                                                              *)
(***************************************************************************)

Loading(r) == stage[r] \in {"loading", "storing"}

\* Two readers load the value at the same time only if one of them gave up
\* waiting or the mutex ran out, although the mutex has no owner and everybody
\* deletes it.
OneLoaderUnlessLate ==
    \A r, s \in Readers : Loading(r) /\ Loading(s) /\ r # s => overdue \/ failures > 0

\* What is cached while no update waits for its eviction is the row, unless a
\* Redis call failed or an update has crossed a load.
StaleNeedsRace ==
    cached # Nothing /\ cached # row /\ (\A w \in Writers : stage[w] = "idle")
        => crossed \/ failures > 0

=============================================================================
