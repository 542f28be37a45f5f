--------------------------- MODULE DistributedLock ---------------------------
(***************************************************************************)
(* core/distributed_lock.py, class DistributedLock: a lock kept as one key *)
(* of Redis.  A client is one lock object, used by one thread: acquire()   *)
(* loops on SET NX EX, a watchdog thread extends the key every ttl/3       *)
(* seconds, release() stops the watchdog and deletes the key if it still   *)
(* carries the object's owner token.  The module follows one resource key. *)
(*                                                                         *)
(* A client stands for its owner token.  A later lock object has a fresh   *)
(* token; it may reuse the client's name here once no key and no watchdog  *)
(* refers to the old one (see Acquire).                                    *)
(***************************************************************************)
EXTENDS Integers

CONSTANTS
    Clients,      \* the owner tokens
    NoOwner,      \* the key does not exist
    Ttl,          \* self._ttl, in ticks of Redis's clock
    RetryTimes,   \* self._retry_times
    MaxErrors,    \* bound: how many Redis calls may raise RedisError
    MaxLate       \* bound: how many ticks late a watchdog may be scheduled

ASSUME LockAssumption ==
    /\ NoOwner \notin Clients
    /\ Ttl \in Nat \ {0}
    /\ RetryTimes \in Nat
    /\ MaxErrors \in Nat
    /\ MaxLate \in Nat

VARIABLES
    owner,     \* the value of the key, or NoOwner
    ttl,       \* the key's remaining life, 0 when there is no key
    pc,        \* where each client is in acquire / release
    attempt,   \* acquire's loop counter
    blocking,  \* acquire's argument
    dog,       \* the watchdog thread of each client
    stop,      \* its _renew_stop event
    wake,      \* ticks until the watchdog's wait(interval) ends
    errors,    \* RedisErrors raised so far
    lost       \* history: the holders whose key expired under them

keyVars == <<owner, ttl>>
dogVars == <<dog, stop, wake>>
vars == <<owner, ttl, pc, attempt, blocking, dog, stop, wake, errors, lost>>

\* The states in which a lock object is not in use.
Returned == {"idle", "refused", "raised", "released"}
Finished == Returned \union {"crashed"}
States == Finished \union {"trying", "critical", "joining", "deleting"}

\* Mutant of Interval: renew when half of the TTL and more is over.
LateInterval == IF (2 * Ttl) \div 3 >= 1 THEN (2 * Ttl) \div 3 ELSE 1

\* _renew_loop: interval = max(self._ttl // 3, 1)
Interval == IF Ttl \div 3 >= 1 THEN Ttl \div 3 ELSE 1

\* A watchdog whose thread is alive and has not been told to stop.
Awake(c) == dog[c] # "off" /\ ~stop[c]

Init ==
    /\ owner = NoOwner
    /\ ttl = 0
    /\ pc = [c \in Clients |-> "idle"]
    /\ attempt = [c \in Clients |-> 0]
    /\ blocking = [c \in Clients |-> TRUE]
    /\ dog = [c \in Clients |-> "off"]
    /\ stop = [c \in Clients |-> FALSE]
    /\ wake = [c \in Clients |-> 0]
    /\ errors = 0
    /\ lost = {}

\* One more Redis call raises RedisError.
Fault ==
    /\ errors < MaxErrors
    /\ errors' = errors + 1

-----------------------------------------------------------------------------
(***************************************************************************)
(* acquire                                                                 *)
(***************************************************************************)

\* A new lock object calls acquire(blocking = b).  get_redis_client() runs
\* before the try block: when it fails the exception leaves acquire.
Acquire(c, b) ==
    /\ pc[c] \in Finished
    /\ owner # c
    /\ dog[c] = "off"
    /\ blocking' = [blocking EXCEPT ![c] = b]
    /\ attempt' = [attempt EXCEPT ![c] = 0]
    /\ \/ /\ pc' = [pc EXCEPT ![c] = "trying"]
          /\ UNCHANGED errors
       \/ /\ pc' = [pc EXCEPT ![c] = "raised"]
          /\ Fault
    /\ UNCHANGED <<keyVars, dogVars, lost>>

\* Mutant of SetTakesKey: SET without NX.
SetWithoutNX(c) ==
    /\ pc[c] = "trying"
    /\ owner' = c
    /\ ttl' = Ttl
    /\ pc' = [pc EXCEPT ![c] = "critical"]
    /\ dog' = [dog EXCEPT ![c] = "waiting"]
    /\ stop' = [stop EXCEPT ![c] = FALSE]
    /\ wake' = [wake EXCEPT ![c] = Interval]
    /\ UNCHANGED <<attempt, blocking, errors, lost>>

\* Mutant of SetTakesKey: SET without EX.
SetWithoutEX(c) ==
    /\ pc[c] = "trying"
    /\ owner = NoOwner
    /\ owner' = c
    /\ pc' = [pc EXCEPT ![c] = "critical"]
    /\ dog' = [dog EXCEPT ![c] = "waiting"]
    /\ stop' = [stop EXCEPT ![c] = FALSE]
    /\ wake' = [wake EXCEPT ![c] = Interval]
    /\ UNCHANGED <<ttl, attempt, blocking, errors, lost>>

\* SET key owner NX EX ttl finds no key: the lock is taken, _start_renew
\* clears the stop event and starts the watchdog.
SetTakesKey(c) ==
    /\ pc[c] = "trying"
    /\ owner = NoOwner
    /\ owner' = c
    /\ ttl' = Ttl
    /\ pc' = [pc EXCEPT ![c] = "critical"]
    /\ dog' = [dog EXCEPT ![c] = "waiting"]
    /\ stop' = [stop EXCEPT ![c] = FALSE]
    /\ wake' = [wake EXCEPT ![c] = Interval]
    /\ UNCHANGED <<attempt, blocking, errors, lost>>

\* SET NX finds a key: a non-blocking call gives up, a blocking one sleeps
\* and tries again until its attempts are used up.
SetRefused(c) ==
    /\ pc[c] = "trying"
    /\ owner # NoOwner
    /\ IF blocking[c] /\ attempt[c] < RetryTimes
       THEN /\ attempt' = [attempt EXCEPT ![c] = @ + 1]
            /\ UNCHANGED pc
       ELSE /\ pc' = [pc EXCEPT ![c] = "refused"]
            /\ UNCHANGED attempt
    /\ UNCHANGED <<keyVars, blocking, dogVars, errors, lost>>

\* SET raises RedisError, before Redis applied it or after (the reply was
\* lost).  Another attempt follows, also of a non-blocking call; the last
\* attempt re-raises.
SetFails(c) ==
    /\ pc[c] = "trying"
    /\ Fault
    /\ \/ UNCHANGED keyVars
       \/ /\ owner = NoOwner
          /\ owner' = c
          /\ ttl' = Ttl
    /\ IF attempt[c] < RetryTimes
       THEN /\ attempt' = [attempt EXCEPT ![c] = @ + 1]
            /\ UNCHANGED pc
       ELSE /\ pc' = [pc EXCEPT ![c] = "raised"]
            /\ UNCHANGED attempt
    /\ UNCHANGED <<blocking, dogVars, lost>>

-----------------------------------------------------------------------------
(***************************************************************************)
(* release                                                                 *)
(***************************************************************************)

\* The critical section is over: _stop_renew sets the stop event.
StopRenew(c) ==
    /\ pc[c] = "critical"
    /\ stop' = [stop EXCEPT ![c] = TRUE]
    /\ pc' = [pc EXCEPT ![c] = "joining"]
    /\ lost' = lost \ {c}
    /\ UNCHANGED <<keyVars, attempt, blocking, dog, wake, errors>>

\* join(timeout=2) returns: the watchdog has ended, or it is still inside a
\* Redis call when the two seconds are over.
Join(c) ==
    /\ pc[c] = "joining"
    /\ dog[c] \in {"off", "extending"}
    /\ pc' = [pc EXCEPT ![c] = "deleting"]
    /\ UNCHANGED <<keyVars, attempt, blocking, dogVars, errors, lost>>

\* _RELEASE_LUA: delete the key if it carries this owner's token.
DeleteOwnKey(c) ==
    IF owner = c
    THEN owner' = NoOwner /\ ttl' = 0
    ELSE UNCHANGED keyVars

\* The script runs, or raises RedisError with or without having run; release
\* returns in every case.
Delete(c) ==
    /\ pc[c] = "deleting"
    /\ pc' = [pc EXCEPT ![c] = "released"]
    /\ \/ DeleteOwnKey(c) /\ UNCHANGED errors
       \/ DeleteOwnKey(c) /\ Fault
       \/ UNCHANGED keyVars /\ Fault
    /\ UNCHANGED <<attempt, blocking, dogVars, lost>>

-----------------------------------------------------------------------------
(***************************************************************************)
(* The watchdog thread: _renew_loop and extend                             *)
(***************************************************************************)

\* wait(interval) times out: the loop's body starts.
DogWakes(c) ==
    /\ dog[c] = "waiting"
    /\ ~stop[c]
    /\ wake[c] <= 0
    /\ dog' = [dog EXCEPT ![c] = "extending"]
    /\ UNCHANGED <<keyVars, pc, attempt, blocking, stop, wake, errors, lost>>

\* wait(interval) returns True: the stop event is set, the loop ends.
DogStops(c) ==
    /\ dog[c] = "waiting"
    /\ stop[c]
    /\ dog' = [dog EXCEPT ![c] = "off"]
    /\ wake' = [wake EXCEPT ![c] = 0]
    /\ UNCHANGED <<keyVars, pc, attempt, blocking, stop, errors, lost>>

\* _RENEW_LUA finds this owner's token: the key's life starts again.
DogExtends(c) ==
    /\ dog[c] = "extending"
    /\ owner = c
    /\ ttl' = Ttl
    /\ dog' = [dog EXCEPT ![c] = "waiting"]
    /\ wake' = [wake EXCEPT ![c] = Interval]
    /\ UNCHANGED <<owner, pc, attempt, blocking, stop, errors, lost>>

\* extend() is False, because the key is not this owner's or because of a
\* RedisError (with or without effect): the loop breaks.
DogGivesUp(c) ==
    /\ dog[c] = "extending"
    /\ \/ owner # c /\ UNCHANGED <<ttl, errors>>
       \/ Fault /\ UNCHANGED ttl
       \/ Fault /\ owner = c /\ ttl' = Ttl
    /\ dog' = [dog EXCEPT ![c] = "off"]
    /\ wake' = [wake EXCEPT ![c] = 0]
    /\ UNCHANGED <<owner, pc, attempt, blocking, stop, lost>>

-----------------------------------------------------------------------------
\* The process of a client dies, its (daemon) watchdog with it.
Crash(c) ==
    /\ pc[c] \notin Finished
    /\ pc' = [pc EXCEPT ![c] = "crashed"]
    /\ dog' = [dog EXCEPT ![c] = "off"]
    /\ wake' = [wake EXCEPT ![c] = 0]
    /\ lost' = lost \ {c}
    /\ UNCHANGED <<keyVars, attempt, blocking, stop, errors>>

\* Time passes: Redis ages the key and drops it at the end of its life, every
\* running wait(interval) comes nearer to its end.  A watchdog is never more
\* than MaxLate ticks late.
Tick ==
    /\ ttl > 0 \/ \E c \in Clients : Awake(c)
    /\ \A c \in Clients : Awake(c) => wake[c] > -MaxLate
    /\ wake' = [c \in Clients |-> IF Awake(c) THEN wake[c] - 1 ELSE wake[c]]
    /\ ttl' = IF ttl > 0 THEN ttl - 1 ELSE 0
    /\ IF ttl = 1
       THEN /\ owner' = NoOwner
            /\ lost' = lost \union {c \in Clients : owner = c /\ pc[c] = "critical"}
       ELSE UNCHANGED <<owner, lost>>
    /\ UNCHANGED <<pc, attempt, blocking, dog, stop, errors>>

AcquireStep(c) ==
    \/ \E b \in BOOLEAN : Acquire(c, b)
    \/ SetTakesKey(c)
    \/ SetRefused(c)
    \/ SetFails(c)

ReleaseStep(c) == StopRenew(c) \/ Join(c) \/ Delete(c)

DogStep(c) == DogWakes(c) \/ DogStops(c) \/ DogExtends(c) \/ DogGivesUp(c)

Next ==
    \/ \E c \in Clients : AcquireStep(c) \/ ReleaseStep(c) \/ DogStep(c) \/ Crash(c)
    \/ Tick

Spec == Init /\ [][Next]_vars

\* Redis's clock runs and the operating system schedules watchdog threads.
\* Nothing is assumed of the clients: a critical section may last forever.
FairSpec == Spec /\ WF_vars(Tick) /\ \A c \in Clients : WF_vars(DogStep(c))

-----------------------------------------------------------------------------
(***************************************************************************)
(* Properties                                                              *)
(***************************************************************************)

\* Every variable has its type.
TypeOK ==
    /\ owner \in Clients \union {NoOwner}
    /\ ttl \in 0..Ttl
    /\ pc \in [Clients -> States]
    /\ attempt \in [Clients -> 0..RetryTimes]
    /\ blocking \in [Clients -> BOOLEAN]
    /\ dog \in [Clients -> {"off", "waiting", "extending"}]
    /\ stop \in [Clients -> BOOLEAN]
    /\ wake \in [Clients -> -MaxLate..Interval]
    /\ errors \in 0..MaxErrors
    /\ lost \in SUBSET Clients

\* A holder loses its key to the clock only: as long as the key did not
\* expire under it, no release, extension, failure or crash of anybody
\* takes the key away from it.
LeaseHonoured ==
    \A c \in Clients : pc[c] = "critical" /\ c \notin lost => owner = c

\* Two clients are in their critical sections at once only if one of them
\* has seen its key expire.
MutexUnlessLost ==
    \A c, d \in Clients :
        pc[c] = "critical" /\ pc[d] = "critical" /\ c # d => c \in lost \/ d \in lost

\* What the lock is for: as long as no Redis call has failed, and with
\* watchdogs that are scheduled early enough (see Timely), one client at most
\* is in its critical section.
MutualExclusion ==
    errors = 0 =>
        \A c, d \in Clients : pc[c] = "critical" /\ pc[d] = "critical" => c = d

\* Under the same conditions a critical section never outlives its key.
NoLeaseLost == errors = 0 => lost = {}

\* The renewal interval plus the worst scheduling delay is below the TTL.
Timely == Interval + MaxLate < Ttl

(***************************************************************************)
(* The critical sections are those of an abstract lock with leases,        *)
(* whatever fails, crashes or is late.                                     *)
(***************************************************************************)
Inside == {c \in Clients : pc[c] = "critical"}
Abstract == INSTANCE Mutex WITH inside <- Inside

\* Refinement: a client enters only when everybody inside has lost its key.
ImplementsMutex == Abstract!Spec

OrphanNeedsFault ==
    \A c \in Clients : pc[c] \in Returned /\ owner = c => errors > 0

\* A key no watchdog looks after goes away, whatever became of its owner: a
\* crashed holder, a failed release, a SET whose reply was lost.  And only a failed
\* call leaves one behind a lock object that is back with its caller: no watchdog
\* that is still extending brings a deleted key back.
OrphanExpires ==
    /\ []OrphanNeedsFault
    /\ \A c \in Clients : owner = c /\ dog[c] = "off" ~> owner # c
=============================================================================
