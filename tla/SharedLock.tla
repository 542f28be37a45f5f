----------------------------- MODULE SharedLock -----------------------------
(***************************************************************************)
(* One DistributedLock object of core/distributed_lock.py that several     *)
(* threads use, as they do when it decorates a function or is the subject  *)
(* of several with statements: they have the owner token, the stop event   *)
(* and _renew_thread in common.  Another process wants the lock too.       *)
(* DistributedLock.tla has one thread per object, and the failures of the  *)
(* calls to Redis.                                                         *)
(***************************************************************************)
EXTENDS Naturals, FiniteSets

CONSTANTS
    Callers,      \* threads that share the object
    Object,       \* its owner token
    Other,        \* the other process's
    Nobody,       \* no key
    Ttl,          \* in ticks
    Interval,     \* max(ttl // 3, 1)
    Delay,        \* how late a thread is as long as it is on time
    MaxAcquires,  \* bound: acquisitions through the object
    MaxLate       \* bound: ticks that find a thread later than that

ASSUME SharedAssumption ==
    /\ Object # Nobody /\ Other # Nobody /\ Object # Other
    /\ Ttl \in Nat \ {0} /\ Interval \in Nat /\ Delay \in Nat
    /\ MaxAcquires \in Nat

\* A thread may be late when it starts its dog, the dog when it extends the key, and a
\* thread when it deletes the key.
SharedTimely == Interval + 3 * Delay < Ttl

Dogs == 1..MaxAcquires

VARIABLES
    owner,   \* the key's value
    left,    \* ticks until it expires
    doing,   \* where each thread is
    stop,    \* _renew_stop is set
    dogs,    \* watchdogs started so far; the last one is _renew_thread
    alive,   \* those that have not ended
    since,   \* ticks since each thread came where it is
    idle,    \* ticks since each dog began to wait
    late     \* history: late ticks

sharedVars == <<owner, left, doing, stop, dogs, alive, since, idle, late>>

SharedInit ==
    /\ owner = Nobody
    /\ left = 0
    /\ doing = [t \in Callers |-> "outside"]
    /\ stop = FALSE
    /\ dogs = 0
    /\ alive = {}
    /\ since = [t \in Callers |-> 0]
    /\ idle = [d \in Dogs |-> 0]
    /\ late = 0

Reach(t, place) ==
    /\ doing' = [doing EXCEPT ![t] = place]
    /\ since' = [since EXCEPT ![t] = 0]

Holds(t) == doing[t] \in {"starting", "inside"}

-----------------------------------------------------------------------------
\* SET NX EX; a refused caller tries again or raises LockAcquisitionError.
Acquire(t) ==
    /\ doing[t] = "outside"
    /\ dogs + Cardinality({s \in Callers : doing[s] = "starting"}) < MaxAcquires
    /\ owner = Nobody
    /\ owner' = Object
    /\ left' = Ttl
    /\ Reach(t, "starting")
    /\ UNCHANGED <<stop, dogs, alive, idle, late>>

\* Mutant of StartRenew: the event is not cleared.
StartStopped(t) ==
    /\ doing[t] = "starting"
    /\ dogs' = dogs + 1
    /\ alive' = alive \union {dogs'}
    /\ idle' = [idle EXCEPT ![dogs'] = 0]
    /\ Reach(t, "inside")
    /\ UNCHANGED <<owner, left, stop, late>>

\* _start_renew
StartRenew(t) ==
    /\ doing[t] = "starting"
    /\ stop' = FALSE
    /\ dogs' = dogs + 1
    /\ alive' = alive \union {dogs'}
    /\ idle' = [idle EXCEPT ![dogs'] = 0]
    /\ Reach(t, "inside")
    /\ UNCHANGED <<owner, left, late>>

\* _renew_loop: wait(interval) ends with the event
DogStops(d) ==
    /\ d \in alive
    /\ stop
    /\ alive' = alive \ {d}
    /\ UNCHANGED <<owner, left, doing, since, stop, dogs, idle, late>>

\* or without it, and the key is extended if it is the object's.
DogExtends(d) ==
    /\ d \in alive
    /\ ~stop
    /\ idle[d] >= Interval
    /\ IF owner = Object
       THEN left' = Ttl /\ idle' = [idle EXCEPT ![d] = 0] /\ UNCHANGED alive
       ELSE alive' = alive \ {d} /\ UNCHANGED <<left, idle>>
    /\ UNCHANGED <<owner, doing, since, stop, dogs, late>>

\* release: the event is set,
StopRenew(t) ==
    /\ doing[t] = "inside"
    /\ stop' = TRUE
    /\ Reach(t, "joining")
    /\ UNCHANGED <<owner, left, dogs, alive, idle, late>>

\* the newest dog is awaited, for two seconds at most, and the key is deleted if
\* it is the object's: it may be a colleague's by now.
Delete(t) ==
    /\ doing[t] = "joining"
    /\ owner' = IF owner = Object THEN Nobody ELSE owner
    /\ Reach(t, "outside")
    /\ UNCHANGED <<left, stop, dogs, alive, idle, late>>

\* The other process takes the lock and gives it back.
OtherActs ==
    /\ \/ owner = Nobody /\ owner' = Other /\ left' = Ttl
       \/ owner = Other /\ owner' = Nobody /\ UNCHANGED left
    /\ UNCHANGED <<doing, since, stop, dogs, alive, idle, late>>

-----------------------------------------------------------------------------
\* Dogs extend when it is due, and threads start them and release without delay.
OnTime ==
    /\ \A d \in alive : stop \/ idle[d] < Interval + Delay
    /\ \A t \in Callers : doing[t] \in {"starting", "joining"} => since[t] < Delay

TimePasses ==
    /\ owner # Nobody
    /\ OnTime \/ late < MaxLate
    /\ late' = IF OnTime THEN late ELSE late + 1
    /\ left' = left - 1
    /\ owner' = IF left = 1 THEN Nobody ELSE owner
    /\ idle' = [d \in Dogs |-> IF d \in alive /\ idle[d] < Ttl THEN idle[d] + 1 ELSE idle[d]]
    /\ since' = [t \in Callers |-> IF doing[t] \in {"starting", "joining"} /\ since[t] < Ttl
                                   THEN since[t] + 1 ELSE since[t]]
    /\ UNCHANGED <<doing, stop, dogs, alive>>

SharedNext ==
    \/ \E t \in Callers : Acquire(t) \/ StartRenew(t) \/ StopRenew(t) \/ Delete(t)
    \/ \E d \in Dogs : DogStops(d) \/ DogExtends(d)
    \/ OtherActs \/ TimePasses

SharedSpec == SharedInit /\ [][SharedNext]_sharedVars

-----------------------------------------------------------------------------
(***************************************************************************)
(* Properties                                                              *)
(***************************************************************************)

\* As long as the threads are on time, sharing the object does no harm: one
\* thread is inside, and the key is the object's; however old dogs live on, and
\* whenever a colleague sets or clears the event they wait for.
SharingIsSafeOnTime ==
    late = 0 => /\ Cardinality({t \in Callers : Holds(t)}) <= 1
                /\ (\E t \in Callers : Holds(t)) => owner = Object

=============================================================================
