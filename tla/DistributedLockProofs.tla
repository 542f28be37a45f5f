------------------------ MODULE DistributedLockProofs ------------------------
(***************************************************************************)
(* Proofs about DistributedLock, for every set of clients, TTL, number of  *)
(* retries, number of Redis errors and scheduling delay.                   *)
(***************************************************************************)
EXTENDS DistributedLock, TLAPS

USE DEF Finished, Returned, States, keyVars, dogVars

\* max(ttl // 3, 1) is a positive number of ticks.
LEMMA IntervalType == Interval \in Nat \ {0}
BY LockAssumption DEF Interval

-----------------------------------------------------------------------------
(***************************************************************************)
(* Types                                                                   *)
(***************************************************************************)

\* Every step of acquire keeps the types.
LEMMA AcquireTypes ==
  ASSUME TypeOK, NEW c \in Clients, AcquireStep(c)
  PROVE  TypeOK'
<1> USE LockAssumption, IntervalType DEF TypeOK, Fault
<1>1. CASE \E b \in BOOLEAN : Acquire(c, b)
  BY <1>1 DEF Acquire
<1>2. CASE SetTakesKey(c)
  BY <1>2 DEF SetTakesKey
<1>3. CASE SetRefused(c)
  BY <1>3 DEF SetRefused
<1>4. CASE SetFails(c)
  BY <1>4 DEF SetFails
<1> QED
  BY <1>1, <1>2, <1>3, <1>4 DEF AcquireStep

\* Every step of release keeps the types.
LEMMA ReleaseTypes ==
  ASSUME TypeOK, NEW c \in Clients, ReleaseStep(c)
  PROVE  TypeOK'
<1> USE LockAssumption, IntervalType DEF TypeOK, Fault
<1>1. CASE StopRenew(c)
  BY <1>1 DEF StopRenew
<1>2. CASE Join(c)
  BY <1>2 DEF Join
<1>3. CASE Delete(c)
  BY <1>3 DEF Delete, DeleteOwnKey
<1> QED
  BY <1>1, <1>2, <1>3 DEF ReleaseStep

\* Every step of a watchdog keeps the types.
LEMMA DogTypes ==
  ASSUME TypeOK, NEW c \in Clients, DogStep(c)
  PROVE  TypeOK'
<1> USE LockAssumption, IntervalType DEF TypeOK, Fault
<1>1. CASE DogWakes(c)
  BY <1>1 DEF DogWakes
<1>2. CASE DogStops(c)
  BY <1>2 DEF DogStops
<1>3. CASE DogExtends(c)
  BY <1>3 DEF DogExtends
<1>4. CASE DogGivesUp(c)
  BY <1>4 DEF DogGivesUp
<1> QED
  BY <1>1, <1>2, <1>3, <1>4 DEF DogStep

\* The passing of time keeps the types.
LEMMA TickTypes ==
  ASSUME TypeOK, Tick
  PROVE  TypeOK'
<1> USE LockAssumption, IntervalType DEF TypeOK, Tick
<1>1. owner' \in Clients \union {NoOwner} /\ ttl' \in 0..Ttl /\ lost' \in SUBSET Clients
  OBVIOUS
<1>2. wake' \in [Clients -> -MaxLate..Interval]
  <2> SUFFICES ASSUME NEW c \in Clients
               PROVE  (IF Awake(c) THEN wake[c] - 1 ELSE wake[c]) \in -MaxLate..Interval
    OBVIOUS
  <2>1. wake[c] \in Int /\ -MaxLate \in Int /\ Interval \in Int
    OBVIOUS
  <2> QED
    BY <2>1
<1> QED
  BY <1>1, <1>2

\* Type correctness of the lock.
THEOREM TypeCorrectness == Spec => []TypeOK
<1>1. Init => TypeOK
  BY LockAssumption, IntervalType DEF Init, TypeOK
<1>2. TypeOK /\ [Next]_vars => TypeOK'
  <2> SUFFICES ASSUME TypeOK, [Next]_vars
               PROVE  TypeOK'
    OBVIOUS
  <2>1. ASSUME NEW c \in Clients, Crash(c)
        PROVE  TypeOK'
    BY <2>1, LockAssumption, IntervalType DEF TypeOK, Crash
  <2>2. CASE UNCHANGED vars
    BY <2>2 DEF TypeOK, vars
  <2> QED
    BY <2>1, <2>2, AcquireTypes, ReleaseTypes, DogTypes, TickTypes DEF Next
<1> QED
  BY <1>1, <1>2, PTL DEF Spec

-----------------------------------------------------------------------------
(***************************************************************************)
(* Safety with any number of Redis errors and any scheduling delay         *)
(***************************************************************************)

\* No step but the expiry of the key takes the key from a holder.
LEMMA HonouredStep ==
  ASSUME TypeOK, LeaseHonoured, [Next]_vars
  PROVE  LeaseHonoured'
<1> USE LockAssumption DEF TypeOK, LeaseHonoured
<1>1. ASSUME NEW c \in Clients, AcquireStep(c)
      PROVE  LeaseHonoured'
  BY <1>1 DEF AcquireStep, Acquire, SetTakesKey, SetRefused, SetFails
<1>2. ASSUME NEW c \in Clients, ReleaseStep(c)
      PROVE  LeaseHonoured'
  BY <1>2 DEF ReleaseStep, StopRenew, Join, Delete, DeleteOwnKey
<1>3. ASSUME NEW c \in Clients, DogStep(c)
      PROVE  LeaseHonoured'
  BY <1>3 DEF DogStep, DogWakes, DogStops, DogExtends, DogGivesUp
<1>4. ASSUME NEW c \in Clients, Crash(c)
      PROVE  LeaseHonoured'
  BY <1>4 DEF Crash
<1>5. CASE Tick
  BY <1>5 DEF Tick
<1>6. CASE UNCHANGED vars
  BY <1>6 DEF vars
<1> QED
  BY <1>1, <1>2, <1>3, <1>4, <1>5, <1>6 DEF Next

\* A holder loses its key to the clock only.
THEOREM LeaseSafety == Spec => []LeaseHonoured
<1>1. Init => LeaseHonoured
  BY DEF Init, LeaseHonoured
<1> QED
  BY <1>1, HonouredStep, TypeCorrectness, PTL DEF Spec

\* Two clients are in their critical sections at once only after one of them
\* has seen its key expire: the guarantee the lock gives unconditionally.
THEOREM MutexSafety == Spec => []MutexUnlessLost
<1>1. LeaseHonoured => MutexUnlessLost
  BY DEF LeaseHonoured, MutexUnlessLost
<1> QED
  BY <1>1, LeaseSafety, PTL

-----------------------------------------------------------------------------
(***************************************************************************)
(* Mutual exclusion while no Redis call has failed and watchdogs are on    *)
(* time                                                                    *)
(***************************************************************************)

\* Between two extensions the key's life and the watchdog's timer run down
\* together: their difference is what keeps the key alive until the watchdog
\* has run.
Renewed(c) ==
    /\ owner = c
    /\ Awake(c)
    /\ ttl = wake[c] + (Ttl - Interval)

TimelyInv ==
    errors = 0 =>
        /\ lost = {}
        /\ \A c \in Clients : pc[c] = "critical" => Renewed(c)

\* A step after which no Redis call has failed is not a failing call itself.
LEMMA NoFaultStep ==
  ASSUME TypeOK, [Next]_vars, errors' = 0
  PROVE  errors = 0 /\ ~Fault
<1>1. Fault => errors' = errors + 1
  BY DEF Fault
<1>2. errors \in Nat
  BY LockAssumption DEF TypeOK
<1>3. ASSUME NEW c \in Clients, AcquireStep(c)
      PROVE  errors' = errors \/ Fault
  BY <1>3 DEF AcquireStep, Acquire, SetTakesKey, SetRefused, SetFails
<1>4. ASSUME NEW c \in Clients, ReleaseStep(c)
      PROVE  errors' = errors \/ Fault
  BY <1>4 DEF ReleaseStep, StopRenew, Join, Delete
<1>5. ASSUME NEW c \in Clients, DogStep(c)
      PROVE  errors' = errors \/ Fault
  BY <1>5 DEF DogStep, DogWakes, DogStops, DogExtends, DogGivesUp
<1>6. ASSUME NEW c \in Clients, Crash(c)
      PROVE  errors' = errors
  BY <1>6 DEF Crash
<1>7. Tick => errors' = errors
  BY DEF Tick
<1>8. UNCHANGED vars => errors' = errors
  BY DEF vars
<1> QED
  BY <1>1, <1>2, <1>3, <1>4, <1>5, <1>6, <1>7, <1>8 DEF Next

\* With timely watchdogs every step keeps TimelyInv.
LEMMA TimelyStep ==
  ASSUME Timely, TypeOK, TimelyInv, [Next]_vars
  PROVE  TimelyInv'
<1> SUFFICES ASSUME errors' = 0
             PROVE  /\ lost' = {}
                    /\ \A c \in Clients : pc'[c] = "critical" => Renewed(c)'
  BY DEF TimelyInv
<1> DEFINE Good ==
      /\ lost = {}
      /\ \A c \in Clients : pc[c] = "critical" => Renewed(c)
<1>1. errors = 0 /\ ~Fault
  BY NoFaultStep
<1>2. Good
  BY <1>1 DEF TimelyInv
<1> USE LockAssumption, IntervalType DEF TypeOK, Renewed, Awake
<1>3. ASSUME NEW c \in Clients, AcquireStep(c)
      PROVE  Good'
  BY <1>1, <1>2, <1>3 DEF AcquireStep, Acquire, SetTakesKey, SetRefused, SetFails
<1>4. ASSUME NEW c \in Clients, ReleaseStep(c)
      PROVE  Good'
  BY <1>1, <1>2, <1>4 DEF ReleaseStep, StopRenew, Join, Delete, DeleteOwnKey
<1>5. ASSUME NEW c \in Clients, DogStep(c)
      PROVE  Good'
  BY <1>1, <1>2, <1>5 DEF DogStep, DogWakes, DogStops, DogExtends, DogGivesUp
<1>6. ASSUME NEW c \in Clients, Crash(c)
      PROVE  Good'
  BY <1>2, <1>6 DEF Crash
<1>7. CASE Tick
  <2>1. ASSUME NEW c \in Clients, pc[c] = "critical"
        PROVE  ttl > 1 /\ wake'[c] = wake[c] - 1
    BY <1>2, <1>7, <2>1 DEF Tick, Timely
  <2>2. lost' = {}
    BY <1>2, <1>7, <2>1 DEF Tick
  <2>3. ASSUME NEW c \in Clients, pc'[c] = "critical"
        PROVE  Renewed(c)'
    <3>1. pc[c] = "critical" /\ Renewed(c)
      BY <1>2, <1>7, <2>3 DEF Tick
    <3>2. owner' = owner /\ ttl' = ttl - 1
      BY <1>7, <2>1, <3>1 DEF Tick
    <3>3. ttl' = wake'[c] + (Ttl - Interval)
      BY <2>1, <3>1, <3>2
    <3> QED
      BY <1>7, <3>1, <3>2, <3>3 DEF Tick
  <2> QED
    BY <2>2, <2>3
<1>8. CASE UNCHANGED vars
  BY <1>2, <1>8 DEF vars
<1> QED
  BY <1>3, <1>4, <1>5, <1>6, <1>7, <1>8 DEF Next

\* The invariant of a lock with timely watchdogs.
LEMMA TimelyInvariance ==
  ASSUME Timely
  PROVE  Spec => []TimelyInv
<1>1. Init => TimelyInv
  BY DEF Init, TimelyInv
<1>2. TypeOK /\ TimelyInv /\ [Next]_vars => TimelyInv'
  BY TimelyStep
<1> QED
  BY <1>1, <1>2, TypeCorrectness, PTL DEF Spec

\* As long as no Redis call has failed no critical section outlives its key.
THEOREM TimelyLease ==
  ASSUME Timely
  PROVE  Spec => []NoLeaseLost
<1>1. TimelyInv => NoLeaseLost
  BY DEF TimelyInv, NoLeaseLost
<1> QED
  BY <1>1, TimelyInvariance, PTL

\* As long as no Redis call has failed two clients are never in their critical
\* sections at once.
THEOREM TimelyMutualExclusion ==
  ASSUME Timely
  PROVE  Spec => []MutualExclusion
<1>1. TimelyInv => MutualExclusion
  BY DEF TimelyInv, Renewed, MutualExclusion
<1> QED
  BY <1>1, TimelyInvariance, PTL

-----------------------------------------------------------------------------
(***************************************************************************)
(* Refinement of the abstract lock, whatever fails, crashes or is late     *)
(***************************************************************************)

\* What is lost is lost by a client in its critical section.
LostInside == lost \subseteq Inside

LEMMA LostInsideStep ==
  ASSUME TypeOK, LostInside, [Next]_vars
  PROVE  LostInside'
<1> USE LockAssumption DEF TypeOK, LostInside, Inside
<1>1. ASSUME NEW c \in Clients, AcquireStep(c)
      PROVE  LostInside'
  BY <1>1 DEF AcquireStep, Acquire, SetTakesKey, SetRefused, SetFails
<1>2. ASSUME NEW c \in Clients, ReleaseStep(c)
      PROVE  LostInside'
  BY <1>2 DEF ReleaseStep, StopRenew, Join, Delete
<1>3. ASSUME NEW c \in Clients, DogStep(c)
      PROVE  LostInside'
  BY <1>3 DEF DogStep, DogWakes, DogStops, DogExtends, DogGivesUp
<1>4. ASSUME NEW c \in Clients, Crash(c)
      PROVE  LostInside'
  BY <1>4 DEF Crash
<1>5. CASE Tick
  BY <1>5 DEF Tick
<1>6. CASE UNCHANGED vars
  BY <1>6 DEF vars
<1> QED
  BY <1>1, <1>2, <1>3, <1>4, <1>5, <1>6 DEF Next

\* Every step of the lock lets a client in while everybody inside has lost its
\* key, lets one out, expires one's lease, or changes nothing of this.
LEMMA MutexStep ==
  ASSUME TypeOK, LeaseHonoured, LostInside, [Next]_vars
  PROVE  [Abstract!Next]_<<Inside, lost>>
<1> USE LockAssumption DEF TypeOK, Inside
<1>1. ASSUME NEW c \in Clients, SetTakesKey(c)
      PROVE  Abstract!Enter(c)
  BY <1>1 DEF SetTakesKey, Abstract!Enter, LeaseHonoured
<1>2. ASSUME NEW c \in Clients, StopRenew(c) \/ (Crash(c) /\ pc[c] = "critical")
      PROVE  Abstract!Leave(c)
  BY <1>2 DEF StopRenew, Crash, Abstract!Leave
<1>3. ASSUME NEW c \in Clients,
             \/ \E b \in BOOLEAN : Acquire(c, b)
             \/ SetRefused(c)
             \/ SetFails(c)
             \/ Join(c)
             \/ Delete(c)
             \/ DogStep(c)
             \/ Crash(c) /\ pc[c] # "critical"
      PROVE  UNCHANGED <<Inside, lost>>
  BY <1>3 DEF Acquire, SetRefused, SetFails, Join, Delete, Crash, LostInside,
              DogStep, DogWakes, DogStops, DogExtends, DogGivesUp
<1>4. ASSUME Tick, NEW c \in Clients, ttl = 1, owner = c, pc[c] = "critical"
      PROVE  Abstract!Expire(c)
  BY <1>4 DEF Tick, Abstract!Expire
<1>5. ASSUME Tick, \A c \in Clients : ~(ttl = 1 /\ owner = c /\ pc[c] = "critical")
      PROVE  UNCHANGED <<Inside, lost>>
  BY <1>5 DEF Tick
<1>6. CASE UNCHANGED vars
  BY <1>6 DEF vars
<1> QED
  BY <1>1, <1>2, <1>3, <1>4, <1>5, <1>6 DEF Next, AcquireStep, ReleaseStep, Abstract!Next

\* The lock implements the abstract lock with leases.
THEOREM MutexRefinement == Spec => ImplementsMutex
<1>1. Init => Abstract!Init
  BY DEF Init, Abstract!Init, Inside
<1>2. Init => LostInside
  BY DEF Init, LostInside
<1>3. TypeOK /\ LostInside /\ [Next]_vars => LostInside'
  BY LostInsideStep
<1>4. TypeOK /\ LeaseHonoured /\ LostInside /\ [Next]_vars => [Abstract!Next]_<<Inside, lost>>
  BY MutexStep
<1> QED
  BY <1>1, <1>2, <1>3, <1>4, TypeCorrectness, LeaseSafety, PTL
     DEF Spec, ImplementsMutex, Abstract!Spec
=============================================================================
