--------------------------- MODULE DistributedId ---------------------------
(***************************************************************************)
(* core/distributed_id.py: Snowflake generators on one wall clock that may *)
(* be set back, and their worker ids from a bitmap in Redis.  next_id      *)
(* holds the generator's lock, also while it sleeps; it is one step unless *)
(* it sleeps.  The ids drawn from a Redis counter are in RedisCalls.       *)
(***************************************************************************)
EXTENDS Integers, FiniteSets

CONSTANTS
    Gens,          \* SnowflakeIDGenerator objects, each in its own process
    HostId,        \* hash(gethostname()) of each process, as a worker id
    MaxWorkerId,   \* MAX_WORKER_ID
    MaxSequence,   \* MAX_SEQUENCE
    Tolerance,     \* how far a clock may be behind before next_id raises (5 ms)
    WorkerTtl,     \* TTL of the bitmap (300 s)
    MaxTicks,      \* bound: ticks
    MaxIds,        \* bound: different ids
    MaxMishaps     \* bound: clocks set back, processes ended, Redis calls failed

ASSUME IdAssumption ==
    /\ MaxWorkerId \in Nat
    /\ MaxSequence \in Nat
    /\ HostId \in [Gens -> 0..MaxWorkerId]

VARIABLES
    time,        \* ticks (milliseconds) that have passed
    wall,        \* what time.time() reads
    bits,        \* the bitmap snowflake:worker_ids
    bitsDie,     \* when it expires
    renewing,    \* generators whose start() is between SETBIT and EXPIRE
    worker,      \* self._worker_id, -1 for None
    lastTime,    \* self._last_timestamp
    sequence,    \* self._sequence
    sleep,       \* ticks that a sleeping generator has left, or -1
    issued,      \* history: the ids of all generators
    mishaps,     \* how many so far
    flaws        \* history: what happened to the ids

clockVars == <<time, wall>>
bitVars == <<bits, bitsDie, renewing>>
genVars == <<worker, lastTime, sequence, sleep, issued>>
idVars == <<clockVars, bitVars, genVars, mishaps, flaws>>

None == -1

IdInit ==
    /\ time = 0 /\ wall = 0
    /\ bits = {} /\ bitsDie = 0 /\ renewing = {}
    /\ worker = [g \in Gens |-> None]
    /\ lastTime = [g \in Gens |-> -1]
    /\ sequence = [g \in Gens |-> 0]
    /\ sleep = [g \in Gens |-> -1]
    /\ issued = {}
    /\ mishaps = 0
    /\ flaws = {}

Mishap == mishaps < MaxMishaps /\ mishaps' = mishaps + 1

-----------------------------------------------------------------------------
(***************************************************************************)
(* Worker ids                                                              *)
(***************************************************************************)

\* SETBIT makes a bitmap that is not there, without a TTL.
Keep == bitsDie' = IF bits = {} THEN MaxTicks + 1 ELSE bitsDie

\* Mutant of TakeBit: the old value of the bit is not looked at.
TakeAnyBit(g) ==
    /\ \E w \in 0..MaxWorkerId :
          bits' = bits \union {w} /\ worker' = [worker EXCEPT ![g] = w]
    /\ Keep
    /\ renewing' = renewing \union {g}

\* SETBIT finds the bit clear: the id is the generator's, which may use it from
\* now on.
TakeBit(g) ==
    /\ \E w \in 0..MaxWorkerId \ bits :
          bits' = bits \union {w} /\ worker' = [worker EXCEPT ![g] = w]
    /\ Keep
    /\ renewing' = renewing \union {g}

\* The reply to SETBIT is lost; the bit is nobody's.
LoseBit ==
    /\ Mishap
    /\ \E w \in 0..MaxWorkerId \ bits : bits' = bits \union {w}
    /\ Keep

\* EXPIRE gives the bitmap, with everybody's bits, its TTL anew; or it fails, and
\* start() raises, but the generator keeps its id.
ExpireBits(g) ==
    /\ g \in renewing
    /\ renewing' = renewing \ {g}
    /\ \/ /\ bitsDie' = IF bits = {} THEN bitsDie ELSE time + WorkerTtl
          /\ UNCHANGED mishaps
       \/ Mishap /\ UNCHANGED bitsDie
    /\ UNCHANGED <<clockVars, bits, genVars, flaws>>

\* start(); without Redis the host's name decides.
Start(g) ==
    /\ worker[g] = None
    /\ \/ TakeBit(g) /\ UNCHANGED <<mishaps, flaws>>
       \/ LoseBit /\ UNCHANGED <<worker, renewing, flaws>>
       \/ /\ Mishap
          /\ worker' = [worker EXCEPT ![g] = HostId[g]]
          /\ flaws' = flaws \union {"hostname"}
          /\ UNCHANGED bitVars
    /\ UNCHANGED <<clockVars, lastTime, sequence, sleep, issued>>

\* The process ends; another one takes its place.
Restart(g) ==
    /\ worker[g] # None
    /\ Mishap
    /\ worker' = [worker EXCEPT ![g] = None]
    /\ lastTime' = [lastTime EXCEPT ![g] = -1]
    /\ sequence' = [sequence EXCEPT ![g] = 0]
    /\ sleep' = [sleep EXCEPT ![g] = -1]
    /\ renewing' = renewing \ {g}
    /\ flaws' = flaws \union {"restarted"}
    /\ UNCHANGED <<clockVars, bits, bitsDie, issued>>

-----------------------------------------------------------------------------
(***************************************************************************)
(* next_id                                                                 *)
(***************************************************************************)

\* The bits of the parts: timestamp, worker id, sequence.
Compose(timestamp, w, seq) == (timestamp * (MaxWorkerId + 1) + w) * (MaxSequence + 1) + seq

\* From `if timestamp == last` on: a full millisecond is waited out, which is
\* to say that nothing is issued before the clock has gone on.
Issue(g, timestamp) ==
    LET seq == IF timestamp = lastTime[g] THEN sequence[g] + 1 ELSE 0
        id == Compose(timestamp, worker[g], seq)
    IN  /\ seq <= MaxSequence
        /\ Cardinality(issued) < MaxIds
        /\ sequence' = [sequence EXCEPT ![g] = seq]
        /\ lastTime' = [lastTime EXCEPT ![g] = timestamp]
        /\ issued' = issued \union {id}
        /\ flaws' = flaws \union (IF id \in issued THEN {"duplicate"} ELSE {})
                          \union (IF timestamp < lastTime[g] THEN {"rewound"} ELSE {})

\* The clock is not behind the last id; or it is, and next_id goes to sleep, or
\* raises ClockBackwardsError, which changes nothing.
NextId(g) ==
    /\ worker[g] # None
    /\ sleep[g] = -1
    /\ \/ wall >= lastTime[g] /\ Issue(g, wall) /\ UNCHANGED sleep
       \/ /\ wall < lastTime[g] /\ lastTime[g] - wall <= Tolerance
          /\ sleep' = [sleep EXCEPT ![g] = lastTime[g] - wall + 1]
          /\ UNCHANGED <<lastTime, sequence, issued, flaws>>
    /\ UNCHANGED <<clockVars, bitVars, worker, mishaps>>

\* After the sleep the clock is read again and not compared.
Wake(g) ==
    /\ sleep[g] = 0
    /\ Issue(g, wall)
    /\ sleep' = [sleep EXCEPT ![g] = -1]
    /\ UNCHANGED <<clockVars, bitVars, worker, mishaps>>

-----------------------------------------------------------------------------
ClockTicks ==
    /\ time < MaxTicks
    /\ time' = time + 1
    /\ wall' = wall + 1
    /\ sleep' = [g \in Gens |-> IF sleep[g] > 0 THEN sleep[g] - 1 ELSE sleep[g]]
    /\ bits' = IF time' >= bitsDie THEN {} ELSE bits
    /\ flaws' = IF time' >= bitsDie /\ \E g \in Gens : worker[g] \in bits
                THEN flaws \union {"expired"} ELSE flaws
    /\ UNCHANGED <<bitsDie, renewing, worker, lastTime, sequence, issued, mishaps>>

SetBack ==
    /\ Mishap
    /\ wall' \in 0..wall - 1
    /\ flaws' = flaws \union {"set back"}
    /\ UNCHANGED <<time, bitVars, genVars>>

IdNext ==
    \/ \E g \in Gens : Start(g) \/ ExpireBits(g) \/ Restart(g) \/ NextId(g) \/ Wake(g)
    \/ ClockTicks \/ SetBack

IdSpec == IdInit /\ [][IdNext]_idVars

-----------------------------------------------------------------------------
(***************************************************************************)
(* Properties                                                              *)
(***************************************************************************)

\* Two equal ids need a reason: the bitmap of the worker ids expired under a
\* generator that uses one, a host's name was the id, the clock was still behind
\* after the sleep, or it was set back and a new process does not know of it.
DuplicateHasReason ==
    "duplicate" \in flaws =>
        \/ {"expired", "hostname", "rewound"} \intersect flaws # {}
        \/ {"restarted", "set back"} \subseteq flaws

=============================================================================
