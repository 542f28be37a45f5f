-------------------------- MODULE DelayQueueProofs --------------------------
(***************************************************************************)
(* For any number of tasks, workers, poll threads and tries, and any bound *)
(* on failed calls and crashes: a task has one keeper, a settled task      *)
(* stays settled after max_retry handler calls at the most, and the queue  *)
(* implements Delivery.                                                    *)
(***************************************************************************)
EXTENDS DelayQueue, TLAPS

Busy == {"load", "handle", "clean", "retry", "requeue"}

Types ==
    /\ queue \subseteq Tasks
    /\ hash \in [Tasks -> [status : {"none", "live", "failed"}, retries : Nat]]
    /\ adder \in [Tasks -> {"hset", "expire", "zadd", "accepted", "refused"}]
    /\ at \in [Threads -> {"off", "idle", "next"} \union Busy]
    /\ batch \in [Threads -> SUBSET Tasks]
    /\ task \in [Threads -> Tasks \union {NoTask}]
    /\ copy \in [Threads -> Nat]
    /\ calls \in [Tasks -> Nat]
    /\ outcome \in [Tasks -> {"open", "done", "failed"}]

\* A thread executes a task of its batch at a time, and keeps nothing between
\* two polls.
Places ==
    \A p \in Threads :
        /\ at[p] \in {"off", "idle"} => batch[p] = {}
        /\ at[p] \in Busy => task[p] \in Tasks
        /\ at[p] \notin Busy => task[p] = NoTask
        /\ task[p] \notin batch[p]

\* InHand, for one task.
Holds(p, t) == t \in batch[p] \/ task[p] = t

\* OneKeeper, for one task.
KeptOnce ==
    \A t \in Tasks : \A p \in Threads : Holds(p, t) =>
        /\ t \notin queue
        /\ \A q \in Threads : Holds(q, t) => q = p

\* add has not come to ZADD: nobody has seen the task.
Unseen ==
    \A t \in Tasks : adder[t] \in {"hset", "expire", "zadd"} =>
        /\ t \notin queue
        /\ \A p \in Threads : ~Holds(p, t)
        /\ calls[t] = 0
        /\ outcome[t] = "open"
        /\ adder[t] # "hset" => hash[t] = Hash("live", 0)

KeeperInv == Types /\ Places /\ KeptOnce /\ Unseen

-----------------------------------------------------------------------------
(***************************************************************************)
(* One keeper                                                              *)
(***************************************************************************)

LEMMA InitKeeperInv == Init => KeeperInv
  BY QueueAssumption
  DEF Init, KeeperInv, Types, Places, KeptOnce, Unseen, Holds, Hash, NoHash, Busy

\* A step that moves no task into the queue or into a hand keeps KeptOnce.
LEMMA NothingMovesIn ==
  ASSUME KeptOnce, queue' \subseteq queue,
         \A p \in Threads : \A t \in Tasks : Holds(p, t)' => Holds(p, t)
  PROVE  KeptOnce'
  BY DEF KeptOnce

LEMMA AddKeeper ==
  ASSUME KeeperInv, NEW t \in Tasks, AddHset(t) \/ AddExpire(t) \/ AddZadd(t)
  PROVE  KeeperInv'
<1> USE DEF AddStep, Call, redisVars, threadVars, history, Hash
<1>1. Types'
  <2>1. Hash("live", 0) \in [status : {"none", "live", "failed"}, retries : Nat]
    OBVIOUS
  <2> HIDE DEF Hash
  <2>2. hash' \in [Tasks -> [status : {"none", "live", "failed"}, retries : Nat]]
    BY <2>1 DEF KeeperInv, Types, AddHset, AddExpire, AddZadd
  <2>3. queue' \subseteq Tasks
    BY DEF KeeperInv, Types, AddHset, AddExpire, AddZadd
  <2>4. adder' \in [Tasks -> {"hset", "expire", "zadd", "accepted", "refused"}]
    BY DEF KeeperInv, Types, AddHset, AddExpire, AddZadd
  <2>5. UNCHANGED <<at, batch, task, copy, calls, outcome>>
    BY DEF AddHset, AddExpire, AddZadd
  <2> QED
    BY <2>2, <2>3, <2>4, <2>5 DEF KeeperInv, Types
<1>2. Places'
  BY DEF KeeperInv, Places, AddHset, AddExpire, AddZadd
<1>3. KeptOnce'
  BY DEF KeeperInv, KeptOnce, Unseen, Holds, AddHset, AddExpire, AddZadd
<1>4. Unseen'
  BY DEF KeeperInv, Types, Unseen, Holds, AddHset, AddExpire, AddZadd
<1> QED
  BY <1>1, <1>2, <1>3, <1>4 DEF KeeperInv

LEMMA WorkerKeeper ==
  ASSUME KeeperInv, NEW w \in Workers,
         Register(w) \/ StartPolling(w) \/ StopPolling(w) \/ Crash(w)
  PROVE  KeeperInv'
<1> USE DEF redisVars, threadVars, history
<1>1. Types'
  BY DEF KeeperInv, Types, Register, StartPolling, StopPolling, Crash
<1>2. Places'
  BY QueueAssumption
  DEF KeeperInv, Types, Places, Busy, Register, StartPolling, StopPolling, Crash
<1>3. /\ UNCHANGED <<queue, hash, adder, calls, outcome>>
      /\ \A p \in Threads : \A t \in Tasks : Holds(p, t)' => Holds(p, t)
  BY QueueAssumption DEF Holds, Register, StartPolling, StopPolling, Crash
<1>4. KeptOnce'
  BY <1>3, NothingMovesIn DEF KeeperInv
<1>5. Unseen'
  BY <1>3 DEF KeeperInv, Unseen
<1> QED
  BY <1>1, <1>2, <1>4, <1>5 DEF KeeperInv

LEMMA PopKeeper ==
  ASSUME KeeperInv, NEW p \in Threads, Pop(p)
  PROVE  KeeperInv'
<1> USE DEF Pop, Call, Goto, history
<1>1. Types'
  <2>1. at' \in [Threads -> {"off", "idle", "next"} \union Busy]
    BY DEF KeeperInv, Types
  <2>2. queue' \subseteq Tasks /\ batch' \in [Threads -> SUBSET Tasks]
    BY DEF KeeperInv, Types
  <2> QED
    BY <2>1, <2>2 DEF KeeperInv, Types
<1>2. Places'
  BY QueueAssumption DEF KeeperInv, Types, Places, Busy
<1>3. KeptOnce'
  <2>1. queue' \subseteq queue
    OBVIOUS
  <2>2. \A q \in Threads : \A t \in Tasks :
          Holds(q, t)' => \/ Holds(q, t)
                          \/ q = p /\ t \in queue /\ t \notin queue'
    BY DEF KeeperInv, Types, Holds
  <2> QED
    BY <2>1, <2>2 DEF KeeperInv, KeptOnce
<1>4. Unseen'
  BY DEF KeeperInv, Types, Unseen, Holds
<1> QED
  BY <1>1, <1>2, <1>3, <1>4 DEF KeeperInv

\* Everything else a thread does, but for Requeue: the task comes from its own
\* batch, and nothing comes into the queue.
LEMMA ExecuteKeeper ==
  ASSUME KeeperInv, NEW p \in Threads,
         \/ EndThread(p) \/ EndBatch(p) \/ Take(p) \/ Load(p) \/ Handle(p)
         \/ Clean(p) \/ Retry(p) \/ GiveUp(p)
  PROVE  KeeperInv'
<1> USE DEF EndThread, EndBatch, Take, Load, Handle, Clean, Retry, GiveUp,
        Call, Goto, NextTask, DropBatch, redisVars, threadVars, history
<1>1. Types'
  <2>1. at' \in [Threads -> {"off", "idle", "next"} \union Busy]
    BY DEF KeeperInv, Types, Busy
  <2>2. batch' \in [Threads -> SUBSET Tasks]
    BY DEF KeeperInv, Types
  <2>3. task' \in [Threads -> Tasks \union {NoTask}]
    BY DEF KeeperInv, Types
  <2>4. hash' \in [Tasks -> [status : {"none", "live", "failed"}, retries : Nat]]
    <3>1. CASE UNCHANGED hash
      BY <3>1 DEF KeeperInv, Types
    <3>2. CASE Clean(p)
      <4>1. NoHash \in [status : {"none", "live", "failed"}, retries : Nat]
        BY DEF Hash, NoHash
      <4> HIDE DEF NoHash
      <4> QED
        BY <3>2, <4>1 DEF KeeperInv, Types, Clean
    <3>3. CASE Retry(p)
      <4> DEFINE next == Hash("live", copy[p] + 1)
      <4>1. next \in [status : {"none", "live", "failed"}, retries : Nat]
        BY DEF KeeperInv, Types, Hash
      <4>2. hash' = [hash EXCEPT ![task[p]] = next] \/ UNCHANGED hash
        BY <3>3 DEF Retry
      <4> HIDE DEF next
      <4> QED
        BY <4>1, <4>2 DEF KeeperInv, Types
    <3>4. CASE GiveUp(p)
      <4>1. hash' = [hash EXCEPT ![task[p]].status = "failed"] \/ UNCHANGED hash
        BY <3>4 DEF GiveUp
      <4> QED
        BY <4>1 DEF KeeperInv, Types
    <3>5. Clean(p) \/ Retry(p) \/ GiveUp(p) \/ UNCHANGED hash
      OBVIOUS
    <3> QED
      BY <3>1, <3>2, <3>3, <3>4, <3>5
  <2>5. copy' \in [Threads -> Nat]
    BY DEF KeeperInv, Types, Places, Busy
  <2>6. calls' \in [Tasks -> Nat] /\ outcome' \in [Tasks -> {"open", "done", "failed"}]
    BY DEF KeeperInv, Types
  <2>7. UNCHANGED <<queue, adder>>
    OBVIOUS
  <2> QED
    BY <2>1, <2>2, <2>3, <2>4, <2>5, <2>6, <2>7 DEF KeeperInv, Types
<1>2. Places'
  BY QueueAssumption DEF KeeperInv, Types, Places, Busy
<1>3. \A q \in Threads : \A t \in Tasks : Holds(q, t)' => Holds(q, t)
  BY QueueAssumption DEF KeeperInv, Types, Holds
<1>4. /\ UNCHANGED <<queue, adder>>
      /\ \A t \in Tasks : ~Holds(p, t) => UNCHANGED <<hash[t], calls[t], outcome[t]>>
  BY DEF KeeperInv, Types, Places, Holds, Busy
<1>5. KeptOnce'
  BY <1>3, <1>4, NothingMovesIn DEF KeeperInv
<1>6. Unseen'
  BY <1>3, <1>4 DEF KeeperInv, Unseen
<1> QED
  BY <1>1, <1>2, <1>5, <1>6 DEF KeeperInv

LEMMA RequeueKeeper ==
  ASSUME KeeperInv, NEW p \in Threads, Requeue(p)
  PROVE  KeeperInv'
<1> USE DEF Requeue, Call, Goto, NextTask, DropBatch, history
<1>1. Types'
  <2>1. at' \in [Threads -> {"off", "idle", "next"} \union Busy]
    BY DEF KeeperInv, Types
  <2>2. queue' \subseteq Tasks
    BY DEF KeeperInv, Types, Places, Busy
  <2>3. /\ batch' \in [Threads -> SUBSET Tasks]
        /\ task' \in [Threads -> Tasks \union {NoTask}]
        /\ copy' \in [Threads -> Nat]
    BY SMTT(20) DEF KeeperInv, Types
  <2> QED
    BY <2>1, <2>2, <2>3 DEF KeeperInv, Types
<1>2. Places'
  BY QueueAssumption DEF KeeperInv, Types, Places, Busy
<1>3. KeptOnce'
  BY QueueAssumption DEF KeeperInv, Types, Places, KeptOnce, Holds, Busy
<1>4. Unseen'
  BY QueueAssumption DEF KeeperInv, Types, Places, Unseen, Holds, Busy
<1> QED
  BY <1>1, <1>2, <1>3, <1>4 DEF KeeperInv

LEMMA NextKeeperInv == KeeperInv /\ [Next]_vars => KeeperInv'
<1> SUFFICES ASSUME KeeperInv, [Next]_vars PROVE KeeperInv'
  OBVIOUS
<1>1. CASE UNCHANGED vars
  BY <1>1 DEF vars, KeeperInv, Types, Places, KeptOnce, Unseen, Holds
<1> QED
  BY <1>1, AddKeeper, WorkerKeeper, PopKeeper, ExecuteKeeper, RequeueKeeper
  DEF Next, ThreadStep

\* A task is in one place, whatever calls fail and whoever dies: the script takes
\* it out of the sorted set for one thread, and only this thread puts it back.
THEOREM KeeperSafety == Spec => []OneKeeper
<1>1. KeeperInv => OneKeeper
  BY QueueAssumption DEF KeeperInv, Types, KeptOnce, OneKeeper, InHand, Holds
<1> QED
  BY <1>1, InitKeeperInv, NextKeeperInv, PTL DEF Spec

-----------------------------------------------------------------------------
(***************************************************************************)
(* Settled tasks and handler calls                                         *)
(***************************************************************************)

\* A settled task is nowhere, but for the hash that Clean has yet to delete.
SettledNowhere ==
    \A t \in Tasks : outcome[t] # "open" =>
        /\ t \notin queue
        /\ \A p \in Threads :
            /\ t \notin batch[p]
            /\ task[p] = t => at[p] = "clean"

\* The next call of the task's handler is decided by its hash.
Waiting(t) ==
    \/ t \in queue
    \/ \E p \in Threads :
        \/ t \in batch[p]
        \/ task[p] = t /\ at[p] \in {"load", "requeue"}

\* The retry count of a task that waits for its next call is the number of its
\* calls, and it is one behind while its handler runs.
CountsCalls ==
    /\ \A t \in Tasks : Waiting(t) =>
        /\ hash[t].status = "live"
        /\ calls[t] = hash[t].retries
        /\ hash[t].retries < MaxRetry
    /\ \A p \in Threads : at[p] \in {"handle", "retry"} =>
        calls[task[p]] = copy[p] + 1 /\ copy[p] < MaxRetry
    /\ CallsBounded

SettledInv == KeeperInv /\ SettledNowhere /\ CountsCalls

LEMMA InitSettledInv == Init => SettledInv
  BY InitKeeperInv, QueueAssumption
  DEF Init, SettledInv, SettledNowhere, CountsCalls, CallsBounded, Waiting

\* A step that touches no task's fate and moves none into a new place.
LEMMA NothingSettles ==
  ASSUME SettledInv, KeeperInv', UNCHANGED <<hash, calls, outcome>>,
         \A t \in Tasks : Waiting(t)' => Waiting(t),
         \A p \in Threads : at'[p] \in Busy =>
            \/ UNCHANGED <<at[p], task[p], copy[p]>>
            \/ at'[p] \in {"load", "requeue"} /\ outcome[task'[p]] = "open"
  PROVE  SettledInv'
<1>1. SettledNowhere'
  <2> SUFFICES ASSUME NEW t \in Tasks, outcome[t] # "open"
               PROVE  /\ t \notin queue'
                      /\ \A p \in Threads :
                          /\ t \notin batch'[p]
                          /\ task'[p] = t => at'[p] = "clean"
    BY DEF SettledNowhere
  <2>1. ~Waiting(t)'
    BY DEF SettledInv, SettledNowhere, Waiting
  <2>2. ASSUME NEW p \in Threads, task'[p] = t
        PROVE  at'[p] = "clean"
    <3>1. at'[p] \in Busy
      BY <2>2, QueueAssumption DEF KeeperInv, Places
    <3> QED
      BY <2>2, <3>1 DEF SettledInv, SettledNowhere
  <2>3. t \notin queue' /\ \A p \in Threads : t \notin batch'[p]
    BY <2>1 DEF Waiting
  <2> QED
    BY <2>2, <2>3
<1>2. CountsCalls'
  BY DEF SettledInv, CountsCalls, CallsBounded, Busy
<1> QED
  BY <1>1, <1>2 DEF SettledInv

LEMMA AddSettled ==
  ASSUME SettledInv, NEW t \in Tasks, AddHset(t) \/ AddExpire(t) \/ AddZadd(t)
  PROVE  SettledInv'
<1> USE DEF AddStep, Call, redisVars, threadVars, history
<1>1. KeeperInv'
  BY AddKeeper DEF SettledInv
<1>2. /\ UNCHANGED <<at, batch, task, copy, calls, outcome>>
      /\ queue' \subseteq queue \union {t}
      /\ \A u \in Tasks : u # t => UNCHANGED hash[u]
  BY DEF AddHset, AddExpire, AddZadd, SettledInv, KeeperInv, Types
<1>3. /\ ~Waiting(t)
      /\ \A p \in Threads : task[p] # t
      /\ calls[t] = 0
      /\ outcome[t] = "open"
  BY DEF AddHset, AddExpire, AddZadd, SettledInv, KeeperInv, Unseen, Holds, Waiting
<1>4. t \in queue' => hash'[t] = Hash("live", 0)
  BY <1>3 DEF AddHset, AddExpire, AddZadd, SettledInv, KeeperInv, Unseen, Hash, Waiting
<1>5. SettledNowhere'
  BY <1>2, <1>3 DEF SettledInv, SettledNowhere
<1>6. CountsCalls'
  <2>1. ASSUME NEW u \in Tasks, Waiting(u)'
        PROVE  /\ hash'[u].status = "live"
               /\ calls'[u] = hash'[u].retries
               /\ hash'[u].retries < MaxRetry
    <3>1. CASE u = t
      BY <3>1, <2>1, <1>2, <1>3, <1>4, QueueAssumption DEF Waiting, Hash
    <3>2. CASE u # t
      BY <3>2, <2>1, <1>2 DEF Waiting, SettledInv, CountsCalls
    <3> QED
      BY <3>1, <3>2
  <2> QED
    BY <2>1, <1>2 DEF SettledInv, CountsCalls, CallsBounded
<1> QED
  BY <1>1, <1>5, <1>6 DEF SettledInv

LEMMA WorkerSettled ==
  ASSUME SettledInv, NEW w \in Workers,
         Register(w) \/ StartPolling(w) \/ StopPolling(w) \/ Crash(w)
  PROVE  SettledInv'
<1> USE DEF redisVars, threadVars, history
<1>1. KeeperInv'
  BY WorkerKeeper DEF SettledInv
<1>2. UNCHANGED <<queue, hash, calls, outcome>>
  BY DEF Register, StartPolling, StopPolling, Crash
<1>3. \A t \in Tasks : Waiting(t)' => Waiting(t)
  BY QueueAssumption
  DEF Waiting, Register, StartPolling, StopPolling, Crash, SettledInv, KeeperInv, Types
<1>4. \A p \in Threads : at'[p] \in Busy => UNCHANGED <<at[p], task[p], copy[p]>>
  BY DEF Register, StartPolling, StopPolling, Crash, SettledInv, KeeperInv, Types, Busy
<1> QED
  BY <1>1, <1>2, <1>3, <1>4, NothingSettles

\* The steps between two tasks.
LEMMA BatchSettled ==
  ASSUME SettledInv, NEW p \in Threads,
         EndThread(p) \/ Pop(p) \/ EndBatch(p) \/ Take(p)
  PROVE  SettledInv'
<1> USE DEF EndThread, Pop, EndBatch, Take, Call, Goto, DropBatch, redisVars, threadVars, history
<1>1. KeeperInv'
  BY PopKeeper, ExecuteKeeper DEF SettledInv
<1>2. UNCHANGED <<hash, calls, outcome>>
  OBVIOUS
<1>3. ASSUME NEW t \in Tasks, Waiting(t)'
      PROVE  Waiting(t)
  <2>1. CASE t \in queue'
    BY <2>1 DEF Waiting
  <2>2. CASE \E q \in Threads : t \in batch'[q]
    BY <2>2 DEF Waiting, SettledInv, KeeperInv, Types
  <2>3. ASSUME NEW q \in Threads, task'[q] = t, at'[q] \in {"load", "requeue"}
        PROVE  Waiting(t)
    <3>1. CASE q # p
      BY <2>3, <3>1 DEF Waiting, SettledInv, KeeperInv, Types
    <3>2. CASE q = p
      <4>1. Take(p) /\ t \in batch[p]
        BY <2>3, <3>2 DEF SettledInv, KeeperInv, Types
      <4> QED
        BY <4>1 DEF Waiting
    <3> QED
      BY <3>1, <3>2
  <2> QED
    BY <1>3, <2>1, <2>2, <2>3 DEF Waiting
<1>4. ASSUME NEW q \in Threads, at'[q] \in Busy
      PROVE  \/ UNCHANGED <<at[q], task[q], copy[q]>>
             \/ at'[q] \in {"load", "requeue"} /\ outcome[task'[q]] = "open"
  <2>1. CASE q # p
    BY <2>1 DEF SettledInv, KeeperInv, Types
  <2>2. CASE q = p
    <3>1. Take(p) /\ at'[p] = "load" /\ task'[p] \in batch[p]
      BY <1>4, <2>2 DEF SettledInv, KeeperInv, Types, Busy
    <3> QED
      BY <3>1, <2>2 DEF SettledInv, SettledNowhere, KeeperInv, Types
  <2> QED
    BY <2>1, <2>2
<1> QED
  BY <1>1, <1>2, <1>3, <1>4, NothingSettles

\* The task a thread executes is in no other place, and the others do not change.
LEMMA ExecuteSettled ==
  ASSUME SettledInv, NEW p \in Threads,
         Load(p) \/ Handle(p) \/ Clean(p) \/ Retry(p) \/ Requeue(p) \/ GiveUp(p)
  PROVE  SettledInv'
<1>1. KeeperInv'
  BY ExecuteKeeper, RequeueKeeper DEF SettledInv
<1>2. PICK t \in Tasks :
      /\ t = task[p]
      /\ t \notin queue
      /\ \A q \in Threads : t \notin batch[q] /\ (task[q] = t => q = p)
  BY DEF Load, Handle, Clean, Retry, Requeue, GiveUp, SettledInv, KeeperInv, Places,
     KeptOnce, Holds, Busy
<1>3. /\ queue' \subseteq queue \union {t}
      /\ \A u \in Tasks : u # t => UNCHANGED <<hash[u], calls[u], outcome[u]>>
      /\ \A q \in Threads : batch'[q] \subseteq batch[q]
      /\ \A q \in Threads : q # p => UNCHANGED <<at[q], task[q], copy[q]>>
      /\ task'[p] \in {t, NoTask}
  BY <1>2
  DEF Load, Handle, Clean, Retry, Requeue, GiveUp, Call, Goto, NextTask, DropBatch,
      redisVars, threadVars, history, SettledInv, KeeperInv, Types
<1>4. t \in queue' => Requeue(p)
  BY <1>2 DEF Load, Handle, Clean, Retry, GiveUp, redisVars
<1>5. at[p] # "clean" => outcome[t] = "open"
  BY <1>2 DEF SettledInv, SettledNowhere
<1>6. outcome'[t] # "open" /\ task'[p] = t => at'[p] = "clean"
  <2> USE DEF Goto, NextTask, DropBatch, SettledInv, KeeperInv, Types
  <2>1. CASE Load(p)
    BY <1>2, <1>5, <2>1 DEF Load
  <2>2. CASE Handle(p)
    BY <1>2, <1>5, <2>2 DEF Handle
  <2>3. CASE Clean(p) \/ Requeue(p) \/ GiveUp(p)
    BY <1>2, <2>3, QueueAssumption DEF Clean, Requeue, GiveUp, Call
  <2>4. CASE Retry(p)
    BY <1>2, <1>5, <2>4 DEF Retry, Call, history
  <2> QED
    BY <2>1, <2>2, <2>3, <2>4
<1>7. SettledNowhere'
  <2> SUFFICES ASSUME NEW u \in Tasks, outcome'[u] # "open"
               PROVE  /\ u \notin queue'
                      /\ \A q \in Threads :
                          /\ u \notin batch'[q]
                          /\ task'[q] = u => at'[q] = "clean"
    BY DEF SettledNowhere
  <2>1. CASE u # t
    BY <1>2, <1>3, <2>1, QueueAssumption DEF SettledInv, SettledNowhere
  <2>2. CASE u = t
    <3>1. t \notin queue'
      BY <1>4, <1>5, <2>2 DEF Requeue, history
    <3> QED
      BY <1>2, <1>3, <1>6, <2>2, <3>1
  <2> QED
    BY <2>1, <2>2
<1>8. \A u \in Tasks : u # t => (Waiting(u)' => Waiting(u))
  BY <1>2, <1>3, QueueAssumption DEF Waiting
<1>9. Waiting(t)' => (Retry(p) /\ at'[p] = "requeue") \/ Requeue(p)
  <2>1. Waiting(t)' => t \in queue' \/ (task'[p] = t /\ at'[p] \in {"load", "requeue"})
    BY <1>2, <1>3 DEF Waiting
  <2>2. task'[p] = t /\ at'[p] \in {"load", "requeue"} => Retry(p) /\ at'[p] = "requeue"
    <3> USE DEF Goto, NextTask, DropBatch, SettledInv, KeeperInv, Types
    <3>1. CASE Load(p)
      BY <1>2, <3>1, QueueAssumption DEF Load
    <3>2. CASE Handle(p)
      BY <3>2 DEF Handle
    <3>3. CASE Clean(p) \/ Requeue(p) \/ GiveUp(p)
      BY <1>2, <3>3, QueueAssumption DEF Clean, Requeue, GiveUp, Call
    <3>4. CASE Retry(p)
      BY <1>2, <3>4, QueueAssumption DEF Retry, Call
    <3> QED
      BY <3>1, <3>2, <3>3, <3>4
  <2> QED
    BY <1>4, <2>1, <2>2
<1>10. /\ Waiting(t)' =>
             /\ hash'[t].status = "live"
             /\ calls'[t] = hash'[t].retries
             /\ hash'[t].retries < MaxRetry
       /\ at'[p] \in {"handle", "retry"} =>
             calls'[t] = copy'[p] + 1 /\ copy'[p] < MaxRetry /\ task'[p] = t
       /\ calls'[t] <= MaxRetry
  <2> USE DEF Goto, NextTask, DropBatch, SettledInv, KeeperInv, Types
  <2>0. calls[t] \in Nat /\ copy[p] \in Nat /\ hash[t].retries \in Nat /\ MaxRetry \in Nat
    BY <1>2, QueueAssumption
  <2>1. CASE Load(p)
    <3>1. calls[t] = hash[t].retries /\ hash[t].retries < MaxRetry
      BY <1>2, <2>1 DEF Load, Waiting, CountsCalls
    <3>2. ~Waiting(t)'
      BY <1>9, <2>1 DEF Load, Retry, Requeue
    <3>3. \/ /\ at'[p] = "handle" /\ task'[p] = t
             /\ copy'[p] = hash[t].retries /\ calls'[t] = calls[t] + 1
          \/ at'[p] \in {"next", "idle"} /\ calls'[t] = calls[t]
      BY <1>2, <2>1 DEF Load
    <3> QED
      BY <2>0, <3>1, <3>2, <3>3
  <2>2. CASE Handle(p)
    <3>1. calls[t] = copy[p] + 1 /\ copy[p] < MaxRetry
      BY <1>2, <2>2 DEF Handle, CountsCalls
    <3>2. ~Waiting(t)' /\ UNCHANGED <<task, copy, calls>>
      BY <1>9, <2>2 DEF Handle, Retry, Requeue
    <3> QED
      BY <1>2, <2>0, <3>1, <3>2
  <2>3. CASE Clean(p) \/ GiveUp(p)
    <3>1. at'[p] \in {"next", "idle"} /\ UNCHANGED calls /\ ~Waiting(t)'
      BY <1>9, <2>3 DEF Clean, GiveUp, Call, history, Retry, Requeue
    <3> QED
      BY <1>2, <3>1 DEF CountsCalls, CallsBounded
  <2>4. CASE Retry(p)
    <3>1. calls[t] = copy[p] + 1 /\ copy[p] < MaxRetry /\ copy[p] + 1 < MaxRetry
      BY <1>2, <2>4 DEF Retry, CountsCalls
    <3>2. UNCHANGED calls
      BY <2>4 DEF Retry, history
    <3>3. at'[p] \in {"requeue", "idle"}
      BY <2>4 DEF Retry, Call
    <3>4. at'[p] = "requeue" => hash'[t].retries = copy[p] + 1 /\ hash'[t].status = "live"
      BY <1>2, <2>4 DEF Retry, Call, Hash
    <3>5. ~Requeue(p)
      BY <2>4 DEF Retry, Requeue
    <3> QED
      BY <1>9, <2>0, <3>1, <3>2, <3>3, <3>4, <3>5
  <2>5. CASE Requeue(p)
    <3>1. /\ hash[t].status = "live"
          /\ calls[t] = hash[t].retries
          /\ hash[t].retries < MaxRetry
      BY <1>2, <2>5 DEF Requeue, Waiting, CountsCalls
    <3>2. UNCHANGED <<calls, hash>> /\ at'[p] \in {"next", "idle"}
      BY <2>5 DEF Requeue, Call, history
    <3> QED
      BY <2>0, <3>1, <3>2
  <2> QED
    BY <2>1, <2>2, <2>3, <2>4, <2>5
<1>11. CountsCalls'
  <2>1. ASSUME NEW u \in Tasks
        PROVE  /\ Waiting(u)' =>
                    /\ hash'[u].status = "live"
                    /\ calls'[u] = hash'[u].retries
                    /\ hash'[u].retries < MaxRetry
               /\ calls'[u] <= MaxRetry
    <3>1. CASE u = t
      BY <1>10, <3>1
    <3>2. CASE u # t
      BY <1>3, <1>8, <3>2 DEF SettledInv, CountsCalls, CallsBounded
    <3> QED
      BY <3>1, <3>2
  <2>2. ASSUME NEW q \in Threads, at'[q] \in {"handle", "retry"}
        PROVE  calls'[task'[q]] = copy'[q] + 1 /\ copy'[q] < MaxRetry
    <3>1. CASE q = p
      BY <1>10, <2>2, <3>1
    <3>2. CASE q # p
      <4>1. UNCHANGED <<at[q], task[q], copy[q]>>
        BY <1>3, <3>2
      <4>2. task[q] \in Tasks /\ task[q] # t
        BY <1>2, <2>2, <3>2, <4>1 DEF SettledInv, KeeperInv, Places, Busy
      <4> QED
        BY <1>3, <2>2, <4>1, <4>2 DEF SettledInv, CountsCalls
    <3> QED
      BY <3>1, <3>2
  <2> QED
    BY <2>1, <2>2 DEF CountsCalls, CallsBounded
<1> QED
  BY <1>1, <1>7, <1>11 DEF SettledInv

LEMMA NextSettledInv == SettledInv /\ [Next]_vars => SettledInv'
<1> SUFFICES ASSUME SettledInv, [Next]_vars PROVE SettledInv'
  OBVIOUS
<1>1. CASE UNCHANGED vars
  <2>1. KeeperInv'
    BY <1>1, NextKeeperInv DEF SettledInv
  <2> QED
    BY <1>1, <2>1
    DEF vars, SettledInv, SettledNowhere, CountsCalls, CallsBounded, Waiting
<1> QED
  BY <1>1, AddSettled, WorkerSettled, BatchSettled, ExecuteSettled DEF Next, ThreadStep

\* A task whose handler has succeeded, or that is given up, is not handled again,
\* and no handler is called more than max_retry times: the retry count that Retry
\* writes before it re-queues the task is the number of its calls.
THEOREM SettledSafety == Spec => []SettledStaysSettled
<1>1. SettledInv => SettledStaysSettled
  BY DEF SettledInv, SettledNowhere, CountsCalls, SettledStaysSettled
<1> QED
  BY <1>1, InitSettledInv, NextSettledInv, PTL DEF Spec


-----------------------------------------------------------------------------
(***************************************************************************)
(* The delay queue implements Delivery                                     *)
(***************************************************************************)

\* Not settled, not queued and in nobody's hands.
Nowhere(t) == outcome[t] = "open" /\ t \notin queue /\ \A p \in Threads : ~Holds(p, t)

Early == {"hset", "expire", "zadd"}

\* What the refinement mapping says of a task, by where it is.
FateTable ==
    \A t \in Tasks :
        /\ outcome[t] # "open" => Fate(t) = outcome[t] /\ KeptBy(t) = {}
        /\ outcome[t] = "open" /\ t \in queue => Fate(t) = "queued" /\ KeptBy(t) = {}
        /\ \A p \in Threads :
            outcome[t] = "open" /\ Holds(p, t) => Fate(t) = "held" /\ KeptBy(t) = {p}
        /\ Nowhere(t) /\ adder[t] \in Early => Fate(t) = "outside" /\ KeptBy(t) = {}
        /\ Nowhere(t) /\ adder[t] \notin Early => Fate(t) = "lost" /\ KeptBy(t) = {}

LEMMA FateIs == KeeperInv => FateTable
<1> SUFFICES ASSUME KeeperInv, NEW t \in Tasks
             PROVE  /\ outcome[t] # "open" => Fate(t) = outcome[t] /\ KeptBy(t) = {}
                    /\ outcome[t] = "open" /\ t \in queue =>
                          Fate(t) = "queued" /\ KeptBy(t) = {}
                    /\ \A p \in Threads :
                          outcome[t] = "open" /\ Holds(p, t) =>
                             Fate(t) = "held" /\ KeptBy(t) = {p}
                    /\ Nowhere(t) /\ adder[t] \in Early =>
                          Fate(t) = "outside" /\ KeptBy(t) = {}
                    /\ Nowhere(t) /\ adder[t] \notin Early =>
                          Fate(t) = "lost" /\ KeptBy(t) = {}
  BY DEF FateTable
<1>1. outcome[t] \in {"open", "done", "failed"}
  BY DEF KeeperInv, Types
<1>2. \A p \in Threads : t \in InHand(p) <=> Holds(p, t)
  BY QueueAssumption DEF InHand, Holds
<1>3. \A p \in Threads : Holds(p, t) => t \notin queue /\ \A q \in Threads : Holds(q, t) => q = p
  BY DEF KeeperInv, KeptOnce
<1>4. ASSUME NEW p \in Threads, outcome[t] = "open", Holds(p, t)
      PROVE  Fate(t) = "held" /\ KeptBy(t) = {p}
  <2>1. Fate(t) = "held"
    BY <1>2, <1>3, <1>4 DEF Fate
  <2>2. {q \in Threads : t \in InHand(q)} = {p}
    BY <1>2, <1>3, <1>4
  <2> QED
    BY <2>1, <2>2 DEF KeptBy
<1> QED
  BY <1>1, <1>2, <1>4 DEF Fate, KeptBy, Nowhere, Early

LEMMA FateIsNext == KeeperInv' => FateTable'
  BY FateIs, PTL

\* A step that leaves a task where it is.
LEMMA Undisturbed ==
  ASSUME NEW t \in Tasks,
         UNCHANGED <<outcome[t], calls[t]>>,
         t \in queue' <=> t \in queue,
         \A p \in Threads : Holds(p, t)' <=> Holds(p, t),
         adder'[t] \in Early <=> adder[t] \in Early
  PROVE  Delivered!Same(t)
<1>1. \A p \in Threads : t \in InHand(p)' <=> t \in InHand(p)
  BY QueueAssumption DEF InHand, Holds
<1>2. Fate(t)' = Fate(t)
  BY <1>1 DEF Fate, Early
<1>3. KeptBy(t)' = KeptBy(t)
  BY <1>1, <1>2 DEF KeptBy
<1> QED
  BY <1>2, <1>3 DEF Delivered!Same

FaultCounts == errors \in Nat /\ crashes \in Nat

LEMMA InitFaultCounts == Init => FaultCounts
  BY DEF Init, FaultCounts

\* A reason to lose a task stays one.
LEMMA ExcusesStay ==
  ASSUME FaultCounts, [Next]_vars
  PROVE  FaultCounts' /\ \A t \in Tasks : Excused(t) => Excused(t)'
<1>1. /\ errors' = errors \/ errors' = errors + 1
      /\ crashes' = crashes \/ crashes' = crashes + 1
      /\ skipped \subseteq skipped'
  <2>1. CASE UNCHANGED vars
    BY <2>1 DEF vars
  <2>2. CASE \E t \in Tasks : AddHset(t) \/ AddExpire(t) \/ AddZadd(t)
    BY <2>2 DEF AddHset, AddExpire, AddZadd, AddStep, Call, Fault, bounds, history
  <2>3. CASE \E w \in Workers : Register(w) \/ StartPolling(w) \/ StopPolling(w) \/ Crash(w)
    BY <2>3 DEF Register, StartPolling, StopPolling, Crash, bounds, history
  <2>4. CASE \E p \in Threads : ThreadStep(p)
    BY <2>4
    DEF ThreadStep, EndThread, Pop, EndBatch, Take, Load, Handle, Clean, Retry, Requeue, GiveUp,
        Call, Fault, bounds, history
  <2> QED
    BY <2>1, <2>2, <2>3, <2>4 DEF Next
<1> QED
  BY <1>1 DEF FaultCounts, Excused

\* What a step is for each task.
Follows == \A t \in Tasks : Delivered!Same(t) \/ Delivered!Step(t)

\* A thread cleans up after a success, and puts back what it has tried.
HandInv ==
    \A p \in Threads :
        /\ at[p] = "clean" => outcome[task[p]] = "done"
        /\ at[p] = "requeue" => calls[task[p]] > 0

LEMMA NextHandInv == SettledInv /\ HandInv /\ [Next]_vars => HandInv'
<1> SUFFICES ASSUME SettledInv, HandInv, [Next]_vars PROVE HandInv'
  OBVIOUS
<1> USE DEF redisVars, threadVars, history
<1>1. CASE UNCHANGED vars
  BY <1>1 DEF vars, HandInv
<1>2. CASE \E t \in Tasks : AddHset(t) \/ AddExpire(t) \/ AddZadd(t)
  BY <1>2 DEF AddHset, AddExpire, AddZadd, AddStep, HandInv
<1>3. CASE \E w \in Workers : Register(w) \/ StartPolling(w) \/ StopPolling(w) \/ Crash(w)
  BY <1>3
  DEF Register, StartPolling, StopPolling, Crash, HandInv, SettledInv, KeeperInv, Types
<1>4. ASSUME NEW p \in Threads, EndThread(p) \/ Pop(p) \/ EndBatch(p) \/ Take(p)
      PROVE  HandInv'
  BY <1>4
  DEF EndThread, Pop, EndBatch, Take, Call, Goto, DropBatch, HandInv, SettledInv, KeeperInv, Types
<1>5. ASSUME NEW p \in Threads,
             Load(p) \/ Handle(p) \/ Clean(p) \/ Retry(p) \/ Requeue(p) \/ GiveUp(p)
      PROVE  HandInv'
  <2>1. /\ task[p] \in Tasks
        /\ \A q \in Threads : q # p => task[q] # task[p] /\ UNCHANGED <<at[q], task[q]>>
        /\ \A t \in Tasks : t # task[p] => UNCHANGED <<calls[t], outcome[t]>>
    <3>1. task[p] \in Tasks
      BY <1>5 DEF Load, Handle, Clean, Retry, Requeue, GiveUp, SettledInv, KeeperInv, Places, Busy
    <3>2. \A q \in Threads : q # p => task[q] # task[p]
      BY <3>1 DEF SettledInv, KeeperInv, KeptOnce, Holds
    <3>3. \A q \in Threads : q # p => UNCHANGED <<at[q], task[q]>>
      BY <1>5
      DEF Load, Handle, Clean, Retry, Requeue, GiveUp, Call, Goto, NextTask, DropBatch,
          SettledInv, KeeperInv, Types
    <3>4. \A t \in Tasks : t # task[p] => UNCHANGED <<calls[t], outcome[t]>>
      BY <1>5 DEF Load, Handle, Clean, Retry, Requeue, GiveUp, SettledInv, KeeperInv, Types
    <3> QED
      BY <3>1, <3>2, <3>3, <3>4
  <2>2. ASSUME NEW q \in Threads, q # p
        PROVE  /\ at'[q] = "clean" => outcome'[task'[q]] = "done"
               /\ at'[q] = "requeue" => calls'[task'[q]] > 0
    <3>1. at[q] \in Busy => task[q] \in Tasks
      BY DEF SettledInv, KeeperInv, Places
    <3> QED
      BY <2>1, <2>2, <3>1 DEF HandInv, Busy
  <2>3. /\ at'[p] = "clean" => outcome'[task'[p]] = "done"
        /\ at'[p] = "requeue" => calls'[task'[p]] > 0
    <3> USE DEF SettledInv, KeeperInv, Types
    <3>1. CASE Handle(p)
      BY <2>1, <3>1 DEF Handle, Goto
    <3>2. CASE Retry(p)
      <4>1. calls[task[p]] = copy[p] + 1 /\ copy[p] \in Nat
        BY <3>2 DEF Retry, CountsCalls
      <4>2. at'[p] \in {"requeue", "idle"} /\ (at'[p] = "requeue" => UNCHANGED <<task, calls>>)
        BY <3>2 DEF Retry, Call, Goto, DropBatch
      <4> QED
        BY <4>1, <4>2
    <3>3. CASE Load(p) \/ Clean(p) \/ Requeue(p) \/ GiveUp(p)
      <4>1. at'[p] \notin {"clean", "requeue"}
        BY <3>3 DEF Load, Clean, Requeue, GiveUp, Call, Goto, NextTask, DropBatch
      <4> QED
        BY <4>1
    <3> QED
      BY <1>5, <3>1, <3>2, <3>3
  <2> QED
    BY <2>2, <2>3 DEF HandInv
<1> QED
  BY <1>1, <1>2, <1>3, <1>4, <1>5 DEF Next, ThreadStep

DeliveryInv == SettledInv /\ HandInv /\ FaultCounts

LEMMA NextDeliveryInv == DeliveryInv /\ [Next]_vars => DeliveryInv'
  BY NextSettledInv, NextHandInv, ExcusesStay DEF DeliveryInv

LEMMA InitDeliveryInv == Init => DeliveryInv
  BY InitSettledInv DEF Init, DeliveryInv, HandInv, FaultCounts

LEMMA InitDelivery == Init => Delivered!Init
<1> SUFFICES ASSUME Init PROVE Delivered!Init
  OBVIOUS
<1>1. KeeperInv /\ FateTable
  BY InitKeeperInv, FateIs
<1>2. ASSUME NEW t \in Tasks
      PROVE  Fate(t) = "outside" /\ KeptBy(t) = {}
  BY <1>1, QueueAssumption DEF FateTable, Init, Nowhere, Holds, Early
<1>3. {t \in Tasks : Excused(t)} = {}
  BY DEF Init, Excused
<1> QED
  BY <1>2, <1>3 DEF Init, Delivered!Init

\* From nowhere into the queue, or refused.
LEMMA AddDelivers ==
  ASSUME DeliveryInv, DeliveryInv', NEW t \in Tasks,
         AddHset(t) \/ AddExpire(t) \/ AddZadd(t)
  PROVE  Follows
<1> USE DEF AddStep, Call, redisVars, threadVars, history
<1>1. FateTable /\ FateTable'
  BY FateIs, FateIsNext DEF DeliveryInv, SettledInv
<1>2. /\ UNCHANGED <<at, batch, task, calls, outcome>>
      /\ queue' \subseteq queue \union {t}
      /\ queue \subseteq queue'
      /\ \A u \in Tasks : u # t => UNCHANGED adder[u]
      /\ adder[t] \in Early
  BY DEF AddHset, AddExpire, AddZadd, Early, DeliveryInv, SettledInv, KeeperInv, Types
<1>3. \A p \in Threads : \A u \in Tasks : Holds(p, u)' <=> Holds(p, u)
  BY <1>2 DEF Holds
<1>4. Nowhere(t)
  BY <1>2 DEF Nowhere, Early, DeliveryInv, SettledInv, KeeperInv, Unseen
<1>5. Fate(t) = "outside" /\ KeptBy(t) = {}
  BY <1>1, <1>2, <1>4 DEF FateTable
<1>6. ASSUME NEW u \in Tasks, u # t
      PROVE  Delivered!Same(u)
  BY <1>2, <1>3, <1>6, Undisturbed
<1>7. CASE t \in queue'
  <2>1. Fate(t)' = "queued" /\ KeptBy(t)' = {}
    BY <1>1, <1>2, <1>4, <1>7 DEF FateTable, Nowhere
  <2>2. Delivered!Offer(t)
    BY <1>2, <1>5, <2>1 DEF Delivered!Offer, Delivered!Goes
  <2> QED
    BY <1>6, <2>2 DEF Follows, Delivered!Step
<1>8. CASE t \notin queue' /\ adder'[t] \in Early
  <2>1. Delivered!Same(t)
    BY <1>2, <1>3, <1>4, <1>8, Undisturbed DEF Nowhere
  <2> QED
    BY <1>6, <2>1 DEF Follows
<1>9. CASE t \notin queue' /\ adder'[t] \notin Early
  <2>1. Nowhere(t)'
    BY <1>2, <1>3, <1>4, <1>9 DEF Nowhere
  <2>2. Fate(t)' = "lost" /\ KeptBy(t)' = {}
    BY <1>1, <1>9, <2>1 DEF FateTable
  <2>3. errors' = errors + 1
    BY <1>9 DEF AddHset, AddExpire, AddZadd, Early, Fault, DeliveryInv, SettledInv, KeeperInv, Types
  <2>4. Excused(t)'
    BY <2>3 DEF Excused, DeliveryInv, FaultCounts
  <2>5. Delivered!Lose(t)
    BY <1>2, <1>5, <2>2, <2>4 DEF Delivered!Lose, Delivered!Goes
  <2> QED
    BY <1>6, <2>5 DEF Follows, Delivered!Step
<1> QED
  BY <1>7, <1>8, <1>9

\* Only a death takes tasks out of hands.
LEMMA WorkerDelivers ==
  ASSUME DeliveryInv, DeliveryInv', NEW w \in Workers,
         Register(w) \/ StartPolling(w) \/ StopPolling(w) \/ Crash(w)
  PROVE  Follows
<1> USE DEF redisVars, threadVars, history
<1>1. FateTable /\ FateTable'
  BY FateIs, FateIsNext DEF DeliveryInv, SettledInv
<1>2. UNCHANGED <<queue, adder, calls, outcome>>
  BY DEF Register, StartPolling, StopPolling, Crash
<1>3. CASE Crash(w)
  <2>1. \A p \in Threads : \A t \in Tasks : Holds(p, t)' => Holds(p, t)
    BY <1>3, QueueAssumption DEF Holds, Crash
  <2>2. \A t \in Tasks : Excused(t)'
    BY <1>3 DEF Crash, Excused, DeliveryInv, FaultCounts
  <2>3. ASSUME NEW t \in Tasks
        PROVE  Delivered!Same(t) \/ Delivered!Lose(t)
    <3>1. CASE \A p \in Threads : Holds(p, t)' <=> Holds(p, t)
      BY <1>2, <3>1, Undisturbed
    <3>2. CASE outcome[t] # "open"
      BY <1>1, <1>2, <3>2 DEF FateTable, Delivered!Same
    <3>3. ASSUME NEW p \in Threads, Holds(p, t), ~Holds(p, t)', outcome[t] = "open"
          PROVE  Delivered!Lose(t)
      <4>1. Fate(t) = "held" /\ adder[t] \notin Early
        BY <1>1, <3>3 DEF FateTable, DeliveryInv, SettledInv, KeeperInv, Unseen, Early
      <4>2. Nowhere(t)'
        BY <1>2, <2>1, <3>3
        DEF Nowhere, DeliveryInv, SettledInv, KeeperInv, KeptOnce
      <4>3. Fate(t)' = "lost" /\ KeptBy(t)' = {}
        BY <1>1, <1>2, <4>1, <4>2 DEF FateTable
      <4> QED
        BY <1>2, <2>2, <4>1, <4>3 DEF Delivered!Lose, Delivered!Goes
    <3> QED
      BY <2>1, <3>1, <3>2, <3>3
  <2> QED
    BY <2>3 DEF Follows, Delivered!Step
<1>4. CASE ~Crash(w)
  <2>1. UNCHANGED <<batch, task>>
    BY <1>4 DEF Register, StartPolling, StopPolling
  <2>2. \A p \in Threads : \A t \in Tasks : Holds(p, t)' <=> Holds(p, t)
    BY <2>1 DEF Holds
  <2> QED
    BY <1>2, <2>2, Undisturbed DEF Follows
<1> QED
  BY <1>3, <1>4

\* The script hands the popped tasks to the thread, or its reply is lost and they
\* are.
LEMMA PopDelivers ==
  ASSUME DeliveryInv, DeliveryInv', NEW p \in Threads, Pop(p)
  PROVE  Follows
<1> USE DEF history
<1>1. FateTable /\ FateTable'
  BY FateIs, FateIsNext DEF DeliveryInv, SettledInv
<1>2. /\ UNCHANGED <<adder, calls, outcome, task>>
      /\ queue' \subseteq queue
      /\ \A q \in Threads : q # p => UNCHANGED batch[q]
      /\ batch[p] = {}
  BY DEF Pop, Call, Goto, DeliveryInv, SettledInv, KeeperInv, Places, Types
<1>3. \/ batch'[p] = queue \ queue'
      \/ batch'[p] = {} /\ errors' = errors + 1
      \/ batch'[p] = {} /\ UNCHANGED queue
  BY <1>2 DEF Pop, Call, Fault, DeliveryInv, SettledInv, KeeperInv, Types
<1>4. ASSUME NEW t \in Tasks, t \notin queue \/ t \in queue'
      PROVE  Delivered!Same(t)
  <2>1. t \in queue' <=> t \in queue
    BY <1>2, <1>4
  <2>2. \A q \in Threads : t \in batch'[q] <=> t \in batch[q]
    BY <1>2, <1>3, <1>4
  <2> QED
    BY <1>2, <2>1, <2>2, Undisturbed DEF Holds
<1>5. ASSUME NEW t \in Tasks, t \in queue, t \notin queue'
      PROVE  Delivered!Take(t) \/ Delivered!Lose(t)
  <2>1. outcome[t] = "open" /\ Fate(t) = "queued" /\ adder[t] \notin Early
    BY <1>1, <1>5
    DEF FateTable, DeliveryInv, SettledInv, SettledNowhere, KeeperInv, Unseen, Early
  <2>2. \A q \in Threads : ~Holds(q, t)
    BY <1>5 DEF DeliveryInv, SettledInv, KeeperInv, KeptOnce
  <2>3. CASE t \in batch'[p]
    <3>1. Fate(t)' = "held" /\ KeptBy(t)' = {p}
      BY <1>1, <1>2, <2>1, <2>3 DEF FateTable, Holds
    <3> QED
      BY <1>2, <2>1, <3>1 DEF Delivered!Take, Delivered!Goes
  <2>4. CASE t \notin batch'[p]
    <3>1. Nowhere(t)'
      BY <1>2, <1>5, <2>1, <2>2, <2>4 DEF Nowhere, Holds
    <3>2. Fate(t)' = "lost" /\ KeptBy(t)' = {}
      BY <1>1, <1>2, <2>1, <3>1 DEF FateTable
    <3>3. Excused(t)'
      BY <1>3, <1>5, <2>4 DEF Excused, DeliveryInv, FaultCounts
    <3> QED
      BY <1>2, <2>1, <3>2, <3>3 DEF Delivered!Lose, Delivered!Goes
  <2> QED
    BY <2>3, <2>4
<1> QED
  BY <1>4, <1>5 DEF Follows, Delivered!Step

\* A thread drops tasks only when a call has failed.
LEMMA BatchDelivers ==
  ASSUME DeliveryInv, DeliveryInv', NEW p \in Threads,
         EndThread(p) \/ EndBatch(p) \/ Take(p)
  PROVE  Follows
<1> USE DEF redisVars, threadVars, history
<1>1. FateTable /\ FateTable'
  BY FateIs, FateIsNext DEF DeliveryInv, SettledInv
<1>2. /\ UNCHANGED <<queue, adder, calls, outcome>>
      /\ \A q \in Threads : q # p => UNCHANGED <<batch[q], task[q]>>
  BY DEF EndThread, EndBatch, Take, DropBatch, Goto, DeliveryInv, SettledInv, KeeperInv, Types
<1>3. \A t \in Tasks : Holds(p, t)' => Holds(p, t)
  BY QueueAssumption
  DEF Holds, EndThread, EndBatch, Take, DropBatch, Goto, DeliveryInv, SettledInv, KeeperInv, Types
<1>4. \A t \in Tasks : Holds(p, t) /\ ~Holds(p, t)' => errors' = errors + 1
  <2>1. CASE EndThread(p) \/ EndBatch(p)
    BY <2>1 DEF Holds, EndThread, EndBatch
  <2>2. CASE Take(p)
    <3>1. task[p] = NoTask
      BY <2>2 DEF Take, DeliveryInv, SettledInv, KeeperInv, Places, Busy
    <3> QED
      BY <2>2, <3>1, QueueAssumption
      DEF Holds, Take, Goto, Fault, DeliveryInv, SettledInv, KeeperInv, Types
  <2> QED
    BY <2>1, <2>2
<1>5. ASSUME NEW t \in Tasks
      PROVE  Delivered!Same(t) \/ Delivered!Lose(t)
  <2>1. CASE Holds(p, t)' <=> Holds(p, t)
    BY <1>2, <2>1, Undisturbed DEF Holds
  <2>2. ASSUME Holds(p, t), ~Holds(p, t)'
        PROVE  Delivered!Lose(t)
    <3>1. outcome[t] = "open"
      BY <2>2 DEF Holds, EndThread, EndBatch, Take, DeliveryInv, SettledInv, SettledNowhere,
         KeeperInv, Places
    <3>2. Fate(t) = "held" /\ adder[t] \notin Early
      BY <1>1, <2>2, <3>1 DEF FateTable, DeliveryInv, SettledInv, KeeperInv, Unseen, Early
    <3>3. Nowhere(t)'
      <4>1. t \notin queue /\ \A q \in Threads : q # p => ~Holds(q, t)
        BY <2>2 DEF DeliveryInv, SettledInv, KeeperInv, KeptOnce
      <4> QED
        BY <1>2, <2>2, <3>1, <4>1 DEF Nowhere, Holds
    <3>4. Fate(t)' = "lost" /\ KeptBy(t)' = {}
      BY <1>1, <1>2, <3>2, <3>3 DEF FateTable
    <3>5. Excused(t)'
      BY <1>4, <2>2 DEF Excused, DeliveryInv, FaultCounts
    <3> QED
      BY <1>2, <3>2, <3>4, <3>5 DEF Delivered!Lose, Delivered!Goes
  <2> QED
    BY <1>3, <2>1, <2>2
<1> QED
  BY <1>5 DEF Follows, Delivered!Step

\* The task in hand is tried, settled, put back or lost, and the rest of the batch
\* is lost when a call has failed.
LEMMA ExecuteDelivers ==
  ASSUME DeliveryInv, DeliveryInv', NEW p \in Threads,
         Load(p) \/ Handle(p) \/ Clean(p) \/ Retry(p) \/ Requeue(p) \/ GiveUp(p)
  PROVE  Follows
<1> USE DEF redisVars, threadVars, history
<1>1. FateTable /\ FateTable'
  BY FateIs, FateIsNext DEF DeliveryInv, SettledInv
<1>2. PICK t \in Tasks :
      /\ t = task[p]
      /\ t \notin queue /\ t \notin batch[p]
      /\ \A q \in Threads : q # p => ~Holds(q, t)
      /\ adder[t] \notin Early
  <2>1. task[p] \in Tasks /\ task[p] \notin batch[p]
    BY DEF Load, Handle, Clean, Retry, Requeue, GiveUp, DeliveryInv, SettledInv, KeeperInv,
       Places, Busy
  <2>2. Holds(p, task[p])
    BY DEF Holds
  <2> QED
    BY <2>1, <2>2 DEF DeliveryInv, SettledInv, KeeperInv, KeptOnce, Unseen, Early
<1>3. /\ UNCHANGED adder
      /\ \A u \in Tasks : u # t =>
            UNCHANGED <<calls[u], outcome[u]>> /\ (u \in queue' <=> u \in queue)
      /\ \A q \in Threads : q # p => UNCHANGED <<batch[q], task[q]>>
      /\ \/ UNCHANGED batch[p]
         \/ batch'[p] = {} /\ errors' = errors + 1
      /\ task'[p] \in {t, NoTask}
  BY <1>2
  DEF Load, Handle, Clean, Retry, Requeue, GiveUp, Call, Fault, Goto, NextTask, DropBatch,
      DeliveryInv, SettledInv, KeeperInv, Types
<1>4. ASSUME NEW u \in Tasks, u # t
      PROVE  Delivered!Same(u) \/ Delivered!Lose(u)
  <2>1. Holds(p, u) <=> u \in batch[p]
    BY <1>2, <1>4 DEF Holds
  <2>2. Holds(p, u)' <=> u \in batch'[p]
    BY <1>3, <1>4, QueueAssumption DEF Holds
  <2>3. CASE u \in batch'[p] <=> u \in batch[p]
    BY <1>3, <1>4, <2>1, <2>2, <2>3, Undisturbed DEF Holds
  <2>4. CASE u \in batch[p] /\ batch'[p] = {} /\ errors' = errors + 1
    <3>1. outcome[u] = "open" /\ u \notin queue /\ adder[u] \notin Early
      BY <2>1, <2>4
      DEF DeliveryInv, SettledInv, SettledNowhere, KeeperInv, KeptOnce, Unseen, Early
    <3>2. Fate(u) = "held"
      BY <1>1, <2>1, <2>4, <3>1 DEF FateTable
    <3>3. Nowhere(u)'
      <4>1. \A q \in Threads : q # p => ~Holds(q, u)
        BY <2>1, <2>4 DEF DeliveryInv, SettledInv, KeeperInv, KeptOnce
      <4> QED
        BY <1>3, <1>4, <2>2, <2>4, <3>1, <4>1 DEF Nowhere, Holds
    <3>4. Fate(u)' = "lost" /\ KeptBy(u)' = {}
      BY <1>1, <1>3, <3>1, <3>3 DEF FateTable
    <3>5. Excused(u)'
      BY <2>4 DEF Excused, DeliveryInv, FaultCounts
    <3> QED
      BY <1>3, <1>4, <3>2, <3>4, <3>5 DEF Delivered!Lose, Delivered!Goes
  <2> QED
    BY <1>3, <2>3, <2>4
<1>5. outcome[t] = "open" => Fate(t) = "held" /\ KeptBy(t) = {p}
  BY <1>1, <1>2 DEF FateTable, Holds
<1>6. outcome'[t] # "open" => Fate(t)' = outcome'[t] /\ KeptBy(t)' = {}
  BY <1>1, <1>2 DEF FateTable
<1>7. outcome'[t] = "open" /\ task'[p] = t => Fate(t)' = "held" /\ KeptBy(t)' = {p}
  BY <1>1, <1>2 DEF FateTable, Holds
<1>8. outcome'[t] = "open" /\ t \in queue' => Fate(t)' = "queued" /\ KeptBy(t)' = {}
  BY <1>1, <1>2 DEF FateTable
<1>9. outcome'[t] = "open" /\ t \notin queue' /\ task'[p] = NoTask
        => Fate(t)' = "lost" /\ KeptBy(t)' = {}
  <2> SUFFICES ASSUME outcome'[t] = "open", t \notin queue', task'[p] = NoTask
               PROVE  Nowhere(t)'
    BY <1>1, <1>2, <1>3 DEF FateTable
  <2>1. \A q \in Threads : ~Holds(q, t)'
    BY <1>2, <1>3, QueueAssumption DEF Holds
  <2> QED
    BY <2>1 DEF Nowhere
<1>10. at[p] # "clean" => outcome[t] = "open"
  BY <1>2 DEF DeliveryInv, SettledInv, SettledNowhere
<1>11. calls[t] \in Nat /\ copy[p] \in Nat /\ MaxRetry \in Nat /\ errors \in Nat
  BY <1>2, QueueAssumption DEF DeliveryInv, FaultCounts, SettledInv, KeeperInv, Types
<1>12. errors' = errors + 1 \/ t \in skipped' => Excused(t)'
  BY <1>11 DEF Excused
<1>13. ASSUME outcome[t] = "open", outcome'[t] = "open", UNCHANGED calls, t \notin queue',
              task'[p] = NoTask, Excused(t)'
       PROVE  Delivered!Lose(t)
  BY <1>2, <1>5, <1>9, <1>13 DEF Delivered!Lose, Delivered!Goes
<1>14. Delivered!Same(t) \/ Delivered!Step(t)
  <2> USE DEF DeliveryInv, SettledInv, KeeperInv, Types
  <2>1. CASE Load(p)
    <3>1. Waiting(t)
      BY <1>2, <2>1 DEF Load, Waiting
    <3>2. hash[t].status = "live" /\ calls[t] < MaxRetry
      BY <1>2, <3>1 DEF CountsCalls
    <3>3. UNCHANGED <<queue, outcome>> /\ outcome[t] = "open"
      BY <1>10, <2>1 DEF Load
    <3>4. CASE at'[p] = "handle"
      <4>1. calls'[t] = calls[t] + 1 /\ UNCHANGED task
        BY <1>2, <2>1, <3>4 DEF Load, Goto, NextTask, DropBatch
      <4>2. Fate(t)' = "held" /\ KeptBy(t)' = {p}
        BY <1>2, <1>7, <3>3, <4>1
      <4> QED
        BY <1>2, <1>5, <3>2, <3>3, <4>1, <4>2 DEF Delivered!Attempt, Delivered!Step
    <3>5. CASE at'[p] # "handle"
      <4>1. UNCHANGED calls /\ task'[p] = NoTask /\ (errors' = errors + 1 \/ t \in skipped')
        BY <1>2, <2>1, <3>2, <3>5 DEF Load, Goto, NextTask, DropBatch, Fault
      <4> QED
        BY <1>2, <1>12, <1>13, <3>3, <4>1 DEF Delivered!Step
    <3> QED
      BY <3>4, <3>5
  <2>2. CASE Handle(p)
    <3>1. calls[t] = copy[p] + 1
      BY <1>2, <2>2 DEF Handle, CountsCalls
    <3>2. UNCHANGED <<queue, task, batch, calls>> /\ outcome[t] = "open"
      BY <1>10, <2>2 DEF Handle
    <3>3. CASE outcome'[t] = "done"
      BY <1>2, <1>5, <1>6, <1>11, <3>1, <3>2, <3>3
      DEF Delivered!Finish, Delivered!Goes, Delivered!Step
    <3>4. CASE UNCHANGED outcome
      BY <1>2, <1>5, <1>7, <3>2, <3>4 DEF Delivered!Same
    <3> QED
      BY <1>2, <2>2, <3>3, <3>4 DEF Handle
  <2>3. CASE Clean(p)
    <3>1. outcome[t] # "open" /\ UNCHANGED <<outcome, calls>>
      BY <1>2, <2>3 DEF Clean, HandInv
    <3> QED
      BY <1>1, <1>2, <1>6, <3>1 DEF FateTable, Delivered!Same
  <2>4. CASE Retry(p)
    <3>1. UNCHANGED <<queue, outcome, calls>> /\ outcome[t] = "open"
      BY <1>10, <2>4 DEF Retry
    <3>2. CASE UNCHANGED task
      BY <1>2, <1>5, <1>7, <3>1, <3>2 DEF Delivered!Same
    <3>3. CASE task'[p] = NoTask /\ errors' = errors + 1
      BY <1>2, <1>12, <1>13, <3>1, <3>3 DEF Delivered!Step
    <3> QED
      BY <2>4, <3>2, <3>3 DEF Retry, Call, Fault, DropBatch
  <2>5. CASE Requeue(p)
    <3>1. /\ UNCHANGED <<outcome, calls>> /\ outcome[t] = "open"
          /\ calls[t] > 0 /\ calls[t] < MaxRetry
      BY <1>2, <1>10, <2>5 DEF Requeue, HandInv, CountsCalls, Waiting
    <3>2. CASE t \in queue'
      <4>1. calls[t] \in 1 .. (MaxRetry - 1)
        BY <1>11, <3>1
      <4> QED
        BY <1>2, <1>5, <1>8, <3>1, <3>2, <4>1
        DEF Delivered!PutBack, Delivered!Goes, Delivered!Step
    <3>3. CASE t \notin queue'
      <4>1. task'[p] = NoTask /\ errors' = errors + 1
        BY <1>2, <2>5, <3>3 DEF Requeue, Call, Fault, DropBatch
      <4> QED
        BY <1>2, <1>12, <1>13, <3>1, <3>3, <4>1 DEF Delivered!Step
    <3> QED
      BY <3>2, <3>3
  <2>6. CASE GiveUp(p)
    <3>1. calls[t] = copy[p] + 1 /\ copy[p] < MaxRetry /\ copy[p] + 1 >= MaxRetry
      BY <1>2, <2>6 DEF GiveUp, CountsCalls
    <3>2. calls[t] = MaxRetry
      BY <1>11, <3>1
    <3>3. UNCHANGED calls /\ outcome[t] = "open" /\ outcome'[t] = "failed"
      BY <1>2, <1>10, <2>6 DEF GiveUp
    <3> QED
      BY <1>2, <1>5, <1>6, <3>2, <3>3 DEF Delivered!GiveUp, Delivered!Goes, Delivered!Step
  <2> QED
    BY <2>1, <2>2, <2>3, <2>4, <2>5, <2>6
<1> QED
  BY <1>4, <1>14 DEF Follows, Delivered!Step

LEMMA NextDelivers ==
  ASSUME DeliveryInv, DeliveryInv', [Next]_vars
  PROVE  [Delivered!Next]_(Delivered!deliveryVars)
<1>1. CASE UNCHANGED vars
  BY <1>1
  DEF vars, Delivered!deliveryVars, Fate, KeptBy, InHand, Excused
<1>2. CASE Next
  <2>1. Follows
    BY <1>2, AddDelivers, WorkerDelivers, PopDelivers, BatchDelivers, ExecuteDelivers
    DEF Next, ThreadStep
  <2>2. FateTable'
    BY FateIsNext DEF DeliveryInv, SettledInv
  <2>3. \A t \in Tasks :
          /\ Fate(t)' \in {"outside", "queued", "held", "done", "failed", "lost"}
          /\ KeptBy(t)' \in SUBSET Threads
    <3> SUFFICES ASSUME NEW t \in Tasks
                 PROVE  /\ Fate(t)' \in {"outside", "queued", "held", "done", "failed", "lost"}
                        /\ KeptBy(t)' \in SUBSET Threads
      OBVIOUS
    <3>1. outcome'[t] \in {"open", "done", "failed"}
      BY DEF DeliveryInv, SettledInv, KeeperInv, Types
    <3> QED
      BY <3>1 DEF Fate, KeptBy
  <2>4. calls' \in [Tasks -> 0 .. MaxRetry]
    BY QueueAssumption
    DEF DeliveryInv, SettledInv, KeeperInv, Types, CountsCalls, CallsBounded
  <2>5. {t \in Tasks : Excused(t)} \subseteq {t \in Tasks : Excused(t)'}
    BY <1>2, ExcusesStay DEF DeliveryInv
  <2>6. Delivered!Next
    BY <2>1, <2>3, <2>4, <2>5 DEF Delivered!Next, Follows
  <2> QED
    BY <2>6
<1> QED
  BY <1>1, <1>2

\* The delay queue implements Delivery, for any number of tasks, workers, threads and
\* tries and whatever fails: a task is handled by the thread that popped it
\* and by no other, given up after exactly max_retry calls, and lost only when it
\* was skipped, a Redis call failed or a worker died.
THEOREM DeliveryRefinement == Spec => ImplementsDelivery
<1>1. Init => DeliveryInv /\ Delivered!Init
  BY InitDeliveryInv, InitDelivery
<1>2. DeliveryInv /\ DeliveryInv' /\ [Next]_vars => [Delivered!Next]_(Delivered!deliveryVars)
  BY NextDelivers
<1> QED
  BY <1>1, <1>2, NextDeliveryInv, PTL DEF Spec, ImplementsDelivery, Delivered!Spec

=============================================================================
