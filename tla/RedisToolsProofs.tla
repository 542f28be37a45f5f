-------------------------- MODULE RedisToolsProofs --------------------------
(***************************************************************************)
(* Proofs about the modules under core/ that build on Redis and do not use *)
(* each other, each from the specification of its own module.              *)
(***************************************************************************)
EXTENDS ReadThrough, DeadLetters, SharedLock, Connection, Batches, RedisCalls, DistributedId,
        Idempotency, Bloom, RateLimiter, FiniteSetTheorems, SequenceTheorems, TLAPS

-----------------------------------------------------------------------------
(***************************************************************************)
(* ReadThrough: for any number of readers, writers and polls and any bound *)
(* on updates and failures, when two readers may load at once, and when a  *)
(* stale value may be cached.                                              *)
(***************************************************************************)

Processes == Readers \union Writers

CachePlaces == {"idle", "locking", "waiting", "loading", "storing", "unlocking", "evicting"}

CacheTypes ==
    /\ row \in Nat
    /\ result \in [Readers -> Nat]
    /\ failures \in Nat
    /\ overdue \in BOOLEAN
    /\ crossed \in BOOLEAN
    /\ mutex \in BOOLEAN
    /\ stage \in [Processes -> CachePlaces]

Works(r) == stage[r] \in {"loading", "storing", "unlocking"}

\* Who works has the mutex, although it does not say whose it is.
MutexMeansOne ==
    \A r \in Readers : Works(r) /\ ~overdue /\ failures = 0 =>
        /\ mutex
        /\ \A s \in Readers : Works(s) => s = r

\* What a reader is about to store, and what is cached without a writer who is
\* about to evict it, is the row.
FreshUntilCrossed ==
    ~crossed /\ failures = 0 =>
        /\ \A r \in Readers : stage[r] = "storing" => result[r] = row
        /\ cached \in {Nothing, row} \/ \E w \in Writers : stage[w] = "evicting"

CacheInv == CacheTypes /\ MutexMeansOne /\ FreshUntilCrossed

LEMMA InitCacheInv == CacheInit => CacheInv
<1> SUFFICES ASSUME CacheInit PROVE CacheInv
  OBVIOUS
<1>1. CacheTypes
  BY DEF CacheInit, CacheTypes, Processes, CachePlaces
<1>2. MutexMeansOne
  BY DEF CacheInit, MutexMeansOne, Works
<1>3. FreshUntilCrossed
  BY DEF CacheInit, FreshUntilCrossed
<1> QED
  BY <1>1, <1>2, <1>3 DEF CacheInv

-----------------------------------------------------------------------------
(***************************************************************************)
(* One step of a reader, of a writer, of the clock                         *)
(***************************************************************************)

\* Whatever happens, failures are not undone, and overdue and crossed stay set.
NothingForgotten ==
    /\ failures' = 0 => failures = 0
    /\ overdue => overdue'
    /\ crossed => crossed'

LEMMA ReaderKeeps ==
  ASSUME CacheInv, NEW r \in Readers, Look(r) \/ ReaderStep(r)
  PROVE  CacheInv'
<1> USE DEF ReaderStep, Look, TakeMutex, Poll, StopWaiting, Load, LoadRaises, Store, Unlock,
        Failure, Proceed, Stay, cacheVars, readVars, cacheHistory
<1>1. CacheTypes' /\ NothingForgotten
  <2>1. /\ failures' \in Nat /\ (failures' = 0 => failures = 0)
        /\ overdue' \in BOOLEAN /\ (overdue => overdue')
        /\ UNCHANGED crossed
    <3>1. failures \in Nat /\ overdue \in BOOLEAN
      BY DEF CacheInv, CacheTypes
    <3>2. failures' = failures \/ failures' = failures + 1
      OBVIOUS
    <3>3. UNCHANGED crossed /\ (overdue' = overdue \/ overdue' = TRUE)
      OBVIOUS
    <3>4. failures' \in Nat /\ (failures' = 0 => failures = 0)
      BY <3>1, <3>2
    <3>5. overdue' \in BOOLEAN /\ (overdue => overdue')
      BY <3>1, <3>3
    <3> QED
      BY <3>3, <3>4, <3>5
  <2>2. mutex' \in BOOLEAN
    BY DEF CacheInv, CacheTypes
  <2>3. PICK place \in CachePlaces : stage' = [stage EXCEPT ![r] = place]
    <3>1. stage = [stage EXCEPT ![r] = stage[r]] /\ stage[r] \in CachePlaces
      BY DEF CacheInv, CacheTypes, Processes
    <3> QED
      BY <3>1 DEF CachePlaces
  <2>4. UNCHANGED row /\ result' \in [Readers -> Nat]
    BY DEF CacheInv, CacheTypes
  <2> QED
    BY <2>1, <2>2, <2>3, <2>4 DEF CacheInv, CacheTypes, NothingForgotten
<1>2. \A s \in Processes : s # r => UNCHANGED stage[s]
  BY DEF CacheInv, CacheTypes, Processes
<1>3. \A s \in Readers : s # r => UNCHANGED result[s]
  BY DEF CacheInv, CacheTypes
<1>4. MutexMeansOne'
  <2> SUFFICES ASSUME NEW s \in Readers, Works(s)', ~overdue', failures' = 0
               PROVE  mutex' /\ \A q \in Readers : Works(q)' => q = s
    BY DEF MutexMeansOne
  <2>1. ~overdue /\ failures = 0
    BY <1>1 DEF NothingForgotten
  <2>2. Works(r)' /\ ~Works(r) => ~mutex /\ mutex'
    BY <2>1, <1>1 DEF CacheInv, CacheTypes, Processes, Works
  <2>3. mutex' = mutex \/ ~mutex \/ (Works(r) /\ ~Works(r)')
    BY <2>1, <1>1 DEF CacheInv, CacheTypes, Processes, Works
  <2> QED
    BY <1>2, <2>1, <2>2, <2>3 DEF CacheInv, CacheTypes, Processes, MutexMeansOne, Works
<1>5. FreshUntilCrossed'
  <2> SUFFICES ASSUME ~crossed', failures' = 0
               PROVE  FreshUntilCrossed'
    BY DEF FreshUntilCrossed
  <2>1. ~crossed /\ failures = 0 /\ UNCHANGED row
    BY <1>1 DEF NothingForgotten
  <2>2. stage'[r] = "storing" => result'[r] = row
    BY <2>1 DEF CacheInv, CacheTypes, Processes, FreshUntilCrossed
  <2>3. cached' \in {cached, row}
    BY <2>1 DEF CacheInv, CacheTypes, FreshUntilCrossed
  <2>4. \A w \in Writers : stage[w] = "evicting" => stage'[w] = "evicting"
    <3>1. stage[r] # "evicting"
      OBVIOUS
    <3> QED
      BY <1>2, <3>1 DEF Processes
  <2> QED
    BY <1>2, <1>3, <2>1, <2>2, <2>3, <2>4 DEF Processes, CacheInv, FreshUntilCrossed
<1> QED
  BY <1>1, <1>4, <1>5 DEF CacheInv

LEMMA WriterKeeps ==
  ASSUME CacheInv, NEW w \in Writers, Update(w) \/ Evict(w)
  PROVE  CacheInv'
<1> USE DEF Update, Evict, Failure, Proceed, Stay, cacheVars, cacheHistory
<1>1. CacheTypes' /\ NothingForgotten
  <2>1. stage' \in [Processes -> CachePlaces]
    BY DEF CacheInv, CacheTypes, Processes, CachePlaces
  <2>2. failures' \in Nat /\ (failures' = 0 => failures = 0) /\ UNCHANGED overdue
    BY DEF CacheInv, CacheTypes
  <2>3. crossed' \in BOOLEAN /\ (crossed => crossed')
    BY DEF CacheInv, CacheTypes
  <2>4. row' \in Nat /\ UNCHANGED <<result, mutex>>
    BY DEF CacheInv, CacheTypes
  <2> QED
    BY <2>1, <2>2, <2>3, <2>4 DEF CacheInv, CacheTypes, NothingForgotten
<1>2. MutexMeansOne'
  BY <1>1 DEF CacheInv, CacheTypes, Processes, MutexMeansOne, Works, NothingForgotten
<1>3. FreshUntilCrossed'
  <2>1. CASE Update(w)
    BY <2>1, <1>1 DEF CacheInv, CacheTypes, Processes, FreshUntilCrossed, NothingForgotten
  <2>2. CASE Evict(w)
    BY <2>2, <1>1 DEF CacheInv, CacheTypes, Processes, FreshUntilCrossed, NothingForgotten
  <2> QED
    BY <2>1, <2>2
<1> QED
  BY <1>1, <1>2, <1>3 DEF CacheInv

LEMMA ClockKeeps ==
  ASSUME CacheInv, ValueExpires \/ MutexExpires
  PROVE  CacheInv'
<1> USE DEF ValueExpires, MutexExpires, cacheVars, readVars, cacheHistory
<1>1. CacheTypes' /\ NothingForgotten
  BY DEF CacheInv, CacheTypes, NothingForgotten
<1>2. MutexMeansOne'
  BY <1>1 DEF CacheInv, CacheTypes, MutexMeansOne, Works, Working, NothingForgotten
<1>3. FreshUntilCrossed'
  BY DEF CacheInv, FreshUntilCrossed
<1> QED
  BY <1>1, <1>2, <1>3 DEF CacheInv

LEMMA NextCacheInv == CacheInv /\ [CacheNext]_readThroughVars => CacheInv'
<1>1. ASSUME CacheInv, UNCHANGED readThroughVars PROVE CacheInv'
  BY <1>1
  DEF readThroughVars, cacheVars, readVars, cacheHistory, CacheInv, CacheTypes, MutexMeansOne, FreshUntilCrossed, Works
<1> QED
  BY <1>1, ReaderKeeps, WriterKeeps, ClockKeeps DEF CacheNext

-----------------------------------------------------------------------------
\* Two readers run the factory at once only if one of them gave up waiting, the
\* mutex ran out, or a Redis call failed.
THEOREM OneLoader == CacheSpec => []OneLoaderUnlessLate
<1>1. CacheInv => OneLoaderUnlessLate
  BY DEF CacheInv, CacheTypes, MutexMeansOne, OneLoaderUnlessLate, Loading, Works
<1> QED
  BY <1>1, InitCacheInv, NextCacheInv, PTL DEF CacheSpec

\* A stale value is cached only after an update between a load and its store, or
\* a failed call, or while the eviction is still to come.
THEOREM StaleHasCause == CacheSpec => []StaleNeedsRace
<1>1. CacheInv => StaleNeedsRace
  BY DEF CacheInv, CacheTypes, FreshUntilCrossed, StaleNeedsRace
<1> QED
  BY <1>1, InitCacheInv, NextCacheInv, PTL DEF CacheSpec

-----------------------------------------------------------------------------
(***************************************************************************)
(* RedisStream: for any number of consumers, messages, errors and crashes, *)
(* the group loses sight of no message.                                    *)
(***************************************************************************)
StreamPlaces == {"read", "call", "ack"}

StreamTypes ==
    /\ last \in Nat /\ last <= MaxMessages
    /\ first \in Nat \ {0}
    /\ group \in BOOLEAN
    /\ start \in Nat /\ cursor \in Nat
    /\ start <= cursor /\ cursor <= last
    /\ ~group => cursor = 0
    /\ pending \in [Messages -> Consumers \union {NoConsumer}]
    /\ turn \in [Consumers -> StreamPlaces]
    /\ batch \in [Consumers -> Seq(Messages)]
    /\ \A c \in Consumers : turn[c] = "read" <=> batch[c] = <<>>
    /\ handled \subseteq Messages
    /\ errors \in Nat
    /\ crashes \in Nat

\* What a consumer is about to acknowledge has been accepted.
AckMeansHandled == \A c \in Consumers : turn[c] = "ack" => Head(batch[c]) \in handled

StreamInv == StreamTypes /\ AckMeansHandled /\ UnhandledStaysPending

\* One step of a consumer, of the group's creation, or of a producer.
StreamStep ==
    \/ Add \/ Trim
    \/ \E id \in 0..last : CreateGroup(id)
    \/ \E c \in Consumers :
        \/ Read(c) \/ CallbackFails(c) \/ Ack(c) \/ Claim(c) \/ Crash(c)
        \/ Accept(c) /\ (UNCHANGED errors \/ Fault)

LEMMA InitStreamInv == StreamInit => StreamInv
<1> SUFFICES ASSUME StreamInit PROVE StreamInv
  OBVIOUS
<1>1. <<>> \in Seq(Messages)
  OBVIOUS
<1>2. /\ pending \in [Messages -> Consumers \union {NoConsumer}]
      /\ turn \in [Consumers -> StreamPlaces]
      /\ batch \in [Consumers -> Seq(Messages)]
      /\ \A c \in Consumers : turn[c] = "read" /\ batch[c] = <<>>
  BY <1>1 DEF StreamInit, StreamPlaces
<1>3. StreamTypes
  <2>1. /\ last \in Nat /\ last <= MaxMessages /\ first \in Nat \ {0}
        /\ start \in Nat /\ cursor \in Nat /\ start <= cursor /\ cursor <= last
        /\ errors \in Nat /\ crashes \in Nat
    BY StreamAssumption DEF StreamInit, NoFaults
  <2>2. group \in BOOLEAN /\ cursor = 0 /\ handled \subseteq Messages
    BY DEF StreamInit
  <2> QED
    BY <1>2, <2>1, <2>2 DEF StreamTypes
<1>4. AckMeansHandled /\ UnhandledStaysPending
  BY <1>2 DEF StreamInit, AckMeansHandled, UnhandledStaysPending
<1> QED
  BY <1>3, <1>4 DEF StreamInv

\* What is read: at least one message, the next ones that are not trimmed.
LEMMA NewMessages ==
  ASSUME StreamTypes, FirstNew <= last
  PROVE  /\ FirstNew \in Nat /\ LastNew \in Nat
         /\ cursor < FirstNew /\ first <= FirstNew
         /\ FirstNew <= LastNew /\ LastNew <= last
         /\ \A m \in Messages : m > cursor /\ m < FirstNew => m < first
         /\ NextBatch \in Seq(Messages)
         /\ Len(NextBatch) = LastNew - FirstNew + 1
         /\ NextBatch # <<>>
         /\ \A i \in 1..Len(NextBatch) : NextBatch[i] = FirstNew + i - 1
<1>1. /\ last \in Nat /\ first \in Nat /\ cursor \in Nat /\ BatchSize \in Nat \ {0}
      /\ last <= MaxMessages /\ MaxMessages \in Nat /\ first # 0
  BY StreamAssumption DEF StreamTypes
<1>2. /\ FirstNew \in Nat
      /\ cursor < FirstNew /\ first <= FirstNew
      /\ \A m \in Messages : m > cursor /\ m < FirstNew => m < first
  BY <1>1 DEF FirstNew, Messages
<1>3. LastNew \in Nat /\ FirstNew <= LastNew /\ LastNew <= last
  BY <1>1, <1>2 DEF LastNew
<1>4. LastNew - FirstNew + 1 \in Nat \ {0}
  BY <1>2, <1>3
<1>5. \A i \in 1..LastNew - FirstNew + 1 : FirstNew + i - 1 \in Messages
  BY <1>1, <1>2, <1>3 DEF Messages
<1>6. /\ NextBatch \in Seq(Messages)
      /\ Len(NextBatch) = LastNew - FirstNew + 1
      /\ \A i \in 1..LastNew - FirstNew + 1 : NextBatch[i] = FirstNew + i - 1
  BY <1>4, <1>5 DEF NextBatch
<1>7. NextBatch # <<>>
  BY <1>4, <1>6
<1> QED
  BY <1>2, <1>3, <1>6, <1>7

\* What is left of a batch after its first message.
LEMMA RestOfBatch ==
  ASSUME StreamTypes, NEW c \in Consumers, turn[c] # "read"
  PROVE  /\ batch[c] # <<>>
         /\ Len(batch[c]) \in Nat \ {0}
         /\ Head(batch[c]) = batch[c][1]
         /\ Head(batch[c]) \in Messages
         /\ Tail(batch[c]) \in Seq(Messages)
         /\ Len(Tail(batch[c])) = Len(batch[c]) - 1
         /\ \A i \in 1..Len(Tail(batch[c])) : Tail(batch[c])[i] = batch[c][i + 1]
         /\ Tail(batch[c]) = <<>> <=> Len(batch[c]) = 1
<1> DEFINE s == batch[c]
<1>1. s \in Seq(Messages) /\ s # <<>>
  BY DEF StreamTypes
<1> HIDE DEF s
<1>2. Len(s) \in Nat \ {0} /\ Head(s) = s[1] /\ s[1] \in Messages
  BY <1>1
<1>3. /\ Tail(s) \in Seq(Messages)
      /\ Len(Tail(s)) = Len(s) - 1
      /\ \A i \in 1..Len(Tail(s)) : Tail(s)[i] = s[i + 1]
  BY <1>1, <1>2
<1>4. Tail(s) = <<>> <=> Len(s) = 1
  <2>1. Tail(s) = <<>> <=> Len(Tail(s)) = 0
    BY <1>3, EmptySeq
  <2> QED
    BY <1>2, <1>3, <2>1
<1> QED
  BY <1>1, <1>2, <1>3, <1>4 DEF s

LEMMA NextMessageTypes ==
  ASSUME StreamTypes, NEW c \in Consumers, turn[c] # "read", NextMessage(c)
  PROVE  /\ turn' \in [Consumers -> StreamPlaces]
         /\ batch' \in [Consumers -> Seq(Messages)]
         /\ \A d \in Consumers : turn'[d] = "read" <=> batch'[d] = <<>>
         /\ \A d \in Consumers \ {c} : turn'[d] = turn[d] /\ batch'[d] = batch[d]
         /\ batch'[c] = Tail(batch[c])
         /\ turn'[c] \in {"read", "call"}
<1>1. turn' \in [Consumers -> StreamPlaces] /\ batch' \in [Consumers -> Seq(Messages)]
  BY RestOfBatch DEF NextMessage, TurnTo, StreamTypes, StreamPlaces
<1>2. \A d \in Consumers \ {c} : turn'[d] = turn[d] /\ batch'[d] = batch[d]
  BY DEF NextMessage, TurnTo, StreamTypes
<1>3. batch'[c] = Tail(batch[c]) /\ turn'[c] = IF Len(batch[c]) = 1 THEN "read" ELSE "call"
  BY DEF NextMessage, TurnTo, StreamTypes
<1>4. turn'[c] = "read" <=> batch'[c] = <<>>
  BY <1>3, RestOfBatch
<1> QED
  BY <1>1, <1>2, <1>3, <1>4 DEF StreamTypes

LEMMA StreamTypesKept ==
  ASSUME StreamTypes, StreamStep
  PROVE  StreamTypes'
<1> USE DEF streamVars, groupVars
<1>0. errors' \in Nat /\ crashes' \in Nat
  BY DEF StreamTypes, StreamStep, Add, Trim, CreateGroup, Read, CallbackFails, Ack, Claim, Crash,
         Accept, Fault, Death
<1>1. CASE Add
  BY <1>0, <1>1, StreamAssumption DEF Add, StreamTypes
<1>2. CASE Trim
  BY <1>0, <1>2 DEF Trim, StreamTypes
<1>3. CASE \E id \in 0..last : CreateGroup(id)
  BY <1>0, <1>3 DEF CreateGroup, StreamTypes
<1>4. ASSUME NEW c \in Consumers, Read(c)
      PROVE  StreamTypes'
  <2>1. /\ turn[c] = "read" /\ group /\ cursor' = LastNew
        /\ cursor <= LastNew /\ LastNew <= last /\ LastNew \in Nat
        /\ NextBatch \in Seq(Messages) /\ NextBatch # <<>>
        /\ UNCHANGED <<last, first, group, start, handled>>
    BY <1>4, NewMessages DEF Read, StreamTypes
  <2>2. pending' \in [Messages -> Consumers \union {NoConsumer}]
    BY <1>4 DEF Read, StreamTypes
  <2>3. /\ turn' \in [Consumers -> StreamPlaces]
        /\ batch' \in [Consumers -> Seq(Messages)]
        /\ \A d \in Consumers : turn'[d] = "read" <=> batch'[d] = <<>>
    BY <1>4, <2>1 DEF Read, TurnTo, StreamTypes, StreamPlaces
  <2> QED
    BY <1>0, <2>1, <2>2, <2>3 DEF StreamTypes
<1>5. ASSUME NEW c \in Consumers, CallbackFails(c) \/ Ack(c)
      PROVE  StreamTypes'
  <2>1. turn[c] # "read" /\ NextMessage(c)
    BY <1>5 DEF CallbackFails, Ack
  <2>2. pending' \in [Messages -> Consumers \union {NoConsumer}]
    BY <1>5 DEF CallbackFails, Ack, Acknowledged, StreamTypes
  <2>3. UNCHANGED <<last, first, group, start, cursor, handled>>
    BY <1>5 DEF CallbackFails, Ack
  <2> QED
    BY <1>0, <2>1, <2>2, <2>3, NextMessageTypes DEF StreamTypes
<1>6. ASSUME NEW c \in Consumers, Accept(c)
      PROVE  StreamTypes'
  <2>1. handled' \subseteq Messages
    BY <1>6, RestOfBatch DEF Accept, StreamTypes
  <2> QED
    BY <1>0, <1>6, <2>1 DEF Accept, TurnTo, StreamTypes, StreamPlaces
<1>7. ASSUME NEW c \in Consumers, Claim(c)
      PROVE  StreamTypes'
  <2>1. /\ pending' \in [Messages -> Consumers \union {NoConsumer}]
        /\ handled' \subseteq Messages
    BY <1>7 DEF Claim, Claimable, Unacked, StreamTypes
  <2> QED
    BY <1>0, <1>7, <2>1 DEF Claim, StreamTypes
<1>8. ASSUME NEW c \in Consumers, Crash(c)
      PROVE  StreamTypes'
  <2>1. <<>> \in Seq(Messages)
    OBVIOUS
  <2> QED
    BY <1>0, <1>8, <2>1 DEF Crash, TurnTo, StreamTypes, StreamPlaces
<1> QED
  BY <1>1, <1>2, <1>3, <1>4, <1>5, <1>6, <1>7, <1>8 DEF StreamStep

\* Nothing that a step does loses sight of a message.
LEMMA StreamStepKeeps ==
  ASSUME StreamInv, StreamStep
  PROVE  StreamInv'
<1> USE DEF streamVars, groupVars
<1>0. StreamTypes /\ StreamTypes'
  BY StreamTypesKept DEF StreamInv
<1>1. CASE Add \/ Trim
  <2>1. AckMeansHandled'
    BY <1>1 DEF Add, Trim, StreamInv, AckMeansHandled
  <2>2. /\ UNCHANGED <<group, start, cursor, pending, handled>>
        /\ last' = last \/ last' = last + 1
        /\ first' = first \/ first' = first + 1
    BY <1>1 DEF Add, Trim
  <2>3. /\ last \in Nat /\ start \in Nat /\ cursor \in Nat /\ first \in Nat
        /\ cursor <= last
    BY <1>0 DEF StreamTypes
  <2>4. \A m \in start + 1..last' : m \in start + 1..last \/ m > cursor
    BY <2>2, <2>3
  <2>5. \A m \in start + 1..last' : m < first => m < first'
    BY <2>2, <2>3
  <2>6. UnhandledStaysPending'
    BY <2>2, <2>4, <2>5 DEF StreamInv, UnhandledStaysPending
  <2> QED
    BY <1>0, <2>1, <2>6 DEF StreamInv
<1>2. CASE \E id \in 0..last : CreateGroup(id)
  BY <1>0, <1>2 DEF CreateGroup, StreamInv, StreamTypes, AckMeansHandled, UnhandledStaysPending
<1>3. ASSUME NEW c \in Consumers, Read(c)
      PROVE  StreamInv'
  <2>1. /\ FirstNew <= last /\ cursor' = LastNew
        /\ UNCHANGED <<last, first, group, start, handled>>
        /\ pending' = [m \in Messages |-> IF m \in FirstNew..LastNew THEN c ELSE pending[m]]
    BY <1>3 DEF Read
  <2>2. AckMeansHandled'
    <3>1. \A d \in Consumers : turn'[d] = "ack" => turn[d] = "ack" /\ batch'[d] = batch[d]
      BY <1>0, <1>3 DEF Read, TurnTo, StreamTypes
    <3> QED
      BY <2>1, <3>1 DEF StreamInv, AckMeansHandled
  <2>3. UnhandledStaysPending'
    <3> SUFFICES ASSUME group, NEW m \in start + 1..last
                 PROVE  \/ m \in handled \/ m > LastNew \/ pending'[m] # NoConsumer
                        \/ m < first
      BY <2>1 DEF UnhandledStaysPending
    <3>1. m \in Messages /\ c # NoConsumer
      BY <1>0, StreamAssumption DEF StreamTypes, Messages
    <3>2. CASE m > cursor
      BY <1>0, <2>1, <3>1, <3>2, NewMessages
    <3>3. CASE ~(m > cursor)
      <4>1. m \in handled \/ pending[m] # NoConsumer \/ m < first
        BY <3>3 DEF StreamInv, UnhandledStaysPending
      <4> QED
        BY <2>1, <3>1, <4>1
    <3> QED
      BY <3>2, <3>3
  <2> QED
    BY <1>0, <2>2, <2>3 DEF StreamInv
<1>4. ASSUME NEW c \in Consumers, CallbackFails(c) \/ Ack(c)
      PROVE  StreamInv'
  <2>1. turn[c] # "read" /\ NextMessage(c)
        /\ UNCHANGED <<last, first, group, start, cursor, handled>>
    BY <1>4 DEF CallbackFails, Ack
  <2>2. AckMeansHandled'
    BY <1>0, <2>1, NextMessageTypes DEF StreamInv, AckMeansHandled
  <2>3. \A m \in Messages : pending'[m] = pending[m] \/ m \in handled
    BY <1>0, <1>4 DEF CallbackFails, Ack, Acknowledged, StreamInv, StreamTypes, AckMeansHandled
  <2>4. UnhandledStaysPending'
    <3>1. \A m \in start + 1..last : m \in Messages
      BY <1>0, StreamAssumption DEF StreamTypes, Messages
    <3> QED
      BY <2>1, <2>3, <3>1 DEF StreamInv, UnhandledStaysPending
  <2> QED
    BY <1>0, <2>2, <2>4 DEF StreamInv
<1>5. ASSUME NEW c \in Consumers, Accept(c)
      PROVE  StreamInv'
  <2>1. AckMeansHandled'
    BY <1>0, <1>5 DEF Accept, TurnTo, StreamInv, StreamTypes, AckMeansHandled
  <2>2. UnhandledStaysPending'
    BY <1>5 DEF Accept, StreamInv, UnhandledStaysPending
  <2> QED
    BY <1>0, <2>1, <2>2 DEF StreamInv
<1>6. ASSUME NEW c \in Consumers, Claim(c)
      PROVE  StreamInv'
  <2>1. \A m \in Messages : pending[m] # NoConsumer => pending'[m] # NoConsumer
    BY <1>6, StreamAssumption DEF Claim
  <2>2. /\ handled \subseteq handled'
        /\ UNCHANGED <<last, first, group, start, cursor, turn, batch>>
    BY <1>6 DEF Claim
  <2>3. \A m \in start + 1..last : m \in Messages
    BY <1>0, StreamAssumption DEF StreamTypes, Messages
  <2>4. AckMeansHandled'
    BY <2>2 DEF StreamInv, AckMeansHandled
  <2>5. UnhandledStaysPending'
    BY <2>1, <2>2, <2>3 DEF StreamInv, UnhandledStaysPending
  <2> QED
    BY <1>0, <2>4, <2>5 DEF StreamInv
<1>7. ASSUME NEW c \in Consumers, Crash(c)
      PROVE  StreamInv'
  BY <1>0, <1>7 DEF Crash, TurnTo, StreamInv, StreamTypes, AckMeansHandled, UnhandledStaysPending
<1> QED
  BY <1>1, <1>2, <1>3, <1>4, <1>5, <1>6, <1>7 DEF StreamStep

LEMMA NextStreamInv == StreamInv /\ [StreamNext]_eventVars => StreamInv'
<1>1. ASSUME StreamInv, UNCHANGED eventVars PROVE StreamInv'
  BY <1>1
  DEF eventVars, StreamInv, StreamTypes, AckMeansHandled, UnhandledStaysPending
<1>2. ASSUME StreamInv, StreamNext PROVE StreamInv'
  <2>1. StreamStep
    BY <1>2 DEF StreamNext, ConsumerStep, CallbackAccepts, StreamStep
  <2> QED
    BY <1>2, <2>1, StreamStepKeeps
<1> QED
  BY <1>1, <1>2

\* Whatever consumers crash, claim and fail, a message that the group is meant to see
\* and no callback has accepted is to be delivered or pending, unless trimmed unread.
THEOREM NothingOverlooked == StreamSpec => []UnhandledStaysPending
<1>1. StreamInv => UnhandledStaysPending
  BY DEF StreamInv
<1> QED
  BY <1>1, InitStreamInv, NextStreamInv, PTL DEF StreamSpec

-----------------------------------------------------------------------------
(***************************************************************************)
(* DeadLetters: for any number of replays at once, letters, errors and     *)
(* crashes, what becomes of a letter that the group has passed over.       *)
(***************************************************************************)
LetterTypes ==
    /\ StreamTypes
    /\ copies \in [Messages -> Nat]
    /\ unsent \subseteq Messages

Sets(m) == copies[m] = 1 \/ m \in unsent

\* A replayer's letters are pending with it alone, each one once, and were not
\* added yet, but for the one that is about to be acknowledged.
InHands ==
    \A c \in Consumers : \A i \in 1..Len(batch[c]) :
        /\ batch[c][i] <= cursor
        /\ pending[batch[c][i]] = c
        /\ batch[c][i] = batch[c][1] + i - 1
        /\ IF i = 1 /\ turn[c] = "ack" THEN Sets(batch[c][i]) ELSE copies[batch[c][i]] = 0

\* What the group has not reached was not added.
UnreadUnsent == \A m \in Messages : m > cursor => copies[m] = 0

LettersInv == LetterTypes /\ InHands /\ UnreadUnsent /\ LeftBehindNeedsFault

LEMMA InBatch ==
  ASSUME StreamTypes, NEW c \in Consumers, NEW m
  PROVE  m \in ToSet(batch[c]) <=> \E i \in 1..Len(batch[c]) : batch[c][i] = m
<1>1. DOMAIN batch[c] = 1..Len(batch[c])
  BY DEF StreamTypes
<1> QED
  BY <1>1 DEF ToSet

LEMMA InBatchNext ==
  ASSUME StreamTypes', NEW c \in Consumers, NEW m
  PROVE  m \in ToSet(batch'[c]) <=> \E i \in 1..Len(batch'[c]) : batch'[c][i] = m
<1>1. DOMAIN batch'[c] = 1..Len(batch'[c])
  BY DEF StreamTypes
<1> QED
  BY <1>1 DEF ToSet

LEMMA InitLettersInv == LettersInit => LettersInv
<1> SUFFICES ASSUME LettersInit PROVE LettersInv
  OBVIOUS
<1>1. StreamTypes
  BY InitStreamInv DEF LettersInit, StreamInv
<1>2. LetterTypes
  BY <1>1 DEF LettersInit, LetterTypes
<1>3. InHands
  <2>1. \A c \in Consumers : Len(batch[c]) = 0
    BY DEF LettersInit, StreamInit
  <2>2. \A c \in Consumers : 1..Len(batch[c]) = {}
    BY <2>1
  <2> QED
    BY <2>2 DEF InHands
<1>4. UnreadUnsent
  BY DEF LettersInit, UnreadUnsent
<1>5. LeftBehindNeedsFault
  <2>1. start + 1..cursor = {}
    BY DEF LettersInit, StreamInit
  <2> QED
    BY <2>1 DEF LeftBehindNeedsFault
<1> QED
  BY <1>2, <1>3, <1>4, <1>5 DEF LettersInv

\* Two positions of one batch, or of two, hold different letters.
LEMMA LettersDiffer ==
  ASSUME LettersInv, NEW c \in Consumers, NEW d \in Consumers,
         NEW i \in 1..Len(batch[c]), NEW j \in 1..Len(batch[d]),
         batch[c][i] = batch[d][j]
  PROVE  c = d /\ i = j
<1>1. c = d
  BY DEF LettersInv, InHands
<1>2. /\ batch[c][i] = batch[c][1] + i - 1
      /\ batch[c][j] = batch[c][1] + j - 1
  BY <1>1 DEF LettersInv, InHands
<1>3. batch[c] \in Seq(Messages) /\ Messages \subseteq Nat
  BY DEF LettersInv, LetterTypes, StreamTypes, Messages
<1>4. Len(batch[c]) \in Nat /\ i \in Nat /\ j \in Nat /\ 1 \in 1..Len(batch[c])
  BY <1>1, <1>3
<1>5. batch[c][1] \in Messages
  BY <1>3, <1>4
<1>6. batch[c][1] \in Nat
  BY <1>3, <1>5
<1> QED
  BY <1>1, <1>2, <1>4, <1>6

\* What pending, copies and cursor do to letters in no batch.
LEMMA ProducerKeeps ==
  ASSUME LettersInv, Add \/ Trim \/ CreateGroup(0), UNCHANGED <<copies, unsent>>
  PROVE  LettersInv'
<1> USE DEF streamVars, groupVars
<1>0. LetterTypes'
  <2>1. StreamStep /\ StreamTypes
    BY DEF StreamStep, LettersInv, LetterTypes, StreamTypes
  <2> QED
    BY <2>1, StreamTypesKept DEF LettersInv, LetterTypes
<1>1. UNCHANGED <<pending, turn, batch, copies, unsent>>
  BY DEF Add, Trim, CreateGroup
<1>2. UNCHANGED cursor
  BY DEF Add, Trim, CreateGroup, LettersInv, LetterTypes, StreamTypes
<1>3. InHands' /\ UnreadUnsent'
  BY <1>1, <1>2 DEF InHands, Sets, UnreadUnsent, LettersInv
<1>4. LeftBehindNeedsFault'
  <2>1. CASE CreateGroup(0)
    <3>1. start' + 1..cursor' = {}
      BY <2>1 DEF CreateGroup
    <3> QED
      BY <3>1 DEF LeftBehindNeedsFault
  <2>2. CASE Add \/ Trim
    <3>1. /\ UNCHANGED <<start, crashes>>
          /\ first' = first \/ first' = first + 1
          /\ errors' = errors \/ errors' = errors + 1
      BY <2>2 DEF Add, Trim, Fault
    <3>2. /\ errors \in Nat /\ crashes \in Nat /\ first \in Nat /\ start \in Nat /\ cursor \in Nat
      BY DEF LettersInv, LetterTypes, StreamTypes
    <3>3. \A m \in start + 1..cursor : m < first => m < first'
      BY <3>1, <3>2
    <3>4. errors + crashes > 0 => errors' + crashes' > 0
      BY <3>1, <3>2
    <3> QED
      BY <1>1, <1>2, <3>1, <3>3, <3>4 DEF LeftBehindNeedsFault, LettersInv
  <2> QED
    BY <2>1, <2>2
<1> QED
  BY <1>0, <1>3, <1>4 DEF LettersInv

LEMMA ReadKeeps ==
  ASSUME LettersInv, NEW c \in Consumers, Read(c), UNCHANGED <<copies, unsent>>
  PROVE  LettersInv'
<1> USE DEF streamVars, groupVars
<1>0. StreamTypes /\ LetterTypes'
  <2>1. StreamStep /\ StreamTypes
    BY DEF StreamStep, LettersInv, LetterTypes
  <2> QED
    BY <2>1, StreamTypesKept DEF LettersInv, LetterTypes
<1>1. /\ FirstNew <= last /\ cursor' = LastNew /\ turn[c] = "read" /\ batch[c] = <<>>
      /\ UNCHANGED <<last, first, group, start, copies, unsent>>
      /\ pending' = [m \in Messages |-> IF m \in FirstNew..LastNew THEN c ELSE pending[m]]
  BY <1>0 DEF Read, StreamTypes
<1>2. /\ FirstNew \in Nat /\ LastNew \in Nat
      /\ cursor < FirstNew /\ FirstNew <= LastNew /\ cursor \in Nat
      /\ \A m \in Messages : m > cursor /\ m < FirstNew => m < first
  BY <1>0, <1>1, NewMessages DEF StreamTypes
<1>3. \A d \in Consumers \ {c} : batch'[d] = batch[d] /\ turn'[d] = turn[d]
  BY <1>0 DEF Read, TurnTo, StreamTypes
<1>4. \A d \in Consumers : batch[d] \in Seq(Messages)
  BY <1>0 DEF StreamTypes
<1>5. \A m \in Messages : m <= cursor => pending'[m] = pending[m]
  BY <1>1, <1>2 DEF Messages
<1>6. \A m \in Messages : m > cursor => copies[m] = 0
  BY DEF LettersInv, UnreadUnsent
<1>7. CASE UNCHANGED <<batch, turn>> /\ Fault
  <2>1. InHands'
    <3> SUFFICES ASSUME NEW d \in Consumers, NEW i \in 1..Len(batch[d])
                 PROVE  /\ batch[d][i] <= cursor'
                        /\ pending'[batch[d][i]] = d
                        /\ batch[d][i] = batch[d][1] + i - 1
                        /\ IF i = 1 /\ turn[d] = "ack" THEN Sets(batch[d][i])
                           ELSE copies[batch[d][i]] = 0
      BY <1>1, <1>7 DEF InHands, Sets
    <3>1. batch[d][i] \in Messages
      BY <1>4
    <3>2. /\ batch[d][i] <= cursor /\ pending[batch[d][i]] = d
          /\ batch[d][i] = batch[d][1] + i - 1
          /\ IF i = 1 /\ turn[d] = "ack" THEN Sets(batch[d][i])
             ELSE copies[batch[d][i]] = 0
      BY DEF LettersInv, InHands
    <3>3. pending'[batch[d][i]] = d
      BY <1>5, <3>1, <3>2
    <3>4. batch[d][i] \in Nat /\ cursor <= LastNew
      BY <1>2, <3>1 DEF Messages
    <3>5. batch[d][i] <= cursor'
      BY <1>1, <1>2, <3>2, <3>4
    <3> QED
      BY <3>2, <3>3, <3>5
  <2>2. UnreadUnsent'
    BY <1>1, <1>2, <1>6 DEF UnreadUnsent, Messages
  <2>3. LeftBehindNeedsFault'
    <3> SUFFICES ASSUME NEW m \in start + 1..LastNew
                 PROVE  \/ copies[m] = 1
                        \/ \E d \in Consumers : m \in ToSet(batch[d])
                        \/ m < first
                        \/ pending'[m] # NoConsumer /\ errors' + crashes' > 0
                        \/ m \in unsent
      BY <1>1, <1>7 DEF LeftBehindNeedsFault
    <3>1. m \in Nat /\ m \in Messages
      <4>1. /\ LastNew <= last /\ last <= MaxMessages /\ start \in Nat /\ last \in Nat
            /\ MaxMessages \in Nat
        BY <1>0, <1>1, NewMessages, StreamAssumption DEF StreamTypes
      <4> QED
        BY <1>2, <4>1 DEF Messages
    <3>5. errors' + crashes' > 0
      <4>1. errors \in Nat /\ crashes \in Nat /\ UNCHANGED crashes /\ errors' = errors + 1
        BY <1>0, <1>7 DEF StreamTypes, Fault, Read
      <4> QED
        BY <4>1
    <3>2. CASE m <= cursor
      <4>1. m \in start + 1..cursor /\ pending'[m] = pending[m]
        BY <1>0, <1>2, <1>5, <3>1, <3>2 DEF StreamTypes
      <4> QED
        BY <3>5, <4>1 DEF LettersInv, LeftBehindNeedsFault
    <3>3. CASE m > cursor /\ m < FirstNew
      BY <1>2, <3>1, <3>3
    <3>4. CASE m >= FirstNew
      <4>1. pending'[m] = c
        BY <1>1, <1>2, <3>1, <3>4
      <4> QED
        BY <3>5, <4>1, StreamAssumption
    <3> QED
      BY <1>2, <3>1, <3>2, <3>3, <3>4
  <2> QED
    BY <1>0, <2>1, <2>2, <2>3 DEF LettersInv
<1>8. CASE batch' = [batch EXCEPT ![c] = NextBatch] /\ TurnTo(c, "call") /\ UNCHANGED errors
  <2>1. /\ batch'[c] = NextBatch /\ turn'[c] = "call"
        /\ UNCHANGED <<errors, crashes>>
    BY <1>0, <1>8 DEF TurnTo, StreamTypes, Read
  <2>2. /\ Len(NextBatch) = LastNew - FirstNew + 1
        /\ \A i \in 1..Len(NextBatch) : NextBatch[i] = FirstNew + i - 1
    BY <1>0, <1>1, NewMessages
  <2>3. InHands'
    <3> SUFFICES ASSUME NEW d \in Consumers, NEW i \in 1..Len(batch'[d])
                 PROVE  /\ batch'[d][i] <= cursor'
                        /\ pending'[batch'[d][i]] = d
                        /\ batch'[d][i] = batch'[d][1] + i - 1
                        /\ IF i = 1 /\ turn'[d] = "ack" THEN Sets(batch'[d][i])
                           ELSE copies[batch'[d][i]] = 0
      BY <1>1 DEF InHands, Sets
    <3>1. CASE d = c
      <4>1. i \in Nat /\ 1 <= i /\ i <= LastNew - FirstNew + 1 /\ i \in 1..Len(NextBatch)
            /\ 1 \in 1..Len(NextBatch)
        BY <1>2, <2>1, <2>2, <3>1
      <4>2. NextBatch[i] = FirstNew + i - 1 /\ NextBatch[1] = FirstNew
        BY <1>2, <2>2, <4>1
      <4>3. NextBatch[i] \in FirstNew..LastNew
        BY <1>2, <4>1, <4>2
      <4>4. NextBatch[i] \in Messages /\ NextBatch[i] > cursor
        <5>1. NextBatch \in Seq(Messages)
          BY <1>0, <1>1, NewMessages
        <5>2. NextBatch[i] \in Messages
          BY <4>1, <5>1
        <5> QED
          BY <1>2, <4>3, <5>2
      <4>5. pending'[NextBatch[i]] = c
        BY <1>1, <4>3, <4>4
      <4>6. copies[NextBatch[i]] = 0 /\ NextBatch[i] <= LastNew
        BY <1>2, <1>6, <4>3, <4>4
      <4>7. NextBatch[i] = NextBatch[1] + i - 1
        BY <1>2, <4>1, <4>2
      <4> QED
        BY <1>1, <2>1, <3>1, <4>5, <4>6, <4>7
    <3>2. CASE d # c
      <4>1. batch'[d] = batch[d] /\ turn'[d] = turn[d] /\ i \in 1..Len(batch[d])
        BY <1>3, <3>2
      <4>2. batch[d][i] \in Messages
        BY <1>4, <4>1
      <4>3. /\ batch[d][i] <= cursor /\ pending[batch[d][i]] = d
            /\ batch[d][i] = batch[d][1] + i - 1
            /\ IF i = 1 /\ turn[d] = "ack" THEN Sets(batch[d][i])
               ELSE copies[batch[d][i]] = 0
        BY <4>1 DEF LettersInv, InHands
      <4>4. pending'[batch[d][i]] = d
        BY <1>5, <4>2, <4>3
      <4>5. batch[d][i] \in Nat /\ cursor <= LastNew
        BY <1>2, <4>2 DEF Messages
      <4>6. batch[d][i] <= cursor'
        BY <1>1, <1>2, <4>3, <4>5
      <4> QED
        BY <4>1, <4>3, <4>4, <4>6
    <3> QED
      BY <3>1, <3>2
  <2>4. UnreadUnsent'
    BY <1>1, <1>2, <1>6 DEF UnreadUnsent, Messages
  <2>5. LeftBehindNeedsFault'
    <3> SUFFICES ASSUME NEW m \in start + 1..LastNew
                 PROVE  \/ copies[m] = 1
                        \/ \E d \in Consumers : m \in ToSet(batch'[d])
                        \/ m < first
                        \/ pending'[m] # NoConsumer /\ errors + crashes > 0
                        \/ m \in unsent
      BY <1>1, <2>1 DEF LeftBehindNeedsFault
    <3>1. m \in Nat /\ m \in Messages
      <4>1. /\ LastNew <= last /\ last <= MaxMessages /\ start \in Nat /\ last \in Nat
            /\ MaxMessages \in Nat
        BY <1>0, <1>1, NewMessages, StreamAssumption DEF StreamTypes
      <4> QED
        BY <1>2, <4>1 DEF Messages
    <3>2. CASE m <= cursor
      <4>1. m \in start + 1..cursor /\ pending'[m] = pending[m]
        BY <1>0, <1>2, <1>5, <3>1, <3>2 DEF StreamTypes
      <4>2. \A d \in Consumers : m \in ToSet(batch[d]) => d # c
        BY <1>0, <1>1, InBatch
      <4> QED
        BY <1>3, <4>1, <4>2 DEF LettersInv, LeftBehindNeedsFault
    <3>3. CASE m > cursor /\ m < FirstNew
      BY <1>2, <3>1, <3>3
    <3>4. CASE m >= FirstNew
      <4> DEFINE i == m - FirstNew + 1
      <4>1. i \in 1..Len(NextBatch) /\ FirstNew + i - 1 = m
        BY <1>2, <2>2, <3>1, <3>4
      <4>2. NextBatch[i] = m
        BY <2>2, <4>1
      <4>3. m \in ToSet(batch'[c])
        BY <1>0, <2>1, <4>1, <4>2, InBatchNext DEF LetterTypes
      <4> QED
        BY <4>3
    <3> QED
      BY <1>2, <3>1, <3>2, <3>3, <3>4
  <2> QED
    BY <1>0, <2>3, <2>4, <2>5 DEF LettersInv
<1> QED
  BY <1>7, <1>8 DEF Read

\* A step after which a replayer's batch has lost its first letter.
LEMMA AckKeeps ==
  ASSUME LettersInv, NEW c \in Consumers, Ack(c), UNCHANGED <<copies, unsent>>
  PROVE  LettersInv'
<1> USE DEF streamVars, groupVars
<1> DEFINE h == batch[c][1]
<1>0. StreamTypes /\ LetterTypes'
  <2>1. StreamStep /\ StreamTypes
    BY DEF StreamStep, LettersInv, LetterTypes
  <2> QED
    BY <2>1, StreamTypesKept DEF LettersInv, LetterTypes
<1>1. /\ turn[c] = "ack" /\ NextMessage(c)
      /\ UNCHANGED <<last, first, group, start, cursor, crashes, copies, unsent>>
  BY DEF Ack
<1>2. /\ Len(batch[c]) \in Nat \ {0} /\ Head(batch[c]) = h /\ h \in Messages
      /\ batch'[c] = Tail(batch[c])
      /\ Len(batch'[c]) = Len(batch[c]) - 1
      /\ \A i \in 1..Len(batch'[c]) : batch'[c][i] = batch[c][i + 1]
      /\ turn'[c] \in {"read", "call"}
      /\ \A d \in Consumers \ {c} : turn'[d] = turn[d] /\ batch'[d] = batch[d]
  <2>1. turn[c] # "read"
    BY <1>1
  <2>2. /\ Len(batch[c]) \in Nat \ {0} /\ Head(batch[c]) = h /\ h \in Messages
        /\ Len(Tail(batch[c])) = Len(batch[c]) - 1
        /\ \A i \in 1..Len(Tail(batch[c])) : Tail(batch[c])[i] = batch[c][i + 1]
    BY <1>0, <2>1, RestOfBatch
  <2>3. /\ batch'[c] = Tail(batch[c]) /\ turn'[c] \in {"read", "call"}
        /\ \A d \in Consumers \ {c} : turn'[d] = turn[d] /\ batch'[d] = batch[d]
    BY <1>0, <1>1, <2>1, NextMessageTypes
  <2> QED
    BY <2>2, <2>3
<1>3. 1 \in 1..Len(batch[c]) /\ \A i \in 1..Len(batch'[c]) : i + 1 \in 1..Len(batch[c]) /\ i + 1 # 1
  BY <1>2
<1>4. Sets(h)
  BY <1>1, <1>3 DEF LettersInv, InHands
<1>5. \A m \in Messages : m # h => pending'[m] = pending[m]
  BY <1>0, <1>2 DEF Ack, Acknowledged, StreamTypes
<1>6. errors + crashes > 0 => errors' + crashes' > 0
  <2>1. errors \in Nat /\ crashes \in Nat /\ (errors' = errors \/ errors' = errors + 1)
    BY <1>0 DEF StreamTypes, Ack, Fault
  <2> QED
    BY <1>1, <2>1
<1>7. \A d \in Consumers : batch[d] \in Seq(Messages)
  BY <1>0 DEF StreamTypes
<1>8. InHands'
  <2> SUFFICES ASSUME NEW d \in Consumers, NEW i \in 1..Len(batch'[d])
               PROVE  /\ batch'[d][i] <= cursor
                      /\ pending'[batch'[d][i]] = d
                      /\ batch'[d][i] = batch'[d][1] + i - 1
                      /\ IF i = 1 /\ turn'[d] = "ack" THEN Sets(batch'[d][i])
                         ELSE copies[batch'[d][i]] = 0
    BY <1>1 DEF InHands, Sets
  <2>1. CASE d = c
    <3>1. /\ i + 1 \in 1..Len(batch[c]) /\ i + 1 # 1
          /\ batch'[c][i] = batch[c][i + 1]
      BY <1>2, <1>3, <2>1
    <3>2. /\ batch[c][i + 1] <= cursor /\ pending[batch[c][i + 1]] = c
          /\ batch[c][i + 1] = h + (i + 1) - 1
          /\ copies[batch[c][i + 1]] = 0
      BY <3>1 DEF LettersInv, InHands
    <3>3. batch[c][i + 1] # h
      BY <1>3, <3>1, LettersDiffer
    <3>4. batch[c][i + 1] \in Messages
      BY <1>7, <3>1
    <3>5. pending'[batch[c][i + 1]] = c
      BY <1>5, <3>2, <3>3, <3>4
    <3>6. batch'[c][1] = batch[c][2] /\ batch[c][2] = h + 2 - 1
      <4>1. 1 \in 1..Len(batch'[c]) /\ 2 \in 1..Len(batch[c])
        <5>1. i \in 1..Len(batch'[c])
          BY <2>1
        <5>2. Len(batch'[c]) \in Nat /\ Len(batch[c]) = Len(batch'[c]) + 1
          BY <1>2
        <5> QED
          BY <5>1, <5>2
      <4>2. batch'[c][1] = batch[c][1 + 1]
        BY <1>2, <4>1
      <4> QED
        BY <4>1, <4>2 DEF LettersInv, InHands
    <3>7. batch'[c][i] = batch'[c][1] + i - 1
      <4>1. h \in Nat /\ i \in Nat
        BY <1>2, <2>1 DEF Messages
      <4> QED
        BY <3>1, <3>2, <3>6, <4>1
    <3> QED
      BY <1>2, <2>1, <3>1, <3>2, <3>5, <3>7
  <2>2. CASE d # c
    <3>1. batch'[d] = batch[d] /\ turn'[d] = turn[d] /\ i \in 1..Len(batch[d])
      BY <1>2, <2>2
    <3>2. /\ batch[d][i] <= cursor /\ pending[batch[d][i]] = d
          /\ batch[d][i] = batch[d][1] + i - 1
          /\ IF i = 1 /\ turn[d] = "ack" THEN Sets(batch[d][i])
             ELSE copies[batch[d][i]] = 0
      BY <3>1 DEF LettersInv, InHands
    <3>3. batch[d][i] # h
      BY <1>3, <2>2, <3>1, LettersDiffer
    <3>4. batch[d][i] \in Messages
      BY <1>7, <3>1
    <3>5. pending'[batch[d][i]] = d
      BY <1>5, <3>2, <3>3, <3>4
    <3> QED
      BY <3>1, <3>2, <3>5
  <2> QED
    BY <2>1, <2>2
<1>9. UnreadUnsent'
  BY <1>1 DEF LettersInv, UnreadUnsent
<1>10. LeftBehindNeedsFault'
  <2> SUFFICES ASSUME NEW m \in start + 1..cursor
               PROVE  \/ copies[m] = 1
                      \/ \E d \in Consumers : m \in ToSet(batch'[d])
                      \/ m < first
                      \/ pending'[m] # NoConsumer /\ errors' + crashes' > 0
                      \/ m \in unsent
    BY <1>1 DEF LeftBehindNeedsFault
  <2>1. m \in Messages
    BY <1>0, StreamAssumption DEF StreamTypes, Messages
  <2>2. CASE m = h
    BY <1>4, <2>2 DEF Sets
  <2>3. ASSUME m # h, NEW d \in Consumers, m \in ToSet(batch[d])
        PROVE  m \in ToSet(batch'[d])
    <3>1. PICK i \in 1..Len(batch[d]) : batch[d][i] = m
      BY <1>0, <2>3, InBatch
    <3>2. CASE d # c
      BY <1>2, <2>3, <3>2
    <3>3. CASE d = c
      <4>1. i # 1
        BY <2>3, <3>1, <3>3
      <4>2. i - 1 \in 1..Len(batch'[c]) /\ (i - 1) + 1 = i
        BY <1>2, <3>1, <3>3, <4>1
      <4>3. batch'[c][i - 1] = m
        BY <1>2, <3>1, <3>3, <4>2
      <4> QED
        BY <1>0, <3>3, <4>2, <4>3, InBatchNext DEF LetterTypes
    <3> QED
      BY <3>2, <3>3
  <2> QED
    BY <1>5, <1>6, <2>1, <2>2, <2>3 DEF LettersInv, LeftBehindNeedsFault
<1> QED
  BY <1>0, <1>8, <1>9, <1>10 DEF LettersInv

\* A letter is added to the target, or its add fails; or the replay dies.
LEMMA ReplayKeeps ==
  ASSUME LettersInv, NEW c \in Consumers, ReplayOne(c)
  PROVE  LettersInv'
<1> USE DEF streamVars, groupVars
<1> DEFINE h == batch[c][1]
<1>0. StreamTypes /\ StreamTypes'
  <2>1. StreamStep /\ StreamTypes
    BY DEF StreamStep, LettersInv, LetterTypes, ReplayOne
  <2> QED
    BY <2>1, StreamTypesKept
<1>1. /\ turn[c] = "call"
      /\ turn' = [turn EXCEPT ![c] = "ack"]
      /\ UNCHANGED <<last, first, group, start, cursor, pending, batch, crashes>>
  BY DEF ReplayOne, Accept, TurnTo
<1>2. Head(batch[c]) = h /\ h \in Messages /\ Len(batch[c]) \in Nat \ {0} /\ 1 \in 1..Len(batch[c])
  <2>1. turn[c] # "read"
    BY <1>1
  <2>2. Head(batch[c]) = h /\ h \in Messages /\ Len(batch[c]) \in Nat \ {0}
    BY <1>0, <2>1, RestOfBatch
  <2> QED
    BY <2>2
<1>3. copies[h] = 0 /\ h <= cursor /\ copies \in [Messages -> Nat] /\ unsent \subseteq Messages
  BY <1>1, <1>2 DEF LettersInv, LetterTypes, InHands
<1>4. \/ copies' = [copies EXCEPT ![h] = @ + 1] /\ UNCHANGED unsent
      \/ UNCHANGED copies /\ unsent' = unsent \union {h}
  BY <1>2 DEF ReplayOne, Sent
<1>5. /\ copies' \in [Messages -> Nat] /\ unsent' \subseteq Messages
      /\ Sets(h)'
      /\ \A m \in Messages : m # h => copies'[m] = copies[m]
      /\ unsent \subseteq unsent'
  <2>1. h' = h
    BY <1>1
  <2>2. CASE copies' = [copies EXCEPT ![h] = @ + 1] /\ UNCHANGED unsent
    <3>1. copies'[h] = 1 /\ copies' \in [Messages -> Nat]
      BY <1>2, <1>3, <2>2
    <3>2. \A m \in Messages : m # h => copies'[m] = copies[m]
      BY <1>2, <1>3, <2>2
    <3> QED
      BY <1>3, <2>1, <2>2, <3>1, <3>2 DEF Sets
  <2>3. CASE UNCHANGED copies /\ unsent' = unsent \union {h}
    BY <1>2, <1>3, <2>1, <2>3 DEF Sets
  <2> QED
    BY <1>4, <2>2, <2>3
<1>6. turn'[c] = "ack" /\ \A d \in Consumers \ {c} : turn'[d] = turn[d]
  BY <1>0, <1>1 DEF StreamTypes
<1>7. InHands'
  <2> SUFFICES ASSUME NEW d \in Consumers, NEW i \in 1..Len(batch[d])
               PROVE  /\ batch[d][i] <= cursor
                      /\ pending[batch[d][i]] = d
                      /\ batch[d][i] = batch[d][1] + i - 1
                      /\ IF i = 1 /\ turn'[d] = "ack" THEN Sets(batch[d][i])'
                         ELSE copies'[batch[d][i]] = 0
    BY <1>1 DEF InHands, Sets
  <2>1. /\ batch[d][i] <= cursor /\ pending[batch[d][i]] = d
        /\ batch[d][i] = batch[d][1] + i - 1
        /\ IF i = 1 /\ turn[d] = "ack" THEN Sets(batch[d][i]) ELSE copies[batch[d][i]] = 0
    BY DEF LettersInv, InHands
  <2>2. CASE d = c /\ i = 1
    BY <1>5, <1>6, <2>1, <2>2
  <2>3. CASE ~(d = c /\ i = 1)
    <3>1. batch[d][i] # h
      BY <1>2, <2>3, LettersDiffer
    <3>2. batch[d][i] \in Messages
      BY <1>0 DEF StreamTypes
    <3>3. copies'[batch[d][i]] = copies[batch[d][i]]
      BY <1>5, <3>1, <3>2
    <3>4. Sets(batch[d][i]) => Sets(batch[d][i])'
      BY <1>1, <1>5, <3>3 DEF Sets
    <3>5. (i = 1 /\ turn'[d] = "ack") <=> (i = 1 /\ turn[d] = "ack")
      BY <1>6, <2>3
    <3> QED
      BY <2>1, <3>3, <3>4, <3>5
  <2> QED
    BY <2>2, <2>3
<1>8. UnreadUnsent'
  <2>1. \A m \in Messages : m > cursor => m # h
    BY <1>0, <1>2, <1>3 DEF StreamTypes, Messages
  <2> QED
    BY <1>1, <1>5, <2>1 DEF LettersInv, UnreadUnsent
<1>9. LeftBehindNeedsFault'
  <2> SUFFICES ASSUME NEW m \in start + 1..cursor
               PROVE  \/ copies'[m] = 1
                      \/ \E d \in Consumers : m \in ToSet(batch[d])
                      \/ m < first
                      \/ pending[m] # NoConsumer /\ errors' + crashes' > 0
                      \/ m \in unsent'
    BY <1>1 DEF LeftBehindNeedsFault
  <2>1. m \in Messages
    BY <1>0, StreamAssumption DEF StreamTypes, Messages
  <2>2. h \in ToSet(batch[c])
    BY <1>0, <1>2, InBatch
  <2>3. errors + crashes > 0 => errors' + crashes' > 0
    <3>1. errors \in Nat /\ crashes \in Nat /\ (errors' = errors \/ errors' = errors + 1)
      BY <1>0 DEF StreamTypes, ReplayOne, Fault
    <3> QED
      BY <1>1, <3>1
  <2> QED
    BY <1>5, <2>1, <2>2, <2>3 DEF LettersInv, LeftBehindNeedsFault
<1> QED
  BY <1>0, <1>5, <1>7, <1>8, <1>9 DEF LettersInv, LetterTypes

LEMMA CrashKeeps ==
  ASSUME LettersInv, NEW c \in Consumers, Crash(c), UNCHANGED <<copies, unsent>>
  PROVE  LettersInv'
<1> USE DEF streamVars, groupVars
<1>0. StreamTypes /\ LetterTypes'
  <2>1. StreamStep /\ StreamTypes
    BY DEF StreamStep, LettersInv, LetterTypes
  <2> QED
    BY <2>1, StreamTypesKept DEF LettersInv, LetterTypes
<1>1. /\ batch'[c] = <<>>
      /\ \A d \in Consumers \ {c} : turn'[d] = turn[d] /\ batch'[d] = batch[d]
      /\ UNCHANGED <<last, first, group, start, cursor, pending, errors, copies, unsent>>
      /\ errors' + crashes' > 0
  BY <1>0 DEF Crash, TurnTo, Death, StreamTypes
<1>2. InHands'
  <2> SUFFICES ASSUME NEW d \in Consumers, NEW i \in 1..Len(batch'[d])
               PROVE  /\ batch'[d][i] <= cursor
                      /\ pending[batch'[d][i]] = d
                      /\ batch'[d][i] = batch'[d][1] + i - 1
                      /\ IF i = 1 /\ turn'[d] = "ack" THEN Sets(batch'[d][i])
                         ELSE copies[batch'[d][i]] = 0
    BY <1>1 DEF InHands, Sets
  <2>1. d # c
    <3>1. 1..Len(<<>>) = {}
      OBVIOUS
    <3> QED
      BY <1>1, <3>1
  <2> QED
    BY <1>1, <2>1 DEF LettersInv, InHands
<1>3. UnreadUnsent'
  BY <1>1 DEF LettersInv, UnreadUnsent
<1>4. LeftBehindNeedsFault'
  <2> SUFFICES ASSUME NEW m \in start + 1..cursor
               PROVE  \/ copies[m] = 1
                      \/ \E d \in Consumers : m \in ToSet(batch'[d])
                      \/ m < first
                      \/ pending[m] # NoConsumer
                      \/ m \in unsent
    BY <1>1 DEF LeftBehindNeedsFault
  <2>1. CASE m \in ToSet(batch[c])
    <3>1. PICK i \in 1..Len(batch[c]) : batch[c][i] = m
      BY <1>0, <2>1, InBatch
    <3>2. pending[m] = c
      BY <3>1 DEF LettersInv, InHands
    <3> QED
      BY <3>2, StreamAssumption
  <2>2. CASE m \notin ToSet(batch[c])
    BY <1>1, <2>2 DEF LettersInv, LeftBehindNeedsFault
  <2> QED
    BY <2>1, <2>2
<1> QED
  BY <1>0, <1>2, <1>3, <1>4 DEF LettersInv

LEMMA NextLettersInv == LettersInv /\ [LettersNext]_letterVars => LettersInv'
<1>1. ASSUME LettersInv, UNCHANGED letterVars PROVE LettersInv'
  <2>1. StreamTypes'
    BY <1>1 DEF letterVars, eventVars, LettersInv, LetterTypes, StreamTypes
  <2>2. LetterTypes' /\ InHands' /\ UnreadUnsent'
    BY <1>1, <2>1
    DEF letterVars, eventVars, LettersInv, LetterTypes, InHands, Sets, UnreadUnsent
  <2>3. LeftBehindNeedsFault'
    BY <1>1 DEF letterVars, eventVars, LettersInv, LeftBehindNeedsFault
  <2> QED
    BY <2>2, <2>3 DEF LettersInv
<1> QED
  BY <1>1, ProducerKeeps, ReadKeeps, AckKeeps, ReplayKeeps, CrashKeeps
  DEF LettersNext, ReplayStep

\* A letter that the group has passed over is on the target stream once or still in a
\* replayer's hands, unless it was trimmed, a failure left it pending, or the target's
\* add failed, which is the only way to lose it that nobody can see.
THEOREM LettersAccounted == LettersSpec => []LeftBehindNeedsFault
<1>1. LettersInv => LeftBehindNeedsFault
  BY DEF LettersInv
<1> QED
  BY <1>1, InitLettersInv, NextLettersInv, PTL DEF LettersSpec

-----------------------------------------------------------------------------
(***************************************************************************)
(* SharedLock: for any number of threads that share the object and any     *)
(* times that leave room for three delays.                                 *)
(***************************************************************************)
SharedTypes ==
    /\ left \in Nat /\ left <= Ttl
    /\ owner # Nobody => left >= 1
    /\ doing \in [Callers -> {"outside", "starting", "inside", "joining"}]
    /\ stop \in BOOLEAN
    /\ dogs \in Nat
    /\ alive \subseteq Nat
    /\ since \in [Callers -> Nat]
    /\ idle \in [Dogs -> Nat]
    /\ late \in Nat

Uses(t) == doing[t] \in {"starting", "inside", "joining"}

\* Who has acquired the lock and not yet given it back is alone, and has the key.
AloneWithKey ==
    \A t \in Callers : Uses(t) => owner = Object /\ \A s \in Callers : Uses(s) => s = t

\* A new thread's dog will be the next one of Dogs.
DogToCome == \A t \in Callers : doing[t] = "starting" => dogs + 1 \in Dogs

\* The key's life in the three phases: before there is a dog, while the newest one is
\* awake, and after it has been told to stop.
KeyLives ==
    \A t \in Callers :
        /\ doing[t] = "starting" => since[t] <= Delay /\ left + since[t] >= Ttl
        /\ doing[t] = "inside" =>
            /\ ~stop /\ dogs \in alive /\ dogs \in Dogs
            /\ idle[dogs] <= Interval + Delay
            /\ left + idle[dogs] >= Ttl - Delay
        /\ doing[t] = "joining" =>
            /\ since[t] <= Delay
            /\ left + since[t] >= Ttl - Interval - 2 * Delay

SharedInv == SharedTypes /\ (late = 0 => AloneWithKey /\ DogToCome /\ KeyLives)

LEMMA InitSharedInv == SharedInit => SharedInv
<1> SUFFICES ASSUME SharedInit PROVE SharedInv
  OBVIOUS
<1>1. SharedTypes
  <2>1. /\ left \in Nat /\ left <= Ttl /\ owner = Nobody
        /\ dogs \in Nat /\ late \in Nat
    BY SharedAssumption DEF SharedInit
  <2>2. stop \in BOOLEAN /\ alive \subseteq Nat
    BY DEF SharedInit
  <2>3. /\ doing \in [Callers -> {"outside", "starting", "inside", "joining"}]
        /\ since \in [Callers -> Nat] /\ idle \in [Dogs -> Nat]
    BY DEF SharedInit
  <2> QED
    BY <2>1, <2>2, <2>3 DEF SharedTypes
<1>2. \A t \in Callers : doing[t] = "outside"
  BY DEF SharedInit
<1>3. AloneWithKey /\ DogToCome /\ KeyLives
  BY <1>2 DEF AloneWithKey, DogToCome, KeyLives, Uses
<1> QED
  BY <1>1, <1>3 DEF SharedInv

LEMMA ThreadTypes ==
  ASSUME SharedTypes, NEW t \in Callers,
         Acquire(t) \/ StartRenew(t) \/ StopRenew(t) \/ Delete(t)
  PROVE  SharedTypes'
<1>1. /\ doing' \in [Callers -> {"outside", "starting", "inside", "joining"}]
      /\ since' \in [Callers -> Nat]
  BY DEF SharedTypes, Acquire, StartRenew, StopRenew, Delete, Reach
<1>2. left' \in Nat /\ left' <= Ttl /\ (owner' # Nobody => left' >= 1) /\ late' \in Nat
  BY SharedAssumption DEF SharedTypes, Acquire, StartRenew, StopRenew, Delete
<1>3. dogs' \in Nat /\ alive' \subseteq Nat
  <2>1. dogs' \in Nat
    BY DEF SharedTypes, Acquire, StartRenew, StopRenew, Delete
  <2>2. alive' = alive \/ alive' = alive \union {dogs'}
    BY DEF Acquire, StartRenew, StopRenew, Delete
  <2> QED
    BY <2>1, <2>2 DEF SharedTypes
<1>4. idle' \in [Dogs -> Nat]
  BY DEF SharedTypes, Acquire, StartRenew, StopRenew, Delete
<1>5. stop' \in BOOLEAN
  BY DEF SharedTypes, Acquire, StartRenew, StopRenew, Delete
<1> QED
  BY <1>1, <1>2, <1>3, <1>4, <1>5 DEF SharedTypes

LEMMA DogTypes ==
  ASSUME SharedTypes, NEW d \in Dogs, DogStops(d) \/ DogExtends(d)
  PROVE  SharedTypes'
<1>1. left' \in Nat /\ left' <= Ttl /\ (owner' # Nobody => left' >= 1)
  BY SharedAssumption DEF SharedTypes, DogStops, DogExtends
<1>2. idle' \in [Dogs -> Nat]
  BY DEF SharedTypes, DogStops, DogExtends
<1>3. alive' \subseteq Nat
  BY DEF SharedTypes, DogStops, DogExtends
<1>4. UNCHANGED <<doing, since, stop, dogs, late>>
  BY DEF DogStops, DogExtends
<1> QED
  BY <1>1, <1>2, <1>3, <1>4 DEF SharedTypes

LEMMA ClockTypes ==
  ASSUME SharedTypes, OtherActs \/ TimePasses
  PROVE  SharedTypes'
<1>1. CASE OtherActs
  BY <1>1, SharedAssumption DEF SharedTypes, OtherActs
<1>2. CASE TimePasses
  <2>1. left' \in Nat /\ left' <= Ttl /\ (owner' # Nobody => left' >= 1) /\ late' \in Nat
    BY <1>2, SharedAssumption DEF SharedTypes, TimePasses
  <2>2. idle' \in [Dogs -> Nat] /\ since' \in [Callers -> Nat]
    BY <1>2 DEF SharedTypes, TimePasses
  <2> QED
    BY <1>2, <2>1, <2>2 DEF SharedTypes, TimePasses
<1> QED
  BY <1>1, <1>2

LEMMA AcquireKeeps ==
  ASSUME SharedTypes, AloneWithKey, DogToCome, KeyLives, NEW t \in Callers, Acquire(t)
  PROVE  AloneWithKey' /\ DogToCome' /\ KeyLives'
<1>1. /\ owner = Nobody /\ owner' = Object /\ left' = Ttl
      /\ UNCHANGED <<stop, dogs, alive, idle, late>>
  BY DEF Acquire
<1>2. \A s \in Callers : ~Uses(s)
  BY <1>1, SharedAssumption DEF AloneWithKey
<1>3. /\ doing'[t] = "starting" /\ since'[t] = 0
      /\ \A s \in Callers \ {t} : doing'[s] = doing[s]
  BY DEF Acquire, Reach, SharedTypes
<1>4. AloneWithKey'
  BY <1>1, <1>2, <1>3 DEF AloneWithKey, Uses
<1>5. dogs + 1 \in Dogs
  <2>1. {s \in Callers : doing[s] = "starting"} = {}
    BY <1>2 DEF Uses
  <2>2. Cardinality({s \in Callers : doing[s] = "starting"}) = 0
    BY <2>1, FS_EmptySet
  <2>3. dogs + 0 < MaxAcquires
    BY <2>2 DEF Acquire
  <2> QED
    BY <2>3, SharedAssumption DEF SharedTypes, Dogs
<1>6. DogToCome'
  BY <1>1, <1>5 DEF DogToCome
<1>7. KeyLives'
  <2> SUFFICES ASSUME NEW s \in Callers
               PROVE  /\ doing'[s] = "starting" => since'[s] <= Delay /\ left' + since'[s] >= Ttl
                      /\ doing'[s] \notin {"inside", "joining"}
    BY DEF KeyLives
  <2>1. CASE s = t
    BY <1>1, <1>3, <2>1, SharedAssumption
  <2>2. CASE s # t
    BY <1>2, <1>3, <2>2 DEF Uses
  <2> QED
    BY <2>1, <2>2
<1> QED
  BY <1>4, <1>6, <1>7

\* A thread that has the lock and goes on to its next phase.
LEMMA StartKeeps ==
  ASSUME SharedTypes, AloneWithKey, DogToCome, KeyLives, NEW t \in Callers, StartRenew(t)
  PROVE  AloneWithKey' /\ DogToCome' /\ KeyLives'
<1>1. /\ doing[t] = "starting" /\ ~stop' /\ dogs' = dogs + 1 /\ dogs' \in alive'
      /\ idle' = [idle EXCEPT ![dogs'] = 0]
      /\ UNCHANGED <<owner, left, late>>
  BY DEF StartRenew
<1>2. owner = Object /\ \A s \in Callers \ {t} : ~Uses(s)
  BY <1>1 DEF AloneWithKey, Uses
<1>3. /\ doing'[t] = "inside"
      /\ \A s \in Callers \ {t} : doing'[s] = doing[s]
  BY DEF StartRenew, Reach, SharedTypes
<1>4. AloneWithKey'
  BY <1>1, <1>2, <1>3 DEF AloneWithKey, Uses
<1>5. DogToCome'
  BY <1>2, <1>3 DEF DogToCome, Uses
<1>6. dogs' \in Dogs
  BY <1>1 DEF DogToCome
<1>7. idle'[dogs'] = 0
  BY <1>1, <1>6 DEF SharedTypes
<1>8. left >= Ttl - Delay
  <2>1. since[t] <= Delay /\ left + since[t] >= Ttl /\ left \in Nat /\ since[t] \in Nat
    BY <1>1 DEF KeyLives, SharedTypes
  <2> QED
    BY <2>1, SharedAssumption
<1>9. KeyLives'
  <2> SUFFICES ASSUME NEW s \in Callers
               PROVE  /\ doing'[s] = "inside" =>
                          /\ ~stop' /\ dogs' \in alive' /\ dogs' \in Dogs
                          /\ idle'[dogs'] <= Interval + Delay
                          /\ left' + idle'[dogs'] >= Ttl - Delay
                      /\ doing'[s] \notin {"starting", "joining"}
    BY DEF KeyLives
  <2>1. CASE s = t
    BY <1>1, <1>3, <1>6, <1>7, <1>8, <2>1, SharedAssumption DEF SharedTypes
  <2>2. CASE s # t
    BY <1>2, <1>3, <2>2 DEF Uses
  <2> QED
    BY <2>1, <2>2
<1> QED
  BY <1>4, <1>5, <1>9

LEMMA StopKeeps ==
  ASSUME SharedTypes, AloneWithKey, DogToCome, KeyLives, NEW t \in Callers, StopRenew(t)
  PROVE  AloneWithKey' /\ DogToCome' /\ KeyLives'
<1>1. doing[t] = "inside" /\ UNCHANGED <<owner, left, dogs, alive, idle, late>>
  BY DEF StopRenew
<1>2. owner = Object /\ \A s \in Callers \ {t} : ~Uses(s)
  BY <1>1 DEF AloneWithKey, Uses
<1>3. /\ doing'[t] = "joining" /\ since'[t] = 0
      /\ \A s \in Callers \ {t} : doing'[s] = doing[s]
  BY DEF StopRenew, Reach, SharedTypes
<1>4. AloneWithKey'
  BY <1>1, <1>2, <1>3 DEF AloneWithKey, Uses
<1>5. DogToCome'
  BY <1>2, <1>3 DEF DogToCome, Uses
<1>6. left >= Ttl - Interval - 2 * Delay
  <2>1. /\ idle[dogs] <= Interval + Delay /\ left + idle[dogs] >= Ttl - Delay
        /\ left \in Nat /\ idle[dogs] \in Nat
    BY <1>1 DEF KeyLives, SharedTypes
  <2> QED
    BY <2>1, SharedAssumption
<1>7. KeyLives'
  <2> SUFFICES ASSUME NEW s \in Callers
               PROVE  /\ doing'[s] = "joining" =>
                          since'[s] <= Delay /\ left' + since'[s] >= Ttl - Interval - 2 * Delay
                      /\ doing'[s] \notin {"starting", "inside"}
    BY DEF KeyLives
  <2>1. CASE s = t
    BY <1>1, <1>3, <1>6, <2>1, SharedAssumption DEF SharedTypes
  <2>2. CASE s # t
    BY <1>2, <1>3, <2>2 DEF Uses
  <2> QED
    BY <2>1, <2>2
<1> QED
  BY <1>4, <1>5, <1>7

\* It deletes its own key: nobody else has used the object meanwhile.
LEMMA DeleteKeeps ==
  ASSUME SharedTypes, AloneWithKey, DogToCome, KeyLives, NEW t \in Callers, Delete(t)
  PROVE  AloneWithKey' /\ DogToCome' /\ KeyLives'
<1>1. \A s \in Callers \ {t} : ~Uses(s)
  BY DEF Delete, AloneWithKey, Uses
<1>2. /\ doing'[t] = "outside"
      /\ \A s \in Callers \ {t} : doing'[s] = doing[s]
  BY DEF Delete, Reach, SharedTypes
<1>3. \A s \in Callers : ~Uses(s)'
  BY <1>1, <1>2 DEF Uses
<1> QED
  BY <1>3 DEF AloneWithKey, DogToCome, KeyLives, Uses

LEMMA DogKeeps ==
  ASSUME SharedTypes, AloneWithKey, DogToCome, KeyLives, NEW d \in Dogs,
         DogStops(d) \/ DogExtends(d)
  PROVE  AloneWithKey' /\ DogToCome' /\ KeyLives'
<1>1. UNCHANGED <<owner, doing, since, stop, dogs, late>>
  BY DEF DogStops, DogExtends
<1>2. AloneWithKey' /\ DogToCome'
  BY <1>1 DEF AloneWithKey, DogToCome, Uses
<1>3. left' \in Nat /\ left' >= left
  BY SharedAssumption DEF SharedTypes, DogStops, DogExtends
<1>4. ASSUME NEW t \in Callers, doing[t] = "inside"
      PROVE  /\ dogs \in alive'
             /\ \/ idle'[dogs] = idle[dogs]
                \/ idle'[dogs] = 0 /\ left' = Ttl
  <2>1. owner = Object /\ ~stop /\ dogs \in alive /\ dogs \in Dogs
    BY <1>4 DEF AloneWithKey, KeyLives, Uses
  <2>2. left' = Ttl /\ idle' = [idle EXCEPT ![d] = 0] /\ UNCHANGED alive
    BY <2>1 DEF DogStops, DogExtends
  <2> QED
    BY <2>1, <2>2 DEF SharedTypes
<1>5. KeyLives'
  <2> SUFFICES ASSUME NEW t \in Callers
               PROVE  /\ doing[t] = "starting" => since[t] <= Delay /\ left' + since[t] >= Ttl
                      /\ doing[t] = "inside" =>
                          /\ ~stop /\ dogs \in alive' /\ dogs \in Dogs
                          /\ idle'[dogs] <= Interval + Delay
                          /\ left' + idle'[dogs] >= Ttl - Delay
                      /\ doing[t] = "joining" =>
                          /\ since[t] <= Delay
                          /\ left' + since[t] >= Ttl - Interval - 2 * Delay
    BY <1>1 DEF KeyLives
  <2>1. since[t] \in Nat /\ left \in Nat
    BY DEF SharedTypes
  <2>2. CASE doing[t] = "inside"
    <3>1. /\ ~stop /\ dogs \in Dogs /\ idle[dogs] \in Nat
          /\ idle[dogs] <= Interval + Delay /\ left + idle[dogs] >= Ttl - Delay
      BY <2>2 DEF KeyLives, SharedTypes
    <3> QED
      BY <1>3, <1>4, <2>1, <2>2, <3>1, SharedAssumption
  <2>3. CASE doing[t] # "inside"
    BY <1>3, <2>1, <2>3, SharedAssumption DEF KeyLives
  <2> QED
    BY <2>2, <2>3
<1> QED
  BY <1>2, <1>5

\* The other process acts only on a key that is free or its own.
LEMMA OtherKeeps ==
  ASSUME SharedTypes, AloneWithKey, DogToCome, KeyLives, OtherActs
  PROVE  AloneWithKey' /\ DogToCome' /\ KeyLives'
<1>1. \A t \in Callers : ~Uses(t)
  BY SharedAssumption DEF OtherActs, AloneWithKey
<1>2. \A t \in Callers : ~Uses(t)'
  BY <1>1 DEF OtherActs, Uses
<1> QED
  BY <1>2 DEF AloneWithKey, DogToCome, KeyLives, Uses

\* A tick that finds everybody on time leaves the key to its owner.
LEMMA TimeKeeps ==
  ASSUME SharedTimely, SharedTypes, AloneWithKey, DogToCome, KeyLives, TimePasses, OnTime
  PROVE  AloneWithKey' /\ DogToCome' /\ KeyLives'
<1>1. /\ left' = left - 1 /\ UNCHANGED <<doing, stop, dogs, alive>>
      /\ owner' = IF left = 1 THEN Nobody ELSE owner
      /\ left \in Nat /\ left >= 1
  BY DEF TimePasses, SharedTypes
<1>2. ASSUME NEW t \in Callers, doing[t] = "starting"
      PROVE  since'[t] <= Delay /\ left' + since'[t] >= Ttl /\ left > 1
  <2>1. /\ since[t] < Delay /\ left + since[t] >= Ttl /\ since[t] \in Nat
        /\ since'[t] = IF since[t] < Ttl THEN since[t] + 1 ELSE since[t]
    BY <1>2 DEF OnTime, KeyLives, SharedTypes, TimePasses
  <2>2. since'[t] = since[t] + 1
    BY <2>1, SharedAssumption DEF SharedTimely
  <2> QED
    BY <1>1, <2>1, <2>2, SharedAssumption DEF SharedTimely
<1>3. ASSUME NEW t \in Callers, doing[t] = "inside"
      PROVE  /\ idle'[dogs] <= Interval + Delay /\ left' + idle'[dogs] >= Ttl - Delay
             /\ left > 1
  <2>1. /\ ~stop /\ dogs \in alive /\ dogs \in Dogs /\ idle[dogs] \in Nat
        /\ left + idle[dogs] >= Ttl - Delay
    BY <1>3 DEF KeyLives, SharedTypes
  <2>2. /\ idle[dogs] < Interval + Delay
        /\ idle'[dogs] = IF idle[dogs] < Ttl THEN idle[dogs] + 1 ELSE idle[dogs]
    BY <2>1 DEF OnTime, TimePasses
  <2>3. idle'[dogs] = idle[dogs] + 1
    BY <2>1, <2>2, SharedAssumption DEF SharedTimely
  <2> QED
    BY <1>1, <2>1, <2>2, <2>3, SharedAssumption DEF SharedTimely
<1>4. ASSUME NEW t \in Callers, doing[t] = "joining"
      PROVE  /\ since'[t] <= Delay /\ left' + since'[t] >= Ttl - Interval - 2 * Delay
             /\ left > 1
  <2>1. /\ since[t] < Delay /\ left + since[t] >= Ttl - Interval - 2 * Delay /\ since[t] \in Nat
        /\ since'[t] = IF since[t] < Ttl THEN since[t] + 1 ELSE since[t]
    BY <1>4 DEF OnTime, KeyLives, SharedTypes, TimePasses
  <2>2. since'[t] = since[t] + 1
    BY <2>1, SharedAssumption DEF SharedTimely
  <2> QED
    BY <1>1, <2>1, <2>2, SharedAssumption DEF SharedTimely
<1>5. \A t \in Callers : Uses(t) => owner' = owner
  BY <1>1, <1>2, <1>3, <1>4 DEF Uses
<1>6. AloneWithKey' /\ DogToCome'
  BY <1>1, <1>5 DEF AloneWithKey, DogToCome, Uses
<1>7. KeyLives'
  BY <1>1, <1>2, <1>3, <1>4 DEF KeyLives
<1> QED
  BY <1>6, <1>7

LEMMA NextSharedInv ==
  ASSUME SharedTimely
  PROVE  SharedInv /\ [SharedNext]_sharedVars => SharedInv'
<1>1. ASSUME SharedInv, UNCHANGED sharedVars PROVE SharedInv'
  BY <1>1
  DEF sharedVars, SharedInv, SharedTypes, AloneWithKey, DogToCome, KeyLives, Uses
<1>2. ASSUME SharedInv, SharedNext PROVE SharedInv'
  <2>1. SharedTypes'
    BY <1>2, ThreadTypes, DogTypes, ClockTypes DEF SharedNext, SharedInv
  <2>2. late' = 0 => late = 0 /\ (TimePasses => OnTime)
    <3>1. CASE TimePasses
      <4>1. late \in Nat /\ late' = IF OnTime THEN late ELSE late + 1
        BY <1>2, <3>1 DEF TimePasses, SharedInv, SharedTypes
      <4> QED
        BY <4>1
    <3>2. CASE ~TimePasses
      BY <1>2, <3>2
      DEF SharedNext, Acquire, StartRenew, StopRenew, Delete, DogStops, DogExtends, OtherActs
    <3> QED
      BY <3>1, <3>2
  <2>3. late' = 0 => AloneWithKey' /\ DogToCome' /\ KeyLives'
    BY <1>2, <2>2, AcquireKeeps, StartKeeps, StopKeeps, DeleteKeeps, DogKeeps, OtherKeeps,
       TimeKeeps
    DEF SharedNext, SharedInv
  <2> QED
    BY <2>1, <2>3 DEF SharedInv
<1> QED
  BY <1>1, <1>2

\* As long as everybody is on time and the TTL leaves room for three delays, any number
\* of threads may share the object: one is inside, and the key is the object's.
THEOREM SharingSafety ==
  ASSUME SharedTimely
  PROVE  SharedSpec => []SharingIsSafeOnTime
<1>1. SharedInv => SharingIsSafeOnTime
  <2> SUFFICES ASSUME SharedInv, late = 0
               PROVE  /\ Cardinality({t \in Callers : Holds(t)}) <= 1
                      /\ (\E t \in Callers : Holds(t)) => owner = Object
    BY DEF SharingIsSafeOnTime
  <2>1. \A t \in Callers : Holds(t) => owner = Object /\ \A s \in Callers : Holds(s) => s = t
    BY DEF SharedInv, AloneWithKey, Holds, Uses
  <2>2. CASE \E t \in Callers : Holds(t)
    <3>1. PICK t \in Callers : Holds(t)
      BY <2>2
    <3>2. {s \in Callers : Holds(s)} = {t}
      BY <2>1, <3>1
    <3>3. Cardinality({t}) = 1
      BY FS_Singleton
    <3> QED
      BY <2>1, <3>2, <3>3
  <2>3. CASE ~ \E t \in Callers : Holds(t)
    <3>1. {s \in Callers : Holds(s)} = {}
      BY <2>3
    <3> QED
      BY <2>3, <3>1, FS_EmptySet
  <2> QED
    BY <2>2, <2>3
<1>2. SharedInv /\ [SharedNext]_sharedVars => SharedInv'
  BY NextSharedInv
<1> QED
  BY <1>1, <1>2, InitSharedInv, PTL DEF SharedSpec

-----------------------------------------------------------------------------
(***************************************************************************)
(* Connection: for any finite number of threads and any number of outages. *)
(***************************************************************************)
CallPlaces == Over \union {"pinging", "dropping", "building", "checking", "giving up", "returning"}

ConnectionTypes ==
    /\ client \in Nat \union {NoClient}
    /\ pools \in Nat
    /\ refused \in Nat
    /\ call \in [Threads -> CallPlaces]

In(places) == {t \in Threads : call[t] \in places}

Builders == Cardinality(In({"building"}))
Droppers == Cardinality(In({"dropping", "giving up"}))

\* Each time the client has been set to None every thread may build a pool, those that
\* are about to do so already included; a failed ping sets it to None once.
PoolsToCome == IF client = NoClient THEN Cardinality(Threads) ELSE Builders
PoolsPaid == pools + PoolsToCome <= Cardinality(Threads) * (refused - Droppers + 1)

\* A thread that counts on the client it has seen, and finds None, knows whom to blame.
PulledWhenNone ==
    \A t \in Threads :
        /\ call[t] \in {"pinging", "checking", "returning"} /\ client = NoClient => t \in pulled
        /\ call[t] = "AttributeError" => t \in pulled

ConnectionInv == ConnectionTypes /\ PoolsPaid /\ PulledWhenNone

\* A thread that changes its place is counted where it goes and no longer where it was.
LEMMA CallCounts ==
  ASSUME ConnectionTypes, NEW t \in Threads, NEW place, CallAt(t, place), NEW places
  PROVE  /\ Cardinality(In(places)) \in Nat
         /\ Cardinality(In(places)') = Cardinality(In(places))
              + (IF place \in places THEN 1 ELSE 0) - (IF call[t] \in places THEN 1 ELSE 0)
<1> DEFINE Rest == {s \in Threads \ {t} : call[s] \in places}
<1>1. call'[t] = place /\ \A s \in Threads \ {t} : call'[s] = call[s]
  BY DEF ConnectionTypes, CallAt
<1>2. IsFiniteSet(Rest) /\ t \notin Rest
  <2>1. Rest \subseteq Threads
    OBVIOUS
  <2> QED
    BY <2>1, ConnectionAssumption, FS_Subset
<1>3. /\ Cardinality(Rest) \in Nat
      /\ Cardinality(Rest \union {t}) = Cardinality(Rest) + 1
  BY <1>2, FS_CardinalityType, FS_AddElement
<1>4. In(places) = IF call[t] \in places THEN Rest \union {t} ELSE Rest
  BY DEF In
<1>5. In(places)' = IF place \in places THEN Rest \union {t} ELSE Rest
  BY <1>1 DEF In
<1> HIDE DEF Rest
<1>6. Cardinality(In(places)) = Cardinality(Rest) + (IF call[t] \in places THEN 1 ELSE 0)
  BY <1>3, <1>4
<1>7. Cardinality(In(places)') = Cardinality(Rest) + (IF place \in places THEN 1 ELSE 0)
  BY <1>3, <1>5
<1> QED
  BY <1>3, <1>6, <1>7

LEMMA BuildersCount ==
  ASSUME ConnectionTypes, NEW t \in Threads, NEW place, CallAt(t, place)
  PROVE  /\ Builders \in Nat
         /\ place # "building" /\ call[t] # "building" => Builders' = Builders
         /\ place # "building" /\ call[t] = "building" => Builders' = Builders - 1
<1> DEFINE P == {"building"}
<1>1. (place \in P <=> place = "building") /\ (call[t] \in P <=> call[t] = "building")
  OBVIOUS
<1> HIDE DEF P
<1>2. /\ Cardinality(In(P)) \in Nat
      /\ Cardinality(In(P)') = Cardinality(In(P))
              + (IF place \in P THEN 1 ELSE 0) - (IF call[t] \in P THEN 1 ELSE 0)
  BY CallCounts
<1>3. Builders = Cardinality(In(P)) /\ Builders' = Cardinality(In(P)')
  BY DEF Builders, P, In
<1> QED
  BY <1>1, <1>2, <1>3

LEMMA DroppersCount ==
  ASSUME ConnectionTypes, NEW t \in Threads, NEW place, CallAt(t, place)
  PROVE  LET failed == {"dropping", "giving up"}
         IN  /\ Droppers \in Nat
             /\ place \notin failed /\ call[t] \notin failed => Droppers' = Droppers
             /\ place \in failed /\ call[t] \notin failed => Droppers' = Droppers + 1
             /\ place \notin failed /\ call[t] \in failed => Droppers' = Droppers - 1
<1> DEFINE P == {"dropping", "giving up"}
<1>3. Droppers = Cardinality(In(P)) /\ Droppers' = Cardinality(In(P)')
  BY DEF Droppers, P, In
<1> HIDE DEF P
<1>2. /\ Cardinality(In(P)) \in Nat
      /\ Cardinality(In(P)') = Cardinality(In(P))
              + (IF place \in P THEN 1 ELSE 0) - (IF call[t] \in P THEN 1 ELSE 0)
  BY CallCounts
<1>4. /\ Droppers \in Nat
      /\ place \notin P /\ call[t] \notin P => Droppers' = Droppers
      /\ place \in P /\ call[t] \notin P => Droppers' = Droppers + 1
      /\ place \notin P /\ call[t] \in P => Droppers' = Droppers - 1
  BY <1>2, <1>3
<1> QED
  BY <1>4 DEF P

LEMMA InitConnectionInv == ConnectionInit => ConnectionInv
<1> SUFFICES ASSUME ConnectionInit PROVE ConnectionInv
  OBVIOUS
<1>1. ConnectionTypes
  BY DEF ConnectionInit, ConnectionTypes, CallPlaces, Over
<1>2. PoolsPaid
  <2>1. In({"dropping", "giving up"}) = {}
    BY DEF ConnectionInit, In
  <2>2. Droppers = 0
    BY <2>1, FS_EmptySet DEF Droppers
  <2>3. Cardinality(Threads) \in Nat
    BY ConnectionAssumption, FS_CardinalityType
  <2> QED
    BY <2>2, <2>3 DEF ConnectionInit, PoolsPaid, PoolsToCome
<1>3. PulledWhenNone
  BY DEF ConnectionInit, PulledWhenNone
<1> QED
  BY <1>1, <1>2, <1>3 DEF ConnectionInv

LEMMA ConnectionTypesKept ==
  ASSUME ConnectionTypes, ConnectionNext
  PROVE  ConnectionTypes'
<1>1. client' \in Nat \union {NoClient} /\ pools' \in Nat /\ refused' \in Nat
  <2>1. ASSUME NEW t \in Threads, PingOld(t) \/ PingNew(t)
        PROVE  UNCHANGED <<client, pools>> /\ refused' \in {refused, refused + 1}
    BY <2>1 DEF PingOld, PingNew, Ping
  <2>2. ASSUME NEW t \in Threads, Drop(t) \/ GiveUp(t)
        PROVE  UNCHANGED <<pools, refused>> /\ client' = NoClient
    BY <2>2 DEF Drop, GiveUp, SetNone
  <2>3. ASSUME NEW t \in Threads, Build(t)
        PROVE  pools' = pools + 1 /\ client' = pools + 1 /\ UNCHANGED refused
    BY <2>3 DEF Build
  <2>4. ASSUME NEW t \in Threads, Call(t) \/ Return(t)
        PROVE  UNCHANGED <<client, pools, refused>>
    BY <2>4 DEF Call, Return
  <2>5. GoDown \/ ComeBack => UNCHANGED <<client, pools, refused>>
    BY DEF GoDown, ComeBack
  <2> QED
    BY <2>1, <2>2, <2>3, <2>4, <2>5 DEF ConnectionTypes, ConnectionNext, CallStep
<1>2. call' \in [Threads -> CallPlaces]
  <2>1. ASSUME NEW t \in Threads, NEW place \in CallPlaces, CallAt(t, place)
        PROVE  call' \in [Threads -> CallPlaces]
    BY <2>1 DEF ConnectionTypes, CallAt
  <2>2. ASSUME NEW t \in Threads, Call(t) \/ CallStep(t)
        PROVE  \E place \in CallPlaces : CallAt(t, place)
    BY <2>2 DEF Call, CallStep, PingOld, PingNew, Ping, Drop, GiveUp, Build, Return, CallPlaces,
                Over
  <2>3. CASE GoDown \/ ComeBack
    BY <2>3 DEF GoDown, ComeBack, ConnectionTypes
  <2> QED
    BY <2>1, <2>2, <2>3 DEF ConnectionNext
<1> QED
  BY <1>1, <1>2 DEF ConnectionTypes

LEMMA PulledKept ==
  ASSUME ConnectionInv, ConnectionNext
  PROVE  PulledWhenNone'
<1>1. ConnectionTypes /\ PulledWhenNone
  BY DEF ConnectionInv
<1>2. ASSUME NEW t \in Threads, Call(t) PROVE PulledWhenNone'
  <2>1. call'[t] \in {"building", "pinging"} /\ (call'[t] = "pinging" => client # NoClient)
        /\ UNCHANGED client /\ pulled' = pulled \ {t}
        /\ \A s \in Threads \ {t} : call'[s] = call[s]
    BY <1>1, <1>2 DEF Call, CallAt, ConnectionTypes
  <2> QED
    BY <1>1, <2>1 DEF PulledWhenNone
<1>3. ASSUME NEW t \in Threads, PingOld(t) \/ PingNew(t) \/ Return(t) PROVE PulledWhenNone'
  <2>1. /\ call[t] \in {"pinging", "checking", "returning"}
        /\ client # NoClient \/ call'[t] = "AttributeError"
        /\ client # NoClient => call'[t] # "AttributeError"
        /\ UNCHANGED <<client, pulled>>
        /\ \A s \in Threads \ {t} : call'[s] = call[s]
    BY <1>1, <1>3 DEF PingOld, PingNew, Ping, Return, CallAt, ConnectionTypes
  <2> QED
    BY <1>1, <2>1 DEF PulledWhenNone
<1>4. ASSUME NEW t \in Threads, Drop(t) \/ GiveUp(t) PROVE PulledWhenNone'
  <2>1. /\ call'[t] \in {"building", "RedisError"}
        /\ pulled' = pulled \union {s \in Threads \ {t} : call[s] \notin Over}
        /\ \A s \in Threads \ {t} : call'[s] = call[s]
    BY <1>1, <1>4 DEF Drop, GiveUp, SetNone, CallAt, ConnectionTypes
  <2> QED
    BY <1>1, <2>1 DEF PulledWhenNone, Over
<1>5. ASSUME NEW t \in Threads, Build(t) PROVE PulledWhenNone'
  <2>1. /\ client' # NoClient /\ UNCHANGED pulled
        /\ call'[t] = "checking"
        /\ \A s \in Threads \ {t} : call'[s] = call[s]
    BY <1>1, <1>5, ConnectionAssumption DEF Build, CallAt, ConnectionTypes
  <2> QED
    BY <1>1, <2>1 DEF PulledWhenNone
<1>6. CASE GoDown \/ ComeBack
  BY <1>1, <1>6 DEF GoDown, ComeBack, PulledWhenNone
<1> QED
  BY <1>2, <1>3, <1>4, <1>5, <1>6 DEF ConnectionNext, CallStep

LEMMA OneOnBothSides ==
  \A r, d \in Nat : (r + 1) - (d + 1) + 1 = r - d + 1
  OBVIOUS

LEMMA PaidKept ==
  ASSUME ConnectionInv, ConnectionNext
  PROVE  PoolsPaid'
<1> DEFINE N == Cardinality(Threads)
<1>0. ConnectionTypes /\ PoolsPaid /\ N \in Nat
  BY ConnectionAssumption, FS_CardinalityType DEF ConnectionInv
<1>1. Builders \in Nat /\ Droppers \in Nat
  <2>1. In({"building"}) \subseteq Threads /\ In({"dropping", "giving up"}) \subseteq Threads
    BY DEF In
  <2> QED
    BY <2>1, ConnectionAssumption, FS_Subset, FS_CardinalityType DEF Builders, Droppers
<1>2. Builders <= N
  <2>1. In({"building"}) \subseteq Threads
    BY DEF In
  <2> QED
    BY <2>1, ConnectionAssumption, FS_Subset DEF Builders
<1>3. pools \in Nat /\ refused \in Nat /\ N \in Nat
  BY <1>0 DEF ConnectionTypes
<1> HIDE DEF N
<1>4. pools + PoolsToCome <= N * (refused - Droppers + 1)
  BY <1>0 DEF PoolsPaid, N
<1>5. ASSUME NEW t \in Threads, Call(t) PROVE PoolsPaid'
  <2>1. PICK place \in {"building", "pinging"} : CallAt(t, place)
           /\ (place = "building" <=> client = NoClient)
    BY <1>5 DEF Call
  <2>2. call[t] \notin {"building", "dropping", "giving up"}
    BY <1>5 DEF Call, Over
  <2>3. UNCHANGED <<client, pools, refused>>
    BY <1>5 DEF Call
  <2>4. Droppers' = Droppers
    BY <1>0, <2>1, <2>2, DroppersCount
  <2>5. client # NoClient => Builders' = Builders
    BY <1>0, <2>1, <2>2, BuildersCount
  <2> QED
    BY <2>5, <1>4, <2>3, <2>4 DEF PoolsPaid, PoolsToCome, N
<1>6. ASSUME NEW t \in Threads, PingOld(t) \/ PingNew(t) PROVE PoolsPaid'
  <2>1. PICK place \in {"AttributeError", "returning", "dropping", "giving up"} :
          /\ CallAt(t, place)
          /\ place \in {"dropping", "giving up"} => refused' = refused + 1
          /\ place \notin {"dropping", "giving up"} => refused' = refused
    <3>1. CASE client = NoClient
      BY <1>6, <3>1 DEF PingOld, PingNew, Ping
    <3>2. CASE client # NoClient /\ up
      BY <1>6, <3>2 DEF PingOld, PingNew, Ping
    <3>3. CASE client # NoClient /\ ~up
      BY <1>6, <3>3 DEF PingOld, PingNew, Ping
    <3> QED
      BY <3>1, <3>2, <3>3
  <2>2. call[t] \notin {"building", "dropping", "giving up"} /\ UNCHANGED <<client, pools>>
    BY <1>6 DEF PingOld, PingNew, Ping
  <2>3. Builders' = Builders
    BY <1>0, <2>1, <2>2, BuildersCount
  <2>4. \/ Droppers' = Droppers /\ refused' = refused
        \/ Droppers' = Droppers + 1 /\ refused' = refused + 1
    BY <1>0, <2>1, <2>2, DroppersCount
  <2>5. refused' - Droppers' + 1 = refused - Droppers + 1
    <3>1. CASE Droppers' = Droppers /\ refused' = refused
      BY <3>1
    <3>2. CASE Droppers' = Droppers + 1 /\ refused' = refused + 1
      BY <1>1, <1>3, <3>2, OneOnBothSides
    <3> QED
      BY <2>4, <3>1, <3>2
  <2>6. pools' + PoolsToCome' = pools + PoolsToCome
    BY <2>2, <2>3 DEF PoolsToCome
  <2> QED
    BY <1>4, <2>5, <2>6 DEF PoolsPaid, N
<1>7. ASSUME NEW t \in Threads, Drop(t) \/ GiveUp(t) PROVE PoolsPaid'
  <2>1. PICK place \in {"building", "RedisError"} : CallAt(t, place)
    BY <1>7 DEF Drop, GiveUp
  <2>2. /\ call[t] \in {"dropping", "giving up"} /\ client' = NoClient
        /\ UNCHANGED <<pools, refused>>
    BY <1>7 DEF Drop, GiveUp, SetNone
  <2>3. Droppers' = Droppers - 1
    BY <1>0, <2>1, <2>2, DroppersCount
  <2>4. N * (refused' - Droppers' + 1) = N * (refused - Droppers + 1) + N
    <3>1. refused' - Droppers' + 1 = (refused - Droppers + 1) + 1
      <4> DEFINE d == Droppers
                 e == Droppers'
      <4>1. d \in Nat /\ e = d - 1 /\ refused' = refused
        BY <1>1, <2>2, <2>3
      <4> HIDE DEF d, e
      <4>2. refused' - e + 1 = (refused - d + 1) + 1
        BY <1>3, <4>1
      <4> QED
        BY <4>2 DEF d, e
    <3>2. \A k \in Int : N * (k + 1) = N * k + N
      BY <1>3
    <3>3. refused - Droppers + 1 \in Int
      BY <1>1, <1>3
    <3> QED
      BY <3>1, <3>2, <3>3
  <2>6. N * (refused - Droppers + 1) \in Int
    BY <1>1, <1>3
  <2>8. PoolsToCome \in Nat
    BY <1>1, <1>3 DEF PoolsToCome, N
  <2>5. pools <= N * (refused - Droppers + 1)
    BY <1>3, <1>4, <2>6, <2>8
  <2>7. pools + N <= N * (refused - Droppers + 1) + N
    BY <1>3, <2>5, <2>6
  <2> QED
    BY <2>2, <2>4, <2>7 DEF PoolsPaid, PoolsToCome, N
<1>8. ASSUME NEW t \in Threads, Build(t) PROVE PoolsPaid'
  <2>1. /\ call[t] = "building" /\ CallAt(t, "checking") /\ client' # NoClient
        /\ pools' = pools + 1 /\ UNCHANGED refused
    BY <1>3, <1>8, ConnectionAssumption DEF Build
  <2>2. Builders' = Builders - 1 /\ Droppers' = Droppers
    <3>1. Builders' = Builders - 1
      BY <1>0, <2>1, BuildersCount
    <3>2. Droppers' = Droppers
      <4>1. PICK place : place = "checking"
        OBVIOUS
      <4>2. call[t] \notin {"dropping", "giving up"} /\ place \notin {"dropping", "giving up"}
        BY <2>1, <4>1
      <4>3. CallAt(t, place)
        BY <2>1, <4>1
      <4> QED
        BY <1>0, <4>2, <4>3, DroppersCount
    <3> QED
      BY <3>1, <3>2
  <2>3. N * (refused - Droppers + 1) \in Int
    BY <1>1, <1>3
  <2>4. pools + Builders <= N * (refused - Droppers + 1)
    <3>1. PoolsToCome \in Nat /\ Builders <= PoolsToCome
      BY <1>1, <1>2, <1>3 DEF PoolsToCome, N
    <3> QED
      BY <1>1, <1>3, <1>4, <2>3, <3>1
  <2>5. pools' + Builders' = pools + Builders
    BY <1>1, <1>3, <2>1, <2>2
  <2> QED
    BY <2>1, <2>2, <2>4, <2>5 DEF PoolsPaid, PoolsToCome, N
<1>9. ASSUME NEW t \in Threads, Return(t) PROVE PoolsPaid'
  <2>1. PICK place \in {"AttributeError", "client"} : CallAt(t, place)
    BY <1>9 DEF Return
  <2>2. call[t] = "returning" /\ UNCHANGED <<client, pools, refused>>
    BY <1>9 DEF Return
  <2>3. Builders' = Builders /\ Droppers' = Droppers
    BY <1>0, <2>1, <2>2, BuildersCount, DroppersCount
  <2> QED
    BY <1>4, <2>2, <2>3 DEF PoolsPaid, PoolsToCome, N
<1>10. CASE GoDown \/ ComeBack
  BY <1>4, <1>10 DEF GoDown, ComeBack, PoolsPaid, PoolsToCome, Builders, Droppers, In, N
<1> QED
  BY <1>5, <1>6, <1>7, <1>8, <1>9, <1>10 DEF ConnectionNext, CallStep

LEMMA NextConnectionInv == ConnectionInv /\ [ConnectionNext]_connectionVars => ConnectionInv'
<1>1. ASSUME ConnectionInv, UNCHANGED connectionVars PROVE ConnectionInv'
  BY <1>1
  DEF connectionVars, ConnectionInv, ConnectionTypes, PoolsPaid, PoolsToCome, Builders, Droppers,
      In, PulledWhenNone
<1> QED
  BY <1>1, ConnectionTypesKept, PaidKept, PulledKept DEF ConnectionInv

\* An AttributeError always has another thread behind it, and for every failed ping, and
\* for the first use, each thread builds one pool at the most.
THEOREM ClientSafety == ConnectionSpec => []PulledByAnother
<1>1. ConnectionInv => PulledByAnother
  <2> SUFFICES ASSUME ConnectionInv PROVE PulledByAnother
    OBVIOUS
  <2> DEFINE N == Cardinality(Threads)
  <2>1. /\ N \in Nat /\ pools \in Nat /\ refused \in Nat
        /\ Builders \in Nat /\ Droppers \in Nat
    <3>1. In({"building"}) \subseteq Threads /\ In({"dropping", "giving up"}) \subseteq Threads
      BY DEF In
    <3>2. IsFiniteSet(In({"building"})) /\ IsFiniteSet(In({"dropping", "giving up"}))
      BY <3>1, ConnectionAssumption, FS_Subset
    <3> QED
      BY <3>2, ConnectionAssumption, FS_CardinalityType
      DEF Builders, Droppers, ConnectionInv, ConnectionTypes
  <2>2. pools + PoolsToCome <= N * (refused - Droppers + 1)
    BY DEF ConnectionInv, PoolsPaid
  <2>3. PoolsToCome \in Nat
    BY <2>1 DEF PoolsToCome
  <2> HIDE DEF N
  <2>4. N * (refused - Droppers + 1) = N * (refused + 1) - N * Droppers
    BY <2>1
  <2>5. N * Droppers \in Nat /\ N * (refused + 1) \in Nat
    BY <2>1
  <2>6. pools <= N * (refused + 1)
    BY <2>1, <2>2, <2>3, <2>4, <2>5
  <2> QED
    BY <2>6 DEF PulledByAnother, PoolsBounded, ConnectionInv, PulledWhenNone, N
<1> QED
  BY <1>1, InitConnectionInv, NextConnectionInv, PTL DEF ConnectionSpec

-----------------------------------------------------------------------------
(***************************************************************************)
(* Bloom: for any elements, hash values, and bitmap.                       *)
(***************************************************************************)
BloomTypes ==
    /\ adding \in [Elements -> 0..(HashCount + 1)]
    /\ asking \in [Elements -> 0..HashCount]
    /\ before \in [Elements -> SUBSET Elements]
    /\ added \in SUBSET Elements

Has(e, n) == \A i \in 1..HashCount : i < n => Positions(e)[i] \in ones

\* What has been set stays set: all positions of an element whose add returned True, and
\* those before the next of an add under way.  Who asks knew no more than has been added.
BitsKept ==
    /\ \A e \in Elements : adding[e] \in 1..HashCount => Has(e, adding[e])
    /\ \A e \in added : Has(e, HashCount + 1)
    /\ \A e \in Elements : before[e] \subseteq added
    /\ missed = {}

BloomInv == BloomTypes /\ BitsKept

LEMMA PositionsOf ==
  ASSUME NEW e
  PROVE  DOMAIN Positions(e) = 1..HashCount /\ Len(Positions(e)) = HashCount
BY BloomAssumption DEF Positions

LEMMA BloomTypesKept ==
  ASSUME BloomTypes, BloomNext
  PROVE  BloomTypes'
<1>1. adding' \in [Elements -> 0..(HashCount + 1)]
  <2>1. ASSUME NEW e \in Elements, AddElement(e) \/ SetPosition(e)
        PROVE  adding' \in [Elements -> 0..(HashCount + 1)]
    <3>1. PICK n \in 0..(HashCount + 1) : adding' = [adding EXCEPT ![e] = n]
      BY <2>1, BloomAssumption DEF AddElement, SetPosition, BloomTypes
    <3> QED
      BY <3>1 DEF BloomTypes
  <2>2. ASSUME NEW S \in SUBSET Elements, AddBatch(S)
        PROVE  adding' \in [Elements -> 0..(HashCount + 1)]
    BY <2>2, BloomAssumption DEF AddBatch, BloomTypes
  <2>3. ASSUME NEW d \in Elements, NEW e \in Elements, Exists(e) \/ GetPosition(e) \/ ExistsBatch(d, e)
        PROVE  UNCHANGED adding
    BY <2>3 DEF Exists, GetPosition, ExistsBatch
  <2> QED
    BY <2>1, <2>2, <2>3 DEF BloomNext, BloomTypes
<1>2. asking' \in [Elements -> 0..HashCount]
  <2>1. ASSUME NEW e \in Elements, Exists(e) \/ GetPosition(e)
        PROVE  asking' \in [Elements -> 0..HashCount]
    <3>1. PICK n \in 0..HashCount : asking' = [asking EXCEPT ![e] = n]
      BY <2>1, BloomAssumption DEF Exists, GetPosition, Conclude, BloomTypes
    <3> QED
      BY <3>1 DEF BloomTypes
  <2>2. ASSUME NEW e \in Elements, AddElement(e) \/ SetPosition(e) PROVE UNCHANGED asking
    BY <2>2 DEF AddElement, SetPosition
  <2>3. ASSUME NEW S \in SUBSET Elements, AddBatch(S) PROVE UNCHANGED asking
    BY <2>3 DEF AddBatch
  <2>4. ASSUME NEW d \in Elements, NEW e \in Elements, ExistsBatch(d, e) PROVE UNCHANGED asking
    BY <2>4 DEF ExistsBatch
  <2> QED
    BY <2>1, <2>2, <2>3, <2>4 DEF BloomNext, BloomTypes
<1>3. before' \in [Elements -> SUBSET Elements]
  <2>1. ASSUME NEW e \in Elements, Exists(e) \/ GetPosition(e)
        PROVE  before' \in [Elements -> SUBSET Elements]
    <3>1. before' = before \/ \E S \in SUBSET Elements : before' = [before EXCEPT ![e] = S]
      BY <2>1 DEF Exists, GetPosition, Conclude, BloomTypes
    <3> QED
      BY <3>1 DEF BloomTypes
  <2>2. ASSUME NEW e \in Elements, AddElement(e) \/ SetPosition(e) PROVE UNCHANGED before
    BY <2>2 DEF AddElement, SetPosition
  <2>3. ASSUME NEW S \in SUBSET Elements, AddBatch(S) PROVE UNCHANGED before
    BY <2>3 DEF AddBatch
  <2>4. ASSUME NEW d \in Elements, NEW e \in Elements, ExistsBatch(d, e) PROVE UNCHANGED before
    BY <2>4 DEF ExistsBatch
  <2> QED
    BY <2>1, <2>2, <2>3, <2>4 DEF BloomNext, BloomTypes
<1>4. added' \in SUBSET Elements
  <2>1. ASSUME NEW e \in Elements, AddElement(e) \/ SetPosition(e) PROVE added' \in SUBSET Elements
    BY <2>1 DEF AddElement, SetPosition, BloomTypes
  <2>2. ASSUME NEW S \in SUBSET Elements, AddBatch(S) PROVE added' \in SUBSET Elements
    BY <2>2 DEF AddBatch, BloomTypes
  <2>3. ASSUME NEW e \in Elements, Exists(e) \/ GetPosition(e) PROVE UNCHANGED added
    BY <2>3 DEF Exists, GetPosition
  <2>4. ASSUME NEW d \in Elements, NEW e \in Elements, ExistsBatch(d, e) PROVE UNCHANGED added
    BY <2>4 DEF ExistsBatch
  <2> QED
    BY <2>1, <2>2, <2>3, <2>4 DEF BloomNext, BloomTypes
<1> QED
  BY <1>1, <1>2, <1>3, <1>4 DEF BloomTypes

\* The answers for two elements are those of each: the list of the bits is cut where the
\* positions of the first end.
LEMMA BatchSound ==
  ASSUME BloomInv, NEW d \in Elements, NEW e \in Elements, ExistsBatch(d, e)
  PROVE  missed' = {}
<1> DEFINE positions == Positions(d) \o Positions(e)
           results == [p \in DOMAIN positions |-> positions[p] \in ones]
           No(i) == FALSE \in ToSet(Group(results, i))
<1>0. HashCount \in Nat \ {0}
  BY BloomAssumption
<1>1. /\ DOMAIN positions = 1..(HashCount + HashCount)
      /\ \A i \in 1..HashCount : positions[i] = Positions(d)[i]
                              /\ positions[HashCount + i] = Positions(e)[i]
  BY <1>0, PositionsOf
<1>2. \A i \in 1..HashCount :
        /\ Positions(d)[i] \in ones => results[i] = TRUE
        /\ Positions(e)[i] \in ones => results[HashCount + i] = TRUE
  <2> HIDE DEF positions
  <2>1. \A p \in DOMAIN positions : positions[p] \in ones => results[p] = TRUE
    OBVIOUS
  <2>2. \A i \in 1..HashCount : i \in DOMAIN positions /\ HashCount + i \in DOMAIN positions
    BY <1>0, <1>1
  <2> QED
    BY <1>1, <2>1, <2>2
<1> HIDE DEF positions, results
<1>3. d \in added => ~No(0)
  <2> SUFFICES ASSUME d \in added PROVE ~No(0)
    OBVIOUS
  <2>1. \A i \in 1..HashCount : results[i] = TRUE
    BY <1>0, <1>2 DEF BloomInv, BitsKept, Has
  <2>2. /\ DOMAIN Group(results, 0) = 1..HashCount
        /\ \A i \in 1..HashCount : Group(results, 0)[i] = results[i]
    BY <1>0 DEF Group
  <2> QED
    BY <2>1, <2>2 DEF ToSet
<1>4. e \in added => ~No(1)
  <2> SUFFICES ASSUME e \in added PROVE ~No(1)
    OBVIOUS
  <2>1. \A i \in 1..HashCount : results[HashCount + i] = TRUE
    BY <1>0, <1>2 DEF BloomInv, BitsKept, Has
  <2>2. /\ DOMAIN Group(results, 1) = 1..HashCount
        /\ \A i \in 1..HashCount : Group(results, 1)[i] = results[HashCount + i]
    BY <1>0 DEF Group
  <2> QED
    BY <2>1, <2>2 DEF ToSet
<1>5. missed' = missed
      \/ missed' = missed \union ({x \in {d, e} : (x = d /\ No(0)) \/ (x = e /\ No(1))} \cap added)
  BY DEF ExistsBatch, Absent, positions, results
<1> HIDE DEF No
<1> QED
  BY <1>3, <1>4, <1>5 DEF BloomInv, BitsKept

LEMMA NextBloomInv == BloomInv /\ [BloomNext]_bloomVars => BloomInv'
<1> SUFFICES ASSUME BloomInv, [BloomNext]_bloomVars PROVE BloomInv'
  OBVIOUS
<1> USE DEF BloomInv
<1>0. HashCount \in Nat \ {0}
  BY BloomAssumption
<1>1. ASSUME NEW e \in Elements, AddElement(e) PROVE BitsKept'
  BY <1>0, <1>1 DEF AddElement, BloomTypes, BitsKept, Has
<1>2. ASSUME NEW e \in Elements, SetPosition(e) PROVE BitsKept'
  <2>1. /\ adding[e] \in 1..HashCount /\ ones \subseteq ones'
        /\ \A x \in Elements \ {e} : adding'[x] = adding[x]
        /\ UNCHANGED <<before, missed>>
    BY <1>2 DEF SetPosition, BloomTypes
  <2>2. \/ /\ Positions(e)[adding[e]] \in ones' /\ adding'[e] = adding[e] + 1
           /\ added' = IF adding[e] = HashCount THEN added \union {e} ELSE added
        \/ adding'[e] = HashCount + 1 /\ added' = added
    BY <1>2 DEF SetPosition, BloomTypes
  <2>3. Has(e, adding[e])
    BY <2>1 DEF BitsKept
  <2>4. CASE /\ Positions(e)[adding[e]] \in ones' /\ adding'[e] = adding[e] + 1
             /\ added' = IF adding[e] = HashCount THEN added \union {e} ELSE added
    <3>1. \A i \in 1..HashCount : i < adding[e] + 1 => Positions(e)[i] \in ones'
      <4>1. \A i \in 1..HashCount : i < adding[e] + 1 => i < adding[e] \/ i = adding[e]
        BY <1>0, <2>1
      <4> QED
        BY <2>1, <2>3, <2>4, <4>1 DEF Has
    <3>2. \A x \in Elements : adding'[x] \in 1..HashCount =>
             \A i \in 1..HashCount : i < adding'[x] => Positions(x)[i] \in ones'
      BY <2>1, <2>4, <3>1 DEF BitsKept, Has
    <3>3. \A x \in added' : Has(x, HashCount + 1)'
      BY <2>1, <2>4, <3>1 DEF BitsKept, Has
    <3> QED
      BY <2>1, <2>4, <3>2, <3>3 DEF BitsKept, Has
  <2>5. CASE adding'[e] = HashCount + 1 /\ added' = added
    BY <1>0, <2>1, <2>5 DEF BitsKept, Has
  <2> QED
    BY <2>2, <2>4, <2>5
<1>3. ASSUME NEW S \in SUBSET Elements, AddBatch(S) PROVE BitsKept'
  <2>1. /\ ones \subseteq ones' /\ UNCHANGED <<before, missed>>
        /\ \A x \in S : adding'[x] = HashCount + 1
        /\ \A x \in Elements \ S : adding'[x] = adding[x]
    BY <1>3 DEF AddBatch
  <2>2. \/ added' = added
        \/ added' = added \union S /\ \A x \in S : ToSet(Positions(x)) \subseteq ones'
    BY <1>3 DEF AddBatch
  <2>3. \A x \in added' : Has(x, HashCount + 1)'
    BY <2>1, <2>2, PositionsOf DEF BitsKept, Has, ToSet
  <2> QED
    BY <1>0, <2>1, <2>2, <2>3 DEF BitsKept, Has
<1>4. ASSUME NEW e \in Elements, Exists(e) PROVE BitsKept'
  BY <1>4 DEF Exists, BloomTypes, BitsKept, Has
<1>5. ASSUME NEW e \in Elements, GetPosition(e) PROVE BitsKept'
  <2>1. asking[e] \in 1..HashCount /\ UNCHANGED <<ones, adding, added>>
    BY <1>0, <1>5 DEF GetPosition, BloomTypes
  <2>2. before' = before \/ before' = [before EXCEPT ![e] = {}]
    BY <1>5 DEF GetPosition, Conclude
  <2>3. \/ missed' = missed \/ missed' = missed \union ({} \cap before[e])
        \/ Positions(e)[asking[e]] \notin ones /\ missed' = missed \union ({e} \cap before[e])
    BY <1>5 DEF GetPosition, Conclude, Absent
  <2>4. Positions(e)[asking[e]] \notin ones => e \notin added
    BY <1>0, <2>1 DEF BitsKept, Has
  <2>5. missed' = {}
    BY <2>3, <2>4 DEF BitsKept
  <2>6. \A x \in Elements : before'[x] \subseteq added'
    BY <2>1, <2>2 DEF BitsKept, BloomTypes
  <2> QED
    BY <2>1, <2>5, <2>6 DEF BitsKept, Has
<1>6. ASSUME NEW d \in Elements, NEW e \in Elements, ExistsBatch(d, e) PROVE BitsKept'
  <2>1. UNCHANGED <<ones, adding, added, before>>
    BY <1>6 DEF ExistsBatch
  <2> QED
    BY <1>6, <2>1, BatchSound DEF BitsKept, Has
<1>7. CASE UNCHANGED bloomVars
  BY <1>7 DEF bloomVars, BloomTypes, BitsKept, Has
<1>8. BloomNext => BloomTypes'
  BY BloomTypesKept
<1> QED
  BY <1>1, <1>2, <1>3, <1>4, <1>5, <1>6, <1>7, <1>8 DEF BloomNext

\* However adds and questions interleave, in batches or one by one, and whichever of them
\* raises: the filter has no false negative.
THEOREM NoFalseNegative == BloomSpec => []NeverLosesAdded
<1>1. BloomInit => BloomInv
  BY BloomAssumption DEF BloomInit, BloomInv, BloomTypes, BitsKept, Has
<1>2. BloomInv => NeverLosesAdded
  BY DEF BloomInv, BitsKept, NeverLosesAdded
<1> QED
  BY <1>1, <1>2, NextBloomInv, PTL DEF BloomSpec

-----------------------------------------------------------------------------
(***************************************************************************)
(* Idempotency: for any finite number of threads and any TTL.              *)
(***************************************************************************)
IdempotencyTypes ==
    /\ ticks \in Nat /\ requestDies \in Nat /\ troubles \in Nat
    /\ phase \in [Submitters -> Ended \union {"read", "func"}]
    /\ fresh \in Seq(Nat)

\* The key of the request lives on for the TTL after each answer "new".
SpacedOut ==
    /\ \A i \in DOMAIN fresh : fresh[i] + RequestTtl <= requestDies
    /\ \A i, j \in DOMAIN fresh : i < j => fresh[i] + RequestTtl <= fresh[j]

\* What stands in the way of a first answer "new" is trouble.
TroubleSeen ==
    fresh = <<>> => (~reachable \/ requestDies > 0 \/ turnedAway => troubles > 0)

IdempotencyInv == IdempotencyTypes /\ SpacedOut /\ TroubleSeen

LEMMA IdempotencyTypesKept ==
  ASSUME IdempotencyTypes, IdempotencyNext
  PROVE  IdempotencyTypes'
<1>1. CASE Ask
  <2>1. /\ UNCHANGED <<phase, ticks>>
        /\ troubles' \in {troubles, troubles + 1}
    BY <1>1 DEF Ask, TakenForNew, TakenForOld, Trouble
  <2>2. requestDies' \in {requestDies, ticks + RequestTtl}
    BY <1>1 DEF Ask, TakenForNew, TakenForOld, SetNx
  <2>3. fresh' = fresh \/ fresh' = Append(fresh, ticks)
    BY <1>1 DEF Ask, TakenForNew, TakenForOld
  <2>4. fresh' \in Seq(Nat)
    BY <2>3 DEF IdempotencyTypes
  <2> QED
    BY <2>1, <2>2, <2>4, IdempotencyAssumption DEF IdempotencyTypes
<1>2. ASSUME NEW t \in Submitters, Submit(t) \/ SetProcessing(t) \/ Func(t)
      PROVE  IdempotencyTypes'
  <2>1. UNCHANGED <<ticks, requestDies, fresh, troubles>>
    BY <1>2 DEF Submit, SetProcessing, Func, requestVars
  <2>3. PICK place \in {"read", "func", "TypeError", "result"} : Become(t, place)
    BY <1>2 DEF Submit, SetProcessing, Func
  <2>4. phase' \in [Submitters -> Ended \union {"read", "func"}]
    BY <2>3 DEF Become, IdempotencyTypes, Ended
  <2> QED
    BY <2>1, <2>4 DEF IdempotencyTypes
<1>3. CASE Outage
  BY <1>3 DEF Outage, Trouble, requestVars, IdempotencyTypes
<1>4. CASE Pass
  BY <1>4 DEF Pass, requestVars, IdempotencyTypes
<1> QED
  BY <1>1, <1>2, <1>3, <1>4 DEF IdempotencyNext

LEMMA AnswersKept ==
  ASSUME IdempotencyTypes, SpacedOut, TroubleSeen, IdempotencyNext
  PROVE  SpacedOut' /\ TroubleSeen'
<1>0. /\ ticks \in Nat /\ requestDies \in Nat /\ troubles \in Nat /\ RequestTtl \in Nat
      /\ fresh \in Seq(Nat)
  BY IdempotencyAssumption DEF IdempotencyTypes
<1>1. CASE Ask /\ TakenForNew
  <2>1. requestDies <= ticks /\ requestDies' = ticks + RequestTtl /\ fresh' = Append(fresh, ticks)
    BY <1>0, <1>1 DEF TakenForNew, SetNx, Stored
  <2>2. /\ DOMAIN fresh' = 1..(Len(fresh) + 1) /\ DOMAIN fresh = 1..Len(fresh)
        /\ \A i \in 1..Len(fresh) : fresh'[i] = fresh[i]
        /\ fresh'[Len(fresh) + 1] = ticks
        /\ Len(fresh) \in Nat
    BY <1>0, <2>1
  <2>3. \A i \in 1..Len(fresh) : fresh[i] \in Nat /\ fresh[i] + RequestTtl <= ticks
    <3>1. \A i \in 1..Len(fresh) : fresh[i] \in Nat
      BY <1>0
    <3>2. \A i \in 1..Len(fresh) : fresh[i] + RequestTtl <= requestDies
      BY <2>2 DEF SpacedOut
    <3> QED
      BY <1>0, <2>1, <3>1, <3>2
  <2>4. \A i \in 1..(Len(fresh) + 1) : i \in 1..Len(fresh) \/ i = Len(fresh) + 1
    BY <2>2
  <2>5. \A i \in DOMAIN fresh' : fresh'[i] + RequestTtl <= requestDies'
    BY <1>0, <2>1, <2>2, <2>3, <2>4
  <2>6. \A i, j \in DOMAIN fresh' : i < j => fresh'[i] + RequestTtl <= fresh'[j]
    <3> SUFFICES ASSUME NEW i \in 1..(Len(fresh) + 1), NEW j \in 1..(Len(fresh) + 1), i < j
                 PROVE  fresh'[i] + RequestTtl <= fresh'[j]
      BY <2>2
    <3>1. i \in 1..Len(fresh)
      BY <2>2
    <3>2. CASE j \in 1..Len(fresh)
      BY <2>2, <3>1, <3>2 DEF SpacedOut
    <3>3. CASE j = Len(fresh) + 1
      BY <2>2, <2>3, <3>1, <3>3
    <3> QED
      BY <2>4, <3>2, <3>3
  <2>7. fresh' # <<>>
    BY <2>2
  <2> QED
    BY <2>5, <2>6, <2>7 DEF SpacedOut, TroubleSeen
<1>2. CASE Ask /\ TakenForOld
  <2>1. UNCHANGED <<fresh, reachable>>
    BY <1>2 DEF Ask, TakenForOld
  <2>2. \/ (~reachable \/ requestDies > 0) /\ UNCHANGED <<requestDies, troubles>>
        \/ troubles' = troubles + 1 /\ (requestDies' = requestDies
              \/ (requestDies <= ticks /\ requestDies' = ticks + RequestTtl))
    BY <1>0, <1>2 DEF TakenForOld, SetNx, Stored, Trouble
  <2>3. SpacedOut'
    <3>1. \A i \in DOMAIN fresh : fresh[i] \in Nat
      BY <1>0
    <3> QED
      BY <1>0, <2>1, <2>2, <3>1 DEF SpacedOut
  <2>4. TroubleSeen'
    BY <1>0, <2>1, <2>2 DEF TroubleSeen
  <2> QED
    BY <2>3, <2>4
<1>3. CASE Outage
  BY <1>0, <1>3 DEF Outage, Trouble, requestVars, SpacedOut, TroubleSeen
<1>4. CASE Pass
  BY <1>4 DEF Pass, requestVars, SpacedOut, TroubleSeen
<1>5. ASSUME NEW t \in Submitters, Submit(t) \/ SetProcessing(t) \/ Func(t)
      PROVE  SpacedOut' /\ TroubleSeen'
  BY <1>5 DEF Submit, SetProcessing, Func, requestVars, SpacedOut, TroubleSeen
<1> QED
  BY <1>1, <1>2, <1>3, <1>4, <1>5 DEF IdempotencyNext, Ask

\* No two answers "new" come within the TTL, and nobody is turned away before there was one
\* unless something has failed: with any TTL, outages and lost replies.
THEOREM RequestsNewOnce == IdempotencySpec => []NewOncePerTtl
<1>1. IdempotencyInit => IdempotencyInv
  BY DEF IdempotencyInit, IdempotencyInv, IdempotencyTypes, Ended, SpacedOut, TroubleSeen
<1>2. IdempotencyInv /\ [IdempotencyNext]_idempotencyVars => IdempotencyInv'
  <2>1. ASSUME IdempotencyInv, UNCHANGED idempotencyVars PROVE IdempotencyInv'
    BY <2>1 DEF idempotencyVars, IdempotencyInv, IdempotencyTypes, SpacedOut, TroubleSeen
  <2> QED
    BY <2>1, IdempotencyTypesKept, AnswersKept DEF IdempotencyInv
<1>3. IdempotencyInv => NewOncePerTtl
  BY IdempotencyAssumption
  DEF IdempotencyInv, IdempotencyTypes, SpacedOut, TroubleSeen, NewOncePerTtl
<1> QED
  BY <1>1, <1>2, <1>3, PTL DEF IdempotencySpec

-----------------------------------------------------------------------------
(***************************************************************************)
(* Batches: for any threads and any number of retries.                     *)
(***************************************************************************)
Places == {"start", "half", "exit", "second", "DECR", "INCR", "EXEC", "True", "False", "raised"}

BatchTypes ==
    /\ way \in [Movers -> Ways]
    /\ aligned \in BOOLEAN
    /\ step \in [Movers -> Places]
    /\ queued \in [Movers -> 0..2]
    /\ attempt \in [Movers -> Nat]
    /\ dirty \in [Movers -> BOOLEAN]
    /\ debits \in [Movers -> Nat]
    /\ credits \in [Movers -> Nat]

\* How often the two commands of a pipeline have been executed,
PipelineMoved(t) ==
    /\ step[t] \in {"start", "half", "exit", "second", "True", "raised"}
    /\ step[t] = "start" => queued[t] = 0
    /\ step[t] = "half" => queued[t] = 1
    /\ step[t] = "exit" => queued[t] \in {1, 2}
    /\ step[t] \in {"start", "half", "exit"} => debits[t] = 0 /\ credits[t] = 0
    /\ step[t] = "second" => debits[t] = 1 /\ credits[t] = 0
    /\ step[t] = "True" => debits[t] = 1 /\ credits[t] = 1
    /\ step[t] = "raised" /\ way[t] = "MULTI" /\ queued[t] = 2 => debits[t] = credits[t]

\* and those of the block of an optimistic transaction: once in every attempt.
WatchMoved(t) ==
    /\ step[t] \in {"start", "DECR", "INCR", "EXEC", "True", "False", "raised"}
    /\ step[t] \in {"start", "DECR", "INCR", "EXEC"} => attempt[t] < MaxRetries
    /\ step[t] \in {"start", "DECR"} => debits[t] = attempt[t] /\ credits[t] = attempt[t]
    /\ step[t] = "INCR" => debits[t] = attempt[t] + 1 /\ credits[t] = attempt[t]
    /\ step[t] = "EXEC" => debits[t] = attempt[t] + 1 /\ credits[t] = attempt[t] + 1
    /\ step[t] = "True" => debits[t] = 2 /\ credits[t] = 2 /\ ~aligned
    /\ step[t] = "False" => debits[t] = MaxRetries /\ credits[t] = MaxRetries

Moved(t) == IF way[t] = "WATCH" THEN WatchMoved(t) ELSE PipelineMoved(t)

\* The first command of the block makes what it watches dirty, if it is what it writes;
\* otherwise nothing does, and the first attempt is the last.
Watched(t) ==
    /\ aligned /\ step[t] \in {"INCR", "EXEC"} => dirty[t]
    /\ ~aligned => ~dirty[t] /\ attempt[t] = 0

BatchesInv == BatchTypes /\ \A t \in Movers : Moved(t) /\ Watched(t)

Executed(t, d, c) == debits'[t] = debits[t] + d /\ credits'[t] = credits[t] + c

\* What a command does to the thread that sends it, and to the others.
LEMMA SendEffect ==
  ASSUME BatchTypes, NEW t \in Movers, NEW d \in 0..1, NEW c \in 0..1, NEW next \in Places,
         Send(t, d, c, next)
  PROVE  /\ step' \in [Movers -> Places] /\ dirty' \in [Movers -> BOOLEAN]
         /\ debits' \in [Movers -> Nat] /\ credits' \in [Movers -> Nat]
         /\ \/ step'[t] = next /\ Executed(t, d, c)
            \/ step'[t] = "raised" /\ (Executed(t, d, c) \/ Executed(t, 0, 0))
         /\ step'[t] = next /\ aligned /\ d + c > 0 /\ next # "raised" => dirty'[t]
         /\ \A s \in Movers : (dirty[s] => dirty'[s]) /\ (~aligned => dirty'[s] = dirty[s])
         /\ \A s \in Movers \ {t} : step'[s] = step[s] /\ Executed(s, 0, 0)
<1> DEFINE Wrote == /\ debits' = [debits EXCEPT ![t] = debits[t] + d]
                    /\ credits' = [credits EXCEPT ![t] = credits[t] + c]
                    /\ \A s \in Movers : dirty'[s] = (dirty[s] \/ (aligned /\ d + c > 0))
                    /\ dirty' \in [Movers -> BOOLEAN]
<1>1. \/ Wrote /\ step' = [step EXCEPT ![t] = next]
      \/ Wrote /\ step' = [step EXCEPT ![t] = "raised"]
      \/ UNCHANGED <<debits, credits, dirty>> /\ step' = [step EXCEPT ![t] = "raised"]
  BY DEF Send, Write, StepTo, Raise, BatchTypes
<1>2. Wrote => /\ debits' \in [Movers -> Nat] /\ credits' \in [Movers -> Nat]
               /\ Executed(t, d, c)
               /\ \A s \in Movers \ {t} : Executed(s, 0, 0)
  BY DEF BatchTypes, Executed
<1>3. Wrote => /\ aligned /\ d + c > 0 => dirty'[t]
               /\ \A s \in Movers : (dirty[s] => dirty'[s]) /\ (~aligned => dirty'[s] = dirty[s])
  BY DEF BatchTypes
<1>4. UNCHANGED <<debits, credits, dirty>> => \A s \in Movers : Executed(s, 0, 0)
  BY DEF BatchTypes, Executed
<1>5. "raised" \in Places
  BY DEF Places
<1>6. \A p \in Places : step' = [step EXCEPT ![t] = p] =>
        /\ step' \in [Movers -> Places] /\ step'[t] = p
        /\ \A s \in Movers \ {t} : step'[s] = step[s]
  BY DEF BatchTypes
<1>7. Wrote => dirty' \in [Movers -> BOOLEAN]
  OBVIOUS
<1> HIDE DEF Wrote
<1>8. CASE Wrote
  BY <1>1, <1>2, <1>3, <1>5, <1>6, <1>7, <1>8
<1>9. CASE UNCHANGED <<debits, credits, dirty>> /\ step' = [step EXCEPT ![t] = "raised"]
  BY <1>4, <1>5, <1>6, <1>9 DEF BatchTypes
<1> QED
  BY <1>1, <1>8, <1>9

\* Whoever is not at work keeps what it has.
LEMMA OthersKeep ==
  ASSUME BatchTypes, NEW s \in Movers, Moved(s), Watched(s), UNCHANGED <<way, aligned>>,
         step'[s] = step[s], queued'[s] = queued[s], attempt'[s] = attempt[s],
         Executed(s, 0, 0), dirty[s] => dirty'[s], ~aligned => dirty'[s] = dirty[s]
  PROVE  Moved(s)' /\ Watched(s)'
<1>1. debits'[s] = debits[s] /\ credits'[s] = credits[s]
  BY DEF BatchTypes, Executed
<1>2. Moved(s)'
  BY <1>1 DEF Moved, WatchMoved, PipelineMoved
<1>3. Watched(s)'
  BY DEF Watched
<1> QED
  BY <1>2, <1>3

OthersStay(t) == \A s \in Movers \ {t} :
    /\ step'[s] = step[s] /\ queued'[s] = queued[s] /\ attempt'[s] = attempt[s]
    /\ Executed(s, 0, 0)
    /\ dirty[s] => dirty'[s]
    /\ ~aligned => dirty'[s] = dirty[s]

LEMMA OneMoverSteps ==
  ASSUME BatchesInv, NEW t \in Movers, UNCHANGED <<way, aligned>>, BatchTypes', OthersStay(t),
         Moved(t)', Watched(t)'
  PROVE  BatchesInv'
<1>1. ASSUME NEW s \in Movers \ {t} PROVE Moved(s)' /\ Watched(s)'
  BY <1>1, OthersKeep DEF OthersStay, BatchesInv
<1> QED
  BY <1>1 DEF BatchesInv

\* Steps that send nothing.
LEMMA QuietSteps ==
  ASSUME BatchesInv, NEW t \in Movers, Queue(t) \/ BodyRaises(t) \/ Watch(t) \/ WatchError(t)
  PROVE  BatchesInv'
<1>0. BatchTypes /\ Moved(t) /\ Watched(t)
  BY DEF BatchesInv
<1>1. \A p \in Places : StepTo(t, p) =>
        /\ step' \in [Movers -> Places] /\ step'[t] = p
        /\ \A s \in Movers \ {t} : step'[s] = step[s]
  BY <1>0 DEF StepTo, BatchTypes
<1>2. UNCHANGED <<debits, credits>> => \A s \in Movers : Executed(s, 0, 0)
  BY <1>0 DEF BatchTypes, Executed
<1>3. CASE Queue(t)
  <2>1. /\ way[t] # "WATCH" /\ step[t] \in {"start", "half"}
        /\ queued' = [queued EXCEPT ![t] = queued[t] + 1]
        /\ StepTo(t, IF step[t] = "start" THEN "half" ELSE "exit")
        /\ UNCHANGED <<way, aligned, attempt, dirty, debits, credits>>
    BY <1>3 DEF Queue
  <2>2. PipelineMoved(t) /\ queued[t] \in 0..1
    BY <1>0, <2>1 DEF Moved, PipelineMoved
  <2>3. /\ queued' \in [Movers -> 0..2] /\ queued'[t] = queued[t] + 1
        /\ \A s \in Movers \ {t} : queued'[s] = queued[s]
    BY <1>0, <2>1, <2>2 DEF BatchTypes
  <2>4. /\ step' \in [Movers -> Places]
        /\ step'[t] = IF step[t] = "start" THEN "half" ELSE "exit"
        /\ \A s \in Movers \ {t} : step'[s] = step[s]
    BY <1>1, <2>1 DEF Places
  <2>5. BatchTypes' /\ OthersStay(t)
    BY <1>0, <1>2, <2>1, <2>3, <2>4 DEF BatchTypes, OthersStay
  <2>6. Moved(t)'
    BY <2>1, <2>2, <2>3, <2>4 DEF Moved, PipelineMoved
  <2>7. Watched(t)'
    BY <1>0, <2>1, <2>4 DEF Watched
  <2> QED
    BY <2>1, <2>5, <2>6, <2>7, OneMoverSteps
<1>4. CASE BodyRaises(t)
  <2>1. /\ step[t] = "half" /\ StepTo(t, "exit")
        /\ UNCHANGED <<way, aligned, queued, attempt, dirty, debits, credits>>
    BY <1>4 DEF BodyRaises
  <2>2. step' \in [Movers -> Places] /\ step'[t] = "exit"
        /\ \A s \in Movers \ {t} : step'[s] = step[s]
    BY <1>1, <2>1 DEF Places
  <2>3. BatchTypes' /\ OthersStay(t)
    BY <1>0, <1>2, <2>1, <2>2 DEF BatchTypes, OthersStay
  <2>4. Moved(t)'
    BY <1>0, <2>1, <2>2 DEF Moved, WatchMoved, PipelineMoved
  <2>5. Watched(t)'
    BY <1>0, <2>1, <2>2 DEF Watched
  <2> QED
    BY <2>1, <2>3, <2>4, <2>5, OneMoverSteps
<1>5. CASE Watch(t)
  <2>1. /\ way[t] = "WATCH" /\ step[t] = "start"
        /\ StepTo(t, "DECR") \/ StepTo(t, "raised")
        /\ dirty' = dirty \/ dirty' = [dirty EXCEPT ![t] = FALSE]
        /\ UNCHANGED <<way, aligned, queued, attempt, debits, credits>>
    BY <1>5 DEF Watch, Raise
  <2>2. step' \in [Movers -> Places] /\ step'[t] \in {"DECR", "raised"}
        /\ \A s \in Movers \ {t} : step'[s] = step[s]
    BY <1>1, <2>1 DEF Places
  <2>3. /\ dirty' \in [Movers -> BOOLEAN] /\ (dirty'[t] => dirty[t])
        /\ \A s \in Movers \ {t} : dirty'[s] = dirty[s]
    BY <1>0, <2>1 DEF BatchTypes
  <2>4. BatchTypes' /\ OthersStay(t)
    BY <1>0, <1>2, <2>1, <2>2, <2>3 DEF BatchTypes, OthersStay
  <2>5. Moved(t)'
    BY <1>0, <2>1, <2>2 DEF Moved, WatchMoved
  <2>6. Watched(t)'
    BY <1>0, <2>1, <2>2, <2>3 DEF Watched
  <2> QED
    BY <2>1, <2>4, <2>5, <2>6, OneMoverSteps
<1>6. CASE WatchError(t)
  <2>1. /\ step[t] = "EXEC" /\ dirty[t]
        /\ attempt' = [attempt EXCEPT ![t] = attempt[t] + 1]
        /\ StepTo(t, IF attempt[t] + 1 < MaxRetries THEN "start" ELSE "False")
        /\ UNCHANGED <<way, aligned, queued, dirty, debits, credits>>
    BY <1>6 DEF WatchError
  <2>2. way[t] = "WATCH" /\ WatchMoved(t) /\ aligned
    BY <1>0, <2>1 DEF Moved, PipelineMoved, Watched
  <2>3. /\ attempt' \in [Movers -> Nat] /\ attempt'[t] = attempt[t] + 1
        /\ \A s \in Movers \ {t} : attempt'[s] = attempt[s]
    BY <1>0, <2>1 DEF BatchTypes
  <2>4. /\ step' \in [Movers -> Places]
        /\ step'[t] = IF attempt[t] + 1 < MaxRetries THEN "start" ELSE "False"
        /\ \A s \in Movers \ {t} : step'[s] = step[s]
    BY <1>1, <2>1 DEF Places
  <2>5. BatchTypes' /\ OthersStay(t)
    BY <1>0, <1>2, <2>1, <2>3, <2>4 DEF BatchTypes, OthersStay
  <2>6. attempt[t] \in Nat /\ MaxRetries \in Nat
    BY <1>0, BatchesAssumption DEF BatchTypes
  <2>7. Moved(t)'
    BY <2>1, <2>2, <2>3, <2>4, <2>6 DEF Moved, WatchMoved
  <2>8. Watched(t)'
    BY <2>1, <2>2 DEF Watched
  <2> QED
    BY <2>1, <2>5, <2>7, <2>8, OneMoverSteps
<1> QED
  BY <1>3, <1>4, <1>5, <1>6

\* Steps that send commands.
LEMMA SendSteps ==
  ASSUME BatchesInv, NEW t \in Movers, ExitMulti(t) \/ ExitPlain(t) \/ BlockAtOnce(t) \/ Exec(t)
  PROVE  BatchesInv'
<1>0. BatchTypes /\ Moved(t) /\ Watched(t)
  BY DEF BatchesInv
<1>1. UNCHANGED <<way, aligned, queued, attempt>>
  BY DEF ExitMulti, ExitPlain, BlockAtOnce, Exec
<1>2. ASSUME NEW d \in 0..1, NEW c \in 0..1, NEW next \in Places, Send(t, d, c, next)
      PROVE  BatchTypes' /\ OthersStay(t)
  BY <1>0, <1>1, <1>2, SendEffect DEF BatchTypes, OthersStay
<1>3. ASSUME NEW d \in 0..1, NEW c \in 0..1, NEW next \in Places, Send(t, d, c, next)
      PROVE  /\ \/ step'[t] = next /\ Executed(t, d, c)
                \/ step'[t] = "raised" /\ (Executed(t, d, c) \/ Executed(t, 0, 0))
             /\ step'[t] = next /\ aligned /\ d + c > 0 /\ next # "raised" => dirty'[t]
             /\ (dirty[t] => dirty'[t]) /\ (~aligned => dirty'[t] = dirty[t])
  BY <1>0, <1>3, SendEffect
<1>4. debits[t] \in Nat /\ credits[t] \in Nat /\ attempt[t] \in Nat
  BY <1>0 DEF BatchTypes
<1>5. CASE ExitMulti(t)
  <2>1. /\ way[t] = "MULTI" /\ step[t] = "exit"
        /\ Send(t, 1, queued[t] - 1, IF queued[t] = 2 THEN "True" ELSE "raised")
    BY <1>5 DEF ExitMulti
  <2>2. debits[t] = 0 /\ credits[t] = 0 /\ queued[t] \in {1, 2}
    BY <1>0, <2>1 DEF Moved, PipelineMoved
  <2>3. CASE queued[t] = 2
    <3>1. Send(t, 1, 1, "True") /\ "True" \in Places
      BY <2>1, <2>3 DEF Places
    <3>2. BatchTypes' /\ OthersStay(t) /\ Watched(t)'
      BY <1>0, <1>1, <1>2, <1>3, <3>1 DEF Watched
    <3>3. Moved(t)'
      BY <1>1, <1>3, <2>1, <2>2, <2>3, <3>1 DEF Moved, PipelineMoved, Executed
    <3> QED
      BY <1>1, <3>2, <3>3, OneMoverSteps
  <2>4. CASE queued[t] = 1
    <3>1. Send(t, 1, 0, "raised") /\ "raised" \in Places
      BY <2>1, <2>4 DEF Places
    <3>2. BatchTypes' /\ OthersStay(t) /\ Watched(t)'
      BY <1>0, <1>1, <1>2, <1>3, <3>1 DEF Watched
    <3>3. Moved(t)'
      BY <1>1, <1>3, <2>1, <2>2, <2>4, <3>1 DEF Moved, PipelineMoved
    <3> QED
      BY <1>1, <3>2, <3>3, OneMoverSteps
  <2> QED
    BY <2>2, <2>3, <2>4
<1>6. CASE Exec(t)
  <2>1. step[t] = "EXEC" /\ ~dirty[t] /\ Send(t, 1, 1, "True") /\ "True" \in Places
    BY <1>6 DEF Exec, Places
  <2>2. ~aligned /\ attempt[t] = 0
    BY <1>0, <2>1 DEF Watched
  <2>3. BatchTypes' /\ OthersStay(t) /\ Watched(t)'
    BY <1>0, <1>1, <1>2, <1>3, <2>1, <2>2 DEF Watched
  <2>4. Moved(t)'
    BY <1>0, <1>1, <1>3, <1>4, <2>1, <2>2 DEF Moved, PipelineMoved, WatchMoved, Executed
  <2> QED
    BY <1>1, <2>3, <2>4, OneMoverSteps
<1>7. CASE BlockAtOnce(t)
  <2>1. CASE step[t] = "DECR" /\ Send(t, 1, 0, "INCR")
    <3>1. "INCR" \in Places
      BY DEF Places
    <3>2. BatchTypes' /\ OthersStay(t)
      BY <1>2, <2>1, <3>1
    <3>3. Watched(t)'
      BY <1>0, <1>1, <1>3, <2>1, <3>1 DEF Watched
    <3>4. Moved(t)'
      BY <1>0, <1>1, <1>3, <1>4, <2>1, <3>1 DEF Moved, PipelineMoved, WatchMoved, Executed
    <3> QED
      BY <1>1, <3>2, <3>3, <3>4, OneMoverSteps
  <2>2. CASE step[t] = "INCR" /\ Send(t, 0, 1, "EXEC")
    <3>1. "EXEC" \in Places
      BY DEF Places
    <3>2. BatchTypes' /\ OthersStay(t)
      BY <1>2, <2>2, <3>1
    <3>3. Watched(t)'
      BY <1>0, <1>1, <1>3, <2>2, <3>1 DEF Watched
    <3>4. Moved(t)'
      BY <1>0, <1>1, <1>3, <1>4, <2>2, <3>1 DEF Moved, PipelineMoved, WatchMoved, Executed
    <3> QED
      BY <1>1, <3>2, <3>3, <3>4, OneMoverSteps
  <2> QED
    BY <1>7, <2>1, <2>2 DEF BlockAtOnce
<1>8. CASE ExitPlain(t)
  <2>0. way[t] = "pipeline" /\ PipelineMoved(t)
    BY <1>0, <1>8 DEF ExitPlain, Moved
  <2>1. ASSUME step[t] = "exit", NEW next \in {"second", "raised"}, Send(t, 1, 0, next),
               next = "second" => queued[t] = 2
        PROVE  BatchesInv'
    <3>1. next \in Places
      BY <2>1 DEF Places
    <3>2. BatchTypes' /\ OthersStay(t) /\ Watched(t)'
      BY <1>0, <1>1, <1>2, <1>3, <2>1, <3>1 DEF Watched
    <3>3. Moved(t)'
      BY <1>1, <1>3, <1>4, <2>0, <2>1, <3>1 DEF Moved, PipelineMoved, Executed
    <3> QED
      BY <1>1, <3>2, <3>3, OneMoverSteps
  <2>2. ASSUME step[t] = "exit", Write(t, 1, queued[t] - 1), Raise(t)
        PROVE  BatchesInv'
    <3>1. queued[t] - 1 \in 0..1 /\ "raised" \in Places
      BY <2>0, <2>2 DEF PipelineMoved, Places
    <3>2. Send(t, 1, queued[t] - 1, "raised")
      BY <2>2 DEF Send
    <3>3. BatchTypes' /\ OthersStay(t) /\ Watched(t)'
      BY <1>0, <1>1, <1>2, <1>3, <3>1, <3>2 DEF Watched
    <3>4. Moved(t)'
      BY <1>1, <1>3, <2>0, <3>1, <3>2 DEF Moved, PipelineMoved
    <3> QED
      BY <1>1, <3>3, <3>4, OneMoverSteps
  <2>3. ASSUME step[t] = "second", Send(t, 0, 1, "True")
        PROVE  BatchesInv'
    <3>1. "True" \in Places
      BY DEF Places
    <3>2. BatchTypes' /\ OthersStay(t) /\ Watched(t)'
      BY <1>0, <1>1, <1>2, <1>3, <2>3, <3>1 DEF Watched
    <3>3. Moved(t)'
      BY <1>1, <1>3, <1>4, <2>0, <2>3, <3>1 DEF Moved, PipelineMoved, Executed
    <3> QED
      BY <1>1, <3>2, <3>3, OneMoverSteps
  <2> QED
    BY <1>8, <2>1, <2>2, <2>3 DEF ExitPlain
<1> QED
  BY <1>5, <1>6, <1>7, <1>8

\* What the callers conclude holds for every number of threads and of retries: an answer,
\* True or False, leaves no half of a move behind, and no more does an exception from EXEC.
THEOREM AnswersTellTheMoves == BatchesSpec => []MovedAsAnswered
<1>1. BatchesInit => BatchesInv
  BY BatchesAssumption
  DEF BatchesInit, BatchesInv, BatchTypes, Places, Ways, Moved, PipelineMoved, WatchMoved, Watched
<1>2. BatchesInv /\ [BatchesNext]_batchVars => BatchesInv'
  <2>1. ASSUME BatchesInv, UNCHANGED batchVars PROVE BatchesInv'
    BY <2>1 DEF batchVars, BatchesInv, BatchTypes, Moved, PipelineMoved, WatchMoved, Watched
  <2> QED
    BY <2>1, QuietSteps, SendSteps DEF BatchesNext, MoverStep
<1>3. BatchesInv => MovedAsAnswered
  <2> SUFFICES ASSUME BatchesInv, NEW t \in Movers
               PROVE  /\ step[t] \in {"True", "False"} => debits[t] = credits[t]
                      /\ step[t] = "True" /\ way[t] # "WATCH" => debits[t] = 1
                      /\ step[t] = "raised" /\ way[t] = "MULTI" /\ queued[t] = 2
                           => debits[t] = credits[t]
    BY DEF MovedAsAnswered
  <2> QED
    BY DEF BatchesInv, Moved, PipelineMoved, WatchMoved
<1> QED
  BY <1>1, <1>2, <1>3, PTL DEF BatchesSpec

-----------------------------------------------------------------------------
(***************************************************************************)
(* RedisCalls: for any buyers, goods, stock, limit and size of a segment.  *)
(***************************************************************************)
CallTypes ==
    /\ stock \in [Goods -> Int] /\ sold \in [Goods -> Int]
    /\ bought \in [Users -> Int] /\ has \in [Buyers -> Int]
    /\ counter \in Nat /\ faults \in Nat

\* What is booked in Redis is at least what the callers know of, and just that as long as
\* no call has raised.
Booked ==
    /\ \A g \in Goods : sold[g] + stock[g] <= Stock
    /\ \A u \in Users : has[u] <= bought[u]
    /\ faults = 0 => /\ \A g \in Goods : sold[g] + stock[g] = Stock
                     /\ \A u \in Users : has[u] = bought[u]

Explained == "sold" \notin wrong /\ (wrong # {} => faults > 0)

\* A segment lies below the counter or is the one of the callers whose call raised.
BelowCounter ==
    /\ segments \in Seq(SUBSET Int)
    /\ \A i \in DOMAIN segments :
         segments[i] \subseteq 1..counter \/ segments[i] = SegmentUpTo(-1)

CallsInv == CallTypes /\ Booked /\ Explained /\ BelowCounter /\ IdsDisjoint

\* A purchase or a deduction that the script admits.
LEMMA AdmittedSale ==
  ASSUME CallTypes, Booked, Explained, NEW b \in Buyers, NEW g \in Goods, NEW n \in 1..Stock,
         n <= stock[g], stock' = [stock EXCEPT ![g] = stock[g] - n],
         IF b \in Users THEN bought[b] + n <= PurchaseLimit
                             /\ bought' = [bought EXCEPT ![b] = bought[b] + n]
                        ELSE UNCHANGED bought,
         \/ Sell(b, g, n) /\ UNCHANGED faults
         \/ Refuse(b, g, n) /\ faults' = faults + 1,
         UNCHANGED counter
  PROVE  CallTypes' /\ Booked' /\ Explained'
<1>0. /\ n \in Int /\ Stock \in Int /\ faults \in Nat
      /\ \A x \in Goods : stock[x] \in Int /\ sold[x] \in Int
      /\ \A u \in Users : bought[u] \in Int /\ has[u] \in Int
      /\ \A x \in Buyers : has[x] \in Int
  BY CallsAssumption DEF CallTypes, Buyers
<1>1. /\ stock' \in [Goods -> Int] /\ stock'[g] = stock[g] - n
      /\ \A x \in Goods \ {g} : stock'[x] = stock[x]
  BY <1>0 DEF CallTypes
<1>2. /\ bought' \in [Users -> Int]
      /\ \A u \in Users : bought'[u] = IF u = b THEN bought[u] + n ELSE bought[u]
  BY <1>0 DEF CallTypes
<1>3. CASE Sell(b, g, n) /\ UNCHANGED faults
  <2>1. /\ sold' \in [Goods -> Int] /\ sold'[g] = sold[g] + n
        /\ \A x \in Goods \ {g} : sold'[x] = sold[x]
    BY <1>0, <1>3 DEF Sell, CallTypes
  <2>2. /\ has' \in [Buyers -> Int]
        /\ \A x \in Buyers : has'[x] = IF x = b THEN has[x] + n ELSE has[x]
    BY <1>0, <1>3 DEF Sell, CallTypes
  <2>3. Possible(b, g, n)
    BY <1>0, CallsAssumption DEF Possible, Booked
  <2>4. wrong' = wrong
    BY <1>3, <2>3 DEF Sell, Wrong
  <2>5. CallTypes'
    BY <1>1, <1>2, <1>3, <2>1, <2>2 DEF CallTypes
  <2>6. \A x \in Goods : sold'[x] + stock'[x] = sold[x] + stock[x]
    BY <1>0, <1>1, <2>1
  <2>7. \A u \in Users : bought'[u] - has'[u] = bought[u] - has[u]
    BY <1>0, <1>2, <2>2 DEF Buyers
  <2>8. Booked'
    <3>1. \A u \in Users : bought'[u] \in Int /\ has'[u] \in Int
      BY <1>2, <2>2 DEF Buyers
    <3> QED
      BY <1>0, <1>3, <2>6, <2>7, <3>1 DEF Booked
  <2> QED
    BY <1>3, <2>4, <2>5, <2>8 DEF Explained
<1>4. CASE Refuse(b, g, n) /\ faults' = faults + 1
  <2>1. UNCHANGED <<sold, has>> /\ wrong' \in {wrong, wrong \union {"refused"}}
    BY <1>4 DEF Refuse, Wrong
  <2>2. CallTypes'
    BY <1>1, <1>2, <1>4, <2>1 DEF CallTypes
  <2>3. Booked'
    <3>1. \A x \in Goods : sold'[x] + stock'[x] <= Stock
      BY <1>0, <1>1, <2>1 DEF Booked
    <3>2. \A u \in Users : has'[u] <= bought'[u]
      BY <1>0, <1>2, <2>1 DEF Booked
    <3>3. faults' # 0
      BY <1>0, <1>4
    <3> QED
      BY <3>1, <3>2, <3>3 DEF Booked
  <2> QED
    BY <1>0, <1>4, <2>1, <2>2, <2>3 DEF Explained
<1> QED
  BY <1>3, <1>4

\* One that changes nothing in Redis: the script does not admit it, or the call raises.
LEMMA RefusedSale ==
  ASSUME CallTypes, Booked, Explained, NEW b \in Buyers, NEW g \in Goods, NEW n \in 1..Stock,
         Refuse(b, g, n), UNCHANGED <<stock, bought, counter>>,
         \/ faults' = faults + 1
         \/ faults' = faults /\ (n > stock[g] \/ (b \in Users /\ bought[b] + n > PurchaseLimit))
  PROVE  CallTypes' /\ Booked' /\ Explained'
<1>0. /\ n \in Int /\ Stock \in Int /\ faults \in Nat
      /\ \A x \in Goods : stock[x] \in Int /\ sold[x] \in Int
      /\ \A u \in Users : bought[u] \in Int /\ has[u] \in Int
  BY CallsAssumption DEF CallTypes, Buyers
<1>1. UNCHANGED <<sold, has>> /\ wrong' = IF Possible(b, g, n) THEN wrong \union {"refused"} ELSE wrong
  BY DEF Refuse, Wrong
<1>2. CallTypes' /\ Booked'
  BY <1>0, <1>1 DEF CallTypes, Booked
<1>3. faults' = 0 => ~Possible(b, g, n)
  BY <1>0, CallsAssumption DEF Possible, Booked
<1>4. faults' >= faults /\ faults' \in Nat
  BY <1>0
<1>5. Explained'
  BY <1>0, <1>1, <1>3, <1>4 DEF Explained
<1> QED
  BY <1>2, <1>5

LEMMA SalesKept ==
  ASSUME CallTypes, Booked, Explained, NEW g \in Goods, NEW n \in 1..Stock, UNCHANGED counter,
         Deduct(g, n) \/ \E u \in Users : Purchase(u, g, n)
  PROVE  CallTypes' /\ Booked' /\ Explained'
<1>1. CASE Deduct(g, n)
  <2>0. Shop \in Buyers /\ Shop \notin Users
    BY CallsAssumption DEF Buyers, Shop
  <2>1. UNCHANGED bought
    BY <1>1 DEF Deduct
  <2>2. \/ n <= stock[g] /\ TakeStock(g, n) /\ Sell(Shop, g, n) /\ UNCHANGED faults
        \/ n <= stock[g] /\ TakeStock(g, n) /\ Refuse(Shop, g, n) /\ faults' = faults + 1
        \/ UNCHANGED stock /\ Refuse(Shop, g, n) /\ faults' = faults + 1
        \/ ~(n <= stock[g]) /\ UNCHANGED stock /\ Refuse(Shop, g, n) /\ faults' = faults
    BY <1>1 DEF Deduct, Command, Query
  <2>3. n \in Int /\ stock[g] \in Int
    BY CallsAssumption DEF CallTypes
  <2>4. CASE n <= stock[g] /\ TakeStock(g, n)
             /\ \/ Sell(Shop, g, n) /\ UNCHANGED faults
                \/ Refuse(Shop, g, n) /\ faults' = faults + 1
    BY <2>0, <2>1, <2>4, AdmittedSale DEF TakeStock
  <2>5. CASE UNCHANGED stock /\ Refuse(Shop, g, n)
             /\ (faults' = faults + 1 \/ (faults' = faults /\ ~(n <= stock[g])))
    BY <2>0, <2>1, <2>3, <2>5, RefusedSale
  <2> QED
    BY <2>2, <2>4, <2>5
<1>2. ASSUME NEW u \in Users, Purchase(u, g, n)
      PROVE  CallTypes' /\ Booked' /\ Explained'
  <2>0. u \in Buyers
    BY DEF Buyers
  <2>1. \/ /\ Admitted(u, g, n) /\ TakeStock(g, n) /\ bought' = [bought EXCEPT ![u] = bought[u] + n]
           /\ \/ Sell(u, g, n) /\ UNCHANGED faults
              \/ Refuse(u, g, n) /\ faults' = faults + 1
        \/ /\ UNCHANGED <<stock, bought>> /\ Refuse(u, g, n)
           /\ \/ faults' = faults + 1
              \/ faults' = faults /\ ~Admitted(u, g, n)
    BY <1>2 DEF Purchase, Command, Query
  <2>2. n \in Int /\ stock[g] \in Int /\ bought[u] \in Int /\ PurchaseLimit \in Int
    BY CallsAssumption DEF CallTypes
  <2>3. CASE /\ Admitted(u, g, n) /\ TakeStock(g, n)
             /\ bought' = [bought EXCEPT ![u] = bought[u] + n]
             /\ \/ Sell(u, g, n) /\ UNCHANGED faults
                \/ Refuse(u, g, n) /\ faults' = faults + 1
    BY <2>0, <2>3, AdmittedSale DEF Admitted, TakeStock
  <2>4. CASE /\ UNCHANGED <<stock, bought>> /\ Refuse(u, g, n)
             /\ \/ faults' = faults + 1
                \/ faults' = faults /\ ~Admitted(u, g, n)
    BY <2>0, <2>2, <2>4, RefusedSale DEF Admitted
  <2> QED
    BY <2>1, <2>3, <2>4
<1> QED
  BY <1>1, <1>2

LEMMA SegmentsKept ==
  ASSUME CallTypes, BelowCounter, IdsDisjoint, NextIds
  PROVE  counter' \in Nat /\ BelowCounter' /\ IdsDisjoint'
<1>0. counter \in Nat /\ Segment \in Nat \ {0} /\ segments \in Seq(SUBSET Int)
  BY CallsAssumption DEF CallTypes, BelowCounter
<1>1. counter' \in {counter, counter + Segment}
  BY DEF NextIds, Command
<1>2. PICK new \in SUBSET Int :
        /\ segments' = Append(segments, new)
        /\ \/ new = SegmentUpTo(-1)
           \/ new = counter + 1..counter + Segment /\ counter' = counter + Segment
  <2>1. SegmentUpTo(-1) \in SUBSET Int /\ SegmentUpTo(counter + Segment) \in SUBSET Int
    BY <1>0 DEF SegmentUpTo
  <2>2. (counter + Segment) - Segment + 1 = counter + 1
    BY <1>0
  <2>3. SegmentUpTo(counter + Segment) = counter + 1..counter + Segment
    BY <2>2 DEF SegmentUpTo
  <2>4. \/ segments' = Append(segments, SegmentUpTo(counter + Segment))
             /\ counter' = counter + Segment
        \/ segments' = Append(segments, SegmentUpTo(-1))
    BY DEF NextIds, Command, HandOut
  <2> QED
    BY <2>1, <2>3, <2>4
<1>3. /\ DOMAIN segments' = 1..(Len(segments) + 1) /\ DOMAIN segments = 1..Len(segments)
      /\ \A i \in 1..Len(segments) : segments'[i] = segments[i]
      /\ segments'[Len(segments) + 1] = new
      /\ Len(segments) \in Nat
      /\ segments' \in Seq(SUBSET Int)
  BY <1>0, <1>2
<1>4. \A i \in 1..(Len(segments) + 1) : i \in 1..Len(segments) \/ i = Len(segments) + 1
  BY <1>3
<1>5. 1..counter \subseteq 1..counter' /\ counter' \in Nat
  BY <1>0, <1>1
<1>6. new \subseteq 1..counter' \/ new = SegmentUpTo(-1)
  BY <1>0, <1>2
<1>7. BelowCounter'
  <2>1. ASSUME NEW i \in 1..(Len(segments) + 1)
        PROVE  segments'[i] \subseteq 1..counter' \/ segments'[i] = SegmentUpTo(-1)
    BY <1>3, <1>4, <1>5, <1>6 DEF BelowCounter
  <2> QED
    BY <1>3, <2>1 DEF BelowCounter, SegmentUpTo
<1>8. ASSUME NEW i \in 1..Len(segments), segments[i] \cap new # {}
      PROVE  segments[i] = new /\ new = SegmentUpTo(-1)
  <2>1. SegmentUpTo(-1) \cap 1..counter' = {}
    BY <1>0, <1>5 DEF SegmentUpTo
  <2>2. segments[i] \subseteq 1..counter \/ segments[i] = SegmentUpTo(-1)
    BY <1>3 DEF BelowCounter
  <2>3. 1..counter \cap (counter + 1..counter + Segment) = {}
    BY <1>0
  <2> QED
    BY <1>2, <1>5, <1>6, <1>8, <2>1, <2>2, <2>3
<1>9. IdsDisjoint'
  <2> SUFFICES ASSUME NEW i \in 1..(Len(segments) + 1), NEW j \in 1..(Len(segments) + 1), i < j,
                      segments'[i] \cap segments'[j] # {}
               PROVE  segments'[i] = segments'[j] /\ segments'[i] = SegmentUpTo(-1)
    BY <1>3 DEF IdsDisjoint, SegmentUpTo
  <2>1. i \in 1..Len(segments)
    BY <1>3
  <2>2. CASE j \in 1..Len(segments)
    BY <1>3, <2>1, <2>2 DEF IdsDisjoint
  <2>3. CASE j = Len(segments) + 1
    BY <1>3, <1>8, <2>1, <2>3
  <2> QED
    BY <1>4, <2>2, <2>3
<1> QED
  BY <1>5, <1>7, <1>9

LEMMA NextCallsInv == CallsInv /\ [CallsNext]_callVars => CallsInv'
<1> SUFFICES ASSUME CallsInv, [CallsNext]_callVars PROVE CallsInv'
  OBVIOUS
<1>0. CallTypes /\ Booked /\ Explained /\ BelowCounter /\ IdsDisjoint
  BY DEF CallsInv
<1>1. UNCHANGED <<counter, segments>> => BelowCounter' /\ IdsDisjoint'
  BY <1>0 DEF BelowCounter, IdsDisjoint, SegmentUpTo
<1>2. ASSUME NEW g \in Goods, NEW n \in 1..Stock, UNCHANGED <<bitmap, counter, segments>>,
             Deduct(g, n) \/ \E u \in Users : Purchase(u, g, n)
      PROVE  CallsInv'
  BY <1>0, <1>1, <1>2, SalesKept DEF CallsInv
<1>3. ASSUME NEW u \in Users, SetBit(u) \/ GetBit(u),
             UNCHANGED <<stock, bought, counter, sold, has, segments>>
      PROVE  CallsInv'
  <2>1. \/ UNCHANGED wrong /\ UNCHANGED faults
        \/ wrong' \in {wrong, wrong \union {"setbit"}, wrong \union {"getbit"}}
             /\ faults' = faults + 1
    BY <1>3 DEF SetBit, GetBit, Query, Command, Wrong
  <2>2. faults \in Nat
    BY <1>0 DEF CallTypes
  <2>3. CallTypes' /\ Booked' /\ Explained'
    BY <1>0, <1>3, <2>1, <2>2 DEF CallTypes, Booked, Explained
  <2> QED
    BY <1>1, <1>3, <2>3 DEF CallsInv
<1>4. CASE NextIds /\ UNCHANGED <<stock, bought, bitmap, sold, has, wrong>>
  <2>1. faults' \in {faults, faults + 1} /\ faults \in Nat
    BY <1>0, <1>4 DEF NextIds, Command, CallTypes
  <2>2. counter' \in Nat /\ BelowCounter' /\ IdsDisjoint'
    BY <1>0, <1>4, SegmentsKept
  <2>3. CallTypes' /\ Booked' /\ Explained'
    BY <1>0, <1>4, <2>1, <2>2 DEF CallTypes, Booked, Explained
  <2> QED
    BY <2>2, <2>3 DEF CallsInv
<1>5. CASE UNCHANGED callVars
  <2>1. CallTypes' /\ Booked' /\ Explained'
    BY <1>0, <1>5 DEF callVars, CallTypes, Booked, Explained
  <2> QED
    BY <1>1, <1>5, <2>1 DEF callVars, CallsInv
<1> QED
  BY <1>2, <1>3, <1>4, <1>5 DEF CallsNext

\* Whatever is bought, refused, or lost on the way, nobody buys beyond the stock or a limit,
\* and what callers are told needs a fault to be wrong.
THEOREM CallsAreExplained == CallsSpec => []AnswersExplained
<1>1. CallsInit => CallsInv
  BY CallsAssumption
  DEF CallsInit, CallsInv, CallTypes, Booked, Explained, BelowCounter, IdsDisjoint, Buyers
<1>2. CallsInv => AnswersExplained
  BY DEF CallsInv, Explained, AnswersExplained
<1> QED
  BY <1>1, <1>2, NextCallsInv, PTL DEF CallsSpec

-----------------------------------------------------------------------------
(***************************************************************************)
(* DistributedId: for any generators, worker ids, sequences, and times.    *)
(***************************************************************************)
IdTypes ==
    /\ wall \in Nat
    /\ worker \in [Gens -> -1..MaxWorkerId]
    /\ lastTime \in [Gens -> Int]
    /\ sequence \in [Gens -> 0..MaxSequence]
    /\ sleep \in [Gens -> Int]
    /\ \A g \in Gens : sleep[g] # -1 => worker[g] # None

\* What may make ids equal has happened.
Excused ==
    \/ {"expired", "hostname", "rewound"} \cap flaws # {}
    \/ {"restarted", "set back"} \subseteq flaws

WorkersApart ==
    /\ \A g \in Gens : worker[g] # None => worker[g] \in bits
    /\ \A g, h \in Gens : worker[g] = worker[h] /\ worker[g] # None => g = h

\* If no process has ended, whoever made an id is there and has not made a later one since;
OwnIds ==
    "restarted" \notin flaws =>
        \A t \in Nat, w \in 0..MaxWorkerId, s \in 0..MaxSequence :
            Compose(t, w, s) \in issued =>
                \E g \in Gens : worker[g] = w /\ ( \/ t < lastTime[g]
                                                   \/ t = lastTime[g] /\ s <= sequence[g])

\* if no clock was set back, no id is from the future, and one of this millisecond has a
\* worker id that is still taken, by a generator that knows of it or by nobody.
PastIds ==
    "set back" \notin flaws =>
        \A t \in Nat, w \in 0..MaxWorkerId, s \in 0..MaxSequence :
            Compose(t, w, s) \in issued =>
                /\ t <= wall
                /\ t = wall => /\ w \in bits
                               /\ \A g \in Gens : worker[g] = w =>
                                    lastTime[g] = t /\ s <= sequence[g]

IdInv ==
    /\ IdTypes
    /\ ~Excused => "duplicate" \notin flaws /\ WorkersApart /\ OwnIds /\ PastIds

\* The parts of a number do not run into each other.
LEMMA DigitsUnique ==
  ASSUME NEW k \in Nat, NEW a \in Nat, NEW b \in Nat, NEW x \in 0..k, NEW y \in 0..k,
         a * (k + 1) + x = b * (k + 1) + y
  PROVE  a = b /\ x = y
<1>1. ASSUME NEW c \in Nat, NEW d \in Nat, c < d PROVE c * (k + 1) + k + 1 <= d * (k + 1)
  <2>1. PICK e \in Nat : d = c + 1 + e
    <3>1. d - c - 1 \in Nat /\ d = c + 1 + (d - c - 1)
      BY <1>1
    <3> QED
      BY <3>1
  <2>2. d * (k + 1) = c * (k + 1) + (k + 1) + e * (k + 1)
    BY <2>1
  <2>3. e * (k + 1) \in Nat /\ c * (k + 1) \in Nat
    OBVIOUS
  <2> QED
    BY <2>2, <2>3
<1>2. a * (k + 1) \in Nat /\ b * (k + 1) \in Nat
  OBVIOUS
<1>3. ~(a < b)
  <2> SUFFICES ASSUME a < b PROVE FALSE
    OBVIOUS
  <2>1. a * (k + 1) + k + 1 <= b * (k + 1)
    BY <1>1
  <2> QED
    BY <1>2, <2>1
<1>4. ~(b < a)
  <2> SUFFICES ASSUME b < a PROVE FALSE
    OBVIOUS
  <2>1. b * (k + 1) + k + 1 <= a * (k + 1)
    BY <1>1
  <2> QED
    BY <1>2, <2>1
<1>5. a = b
  BY <1>3, <1>4
<1> QED
  BY <1>2, <1>5

LEMMA ComposeUnique ==
  ASSUME NEW t \in Nat, NEW w \in 0..MaxWorkerId, NEW s \in 0..MaxSequence,
         NEW u \in Nat, NEW v \in 0..MaxWorkerId, NEW r \in 0..MaxSequence,
         Compose(t, w, s) = Compose(u, v, r)
  PROVE  t = u /\ w = v /\ s = r
<1>0. MaxWorkerId \in Nat /\ MaxSequence \in Nat
  BY IdAssumption
<1>1. PICK a \in Nat, b \in Nat : a = t * (MaxWorkerId + 1) + w /\ b = u * (MaxWorkerId + 1) + v
  BY <1>0
<1>2. a * (MaxSequence + 1) + s = b * (MaxSequence + 1) + r
  BY <1>1 DEF Compose
<1>3. a = b /\ s = r
  BY <1>0, <1>2, DigitsUnique
<1>4. t * (MaxWorkerId + 1) + w = u * (MaxWorkerId + 1) + v
  BY <1>1, <1>3
<1> QED
  BY <1>0, <1>3, <1>4, DigitsUnique

LEMMA FlawsStay == [IdNext]_idVars => flaws \subseteq flaws'
<1> SUFFICES ASSUME [IdNext]_idVars PROVE flaws \subseteq flaws'
  OBVIOUS
<1>1. ASSUME NEW g \in Gens, Start(g) PROVE flaws \subseteq flaws'
  BY <1>1 DEF Start
<1>2. ASSUME NEW g \in Gens, Restart(g) \/ ExpireBits(g) PROVE flaws \subseteq flaws'
  BY <1>2 DEF Restart, ExpireBits
<1>3. ASSUME NEW g \in Gens, NextId(g) \/ Wake(g) PROVE flaws \subseteq flaws'
  BY <1>3 DEF NextId, Wake, Issue
<1>4. CASE ClockTicks \/ SetBack
  BY <1>4 DEF ClockTicks, SetBack
<1> QED
  BY <1>1, <1>2, <1>3, <1>4 DEF IdNext, idVars

LEMMA StillExcused == flaws \subseteq flaws' /\ Excused => Excused'
BY DEF Excused

\* One id: what is behind it in time, or taken by another worker id, does not equal it.
LEMMA IssueKeeps ==
  ASSUME IdInv, NEW g \in Gens, worker[g] # None, Issue(g, wall), UNCHANGED <<wall, bits, worker>>
  PROVE  /\ lastTime' \in [Gens -> Int] /\ sequence' \in [Gens -> 0..MaxSequence]
         /\ ~Excused' => "duplicate" \notin flaws' /\ OwnIds' /\ PastIds'
<1> DEFINE seq == IF wall = lastTime[g] THEN sequence[g] + 1 ELSE 0
           id == Compose(wall, worker[g], seq)
<1>1. /\ seq <= MaxSequence
      /\ sequence' = [sequence EXCEPT ![g] = seq]
      /\ lastTime' = [lastTime EXCEPT ![g] = wall]
      /\ issued' = issued \union {id}
      /\ flaws' = (flaws \union (IF id \in issued THEN {"duplicate"} ELSE {}))
                     \union (IF wall < lastTime[g] THEN {"rewound"} ELSE {})
  BY DEF Issue
<1>2. /\ wall \in Nat /\ worker[g] \in 0..MaxWorkerId /\ lastTime[g] \in Int
      /\ sequence[g] \in 0..MaxSequence /\ MaxSequence \in Nat
  BY IdAssumption DEF IdInv, IdTypes, None
<1>3. seq \in 0..MaxSequence
  BY <1>1, <1>2
<1>4. /\ lastTime' \in [Gens -> Int] /\ sequence' \in [Gens -> 0..MaxSequence]
      /\ lastTime'[g] = wall /\ sequence'[g] = seq
      /\ \A h \in Gens \ {g} : lastTime'[h] = lastTime[h] /\ sequence'[h] = sequence[h]
  BY <1>1, <1>2, <1>3 DEF IdInv, IdTypes
<1>5. wall = lastTime[g] => seq = sequence[g] + 1
  OBVIOUS
<1> HIDE DEF seq
<1>6. ASSUME NEW t \in Nat, NEW w \in 0..MaxWorkerId, NEW s \in 0..MaxSequence,
             Compose(t, w, s) \in issued'
      PROVE  Compose(t, w, s) \in issued \/ (t = wall /\ w = worker[g] /\ s = seq)
  BY <1>1, <1>2, <1>3, <1>6, ComposeUnique
<1>7. ASSUME ~Excused' PROVE "duplicate" \notin flaws' /\ OwnIds' /\ PastIds'
  <2>1. flaws \subseteq flaws' /\ ~(wall < lastTime[g])
    BY <1>1, <1>7 DEF Excused
  <2>2. "duplicate" \notin flaws /\ WorkersApart /\ OwnIds /\ PastIds
    BY <1>7, <2>1, StillExcused DEF IdInv
  <2>3. "restarted" \notin flaws' \/ "set back" \notin flaws'
    BY <1>7 DEF Excused
  <2>4. id \notin issued
    <3> SUFFICES ASSUME id \in issued PROVE FALSE
      OBVIOUS
    <3>1. CASE "restarted" \notin flaws
      <4>1. PICK h \in Gens : worker[h] = worker[g]
                              /\ (wall < lastTime[h] \/ (wall = lastTime[h] /\ seq <= sequence[h]))
        BY <1>2, <1>3, <2>2, <3>1 DEF OwnIds
      <4>2. h = g
        BY <2>2, <4>1 DEF WorkersApart
      <4> QED
        BY <1>2, <1>5, <2>1, <4>1, <4>2
    <3>2. CASE "set back" \notin flaws
      <4>1. lastTime[g] = wall /\ seq <= sequence[g]
        BY <1>2, <1>3, <2>2, <3>2 DEF PastIds
      <4> QED
        BY <1>2, <1>5, <4>1
    <3> QED
      BY <2>1, <2>3, <3>1, <3>2
  <2>5. "duplicate" \notin flaws'
    BY <1>1, <2>2, <2>4
  <2>6. OwnIds'
    <3> SUFFICES ASSUME "restarted" \notin flaws',
                        NEW t \in Nat, NEW w \in 0..MaxWorkerId, NEW s \in 0..MaxSequence,
                        Compose(t, w, s) \in issued'
                 PROVE  \E h \in Gens : worker'[h] = w
                          /\ (t < lastTime'[h] \/ (t = lastTime'[h] /\ s <= sequence'[h]))
      BY DEF OwnIds, Compose
    <3>1. CASE t = wall /\ w = worker[g] /\ s = seq
      BY <1>2, <1>3, <1>4, <3>1
    <3>2. CASE Compose(t, w, s) \in issued
      <4>1. PICK h \in Gens : worker[h] = w
                              /\ (t < lastTime[h] \/ (t = lastTime[h] /\ s <= sequence[h]))
        BY <2>1, <2>2, <3>2 DEF OwnIds
      <4>2. CASE h # g
        BY <1>4, <4>1, <4>2
      <4>3. CASE h = g
        BY <1>2, <1>3, <1>4, <1>5, <2>1, <4>1, <4>3
      <4> QED
        BY <4>2, <4>3
    <3> QED
      BY <1>6, <3>1, <3>2
  <2>7. PastIds'
    <3>0. SUFFICES ASSUME "set back" \notin flaws',
                          NEW t \in Nat, NEW w \in 0..MaxWorkerId, NEW s \in 0..MaxSequence,
                          Compose(t, w, s) \in issued'
                   PROVE  /\ t <= wall
                          /\ t = wall => /\ w \in bits
                                         /\ \A h \in Gens : worker[h] = w =>
                                              lastTime'[h] = t /\ s <= sequence'[h]
      BY DEF PastIds, Compose
    <3>1. CASE t = wall /\ w = worker[g] /\ s = seq
      <4>1. w \in bits /\ \A h \in Gens : worker[h] = w => h = g
        BY <2>2, <3>1 DEF WorkersApart
      <4> QED
        BY <1>2, <1>3, <1>4, <3>1, <4>1
    <3>2. CASE Compose(t, w, s) \in issued
      <4>1. /\ t <= wall
            /\ t = wall => /\ w \in bits
                           /\ \A h \in Gens : worker[h] = w => lastTime[h] = t /\ s <= sequence[h]
        BY <2>1, <2>2, <3>0, <3>2 DEF PastIds
      <4>2. t = wall /\ worker[g] = w => s <= seq
        BY <1>2, <1>5, <4>1
      <4> QED
        BY <1>4, <4>1, <4>2
    <3> QED
      BY <1>6, <3>0, <3>1, <3>2
  <2> QED
    BY <2>5, <2>6, <2>7
<1> QED
  BY <1>4, <1>7

LEMMA NothingIssued ==
  ASSUME ~Excused => "duplicate" \notin flaws /\ WorkersApart /\ OwnIds /\ PastIds,
         UNCHANGED <<wall, bits, worker, lastTime, sequence, issued, flaws>>
  PROVE  ~Excused' => "duplicate" \notin flaws' /\ WorkersApart' /\ OwnIds' /\ PastIds'
<1>1. Excused' = Excused
  BY DEF Excused
<1>2. WorkersApart => WorkersApart'
  BY DEF WorkersApart
<1>3. OwnIds => OwnIds'
  BY DEF OwnIds, Compose
<1>4. PastIds => PastIds'
  BY DEF PastIds, Compose
<1> QED
  BY <1>1, <1>2, <1>3, <1>4

LEMMA GeneratorCalled ==
  ASSUME IdInv, NEW g \in Gens, NextId(g) \/ Wake(g)
  PROVE  IdInv'
<1>0. /\ wall \in Nat /\ sleep \in [Gens -> Int] /\ lastTime \in [Gens -> Int]
      /\ worker \in [Gens -> -1..MaxWorkerId] /\ UNCHANGED <<wall, bits, worker>>
  BY DEF IdInv, IdTypes, NextId, Wake, clockVars, bitVars
<1>1. worker[g] # None
  BY DEF NextId, Wake, IdInv, IdTypes
<1>2. sleep' \in [Gens -> Int] /\ \A h \in Gens \ {g} : sleep'[h] = sleep[h]
  <2>1. CASE UNCHANGED sleep
    BY <1>0, <2>1
  <2>2. CASE sleep' = [sleep EXCEPT ![g] = lastTime[g] - wall + 1]
    <3>1. lastTime[g] - wall + 1 \in Int
      BY <1>0
    <3> QED
      BY <1>0, <2>2, <3>1
  <2>3. CASE sleep' = [sleep EXCEPT ![g] = -1]
    BY <1>0, <2>3
  <2> QED
    BY <2>1, <2>2, <2>3 DEF NextId, Wake
<1>3. \A h \in Gens : sleep'[h] # -1 => worker'[h] # None
  BY <1>0, <1>1, <1>2 DEF IdInv, IdTypes
<1>4. CASE Issue(g, wall)
  <2>1. /\ lastTime' \in [Gens -> Int] /\ sequence' \in [Gens -> 0..MaxSequence]
        /\ ~Excused' => "duplicate" \notin flaws' /\ OwnIds' /\ PastIds'
    BY <1>0, <1>1, <1>4, IssueKeeps
  <2>2. IdTypes'
    BY <1>0, <1>2, <1>3, <2>1 DEF IdTypes
  <2>3. ~Excused' => WorkersApart'
    <3>1. flaws \subseteq flaws'
      BY <1>4 DEF Issue
    <3>2. ~Excused => WorkersApart
      BY DEF IdInv
    <3> QED
      BY <1>0, <3>1, <3>2, StillExcused DEF WorkersApart
  <2> QED
    BY <2>1, <2>2, <2>3 DEF IdInv
<1>5. CASE UNCHANGED <<lastTime, sequence, issued, flaws>>
  <2>1. IdTypes'
    BY <1>0, <1>2, <1>3, <1>5 DEF IdTypes, IdInv
  <2>2. ~Excused => "duplicate" \notin flaws /\ WorkersApart /\ OwnIds /\ PastIds
    BY DEF IdInv
  <2>3. ~Excused' => "duplicate" \notin flaws' /\ WorkersApart' /\ OwnIds' /\ PastIds'
    BY <1>0, <1>5, <2>2, NothingIssued
  <2> QED
    BY <2>1, <2>3 DEF IdInv
<1> QED
  BY <1>4, <1>5 DEF NextId, Wake

LEMMA GeneratorStarts ==
  ASSUME IdInv, NEW g \in Gens, Start(g)
  PROVE  IdInv'
<1>0. /\ worker[g] = None /\ worker \in [Gens -> -1..MaxWorkerId]
      /\ UNCHANGED <<wall, lastTime, sequence, sleep, issued>>
      /\ MaxWorkerId \in Nat
  BY IdAssumption DEF Start, clockVars, IdInv, IdTypes
<1>1. flaws \subseteq flaws'
  BY DEF Start
<1>2. \/ "hostname" \in flaws' /\ \E w \in 0..MaxWorkerId : worker' = [worker EXCEPT ![g] = w]
      \/ \E w \in (0..MaxWorkerId) \ bits :
           /\ bits' = bits \union {w}
           /\ worker' \in {worker, [worker EXCEPT ![g] = w]}
           /\ UNCHANGED flaws
  BY <1>0, IdAssumption DEF Start, TakeBit, LoseBit
<1>3. worker' \in [Gens -> -1..MaxWorkerId] /\ \A h \in Gens \ {g} : worker'[h] = worker[h]
  BY <1>0, <1>2
<1>4. IdTypes'
  <2>1. \A h \in Gens : sleep'[h] # -1 => worker'[h] # None
    <3>1. sleep[g] = -1
      BY <1>0 DEF IdInv, IdTypes
    <3> QED
      BY <1>0, <1>3, <3>1 DEF IdInv, IdTypes
  <2> QED
    BY <1>0, <1>3, <2>1 DEF IdInv, IdTypes
<1>5. ASSUME ~Excused' PROVE "duplicate" \notin flaws' /\ WorkersApart' /\ OwnIds' /\ PastIds'
  <2>1. PICK w \in (0..MaxWorkerId) \ bits :
           /\ bits' = bits \union {w}
           /\ worker' \in {worker, [worker EXCEPT ![g] = w]}
           /\ UNCHANGED flaws
    BY <1>2, <1>5 DEF Excused
  <2>2. "duplicate" \notin flaws /\ WorkersApart /\ OwnIds /\ PastIds
    BY <1>1, <1>5, StillExcused DEF IdInv
  <2>3. worker'[g] \in {None, w} /\ w # None
    BY <1>0, <2>1 DEF None
  <2>4. WorkersApart'
    <3>1. \A h \in Gens : worker'[h] # None => worker'[h] \in bits'
      BY <1>3, <2>1, <2>2, <2>3 DEF WorkersApart
    <3>2. \A h \in Gens \ {g} : worker'[h] # None => worker'[h] # w
      BY <1>3, <2>1, <2>2 DEF WorkersApart
    <3> QED
      BY <1>3, <2>2, <2>3, <3>1, <3>2 DEF WorkersApart
  <2>5. OwnIds'
    <3>0. SUFFICES ASSUME "restarted" \notin flaws,
                          NEW t \in Nat, NEW x \in 0..MaxWorkerId, NEW s \in 0..MaxSequence,
                          Compose(t, x, s) \in issued
                   PROVE  \E h \in Gens : worker'[h] = x
                            /\ (t < lastTime[h] \/ (t = lastTime[h] /\ s <= sequence[h]))
      BY <1>0, <2>1 DEF OwnIds, Compose
    <3>1. PICK h \in Gens : worker[h] = x
                            /\ (t < lastTime[h] \/ (t = lastTime[h] /\ s <= sequence[h]))
      BY <2>2, <3>0 DEF OwnIds
    <3>2. x # None
      BY <1>0 DEF None
    <3>3. h # g
      BY <1>0, <3>1, <3>2
    <3> QED
      BY <1>3, <3>1, <3>3
  <2>6. PastIds'
    <3>0. SUFFICES ASSUME "set back" \notin flaws,
                          NEW t \in Nat, NEW x \in 0..MaxWorkerId, NEW s \in 0..MaxSequence,
                          Compose(t, x, s) \in issued
                   PROVE  /\ t <= wall
                          /\ t = wall => /\ x \in bits'
                                         /\ \A h \in Gens : worker'[h] = x =>
                                              lastTime[h] = t /\ s <= sequence[h]
      BY <1>0, <2>1, ZenonT(40) DEF PastIds, Compose
    <3>1. /\ t <= wall
          /\ t = wall => /\ x \in bits
                         /\ \A h \in Gens : worker[h] = x => lastTime[h] = t /\ s <= sequence[h]
      BY <2>2, <3>0 DEF PastIds
    <3>2. x # None
      BY <1>0 DEF None
    <3>3. x \in bits => worker'[g] # x
      BY <2>1, <2>3, <3>2
    <3> QED
      BY <1>3, <2>1, <3>1, <3>3
  <2> QED
    BY <2>1, <2>2, <2>4, <2>5, <2>6
<1> QED
  BY <1>4, <1>5 DEF IdInv

LEMMA GeneratorRestarts ==
  ASSUME IdInv, NEW g \in Gens, Restart(g)
  PROVE  IdInv'
<1>0. UNCHANGED <<wall, bits, issued>> /\ flaws' = flaws \union {"restarted"}
  BY DEF Restart, clockVars
<1>1. /\ worker' = [worker EXCEPT ![g] = None] /\ lastTime' = [lastTime EXCEPT ![g] = -1]
      /\ sequence' = [sequence EXCEPT ![g] = 0] /\ sleep' = [sleep EXCEPT ![g] = -1]
  BY DEF Restart
<1>2. IdTypes'
  <2>1. worker' \in [Gens -> -1..MaxWorkerId]
    BY <1>1, IdAssumption DEF IdInv, IdTypes, None
  <2>2. lastTime' \in [Gens -> Int] /\ sleep' \in [Gens -> Int]
    BY <1>1 DEF IdInv, IdTypes
  <2>3. sequence' \in [Gens -> 0..MaxSequence]
    BY <1>1, IdAssumption DEF IdInv, IdTypes
  <2>4. \A h \in Gens : sleep'[h] # -1 => worker'[h] # None
    BY <1>1 DEF IdInv, IdTypes
  <2> QED
    BY <1>0, <2>1, <2>2, <2>3, <2>4 DEF IdInv, IdTypes
<1>3. /\ worker'[g] = None
      /\ \A h \in Gens \ {g} : /\ worker'[h] = worker[h] /\ lastTime'[h] = lastTime[h]
                               /\ sequence'[h] = sequence[h]
  BY <1>1 DEF IdInv, IdTypes
<1>4. ASSUME ~Excused' PROVE "duplicate" \notin flaws' /\ WorkersApart' /\ OwnIds' /\ PastIds'
  <2>1. "duplicate" \notin flaws /\ WorkersApart /\ PastIds
    BY <1>0, <1>4, StillExcused DEF IdInv
  <2>2. WorkersApart'
    BY <1>0, <1>3, <2>1 DEF WorkersApart
  <2>3. OwnIds'
    BY <1>0 DEF OwnIds
  <2>4. PastIds'
    <3>0. SUFFICES ASSUME "set back" \notin flaws,
                          NEW t \in Nat, NEW x \in 0..MaxWorkerId, NEW s \in 0..MaxSequence,
                          Compose(t, x, s) \in issued
                   PROVE  /\ t <= wall
                          /\ t = wall => /\ x \in bits
                                         /\ \A h \in Gens : worker'[h] = x =>
                                              lastTime'[h] = t /\ s <= sequence'[h]
      BY <1>0 DEF PastIds, Compose
    <3>1. /\ t <= wall
          /\ t = wall => /\ x \in bits
                         /\ \A h \in Gens : worker[h] = x => lastTime[h] = t /\ s <= sequence[h]
      BY <2>1, <3>0 DEF PastIds
    <3>2. x # None
      BY IdAssumption DEF None
    <3> QED
      BY <1>3, <3>1, <3>2
  <2> QED
    BY <1>0, <2>1, <2>2, <2>3, <2>4
<1> QED
  BY <1>2, <1>4 DEF IdInv

LEMMA SetBackTo == \A n \in Nat : \A m \in 0..n - 1 : m \in Nat
OBVIOUS

LEMMA ClockMoves ==
  ASSUME IdInv, ClockTicks \/ SetBack
  PROVE  IdInv'
<1>0. /\ wall \in Nat /\ sleep \in [Gens -> Int]
      /\ UNCHANGED <<worker, lastTime, sequence, issued>>
  BY DEF ClockTicks, SetBack, genVars, IdInv, IdTypes
<1>1. CASE SetBack
  <2>1. wall' \in Nat /\ UNCHANGED <<bits, sleep>> /\ flaws' = flaws \union {"set back"}
    <3>1. wall' \in 0..wall - 1 /\ flaws' = flaws \union {"set back"}
      BY <1>1 DEF SetBack
    <3>2. UNCHANGED <<bits, sleep>>
      BY <1>1 DEF SetBack, bitVars, genVars
    <3>3. wall' \in Nat
      BY <1>0, <3>1, SetBackTo
    <3> QED
      BY <3>1, <3>2, <3>3
  <2>2. IdTypes'
    BY <1>0, <2>1 DEF IdInv, IdTypes
  <2>3. ASSUME ~Excused' PROVE "duplicate" \notin flaws' /\ WorkersApart' /\ OwnIds' /\ PastIds'
    <3>1. "duplicate" \notin flaws /\ WorkersApart /\ OwnIds
      BY <2>1, <2>3, StillExcused DEF IdInv
    <3>2. WorkersApart'
      BY <1>0, <2>1, <3>1 DEF WorkersApart
    <3>3. OwnIds'
      <4>1. ("restarted" \notin flaws') => ("restarted" \notin flaws)
        BY <2>1
      <4> QED
        BY <1>0, <3>1, <4>1 DEF OwnIds, Compose
    <3>4. PastIds'
      BY <2>1 DEF PastIds
    <3> QED
      BY <2>1, <3>1, <3>2, <3>3, <3>4
  <2> QED
    BY <2>2, <2>3 DEF IdInv
<1>2. CASE ClockTicks
  <2>1. /\ wall' = wall + 1
        /\ sleep' = [g \in Gens |-> IF sleep[g] > 0 THEN sleep[g] - 1 ELSE sleep[g]]
        /\ \/ UNCHANGED bits
           \/ bits' = {} /\ ("expired" \in flaws' \/ \A g \in Gens : worker[g] \notin bits)
        /\ flaws' \in {flaws, flaws \union {"expired"}}
    BY <1>2 DEF ClockTicks
  <2>2. IdTypes'
    <3>1. sleep' \in [Gens -> Int] /\ \A g \in Gens : sleep'[g] # -1 => sleep[g] # -1
      BY <1>0, <2>1
    <3> QED
      BY <1>0, <2>1, <3>1 DEF IdInv, IdTypes
  <2>3. ASSUME ~Excused' PROVE "duplicate" \notin flaws' /\ WorkersApart' /\ OwnIds' /\ PastIds'
    <3>1. flaws \subseteq flaws'
      BY <2>1
    <3>2. "duplicate" \notin flaws /\ WorkersApart /\ OwnIds /\ PastIds
      BY <2>3, <3>1, StillExcused DEF IdInv
    <3>3. UNCHANGED flaws
      BY <2>1, <2>3 DEF Excused
    <3>4. WorkersApart'
      <4>1. bits' = {} => \A g \in Gens : worker[g] = None
        BY <2>1, <2>3, <3>2 DEF WorkersApart, Excused
      <4> QED
        BY <1>0, <2>1, <3>2, <4>1 DEF WorkersApart
    <3>5. OwnIds'
      BY <1>0, <3>2, <3>3 DEF OwnIds, Compose
    <3>6. PastIds'
      <4>0. SUFFICES ASSUME "set back" \notin flaws,
                            NEW t \in Nat, NEW x \in 0..MaxWorkerId, NEW s \in 0..MaxSequence,
                            Compose(t, x, s) \in issued
                     PROVE  t <= wall' /\ t # wall'
        BY <1>0, <3>3 DEF PastIds, Compose
      <4>1. t <= wall
        BY <3>2, <4>0 DEF PastIds
      <4> QED
        BY <1>0, <2>1, <4>1
    <3> QED
      BY <3>2, <3>3, <3>4, <3>5, <3>6
  <2> QED
    BY <2>2, <2>3 DEF IdInv
<1> QED
  BY <1>1, <1>2

\* Without an expiry under a running generator, a host's name for an id, a clock that is behind
\* after the sleep, or a restart together with a clock set back, all ids differ: for any
\* number of generators, bits, ids per millisecond, and however long.
THEOREM IdsUnique == IdSpec => []DuplicateHasReason
<1>1. IdInit => IdInv
  <2> SUFFICES ASSUME IdInit PROVE IdInv
    OBVIOUS
  <2>1. IdTypes
    BY IdAssumption DEF IdInit, IdTypes, None
  <2>2. "duplicate" \notin flaws /\ WorkersApart /\ OwnIds /\ PastIds
    BY DEF IdInit, WorkersApart, OwnIds, PastIds
  <2> QED
    BY <2>1, <2>2 DEF IdInv
<1>2. IdInv /\ [IdNext]_idVars => IdInv'
  <2>1. ASSUME IdInv, UNCHANGED idVars PROVE IdInv'
    <3>1. UNCHANGED <<wall, bits, worker, lastTime, sequence, sleep, issued, flaws>>
      BY <2>1 DEF idVars, clockVars, bitVars, genVars
    <3>2. IdTypes'
      BY <2>1, <3>1 DEF IdInv, IdTypes
    <3> QED
      BY <2>1, <3>1, <3>2, NothingIssued DEF IdInv
  <2>2. ASSUME IdInv, NEW g \in Gens, Start(g) \/ Restart(g) \/ NextId(g) \/ Wake(g)
        PROVE  IdInv'
    BY <2>2, GeneratorCalled, GeneratorStarts, GeneratorRestarts
  <2>3. ASSUME IdInv, ClockTicks \/ SetBack PROVE IdInv'
    BY <2>3, ClockMoves
  <2>4. ASSUME IdInv, NEW g \in Gens, ExpireBits(g) PROVE IdInv'
    <3>1. UNCHANGED <<wall, bits, worker, lastTime, sequence, sleep, issued, flaws>>
      BY <2>4 DEF ExpireBits, clockVars, genVars
    <3>2. IdTypes'
      BY <2>4, <3>1 DEF IdInv, IdTypes
    <3> QED
      BY <2>4, <3>1, <3>2, NothingIssued DEF IdInv
  <2> QED
    BY <2>1, <2>2, <2>3, <2>4 DEF IdNext
<1>3. IdInv => DuplicateHasReason
  BY DEF IdInv, Excused, DuplicateHasReason
<1> QED
  BY <1>1, <1>2, <1>3, PTL DEF IdSpec

-----------------------------------------------------------------------------
(***************************************************************************)
(* RateLimiter: for any limit, any window, and requests at any times.      *)
(***************************************************************************)

LimiterTypes ==
    /\ dimension \in Dimensions
    /\ clock \in Nat
    /\ IsFiniteSet(log)
    /\ \A e \in log : e.score \in Nat
    /\ tokens \in Nat /\ tokens <= Limit
    /\ refilled \in Nat /\ refilled <= clock
    /\ exists \in BOOLEAN
    /\ dies \in Nat
    /\ count \in Nat
    /\ passed \in Seq(Nat)
    /\ \A i \in DOMAIN passed : passed[i] <= clock
    /\ \A i, j \in DOMAIN passed : i <= j => passed[i] <= passed[j]

PassedSince(t) == {i \in DOMAIN passed : passed[i] > t}
LoggedSince(t) == {e \in log : e.score > t}

\* The sorted set has a member for each request that passed within the window.
LogCounts ==
    dimension = "sliding_window" /\ blame = {} =>
        /\ \A t \in Int : t >= clock - Window =>
              Cardinality(PassedSince(t)) <= Cardinality(LoggedSince(t))
        /\ \A i \in DOMAIN passed : passed[i] + Window <= dies

\* What has passed since a request, with the tokens that are left, is no more than the
\* capacity and what the rate has made until the last refill; the hash lives on until
\* the bucket would be full anyway.
BucketPaid ==
    dimension = "token_bucket" /\ blame \subseteq {"rounding"} =>
        /\ \A i \in DOMAIN passed :
              /\ passed[i] <= refilled
              /\ (Len(passed) - i) + 1 + tokens <= Limit + Made(refilled - passed[i])
        /\ exists => dies = refilled + Window + Slack
        /\ exists \/ passed = <<>> \/ clock >= refilled + Window + Slack

\* Without rounding a request that is refused finds what the last one left at the same time.
RefilledByPass ==
    dimension = "token_bucket" /\ blame = {} /\ exists =>
        passed # <<>> /\ refilled = passed[Len(passed)]

LimiterInv ==
    /\ LimiterTypes /\ LogCounts /\ BucketPaid /\ RefilledByPass
    /\ WindowBound /\ BucketBound

\* Two parts of a span make no more, each rounded down, than the whole of it.
LEMMA QuotientsAdd ==
  ASSUME NEW x \in Nat, NEW y \in Nat, NEW w \in Nat \ {0}
  PROVE  /\ x \div w \in Nat
         /\ (x \div w) + (y \div w) <= (x + y) \div w
OBVIOUS

LEMMA QuotientOfMore ==
  ASSUME NEW x \in Nat, NEW n \in Nat, NEW w \in Nat \ {0}, x >= w * n
  PROVE  x \div w >= n
OBVIOUS

LEMMA QuotientNought ==
  ASSUME NEW x \in Nat, NEW w \in Nat \ {0}, x \div w = 0, x % w = 0
  PROVE  x = 0
OBVIOUS

LEMMA NoProductNought ==
  ASSUME NEW x \in Nat \ {0}, NEW n \in Nat \ {0}
  PROVE  x * n # 0
OBVIOUS

LEMMA MadeAdds ==
  ASSUME NEW a \in Nat, NEW b \in Nat
  PROVE  Made(a) \in Nat /\ Made(a) + Made(b) <= Made(a + b)
<1>1. a * Limit \in Nat /\ b * Limit \in Nat /\ (a + b) * Limit = (a * Limit) + (b * Limit)
  BY LimiterAssumption
<1> QED
  BY <1>1, QuotientsAdd, LimiterAssumption DEF Made

LEMMA WindowMakesLimit ==
  ASSUME NEW a \in Nat, a >= Window
  PROVE  Made(a) >= Limit
<1>1. a * Limit \in Nat /\ a * Limit >= Window * Limit
  BY LimiterAssumption
<1> QED
  BY <1>1, QuotientOfMore, LimiterAssumption DEF Made


\* A request leaves the earlier ones as they are, and adds the last.
LEMMA PassedOn ==
  ASSUME LimiterTypes, NEW allowed \in BOOLEAN, Answer(allowed)
  PROVE  /\ passed' \in Seq(Nat)
         /\ DOMAIN passed = 1..Len(passed) /\ DOMAIN passed' = 1..Len(passed')
         /\ Len(passed') = IF allowed THEN Len(passed) + 1 ELSE Len(passed)
         /\ \A i \in 1..Len(passed) : passed'[i] = passed[i]
         /\ allowed => passed'[Len(passed) + 1] = clock
         /\ \A i \in DOMAIN passed' : passed'[i] <= clock
         /\ \A i, j \in DOMAIN passed' : i <= j => passed'[i] <= passed'[j]
<1>1. /\ passed \in Seq(Nat) /\ clock \in Nat
      /\ \A i \in DOMAIN passed : passed[i] <= clock
      /\ \A i, j \in DOMAIN passed : i <= j => passed[i] <= passed[j]
  BY DEF LimiterTypes
<1>2. /\ passed' \in Seq(Nat)
      /\ DOMAIN passed = 1..Len(passed) /\ DOMAIN passed' = 1..Len(passed')
      /\ Len(passed') = IF allowed THEN Len(passed) + 1 ELSE Len(passed)
      /\ \A i \in 1..Len(passed) : passed'[i] = passed[i]
      /\ allowed => passed'[Len(passed) + 1] = clock
  BY <1>1 DEF Answer
<1>3. Len(passed) \in Nat /\ clock \in Nat
  BY <1>1
<1>4. /\ \A i \in 1..Len(passed) : passed[i] \in Nat /\ passed[i] <= clock
      /\ \A i, j \in 1..Len(passed) : i <= j => passed[i] <= passed[j]
  <2>1. \A i \in 1..Len(passed) : passed[i] \in Nat
    BY <1>1
  <2>2. /\ \A i \in DOMAIN passed : passed[i] <= clock
        /\ \A i, j \in DOMAIN passed : i <= j => passed[i] <= passed[j]
    BY DEF LimiterTypes
  <2>3. DOMAIN passed = 1..Len(passed)
    BY <1>2
  <2> QED
    BY <2>1, <2>2, <2>3
<1>5. \A i \in DOMAIN passed' :
         \/ i \in 1..Len(passed) /\ passed'[i] = passed[i]
         \/ i = Len(passed) + 1 /\ passed'[i] = clock
  BY <1>2, <1>3
<1>6. \A i \in DOMAIN passed' : passed'[i] <= clock
  BY <1>3, <1>4, <1>5
<1>7. ASSUME NEW i \in DOMAIN passed', NEW j \in DOMAIN passed', i <= j
      PROVE  passed'[i] <= passed'[j]
  <2>1. CASE j \in 1..Len(passed) /\ passed'[j] = passed[j]
    <3>1. i \in 1..Len(passed) /\ passed'[i] = passed[i]
      BY <1>3, <1>5, <1>7, <2>1
    <3> QED
      BY <3>1, <2>1, <1>4, <1>7
  <2>2. CASE passed'[j] = clock
    BY <1>6, <2>2
  <2> QED
    BY <1>5, <2>1, <2>2
<1> QED
  BY <1>2, <1>6, <1>7

\* Without a clock behind the caller's time is the time.
LEMMA ReadingIsClock ==
  ASSUME LimiterTypes, NEW now \in 0..clock, NEW more, Blamed(now, more)
  PROVE  /\ now \in Nat /\ now <= clock
         /\ blame \subseteq blame' /\ more \subseteq blame'
         /\ "skew" \notin blame' => now = clock
BY DEF LimiterTypes, Blamed

-----------------------------------------------------------------------------
\* The sliding window keeps what is young and adds one to it.
LEMMA SlidingLog ==
  ASSUME LimiterTypes, NEW now \in 0..clock, SlidingWindow(now)
  PROVE  /\ IsFiniteSet(log') /\ \A e \in log' : e.score \in Nat
         /\ IsFiniteSet(Kept(now)) /\ Cardinality(Kept(now)) \in Nat
         /\ Cardinality(Kept(now)) >= Limit => log' = Kept(now) /\ passed' = passed /\ dies' = dies
         /\ Cardinality(Kept(now)) < Limit =>
               passed' = Append(passed, clock) /\ dies' = clock + Window
         /\ Cardinality(Kept(now)) < Limit /\ blame' = {} =>
               \E e : e \notin Kept(now) /\ e.score = clock /\ log' = Kept(now) \union {e}
<1> DEFINE kept == Kept(now)
           name == <<now \div Grain, Cardinality(kept)>>
           clash == {e \in kept : e.name = name}
           allowed == Cardinality(kept) < Limit
           new == [name |-> name, score |-> now]
<1>1. /\ log' = IF allowed THEN (kept \ clash) \union {new} ELSE kept
      /\ dies' = IF allowed THEN clock + Window ELSE dies
      /\ Answer(allowed)
      /\ Blamed(now, IF allowed /\ clash # {} THEN {"clash"} ELSE {})
  BY DEF SlidingWindow
<1>2. kept \subseteq log /\ IsFiniteSet(kept) /\ Cardinality(kept) \in Nat
  <2>1. kept \subseteq log
    BY DEF Kept
  <2> QED
    BY <2>1, FS_Subset, FS_CardinalityType DEF LimiterTypes
<1>3. now \in Nat /\ new.score = now /\ new.name = name
  BY DEF LimiterTypes
<1>4. allowed \in BOOLEAN
  OBVIOUS
<1>5. IsFiniteSet(kept \ clash)
  BY <1>2, FS_Subset
<1>6. IsFiniteSet((kept \ clash) \union {new})
  BY <1>5, FS_AddElement
<1>7. \A e \in kept : e.score \in Nat
  BY <1>2 DEF LimiterTypes
<1>8. ASSUME allowed, blame' = {}
      PROVE  new \notin kept /\ new.score = clock /\ log' = kept \union {new}
  <2>1. clash = {}
    BY <1>1, <1>8 DEF Blamed
  <2>2. new \notin kept
    BY <2>1, <1>3
  <2>3. now = clock
    BY <1>1, <1>8, ReadingIsClock
  <2> HIDE DEF new, kept, clash
  <2> QED
    BY <2>1, <2>2, <2>3, <1>1, <1>3, <1>8
<1> HIDE DEF new, clash, name
<1>9. IsFiniteSet(log') /\ \A e \in log' : e.score \in Nat
  BY <1>1, <1>2, <1>3, <1>6, <1>7
<1>10. allowed <=> ~(Cardinality(kept) >= Limit)
  BY <1>2, LimiterAssumption
<1>11. Answer(allowed) /\ (allowed => passed' = Append(passed, clock)) /\ (~allowed => passed' = passed)
  BY <1>1 DEF Answer
<1> QED
  BY <1>1, <1>2, <1>8, <1>9, <1>10, <1>11

\* As many members as requests, for every time from which the window is complete.
LEMMA SlidingCounts ==
  ASSUME LimiterInv, NEW now \in 0..clock, SlidingWindow(now), blame' = {},
         NEW t \in Int, t >= clock - Window
  PROVE  Cardinality(PassedSince(t)') <= Cardinality(LoggedSince(t)')
<1>0. /\ LimiterTypes /\ dimension = "sliding_window" /\ blame = {} /\ now = clock
      /\ clock \in Nat /\ passed \in Seq(Nat)
  BY ReadingIsClock DEF LimiterInv, SlidingWindow, Blamed, LimiterTypes
<1>1. Cardinality(PassedSince(t)) <= Cardinality(LoggedSince(t))
  BY <1>0 DEF LimiterInv, LogCounts
<1>2. {e \in Kept(now) : e.score > t} = LoggedSince(t)
  <2>1. \A e \in log : e.score > t => e.score > now - Window
    BY <1>0, LimiterAssumption DEF LimiterTypes
  <2> QED
    BY <2>1 DEF Kept, LoggedSince
<1>3. IsFiniteSet(LoggedSince(t)) /\ Cardinality(LoggedSince(t)) \in Nat
  BY <1>0, FS_Subset, FS_CardinalityType DEF LoggedSince, LimiterTypes
<1>4. IsFiniteSet(PassedSince(t)) /\ Cardinality(PassedSince(t)) \in Nat
  <2>1. DOMAIN passed = 1..Len(passed) /\ Len(passed) \in Nat
    BY <1>0
  <2>2. IsFiniteSet(DOMAIN passed)
    BY <2>1, FS_Interval
  <2> QED
    BY <2>2, FS_Subset, FS_CardinalityType DEF PassedSince
<1>5. CASE Cardinality(Kept(now)) >= Limit
  <2>1. log' = Kept(now) /\ passed' = passed
    BY <1>0, <1>5, SlidingLog
  <2>2. LoggedSince(t)' = LoggedSince(t) /\ PassedSince(t)' = PassedSince(t)
    BY <2>1, <1>2 DEF LoggedSince, PassedSince
  <2> QED
    BY <2>2, <1>1
<1>6. CASE Cardinality(Kept(now)) < Limit
  <2>1. PICK e : e \notin Kept(now) /\ e.score = clock /\ log' = Kept(now) \union {e}
    BY <1>0, <1>6, SlidingLog
  <2>2. passed' = Append(passed, clock)
    BY <1>0, <1>6, SlidingLog
  <2>3. DOMAIN passed = 1..Len(passed) /\ Len(passed) \in Nat
    BY <1>0
  <2>4. /\ DOMAIN passed' = 1..Len(passed) + 1 /\ passed'[Len(passed) + 1] = clock
        /\ \A i \in DOMAIN passed : passed'[i] = passed[i]
    BY <2>2, <1>0
  <2>5. CASE t < clock
    <3>1. PassedSince(t)' = PassedSince(t) \union {Len(passed) + 1}
      BY <2>3, <2>4, <2>5 DEF PassedSince
    <3>2. Len(passed) + 1 \notin PassedSince(t)
      BY <2>3 DEF PassedSince
    <3>3. LoggedSince(t)' = LoggedSince(t) \union {e}
      BY <2>1, <2>5, <1>2 DEF LoggedSince
    <3>4. e \notin LoggedSince(t)
      BY <2>1, <1>2
    <3>5. /\ Cardinality(LoggedSince(t)') = Cardinality(LoggedSince(t)) + 1
          /\ Cardinality(PassedSince(t)') = Cardinality(PassedSince(t)) + 1
      BY <3>1, <3>2, <3>3, <3>4, <1>3, <1>4, FS_AddElement
    <3> QED
      BY <3>5, <1>1, <1>3, <1>4
  <2>6. CASE t >= clock
    <3>1. PassedSince(t)' = {}
      BY <2>3, <2>4, <2>6, <1>0 DEF PassedSince, LimiterTypes
    <3>2. IsFiniteSet(LoggedSince(t)')
      BY SlidingLog, <1>0, FS_Subset DEF LoggedSince
    <3>3. Cardinality(PassedSince(t)') = 0 /\ Cardinality(LoggedSince(t)') \in Nat
      BY <3>1, <3>2, FS_EmptySet, FS_CardinalityType
    <3> QED
      BY <3>3
  <2> QED
    BY <2>5, <2>6, <1>0
<1> QED
  BY <1>5, <1>6, <1>0, SlidingLog, LimiterAssumption

\* The request that passes finds fewer than Limit in its window, so the one Limit
\* places before it is out of it.
LEMMA SlidingApart ==
  ASSUME LimiterInv, NEW now \in 0..clock, SlidingWindow(now), blame' = {},
         Cardinality(Kept(now)) < Limit,
         NEW i \in DOMAIN passed, Len(passed) + 1 >= i + Limit
  PROVE  clock >= passed[i] + Window
<1>0. /\ LimiterTypes /\ dimension = "sliding_window" /\ blame = {} /\ now = clock
      /\ clock \in Nat /\ passed \in Seq(Nat)
  BY ReadingIsClock DEF LimiterInv, SlidingWindow, Blamed, LimiterTypes
<1> DEFINE t == clock - Window
<1>10. passed[i] \in Nat /\ Window \in Nat /\ Limit \in Nat
  BY <1>0, LimiterAssumption
<1> SUFFICES ASSUME passed[i] > t
             PROVE  FALSE
  BY <1>0, <1>10
<1>1. t \in Int /\ t >= clock - Window
  BY <1>0, LimiterAssumption
<1> HIDE DEF t
<1>2. Cardinality(PassedSince(t)) <= Cardinality(LoggedSince(t))
  BY <1>0, <1>1 DEF LimiterInv, LogCounts
<1>3. LoggedSince(t) = Kept(now)
  BY <1>0 DEF LoggedSince, Kept, t
<1>4. DOMAIN passed = 1..Len(passed) /\ Len(passed) \in Nat
  BY <1>0
<1>5. i..Len(passed) \subseteq PassedSince(t)
  <2>1. \A j \in i..Len(passed) : j \in DOMAIN passed /\ i <= j
    BY <1>4
  <2>2. \A j \in DOMAIN passed : passed[j] \in Nat /\ (i <= j => passed[i] <= passed[j])
    BY <1>0 DEF LimiterTypes
  <2>3. \A j \in i..Len(passed) : passed[j] > t
    BY <2>1, <2>2, <1>1, <1>10
  <2> QED
    BY <2>1, <2>3 DEF PassedSince
<1>6. IsFiniteSet(PassedSince(t))
  <2>1. IsFiniteSet(DOMAIN passed)
    BY <1>4, FS_Interval
  <2> QED
    BY <2>1, FS_Subset DEF PassedSince
<1>7. Cardinality(i..Len(passed)) <= Cardinality(PassedSince(t)) /\ Cardinality(PassedSince(t)) \in Nat
  BY <1>5, <1>6, FS_Subset, FS_CardinalityType
<1>8. Cardinality(i..Len(passed)) = (Len(passed) - i) + 1
  BY <1>4, FS_Interval
<1>9. Cardinality(Kept(now)) \in Nat
  BY <1>0, SlidingLog
<1>11. Cardinality(PassedSince(t)) < Limit
  BY <1>2, <1>3, <1>7, <1>9, <1>10
<1>12. (Len(passed) - i) + 1 < Limit
  BY <1>7, <1>8, <1>10, <1>11, <1>4
<1> QED
  BY <1>4, <1>10, <1>12

-----------------------------------------------------------------------------
\* A bucket never holds more than its capacity.
LEMMA FilledFits ==
  ASSUME LimiterTypes, NEW now \in 0..clock
  PROVE  /\ Filled(now) \in Nat /\ Filled(now) <= Limit
         /\ exists => Filled(now) <= tokens + (IF now > refilled THEN Made(now - refilled) ELSE 0)
<1>1. /\ tokens \in Nat /\ tokens <= Limit /\ refilled \in Nat /\ now \in Nat /\ Limit \in Nat
  BY LimiterAssumption DEF LimiterTypes
<1>2. CASE now > refilled
  <2>1. now - refilled \in Nat
    BY <1>1, <1>2
  <2>2. Made(now - refilled) \in Nat
    BY <2>1, MadeAdds
  <2> QED
    BY <1>1, <1>2, <2>2 DEF Filled
<1>3. CASE ~(now > refilled)
  BY <1>1, <1>3 DEF Filled
<1> QED
  BY <1>2, <1>3

\* What a request at this time finds, and all that passed since an earlier one, is
\* covered by the capacity and the rate.
LEMMA FilledPaid ==
  ASSUME LimiterInv, dimension = "token_bucket", blame \subseteq {"rounding"},
         NEW i \in DOMAIN passed
  PROVE  /\ Made(clock - passed[i]) \in Nat
         /\ ((Len(passed) - i) + 1) + Filled(clock) <= Limit + Made(clock - passed[i])
<1>1. /\ LimiterTypes /\ tokens \in Nat /\ refilled \in Nat /\ clock \in Nat /\ refilled <= clock
      /\ Limit \in Nat /\ Window \in Nat /\ Slack \in Nat
  BY LimiterAssumption DEF LimiterTypes, LimiterInv
<1>2. i \in Nat /\ Len(passed) \in Nat /\ passed[i] \in Nat /\ passed # <<>>
  BY <1>1 DEF LimiterTypes
<1>3. /\ passed[i] <= refilled
      /\ (Len(passed) - i) + 1 + tokens <= Limit + Made(refilled - passed[i])
      /\ exists \/ clock >= refilled + Window + Slack
  BY <1>2 DEF LimiterInv, BucketPaid
<1>4. refilled - passed[i] \in Nat /\ clock - refilled \in Nat /\ clock - passed[i] \in Nat
      /\ (refilled - passed[i]) + (clock - refilled) = clock - passed[i]
  <2> DEFINE then == passed[i]
  <2>1. then \in Nat /\ then <= refilled
    BY <1>2, <1>3
  <2>2. refilled \in Nat /\ clock \in Nat /\ refilled <= clock
    BY <1>1
  <2> HIDE DEF then
  <2>3. /\ refilled - then \in Nat /\ clock - refilled \in Nat /\ clock - then \in Nat
        /\ (refilled - then) + (clock - refilled) = clock - then
    BY <2>1, <2>2
  <2> QED
    BY <2>3 DEF then
<1>5. /\ Made(refilled - passed[i]) \in Nat /\ Made(clock - refilled) \in Nat
      /\ Made(clock - passed[i]) \in Nat
      /\ Made(refilled - passed[i]) + Made(clock - refilled) <= Made(clock - passed[i])
  BY <1>4, MadeAdds
<1>6. clock \in 0..clock
  BY <1>1
<1>7. Filled(clock) \in Nat /\ Filled(clock) <= tokens + Made(clock - refilled)
  <2>1. CASE exists
    <3>1. Filled(clock) <= tokens + (IF clock > refilled THEN Made(clock - refilled) ELSE 0)
      BY <2>1, <1>1, <1>6, FilledFits
    <3>2. Filled(clock) \in Nat
      BY <1>1, <1>6, FilledFits
    <3> HIDE DEF Filled, Made
    <3> QED
      BY <3>1, <3>2, <1>1, <1>5
  <2>2. CASE ~exists
    <3>1. clock - refilled >= Window
      BY <2>2, <1>1, <1>3
    <3>2. Made(clock - refilled) >= Limit
      BY <3>1, <1>4, WindowMakesLimit
    <3>3. Filled(clock) \in Nat /\ Filled(clock) <= Limit
      BY <1>1, <1>6, FilledFits
    <3> HIDE DEF Filled, Made
    <3> QED
      BY <3>2, <3>3, <1>1, <1>5
  <2> QED
    BY <2>1, <2>2
<1>8. ASSUME NEW n \in Nat, NEW l \in Nat, NEW k \in Nat, NEW t \in Nat, NEW f \in Nat,
             NEW a \in Nat, NEW b \in Nat, NEW c \in Nat,
             (n - k) + 1 + t <= l + a, f <= t + b, a + b <= c
      PROVE  ((n - k) + 1) + f <= l + c
  BY <1>8
<1> QED
  BY <1>1, <1>2, <1>3, <1>5, <1>7, <1>8

LEMMA OneMoreOneLess ==
  ASSUME NEW n \in Nat, NEW i \in Nat, NEW f \in Nat
  PROVE  ((n + 1) - i) + 1 + (f - 1) = ((n - i) + 1) + f
OBVIOUS

\* What a bucket has given away stays paid.
LEMMA BucketKeeps ==
  ASSUME LimiterInv, NEW now \in 0..clock, TokenBucket(now), LimiterTypes'
  PROVE  BucketPaid' /\ RefilledByPass' /\ BucketBound'
<1> DEFINE filled == Filled(now)
           allowed == filled >= 1
<1>1. /\ dimension = "token_bucket" /\ dimension' = dimension /\ clock' = clock
      /\ tokens' = IF allowed THEN filled - 1 ELSE filled
      /\ refilled' = now
      /\ exists' = TRUE
      /\ dies' = clock + Window + Slack
      /\ Answer(allowed)
      /\ Blamed(now, IF exists /\ now > refilled /\ ((now - refilled) * Limit) % Window # 0
                     THEN {"rounding"} ELSE {})
  BY DEF TokenBucket
<1>2. /\ LimiterTypes /\ clock \in Nat /\ now \in Nat /\ Limit \in Nat \ {0}
      /\ Window \in Nat \ {0} /\ Slack \in Nat /\ refilled \in Nat /\ refilled <= clock
      /\ tokens \in Nat
  BY LimiterAssumption DEF LimiterInv, LimiterTypes
<1>12. /\ Len(passed) \in Nat /\ DOMAIN passed = 1..Len(passed)
       /\ \A i \in DOMAIN passed : passed[i] \in Nat
  BY <1>2 DEF LimiterTypes
<1>3. filled \in Nat /\ filled <= Limit
  BY <1>2, FilledFits
<1> HIDE DEF filled
<1>4. allowed \in BOOLEAN
  OBVIOUS
<1>5. /\ DOMAIN passed' = 1..Len(passed')
      /\ Len(passed') = IF allowed THEN Len(passed) + 1 ELSE Len(passed)
      /\ \A i \in 1..Len(passed) : passed'[i] = passed[i]
      /\ allowed => passed'[Len(passed) + 1] = clock
      /\ ~allowed => passed' = passed
  <2>1. Answer(allowed)
    BY <1>1
  <2> HIDE DEF allowed
  <2> QED
    BY <2>1, <1>2, <1>4, PassedOn DEF Answer
<1>6. Made(0) \in Nat
  BY MadeAdds
<1>7. ASSUME blame' \subseteq {"rounding"}
      PROVE  /\ blame \subseteq {"rounding"} /\ now = clock /\ filled = Filled(clock)
             /\ \A i \in DOMAIN passed :
                   /\ passed[i] \in Nat /\ passed[i] <= clock /\ Made(clock - passed[i]) \in Nat
                   /\ ((Len(passed) - i) + 1) + filled <= Limit + Made(clock - passed[i])
  <2>1. blame \subseteq {"rounding"} /\ now = clock
    BY <1>1, <1>2, <1>7, ReadingIsClock
  <2>2. filled = Filled(clock)
    BY <2>1 DEF filled
  <2> QED
    BY <2>1, <2>2, <1>1, <1>2, <1>12, FilledPaid DEF LimiterTypes
<1>8. ASSUME blame' \subseteq {"rounding"}, NEW i \in DOMAIN passed'
      PROVE  /\ passed'[i] <= clock
             /\ (Len(passed') - i) + 1 + tokens' <= Limit + Made(clock - passed'[i])
  <2>1. CASE i \in 1..Len(passed)
    <3>1. passed'[i] = passed[i] /\ i \in DOMAIN passed
      BY <2>1, <1>12, <1>5
    <3>2. /\ passed[i] \in Nat /\ passed[i] <= clock /\ Made(clock - passed[i]) \in Nat
          /\ ((Len(passed) - i) + 1) + filled <= Limit + Made(clock - passed[i])
      BY <3>1, <1>7, <1>8
    <3> HIDE DEF Made
    <3>3. CASE allowed
      <4>1. Len(passed') = Len(passed) + 1 /\ tokens' = filled - 1
        BY <3>3, <1>1, <1>5
      <4> QED
        BY <4>1, <3>1, <3>2, <2>1, <1>2, <1>12, <1>3, OneMoreOneLess, SMTT(20)
    <3>4. CASE ~allowed
      <4>1. Len(passed') = Len(passed) /\ tokens' = filled
        BY <3>4, <1>1, <1>5
      <4> QED
        BY <4>1, <3>1, <3>2, <2>1, <1>2, <1>12, <1>3
    <3> QED
      BY <3>3, <3>4
  <2>2. CASE allowed /\ i = Len(passed) + 1
    <3>1. passed'[i] = clock /\ clock - clock = 0
      BY <2>2, <1>2, <1>5
    <3>2. Len(passed') = i /\ tokens' = filled - 1
      BY <2>2, <1>1, <1>5
    <3> HIDE DEF Made
    <3> QED
      BY <3>1, <3>2, <2>2, <1>2, <1>12, <1>3, <1>6
  <2> QED
    BY <2>1, <2>2, <1>12, <1>5, <1>8
<1>9. BucketPaid'
  BY <1>1, <1>2, <1>7, <1>8 DEF BucketPaid
<1>10. RefilledByPass'
  <2> SUFFICES ASSUME blame' = {}
               PROVE  passed' # <<>> /\ refilled' = passed'[Len(passed')]
    BY <1>1 DEF RefilledByPass
  <2>1. now = clock /\ blame = {}
    BY <1>7, <1>1 DEF Blamed
  <2>2. CASE allowed
    BY <2>2, <2>1, <1>1, <1>12, <1>5
  <2>3. CASE ~allowed
    <3>1. filled = 0
      BY <2>3, <1>3
    <3>2. exists
      BY <3>1, <1>2 DEF filled, Filled
    <3>3. now <= refilled
      <4> SUFFICES ASSUME now > refilled
                   PROVE  FALSE
        BY <1>2
      <4>1. ((now - refilled) * Limit) % Window = 0
        BY <3>2, <2>1, <1>1 DEF Blamed
      <4>2. now - refilled \in Nat \ {0}
        BY <1>2
      <4>3. Made(now - refilled) = 0
        <5>1. Made(now - refilled) \in Nat
          BY <4>2, MadeAdds
        <5> QED
          BY <5>1, <3>1, <3>2, <1>2 DEF filled, Filled
      <4>4. (now - refilled) * Limit = 0
        <5>1. (now - refilled) * Limit \in Nat
          BY <4>2, <1>2
        <5> QED
          BY <5>1, <4>1, <4>3, <1>2, QuotientNought DEF Made
      <4> QED
        BY <4>2, <4>4, <1>2, NoProductNought
    <3>4. refilled = clock
      BY <3>3, <2>1, <1>2
    <3> QED
      BY <3>2, <3>4, <2>1, <2>3, <1>1, <1>5 DEF LimiterInv, RefilledByPass
  <2> QED
    BY <2>2, <2>3
<1>11. BucketBound'
  <2> SUFFICES ASSUME blame' \subseteq {"rounding"}, NEW i \in DOMAIN passed', NEW j \in DOMAIN passed',
                      i <= j
               PROVE  j - i + 1 <= Limit + Made(passed'[j] - passed'[i])
    BY <1>1 DEF BucketBound
  <2>1. blame \subseteq {"rounding"}
    BY <1>7
  <2>2. CASE j \in 1..Len(passed)
    <3>1. /\ i \in DOMAIN passed /\ j \in DOMAIN passed
          /\ passed'[i] = passed[i] /\ passed'[j] = passed[j]
      BY <2>2, <1>12, <1>5
    <3> QED
      BY <3>1, <2>1, <1>1 DEF LimiterInv, BucketBound
  <2>3. CASE allowed /\ j = Len(passed) + 1
    <3>1. passed'[j] = clock /\ Len(passed') = j
      BY <2>3, <1>5
    <3>2. (Len(passed') - i) + 1 + tokens' <= Limit + Made(clock - passed'[i])
      BY <1>8
    <3>3. Made(clock - passed'[i]) \in Nat
      <4>1. passed'[i] \in Nat
        <5>1. passed' \in Seq(Nat)
          BY DEF LimiterTypes
        <5> QED
          BY <5>1
      <4>2. passed'[i] <= clock
        BY <1>8
      <4>3. clock - passed'[i] \in Nat
        BY <4>1, <4>2, <1>2
      <4> QED
        BY <4>3, MadeAdds
    <3>4. tokens' \in Nat
      BY <1>1, <1>3
    <3> QED
      BY <3>1, <3>2, <3>3, <3>4, <1>2, <1>12, <1>5
  <2> QED
    BY <2>2, <2>3, <1>12, <1>5
<1> QED
  BY <1>9, <1>10, <1>11

-----------------------------------------------------------------------------
LEMMA LimiterStarts ==
  LimiterInit => LimiterInv
<1> SUFFICES ASSUME LimiterInit
             PROVE  LimiterInv
  OBVIOUS
<1>1. /\ dimension \in Dimensions /\ clock = 0 /\ log = {} /\ tokens = 0 /\ refilled = 0
      /\ exists = FALSE /\ dies = 0 /\ count = 0 /\ passed = <<>> /\ blame = {}
      /\ Limit \in Nat \ {0} /\ Window \in Nat \ {0}
  BY LimiterAssumption DEF LimiterInit
<1>2. DOMAIN passed = {} /\ passed \in Seq(Nat) /\ Len(passed) = 0 /\ IsFiniteSet(log)
  BY <1>1, FS_EmptySet
<1>3. LimiterTypes
  <2>1. /\ \A e \in log : e.score \in Nat
        /\ \A i \in DOMAIN passed : passed[i] <= clock
        /\ \A i, j \in DOMAIN passed : i <= j => passed[i] <= passed[j]
    BY <1>1, <1>2
  <2>2. tokens <= Limit /\ refilled <= clock /\ {clock, tokens, refilled, dies, count} \subseteq Nat
    BY <1>1
  <2> QED
    BY <2>1, <2>2, <1>1, <1>2 DEF LimiterTypes
<1>4. LogCounts
  <2>1. \A t : PassedSince(t) = {} /\ LoggedSince(t) = {}
    BY <1>1, <1>2 DEF PassedSince, LoggedSince
  <2>2. \A t : Cardinality(PassedSince(t)) <= Cardinality(LoggedSince(t))
    BY <2>1, FS_EmptySet
  <2> QED
    BY <2>2, <1>2 DEF LogCounts
<1> QED
  BY <1>1, <1>2, <1>3, <1>4
  DEF LimiterInv, BucketPaid, RefilledByPass, WindowBound, BucketBound

\* A request leaves a limiter in order.
LEMMA SlidingKeeps ==
  ASSUME LimiterInv, NEW now \in 0..clock, SlidingWindow(now)
  PROVE  LimiterInv'
<1>1. /\ dimension = "sliding_window" /\ dimension' = dimension /\ clock' = clock
      /\ tokens' = tokens /\ refilled' = refilled /\ exists' = exists /\ count' = count
      /\ Answer(Cardinality(Kept(now)) < Limit)
  BY DEF SlidingWindow
<1>2. /\ LimiterTypes /\ clock \in Nat /\ Limit \in Nat \ {0} /\ Window \in Nat \ {0} /\ dies \in Nat
      /\ Cardinality(Kept(now)) \in Nat /\ blame \subseteq blame'
  BY LimiterAssumption, SlidingLog DEF LimiterInv, LimiterTypes, SlidingWindow, Blamed
<1>3. /\ Len(passed) \in Nat /\ DOMAIN passed = 1..Len(passed)
      /\ \A i \in DOMAIN passed : passed[i] \in Nat /\ passed[i] <= clock
  BY <1>2 DEF LimiterTypes
<1> DEFINE allowed == Cardinality(Kept(now)) < Limit
<1>4. allowed \in BOOLEAN /\ Answer(allowed)
  BY <1>1
<1>5. /\ ~allowed => log' = Kept(now) /\ passed' = passed /\ dies' = dies
      /\ allowed => dies' = clock + Window
  BY <1>2, SlidingLog
<1>6. /\ passed' \in Seq(Nat)
      /\ DOMAIN passed' = 1..Len(passed')
      /\ Len(passed') = IF allowed THEN Len(passed) + 1 ELSE Len(passed)
      /\ \A i \in 1..Len(passed) : passed'[i] = passed[i]
      /\ allowed => passed'[Len(passed) + 1] = clock
      /\ \A i \in DOMAIN passed' : passed'[i] <= clock
      /\ \A i, j \in DOMAIN passed' : i <= j => passed'[i] <= passed'[j]
  <2> HIDE DEF allowed
  <2> QED
    BY <1>2, <1>4, PassedOn
<1>7. dies' \in Nat
  BY <1>2, <1>5
<1>8. LimiterTypes'
  BY <1>1, <1>2, <1>6, <1>7, SlidingLog DEF LimiterTypes
<1>9. LogCounts'
  <2> SUFFICES ASSUME blame' = {}
               PROVE  /\ \A t \in Int : t >= clock - Window =>
                            Cardinality(PassedSince(t)') <= Cardinality(LoggedSince(t)')
                      /\ \A i \in DOMAIN passed' : passed'[i] + Window <= dies'
    BY <1>1 DEF LogCounts
  <2>1. \A t \in Int : t >= clock - Window =>
           Cardinality(PassedSince(t)') <= Cardinality(LoggedSince(t)')
    BY SlidingCounts
  <2>2. ASSUME NEW i \in DOMAIN passed'
        PROVE  passed'[i] + Window <= dies'
    <3>1. CASE allowed
      <4>1. passed'[i] \in Nat /\ passed'[i] <= clock
        <5>1. passed'[i] \in Nat
          BY <1>6
        <5> QED
          BY <5>1, <1>6
      <4> QED
        BY <4>1, <3>1, <1>2, <1>5
    <3>2. CASE ~allowed
      <4>1. passed' = passed /\ dies' = dies /\ blame = {}
        BY <3>2, <1>2, <1>5
      <4> QED
        BY <4>1, <1>1 DEF LimiterInv, LogCounts
    <3> QED
      BY <3>1, <3>2
  <2> QED
    BY <2>1, <2>2
<1>10. WindowBound'
  <2> SUFFICES ASSUME blame' = {}, NEW i \in DOMAIN passed', NEW j \in DOMAIN passed',
                      j >= i + Limit
               PROVE  passed'[j] >= passed'[i] + Window
    BY DEF WindowBound
  <2>1. i \in 1..Len(passed)
    BY <1>2, <1>3, <1>6
  <2>2. CASE j \in 1..Len(passed)
    <3>1. /\ i \in DOMAIN passed /\ j \in DOMAIN passed
          /\ passed'[i] = passed[i] /\ passed'[j] = passed[j] /\ blame = {}
      BY <2>1, <2>2, <1>2, <1>3, <1>6
    <3> QED
      BY <3>1, <1>1 DEF LimiterInv, WindowBound
  <2>3. CASE allowed /\ j = Len(passed) + 1
    <3>1. /\ i \in DOMAIN passed /\ passed'[i] = passed[i] /\ passed'[j] = clock
      BY <2>1, <2>3, <1>3, <1>6
    <3> QED
      BY <3>1, <2>3, SlidingApart
  <2> QED
    BY <2>2, <2>3, <1>3, <1>6
<1> QED
  BY <1>1, <1>8, <1>9, <1>10
  DEF LimiterInv, BucketPaid, RefilledByPass, BucketBound

LEMMA TokenBucketKeeps ==
  ASSUME LimiterInv, NEW now \in 0..clock, TokenBucket(now)
  PROVE  LimiterInv'
<1> DEFINE allowed == Filled(now) >= 1
<1>1. /\ dimension = "token_bucket" /\ dimension' = dimension /\ clock' = clock
      /\ tokens' = IF allowed THEN Filled(now) - 1 ELSE Filled(now)
      /\ refilled' = now /\ exists' = TRUE /\ dies' = clock + Window + Slack
      /\ log' = log /\ count' = count
  BY DEF TokenBucket
<1>2. /\ LimiterTypes /\ clock \in Nat /\ Limit \in Nat \ {0} /\ Window \in Nat /\ Slack \in Nat
      /\ Filled(now) \in Nat /\ Filled(now) <= Limit /\ now \in Nat /\ now <= clock
  BY LimiterAssumption, FilledFits DEF LimiterInv, LimiterTypes
<1>3. allowed \in BOOLEAN /\ Answer(allowed)
  BY DEF TokenBucket
<1>4. /\ passed' \in Seq(Nat)
      /\ \A i \in DOMAIN passed' : passed'[i] <= clock
      /\ \A i, j \in DOMAIN passed' : i <= j => passed'[i] <= passed'[j]
  <2> HIDE DEF allowed
  <2> QED
    BY <1>2, <1>3, PassedOn
<1>5. tokens' \in Nat /\ tokens' <= Limit /\ dies' \in Nat
  <2> HIDE DEF Filled
  <2> QED
    BY <1>1, <1>2
<1>6. LimiterTypes'
  BY <1>1, <1>2, <1>4, <1>5 DEF LimiterTypes
<1>7. BucketPaid' /\ RefilledByPass' /\ BucketBound'
  BY <1>6, BucketKeeps
<1> QED
  BY <1>1, <1>6, <1>7
  DEF LimiterInv, LogCounts, WindowBound

LEMMA FixedWindowKeeps ==
  ASSUME LimiterInv, FixedWindow
  PROVE  LimiterInv'
<1> DEFINE allowed == count + 1 <= Limit
<1>1. /\ dimension = "fixed_window" /\ dimension' = dimension /\ clock' = clock
      /\ count' = count + 1 /\ Answer(allowed) /\ allowed \in BOOLEAN
      /\ log' = log /\ tokens' = tokens /\ refilled' = refilled /\ exists' = exists
      /\ dies' = dies /\ blame' = blame
  BY DEF FixedWindow
<1>2. LimiterTypes /\ count \in Nat /\ Limit \in Nat \ {0}
  BY LimiterAssumption DEF LimiterInv, LimiterTypes
<1>3. Len(passed) \in Nat
  BY <1>2 DEF LimiterTypes
<1>4. /\ passed' \in Seq(Nat)
      /\ Len(passed') = IF allowed THEN Len(passed) + 1 ELSE Len(passed)
      /\ \A i \in DOMAIN passed' : passed'[i] <= clock
      /\ \A i, j \in DOMAIN passed' : i <= j => passed'[i] <= passed'[j]
  <2>1. Answer(allowed) /\ allowed \in BOOLEAN
    BY <1>1
  <2> HIDE DEF allowed
  <2> QED
    BY <2>1, <1>2, PassedOn
<1>5. LimiterTypes'
  BY <1>1, <1>2, <1>4 DEF LimiterTypes
<1> QED
  BY <1>1, <1>5
  DEF LimiterInv, LogCounts, BucketPaid, RefilledByPass, WindowBound, BucketBound

LEMMA DegradedKeeps ==
  ASSUME LimiterInv, Degraded
  PROVE  LimiterInv'
<1>1. /\ dimension' = dimension /\ clock' = clock /\ count' \in {count, count + 1}
      /\ "error" \in blame' /\ Answer(TRUE)
      /\ log' = log /\ tokens' = tokens /\ refilled' = refilled /\ exists' = exists
      /\ dies' = dies
  BY DEF Degraded
<1>2. LimiterTypes /\ count \in Nat
  BY DEF LimiterInv, LimiterTypes
<1>3. /\ passed' \in Seq(Nat)
      /\ \A i \in DOMAIN passed' : passed'[i] <= clock
      /\ \A i, j \in DOMAIN passed' : i <= j => passed'[i] <= passed'[j]
  BY <1>1, <1>2, PassedOn
<1>4. LimiterTypes'
  BY <1>1, <1>2, <1>3 DEF LimiterTypes
<1>5. blame' # {} /\ ~(blame' \subseteq {"rounding"})
  BY <1>1
<1> QED
  BY <1>4, <1>5
  DEF LimiterInv, LogCounts, BucketPaid, RefilledByPass, WindowBound, BucketBound

\* Time passes: the key of a script goes when it has nothing to say any more.
LEMMA LimiterTickKeeps ==
  ASSUME LimiterInv, Tick
  PROVE  LimiterInv'
<1>1. /\ clock' = clock + 1
      /\ log' = IF clock' >= dies THEN {} ELSE log
      /\ exists' = (exists /\ clock' < dies)
      /\ dimension' = dimension /\ tokens' = tokens /\ refilled' = refilled /\ dies' = dies
      /\ count' = count /\ passed' = passed /\ blame' = blame
  BY DEF Tick
<1>2. /\ LimiterTypes /\ clock \in Nat /\ dies \in Nat /\ refilled \in Nat /\ refilled <= clock
      /\ Limit \in Nat \ {0} /\ Window \in Nat \ {0} /\ Slack \in Nat /\ exists \in BOOLEAN
  BY LimiterAssumption DEF LimiterInv, LimiterTypes
<1>3. /\ Len(passed) \in Nat /\ DOMAIN passed = 1..Len(passed)
      /\ \A i \in DOMAIN passed : passed[i] \in Nat /\ passed[i] <= clock
  BY <1>2 DEF LimiterTypes
<1>4. LimiterTypes'
  <2>1. IsFiniteSet(log') /\ \A e \in log' : e.score \in Nat
    BY <1>1, <1>2, FS_EmptySet DEF LimiterTypes
  <2>2. \A i \in DOMAIN passed : passed[i] <= clock + 1
    BY <1>2, <1>3
  <2> QED
    BY <2>1, <2>2, <1>1, <1>2 DEF LimiterTypes
<1>5. LogCounts'
  <2> SUFFICES ASSUME dimension = "sliding_window", blame = {}
               PROVE  /\ \A t \in Int : t >= clock' - Window =>
                            Cardinality(PassedSince(t)') <= Cardinality(LoggedSince(t)')
                      /\ \A i \in DOMAIN passed : passed[i] + Window <= dies
    BY <1>1 DEF LogCounts
  <2>1. /\ \A t \in Int : t >= clock - Window =>
               Cardinality(PassedSince(t)) <= Cardinality(LoggedSince(t))
        /\ \A i \in DOMAIN passed : passed[i] + Window <= dies
    BY DEF LimiterInv, LogCounts
  <2>2. ASSUME NEW t \in Int, t >= clock' - Window
        PROVE  Cardinality(PassedSince(t)') <= Cardinality(LoggedSince(t)')
    <3>1. PassedSince(t)' = PassedSince(t)
      BY <1>1 DEF PassedSince
    <3>2. CASE clock' >= dies
      <4>1. \A i \in DOMAIN passed : ~(passed[i] > t)
        BY <3>2, <2>1, <2>2, <1>1, <1>2, <1>3
      <4>2. PassedSince(t)' = {} /\ LoggedSince(t)' = {}
        BY <4>1, <3>1, <3>2, <1>1 DEF PassedSince, LoggedSince
      <4> QED
        BY <4>2, FS_EmptySet
    <3>3. CASE ~(clock' >= dies)
      <4>1. LoggedSince(t)' = LoggedSince(t)
        BY <3>3, <1>1 DEF LoggedSince
      <4>2. t >= clock - Window
        BY <2>2, <1>1, <1>2
      <4> QED
        BY <4>1, <4>2, <3>1, <2>1
    <3> QED
      BY <3>2, <3>3
  <2> QED
    BY <2>1, <2>2
<1>6. BucketPaid' /\ RefilledByPass'
  <2>1. ASSUME exists, dies = refilled + Window + Slack, ~exists'
        PROVE  clock' >= refilled + Window + Slack
    <3>1. ~(clock' < dies)
      BY <2>1, <1>1
    <3>2. ~(clock + 1 < refilled + Window + Slack)
      BY <3>1, <2>1, <1>1
    <3> QED
      BY <3>2, <1>1, <1>2
  <2>2. ASSUME clock >= refilled + Window + Slack
        PROVE  clock' >= refilled + Window + Slack
    BY <2>2, <1>1, <1>2
  <2> QED
    BY <2>1, <2>2, <1>1, <1>2 DEF LimiterInv, BucketPaid, RefilledByPass, Made
<1> QED
  BY <1>1, <1>4, <1>5, <1>6
  DEF LimiterInv, WindowBound, BucketBound, Made

\* Without rounding the last request is the last one that passed, so that a whole
\* window after it has made more than a token.
LEMMA WindowFills ==
  LimiterInv => TokensAreMade
<1> SUFFICES ASSUME LimiterInv, dimension = "token_bucket", blame = {}, clock >= Window,
                    \A i \in DOMAIN passed : passed[i] <= clock - Window
             PROVE  Filled(clock) >= 1
  BY DEF TokensAreMade
<1>1. /\ clock \in Nat /\ refilled \in Nat /\ tokens \in Nat /\ Limit \in Nat \ {0}
      /\ Window \in Nat \ {0} /\ passed \in Seq(Nat)
  BY LimiterAssumption DEF LimiterInv, LimiterTypes
<1>2. CASE exists
  <2>1. passed # <<>> /\ refilled = passed[Len(passed)]
    BY <1>2 DEF LimiterInv, RefilledByPass
  <2>2. Len(passed) \in DOMAIN passed
    BY <2>1, <1>1
  <2>3. refilled <= clock - Window
    BY <2>1, <2>2
  <2>4. clock - refilled \in Nat /\ clock - refilled >= Window /\ clock > refilled
    BY <2>3, <1>1
  <2>5. Made(clock - refilled) \in Nat /\ Made(clock - refilled) >= Limit
    BY <2>4, MadeAdds, WindowMakesLimit
  <2> QED
    BY <2>4, <2>5, <1>1 DEF Filled
<1>3. CASE ~exists
  BY <1>3, <1>1 DEF Filled
<1> QED
  BY <1>2, <1>3

\* Whatever the limit, the window and the times of the requests: the sliding window and
\* the bucket let no more pass than they promise, and a bucket has its token after a
\* window of rest, as far as no error, no clock, no shared name and no rounding is to blame.
THEOREM LimitsHold == LimiterSpec => []LimitsExplained
<1>1. LimiterInit => LimiterInv
  BY LimiterStarts
<1>2. LimiterInv /\ [LimiterNext]_limiterVars => LimiterInv'
  <2> SUFFICES ASSUME LimiterInv, [LimiterNext]_limiterVars
               PROVE  LimiterInv'
    OBVIOUS
  <2>1. ASSUME NEW now \in 0..clock, SlidingWindow(now)
        PROVE  LimiterInv'
    BY <2>1, SlidingKeeps
  <2>2. ASSUME NEW now \in 0..clock, TokenBucket(now)
        PROVE  LimiterInv'
    BY <2>2, TokenBucketKeeps
  <2>3. CASE FixedWindow
    BY <2>3, FixedWindowKeeps
  <2>4. CASE Degraded
    BY <2>4, DegradedKeeps
  <2>5. CASE Tick
    BY <2>5, LimiterTickKeeps
  <2>6. CASE UNCHANGED limiterVars
    BY <2>6
    DEF limiterVars, LimiterInv, LimiterTypes, LogCounts, PassedSince, LoggedSince, BucketPaid,
        RefilledByPass, WindowBound, BucketBound, Made
  <2> QED
    BY <2>1, <2>2, <2>3, <2>4, <2>5, <2>6 DEF LimiterNext, Request
<1>3. LimiterInv => LimitsExplained
  BY WindowFills DEF LimiterInv, LimitsExplained
<1> QED
  BY <1>1, <1>2, <1>3, PTL DEF LimiterSpec

=============================================================================
