------------------------ MODULE PostsaleCommitProofs ------------------------
(***************************************************************************)
(* Proofs about PostsaleCommit.  Its lock variables behave as the module   *)
(* DistributedLock says, so what is proved there of the lock holds here,   *)
(* and the properties of the table follow from it.                         *)
(***************************************************************************)
EXTENDS PostsaleCommit, FiniteSetTheorems, SequenceTheorems, TLAPS

LockProofs == INSTANCE DistributedLockProofs

-----------------------------------------------------------------------------
(***************************************************************************)
(* The lock inside the composition                                         *)
(***************************************************************************)

\* What DistributedLock assumes of its constants.
LEMMA LockConstants == LockProofs!LockAssumption
BY PostsaleAssumption DEF LockProofs!LockAssumption

\* The two instances of DistributedLock, in PostsaleCommit and here, are one.
LEMMA SameLock ==
  /\ Lock!Init <=> LockProofs!Init
  /\ Lock!Next <=> LockProofs!Next
  /\ Lock!TypeOK <=> LockProofs!TypeOK
  /\ Lock!LeaseHonoured <=> LockProofs!LeaseHonoured
  /\ Lock!NoLeaseLost <=> LockProofs!NoLeaseLost
  /\ Lock!Timely <=> LockProofs!Timely
BY DEF Lock!Init, LockProofs!Init, Lock!TypeOK, LockProofs!TypeOK,
       Lock!LeaseHonoured, LockProofs!LeaseHonoured, Lock!NoLeaseLost,
       LockProofs!NoLeaseLost, Lock!Timely, LockProofs!Timely, Lock!States,
       LockProofs!States, Lock!Finished, LockProofs!Finished, Lock!Returned,
       LockProofs!Returned, Lock!Interval, LockProofs!Interval, Lock!Awake,
       LockProofs!Awake, Lock!Fault, LockProofs!Fault, Lock!keyVars,
       LockProofs!keyVars, Lock!dogVars, LockProofs!dogVars, Lock!Next,
       LockProofs!Next, Lock!AcquireStep, LockProofs!AcquireStep, Lock!ReleaseStep,
       LockProofs!ReleaseStep, Lock!DogStep, LockProofs!DogStep, Lock!Acquire,
       LockProofs!Acquire, Lock!SetTakesKey, LockProofs!SetTakesKey,
       Lock!SetRefused, LockProofs!SetRefused, Lock!SetFails, LockProofs!SetFails,
       Lock!StopRenew, LockProofs!StopRenew, Lock!Join, LockProofs!Join,
       Lock!Delete, LockProofs!Delete, Lock!DeleteOwnKey, LockProofs!DeleteOwnKey,
       Lock!DogWakes, LockProofs!DogWakes, Lock!DogStops, LockProofs!DogStops,
       Lock!DogExtends, LockProofs!DogExtends, Lock!DogGivesUp,
       LockProofs!DogGivesUp, Lock!Crash, LockProofs!Crash, Lock!Tick,
       LockProofs!Tick

\* Every step of the composition is a step of the lock or leaves it alone.
LEMMA LockMoves ==
  ASSUME [CommitNext]_commitVars
  PROVE  [Lock!Next]_(Lock!vars)
<1> USE DEF Lock!Next, Lock!vars, lockVars
<1>1. ASSUME NEW c \in Clients, SubmitPostsale(c) \/ LockStep(c) \/ LeaveCommit(c) \/ Crash(c)
      PROVE  Lock!Next
  BY <1>1 DEF SubmitPostsale, LockStep, LeaveCommit, Crash, Lock!AcquireStep, Lock!ReleaseStep
<1>2. ASSUME NEW c \in Clients,
             Ask(c) \/ Cancel(c) \/ CheckActive(c) \/ Commit(c) \/ CommitFails(c) \/ Return(c)
      PROVE  UNCHANGED lockVars
  BY <1>2 DEF Ask, Cancel, CheckActive, Commit, CommitFails, Return
<1>3. ASSUME NEW i \in DOMAIN postsales, CompletePostsale(i)
      PROVE  UNCHANGED lockVars
  BY <1>3 DEF CompletePostsale
<1>4. LockTick => Lock!Next
  BY DEF LockTick
<1>5. UNCHANGED commitVars => UNCHANGED lockVars
  BY DEF commitVars
<1> QED
  BY <1>1, <1>2, <1>3, <1>4, <1>5 DEF CommitNext

\* The lock's variables behave as DistributedLock's specification says.
THEOREM LockInside == CommitSpec => LockProofs!Spec
<1>1. CommitInit => LockProofs!Init
  BY SameLock DEF CommitInit
<1>2. [CommitNext]_commitVars => [LockProofs!Next]_(LockProofs!vars)
  BY LockMoves, SameLock DEF Lock!vars, LockProofs!vars
<1> QED
  BY <1>1, <1>2, PTL DEF CommitSpec, LockProofs!Spec

\* So the lock has its types, and takes no key from a holder.
LEMMA LockSafety == CommitSpec => [](Lock!TypeOK /\ Lock!LeaseHonoured)
<1>1. CommitSpec => [](LockProofs!TypeOK /\ LockProofs!LeaseHonoured)
  BY LockConstants, LockInside, LockProofs!TypeCorrectness, LockProofs!LeaseSafety, PTL
<1>2. LockProofs!TypeOK /\ LockProofs!LeaseHonoured => Lock!TypeOK /\ Lock!LeaseHonoured
  BY SameLock
<1> QED
  BY <1>1, <1>2, PTL

-----------------------------------------------------------------------------
(***************************************************************************)
(* The table and the dialogues                                             *)
(***************************************************************************)

\* The part of CommitTypeOK that is about them.
TableTypes ==
  /\ postsales \in Seq(Row)
  /\ Len(postsales) <= MaxRows
  /\ dialog \in [Clients -> {"start", "offered", "locking", "adding",
                             "duplicate", "committed", "failed"}]
  /\ dbErrors \in 0..MaxDbErrors

\* What an inserted row does to the table.
LEMMA InsertedRow ==
  ASSUME TableTypes, Lock!TypeOK, NEW c \in Clients, Insert(c)
  PROVE  /\ postsales' \in Seq(Row)
         /\ Len(postsales') = Len(postsales) + 1
         /\ Len(postsales') <= MaxRows
         /\ \A i \in DOMAIN postsales : postsales'[i] = postsales[i]
         /\ postsales'[Len(postsales) + 1] = [active |-> TRUE, leased |-> c \notin lost]
<1> DEFINE row == [active |-> TRUE, leased |-> c \notin lost]
<1>1. row \in Row
  BY DEF Row
<1>2. Len(postsales) \in Nat /\ MaxRows \in Nat /\ DOMAIN postsales = 1..Len(postsales)
  BY PostsaleAssumption DEF TableTypes
<1> HIDE DEF row
<1>3. postsales' = Append(postsales, row) /\ Len(postsales) < MaxRows
  BY DEF Insert, row
<1> QED
  BY <1>1, <1>2, <1>3 DEF TableTypes, row

\* What the completion of a request does to the table.
LEMMA CompletedRow ==
  ASSUME TableTypes, NEW k \in DOMAIN postsales, CompletePostsale(k)
  PROVE  /\ postsales' \in Seq(Row)
         /\ Len(postsales') = Len(postsales)
         /\ \A i \in DOMAIN postsales :
               /\ postsales'[i].leased = postsales[i].leased
               /\ postsales'[i].active => postsales[i].active
<1> DEFINE row == [active |-> FALSE, leased |-> postsales[k].leased]
<1>1. DOMAIN postsales = 1..Len(postsales) /\ \A i \in DOMAIN postsales : postsales[i] \in Row
  BY DEF TableTypes
<1>2. row \in Row /\ postsales[k].active
  BY <1>1 DEF Row, CompletePostsale
<1>3. row.leased = postsales[k].leased
  OBVIOUS
<1>4. postsales' = [postsales EXCEPT ![k] = row]
  BY DEF CompletePostsale
<1> HIDE DEF row
<1>5. /\ postsales' \in Seq(Row)
      /\ Len(postsales') = Len(postsales)
      /\ \A i \in 1..Len(postsales) : postsales'[i] = IF i = k THEN row ELSE postsales[i]
  BY <1>1, <1>2, <1>4, ExceptSeq DEF TableTypes
<1> QED
  BY <1>1, <1>2, <1>3, <1>5

\* Every step keeps the types of the table and the dialogues.
LEMMA TableStep ==
  ASSUME Lock!TypeOK, TableTypes, [CommitNext]_commitVars
  PROVE  TableTypes'
<1> USE PostsaleAssumption DEF DialogTo
<1>1. ASSUME NEW c \in Clients,
             \/ Ask(c) \/ Cancel(c) \/ SubmitPostsale(c) \/ LockStep(c) \/ CheckActive(c)
             \/ LeaveCommit(c) \/ Return(c) \/ Crash(c)
      PROVE  TableTypes'
  BY <1>1
  DEF TableTypes, Ask, Cancel, SubmitPostsale, LockStep, CheckActive, LeaveCommit, Return, Crash
<1>2. ASSUME NEW c \in Clients, Commit(c) \/ CommitFails(c)
      PROVE  TableTypes'
  <2>1. postsales' \in Seq(Row) /\ Len(postsales') <= MaxRows
    <3>1. CASE Insert(c)
      BY <3>1, InsertedRow
    <3>2. CASE UNCHANGED postsales
      BY <3>2 DEF TableTypes
    <3> QED
      BY <1>2, <3>1, <3>2 DEF Commit, CommitFails
  <2> QED
    BY <1>2, <2>1 DEF TableTypes, Commit, CommitFails
<1>3. ASSUME NEW i \in DOMAIN postsales, CompletePostsale(i)
      PROVE  TableTypes'
  BY <1>3, CompletedRow DEF TableTypes, CompletePostsale
<1>4. CASE LockTick
  BY <1>4 DEF TableTypes, LockTick
<1>5. CASE UNCHANGED commitVars
  BY <1>5 DEF TableTypes, commitVars
<1> QED
  BY <1>1, <1>2, <1>3, <1>4, <1>5 DEF CommitNext

\* Type correctness of the composition.
THEOREM TypeCorrectness == CommitSpec => []CommitTypeOK
<1>1. CommitInit => TableTypes
  BY PostsaleAssumption DEF CommitInit, TableTypes
<1>2. Lock!TypeOK /\ TableTypes /\ [CommitNext]_commitVars => TableTypes'
  BY TableStep
<1>3. Lock!TypeOK /\ TableTypes => CommitTypeOK
  BY DEF TableTypes, CommitTypeOK
<1> QED
  BY <1>1, <1>2, <1>3, LockSafety, PTL DEF CommitSpec

-----------------------------------------------------------------------------
(***************************************************************************)
(* No double request, whatever fails, crashes or is late                   *)
(***************************************************************************)

\* The repeat check is used inside the critical section only.
AddingInside == \A c \in Clients : dialog[c] = "adding" => pc[c] = "critical"

TableInv == AddingInside /\ CheckStillTrue /\ NoDoubleRequestUnlessLost

\* A dialogue that inserts what its check allowed: if its lease holds, nobody
\* else's does, and no active row was written under a lease.
LEMMA InsertKeeps ==
  ASSUME Lock!TypeOK, Lock!LeaseHonoured, TableTypes, TableInv, UNCHANGED lockVars,
         NEW c \in Clients, pc[c] = "critical", dialog[c] = "adding", Insert(c),
         NEW place, place # "adding", DialogTo(c, place)
  PROVE  TableInv'
<1> DEFINE new == Len(postsales) + 1
<1>1. /\ Len(postsales) \in Nat /\ DOMAIN postsales = 1..Len(postsales)
      /\ DOMAIN postsales' = 1..new
      /\ \A i \in DOMAIN postsales : postsales'[i] = postsales[i]
      /\ postsales'[new].leased = (c \notin lost)
  <2>1. /\ postsales' \in Seq(Row) /\ Len(postsales') = new
        /\ \A i \in DOMAIN postsales : postsales'[i] = postsales[i]
    BY InsertedRow
  <2>2. postsales'[new] = [active |-> TRUE, leased |-> c \notin lost]
    BY InsertedRow
  <2> HIDE DEF new
  <2>3. Len(postsales) \in Nat /\ DOMAIN postsales = 1..Len(postsales)
    BY DEF TableTypes
  <2>4. DOMAIN postsales' = 1..new
    BY <2>1
  <2>5. postsales'[new].leased = (c \notin lost)
    BY <2>2
  <2> QED
    BY <2>1, <2>3, <2>4, <2>5
<1> HIDE DEF new
<1>2. ActiveRequests' \subseteq ActiveRequests \union {new}
  BY <1>1 DEF ActiveRequests, new
<1>3. \A i \in ActiveRequests : i \in DOMAIN postsales /\ postsales'[i].leased = postsales[i].leased
  BY <1>1 DEF ActiveRequests
<1>4. c \notin lost => \A i \in ActiveRequests : ~postsales[i].leased
  BY DEF TableInv, CheckStillTrue
<1>5. \A d \in Clients : dialog'[d] = "adding" => d # c /\ dialog[d] = "adding"
  BY DEF TableTypes, DialogTo
<1>6. AddingInside'
  BY <1>5 DEF TableInv, AddingInside, lockVars
<1>7. CheckStillTrue'
  <2> SUFFICES ASSUME NEW d \in Clients, dialog'[d] = "adding", d \notin lost,
                      NEW i \in ActiveRequests'
               PROVE  ~postsales'[i].leased
    BY DEF CheckStillTrue, lockVars
  <2>1. pc[d] = "critical" /\ d # c /\ \A j \in ActiveRequests : ~postsales[j].leased
    BY <1>5 DEF TableInv, AddingInside, CheckStillTrue
  <2>2. c \in lost
    BY <2>1 DEF Lock!LeaseHonoured
  <2> QED
    BY <1>1, <1>2, <1>3, <2>1, <2>2
<1>8. NoDoubleRequestUnlessLost'
  BY <1>1, <1>2, <1>3, <1>4 DEF TableInv, NoDoubleRequestUnlessLost
<1> QED
  BY <1>6, <1>7, <1>8 DEF TableInv

\* The invariant does not depend on more than this of the lock.
LEMMA TableUntouched ==
  ASSUME TableInv, UNCHANGED postsales, AddingInside',
         \A c \in Clients : dialog'[c] = "adding" /\ c \notin lost' =>
             ActiveRequests = {} \/ (dialog[c] = "adding" /\ c \notin lost)
  PROVE  TableInv'
BY DEF TableInv, CheckStillTrue, NoDoubleRequestUnlessLost, ActiveRequests

\* Every step keeps TableInv.
LEMMA TableInvStep ==
  ASSUME Lock!TypeOK, Lock!LeaseHonoured, TableTypes, TableInv, [CommitNext]_commitVars
  PROVE  TableInv'
<1> USE DEF DialogTo, lockVars
<1>1. ASSUME NEW c \in Clients, Ask(c) \/ Cancel(c) \/ CheckActive(c) \/ Return(c)
      PROVE  TableInv'
  <2>1. AddingInside'
    BY <1>1 DEF Ask, Cancel, CheckActive, Return, TableTypes, TableInv, AddingInside
  <2> QED
    BY <1>1, <2>1, TableUntouched DEF Ask, Cancel, CheckActive, Return, TableTypes
<1>2. ASSUME NEW c \in Clients, SubmitPostsale(c) \/ LockStep(c)
      PROVE  TableInv'
  <2>1. AddingInside'
    BY <1>2 DEF SubmitPostsale, LockStep, TableTypes, TableInv, AddingInside, Lock!TypeOK,
       Lock!Acquire, Lock!Finished, Lock!Returned, Lock!SetTakesKey, Lock!SetRefused,
       Lock!SetFails, Lock!Join, Lock!Delete, Lock!DogStep, Lock!DogWakes, Lock!DogStops,
       Lock!DogExtends, Lock!DogGivesUp
  <2>2. UNCHANGED <<postsales, lost>>
    BY <1>2 DEF SubmitPostsale, LockStep, Lock!Acquire, Lock!SetTakesKey, Lock!SetRefused,
       Lock!SetFails, Lock!Join, Lock!Delete, Lock!DogStep, Lock!DogWakes, Lock!DogStops,
       Lock!DogExtends, Lock!DogGivesUp
  <2>3. \A d \in Clients : dialog'[d] = "adding" => dialog[d] = "adding"
    BY <1>2 DEF SubmitPostsale, LockStep, TableTypes
  <2> QED
    BY <2>1, <2>2, <2>3, TableUntouched
<1>3. ASSUME NEW c \in Clients, LeaveCommit(c) \/ Crash(c)
      PROVE  TableInv'
  <2>1. /\ UNCHANGED postsales /\ lost' = lost \ {c} /\ dialog'[c] # "adding"
        /\ \A d \in Clients \ {c} : dialog'[d] = dialog[d] /\ pc'[d] = pc[d]
    BY <1>3 DEF LeaveCommit, Crash, Lock!StopRenew, Lock!Crash, TableTypes, Lock!TypeOK
  <2>2. AddingInside'
    BY <2>1 DEF TableInv, AddingInside
  <2> QED
    BY <2>1, <2>2, TableUntouched
<1>4. ASSUME NEW c \in Clients, Commit(c) \/ CommitFails(c)
      PROVE  TableInv'
  <2>1. CASE Insert(c)
    BY <1>4, <2>1, InsertKeeps DEF Commit, CommitFails
  <2>2. CASE UNCHANGED postsales
    <3>1. AddingInside'
      BY <1>4, <2>2 DEF Commit, CommitFails, TableTypes, TableInv, AddingInside
    <3> QED
      BY <1>4, <2>2, <3>1, TableUntouched DEF Commit, CommitFails, TableTypes
  <2> QED
    BY <1>4, <2>1, <2>2 DEF Commit, CommitFails
<1>5. ASSUME NEW k \in DOMAIN postsales, CompletePostsale(k)
      PROVE  TableInv'
  <2>1. /\ ActiveRequests' \subseteq ActiveRequests
        /\ \A i \in ActiveRequests : postsales'[i].leased = postsales[i].leased
    BY <1>5, CompletedRow DEF ActiveRequests, TableTypes
  <2>2. UNCHANGED <<lockVars, dialog>>
    BY <1>5 DEF CompletePostsale
  <2> QED
    BY <2>1, <2>2 DEF TableInv, AddingInside, CheckStillTrue, NoDoubleRequestUnlessLost
<1>6. CASE LockTick
  <2>1. UNCHANGED <<postsales, dialog, pc>> /\ lost \subseteq lost'
    BY <1>6 DEF LockTick, Lock!Tick
  <2> QED
    BY <2>1, TableUntouched DEF TableInv, AddingInside
<1>7. CASE UNCHANGED commitVars
  BY <1>7, TableUntouched DEF commitVars, TableInv, AddingInside
<1> QED
  BY <1>1, <1>2, <1>3, <1>4, <1>5, <1>6, <1>7 DEF CommitNext

\* TableInv is an invariant.
LEMMA TableInvariance == CommitSpec => []TableInv
<1>1. CommitInit => TableInv
  BY DEF CommitInit, TableInv, AddingInside, CheckStillTrue, NoDoubleRequestUnlessLost, ActiveRequests
<1>2. CommitTypeOK /\ Lock!LeaseHonoured /\ TableInv /\ [CommitNext]_commitVars => TableInv'
  BY TableInvStep DEF CommitTypeOK, TableTypes
<1> QED
  BY <1>1, <1>2, TypeCorrectness, LockSafety, PTL DEF CommitSpec

\* A submission whose lease held is never the second request in progress.
THEOREM NoDoubleRequest == CommitSpec => []NoDoubleRequestUnlessLost
<1>1. TableInv => NoDoubleRequestUnlessLost
  BY DEF TableInv
<1> QED
  BY <1>1, TableInvariance, PTL

-----------------------------------------------------------------------------
(***************************************************************************)
(* One request at a time while no Redis call has failed and watchdogs are  *)
(* on time                                                                 *)
(***************************************************************************)

\* Until a Redis call fails every request is written under a lease.
LeasedRows == errors = 0 => \A i \in DOMAIN postsales : postsales[i].leased

\* Every step keeps LeasedRows as long as no lease is lost.
LEMMA LeasedRowsStep ==
  ASSUME Lock!TypeOK, TableTypes, Lock!NoLeaseLost, LeasedRows, [CommitNext]_commitVars
  PROVE  LeasedRows'
<1> SUFFICES ASSUME errors' = 0
             PROVE  \A i \in DOMAIN postsales' : postsales'[i].leased
  BY DEF LeasedRows
<1>1. errors = 0
  BY LockMoves, LockConstants, SameLock, LockProofs!NoFaultStep DEF Lock!vars, LockProofs!vars
<1>2. DOMAIN postsales = 1..Len(postsales) /\ \A i \in DOMAIN postsales : postsales[i].leased
  BY <1>1 DEF LeasedRows, TableTypes
<1>3. CASE UNCHANGED postsales
  BY <1>2, <1>3
<1>4. ASSUME NEW c \in Clients, Insert(c)
      PROVE  \A i \in DOMAIN postsales' : postsales'[i].leased
  <2>1. /\ postsales' \in Seq(Row) /\ Len(postsales') = Len(postsales) + 1
        /\ \A i \in DOMAIN postsales : postsales'[i] = postsales[i]
    BY <1>4, InsertedRow
  <2>2. postsales'[Len(postsales) + 1] = [active |-> TRUE, leased |-> c \notin lost]
    BY <1>4, InsertedRow
  <2>3. postsales'[Len(postsales) + 1].leased = (c \notin lost)
    BY <2>2
  <2>4. postsales'[Len(postsales) + 1].leased
    BY <1>1, <2>3 DEF Lock!NoLeaseLost
  <2> QED
    BY <1>2, <2>1, <2>4
<1>5. ASSUME NEW k \in DOMAIN postsales, CompletePostsale(k)
      PROVE  \A i \in DOMAIN postsales' : postsales'[i].leased
  BY <1>2, <1>5, CompletedRow
<1>6. \/ UNCHANGED postsales
      \/ \E c \in Clients : Insert(c)
      \/ \E k \in DOMAIN postsales : CompletePostsale(k)
  BY DEF CommitNext, commitVars, Ask, Cancel, SubmitPostsale, LockStep, CheckActive, Commit, CommitFails,
         LeaveCommit,
         Return, Crash, LockTick
<1> QED
  BY <1>3, <1>4, <1>5, <1>6

\* One request at most is in progress until a Redis call fails.
THEOREM OneRequest ==
  ASSUME Lock!Timely
  PROVE  CommitSpec => []OneActiveRequest
<1>1. CommitSpec => []LockProofs!NoLeaseLost
  BY LockConstants, SameLock, LockInside, LockProofs!TimelyLease, PTL
<1>2. LockProofs!NoLeaseLost => Lock!NoLeaseLost
  BY SameLock
<1>3. CommitInit => LeasedRows
  BY DEF CommitInit, LeasedRows
<1>4. CommitTypeOK /\ Lock!NoLeaseLost /\ LeasedRows /\ [CommitNext]_commitVars => LeasedRows'
  BY LeasedRowsStep DEF CommitTypeOK, TableTypes
<1>5. NoDoubleRequestUnlessLost /\ LeasedRows => OneActiveRequest
  <2> SUFFICES ASSUME NoDoubleRequestUnlessLost, LeasedRows, errors = 0
               PROVE  Cardinality(ActiveRequests) <= 1
    BY DEF OneActiveRequest
  <2>1. \A i, j \in ActiveRequests : i = j
    BY DEF NoDoubleRequestUnlessLost, LeasedRows, ActiveRequests
  <2>2. CASE ActiveRequests = {}
    BY <2>2, FS_EmptySet
  <2>3. CASE \E i \in ActiveRequests : TRUE
    <3>1. PICK i \in ActiveRequests : ActiveRequests = {i}
      BY <2>1, <2>3
    <3>2. Cardinality({i}) = 1
      BY FS_Singleton
    <3> QED
      BY <3>1, <3>2
  <2> QED
    BY <2>2, <2>3
<1> QED
  BY <1>1, <1>2, <1>3, <1>4, <1>5, TypeCorrectness, NoDoubleRequest, PTL DEF CommitSpec
=============================================================================
