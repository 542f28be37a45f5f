----------------------------- MODULE SagaProofs -----------------------------
(***************************************************************************)
(* Proofs about Saga, for every number of steps and every way in which     *)
(* runs share coordinator objects.                                         *)
(***************************************************************************)
EXTENDS Saga, TLAPS

USE DEF Steps, SagaEnded, Goto, Remembered, Compensated

-----------------------------------------------------------------------------
(***************************************************************************)
(* Types                                                                   *)
(***************************************************************************)

\* A compensating run is at a step that its coordinator remembers.
InList == \A r \in Runs : pc[r] = "compensating" => at[r] <= Len(Remembered(r))

\* A coordinator remembers a sequence of steps.
LEMMA RememberedType ==
  ASSUME SagaTypeOK, NEW r \in Runs
  PROVE  /\ CoordinatorOf[r] \in Coordinators
         /\ Remembered(r) \in Seq(Steps)
         /\ Len(Remembered(r)) \in Nat
         /\ \A i \in 1..Len(Remembered(r)) : Remembered(r)[i] \in Steps
<1>1. CoordinatorOf[r] \in Coordinators
  BY SagaAssumption
<1>2. Remembered(r) \in Seq(Steps)
  BY <1>1 DEF SagaTypeOK, Remembered
<1> HIDE DEF Remembered, Steps
<1> QED
  BY <1>1, <1>2

\* What a coordinator remembers when a step of r succeeds.
LEMMA RememberedStep ==
  ASSUME SagaTypeOK, NEW r \in Runs, StepSucceeds(r), NEW q \in Runs
  PROVE  /\ executed' \in [Coordinators -> Seq(Steps)]
         /\ Len(Remembered(q)') \in {Len(Remembered(q)), Len(Remembered(q)) + 1}
         /\ \A i \in 1..Len(Remembered(q)) : Remembered(q)'[i] = Remembered(q)[i]
         /\ Len(Remembered(r)') = Len(Remembered(r)) + 1
         /\ Remembered(r)'[Len(Remembered(r)) + 1] = at[r]
         /\ CoordinatorOf[q] # CoordinatorOf[r] => Remembered(q)' = Remembered(q)
<1> DEFINE c == CoordinatorOf[r]
           longer == Append(executed[c], at[r])
<1>1. c \in Coordinators /\ CoordinatorOf[q] \in Coordinators
  BY RememberedType
<1>2. executed[c] \in Seq(Steps) /\ at[r] \in Steps
  BY <1>1 DEF SagaTypeOK, StepSucceeds
<1>3. executed' = [executed EXCEPT ![c] = longer]
  BY DEF StepSucceeds
<1> HIDE DEF c, Steps
<1>4. /\ longer \in Seq(Steps)
      /\ Len(longer) = Len(executed[c]) + 1
      /\ \A i \in 1..Len(executed[c]) : longer[i] = executed[c][i]
      /\ longer[Len(executed[c]) + 1] = at[r]
  BY <1>2
<1> HIDE DEF longer
<1>5. \A d \in Coordinators : executed'[d] = IF d = c THEN longer ELSE executed[d]
  BY <1>1, <1>3 DEF SagaTypeOK
<1>6. executed' \in [Coordinators -> Seq(Steps)]
  BY <1>1, <1>3, <1>4 DEF SagaTypeOK
<1> QED
  BY <1>1, <1>4, <1>5, <1>6 DEF Remembered, c

\* Every step keeps the types.
LEMMA TypeStep ==
  ASSUME SagaTypeOK, InList, [SagaNext]_sagaVars
  PROVE  SagaTypeOK'
<1>1. ASSUME NEW r \in Runs, StepSucceeds(r)
      PROVE  SagaTypeOK'
  <2>1. executed' \in [Coordinators -> Seq(Steps)]
    BY <1>1, RememberedStep
  <2> QED
    BY <1>1, <2>1 DEF SagaTypeOK, StepSucceeds
<1>2. ASSUME NEW r \in Runs,
             Begin(r) \/ StepFails(r) \/ Complete(r) \/ EndCompensation(r)
      PROVE  SagaTypeOK'
  <2>1. Len(Remembered(r)) \in Nat
    BY RememberedType
  <2> HIDE DEF Remembered, Steps
  <2>2. PICK place \in {"running", "compensating", "completed", "compensated"}, index \in Nat :
          /\ pc' = [pc EXCEPT ![r] = place]
          /\ at' = [at EXCEPT ![r] = index]
    BY <1>2, <2>1 DEF Begin, StepFails, Complete, EndCompensation
  <2>3. UNCHANGED <<executed, worked, undone, wordless>>
    BY <1>2 DEF Begin, StepFails, Complete, EndCompensation
  <2> QED
    BY <2>2, <2>3 DEF SagaTypeOK
<1>3. ASSUME NEW r \in Runs, Compensate(r) \/ CompensateFails(r)
      PROVE  SagaTypeOK'
  <2>1. at[r] \in 1..Len(Remembered(r))
    BY <1>3, RememberedType DEF InList, Compensate, CompensateFails, SagaTypeOK
  <2>2. PICK s \in Steps : s = Remembered(r)[at[r]]
    BY <2>1, RememberedType
  <2> HIDE DEF Remembered, Steps
  <2>3. undone' \in [Runs -> [Steps -> Nat]]
    <3> DEFINE more == [undone[r] EXCEPT ![s] = @ + 1]
    <3>1. more \in [Steps -> Nat]
      BY <2>2 DEF SagaTypeOK
    <3>2. undone' \in {undone, [undone EXCEPT ![r] = more]}
      BY <1>3, <2>2 DEF Compensate, CompensateFails
    <3> HIDE DEF more
    <3> QED
      BY <3>1, <3>2 DEF SagaTypeOK
  <2>4. at' \in [Runs -> Nat] /\ pc' \in [Runs -> {"compensating"} \union {pc[q] : q \in Runs} \union SagaEnded]
    BY <1>3, <2>1 DEF Compensate, CompensateFails, SagaTypeOK
  <2> QED
    BY <1>3, <2>3, <2>4 DEF Compensate, CompensateFails, SagaTypeOK
<1>4. ASSUME NEW c \in Coordinators, CoordinatorCrashes(c)
      PROVE  SagaTypeOK'
  <2>1. <<>> \in Seq(Steps)
    OBVIOUS
  <2> HIDE DEF Steps
  <2> QED
    BY <1>4, <2>1 DEF CoordinatorCrashes, SagaTypeOK
<1>5. CASE UNCHANGED sagaVars
  <2> HIDE DEF Steps
  <2> QED
    BY <1>5 DEF sagaVars, SagaTypeOK
<1> QED
  BY <1>1, <1>2, <1>3, <1>4, <1>5 DEF SagaNext, RunStep

\* Every step keeps a compensating run inside its list.
LEMMA InListStep ==
  ASSUME SagaTypeOK, InList, [SagaNext]_sagaVars
  PROVE  InList'
<1>1. ASSUME NEW r \in Runs, StepSucceeds(r)
      PROVE  InList'
  <2> SUFFICES ASSUME NEW q \in Runs, pc'[q] = "compensating"
               PROVE  at'[q] <= Len(Remembered(q)')
    BY DEF InList
  <2>1. /\ Len(Remembered(q)) \in Nat
        /\ Len(Remembered(q)') \in {Len(Remembered(q)), Len(Remembered(q)) + 1}
    BY <1>1, RememberedType, RememberedStep
  <2>2. pc[q] = "compensating" /\ at'[q] = at[q] /\ at[q] \in Nat
    BY <1>1 DEF StepSucceeds, SagaTypeOK
  <2> QED
    BY <2>1, <2>2 DEF InList
<1>2. ASSUME NEW r \in Runs,
             \/ Begin(r) \/ StepFails(r) \/ Complete(r)
             \/ Compensate(r) \/ CompensateFails(r) \/ EndCompensation(r)
      PROVE  InList'
  <2> SUFFICES ASSUME NEW q \in Runs, pc'[q] = "compensating"
               PROVE  at'[q] <= Len(Remembered(q)')
    BY DEF InList
  <2>1. Len(Remembered(q)) \in Nat /\ Remembered(q)' = Remembered(q)
    BY <1>2, RememberedType DEF Begin, StepFails, Complete, Compensate, CompensateFails,
       EndCompensation
  <2> HIDE DEF Remembered, Steps
  <2>2. CASE q # r
    <3>1. pc[q] = "compensating" /\ at'[q] = at[q]
      BY <1>2, <2>2 DEF Begin, StepFails, Complete, Compensate, CompensateFails,
         EndCompensation, SagaTypeOK
    <3> QED
      BY <2>1, <3>1 DEF InList
  <2>3. CASE q = r
    <3>1. StepFails(r) \/ Compensate(r)
      BY <1>2, <2>3 DEF Begin, Complete, CompensateFails, EndCompensation, SagaTypeOK
    <3>2. CASE StepFails(r)
      BY <2>1, <2>3, <3>2 DEF StepFails, SagaTypeOK
    <3>3. CASE Compensate(r)
      BY <2>1, <2>3, <3>3 DEF Compensate, InList, SagaTypeOK
    <3> QED
      BY <3>1, <3>2, <3>3
  <2> QED
    BY <2>2, <2>3
<1>3. ASSUME NEW c \in Coordinators, CoordinatorCrashes(c)
      PROVE  InList'
  <2> SUFFICES ASSUME NEW q \in Runs, pc'[q] = "compensating"
               PROVE  at'[q] <= Len(Remembered(q)')
    BY DEF InList
  <2>1. pc[q] = "compensating" /\ at'[q] = at[q] /\ CoordinatorOf[q] # c
    BY <1>3 DEF CoordinatorCrashes, SagaTypeOK
  <2>2. Remembered(q)' = Remembered(q)
    BY <1>3, <2>1, RememberedType DEF CoordinatorCrashes, SagaTypeOK
  <2> HIDE DEF Remembered
  <2> QED
    BY <2>1, <2>2 DEF InList
<1>4. CASE UNCHANGED sagaVars
  BY <1>4 DEF sagaVars, InList
<1> QED
  BY <1>1, <1>2, <1>3, <1>4 DEF SagaNext, RunStep

\* Type correctness of the sagas, with the index of every rollback.
THEOREM TypeCorrectness == SagaSpec => [](SagaTypeOK /\ InList)
<1>1. SagaInit => SagaTypeOK /\ InList
  BY SagaAssumption DEF SagaInit, SagaTypeOK, InList
<1> QED
  BY <1>1, TypeStep, InListStep, PTL DEF SagaSpec

-----------------------------------------------------------------------------
(***************************************************************************)
(* Rollbacks                                                               *)
(***************************************************************************)

Untouched(r) == \A s \in Steps : undone[r][s] = 0

\* The first k entries of the list of r's coordinator hold the step s.
Listed(r, k, s) == \E i \in 1..k : Remembered(r)[i] = s

\* What a run has done by the time it is where it is: a running run's steps are
\* in the list, and a compensating run has undone them or has them before it.
Accounted(r) ==
    /\ pc[r] = "idle" => worked[r] = {} /\ Untouched(r)
    /\ pc[r] = "running" =>
          /\ at[r] \in 1..(N + 1)
          /\ worked[r] = 1..(at[r] - 1)
          /\ Untouched(r)
          /\ \A s \in worked[r] : Listed(r, Len(Remembered(r)), s)
    /\ pc[r] = "compensating" =>
          \A s \in worked[r] : undone[r][s] > 0 \/ Listed(r, at[r], s)
    /\ pc[r] = "compensated" /\ r \notin wordless =>
          \A s \in worked[r] : undone[r][s] > 0
    /\ pc[r] = "completed" => worked[r] = Steps /\ Untouched(r)

SagaInv == SagaTypeOK /\ InList /\ \A r \in Runs : Accounted(r)

\* The list of r's coordinator keeps what it holds.
Kept(r) ==
    /\ Len(Remembered(r)) <= Len(Remembered(r)')
    /\ \A i \in 1..Len(Remembered(r)) : Remembered(r)'[i] = Remembered(r)[i]

\* A step of other runs leaves a run accounted for, if it only adds to the list.
LEMMA OthersKeep ==
  ASSUME SagaInv, NEW q \in Runs,
         pc'[q] = pc[q], at'[q] = at[q], worked'[q] = worked[q],
         undone'[q] = undone[q], q \in wordless <=> q \in wordless',
         pc[q] \in {"running", "compensating"} => Kept(q),
         Len(Remembered(q)') \in Nat
  PROVE  Accounted(q)'
<1>1. Accounted(q) /\ at[q] \in Nat /\ Len(Remembered(q)) \in Nat
  BY RememberedType DEF SagaInv, SagaTypeOK
<1>2. pc[q] = "compensating" => at[q] <= Len(Remembered(q))
  BY DEF SagaInv, InList
<1> HIDE DEF Remembered, Steps
<1>3. Untouched(q) => Untouched(q)'
  BY DEF Untouched
<1>4. pc[q] = "running" =>
        \A s \in worked[q] : \E i \in 1..Len(Remembered(q)') : Remembered(q)'[i] = s
  BY <1>1 DEF Accounted, Kept, Listed
<1>5. pc[q] = "compensating" =>
        \A s \in worked[q] : undone[q][s] > 0 \/ \E i \in 1..at[q] : Remembered(q)'[i] = s
  BY <1>1, <1>2 DEF Accounted, Kept, Listed
<1> QED
  BY <1>1, <1>3, <1>4, <1>5 DEF Accounted, Listed

\* Every step keeps every run accounted for.
LEMMA AccountStep ==
  ASSUME SagaInv, [SagaNext]_sagaVars
  PROVE  \A q \in Runs : Accounted(q)'
<1> USE DEF SagaInv
<1>types. /\ SagaTypeOK /\ InList /\ SagaTypeOK' /\ InList'
      /\ \A q \in Runs : Accounted(q) /\ at[q] \in Nat
  BY TypeStep, InListStep DEF SagaTypeOK
<1>len. \A q \in Runs : Len(Remembered(q)) \in Nat /\ Len(Remembered(q)') \in Nat
  <2>1. ASSUME NEW q \in Runs PROVE Remembered(q)' \in Seq(Steps)
    BY <1>types, SagaAssumption DEF SagaTypeOK, Remembered
  <2> HIDE DEF Remembered, Steps
  <2> QED
    BY <1>types, <2>1, RememberedType
<1>1. ASSUME NEW r \in Runs, StepSucceeds(r), NEW q \in Runs
      PROVE  Accounted(q)'
  <2>1. Kept(q)
    BY <1>types, <1>len, <1>1, RememberedStep DEF Kept
  <2>2. CASE q # r
    <3>1. /\ pc'[q] = pc[q] /\ at'[q] = at[q] /\ worked'[q] = worked[q]
          /\ undone'[q] = undone[q] /\ wordless' = wordless
      BY <1>types, <1>1, <2>2 DEF StepSucceeds, SagaTypeOK
    <3> QED
      BY <1>len, <2>1, <3>1, OthersKeep
  <2>3. CASE q = r
    <3>1. /\ pc[r] = "running" /\ pc'[r] = "running" /\ at[r] \in Steps
          /\ at'[r] = at[r] + 1 /\ worked'[r] = worked[r] \union {at[r]}
          /\ undone'[r] = undone[r]
      BY <1>types, <1>1 DEF StepSucceeds, SagaTypeOK
    <3>2. Len(Remembered(r)') = Len(Remembered(r)) + 1
          /\ Remembered(r)'[Len(Remembered(r)) + 1] = at[r]
      BY <1>types, <1>1, RememberedStep
    <3>3. /\ worked[r] = 1..(at[r] - 1) /\ Untouched(r)
          /\ \A s \in worked[r] : Listed(r, Len(Remembered(r)), s)
      BY <1>types, <3>1 DEF Accounted
    <3>4. at'[r] \in 1..(N + 1) /\ worked'[r] = 1..(at'[r] - 1)
      BY <3>1, <3>3, SagaAssumption
    <3> HIDE DEF Remembered
    <3>5. \A s \in worked'[r] : \E i \in 1..Len(Remembered(r)') : Remembered(r)'[i] = s
      BY <1>len, <2>1, <2>3, <3>1, <3>2, <3>3 DEF Kept, Listed
    <3>6. Untouched(r)'
      BY <3>1, <3>3 DEF Untouched
    <3> QED
      BY <2>3, <3>1, <3>4, <3>5, <3>6 DEF Accounted, Listed
  <2> QED
    BY <2>2, <2>3
<1>2. ASSUME NEW r \in Runs,
             \/ Begin(r) \/ StepFails(r) \/ Complete(r)
             \/ Compensate(r) \/ CompensateFails(r) \/ EndCompensation(r),
             NEW q \in Runs
      PROVE  Accounted(q)'
  <2>1. executed' = executed /\ worked' = worked
    BY <1>2 DEF Begin, StepFails, Complete, Compensate, CompensateFails, EndCompensation
  <2>2. Remembered(q)' = Remembered(q)
    BY <2>1
  <2> HIDE DEF Remembered, Steps
  <2>3. Kept(q)
    BY <1>len, <2>2 DEF Kept
  <2>4. CASE q # r
    <3>1. pc'[q] = pc[q] /\ at'[q] = at[q]
      BY <1>types, <1>2, <2>4 DEF Begin, StepFails, Complete, Compensate, CompensateFails,
         EndCompensation, SagaTypeOK
    <3>2. undone'[q] = undone[q] /\ (q \in wordless <=> q \in wordless')
      BY <1>types, <1>2, <2>4 DEF Begin, StepFails, Complete, Compensate, CompensateFails,
         EndCompensation, SagaTypeOK
    <3> QED
      BY <1>len, <2>1, <2>3, <3>1, <3>2, OthersKeep
  <2>5. CASE q = r
    <3>1. CASE Begin(r)
      <4>1. /\ pc[r] = "idle" /\ pc'[r] = "running" /\ at'[r] = 1
            /\ undone' = undone
        BY <1>types, <3>1 DEF Begin, SagaTypeOK
      <4>2. worked'[r] = {} /\ Untouched(r)'
        BY <1>types, <2>1, <4>1 DEF Accounted, Untouched
      <4> QED
        BY <2>5, <4>1, <4>2, SagaAssumption DEF Accounted
    <3>2. CASE StepFails(r)
      <4>1. /\ pc[r] = "running" /\ pc'[r] = "compensating"
            /\ at'[r] = Len(Remembered(r))
        BY <1>types, <3>2 DEF StepFails, SagaTypeOK
      <4>2. \A s \in worked[r] : Listed(r, Len(Remembered(r)), s)
        BY <1>types, <4>1 DEF Accounted
      <4> QED
        BY <2>1, <2>2, <2>5, <4>1, <4>2 DEF Accounted, Listed
    <3>3. CASE Complete(r)
      <4>1. /\ pc[r] = "running" /\ pc'[r] = "completed" /\ at[r] > N
            /\ undone' = undone
        BY <1>types, <3>3 DEF Complete, SagaTypeOK
      <4>2. at[r] = N + 1 /\ worked[r] = 1..(at[r] - 1) /\ Untouched(r)
        BY <1>types, <4>1, SagaAssumption DEF Accounted
      <4>3. worked[r] = 1..N /\ Untouched(r)'
        BY <4>1, <4>2, SagaAssumption DEF Untouched
      <4> QED
        BY <2>1, <2>5, <4>1, <4>3 DEF Accounted, Steps
    <3>4. CASE Compensate(r)
      <4>1. /\ pc[r] = "compensating" /\ pc'[r] = "compensating"
            /\ at[r] > 0 /\ at'[r] = at[r] - 1
        BY <1>types, <3>4 DEF Compensate, SagaTypeOK
      <4>2. PICK s \in Steps : s = Remembered(r)[at[r]]
        BY <1>types, <1>len, <4>1, RememberedType DEF InList
      <4>3. ASSUME NEW t \in Steps
            PROVE  undone'[r][t] = IF t = s THEN undone[r][t] + 1 ELSE undone[r][t]
        BY <1>types, <3>4, <4>2 DEF Compensate, SagaTypeOK
      <4>4. \A t \in worked[r] : t \in Steps /\ undone[r][t] \in Nat
        BY <1>types DEF SagaTypeOK
      <4>5. \A t \in worked[r] : undone[r][t] > 0 \/ Listed(r, at[r], t)
        BY <1>types, <4>1 DEF Accounted
      <4>6. \A t \in worked[r] : undone'[r][t] > 0 \/ Listed(r, at[r] - 1, t)
        BY <1>types, <4>1, <4>2, <4>3, <4>4, <4>5 DEF Listed
      <4> QED
        BY <2>1, <2>2, <2>5, <4>1, <4>6 DEF Accounted, Listed
    <3>5. CASE CompensateFails(r)
      <4>1. \/ pc'[r] = "compensation_failed"
            \/ pc'[r] = "compensated" /\ r \in wordless'
        BY <1>types, <3>5 DEF CompensateFails, SagaTypeOK
      <4> QED
        BY <2>5, <4>1 DEF Accounted
    <3>6. CASE EndCompensation(r)
      <4>1. /\ pc[r] = "compensating" /\ pc'[r] = "compensated" /\ at[r] = 0
            /\ undone' = undone
        BY <1>types, <3>6 DEF EndCompensation, SagaTypeOK
      <4>2. \A t \in worked[r] : undone[r][t] > 0
        BY <1>types, <4>1 DEF Accounted, Listed
      <4> QED
        BY <2>1, <2>5, <4>1, <4>2 DEF Accounted
    <3> QED
      BY <1>2, <3>1, <3>2, <3>3, <3>4, <3>5, <3>6
  <2> QED
    BY <2>4, <2>5
<1>3. ASSUME NEW c \in Coordinators, CoordinatorCrashes(c), NEW q \in Runs
      PROVE  Accounted(q)'
  <2>1. /\ at' = at /\ worked' = worked /\ undone' = undone /\ wordless' = wordless
    BY <1>3 DEF CoordinatorCrashes
  <2>2. CASE pc'[q] = "crashed"
    BY <2>2 DEF Accounted
  <2>3. CASE pc'[q] # "crashed"
    <3>1. pc'[q] = pc[q]
      BY <1>3, <2>3 DEF CoordinatorCrashes
    <3>2. pc[q] \in {"running", "compensating"} => CoordinatorOf[q] # c
      BY <1>3, <2>3 DEF CoordinatorCrashes
    <3>3. pc[q] \in {"running", "compensating"} => Remembered(q)' = Remembered(q)
      BY <1>types, <1>3, <3>2, RememberedType DEF CoordinatorCrashes, SagaTypeOK
    <3> HIDE DEF Remembered
    <3>4. pc[q] \in {"running", "compensating"} => Kept(q)
      BY <1>len, <3>3 DEF Kept
    <3> QED
      BY <1>len, <2>1, <3>1, <3>4, OthersKeep
  <2> QED
    BY <2>2, <2>3
<1>4. CASE UNCHANGED sagaVars
  <2> SUFFICES ASSUME NEW q \in Runs PROVE Accounted(q)'
    OBVIOUS
  <2>1. Remembered(q)' = Remembered(q)
    BY <1>4 DEF sagaVars
  <2> HIDE DEF Remembered
  <2>2. Kept(q)
    BY <1>len, <2>1 DEF Kept
  <2> QED
    BY <1>4, <1>len, <2>2, OthersKeep DEF sagaVars
<1> QED
  BY <1>1, <1>2, <1>3, <1>4 DEF SagaNext, RunStep

\* The inductive invariant of the rollbacks.
LEMMA SagaInvariant == SagaSpec => []SagaInv
<1>1. SagaInit => SagaInv
  BY SagaAssumption DEF SagaInit, SagaInv, SagaTypeOK, InList, Accounted, Untouched
<1>2. SagaInv /\ [SagaNext]_sagaVars => SagaInv'
  BY TypeStep, InListStep, AccountStep DEF SagaInv
<1> QED
  BY <1>1, <1>2, PTL DEF SagaSpec

\* A run that reports its rollback has compensated every step that it did,
\* whatever runs share its coordinator, unless a compensation failed wordlessly.
THEOREM RollbackIsWhole == SagaSpec => []NothingLeftBehind
<1>1. SagaInv => NothingLeftBehind
  BY DEF SagaInv, Accounted, NothingLeftBehind
<1> QED
  BY <1>1, SagaInvariant, PTL

\* A completed run did every step, and no rollback of another run undid any.
THEOREM CompletedStays == SagaSpec => []CompletedIntact
<1>1. SagaInv => CompletedIntact
  BY DEF SagaInv, Accounted, Untouched, CompletedIntact
<1> QED
  BY <1>1, SagaInvariant, PTL

-----------------------------------------------------------------------------
(***************************************************************************)
(* The order of a rollback, when the coordinator serves one run            *)
(***************************************************************************)

\* The list of r's coordinator is 1, 2, ..., n.
Counts(r, n) == Len(Remembered(r)) = n /\ \A i \in 1..n : Remembered(r)[i] = i

\* The list counts the steps that a run has done; a compensating run has undone
\* those behind its index, each once.
Lined(r) ==
    /\ pc[r] = "idle" => Counts(r, 0)
    /\ pc[r] = "running" => Counts(r, at[r] - 1)
    /\ pc[r] = "compensating" =>
          /\ Counts(r, Len(Remembered(r)))
          /\ worked[r] = 1..Len(Remembered(r))
          /\ \A s \in Steps :
                undone[r][s] = IF s > at[r] /\ s \in worked[r] THEN 1 ELSE 0
    /\ pc[r] \in SagaEnded => InReverse(r)

AloneInv == \A r \in Runs : Alone(r) => Lined(r)

\* What a run has done is in reverse order at every moment of its rollback.
LEMMA LinedInReverse ==
  ASSUME SagaInv, NEW r \in Runs, Lined(r)
  PROVE  InReverse(r)
<1>1. Accounted(r) /\ at[r] \in Nat /\ pc[r] \in {"idle", "running", "compensating"} \union SagaEnded
  BY DEF SagaInv, SagaTypeOK
<1>2. CASE pc[r] \in {"idle", "running"}
  BY <1>1, <1>2 DEF Accounted, Untouched, InReverse
<1>3. CASE pc[r] = "compensating"
  <2>1. worked[r] \subseteq Steps
    BY DEF SagaInv, SagaTypeOK
  <2>2. \A s \in Steps : undone[r][s] = IF s > at[r] /\ s \in worked[r] THEN 1 ELSE 0
    BY <1>3 DEF Lined
  <2> QED
    BY <1>1, <2>1, <2>2 DEF InReverse
<1>4. CASE pc[r] \in SagaEnded
  BY <1>4 DEF Lined
<1> QED
  BY <1>1, <1>2, <1>3, <1>4

\* A step that leaves a run and its coordinator's list alone leaves it lined.
LEMMA OthersKeepLined ==
  ASSUME NEW r \in Runs, Lined(r), pc'[r] = pc[r], at'[r] = at[r], worked'[r] = worked[r],
         undone'[r] = undone[r], Remembered(r)' = Remembered(r)
  PROVE  Lined(r)'
<1> HIDE DEF Remembered, Steps, SagaEnded
<1> QED
  BY DEF Lined, Counts, InReverse

\* Every step keeps the runs lined that have a coordinator of their own.
LEMMA AloneStep ==
  ASSUME SagaInv, AloneInv, [SagaNext]_sagaVars
  PROVE  AloneInv'
<1> SUFFICES ASSUME NEW r \in Runs, Alone(r) PROVE Lined(r)'
  BY DEF AloneInv, Alone
<1>inv. Lined(r) /\ Accounted(r) /\ InReverse(r) /\ SagaTypeOK /\ InList
  BY LinedInReverse DEF AloneInv, SagaInv
<1>types. /\ Remembered(r) \in Seq(Steps) /\ Len(Remembered(r)) \in Nat
          /\ at[r] \in Nat /\ worked[r] \in SUBSET Steps /\ undone[r] \in [Steps -> Nat]
          /\ CoordinatorOf[r] \in Coordinators
  BY <1>inv, RememberedType DEF SagaTypeOK
<1>1. ASSUME NEW q \in Runs, q # r, Begin(q) \/ RunStep(q) PROVE Lined(r)'
  <2>1. CoordinatorOf[q] # CoordinatorOf[r]
    BY <1>1 DEF Alone
  <2>2. Remembered(r)' = Remembered(r)
    <3>1. CASE StepSucceeds(q)
      BY <1>1, <1>inv, <2>1, <3>1, RememberedStep
    <3>2. CASE ~StepSucceeds(q)
      BY <1>1, <3>2 DEF Begin, RunStep, StepFails, Complete, Compensate, CompensateFails,
         EndCompensation
    <3> QED
      BY <3>1, <3>2
  <2> HIDE DEF Remembered, Steps
  <2>3. /\ pc'[r] = pc[r] /\ at'[r] = at[r] /\ worked'[r] = worked[r]
        /\ undone'[r] = undone[r]
    BY <1>1, <1>inv DEF SagaTypeOK, Begin, RunStep, StepSucceeds, StepFails, Complete, Compensate,
       CompensateFails, EndCompensation
  <2> QED
    BY <1>inv, <2>2, <2>3, OthersKeepLined
<1>2. CASE StepSucceeds(r)
  <2>1. /\ Len(Remembered(r)') = Len(Remembered(r)) + 1
        /\ \A i \in 1..Len(Remembered(r)) : Remembered(r)'[i] = Remembered(r)[i]
        /\ Remembered(r)'[Len(Remembered(r)) + 1] = at[r]
    BY <1>inv, <1>2, RememberedStep
  <2>2. pc[r] = "running" /\ pc'[r] = "running" /\ at'[r] = at[r] + 1
    BY <1>inv, <1>2 DEF StepSucceeds, SagaTypeOK
  <2> HIDE DEF Remembered, Steps
  <2>3. Counts(r, at[r] - 1)
    BY <1>inv, <2>2 DEF Lined
  <2>4. Len(Remembered(r)) = at[r] - 1 /\ \A i \in 1..(at[r] - 1) : Remembered(r)[i] = i
    BY <2>3 DEF Counts
  <2>5. Len(Remembered(r)') = at[r]
    BY <1>types, <2>1, <2>4
  <2>6. ASSUME NEW i \in 1..at[r] PROVE Remembered(r)'[i] = i
    <3>1. CASE i = at[r]
      <4>1. at[r] = Len(Remembered(r)) + 1
        BY <1>types, <2>4
      <4> QED
        BY <2>1, <3>1, <4>1
    <3>2. CASE i # at[r]
      <4>1. i \in 1..(at[r] - 1) /\ i \in 1..Len(Remembered(r))
        BY <1>types, <2>4, <3>2
      <4> QED
        BY <2>1, <2>4, <4>1
    <3> QED
      BY <3>1, <3>2
  <2> QED
    BY <1>types, <2>2, <2>5, <2>6 DEF Lined, Counts
<1>3. CASE Begin(r) \/ StepFails(r) \/ Complete(r) \/ Compensate(r) \/ CompensateFails(r)
           \/ EndCompensation(r)
  <2>1. executed' = executed /\ worked' = worked
    BY <1>3 DEF Begin, StepFails, Complete, Compensate, CompensateFails, EndCompensation
  <2>2. Remembered(r)' = Remembered(r)
    BY <2>1
  <2> HIDE DEF Remembered, Steps
  <2>3. CASE Begin(r)
    <3>1. pc[r] = "idle" /\ pc'[r] = "running" /\ at'[r] = 1
      BY <1>inv, <2>3 DEF Begin, SagaTypeOK
    <3> QED
      BY <1>inv, <2>2, <3>1 DEF Lined, Counts
  <2>4. CASE StepFails(r)
    <3>1. /\ pc[r] = "running" /\ pc'[r] = "compensating" /\ undone' = undone
          /\ at'[r] = Len(Remembered(r))
      BY <1>inv, <2>4 DEF StepFails, SagaTypeOK
    <3>2. Counts(r, at[r] - 1) /\ worked[r] = 1..(at[r] - 1) /\ Untouched(r)
      BY <1>inv, <3>1 DEF Lined, Accounted
    <3>3. worked[r] = 1..Len(Remembered(r)) /\ Counts(r, Len(Remembered(r)))
      BY <3>2 DEF Counts
    <3>4. \A s \in Steps : ~(s > Len(Remembered(r)) /\ s \in worked[r])
      BY <1>types, <3>3 DEF Steps
    <3>5. Counts(r, Len(Remembered(r)))'
      BY <2>2, <3>3 DEF Counts
    <3>6. \A s \in Steps : undone'[r][s] = IF s > at'[r] /\ s \in worked'[r] THEN 1 ELSE 0
      BY <2>1, <3>1, <3>2, <3>4 DEF Untouched
    <3> QED
      BY <2>1, <2>2, <3>1, <3>3, <3>5, <3>6 DEF Lined
  <2>5. CASE Complete(r)
    <3>1. pc[r] = "running" /\ pc'[r] = "completed" /\ undone' = undone
      BY <1>inv, <2>5 DEF Complete, SagaTypeOK
    <3>2. InReverse(r)'
      BY <1>inv, <2>1, <3>1 DEF InReverse
    <3> QED
      BY <3>1, <3>2 DEF Lined
  <2>6. CASE Compensate(r) \/ CompensateFails(r)
    <3>1. /\ pc[r] = "compensating" /\ at[r] > 0 /\ at[r] <= Len(Remembered(r))
          /\ \/ CompensateFails(r) /\ pc'[r] \in SagaEnded
             \/ Compensate(r) /\ pc'[r] = "compensating" /\ at'[r] = at[r] - 1
      BY <1>inv, <2>6 DEF Compensate, CompensateFails, SagaTypeOK, InList
    <3>2. /\ Counts(r, Len(Remembered(r))) /\ worked[r] = 1..Len(Remembered(r))
          /\ \A s \in Steps : undone[r][s] = IF s > at[r] /\ s \in worked[r] THEN 1 ELSE 0
      BY <1>inv, <3>1 DEF Lined
    <3>3. Remembered(r)[at[r]] = at[r] /\ at[r] \in worked[r] /\ at[r] \in Steps
      BY <1>types, <3>1, <3>2 DEF Counts
    <3> DEFINE one == [undone EXCEPT ![r][at[r]] = @ + 1]
    <3>4. undone' = one \/ (undone' = undone /\ CompensateFails(r))
      BY <2>6, <3>3 DEF Compensate, CompensateFails
    <3>5. one[r] = [undone[r] EXCEPT ![at[r]] = @ + 1]
      BY <1>inv DEF SagaTypeOK
    <3> HIDE DEF one
    <3>6. \A s \in Steps : one[r][s] = IF s > at[r] - 1 /\ s \in worked[r] THEN 1 ELSE 0
      BY <1>types, <3>2, <3>3, <3>5 DEF Steps
    <3>7. CASE Compensate(r)
      <4>1. /\ pc'[r] = "compensating" /\ at'[r] = at[r] - 1
            /\ undone' = [undone EXCEPT ![r][at[r]] = @ + 1]
        BY <1>inv, <3>3, <3>7 DEF Compensate, SagaTypeOK
      <4>3. undone' = one
        BY <4>1 DEF one
      <4>2. Counts(r, Len(Remembered(r)))'
        BY <2>2, <3>2 DEF Counts
      <4> QED
        <5>1. worked'[r] = 1..Len(Remembered(r)')
          BY <2>1, <2>2, <3>2
        <5>2. \A s \in Steps : undone'[r][s] = IF s > at'[r] /\ s \in worked'[r] THEN 1 ELSE 0
          <6>1. undone'[r] = one[r] /\ worked'[r] = worked[r] /\ at'[r] = at[r] - 1
            BY <2>1, <4>1, <4>3
          <6> QED
            BY <3>6, <6>1
        <5> QED
          BY <4>1, <4>2, <5>1, <5>2 DEF Lined, SagaEnded
    <3>8. CASE CompensateFails(r) /\ pc'[r] \in SagaEnded
      <4>1. \E k \in {at[r], at[r] - 1} : \A s \in Steps :
              undone'[r][s] = IF s > k /\ s \in worked[r] THEN 1 ELSE 0
        BY <3>2, <3>4, <3>6
      <4>2. InReverse(r)'
        BY <1>types, <2>1, <4>1 DEF InReverse, Steps
      <4> QED
        BY <3>8, <4>2 DEF Lined
    <3> QED
      BY <3>1, <3>7, <3>8
  <2>7. CASE EndCompensation(r)
    <3>1. pc'[r] = "compensated" /\ undone' = undone
      BY <1>inv, <2>7 DEF EndCompensation, SagaTypeOK
    <3>2. InReverse(r)'
      BY <1>inv, <2>1, <3>1 DEF InReverse
    <3> QED
      BY <3>1, <3>2 DEF Lined
  <2> QED
    BY <1>3, <2>3, <2>4, <2>5, <2>6, <2>7
<1>4. ASSUME NEW c \in Coordinators, CoordinatorCrashes(c) PROVE Lined(r)'
  <2>1. at' = at /\ worked' = worked /\ undone' = undone
    BY <1>4 DEF CoordinatorCrashes
  <2>2. CASE CoordinatorOf[r] = c
    <3>1. pc'[r] = "crashed"
      BY <1>4, <2>2 DEF CoordinatorCrashes, Alone
    <3>2. InReverse(r)'
      BY <1>inv, <2>1 DEF InReverse
    <3> QED
      BY <3>1, <3>2 DEF Lined
  <2>3. CASE CoordinatorOf[r] # c
    <3>1. pc'[r] = pc[r] /\ Remembered(r)' = Remembered(r)
      BY <1>4, <1>inv, <1>types, <2>3 DEF CoordinatorCrashes, SagaTypeOK
    <3> QED
      BY <1>inv, <2>1, <3>1, OthersKeepLined
  <2> QED
    BY <2>2, <2>3
<1>5. CASE UNCHANGED sagaVars
  <2>1. Remembered(r)' = Remembered(r)
    BY <1>5 DEF sagaVars
  <2> QED
    BY <1>inv, <1>5, <2>1, OthersKeepLined DEF sagaVars
<1>6. CASE \E q \in Runs : Begin(q) \/ RunStep(q)
  BY <1>1, <1>2, <1>3, <1>6 DEF RunStep
<1> QED
  BY <1>4, <1>5, <1>6 DEF SagaNext

\* A run on a coordinator of its own compensates each step at most once, and only
\* after the steps that followed it, wherever it fails or dies.
THEOREM RollbackInReverse == SagaSpec => []AloneInReverse
<1>1. SagaInit => AloneInv
  BY SagaAssumption DEF SagaInit, AloneInv, Lined, Counts
<1>2. SagaInv /\ AloneInv /\ [SagaNext]_sagaVars => AloneInv'
  BY AloneStep
<1>3. SagaInv /\ AloneInv => AloneInReverse
  BY LinedInReverse DEF AloneInv, AloneInReverse
<1> QED
  BY <1>1, <1>2, <1>3, SagaInvariant, PTL DEF SagaSpec
=============================================================================
