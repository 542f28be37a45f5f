-------------------------- MODULE TransactionsProofs --------------------------
(***************************************************************************)
(* Theorems about three of the transaction patterns, for any number of     *)
(* executions, tasks and messages: Tcc, Outbox and LocalMessages.  Each    *)
(* part has its type invariant, the inductive invariant and its theorems.  *)
(***************************************************************************)
EXTENDS Tcc, Outbox, LocalMessages, FiniteSetTheorems, TLAPS

-----------------------------------------------------------------------------
(***************************************************************************)
(* Tcc: pieces of stock                                                    *)
(***************************************************************************)

\* A further execution orders its quantity on top of what a set orders.
LEMMA PiecesAdd ==
    ASSUME NEW S \in SUBSET Txns, NEW t \in Txns \ S, IsFiniteSet(Pieces(S))
    PROVE  /\ IsFiniteSet(Pieces(S \union {t}))
           /\ Amount(S) \in Nat
           /\ Amount(S \union {t}) = Amount(S) + Quantity[t]
<1> DEFINE Own == {t} \X (1..Quantity[t])
<1>1. Quantity[t] \in Nat
  BY TccAssumption
<1>2. /\ IsFiniteSet(Own)
      /\ Cardinality(Own) = Quantity[t]
  <2>1. IsFiniteSet({t}) /\ Cardinality({t}) = 1
    BY FS_Singleton
  <2>2. IsFiniteSet(1..Quantity[t]) /\ Cardinality(1..Quantity[t]) = Quantity[t]
    BY <1>1, FS_Interval, SMTT(20)
  <2>3. IsFiniteSet(Own) /\ Cardinality(Own) = 1 * Quantity[t]
    BY <2>1, <2>2, FS_Product, ZenonT(40)
  <2> QED
    BY <2>3, <1>1
<1>3. Pieces(S \union {t}) = Pieces(S) \union Own
  BY DEF Pieces
<1>4. Pieces(S) \cap Own = {}
  BY DEF Pieces
<1>5. Cardinality(Pieces(S)) \in Nat /\ Cardinality(Pieces(S) \cap Own) = 0
  BY <1>4, FS_CardinalityType, FS_EmptySet
<1>6. /\ IsFiniteSet(Pieces(S) \union Own)
      /\ Cardinality(Pieces(S) \union Own)
            = Cardinality(Pieces(S)) + Cardinality(Own) - Cardinality(Pieces(S) \cap Own)
  BY <1>2, FS_Union
<1>7. /\ IsFiniteSet(Pieces(S \union {t}))
      /\ Cardinality(Pieces(S \union {t})) = Cardinality(Pieces(S) \union Own)
  BY <1>3, <1>6, Zenon
<1> HIDE DEF Own
<1>8. Cardinality(Pieces(S \union {t})) = Cardinality(Pieces(S)) + Quantity[t]
  BY <1>1, <1>2, <1>5, <1>6, <1>7
<1> QED
  BY <1>5, <1>7, <1>8 DEF Amount

\* Fewer executions order no more.
LEMMA PiecesOfFewer ==
    ASSUME NEW S, NEW T \in SUBSET S, IsFiniteSet(Pieces(S))
    PROVE  /\ IsFiniteSet(Pieces(T))
           /\ Amount(S) \in Nat
           /\ Amount(T) \in Nat
           /\ Amount(T) <= Amount(S)
<1>1. Pieces(T) \in SUBSET Pieces(S)
  BY DEF Pieces
<1> QED
  BY <1>1, FS_Subset, FS_CardinalityType DEF Amount

\* Without one of its executions a set orders that much less.
LEMMA PiecesRemove ==
    ASSUME NEW S \in SUBSET Txns, NEW t \in S, IsFiniteSet(Pieces(S))
    PROVE  /\ IsFiniteSet(Pieces(S \ {t}))
           /\ Amount(S \ {t}) \in Nat
           /\ Amount(S) = Amount(S \ {t}) + Quantity[t]
<1>1. IsFiniteSet(Pieces(S \ {t}))
  BY PiecesOfFewer
<1>2. (S \ {t}) \union {t} = S /\ S \ {t} \in SUBSET Txns /\ t \in Txns \ (S \ {t})
  OBVIOUS
<1> QED
  BY <1>1, <1>2, PiecesAdd

-----------------------------------------------------------------------------
(***************************************************************************)
(* Tcc: the inductive invariant                                            *)
(***************************************************************************)

TccTypeOK ==
    /\ frozen \in Nat
    /\ real \in Nat
    /\ phase \in [Txns -> {"start", "crashed"} \union Answered \union InFlight]
    /\ reserved \in SUBSET Txns
    /\ deducted \in SUBSET Txns
    /\ ordered \in SUBSET Txns
    /\ errors \in Nat

\* What the counters have lost is what reservations and deductions hold.
Balanced ==
    /\ IsFiniteSet(Pieces(reserved)) /\ frozen + Amount(reserved) = Stock
    /\ IsFiniteSet(Pieces(deducted)) /\ real + Amount(deducted) = Stock

\* A deduction may have been missed: a call failed, or somebody kept his.
Excused == errors > 0 \/ \E u \in deducted : phase[u] = "cancelled"

\* What an execution holds at each place.
Holdings(t) ==
    /\ phase[t] = "start" => t \notin reserved \union deducted \union ordered
    /\ phase[t] \in InFlight \union {"confirmed", "stuck", "crashed"} => t \in reserved
    /\ phase[t] = "confirming" => t \notin deducted
    /\ phase[t] \in {"ordering", "confirmed"} => t \in deducted \/ Excused
    /\ t \in ordered => phase[t] = "confirmed"
    /\ t \in deducted => t \in reserved \/ phase[t] = "cancelled"
    /\ t \in reserved /\ phase[t] \in {"refused", "cancelled"} => errors > 0

TccInv == TccTypeOK /\ Balanced /\ \A t \in Txns : Holdings(t)

-----------------------------------------------------------------------------
(***************************************************************************)
(* Tcc: every step preserves it                                            *)
(***************************************************************************)

\* A reservation moves its quantity from the counter to what is held.
LEMMA ReserveBalances ==
    ASSUME TccInv, NEW t \in Txns, t \notin reserved, Reserve(t)
    PROVE  /\ frozen' \in Nat /\ reserved' \in SUBSET Txns
           /\ IsFiniteSet(Pieces(reserved')) /\ frozen' + Amount(reserved') = Stock
<1>1. Quantity[t] \in Nat /\ Stock \in Nat
  BY TccAssumption
<1>2. /\ IsFiniteSet(Pieces(reserved \union {t}))
      /\ Amount(reserved) \in Nat
      /\ Amount(reserved \union {t}) = Amount(reserved) + Quantity[t]
  BY PiecesAdd DEF TccInv, TccTypeOK, Balanced
<1> QED
  BY <1>1, <1>2 DEF Reserve, TccInv, TccTypeOK, Balanced

\* A cancellation gives it back.
LEMMA UnreserveBalances ==
    ASSUME TccInv, NEW t \in Txns, t \in reserved, Unreserve(t)
    PROVE  /\ frozen' \in Nat /\ reserved' \in SUBSET Txns
           /\ IsFiniteSet(Pieces(reserved')) /\ frozen' + Amount(reserved') = Stock
<1>1. Quantity[t] \in Nat /\ Stock \in Nat
  BY TccAssumption
<1>2. /\ IsFiniteSet(Pieces(reserved \ {t}))
      /\ Amount(reserved \ {t}) \in Nat
      /\ Amount(reserved) = Amount(reserved \ {t}) + Quantity[t]
  BY PiecesRemove DEF TccInv, TccTypeOK, Balanced
<1> QED
  BY <1>1, <1>2 DEF Unreserve, TccInv, TccTypeOK, Balanced

LEMMA TccTypeStep == ASSUME TccInv, TccNext PROVE TccTypeOK' /\ Balanced'
<1> USE DEF TccInv
<1>1. PICK t \in Txns : Execute(t) \/ CoordinatorDies(t)
  BY DEF TccNext
<1>2. Holdings(t)
  OBVIOUS
<1>3. Quantity[t] \in Nat /\ Stock \in Nat
  BY TccAssumption
<1>4. CASE Try(t)
  <2>1. t \notin reserved
    BY <1>2, <1>4 DEF Holdings, Try
  <2>2. Reserve(t) \/ NoReserve
    BY <1>4 DEF Try, NoReserve
  <2>3. /\ frozen' \in Nat /\ reserved' \in SUBSET Txns
        /\ IsFiniteSet(Pieces(reserved')) /\ frozen' + Amount(reserved') = Stock
    BY <2>1, <2>2, ReserveBalances DEF NoReserve, TccTypeOK, Balanced
  <2> QED
    BY <1>4, <2>3 DEF Try, Fault, Enter, TccTypeOK, Balanced, Answered, InFlight, Amount, Pieces
<1>5. CASE Deduct(t)
  <2>1. t \notin deducted
    BY <1>2, <1>5 DEF Holdings, Deduct
  <2>2. /\ IsFiniteSet(Pieces(deducted \union {t}))
        /\ Amount(deducted) \in Nat
        /\ Amount(deducted \union {t}) = Amount(deducted) + Quantity[t]
    BY <2>1, PiecesAdd DEF TccTypeOK, Balanced
  <2>3. /\ real' \in Nat /\ deducted' \in SUBSET Txns
        /\ IsFiniteSet(Pieces(deducted')) /\ real' + Amount(deducted') = Stock
    BY <1>3, <1>5, <2>2 DEF Deduct, TccTypeOK, Balanced
  <2> QED
    BY <1>5, <2>3 DEF Deduct, Fault, Enter, TccTypeOK, Balanced, Answered, InFlight, Amount, Pieces
<1>6. CASE Cancel(t)
  <2>1. t \in reserved
    BY <1>2, <1>6 DEF Holdings, Cancel, InFlight
  <2>2. Unreserve(t) \/ NoReserve
    BY <1>6 DEF Cancel
  <2>3. /\ frozen' \in Nat /\ reserved' \in SUBSET Txns
        /\ IsFiniteSet(Pieces(reserved')) /\ frozen' + Amount(reserved') = Stock
    BY <2>1, <2>2, UnreserveBalances DEF NoReserve, TccTypeOK, Balanced
  <2> QED
    BY <1>6, <2>3 DEF Cancel, Fault, Enter, TccTypeOK, Balanced, Answered, InFlight, Amount, Pieces
<1>7. CASE CreateOrder(t)
  BY <1>7 DEF CreateOrder, Enter, history, TccTypeOK, Balanced, Answered, InFlight, Amount, Pieces
<1>8. CASE CreateFails(t) \/ CancelFails(t) \/ CoordinatorDies(t)
  BY <1>8 DEF CreateFails, CancelFails, CoordinatorDies, Enter, history, TccTypeOK, Balanced,
      Answered, InFlight, Amount, Pieces
<1> QED
  BY <1>1, <1>4, <1>5, <1>6, <1>7, <1>8 DEF Execute

\* Where a deduction finds too little although its execution has a
\* reservation, a call failed or somebody kept what he had deducted: otherwise
\* all that was deducted, and this quantity, would be reserved.
LEMMA TooLittleIsExcused ==
    ASSUME TccInv, NEW t \in Txns, phase[t] = "confirming", real < Quantity[t]
    PROVE  Excused
<1> SUFFICES ASSUME ~Excused
             PROVE  FALSE
  OBVIOUS
<1>1. t \in reserved \ deducted
  BY DEF TccInv, Holdings, InFlight
<1>2. deducted \union {t} \in SUBSET reserved
  BY <1>1 DEF TccInv, TccTypeOK, Holdings, Excused
<1>3. Amount(deducted \union {t}) <= Amount(reserved) /\ Amount(reserved) \in Nat
  BY <1>2, PiecesOfFewer DEF TccInv, Balanced
<1>4. /\ Amount(deducted) \in Nat
      /\ Amount(deducted \union {t}) = Amount(deducted) + Quantity[t]
  BY <1>1, PiecesAdd DEF TccInv, TccTypeOK, Balanced
<1>5. Quantity[t] \in Nat /\ Stock \in Nat
  BY TccAssumption
<1> QED
  BY <1>3, <1>4, <1>5 DEF TccInv, TccTypeOK, Balanced

LEMMA HoldingsStep == ASSUME TccInv, TccNext, NEW u \in Txns PROVE Holdings(u)'
<1> USE DEF TccInv
<1>1. PICK t \in Txns : Execute(t) \/ CoordinatorDies(t)
  BY DEF TccNext
<1>2. Holdings(t) /\ Holdings(u)
  OBVIOUS
<1>3. errors \in Nat /\ phase \in [Txns -> {"start", "crashed"} \union Answered \union InFlight]
  BY DEF TccTypeOK
<1>4. Excused => Excused'
  BY <1>1, <1>2, <1>3 DEF Excused, Execute, Try, Deduct, CreateOrder, CreateFails, Cancel, CancelFails,
      CoordinatorDies, Enter, Fault, history, Holdings, TccTypeOK, InFlight
<1>5. CASE Try(t)
  BY <1>2, <1>3, <1>4, <1>5 DEF Try, Reserve, NoReserve, Enter, Fault, Holdings, InFlight, Answered
<1>6. CASE Deduct(t)
  <2>1. t \in deducted' \/ Excused'
    <3>1. CASE real < Quantity[t]
      BY <1>4, <1>6, <3>1, TooLittleIsExcused DEF Deduct
    <3>2. CASE t \in deducted'
      BY <3>2
    <3>3. CASE Fault
      BY <1>3, <3>3 DEF Fault, Excused
    <3> QED
      BY <1>6, <3>1, <3>2, <3>3 DEF Deduct
  <2> QED
    BY <1>2, <1>3, <1>4, <1>6, <2>1 DEF Deduct, Enter, Fault, Holdings, InFlight, Answered
<1>7. CASE CreateOrder(t)
  BY <1>2, <1>3, <1>4, <1>7 DEF CreateOrder, Enter, history, Holdings, InFlight, Answered
<1>8. CASE Cancel(t)
  BY <1>2, <1>3, <1>4, <1>8 DEF Cancel, Unreserve, NoReserve, Enter, Fault, Holdings, InFlight, Answered
<1>9. CASE CreateFails(t) \/ CancelFails(t) \/ CoordinatorDies(t)
  BY <1>2, <1>3, <1>4, <1>9 DEF CreateFails, CancelFails, CoordinatorDies, Enter, history, Holdings,
      InFlight, Answered
<1> QED
  BY <1>1, <1>5, <1>6, <1>7, <1>8, <1>9 DEF Execute

LEMMA TccInvInductive ==
    /\ TccInit => TccInv
    /\ TccInv /\ [TccNext]_tccVars => TccInv'
<1>1. ASSUME TccInit PROVE TccInv
  <2>1. Pieces({}) = {}
    BY DEF Pieces
  <2>2. IsFiniteSet(Pieces({})) /\ Amount({}) = 0
    BY <2>1, FS_EmptySet DEF Amount
  <2> QED
    BY <1>1, <2>2, TccAssumption DEF TccInit, NoFaults, TccInv, TccTypeOK, Balanced, Holdings, InFlight
<1>2. ASSUME TccInv, TccNext PROVE TccInv'
  BY <1>2, TccTypeStep, HoldingsStep DEF TccInv
<1>3. ASSUME TccInv, UNCHANGED tccVars PROVE TccInv'
  BY <1>3 DEF tccVars, TccInv, TccTypeOK, Balanced, Holdings, Excused, Amount, Pieces
<1> QED
  BY <1>1, <1>2, <1>3

LEMMA TccInvariant == TccSpec => []TccInv
<1> QED
  BY TccInvInductive, PTL DEF TccSpec

\* Type correctness of the TCC executions.
THEOREM TccTypeCorrectness == TccSpec => []TccTypeOK
<1>1. TccInv => TccTypeOK
  BY DEF TccInv
<1> QED
  BY <1>1, TccInvariant, PTL

\* For any number of executions, quantities and stock, whatever fails or dies:
\* the orders never exceed the stock, an order took its quantity unless a call
\* failed or a cancelled execution kept its own, and only a failed call leaves
\* a reservation behind.
THEOREM NeverOversold == TccSpec => []NoOversell
<1>1. ASSUME TccInv PROVE NoOversell
  <2>1. ordered \in SUBSET reserved
    BY <1>1 DEF TccInv, TccTypeOK, Holdings
  <2>2. Amount(ordered) <= Amount(reserved) /\ Amount(reserved) \in Nat /\ Amount(ordered) \in Nat
    BY <1>1, <2>1, PiecesOfFewer DEF TccInv, Balanced
  <2>3. Amount(ordered) <= Stock
    BY <1>1, <2>2, TccAssumption DEF TccInv, Balanced, TccTypeOK
  <2>4. OrderedWasDeducted /\ LeakNeedsFault
    BY <1>1 DEF TccInv, TccTypeOK, Holdings, Excused, OrderedWasDeducted, LeakNeedsFault
  <2> QED
    BY <2>3, <2>4 DEF NoOversell
<1> QED
  BY <1>1, TccInvariant, PTL

-----------------------------------------------------------------------------
(***************************************************************************)
(* Outbox: counting copies on the list and in the dispatchers' hands       *)
(***************************************************************************)

OnList(q, m) == Cardinality({i \in DOMAIN q : q[i] = m})
InHands(h, m) == Cardinality({d \in Dispatchers : h[d] = m})
Same(x, y) == IF x = y THEN 1 ELSE 0
Unpublished(p, m) == IF p[m] = "done" THEN 0 ELSE 1

\* The places at which a message stands on a list are finitely many.
LEMMA PlacesFinite ==
    ASSUME NEW q \in Seq(Events), NEW m
    PROVE  IsFiniteSet({i \in DOMAIN q : q[i] = m}) /\ OnList(q, m) \in Nat
<1>1. IsFiniteSet(1..Len(q))
  BY FS_Interval
<1>2. {i \in DOMAIN q : q[i] = m} \in SUBSET (1..Len(q))
  OBVIOUS
<1> QED
  BY <1>1, <1>2, FS_Subset, FS_CardinalityType DEF OnList

\* A message appended to a list adds one place.
LEMMA CountAppend ==
    ASSUME NEW q \in Seq(Events), NEW e \in Events, NEW m
    PROVE  OnList(Append(q, e), m) = OnList(q, m) + Same(e, m)
<1> DEFINE Places == {i \in DOMAIN q : q[i] = m}
           Longer == {i \in DOMAIN Append(q, e) : Append(q, e)[i] = m}
<1>1. IsFiniteSet(Places) /\ Cardinality(Places) \in Nat
  BY PlacesFinite DEF OnList
<1>2. Len(q) + 1 \notin Places
  OBVIOUS
<1>3. CASE e = m
  <2>1. Longer = Places \union {Len(q) + 1}
    BY <1>3
  <2>2. Cardinality(Places \union {Len(q) + 1}) = Cardinality(Places) + 1
    BY <1>1, <1>2, FS_AddElement
  <2> QED
    BY <1>3, <2>1, <2>2, Zenon DEF OnList, Same
<1>4. CASE e # m
  <2>1. Longer = Places
    BY <1>4
  <2> HIDE DEF Places, Longer
  <2>2. Cardinality(Longer) = Cardinality(Places)
    BY <2>1, Zenon
  <2>3. Cardinality(Longer) = Cardinality(Places) + 0
    BY <1>1, <2>2
  <2> QED
    BY <1>4, <2>3, Zenon DEF OnList, Same, Places, Longer
<1> QED
  BY <1>3, <1>4

\* Without its head a list has that place less.
LEMMA CountTail ==
    ASSUME NEW q \in Seq(Events), q # <<>>, NEW m
    PROVE  /\ Head(q) \in Events /\ Tail(q) \in Seq(Events)
           /\ OnList(Tail(q), m) + Same(Head(q), m) <= OnList(q, m)
<1> DEFINE Places == {i \in DOMAIN q : q[i] = m}
           Later == {i \in DOMAIN Tail(q) : Tail(q)[i] = m}
<1>1. Head(q) \in Events /\ Tail(q) \in Seq(Events) /\ Len(q) \in Nat \ {0}
  OBVIOUS
<1>2. IsFiniteSet(Places) /\ Cardinality(Places) \in Nat /\ Cardinality(Later) \in Nat
  BY <1>1, PlacesFinite DEF OnList
<1>3. /\ IsFiniteSet(Places \ {1})
      /\ Cardinality(Places \ {1}) = IF 1 \in Places THEN Cardinality(Places) - 1 ELSE Cardinality(Places)
  BY <1>2, FS_RemoveElement
<1>4. 1 \in Places <=> Head(q) = m
  BY <1>1
<1>5. [i \in Later |-> i + 1] \in Injection(Later, Places \ {1})
  <2>1. \A i \in Later : i \in Nat \ {0} /\ i + 1 \in Places \ {1}
    BY <1>1
  <2> QED
    BY <2>1 DEF Injection, IsInjective
<1>6. Cardinality(Later) <= Cardinality(Places \ {1})
  <2> HIDE DEF Places, Later
  <2> QED
    BY <1>3, <1>5, FS_Injection, Zenon
<1>7. Cardinality(Later) + Same(Head(q), m) <= Cardinality(Places)
  <2> HIDE DEF Places, Later
  <2> QED
    BY <1>2, <1>3, <1>4, <1>6 DEF Same, Unpublished
<1> QED
  BY <1>1, <1>7 DEF OnList

\* What one dispatcher takes or lays down changes the count by one.
LEMMA CountHands ==
    ASSUME NEW h, NEW g, NEW m, NEW d \in Dispatchers,
           \A e \in Dispatchers \ {d} : g[e] = h[e]
    PROVE  /\ InHands(h, m) \in Nat
           /\ InHands(g, m) \in Nat
           /\ InHands(g, m) = InHands(h, m) - Same(h[d], m) + Same(g[d], m)
<1> DEFINE Holders == {e \in Dispatchers : h[e] = m}
           After == {e \in Dispatchers : g[e] = m}
<1>1. IsFiniteSet(Holders) /\ Cardinality(Holders) \in Nat
  <2>1. Holders \in SUBSET Dispatchers
    OBVIOUS
  <2> QED
    BY <2>1, OutboxAssumption, FS_Subset, FS_CardinalityType
<1>2. IsFiniteSet(After) /\ Cardinality(After) \in Nat
  <2>1. After \in SUBSET Dispatchers
    OBVIOUS
  <2> QED
    BY <2>1, OutboxAssumption, FS_Subset, FS_CardinalityType
<1>3. d \in Holders <=> h[d] = m
  OBVIOUS
<1>4. CASE g[d] = m
  <2>1. After = Holders \union {d}
    BY <1>4
  <2> HIDE DEF Holders, After
  <2>2. Cardinality(After) = IF d \in Holders THEN Cardinality(Holders) ELSE Cardinality(Holders) + 1
    BY <1>1, <2>1, FS_AddElement, Zenon
  <2>3. Cardinality(After) = Cardinality(Holders) - Same(h[d], m) + Same(g[d], m)
    BY <1>1, <1>3, <1>4, <2>2 DEF Same, Unpublished
  <2> QED
    BY <1>1, <1>2, <2>3 DEF InHands, Holders, After
<1>5. CASE g[d] # m
  <2>1. After = Holders \ {d}
    BY <1>5
  <2> HIDE DEF Holders, After
  <2>2. Cardinality(After) = IF d \in Holders THEN Cardinality(Holders) - 1 ELSE Cardinality(Holders)
    BY <1>1, <2>1, FS_RemoveElement, Zenon
  <2>3. Cardinality(After) = Cardinality(Holders) - Same(h[d], m) + Same(g[d], m)
    BY <1>1, <1>3, <1>5, <2>2 DEF Same, Unpublished
  <2> QED
    BY <1>1, <1>2, <2>3 DEF InHands, Holders, After
<1> QED
  BY <1>4, <1>5

-----------------------------------------------------------------------------
(***************************************************************************)
(* Outbox: the inductive invariant                                         *)
(***************************************************************************)

Holding == {"send", "refused", "failed"}

OutboxTypeOK ==
    /\ outbox \in Seq(Events)
    /\ publish \in [Events -> {"open", "raised", "done"}]
    /\ at \in [Dispatchers -> {"off", "pop"} \union Holding]
    /\ left \in [Dispatchers -> Nat]
    /\ raw \in [Dispatchers -> Events \union {NoEvent}]
    /\ accepted \in [Events -> Nat]
    /\ errors \in Nat
    /\ crashes \in Nat

\* A dispatcher has a message exactly between the pop and the end of a turn.
HandsMatch == \A d \in Dispatchers : raw[d] \in Events <=> at[d] \in Holding

\* A message that is not yet published will add a copy without a fault.
CopiesBounded ==
    \A m \in Events :
        accepted[m] + OnList(outbox, m) + InHands(raw, m) + Unpublished(publish, m) <= 1 + errors

OutboxInv == OutboxTypeOK /\ HandsMatch /\ CopiesBounded

LEMMA OutboxTypeStep == ASSUME OutboxInv, OutboxNext PROVE OutboxTypeOK' /\ HandsMatch'
<1> USE DEF OutboxInv, OutboxTypeOK
<1>1. outbox # <<>> => Head(outbox) \in Events /\ Tail(outbox) \in Seq(Events)
  OBVIOUS
<1>2. \A e \in Events : Append(outbox, e) \in Seq(Events)
  OBVIOUS
<1>3. NoEvent \notin Events /\ BatchSize \in Nat
  BY OutboxAssumption
<1>4. ASSUME NEW m \in Events, Publish(m) PROVE OutboxTypeOK' /\ HandsMatch'
  <2>1. HandsMatch'
    BY <1>4 DEF Publish, dispatchVars, HandsMatch
  <2>2. outbox' \in Seq(Events)
    BY <1>2, <1>4 DEF Publish
  <2>3. publish' \in [Events -> {"open", "raised", "done"}]
    BY <1>4 DEF Publish
  <2>4. errors' \in Nat
    BY <1>4 DEF Publish, Fault
  <2> QED
    BY <1>4, <2>1, <2>2, <2>3, <2>4 DEF Publish, dispatchVars
<1>5. ASSUME NEW d \in Dispatchers, Dispatch(d) \/ EndDispatch(d) \/ DispatcherDies(d)
      PROVE  OutboxTypeOK' /\ HandsMatch'
  <2>1. HandsMatch'
    BY <1>3, <1>5 DEF Dispatch, EndDispatch, DispatcherDies, Exit, Goto, HandsMatch, Holding
  <2>2. crashes' \in Nat
    BY <1>5 DEF Dispatch, EndDispatch, DispatcherDies, Death
  <2>3. at' \in [Dispatchers -> {"off", "pop"} \union Holding]
    BY <1>5 DEF Dispatch, EndDispatch, DispatcherDies, Exit, Goto
  <2>4. left' \in [Dispatchers -> Nat]
    <3>1. left' = [left EXCEPT ![d] = BatchSize] \/ left' = [left EXCEPT ![d] = 0]
      BY <1>5 DEF Dispatch, EndDispatch, DispatcherDies, Exit
    <3> QED
      BY <1>3, <3>1
  <2>5. raw' \in [Dispatchers -> Events \union {NoEvent}]
    BY <1>5 DEF Dispatch, EndDispatch, DispatcherDies, Exit, Goto
  <2> QED
    BY <1>5, <2>1, <2>2, <2>3, <2>4, <2>5 DEF Dispatch, EndDispatch, DispatcherDies, Exit, Goto
<1>6. ASSUME NEW d \in Dispatchers, Pop(d) PROVE OutboxTypeOK' /\ HandsMatch'
  <2>1. outbox' \in Seq(Events)
    BY <1>1, <1>6 DEF Pop
  <2>2. at' \in [Dispatchers -> {"off", "pop"} \union Holding]
    BY <1>6 DEF Pop, Exit, Goto, Holding
  <2>3. left' \in [Dispatchers -> Nat]
    <3>1. \/ left' = [left EXCEPT ![d] = @ - 1] /\ left[d] > 0
          \/ left' = [left EXCEPT ![d] = 0]
      BY <1>6 DEF Pop, Exit
    <3>2. CASE left' = [left EXCEPT ![d] = @ - 1] /\ left[d] > 0
      <4>1. left[d] - 1 \in Nat
        BY <3>2
      <4> QED
        BY <3>2, <4>1
    <3>3. CASE left' = [left EXCEPT ![d] = 0]
      BY <3>3
    <3> QED
      BY <3>1, <3>2, <3>3
  <2>4. raw' \in [Dispatchers -> Events \union {NoEvent}]
    BY <1>1, <1>6 DEF Pop, Exit
  <2>5. errors' \in Nat
    BY <1>6 DEF Pop, Fault
  <2>6. HandsMatch'
    BY <1>1, <1>3, <1>6, <2>2, <2>4, ZenonT(40) DEF Pop, Exit, Goto, HandsMatch, Holding
  <2> QED
    BY <1>6, <2>1, <2>2, <2>3, <2>4, <2>5, <2>6 DEF Pop
<1>7. ASSUME NEW d \in Dispatchers, SendAccepted(d) \/ SendFails(d) PROVE OutboxTypeOK' /\ HandsMatch'
  <2>1. raw[d] \in Events
    BY <1>7 DEF SendAccepted, SendFails, HandsMatch, Holding
  <2>2. accepted' \in [Events -> Nat]
    <3>1. accepted' = accepted \/ accepted' = [accepted EXCEPT ![raw[d]] = @ + 1]
      BY <1>7 DEF SendAccepted, SendFails
    <3>2. accepted[raw[d]] + 1 \in Nat
      BY <2>1
    <3> QED
      BY <3>1, <3>2
  <2>3. at' \in [Dispatchers -> {"off", "pop"} \union Holding]
    BY <1>7 DEF SendAccepted, SendFails, NextTurn, Goto, Holding
  <2>4. raw' \in [Dispatchers -> Events \union {NoEvent}]
    BY <1>7 DEF SendAccepted, SendFails, NextTurn
  <2>5. HandsMatch'
    BY <1>3, <1>7, <2>1, <2>3, <2>4, ZenonT(40)
       DEF SendAccepted, SendFails, NextTurn, Goto, HandsMatch, Holding
  <2> QED
    BY <1>7, <2>2, <2>3, <2>4, <2>5 DEF SendAccepted, SendFails, NextTurn
<1>8. ASSUME NEW d \in Dispatchers, PutBackRefused(d) \/ PutBackFailed(d)
      PROVE  OutboxTypeOK' /\ HandsMatch'
  <2>1. raw[d] \in Events
    BY <1>8 DEF PutBackRefused, PutBackFailed, HandsMatch, Holding
  <2>2. outbox' \in Seq(Events)
    BY <1>2, <1>8, <2>1 DEF PutBackRefused, PutBackFailed
  <2>3. at' \in [Dispatchers -> {"off", "pop"} \union Holding]
    BY <1>8 DEF PutBackRefused, PutBackFailed, NextTurn, Exit, Goto, Holding
  <2>4. raw' \in [Dispatchers -> Events \union {NoEvent}]
    BY <1>8 DEF PutBackRefused, PutBackFailed, NextTurn, Exit
  <2>5. left' \in [Dispatchers -> Nat]
    <3>1. left' = left \/ left' = [left EXCEPT ![d] = 0]
      BY <1>8 DEF PutBackRefused, PutBackFailed, NextTurn, Exit
    <3> QED
      BY <3>1
  <2>6. errors' \in Nat
    BY <1>8 DEF PutBackRefused, PutBackFailed, Fault
  <2>7. HandsMatch'
    BY <1>3, <1>8, <2>1, <2>3, <2>4, ZenonT(40)
       DEF PutBackRefused, PutBackFailed, NextTurn, Exit, Goto, HandsMatch, Holding
  <2> QED
    BY <1>8, <2>2, <2>3, <2>4, <2>5, <2>6, <2>7 DEF PutBackRefused, PutBackFailed
<1> QED
  BY <1>4, <1>5, <1>6, <1>7, <1>8 DEF OutboxNext, DispatchStep

\* Published messages and failed pushes are all that adds copies.
LEMMA CopiesStep == ASSUME OutboxInv, OutboxNext PROVE CopiesBounded'
<1> USE DEF OutboxInv, OutboxTypeOK
<1> SUFFICES ASSUME NEW m \in Events
             PROVE  accepted'[m] + OnList(outbox', m) + InHands(raw', m) + Unpublished(publish', m)
                       <= 1 + errors'
  BY DEF CopiesBounded, OnList, InHands, Same, Unpublished
<1> DEFINE L == OnList(outbox, m)
           H == InHands(raw, m)
<1>1. accepted[m] + L + H + Unpublished(publish, m) <= 1 + errors
  BY DEF CopiesBounded
<1>2. L \in Nat /\ accepted[m] \in Nat
  BY PlacesFinite
<1>3. \A e \in Events : OnList(Append(outbox, e), m) = L + Same(e, m)
  BY CountAppend
<1>4. ASSUME NEW d \in Dispatchers, NEW v, raw' = [raw EXCEPT ![d] = v]
      PROVE  InHands(raw', m) = H - Same(raw[d], m) + Same(v, m)
  <2>1. raw'[d] = v /\ \A e \in Dispatchers \ {d} : raw'[e] = raw[e]
    BY <1>4
  <2>2. InHands(raw', m) = InHands(raw, m) - Same(raw[d], m) + Same(raw'[d], m)
    BY <2>1, CountHands
  <2> QED
    BY <2>1, <2>2
<1>5. NoEvent # m
  BY OutboxAssumption
<1>6. H \in Nat
  <2>1. {d \in Dispatchers : raw[d] = m} \in SUBSET Dispatchers
    OBVIOUS
  <2> QED
    BY <2>1, OutboxAssumption, FS_Subset, FS_CardinalityType DEF InHands
<1>7. ASSUME NEW e \in Events, Publish(e)
      PROVE  accepted'[m] + OnList(outbox', m) + InHands(raw', m) + Unpublished(publish', m) <= 1 + errors'
  <2>1. raw' = raw /\ accepted' = accepted
    BY <1>7 DEF Publish, dispatchVars
  <2>2. \/ /\ OnList(outbox', m) = L + Same(e, m)
           /\ publish' = [publish EXCEPT ![e] = "done"]
           /\ errors' = errors
        \/ /\ OnList(outbox', m) = L \/ OnList(outbox', m) = L + Same(e, m)
           /\ publish' = [publish EXCEPT ![e] = "raised"]
           /\ errors' = errors + 1
    BY <1>3, <1>7 DEF Publish, Fault
  <2>3. Unpublished(publish, e) = 1
    BY <1>7 DEF Publish, Same, Unpublished
  <2> HIDE DEF L, H
  <2>4. CASE e = m
    BY <1>1, <1>2, <1>6, <2>1, <2>2, <2>3, <2>4 DEF Same, Unpublished, H
  <2>5. CASE e # m
    BY <1>1, <1>2, <1>6, <2>1, <2>2, <2>5 DEF Same, Unpublished, H
  <2> QED
    BY <2>4, <2>5
<1>8. ASSUME NEW d \in Dispatchers, DispatchStep(d) \/ Dispatch(d) \/ DispatcherDies(d)
      PROVE  accepted'[m] + OnList(outbox', m) + InHands(raw', m) + Unpublished(publish', m) <= 1 + errors'
  <2>1. publish' = publish
    BY <1>8 DEF DispatchStep, Dispatch, DispatcherDies, Pop, EndDispatch, SendAccepted, SendFails,
                PutBackRefused, PutBackFailed
  <2>2. ASSUME raw' = [raw EXCEPT ![d] = NoEvent]
        PROVE  InHands(raw', m) = H - Same(raw[d], m) /\ InHands(raw', m) \in Nat
    <3>1. InHands(raw', m) = H - Same(raw[d], m) + Same(NoEvent, m)
      BY <1>4, <2>2
    <3>2. InHands(raw', m) \in Nat
      <4>1. raw'[d] = NoEvent /\ \A e \in Dispatchers \ {d} : raw'[e] = raw[e]
        BY <2>2
      <4> QED
        BY <4>1, CountHands
    <3> QED
      BY <1>5, <1>6, <3>1, <3>2 DEF Same, Unpublished
  <2>3. CASE Pop(d)
    <3>1. raw[d] # m
      BY <2>3 DEF Pop, HandsMatch, Holding
    <3> DEFINE T == OnList(Tail(outbox), m)
               X == Same(Head(outbox), m)
    <3>2. T + X <= L /\ T \in Nat /\ X \in {0, 1}
      BY <2>3, CountTail, PlacesFinite DEF Pop, Same, Unpublished
    <3>3. ASSUME raw' = [raw EXCEPT ![d] = Head(outbox)] PROVE InHands(raw', m) = H + X
      <4>1. InHands(raw', m) = H - Same(raw[d], m) + Same(Head(outbox), m)
        BY <1>4, <3>3
      <4> QED
        BY <1>6, <3>1, <4>1 DEF Same, Unpublished
    <3>4. ASSUME raw' = [raw EXCEPT ![d] = NoEvent] PROVE InHands(raw', m) = H
      BY <1>6, <2>2, <3>1, <3>4 DEF Same, Unpublished
    <3>6. \/ OnList(outbox', m) = T /\ InHands(raw', m) = H + X /\ errors' = errors
          \/ /\ OnList(outbox', m) \in {L, T}
             /\ InHands(raw', m) = H
             /\ errors' = errors + 1
      <4>1. \/ /\ outbox' = Tail(outbox)
               /\ raw' = [raw EXCEPT ![d] = Head(outbox)]
               /\ errors' = errors
            \/ /\ outbox' = outbox \/ outbox' = Tail(outbox)
               /\ raw' = [raw EXCEPT ![d] = NoEvent]
               /\ errors' = errors + 1
        BY <2>3 DEF Pop, Exit, Fault
      <4> QED
        BY <3>3, <3>4, <4>1
    <3>5. accepted' = accepted
      BY <2>3 DEF Pop
    <3> HIDE DEF L, H, T, X
    <3> QED
      BY <1>1, <1>2, <1>6, <2>1, <3>2, <3>5, <3>6, SMTT(20) DEF Same, Unpublished
  <2>4. CASE PutBackRefused(d) \/ PutBackFailed(d)
    <3>1. raw[d] \in Events
      BY <2>4 DEF PutBackRefused, PutBackFailed, HandsMatch, Holding
    <3>2. OnList(Append(outbox, raw[d]), m) = L + Same(raw[d], m)
      BY <1>3, <3>1
    <3>4. \/ /\ OnList(outbox', m) = L + Same(raw[d], m)
             /\ InHands(raw', m) = H - Same(raw[d], m)
             /\ errors' = errors
          \/ /\ OnList(outbox', m) = L \/ OnList(outbox', m) = L + Same(raw[d], m)
             /\ InHands(raw', m) = H \/ InHands(raw', m) = H - Same(raw[d], m)
             /\ errors' = errors + 1
      BY <2>2, <2>4, <3>2 DEF PutBackRefused, PutBackFailed, NextTurn, Exit, Fault
    <3>5. accepted' = accepted
      BY <2>4 DEF PutBackRefused, PutBackFailed
    <3> HIDE DEF L, H
    <3> QED
      BY <1>1, <1>2, <1>6, <2>1, <3>4, <3>5, SMTT(20) DEF Same, Unpublished
  <2>5. CASE SendAccepted(d)
    <3>1. raw[d] \in Events
      BY <2>5 DEF SendAccepted, HandsMatch, Holding
    <3>2. accepted'[m] = accepted[m] + Same(raw[d], m)
      BY <1>2, <2>5, <3>1 DEF SendAccepted, Same, Unpublished
    <3>3. InHands(raw', m) = H - Same(raw[d], m) /\ OnList(outbox', m) = L /\ errors' = errors
      BY <2>2, <2>5 DEF SendAccepted, NextTurn
    <3> HIDE DEF L, H
    <3> QED
      BY <1>1, <1>2, <1>6, <2>1, <3>2, <3>3 DEF Same, Unpublished
  <2>6. CASE EndDispatch(d) \/ DispatcherDies(d) \/ Dispatch(d) \/ SendFails(d)
    <3>1. InHands(raw', m) = H \/ InHands(raw', m) = H - Same(raw[d], m)
      BY <2>2, <2>6 DEF EndDispatch, DispatcherDies, Dispatch, SendFails, Exit
    <3>2. OnList(outbox', m) = L /\ errors' = errors /\ accepted' = accepted
      BY <2>6 DEF EndDispatch, DispatcherDies, Dispatch, SendFails
    <3> HIDE DEF L, H
    <3> QED
      BY <1>1, <1>2, <1>6, <2>1, <3>1, <3>2 DEF Same, Unpublished
  <2> QED
    BY <1>8, <2>3, <2>4, <2>5, <2>6 DEF DispatchStep
<1> QED
  BY <1>7, <1>8 DEF OutboxNext

LEMMA OutboxInvariant == OutboxSpec => []OutboxInv
<1>1. ASSUME OutboxInit PROVE OutboxInv
  <2>1. OutboxTypeOK /\ HandsMatch
    BY <1>1, OutboxAssumption DEF OutboxInit, NoFaults, OutboxTypeOK, HandsMatch, Holding
  <2>2. ASSUME NEW m \in Events PROVE OnList(outbox, m) = 0 /\ InHands(raw, m) = 0
    <3>1. {i \in DOMAIN outbox : outbox[i] = m} = {}
      BY <1>1 DEF OutboxInit
    <3>2. {d \in Dispatchers : raw[d] = m} = {}
      BY <1>1, OutboxAssumption DEF OutboxInit
    <3> QED
      BY <3>1, <3>2, FS_EmptySet DEF OnList, InHands
  <2>3. CopiesBounded
    BY <1>1, <2>2 DEF OutboxInit, NoFaults, CopiesBounded, Same, Unpublished
  <2> QED
    BY <2>1, <2>3 DEF OutboxInv
<1>2. ASSUME OutboxInv, OutboxNext PROVE OutboxInv'
  BY <1>2, OutboxTypeStep, CopiesStep DEF OutboxInv
<1>3. ASSUME OutboxInv, UNCHANGED outboxVars PROVE OutboxInv'
  BY <1>3 DEF outboxVars, OutboxInv, OutboxTypeOK, HandsMatch, CopiesBounded, OnList, InHands
<1> QED
  BY <1>1, <1>2, <1>3, PTL DEF OutboxSpec

\* Type correctness of the outbox and its dispatchers.
THEOREM OutboxTypeCorrectness == OutboxSpec => []OutboxTypeOK
<1>1. OutboxInv => OutboxTypeOK
  BY DEF OutboxInv
<1> QED
  BY <1>1, OutboxInvariant, PTL

\* For any number of messages and dispatchers and whatever is refused, fails
\* or dies: a message is accepted and still held at most once for every Redis
\* call that failed, and once more.
THEOREM OnlyFaultsDuplicate == OutboxSpec => []DuplicatesNeedFaults
<1>1. ASSUME OutboxInv PROVE DuplicatesNeedFaults
  <2>1. ASSUME NEW m \in Events PROVE accepted[m] + Copies(m) <= 1 + errors
    <3>1. Copies(m) = OnList(outbox, m) + InHands(raw, m)
      BY DEF Copies, OnList, InHands
    <3>2. OnList(outbox, m) \in Nat
      BY <1>1, PlacesFinite DEF OutboxInv, OutboxTypeOK
    <3>3. InHands(raw, m) \in Nat
      <4>1. {d \in Dispatchers : raw[d] = m} \in SUBSET Dispatchers
        OBVIOUS
      <4> QED
        BY <4>1, OutboxAssumption, FS_Subset, FS_CardinalityType DEF InHands
    <3>4. accepted[m] \in Nat /\ errors \in Nat
      BY <1>1 DEF OutboxInv, OutboxTypeOK
    <3> QED
      BY <1>1, <3>1, <3>2, <3>3, <3>4 DEF OutboxInv, CopiesBounded, Same, Unpublished
  <2> QED
    BY <2>1 DEF DuplicatesNeedFaults
<1> QED
  BY <1>1, OutboxInvariant, PTL

-----------------------------------------------------------------------------
(***************************************************************************)
(* LocalMessages: lists without repetition                                 *)
(***************************************************************************)

Distinct(q) == \A i, j \in DOMAIN q : q[i] = q[j] => i = j

LEMMA AppendDistinct ==
    ASSUME NEW q \in Seq(Messages), NEW m \in Messages
    PROVE  /\ Append(q, m) \in Seq(Messages)
           /\ ToSet(Append(q, m)) = ToSet(q) \union {m}
           /\ Distinct(q) /\ m \notin ToSet(q) => Distinct(Append(q, m))
<1>1. /\ Append(q, m) \in Seq(Messages) /\ Len(Append(q, m)) = Len(q) + 1
      /\ \A i \in 1..Len(q) : Append(q, m)[i] = q[i]
      /\ Append(q, m)[Len(q) + 1] = m
  OBVIOUS
<1>2. ToSet(Append(q, m)) = ToSet(q) \union {m}
  BY <1>1 DEF ToSet
<1>3. Distinct(q) /\ m \notin ToSet(q) => Distinct(Append(q, m))
  BY <1>1 DEF Distinct, ToSet
<1> QED
  BY <1>1, <1>2, <1>3

LEMMA TailDistinct ==
    ASSUME NEW q \in Seq(Messages), q # <<>>, Distinct(q)
    PROVE  /\ Head(q) \in Messages /\ Head(q) \in ToSet(q)
           /\ Tail(q) \in Seq(Messages) /\ Distinct(Tail(q))
           /\ ToSet(Tail(q)) = ToSet(q) \ {Head(q)}
<1>1. /\ Head(q) \in Messages /\ Tail(q) \in Seq(Messages)
      /\ Len(q) \in Nat \ {0} /\ Len(Tail(q)) = Len(q) - 1
      /\ Head(q) = q[1]
      /\ \A i \in 1..(Len(q) - 1) : Tail(q)[i] = q[i + 1]
  OBVIOUS
<1>2. Head(q) \in ToSet(q)
  BY <1>1 DEF ToSet
<1>3. Distinct(Tail(q))
  BY <1>1 DEF Distinct
<1>4. ASSUME NEW x \in ToSet(Tail(q)) PROVE x \in ToSet(q) \ {Head(q)}
  <2>1. PICK i \in 1..(Len(q) - 1) : x = q[i + 1]
    BY <1>1 DEF ToSet
  <2> QED
    BY <1>1, <2>1 DEF ToSet, Distinct
<1>5. ASSUME NEW x \in ToSet(q), x # Head(q) PROVE x \in ToSet(Tail(q))
  <2>1. PICK i \in 1..Len(q) : x = q[i]
    BY DEF ToSet
  <2>2. i - 1 \in 1..(Len(q) - 1) /\ x = Tail(q)[i - 1]
    BY <1>1, <1>5, <2>1
  <2> QED
    BY <1>1, <2>2 DEF ToSet
<1> QED
  BY <1>1, <1>2, <1>3, <1>4, <1>5

-----------------------------------------------------------------------------
(***************************************************************************)
(* LocalMessages: the inductive invariant                                  *)
(***************************************************************************)

Final == {"sent", "failed"}
Ready == {"created", "raised"}
Handling == {"load", "send", "sent", "retry", "requeue", "fail", "bury"}

LocalTypeOK ==
    /\ pending \in Seq(Messages)
    /\ dead \in Seq(Messages)
    /\ hash \in [Messages -> [status : {"none", "pending"} \union Final, retries : Nat]]
    /\ create \in [Messages -> {"hset", "expire", "rpush"} \union Ready]
    /\ task \in [Tasks -> {"off", "pop"} \union Handling]
    /\ turns \in [Tasks -> Nat]
    /\ msgId \in [Tasks -> Messages \union {NoMessage}]
    /\ retry \in [Tasks -> Nat]
    /\ sends \in [Messages -> Nat]
    /\ errors \in Nat
    /\ crashes \in Nat

Lined == ToSet(pending)

\* The retry count of a message that waits is the number of its sends, and it is
\* one behind after a send that failed.
Counted(m) == sends[m] = hash[m].retries /\ hash[m].retries <= MaxRetry
Reckoned(place, m, r) ==
    /\ place \in {"load", "requeue"} => Counted(m)
    /\ place = "send" => Counted(m) /\ r = hash[m].retries
    /\ place = "retry" => sends[m] = r + 1 /\ r + 1 <= MaxRetry
    /\ place = "fail" => sends[m] = MaxRetry + 1
    /\ place \in {"sent", "requeue"} => sends[m] > 0
    /\ hash[m].status = IF place = "bury" THEN "failed" ELSE "pending"

MessageOK(m) ==
    /\ m \in Lined => create[m] \in Ready /\ hash[m].status = "pending" /\ Counted(m)
    /\ create[m] \notin Ready => sends[m] = 0 /\ hash[m].retries = 0 /\ hash[m].status \notin Final
    /\ create[m] \in {"expire", "rpush"} => hash[m].status = "pending"
    /\ sends[m] <= MaxRetry + 1

\* A message in a task's hands is in nobody else's and not on the list.
TaskOK(p) ==
    IF task[p] \in Handling
    THEN /\ msgId[p] \in Messages \ Lined
         /\ create[msgId[p]] \in Ready
         /\ Reckoned(task[p], msgId[p], retry[p])
         /\ \A q \in Tasks \ {p} : msgId[q] # msgId[p]
    ELSE msgId[p] = NoMessage

LocalInv ==
    /\ LocalTypeOK
    /\ Distinct(pending)
    /\ \A m \in Messages : MessageOK(m)
    /\ \A p \in Tasks : TaskOK(p)

-----------------------------------------------------------------------------
(***************************************************************************)
(* LocalMessages: every step preserves it                                  *)
(***************************************************************************)

\* Two ways to change a hash, and what they leave alone.
LEMMA StatusType ==
    ASSUME LocalTypeOK, NEW m \in Messages, NEW s \in {"none", "pending"} \union Final, SetStatus(m, s)
    PROVE  /\ hash' \in [Messages -> [status : {"none", "pending"} \union Final, retries : Nat]]
           /\ hash'[m].status = s /\ hash'[m].retries = hash[m].retries
           /\ \A x \in Messages \ {m} : hash'[x] = hash[x]
<1>1. hash[m] \in [status : {"none", "pending"} \union Final, retries : Nat]
  BY DEF LocalTypeOK
<1>2. hash' = [hash EXCEPT ![m] = [@ EXCEPT !.status = s]]
  BY DEF SetStatus
<1>3. [hash[m] EXCEPT !.status = s] \in [status : {"none", "pending"} \union Final, retries : Nat]
  BY <1>1
<1> QED
  BY <1>1, <1>2, <1>3 DEF LocalTypeOK

LEMMA RetriesType ==
    ASSUME LocalTypeOK, NEW m \in Messages, NEW r \in Nat, hash' = [hash EXCEPT ![m].retries = r]
    PROVE  /\ hash' \in [Messages -> [status : {"none", "pending"} \union Final, retries : Nat]]
           /\ hash'[m].retries = r /\ hash'[m].status = hash[m].status
           /\ \A x \in Messages \ {m} : hash'[x] = hash[x]
<1>1. hash[m] \in [status : {"none", "pending"} \union Final, retries : Nat]
  BY DEF LocalTypeOK
<1>2. hash' = [hash EXCEPT ![m] = [@ EXCEPT !.retries = r]]
  OBVIOUS
<1>3. [hash[m] EXCEPT !.retries = r] \in [status : {"none", "pending"} \union Final, retries : Nat]
  BY <1>1
<1> QED
  BY <1>1, <1>2, <1>3 DEF LocalTypeOK

\* The messages but m and the tasks of S are not touched.
Untouched(m, S) ==
    /\ \A x \in Messages \ {m} :
        /\ hash'[x] = hash[x]
        /\ sends'[x] = sends[x]
        /\ create'[x] = create[x]
        /\ x \in Lined' <=> x \in Lined
    /\ \A q \in S : task'[q] = task[q] /\ msgId'[q] = msgId[q] /\ retry'[q] = retry[q]

LEMMA UntouchedKept ==
    ASSUME LocalInv, NEW m, NEW S \in SUBSET Tasks, Untouched(m, S),
           \A q \in S : msgId[q] # m,
           \A p \in Tasks \ S : msgId'[p] \in {m, NoMessage}
    PROVE  /\ \A x \in Messages \ {m} : MessageOK(x)'
           /\ \A q \in S : TaskOK(q)'
<1>1. ASSUME NEW x \in Messages \ {m} PROVE MessageOK(x)'
  <2>1. MessageOK(x)
    BY DEF LocalInv
  <2> QED
    BY <2>1 DEF Untouched, MessageOK, Counted
<1>2. ASSUME NEW q \in S, task[q] \in Handling PROVE TaskOK(q)'
  <2>1. /\ msgId[q] \in Messages \ Lined /\ create[msgId[q]] \in Ready
        /\ Reckoned(task[q], msgId[q], retry[q])
        /\ \A r \in Tasks \ {q} : msgId[r] # msgId[q]
    BY <1>2 DEF LocalInv, TaskOK
  <2>2. msgId[q] \in Messages \ {m}
    BY <2>1
  <2>3. /\ task'[q] = task[q] /\ msgId'[q] = msgId[q] /\ retry'[q] = retry[q]
        /\ hash'[msgId[q]] = hash[msgId[q]] /\ sends'[msgId[q]] = sends[msgId[q]]
        /\ create'[msgId[q]] = create[msgId[q]] /\ msgId[q] \notin Lined'
    BY <2>1, <2>2 DEF Untouched
  <2>4. Reckoned(task[q], msgId[q], retry[q])'
    BY <2>1, <2>3 DEF Reckoned, Counted
  <2>5. ASSUME NEW r \in Tasks \ {q} PROVE msgId'[r] # msgId'[q]
    <3>1. CASE r \in S
      BY <2>1, <2>3, <3>1 DEF Untouched
    <3>2. CASE r \notin S
      BY <2>2, <2>3, <3>2, LocalAssumption
    <3> QED
      BY <3>1, <3>2
  <2> QED
    BY <1>2, <2>1, <2>3, <2>4, <2>5 DEF TaskOK
<1>3. ASSUME NEW q \in S, task[q] \notin Handling PROVE TaskOK(q)'
  BY <1>3 DEF LocalInv, TaskOK, Untouched
<1> QED
  BY <1>1, <1>2, <1>3

\* A task whose hands become empty, with what it does to its message m.
LEMMA LetsGo ==
    ASSUME LocalInv, NEW m, NEW p \in Tasks, Untouched(m, Tasks \ {p}),
           \A q \in Tasks \ {p} : msgId[q] # m,
           task'[p] \notin Handling, msgId'[p] = NoMessage,
           m \in Messages => MessageOK(m)',
           LocalTypeOK', Distinct(pending')
    PROVE  LocalInv'
<1>1. /\ \A x \in Messages \ {m} : MessageOK(x)'
      /\ \A q \in Tasks \ {p} : TaskOK(q)'
  BY UntouchedKept
<1>2. TaskOK(p)'
  BY DEF TaskOK
<1> QED
  BY <1>1, <1>2 DEF LocalInv, Distinct

\* A task that goes on with its message m.
LEMMA GoesOn ==
    ASSUME LocalInv, NEW m \in Messages, NEW p \in Tasks, Untouched(m, Tasks \ {p}),
           \A q \in Tasks \ {p} : msgId[q] # m,
           task'[p] \in Handling, msgId'[p] = m,
           m \notin Lined', create'[m] \in Ready, Reckoned(task[p], m, retry[p])',
           MessageOK(m)', LocalTypeOK', Distinct(pending')
    PROVE  LocalInv'
<1>1. /\ \A x \in Messages \ {m} : MessageOK(x)'
      /\ \A q \in Tasks \ {p} : TaskOK(q)'
  BY UntouchedKept
<1>2. \A q \in Tasks \ {p} : msgId'[q] # m
  BY DEF Untouched
<1>3. TaskOK(p)'
  BY <1>2 DEF TaskOK
<1> QED
  BY <1>1, <1>3 DEF LocalInv, Distinct

\* create_local_message: the message is on no list and in nobody's hands.
LEMMA CreateKeeps ==
    ASSUME LocalInv, NEW m \in Messages, CreateHset(m) \/ CreateExpire(m) \/ CreateRpush(m)
    PROVE  LocalInv'
<1>1. create[m] \in {"hset", "expire", "rpush"} /\ m \notin Lined
  BY DEF CreateHset, CreateExpire, CreateRpush, CreateStep, LocalInv, MessageOK, Ready
<1>2. \A q \in Tasks : msgId[q] # m
  BY <1>1, LocalAssumption DEF LocalInv, TaskOK, Ready
<1>3. MessageOK(m) /\ LocalTypeOK /\ Distinct(pending)
  BY DEF LocalInv
<1>4. /\ UNCHANGED <<task, turns, msgId, retry, sends, crashes, dead>>
      /\ errors' \in Nat
  BY <1>3 DEF CreateHset, CreateExpire, CreateRpush, CreateStep, Call, Fault, LocalTypeOK, taskVars,
              lists, redisVars
<1>5. /\ create' \in [Messages -> {"hset", "expire", "rpush"} \union Ready]
      /\ \A x \in Messages \ {m} : create'[x] = create[x]
  BY <1>3 DEF CreateHset, CreateExpire, CreateRpush, CreateStep, Call, LocalTypeOK, Ready
<1>6. /\ create'[m] \in {"hset", "expire", "rpush"} \union Ready
      /\ create[m] = "rpush" => create'[m] \in Ready
      /\ create[m] # "hset" => hash' = hash
  BY <1>3 DEF CreateHset, CreateExpire, CreateRpush, CreateStep, Call, LocalTypeOK, Ready, redisVars
<1>7. \/ pending' = pending
      \/ pending' = Append(pending, m) /\ create[m] = "rpush"
  BY DEF CreateHset, CreateExpire, CreateRpush, CreateStep, Call, redisVars, lists
<1>8. hash' = hash \/ SetStatus(m, "pending")
  BY DEF CreateHset, CreateExpire, CreateRpush, CreateStep, Call, redisVars
<1>9. /\ hash' \in [Messages -> [status : {"none", "pending"} \union Final, retries : Nat]]
      /\ hash'[m].retries = hash[m].retries
      /\ hash'[m].status \in {hash[m].status, "pending"}
      /\ \A x \in Messages \ {m} : hash'[x] = hash[x]
  BY <1>3, <1>8, StatusType DEF LocalTypeOK, Final
<1>10. /\ pending' \in Seq(Messages) /\ Distinct(pending')
       /\ Lined' = Lined \/ (Lined' = Lined \union {m} /\ create[m] = "rpush")
  <2>1. CASE pending' = pending
    BY <1>3, <2>1 DEF LocalTypeOK, Lined
  <2>2. CASE pending' = Append(pending, m) /\ create[m] = "rpush"
    <3>1. pending \in Seq(Messages) /\ m \notin ToSet(pending)
      BY <1>1, <1>3 DEF LocalTypeOK, Lined
    <3>2. /\ Append(pending, m) \in Seq(Messages) /\ Distinct(Append(pending, m))
          /\ ToSet(Append(pending, m)) = ToSet(pending) \union {m}
      BY <1>3, <3>1, AppendDistinct
    <3> QED
      BY <2>2, <3>2, Zenon DEF Lined
  <2> QED
    BY <1>7, <2>1, <2>2
<1>11. LocalTypeOK'
  BY <1>3, <1>4, <1>5, <1>9, <1>10 DEF LocalTypeOK
<1>12. Untouched(m, Tasks)
  BY <1>4, <1>5, <1>9, <1>10 DEF Untouched
<1>13. MessageOK(m)'
  <2>1. sends[m] = 0 /\ hash[m].retries = 0 /\ hash[m].status \notin Final
    BY <1>1, <1>3 DEF MessageOK, Ready
  <2>2. sends'[m] = 0 /\ hash'[m].retries = 0 /\ hash'[m].status \notin Final
    BY <1>4, <1>9, <2>1 DEF Final
  <2>3. /\ m \in Lined' => create'[m] \in Ready
        /\ m \in Lined' \/ create'[m] \in {"expire", "rpush"} => hash'[m].status = "pending"
    <3>1. create'[m] \in {"expire", "rpush"} \/ create[m] = "rpush" => hash'[m].status = "pending"
      <4>1. CASE create[m] = "hset"
        <5>1. create'[m] \in {"expire", "rpush"} => SetStatus(m, "pending")
          BY <1>3, <4>1
          DEF CreateHset, CreateExpire, CreateRpush, CreateStep, Call, LocalTypeOK
        <5> QED
          BY <1>3, <4>1, <5>1, StatusType DEF Final
      <4>2. CASE create[m] # "hset"
        BY <1>1, <1>3, <1>6, <4>2 DEF MessageOK
      <4> QED
        BY <4>1, <4>2
    <3> QED
      BY <1>1, <1>6, <1>10, <3>1
  <2> QED
    BY <2>2, <2>3, LocalAssumption DEF MessageOK, Counted
<1> QED
  BY <1>2, <1>10, <1>11, <1>12, <1>13, UntouchedKept DEF LocalInv, Distinct

\* What a task's actions leave alone in the other tasks.
LEMMA TaskFrame ==
    ASSUME LocalTypeOK, NEW p \in Tasks, Process(p) \/ TaskStep(p) \/ TaskDies(p)
    PROVE  /\ create' = create
           /\ \A q \in Tasks \ {p} : task'[q] = task[q] /\ msgId'[q] = msgId[q] /\ retry'[q] = retry[q]
<1> USE DEF LocalTypeOK, Drop, Move
<1>1. CASE Process(p)
  BY <1>1 DEF Process
<1>2. CASE TaskDies(p)
  BY <1>2 DEF TaskDies, Return
<1>3. CASE PopMessage(p)
  BY <1>3 DEF PopMessage, Call, Return
<1>4. CASE EndProcess(p)
  BY <1>4 DEF EndProcess, Return
<1>5. CASE Load(p)
  BY <1>5 DEF Load, Call, Return, NextMessage
<1>6. CASE Send(p)
  BY <1>6 DEF Send
<1>7. CASE MarkSent(p) \/ CountRetry(p) \/ Requeue(p) \/ MarkFailed(p) \/ Bury(p)
  BY <1>7 DEF MarkSent, CountRetry, Requeue, MarkFailed, Bury, HandStep, Call, Return, NextMessage, StayAt
<1> QED
  BY <1>1, <1>2, <1>3, <1>4, <1>5, <1>6, <1>7 DEF TaskStep

\* The variables whose type does not depend on the case at hand.
LEMMA TaskTypes ==
    ASSUME LocalTypeOK, NEW p \in Tasks, Process(p) \/ TaskStep(p) \/ TaskDies(p)
    PROVE  /\ turns' \in [Tasks -> Nat]
           /\ errors' \in Nat /\ crashes' \in Nat
<1>1. Limit \in Nat
  BY LocalAssumption
<1>2. \/ turns' = turns
      \/ turns' = [turns EXCEPT ![p] = Limit]
      \/ turns' = [turns EXCEPT ![p] = turns[p]]
      \/ turns' = [turns EXCEPT ![p] = 0]
      \/ turns[p] > 0 /\ turns' = [turns EXCEPT ![p] = turns[p] - 1]
  BY DEF Process, TaskDies, TaskStep, PopMessage, EndProcess, Load, Send, MarkSent, CountRetry, Requeue,
         MarkFailed, Bury, HandStep, Call, Return, NextMessage, StayAt, Drop
<1>3. turns[p] \in Nat
  BY DEF LocalTypeOK
<1>4. turns' \in [Tasks -> Nat]
  <2>1. turns[p] > 0 => turns[p] - 1 \in Nat
    BY <1>3
  <2>2. turns' = turns \/ \E n \in Nat : turns' = [turns EXCEPT ![p] = n]
    BY <1>1, <1>2, <1>3, <2>1
  <2> QED
    BY <2>2 DEF LocalTypeOK
<1>5. errors' = errors \/ errors' = errors + 1
  BY DEF Process, TaskDies, TaskStep, PopMessage, EndProcess, Load, Send, MarkSent, CountRetry, Requeue,
         MarkFailed, Bury, HandStep, Call, Fault
<1>6. crashes' = crashes \/ crashes' = crashes + 1
  BY DEF Process, TaskDies, TaskStep, PopMessage, EndProcess, Load, Send, MarkSent, CountRetry, Requeue,
         MarkFailed, Bury, HandStep, Death
<1> QED
  BY <1>4, <1>5, <1>6 DEF LocalTypeOK

\* Begin, end and death of a task, and whatever else only empties its hands.
LEMMA OnlyLetsGo ==
    ASSUME LocalInv, NEW p \in Tasks, Process(p) \/ TaskStep(p) \/ TaskDies(p),
           NEW place \in {"off", "pop"}, NEW n, Drop(p, place, n),
           UNCHANGED <<pending, hash, sends>>, dead' \in Seq(Messages)
    PROVE  LocalInv'
<1>1. LocalTypeOK /\ Distinct(pending)
  BY DEF LocalInv
<1>2. task'[p] \notin Handling /\ msgId'[p] = NoMessage
  BY <1>1 DEF Drop, Move, Handling, LocalTypeOK
<1>3. LocalTypeOK'
  <2>1. /\ task' \in [Tasks -> {"off", "pop"} \union Handling]
        /\ msgId' \in [Tasks -> Messages \union {NoMessage}]
        /\ retry' \in [Tasks -> Nat]
    BY <1>1 DEF Drop, Move, LocalTypeOK
  <2> QED
    BY <1>1, <2>1, TaskFrame, TaskTypes DEF LocalTypeOK
<1>4. Untouched(NoMessage, Tasks \ {p})
  BY <1>1, TaskFrame DEF Untouched, Lined
<1>5. \A x \in Messages : MessageOK(x)'
  <2>1. create' = create
    BY <1>1, TaskFrame
  <2> QED
    BY <2>1 DEF LocalInv, MessageOK, Counted, Lined
<1>6. \A q \in Tasks \ {p} : TaskOK(q)'
  <2>1. ASSUME NEW q \in Tasks \ {p}, task[q] \in Handling PROVE TaskOK(q)'
    <3>1. /\ msgId[q] \in Messages \ Lined /\ create[msgId[q]] \in Ready
          /\ Reckoned(task[q], msgId[q], retry[q])
          /\ \A r \in Tasks \ {q} : msgId[r] # msgId[q]
      BY <2>1 DEF LocalInv, TaskOK
    <3>2. /\ \A r \in Tasks \ {p} : task'[r] = task[r] /\ msgId'[r] = msgId[r] /\ retry'[r] = retry[r]
          /\ create' = create
      BY <1>1, TaskFrame
    <3>3. \A r \in Tasks \ {q} : msgId'[r] # msgId'[q]
      BY <1>2, <3>1, <3>2, LocalAssumption
    <3>4. Reckoned(task[q], msgId[q], retry[q])'
      BY <3>1, <3>2 DEF Reckoned, Counted
    <3> QED
      BY <2>1, <3>1, <3>2, <3>3, <3>4 DEF TaskOK, Lined
  <2>2. ASSUME NEW q \in Tasks \ {p}, task[q] \notin Handling PROVE TaskOK(q)'
    BY <1>1, <2>2, TaskFrame DEF LocalInv, TaskOK
  <2> QED
    BY <2>1, <2>2
<1> QED
  BY <1>1, <1>2, <1>3, <1>5, <1>6 DEF LocalInv, TaskOK, Distinct

\* The message in a task's hands.
LEMMA InHand ==
    ASSUME LocalInv, NEW p \in Tasks, task[p] \in Handling
    PROVE  /\ msgId[p] \in Messages \ Lined /\ create[msgId[p]] \in Ready
           /\ Reckoned(task[p], msgId[p], retry[p])
           /\ \A q \in Tasks \ {p} : msgId[q] # msgId[p]
           /\ MessageOK(msgId[p])
           /\ hash[msgId[p]].retries \in Nat /\ sends[msgId[p]] \in Nat /\ retry[p] \in Nat
<1>1. /\ msgId[p] \in Messages \ Lined /\ create[msgId[p]] \in Ready
      /\ Reckoned(task[p], msgId[p], retry[p])
      /\ \A q \in Tasks \ {p} : msgId[q] # msgId[p]
  BY DEF LocalInv, TaskOK
<1> QED
  BY <1>1 DEF LocalInv, LocalTypeOK

LEMMA LoadKeeps == ASSUME LocalInv, NEW p \in Tasks, Load(p) PROVE LocalInv'
<1>1. PICK m \in Messages :
        /\ m = msgId[p] /\ m \notin Lined /\ create[m] \in Ready
        /\ Reckoned("load", m, retry[p])
        /\ \A q \in Tasks \ {p} : msgId[q] # m
        /\ MessageOK(m)
        /\ hash[m].retries \in Nat
  BY InHand DEF Load, Handling
<1>2. LocalTypeOK /\ Distinct(pending) /\ TaskStep(p)
  BY DEF LocalInv, TaskStep
<1>3. UNCHANGED <<pending, dead, hash, sends>>
  BY DEF Load, Call, redisVars
<1>4. \/ Return(p) \/ NextMessage(p)
      \/ Move(p, "send") /\ retry' = [retry EXCEPT ![p] = hash[m].retries] /\ UNCHANGED msgId
  BY <1>1 DEF Load, Call
<1>5. CASE Return(p) \/ NextMessage(p)
  BY <1>2, <1>3, <1>5, OnlyLetsGo DEF Return, NextMessage, LocalTypeOK
<1>6. CASE Move(p, "send") /\ retry' = [retry EXCEPT ![p] = hash[m].retries] /\ UNCHANGED msgId
  <2>1. task'[p] = "send" /\ retry'[p] = hash[m].retries /\ msgId'[p] = m
    BY <1>1, <1>2, <1>6 DEF Move, LocalTypeOK
  <2>2. LocalTypeOK'
    <3>1. /\ task' \in [Tasks -> {"off", "pop"} \union Handling]
          /\ retry' \in [Tasks -> Nat]
      BY <1>1, <1>2, <1>6 DEF Move, LocalTypeOK, Handling
    <3> QED
      BY <1>2, <1>3, <1>6, <3>1, TaskFrame, TaskTypes DEF LocalTypeOK
  <2>3. create' = create
    BY <1>2, TaskFrame
  <2>4. Untouched(m, Tasks \ {p})
    BY <1>2, <1>3, <2>3, TaskFrame DEF Untouched, Lined
  <2>5. Reckoned(task[p], m, retry[p])'
    BY <1>1, <1>3, <2>1 DEF Reckoned, Counted
  <2>6. MessageOK(m)'
    BY <1>1, <1>3, <2>3 DEF MessageOK, Counted, Lined
  <2>7. m \notin Lined' /\ create'[m] \in Ready /\ Distinct(pending')
    BY <1>1, <1>2, <1>3, <2>3 DEF Lined
  <2> QED
    BY <1>1, <2>1, <2>2, <2>4, <2>5, <2>6, <2>7, GoesOn DEF Handling
<1> QED
  BY <1>4, <1>5, <1>6

LEMMA Dropped ==
    ASSUME LocalTypeOK, NEW p \in Tasks, NEW place \in {"off", "pop"}, NEW n, Drop(p, place, n)
    PROVE  /\ task' \in [Tasks -> {"off", "pop"} \union Handling] /\ task'[p] \notin Handling
           /\ msgId' \in [Tasks -> Messages \union {NoMessage}] /\ msgId'[p] = NoMessage
           /\ retry' \in [Tasks -> Nat]
<1> QED
  BY DEF Drop, Move, LocalTypeOK, Handling

LEMMA Moved ==
    ASSUME LocalTypeOK, NEW p \in Tasks, NEW place \in Handling, Move(p, place)
    PROVE  task' \in [Tasks -> {"off", "pop"} \union Handling] /\ task'[p] = place
<1> QED
  BY DEF Move, LocalTypeOK

LEMMA SendKeeps == ASSUME LocalInv, NEW p \in Tasks, Send(p) PROVE LocalInv'
<1>1. PICK m \in Messages :
        /\ m = msgId[p] /\ m \notin Lined /\ create[m] \in Ready
        /\ Reckoned("send", m, retry[p])
        /\ \A q \in Tasks \ {p} : msgId[q] # m
        /\ sends[m] \in Nat /\ retry[p] \in Nat
  BY InHand DEF Send, Handling
<1>2. LocalTypeOK /\ Distinct(pending) /\ TaskStep(p)
  BY DEF LocalInv, TaskStep
<1>3. UNCHANGED <<pending, dead, hash, create, msgId, retry>>
  BY DEF Send, redisVars
<1>4. PICK place \in {"sent", "retry", "fail"} :
        Move(p, place) /\ (place # "sent" => (place = "retry" <=> retry[p] + 1 <= MaxRetry))
  BY DEF Send
<1>5. task' \in [Tasks -> {"off", "pop"} \union Handling] /\ task'[p] = place
  BY <1>2, <1>4, Moved DEF Handling
<1>6. /\ sends' \in [Messages -> Nat] /\ sends'[m] = sends[m] + 1
      /\ \A x \in Messages \ {m} : sends'[x] = sends[x]
  BY <1>1, <1>2 DEF Send, LocalTypeOK
<1>7. LocalTypeOK'
  BY <1>2, <1>3, <1>5, <1>6, TaskTypes DEF LocalTypeOK
<1>8. Untouched(m, Tasks \ {p})
  BY <1>2, <1>3, <1>6, TaskFrame DEF Untouched, Lined
<1>9. sends[m] = retry[p] /\ retry[p] <= MaxRetry /\ hash[m].status = "pending"
  BY <1>1 DEF Reckoned, Counted
<1>10. Reckoned(task[p], m, retry[p])'
  BY <1>1, <1>3, <1>4, <1>5, <1>6, <1>9, LocalAssumption DEF Reckoned
<1>11. MessageOK(m)'
  BY <1>1, <1>3, <1>6, <1>9, LocalAssumption DEF MessageOK, Lined, Ready
<1>12. m \notin Lined' /\ create'[m] \in Ready /\ Distinct(pending') /\ msgId'[p] = m
  BY <1>1, <1>2, <1>3 DEF Lined
<1> QED
  BY <1>1, <1>5, <1>7, <1>8, <1>10, <1>11, <1>12, GoesOn DEF Handling

\* The hash of the message in hand is changed: its status or its retries.
LEMMA HashKeeps ==
    ASSUME LocalInv, NEW p \in Tasks, MarkSent(p) \/ CountRetry(p) \/ MarkFailed(p)
    PROVE  LocalInv'
<1>1. PICK m \in Messages :
        /\ m = msgId[p] /\ m \notin Lined /\ create[m] \in Ready
        /\ Reckoned(task[p], m, retry[p])
        /\ \A q \in Tasks \ {p} : msgId[q] # m
        /\ sends[m] \in Nat /\ retry[p] \in Nat /\ MessageOK(m)
  BY InHand DEF MarkSent, CountRetry, MarkFailed, HandStep, Handling
<1>2. LocalTypeOK /\ Distinct(pending) /\ TaskStep(p)
  BY DEF LocalInv, TaskStep
<1>3. UNCHANGED <<pending, dead, create, sends>>
  BY DEF MarkSent, CountRetry, MarkFailed, HandStep, Call, lists, redisVars
<1>4. CASE hash' = hash /\ Return(p)
  BY <1>2, <1>3, <1>4, OnlyLetsGo DEF Return, LocalTypeOK
<1>5. CASE /\ SetStatus(m, "sent") \/ SetStatus(m, "failed") \/ hash' = [hash EXCEPT ![m].retries = retry[p] + 1]
           /\ Return(p) \/ NextMessage(p)
  <2>1. PICK place, n : place \in {"off", "pop"} /\ Drop(p, place, n)
    BY <1>5 DEF Return, NextMessage
  <2>2. /\ task' \in [Tasks -> {"off", "pop"} \union Handling] /\ task'[p] \notin Handling
        /\ msgId' \in [Tasks -> Messages \union {NoMessage}] /\ msgId'[p] = NoMessage
        /\ retry' \in [Tasks -> Nat]
    BY <1>2, <2>1, Dropped
  <2>3. retry[p] + 1 \in Nat
    BY <1>1
  <2>4. /\ hash' \in [Messages -> [status : {"none", "pending"} \union Final, retries : Nat]]
        /\ \A x \in Messages \ {m} : hash'[x] = hash[x]
    BY <1>2, <1>5, <2>3, StatusType, RetriesType DEF Final
  <2>5. LocalTypeOK'
    BY <1>2, <1>3, <2>2, <2>4, TaskTypes DEF LocalTypeOK
  <2>6. Untouched(m, Tasks \ {p})
    BY <1>2, <1>3, <2>4, TaskFrame DEF Untouched, Lined
  <2>7. MessageOK(m)'
    BY <1>1, <1>3 DEF MessageOK, Lined, Ready
  <2> QED
    BY <1>1, <1>2, <1>3, <2>2, <2>5, <2>6, <2>7, LetsGo
<1>6. CASE /\ task[p] = "retry" /\ hash' = [hash EXCEPT ![m].retries = retry[p] + 1]
           /\ StayAt(p, "requeue")
  <2>1. task' \in [Tasks -> {"off", "pop"} \union Handling] /\ task'[p] = "requeue"
    BY <1>2, <1>6, Moved DEF StayAt, Handling
  <2>2. retry[p] + 1 \in Nat
    BY <1>1
  <2>3. /\ hash' \in [Messages -> [status : {"none", "pending"} \union Final, retries : Nat]]
        /\ hash'[m].retries = retry[p] + 1 /\ hash'[m].status = hash[m].status
        /\ \A x \in Messages \ {m} : hash'[x] = hash[x]
    BY <1>2, <1>6, <2>2, RetriesType
  <2>4. UNCHANGED <<msgId, retry>>
    BY <1>6 DEF StayAt
  <2>5. LocalTypeOK'
    BY <1>2, <1>3, <2>1, <2>3, <2>4, TaskTypes DEF LocalTypeOK
  <2>6. Untouched(m, Tasks \ {p})
    BY <1>2, <1>3, <2>3, TaskFrame DEF Untouched, Lined
  <2>7. Reckoned(task[p], m, retry[p])'
    BY <1>1, <1>3, <1>6, <2>1, <2>3 DEF Reckoned, Counted
  <2>8. MessageOK(m)' /\ m \notin Lined' /\ create'[m] \in Ready /\ Distinct(pending') /\ msgId'[p] = m
    BY <1>1, <1>2, <1>3, <2>4 DEF MessageOK, Lined, Ready
  <2> QED
    BY <1>1, <2>1, <2>5, <2>6, <2>7, <2>8, GoesOn DEF Handling
<1>7. CASE SetStatus(m, "failed") /\ StayAt(p, "bury")
  <2>1. task' \in [Tasks -> {"off", "pop"} \union Handling] /\ task'[p] = "bury"
    BY <1>2, <1>7, Moved DEF StayAt, Handling
  <2>2. /\ hash' \in [Messages -> [status : {"none", "pending"} \union Final, retries : Nat]]
        /\ hash'[m].status = "failed"
        /\ \A x \in Messages \ {m} : hash'[x] = hash[x]
    BY <1>2, <1>7, StatusType DEF Final
  <2>3. UNCHANGED <<msgId, retry>>
    BY <1>7 DEF StayAt
  <2>4. LocalTypeOK'
    BY <1>2, <1>3, <2>1, <2>2, <2>3, TaskTypes DEF LocalTypeOK
  <2>5. Untouched(m, Tasks \ {p})
    BY <1>2, <1>3, <2>2, TaskFrame DEF Untouched, Lined
  <2>6. Reckoned(task[p], m, retry[p])'
    BY <2>1, <2>2 DEF Reckoned
  <2>7. MessageOK(m)' /\ m \notin Lined' /\ create'[m] \in Ready /\ Distinct(pending') /\ msgId'[p] = m
    BY <1>1, <1>2, <1>3, <2>3 DEF MessageOK, Lined, Ready
  <2> QED
    BY <1>1, <2>1, <2>4, <2>5, <2>6, <2>7, GoesOn DEF Handling
<1> QED
  <2>1. CASE MarkSent(p)
    BY <1>1, <1>4, <1>5, <2>1 DEF MarkSent, HandStep, Call, redisVars
  <2>2. CASE CountRetry(p)
    BY <1>1, <1>4, <1>5, <1>6, <2>2 DEF CountRetry, HandStep, Call, redisVars
  <2>3. CASE MarkFailed(p)
    BY <1>1, <1>4, <1>5, <1>7, <2>3 DEF MarkFailed, HandStep, Call, redisVars
  <2> QED
    BY <2>1, <2>2, <2>3

LEMMA RequeueKeeps == ASSUME LocalInv, NEW p \in Tasks, Requeue(p) PROVE LocalInv'
<1>1. PICK m \in Messages :
        /\ m = msgId[p] /\ m \notin Lined /\ create[m] \in Ready
        /\ Reckoned("requeue", m, retry[p])
        /\ \A q \in Tasks \ {p} : msgId[q] # m
        /\ MessageOK(m)
  BY InHand DEF Requeue, HandStep, Handling
<1>2. LocalTypeOK /\ Distinct(pending) /\ TaskStep(p)
  BY DEF LocalInv, TaskStep
<1>3. UNCHANGED <<dead, hash, create, sends>>
  BY DEF Requeue, HandStep, Call, redisVars
<1>4. PICK place, n : place \in {"off", "pop"} /\ Drop(p, place, n)
  BY DEF Requeue, HandStep, Call, Return, NextMessage
<1>5. CASE pending' = pending
  BY <1>2, <1>3, <1>4, <1>5, OnlyLetsGo DEF LocalTypeOK
<1>6. CASE pending' = Append(pending, m)
  <2>1. /\ pending' \in Seq(Messages) /\ Distinct(pending')
        /\ Lined' = Lined \union {m}
    <3>1. /\ Append(pending, m) \in Seq(Messages) /\ Distinct(Append(pending, m))
          /\ ToSet(Append(pending, m)) = ToSet(pending) \union {m}
      BY <1>1, <1>2, AppendDistinct DEF Lined, LocalTypeOK
    <3> QED
      BY <1>6, <3>1, Zenon DEF Lined
  <2>2. /\ task' \in [Tasks -> {"off", "pop"} \union Handling] /\ task'[p] \notin Handling
        /\ msgId' \in [Tasks -> Messages \union {NoMessage}] /\ msgId'[p] = NoMessage
        /\ retry' \in [Tasks -> Nat]
    BY <1>2, <1>4, Dropped
  <2>3. LocalTypeOK'
    BY <1>2, <1>3, <2>1, <2>2, TaskTypes DEF LocalTypeOK
  <2>4. Untouched(m, Tasks \ {p})
    BY <1>2, <1>3, <2>1, TaskFrame DEF Untouched
  <2>5. MessageOK(m)'
    BY <1>1, <1>3 DEF MessageOK, Reckoned, Counted
  <2> QED
    BY <1>1, <2>1, <2>2, <2>3, <2>4, <2>5, LetsGo
<1> QED
  BY <1>1, <1>5, <1>6 DEF Requeue, HandStep, Call, redisVars

LEMMA PopKeepsInv == ASSUME LocalInv, NEW p \in Tasks, PopMessage(p) PROVE LocalInv'
<1>1. LocalTypeOK /\ Distinct(pending) /\ TaskStep(p)
  BY DEF LocalInv, TaskStep
<1>2. UNCHANGED <<dead, hash, create, sends>> /\ pending # <<>>
  BY DEF PopMessage
<1>3. PICK m \in Messages :
        /\ m = Head(pending) /\ m \in Lined
        /\ Tail(pending) \in Seq(Messages) /\ Distinct(Tail(pending))
        /\ ToSet(Tail(pending)) = Lined \ {m}
  BY <1>1, <1>2, TailDistinct DEF Lined, LocalTypeOK
<1>4. /\ create[m] \in Ready /\ hash[m].status = "pending" /\ Counted(m)
      /\ \A q \in Tasks : msgId[q] # m
      /\ MessageOK(m)
  BY <1>3, LocalAssumption DEF LocalInv, MessageOK, TaskOK
<1>5. CASE pending' = pending /\ Return(p)
  BY <1>1, <1>2, <1>5, OnlyLetsGo DEF Return, LocalTypeOK
<1>6. ASSUME pending' = Tail(pending)
      PROVE  /\ pending' \in Seq(Messages) /\ Distinct(pending') /\ Lined' = Lined \ {m}
             /\ Untouched(m, Tasks \ {p})
             /\ MessageOK(m)'
  <2>1. pending' \in Seq(Messages) /\ Distinct(pending') /\ Lined' = Lined \ {m}
    BY <1>3, <1>6, Zenon DEF Lined
  <2>2. Untouched(m, Tasks \ {p})
    BY <1>1, <1>2, <2>1, TaskFrame DEF Untouched
  <2>3. MessageOK(m)'
    BY <1>2, <1>4, <2>1 DEF MessageOK
  <2> QED
    BY <2>1, <2>2, <2>3
<1>7. CASE pending' = Tail(pending) /\ Return(p)
  <2>1. /\ task' \in [Tasks -> {"off", "pop"} \union Handling] /\ task'[p] \notin Handling
        /\ msgId' \in [Tasks -> Messages \union {NoMessage}] /\ msgId'[p] = NoMessage
        /\ retry' \in [Tasks -> Nat]
    BY <1>1, <1>7, Dropped DEF Return
  <2>2. LocalTypeOK'
    BY <1>1, <1>2, <1>6, <1>7, <2>1, TaskTypes DEF LocalTypeOK
  <2> QED
    BY <1>4, <1>6, <1>7, <2>1, <2>2, LetsGo
<1>8. CASE pending' = Tail(pending) /\ Move(p, "load") /\ msgId' = [msgId EXCEPT ![p] = m] /\ UNCHANGED retry
  <2>1. task' \in [Tasks -> {"off", "pop"} \union Handling] /\ task'[p] = "load"
    BY <1>1, <1>8, Moved DEF Handling
  <2>2. msgId' \in [Tasks -> Messages \union {NoMessage}] /\ msgId'[p] = m
    BY <1>1, <1>8 DEF LocalTypeOK
  <2>3. LocalTypeOK'
    BY <1>1, <1>2, <1>6, <1>8, <2>1, <2>2, TaskTypes DEF LocalTypeOK
  <2>4. Reckoned(task[p], m, retry[p])'
    BY <1>2, <1>4, <2>1 DEF Reckoned, Counted
  <2>5. m \notin Lined' /\ create'[m] \in Ready
    BY <1>2, <1>4, <1>6, <1>8
  <2> QED
    BY <1>4, <1>6, <1>8, <2>1, <2>2, <2>3, <2>4, <2>5, GoesOn DEF Handling
<1> QED
  BY <1>3, <1>5, <1>7, <1>8 DEF PopMessage, Call

LEMMA LocalInvariant == LocalSpec => []LocalInv
<1>1. ASSUME LocalInit PROVE LocalInv
  <2>1. LocalTypeOK
    BY <1>1 DEF LocalInit, NoFaults, LocalTypeOK, Final, Ready, Handling
  <2>2. Distinct(pending) /\ Lined = {}
    BY <1>1 DEF LocalInit, Distinct, Lined, ToSet
  <2>3. ASSUME NEW m \in Messages PROVE MessageOK(m)
    BY <1>1, <2>2, LocalAssumption DEF LocalInit, MessageOK, Ready, Final
  <2>4. ASSUME NEW p \in Tasks PROVE TaskOK(p)
    BY <1>1 DEF LocalInit, TaskOK, Handling
  <2> QED
    BY <2>1, <2>2, <2>3, <2>4 DEF LocalInv
<1>2. ASSUME LocalInv, LocalNext PROVE LocalInv'
  <2>1. ASSUME NEW m \in Messages, CreateHset(m) \/ CreateExpire(m) \/ CreateRpush(m) PROVE LocalInv'
    BY <1>2, <2>1, CreateKeeps
  <2>2. ASSUME NEW p \in Tasks, Process(p) \/ EndProcess(p) \/ TaskDies(p) \/ Bury(p) PROVE LocalInv'
    <3>1. UNCHANGED <<pending, hash, sends>>
      BY <2>2 DEF Process, EndProcess, TaskDies, Bury, HandStep, Call, redisVars
    <3>2. PICK place, n : place \in {"off", "pop"} /\ Drop(p, place, n)
      BY <2>2 DEF Process, EndProcess, TaskDies, Bury, HandStep, Call, Return, NextMessage
    <3>3. dead' \in Seq(Messages)
      <4>1. Bury(p) => msgId[p] \in Messages
        BY <1>2, InHand DEF Bury, HandStep, Handling
      <4>2. dead' = dead \/ (Bury(p) /\ dead' = Append(dead, msgId[p]))
        BY <2>2 DEF Process, EndProcess, TaskDies, Bury, HandStep, Call, redisVars
      <4>3. dead \in Seq(Messages)
        BY <1>2 DEF LocalInv, LocalTypeOK
      <4> QED
        BY <4>1, <4>2, <4>3
    <3>4. Process(p) \/ TaskStep(p) \/ TaskDies(p)
      BY <2>2 DEF TaskStep
    <3> QED
      BY <1>2, <3>1, <3>2, <3>3, <3>4, OnlyLetsGo
  <2>3. ASSUME NEW p \in Tasks, TaskStep(p) PROVE LocalInv'
    BY <1>2, <2>2, <2>3, PopKeepsInv, LoadKeeps, SendKeeps, HashKeeps, RequeueKeeps DEF TaskStep
  <2> QED
    BY <1>2, <2>1, <2>2, <2>3 DEF LocalNext
<1>3. ASSUME LocalInv, UNCHANGED localVars PROVE LocalInv'
  BY <1>3 DEF localVars, LocalInv, LocalTypeOK, Distinct, MessageOK, TaskOK, Reckoned, Counted, Lined
<1> QED
  BY <1>1, <1>2, <1>3, PTL DEF LocalSpec

\* Type correctness of the local message table and its tasks.
THEOREM LocalTypeCorrectness == LocalSpec => []LocalTypeOK
<1>1. LocalInv => LocalTypeOK
  BY DEF LocalInv
<1> QED
  BY <1>1, LocalInvariant, PTL

\* For any number of messages and tasks and whatever fails or dies: a message
\* that is marked as sent or failed is not sent again, and none is sent more
\* than max_retry times after its first failure.
THEOREM SettledForGood == LocalSpec => []SettledStaysSettled
<1>1. ASSUME LocalInv PROVE SettledStaysSettled
  <2>1. ASSUME NEW m \in Messages PROVE sends[m] <= MaxRetry + 1
    BY <1>1 DEF LocalInv, MessageOK
  <2>2. ASSUME NEW m \in Messages, hash[m].status \in {"sent", "failed"}
        PROVE  m \notin ToSet(pending) /\ \A p \in Tasks : msgId[p] = m => task[p] = "bury"
    BY <1>1, <2>2, LocalAssumption DEF LocalInv, MessageOK, TaskOK, Reckoned, Lined, Final
  <2> QED
    BY <2>1, <2>2 DEF SettledStaysSettled, SendsBounded
<1> QED
  BY <1>1, LocalInvariant, PTL


-----------------------------------------------------------------------------
(***************************************************************************)
(* LocalMessages implements Delivery                                       *)
(***************************************************************************)

\* Not settled, not pending and in nobody's hands.
Loose(m) == hash[m].status \notin Final /\ m \notin Lined /\ \A p \in Tasks : msgId[p] # m

\* What the refinement mapping says of a message, by where it is.
FateTable ==
    \A m \in Messages :
        /\ hash[m].status = "sent" => Fate(m) = "done" /\ KeptBy(m) = {}
        /\ hash[m].status = "failed" => Fate(m) = "failed" /\ KeptBy(m) = {}
        /\ hash[m].status \notin Final /\ m \in Lined => Fate(m) = "queued" /\ KeptBy(m) = {}
        /\ \A p \in Tasks :
            hash[m].status \notin Final /\ msgId[p] = m => Fate(m) = "held" /\ KeptBy(m) = {p}
        /\ Loose(m) /\ create[m] \notin Ready => Fate(m) = "outside" /\ KeptBy(m) = {}
        /\ Loose(m) /\ create[m] \in Ready => Fate(m) = "lost" /\ KeptBy(m) = {}

LEMMA FateIs == LocalInv => FateTable
<1> SUFFICES ASSUME LocalInv, NEW m \in Messages
             PROVE  /\ hash[m].status = "sent" => Fate(m) = "done" /\ KeptBy(m) = {}
                    /\ hash[m].status = "failed" => Fate(m) = "failed" /\ KeptBy(m) = {}
                    /\ hash[m].status \notin Final /\ m \in Lined =>
                          Fate(m) = "queued" /\ KeptBy(m) = {}
                    /\ \A p \in Tasks :
                          hash[m].status \notin Final /\ msgId[p] = m =>
                             Fate(m) = "held" /\ KeptBy(m) = {p}
                    /\ Loose(m) /\ create[m] \notin Ready =>
                          Fate(m) = "outside" /\ KeptBy(m) = {}
                    /\ Loose(m) /\ create[m] \in Ready =>
                          Fate(m) = "lost" /\ KeptBy(m) = {}
  BY DEF FateTable
<1>1. create[m] \in {"hset", "expire", "rpush"} \union Ready
  BY DEF LocalInv, LocalTypeOK
<1>2. ASSUME NEW p \in Tasks, hash[m].status \notin Final, msgId[p] = m
      PROVE  Fate(m) = "held" /\ KeptBy(m) = {p}
  <2>1. m \notin Lined /\ \A q \in Tasks : msgId[q] = m => q = p
    BY <1>2, LocalAssumption DEF LocalInv, TaskOK
  <2>2. Fate(m) = "held"
    BY <1>2, <2>1 DEF Fate, Final, Lined
  <2>3. {q \in Tasks : msgId[q] = m} = {p}
    BY <1>2, <2>1
  <2> QED
    BY <2>2, <2>3 DEF KeptBy
<1> QED
  BY <1>1, <1>2 DEF Fate, KeptBy, Loose, Final, Ready, Lined

LEMMA FateIsNext == LocalInv' => FateTable'
  BY FateIs, PTL

\* A step that leaves a message where it is.
LEMMA Undisturbed ==
    ASSUME NEW m \in Messages,
           hash'[m].status = hash[m].status, sends'[m] = sends[m], create'[m] = create[m],
           m \in Lined' <=> m \in Lined,
           \A p \in Tasks : msgId'[p] = m <=> msgId[p] = m
    PROVE  Delivered!Same(m)
<1>1. Fate(m)' = Fate(m)
  BY DEF Fate, Lined
<1>2. KeptBy(m)' = KeptBy(m)
  BY <1>1 DEF KeptBy
<1> QED
  BY <1>1, <1>2 DEF Delivered!Same

\* A step of one task, which has m in its hands or takes it from the list, is none
\* for the others.
LEMMA OthersSame ==
    ASSUME LocalInv, NEW m, NEW p \in Tasks, Untouched(m, Tasks \ {p}),
           msgId[p] \in {m, NoMessage}, msgId'[p] \in {m, NoMessage}
    PROVE  \A x \in Messages \ {m} : Delivered!Same(x)
<1> SUFFICES ASSUME NEW x \in Messages \ {m} PROVE Delivered!Same(x)
  OBVIOUS
<1>1. \A q \in Tasks : msgId'[q] = x <=> msgId[q] = x
  BY LocalAssumption DEF Untouched
<1> QED
  BY <1>1, Undisturbed DEF Untouched

\* A message that is let go before it is settled is lost, for a reason.
LEMMA LetGoIsLost ==
    ASSUME LocalInv, LocalInv', NEW m \in Messages, NEW p \in Tasks,
           msgId[p] = m \/ m \in Lined,
           hash[m].status \notin Final, hash'[m].status \notin Final,
           UNCHANGED sends, UNCHANGED create, create[m] \in Ready, m \notin Lined',
           \A q \in Tasks : msgId'[q] # m,
           errors' + crashes' > 0
    PROVE  Delivered!Lose(m)
<1>1. FateTable /\ FateTable'
  BY FateIs, FateIsNext
<1>2. Fate(m) \in {"queued", "held"}
  BY <1>1 DEF FateTable
<1>3. Loose(m)'
  BY DEF Loose
<1>4. Fate(m)' = "lost" /\ KeptBy(m)' = {}
  BY <1>1, <1>3 DEF FateTable
<1> QED
  BY <1>2, <1>4 DEF Delivered!Lose, Delivered!Goes

\* What a step is for each message.
Follows == \A m \in Messages : Delivered!Same(m) \/ Delivered!Step(m)

\* From nowhere to the pending messages, or raised.
LEMMA CreateDelivers ==
    ASSUME LocalInv, LocalInv', NEW m \in Messages,
           CreateHset(m) \/ CreateExpire(m) \/ CreateRpush(m)
    PROVE  Follows
<1>1. FateTable /\ FateTable' /\ LocalTypeOK /\ MessageOK(m)
  BY FateIs, FateIsNext DEF LocalInv
<1>2. create[m] \in {"hset", "expire", "rpush"} /\ m \notin Lined
  BY <1>1 DEF CreateHset, CreateExpire, CreateRpush, CreateStep, MessageOK, Ready
<1>3. \A q \in Tasks : msgId[q] # m
  BY <1>2, LocalAssumption DEF LocalInv, TaskOK, Ready
<1>4. UNCHANGED <<msgId, task, retry, sends>>
  BY DEF CreateHset, CreateExpire, CreateRpush, CreateStep, taskVars
<1>5. \A x \in Messages \ {m} : create'[x] = create[x] /\ hash'[x] = hash[x]
  <2>1. hash' = hash \/ SetStatus(m, "pending")
    BY DEF CreateHset, CreateExpire, CreateRpush, CreateStep, Call, redisVars
  <2>2. \A x \in Messages \ {m} : hash'[x] = hash[x]
    BY <1>1, <2>1, StatusType DEF Final
  <2>3. \A x \in Messages \ {m} : create'[x] = create[x]
    BY <1>1 DEF CreateHset, CreateExpire, CreateRpush, CreateStep, Call, LocalTypeOK
  <2> QED
    BY <2>2, <2>3
<1>6. Lined' = Lined \/ Lined' = Lined \union {m}
  <2>1. pending' = pending \/ pending' = Append(pending, m)
    BY DEF CreateHset, CreateExpire, CreateRpush, CreateStep, Call, redisVars, lists
  <2>2. ToSet(Append(pending, m)) = ToSet(pending) \union {m}
    BY <1>1, AppendDistinct DEF LocalTypeOK
  <2> QED
    BY <2>1, <2>2, Zenon DEF Lined
<1>7. hash[m].status \notin Final /\ hash'[m].status \notin Final
  <2>1. hash' = hash \/ hash'[m].status = "pending"
    BY <1>1, StatusType
    DEF CreateHset, CreateExpire, CreateRpush, CreateStep, Call, redisVars, Final
  <2> QED
    BY <1>1, <1>2, <2>1 DEF MessageOK, Ready, Final
<1>8. Fate(m) = "outside" /\ KeptBy(m) = {}
  BY <1>1, <1>2, <1>3, <1>7 DEF FateTable, Loose, Ready
<1>9. \A x \in Messages \ {m} : Delivered!Same(x)
  BY <1>4, <1>5, <1>6, Undisturbed
<1>10. CASE m \in Lined'
  <2>1. Fate(m)' = "queued" /\ KeptBy(m)' = {}
    BY <1>1, <1>7, <1>10 DEF FateTable
  <2>2. Delivered!Offer(m)
    BY <1>4, <1>8, <2>1 DEF Delivered!Offer, Delivered!Goes
  <2> QED
    BY <1>9, <2>2 DEF Follows, Delivered!Step
<1>11. CASE m \notin Lined'
  <2>1. Loose(m)'
    BY <1>3, <1>4, <1>7, <1>11 DEF Loose
  <2>2. CASE create'[m] \notin Ready
    <3>1. Fate(m)' = "outside" /\ KeptBy(m)' = {}
      BY <1>1, <2>1, <2>2 DEF FateTable
    <3>2. Delivered!Same(m)
      BY <1>4, <1>8, <3>1 DEF Delivered!Same
    <3> QED
      BY <1>9, <3>2 DEF Follows
  <2>3. CASE create'[m] \in Ready
    <3>1. Fate(m)' = "lost" /\ KeptBy(m)' = {}
      BY <1>1, <2>1, <2>3 DEF FateTable
    <3>2. errors' = errors + 1
      <4>1. CASE CreateHset(m) \/ CreateExpire(m)
        BY <1>1, <2>3, <4>1
        DEF CreateHset, CreateExpire, CreateStep, Call, Fault, LocalTypeOK, Ready
      <4>2. CASE CreateRpush(m) /\ pending' = Append(pending, m)
        <5>1. ToSet(Append(pending, m)) = ToSet(pending) \union {m}
          BY <1>1, AppendDistinct DEF LocalTypeOK
        <5> QED
          BY <1>11, <4>2, <5>1, Zenon DEF Lined
      <4>3. CASE CreateRpush(m) /\ pending' # Append(pending, m)
        BY <4>3 DEF CreateRpush, CreateStep, Call, Fault
      <4> QED
        BY <4>1, <4>2, <4>3
    <3>3. errors' + crashes' > 0
      <4>1. crashes' = crashes
        BY DEF CreateHset, CreateExpire, CreateRpush, CreateStep
      <4> QED
        BY <1>1, <3>2, <4>1 DEF LocalTypeOK
    <3>4. Delivered!Lose(m)
      BY <1>4, <1>8, <3>1, <3>3 DEF Delivered!Lose, Delivered!Goes
    <3> QED
      BY <1>9, <3>4 DEF Follows, Delivered!Step
  <2> QED
    BY <2>2, <2>3
<1> QED
  BY <1>10, <1>11

\* The first pending message gets into a task's hands, or the reply is lost and it is.
LEMMA PopDelivers ==
    ASSUME LocalInv, LocalInv', NEW p \in Tasks, PopMessage(p)
    PROVE  Follows
<1>1. FateTable /\ FateTable' /\ LocalTypeOK /\ Distinct(pending) /\ TaskStep(p)
  BY FateIs, FateIsNext DEF LocalInv, TaskStep
<1>2. UNCHANGED <<hash, create, sends, crashes>> /\ pending # <<>>
  BY DEF PopMessage
<1>3. PICK m \in Messages :
        /\ m = Head(pending) /\ m \in Lined
        /\ ToSet(Tail(pending)) = Lined \ {m}
  BY <1>1, <1>2, TailDistinct DEF Lined, LocalTypeOK
<1>4. /\ create[m] \in Ready /\ hash[m].status = "pending"
      /\ \A q \in Tasks : msgId[q] # m
      /\ msgId[p] = NoMessage
  <2>1. create[m] \in Ready /\ hash[m].status = "pending"
    BY <1>3 DEF LocalInv, MessageOK
  <2>2. \A q \in Tasks : msgId[q] # m
    BY <1>3, LocalAssumption DEF LocalInv, TaskOK
  <2>3. msgId[p] = NoMessage
    BY DEF LocalInv, TaskOK, PopMessage, Handling
  <2> QED
    BY <2>1, <2>2, <2>3
<1>5. /\ pending' = Tail(pending) \/ pending' = pending
      /\ \/ errors' = errors /\ pending' = Tail(pending) /\ msgId'[p] = m
         \/ errors' = errors + 1 /\ msgId'[p] = NoMessage
  BY <1>1, <1>3 DEF PopMessage, Call, Fault, Return, Drop, LocalTypeOK
<1>6. Lined' = Lined \/ Lined' = Lined \ {m}
  BY <1>3, <1>5, Zenon DEF Lined
<1>7. Untouched(m, Tasks \ {p})
  BY <1>1, <1>2, <1>6, TaskFrame DEF Untouched
<1>8. \A x \in Messages \ {m} : Delivered!Same(x)
  BY <1>4, <1>5, <1>7, OthersSame
<1>9. \A q \in Tasks \ {p} : msgId'[q] # m
  BY <1>4, <1>7 DEF Untouched
<1>10. Delivered!Same(m) \/ Delivered!Take(m) \/ Delivered!Lose(m)
  <2>1. CASE msgId'[p] = m
    <3>1. Fate(m)' = "held" /\ KeptBy(m)' = {p}
      BY <1>1, <1>2, <1>4, <2>1 DEF FateTable, Final
    <3>2. Fate(m) = "queued"
      BY <1>1, <1>3, <1>4 DEF FateTable, Final
    <3> QED
      BY <1>2, <3>1, <3>2 DEF Delivered!Take, Delivered!Goes
  <2>2. CASE msgId'[p] = NoMessage /\ errors' = errors + 1 /\ m \notin Lined'
    <3>1. errors' + crashes' > 0
      BY <1>1, <1>2, <2>2 DEF LocalTypeOK
    <3>2. \A q \in Tasks : msgId'[q] # m
      BY <1>9, <2>2, LocalAssumption
    <3> QED
      BY <1>2, <1>3, <1>4, <2>2, <3>1, <3>2, LetGoIsLost DEF Final
  <2>3. CASE msgId'[p] = NoMessage /\ m \in Lined'
    <3>1. \A q \in Tasks : msgId'[q] = m <=> msgId[q] = m
      BY <1>4, <1>9, <2>3, LocalAssumption
    <3> QED
      BY <1>2, <1>3, <2>3, <3>1, Undisturbed
  <2> QED
    BY <1>5, <2>1, <2>2, <2>3
<1> QED
  BY <1>8, <1>10 DEF Follows, Delivered!Step

\* A task that begins, ends or dies with empty hands.
LEMMA IdleDelivers ==
    ASSUME LocalInv, LocalInv', NEW p \in Tasks,
           Process(p) \/ EndProcess(p) \/ (TaskDies(p) /\ task[p] \notin Handling)
    PROVE  Follows
<1>1. LocalTypeOK
  BY DEF LocalInv
<1>2. UNCHANGED <<pending, hash, sends, create>>
  BY DEF Process, EndProcess, TaskDies, redisVars
<1>3. msgId[p] = NoMessage
  BY DEF LocalInv, TaskOK, Process, EndProcess, Handling
<1>4. \A q \in Tasks : msgId'[q] = msgId[q]
  BY <1>1, <1>3 DEF Process, EndProcess, TaskDies, Return, Drop, LocalTypeOK
<1> QED
  BY <1>2, <1>4, Undisturbed DEF Follows, Lined

\* The message in hand is sent, settled, put back or lost.
LEMMA HandDelivers ==
    ASSUME LocalInv, LocalInv', NEW p \in Tasks, task[p] \in Handling, TaskStep(p) \/ TaskDies(p)
    PROVE  Follows
<1>1. FateTable /\ FateTable' /\ LocalTypeOK
  BY FateIs, FateIsNext DEF LocalInv
<1>2. PICK m \in Messages :
        /\ m = msgId[p] /\ m \notin Lined /\ create[m] \in Ready
        /\ Reckoned(task[p], m, retry[p])
        /\ \A q \in Tasks \ {p} : msgId[q] # m
        /\ hash[m].retries \in Nat /\ sends[m] \in Nat /\ retry[p] \in Nat
  BY InHand
<1>3. \/ Load(p) \/ Send(p) \/ MarkSent(p) \/ CountRetry(p) \/ Requeue(p) \/ MarkFailed(p)
      \/ Bury(p) \/ TaskDies(p)
  BY DEF TaskStep, PopMessage, EndProcess, Handling
<1>4. /\ create' = create
      /\ \A q \in Tasks \ {p} : task'[q] = task[q] /\ msgId'[q] = msgId[q] /\ retry'[q] = retry[q]
  BY <1>1, TaskFrame
<1>5. \/ UNCHANGED msgId
      \/ /\ msgId'[p] = NoMessage
         /\ \/ errors' + crashes' > 0
            \/ Load(p) /\ hash[m].status = "none"
            \/ MarkSent(p) /\ SetStatus(m, "sent")
            \/ Requeue(p) /\ pending' = Append(pending, m)
            \/ Bury(p)
  <2> USE DEF Call, Fault, Return, NextMessage, StayAt, Drop, LocalTypeOK
  <2>1. CASE Load(p)
    BY <1>1, <1>2, <2>1 DEF Load
  <2>2. CASE Send(p)
    BY <2>2 DEF Send
  <2>3. CASE MarkSent(p)
    BY <1>1, <1>2, <2>3 DEF MarkSent, HandStep
  <2>4. CASE CountRetry(p) \/ MarkFailed(p)
    BY <1>1, <1>2, <2>4 DEF CountRetry, MarkFailed, HandStep
  <2>5. CASE Requeue(p)
    BY <1>1, <1>2, <2>5 DEF Requeue, HandStep
  <2>6. CASE Bury(p)
    BY <1>1, <2>6 DEF Bury, HandStep
  <2>7. CASE TaskDies(p)
    BY <1>1, <2>7 DEF TaskDies, Death
  <2> QED
    BY <1>3, <2>1, <2>2, <2>3, <2>4, <2>5, <2>6, <2>7
<1>6. msgId'[p] \in {m, NoMessage}
  BY <1>2, <1>5
<1>7. \/ hash' = hash
      \/ MarkSent(p) /\ SetStatus(m, "sent")
      \/ CountRetry(p) /\ hash' = [hash EXCEPT ![m].retries = retry[p] + 1]
      \/ MarkFailed(p) /\ SetStatus(m, "failed")
  BY <1>2, <1>3
  DEF Load, Send, MarkSent, CountRetry, Requeue, MarkFailed, Bury, TaskDies, HandStep, Call, redisVars
<1>8. retry[p] + 1 \in Nat
  BY <1>2
<1>9. /\ \A x \in Messages \ {m} : hash'[x] = hash[x]
      /\ \/ hash'[m].status = hash[m].status
         \/ MarkSent(p) /\ hash'[m].status = "sent"
         \/ MarkFailed(p) /\ hash'[m].status = "failed"
  BY <1>1, <1>2, <1>7, <1>8, StatusType, RetriesType DEF Final
<1>10. /\ \A x \in Messages \ {m} : sends'[x] = sends[x]
       /\ sends' = sends \/ (Send(p) /\ sends'[m] = sends[m] + 1)
  BY <1>1, <1>2, <1>3
  DEF Load, Send, MarkSent, CountRetry, Requeue, MarkFailed, Bury, TaskDies, HandStep, LocalTypeOK
<1>11. Lined' = Lined \/ (Requeue(p) /\ Lined' = Lined \union {m})
  <2>1. pending' = pending \/ (Requeue(p) /\ pending' = Append(pending, m))
    BY <1>2, <1>3
    DEF Load, Send, MarkSent, CountRetry, Requeue, MarkFailed, Bury, TaskDies, HandStep, Call,
        redisVars, lists
  <2>2. ToSet(Append(pending, m)) = ToSet(pending) \union {m}
    BY <1>1, AppendDistinct DEF LocalTypeOK
  <2> QED
    BY <2>1, <2>2, Zenon DEF Lined
<1>12. \A x \in Messages \ {m} : Delivered!Same(x)
  <2>1. Untouched(m, Tasks \ {p})
    BY <1>4, <1>9, <1>10, <1>11 DEF Untouched
  <2> QED
    BY <1>2, <1>6, <2>1, OthersSame
<1>13. hash[m].status \notin Final => Fate(m) = "held" /\ KeptBy(m) = {p}
  BY <1>1, <1>2 DEF FateTable
<1>14. task[p] # "bury" => hash[m].status = "pending"
  BY <1>2 DEF Reckoned
<1>15. Delivered!Same(m) \/ Delivered!Step(m)
  <2>1. CASE Send(p)
    <3>1. sends[m] < MaxRetry + 1 /\ hash[m].status = "pending" /\ hash' = hash
      BY <1>2, <1>14, <2>1, LocalAssumption DEF Send, Reckoned, Counted, redisVars
    <3>2. sends'[m] = sends[m] + 1 /\ msgId' = msgId
      BY <1>1, <1>2, <2>1 DEF Send, LocalTypeOK
    <3>3. Fate(m)' = "held" /\ KeptBy(m)' = {p}
      BY <1>1, <1>2, <3>1, <3>2 DEF FateTable, Final
    <3> QED
      BY <1>13, <3>1, <3>2, <3>3 DEF Delivered!Attempt, Delivered!Step, Final
  <2>2. CASE MarkSent(p) /\ hash'[m].status = "sent"
    <3>1. sends[m] > 0 /\ hash[m].status = "pending" /\ sends' = sends
      BY <1>2, <1>14, <2>2 DEF MarkSent, HandStep, Reckoned
    <3>2. Fate(m)' = "done" /\ KeptBy(m)' = {}
      BY <1>1, <2>2 DEF FateTable
    <3> QED
      BY <1>13, <3>1, <3>2 DEF Delivered!Finish, Delivered!Goes, Delivered!Step, Final
  <2>3. CASE MarkFailed(p) /\ hash'[m].status = "failed"
    <3>1. sends[m] = MaxRetry + 1 /\ hash[m].status = "pending" /\ sends' = sends
      BY <1>2, <1>14, <2>3 DEF MarkFailed, HandStep, Reckoned
    <3>2. Fate(m)' = "failed" /\ KeptBy(m)' = {}
      BY <1>1, <2>3 DEF FateTable
    <3> QED
      BY <1>13, <3>1, <3>2 DEF Delivered!GiveUp, Delivered!Goes, Delivered!Step, Final
  <2>4. CASE Requeue(p) /\ m \in Lined'
    <3>1. /\ sends[m] \in 1 .. MaxRetry /\ hash[m].status = "pending" /\ sends' = sends
          /\ hash'[m].status = "pending"
      BY <1>2, <1>9, <1>14, <2>4, LocalAssumption
      DEF Requeue, MarkSent, MarkFailed, HandStep, Reckoned, Counted
    <3>2. Fate(m)' = "queued" /\ KeptBy(m)' = {}
      BY <1>1, <2>4, <3>1 DEF FateTable, Final
    <3>3. sends[m] \in 1 .. ((MaxRetry + 1) - 1)
      BY <3>1, LocalAssumption
    <3> QED
      BY <1>13, <3>1, <3>2, <3>3 DEF Delivered!PutBack, Delivered!Goes, Delivered!Step, Final
  <2>5. CASE Bury(p)
    <3>1. hash[m].status = "failed" /\ hash'[m].status = "failed" /\ sends' = sends
      BY <1>2, <1>9, <2>5 DEF Bury, MarkSent, MarkFailed, HandStep, Reckoned
    <3> QED
      BY <1>1, <3>1 DEF FateTable, Delivered!Same
  <2>6. CASE TaskDies(p) /\ hash[m].status = "failed"
    <3>1. hash' = hash /\ sends' = sends
      BY <2>6 DEF TaskDies, redisVars
    <3> QED
      BY <1>1, <2>6, <3>1 DEF FateTable, Delivered!Same
  <2>7. CASE /\ hash'[m].status = hash[m].status /\ hash[m].status \notin Final
             /\ sends' = sends /\ m \notin Lined'
    <3>1. CASE msgId' = msgId
      BY <1>2, <1>4, <2>7, <3>1, Undisturbed
    <3>2. CASE msgId'[p] = NoMessage /\ errors' + crashes' > 0
      <4>1. \A q \in Tasks : msgId'[q] # m
        BY <1>2, <1>4, <3>2, LocalAssumption
      <4> QED
        BY <1>2, <1>4, <2>7, <3>2, <4>1, LetGoIsLost DEF Delivered!Step
    <3>3. ~(Load(p) /\ hash[m].status = "none")
      BY <1>14 DEF Load
    <3>4. ~(Requeue(p) /\ pending' = Append(pending, m))
      <4>1. ToSet(Append(pending, m)) = ToSet(pending) \union {m}
        BY <1>1, AppendDistinct DEF LocalTypeOK
      <4> QED
        BY <2>7, <4>1, Zenon DEF Lined
    <3>5. ~(MarkSent(p) /\ SetStatus(m, "sent"))
      BY <1>1, <2>7, StatusType DEF Final
    <3> QED
      BY <1>5, <2>5, <3>1, <3>2, <3>3, <3>4, <3>5
  <2>8. task[p] = "bury" => Bury(p) \/ (TaskDies(p) /\ hash[m].status = "failed")
    BY <1>2, <1>3 DEF Load, Send, MarkSent, CountRetry, Requeue, MarkFailed, HandStep, Reckoned
  <2>9. m \in Lined' => Requeue(p)
    BY <1>2, <1>11
  <2>10. sends' = sends \/ Send(p)
    BY <1>10
  <2> QED
    BY <1>9, <1>14, <2>1, <2>2, <2>3, <2>4, <2>5, <2>6, <2>7, <2>8, <2>9, <2>10 DEF Final
<1> QED
  BY <1>12, <1>15 DEF Follows

LEMMA LocalDelivers ==
    ASSUME LocalInv, LocalInv', [LocalNext]_localVars
    PROVE  [Delivered!Next]_(Delivered!deliveryVars)
<1>1. CASE UNCHANGED localVars
  BY <1>1 DEF localVars, Delivered!deliveryVars, Fate, KeptBy
<1>2. CASE LocalNext
  <2>1. Follows
    <3>1. ASSUME NEW p \in Tasks, Process(p) \/ TaskStep(p) \/ TaskDies(p)
          PROVE  Follows
      <4>1. CASE task[p] \in Handling
        BY <3>1, <4>1, HandDelivers DEF Process, Handling
      <4>2. CASE task[p] \notin Handling
        BY <3>1, <4>2, PopDelivers, IdleDelivers
        DEF TaskStep, Load, Send, MarkSent, CountRetry, Requeue, MarkFailed, Bury, HandStep, Handling
      <4> QED
        BY <4>1, <4>2
    <3> QED
      BY <1>2, <3>1, CreateDelivers DEF LocalNext
  <2>2. \A m \in Messages :
          /\ Fate(m)' \in {"outside", "queued", "held", "done", "failed", "lost"}
          /\ KeptBy(m)' \in SUBSET Tasks
    BY DEF Fate, KeptBy
  <2>3. sends' \in [Messages -> 0 .. MaxRetry + 1]
    BY LocalAssumption DEF LocalInv, LocalTypeOK, MessageOK
  <2>4. (IF errors + crashes > 0 THEN Messages ELSE {})
          \subseteq (IF errors' + crashes' > 0 THEN Messages ELSE {})
    <3>1. errors \in Nat /\ crashes \in Nat
      BY DEF LocalInv, LocalTypeOK
    <3>2. errors' = errors \/ errors' = errors + 1
      BY <1>2
      DEF LocalNext, CreateHset, CreateExpire, CreateRpush, CreateStep, Process, TaskDies, TaskStep,
          PopMessage, EndProcess, Load, Send, MarkSent, CountRetry, Requeue, MarkFailed, Bury,
          HandStep, Call, Fault
    <3>3. crashes' = crashes \/ crashes' = crashes + 1
      BY <1>2
      DEF LocalNext, CreateHset, CreateExpire, CreateRpush, CreateStep, Process, TaskDies, TaskStep,
          PopMessage, EndProcess, Load, Send, MarkSent, CountRetry, Requeue, MarkFailed, Bury,
          HandStep, Death
    <3> QED
      BY <3>1, <3>2, <3>3
  <2>5. Delivered!Next
    BY <2>1, <2>2, <2>3, <2>4 DEF Delivered!Next, Follows
  <2> QED
    BY <2>5
<1> QED
  BY <1>1, <1>2

LEMMA LocalInitDelivers == LocalInit /\ LocalInv => Delivered!Init
<1> SUFFICES ASSUME LocalInit, LocalInv PROVE Delivered!Init
  OBVIOUS
<1>1. FateTable
  BY FateIs
<1>2. Lined = {}
  BY DEF LocalInit, Lined, ToSet
<1>3. ASSUME NEW m \in Messages
      PROVE  Fate(m) = "outside" /\ KeptBy(m) = {}
  <2>1. Loose(m) /\ create[m] \notin Ready
    BY <1>2, LocalAssumption DEF LocalInit, Loose, Final, Ready
  <2> QED
    BY <1>1, <2>1 DEF FateTable
<1> QED
  BY <1>3 DEF LocalInit, NoFaults, Delivered!Init

\* The local message table implements Delivery, for any number of messages, tasks
\* and tries and whatever fails or dies: a message is sent by the task that
\* popped it and by no other, given up after exactly max_retry + 1 sends, and
\* lost only when a Redis call failed or a task died.
THEOREM DeliveryRefinement == LocalSpec => ImplementsDelivery
<1>1. LocalInit /\ LocalInv => Delivered!Init
  BY LocalInitDelivers
<1>2. LocalInv /\ LocalInv' /\ [LocalNext]_localVars => [Delivered!Next]_(Delivered!deliveryVars)
  BY LocalDelivers
<1> QED
  BY <1>1, <1>2, LocalInvariant, PTL DEF LocalSpec, ImplementsDelivery, Delivered!Spec

=============================================================================
