------------------------- MODULE OrderActionsProofs -------------------------
(***************************************************************************)
(* Proofs about OrderActions, for every number of dialogues and contents.  *)
(***************************************************************************)
EXTENDS OrderActions, TLAPS

USE DEF Dialogs, orderRow, GoOn

\* What happens to the order outside the agent.
OrderStep == Pay \/ Ship \/ Deliver

-----------------------------------------------------------------------------
(***************************************************************************)
(* Types                                                                   *)
(***************************************************************************)

\* Every step of a cancelling dialogue keeps the types.
LEMMA CancelTypes ==
  ASSUME OrderTypeOK, NEW c \in Cancellers, ChooseCancel(c) \/ CancelStep(c)
  PROVE  OrderTypeOK'
<1> USE OrderAssumption DEF OrderTypeOK, CancelPlaces, ModifyPlaces, BeforeShipped, BeforeDelivered
<1>1. CASE ChooseCancel(c)
  BY <1>1 DEF ChooseCancel
<1>2. CASE EnterCancel(c)
  BY <1>2 DEF EnterCancel, Lock!Enter
<1>3. CASE RefuseCancel(c)
  BY <1>3 DEF RefuseCancel
<1>4. CASE ReadOrder(c)
  BY <1>4 DEF ReadOrder, Lock!Leave
<1>5. CASE WriteCancelled(c)
  BY <1>5 DEF WriteCancelled, Lock!Leave
<1>6. CASE WriteFails(c)
  BY <1>6 DEF WriteFails, Lock!Leave
<1> QED
  BY <1>1, <1>2, <1>3, <1>4, <1>5, <1>6 DEF CancelStep

\* Every step of a modifying dialogue keeps the types.
LEMMA ModifyTypes ==
  ASSUME OrderTypeOK, NEW m \in Modifiers,
         (\E new \in BOOLEAN, x \in Infos : ChooseInfo(m, new, x)) \/ ModifyStep(m)
  PROVE  OrderTypeOK'
<1> USE OrderAssumption DEF OrderTypeOK, CancelPlaces, ModifyPlaces
<1>1. ASSUME NEW new \in BOOLEAN, NEW x \in Infos, ChooseInfo(m, new, x)
      PROVE  OrderTypeOK'
  BY <1>1 DEF ChooseInfo
<1>2. CASE LookUpInfo(m)
  BY <1>2 DEF LookUpInfo
<1>3. CASE InsertInfo(m)
  BY <1>3, ZenonT(40) DEF InsertInfo
<1>4. CASE UpdateOrder(m)
  BY <1>4 DEF UpdateOrder
<1>5. CASE UpdateFails(m)
  BY <1>5 DEF UpdateFails
<1> QED
  BY <1>1, <1>2, <1>3, <1>4, <1>5 DEF ModifyStep

\* Type correctness of the order and its dialogues.
THEOREM TypeCorrectness == OrderSpec => []OrderTypeOK
<1>1. OrderInit => OrderTypeOK
  BY OrderAssumption DEF OrderInit, OrderTypeOK, Lock!Init, None, CancelPlaces, ModifyPlaces,
     BeforeShipped, BeforeDelivered
<1>2. OrderTypeOK /\ [OrderNext]_orderVars => OrderTypeOK'
  <2> SUFFICES ASSUME OrderTypeOK, [OrderNext]_orderVars
               PROVE  OrderTypeOK'
    OBVIOUS
  <2>1. CASE OrderStep
    BY <2>1 DEF OrderStep, Pay, Ship, Deliver, Advance, OrderTypeOK, BeforeShipped, BeforeDelivered
  <2>2. CASE UNCHANGED orderVars
    BY <2>2 DEF OrderTypeOK, orderVars
  <2> QED
    BY <2>1, <2>2, CancelTypes, ModifyTypes DEF OrderNext, OrderStep
<1> QED
  BY <1>1, <1>2, PTL DEF OrderSpec

-----------------------------------------------------------------------------
(***************************************************************************)
(* One cancellation is reported                                            *)
(***************************************************************************)

Reported == {c \in Cancellers : dialog[c] \in {"cancelled", "refunded"}}

\* One dialogue at most holds the lock, and who reads or writes the order holds
\* it; once a cancellation is reported, the order stays cancelled and nobody is
\* about to write.
CancelInv ==
  /\ \A c, d \in inside : c = d
  /\ \A c \in Cancellers : dialog[c] \in {"reading", "writing"} => c \in inside
  /\ Reported # {} => status = "cancelled" /\ \A c \in Cancellers : dialog[c] # "writing"
  /\ OneCancelReported

\* Every step of a cancelling dialogue keeps CancelInv.
LEMMA CancelInvStep ==
  ASSUME OrderTypeOK, CancelInv, NEW c \in Cancellers, ChooseCancel(c) \/ CancelStep(c)
  PROVE  CancelInv'
<1> USE DEF OrderTypeOK, CancelInv, Reported, OneCancelReported
<1>1. CASE ChooseCancel(c)
  BY <1>1 DEF ChooseCancel
<1>2. CASE EnterCancel(c)
  BY <1>2 DEF EnterCancel, Lock!Enter
<1>3. CASE RefuseCancel(c)
  BY <1>3 DEF RefuseCancel
<1>4. CASE ReadOrder(c)
  BY <1>4 DEF ReadOrder, Lock!Leave, BeforeShipped
<1>5. CASE WriteCancelled(c)
  BY <1>5 DEF WriteCancelled, Lock!Leave
<1>6. CASE WriteFails(c)
  BY <1>6 DEF WriteFails, Lock!Leave
<1> QED
  BY <1>1, <1>2, <1>3, <1>4, <1>5, <1>6 DEF CancelStep

\* The steps of the others keep it too.
LEMMA CancelInvOthers ==
  ASSUME OrderTypeOK, CancelInv, UNCHANGED inside,
         \A c \in Cancellers : dialog'[c] = dialog[c],
         status = "cancelled" => status' = "cancelled"
  PROVE  CancelInv'
BY DEF CancelInv, Reported, OneCancelReported

\* One dialogue at most is told that it cancelled the order.
THEOREM OneCancellation == OrderSpec => []OneCancelReported
<1>1. OrderInit => CancelInv
  BY DEF OrderInit, CancelInv, Lock!Init, Reported, OneCancelReported
<1>2. OrderTypeOK /\ CancelInv /\ [OrderNext]_orderVars => CancelInv'
  <2> SUFFICES ASSUME OrderTypeOK, CancelInv, [OrderNext]_orderVars
               PROVE  CancelInv'
    OBVIOUS
  <2>1. CASE OrderStep
    BY <2>1, CancelInvOthers DEF OrderStep, Pay, Ship, Deliver, Advance
  <2>2. ASSUME NEW m \in Modifiers,
               (\E new \in BOOLEAN, x \in Infos : ChooseInfo(m, new, x)) \/ ModifyStep(m)
        PROVE  CancelInv'
    <3>1. UNCHANGED <<inside, status>>
      BY <2>2 DEF ChooseInfo, ModifyStep, LookUpInfo, InsertInfo, UpdateOrder, UpdateFails
    <3>2. \A c \in Cancellers : c # m
      BY OrderAssumption
    <3>3. \A c \in Cancellers : dialog'[c] = dialog[c]
      BY <2>2, <3>2 DEF OrderTypeOK, ChooseInfo, ModifyStep, LookUpInfo, InsertInfo, UpdateOrder,
         UpdateFails
    <3> QED
      BY <3>1, <3>3, CancelInvOthers
  <2>3. CASE UNCHANGED orderVars
    BY <2>3, CancelInvOthers DEF orderVars
  <2> QED
    BY <2>1, <2>2, <2>3, CancelInvStep DEF OrderNext, OrderStep
<1>3. CancelInv => OneCancelReported
  BY DEF CancelInv
<1> QED
  BY <1>1, <1>2, <1>3, TypeCorrectness, PTL DEF OrderSpec

-----------------------------------------------------------------------------
(***************************************************************************)
(* No receive info is stored twice                                         *)
(***************************************************************************)

\* An uncommitted row belongs to a session that is about to commit; no row
\* with its content is committed, and no other session has inserted one.
PendingRows ==
  \A m \in Modifiers : uncommitted[m] =>
    /\ dialog[m] = "updating"
    /\ copies[choice[m].info] = 0
    /\ \A o \in Modifiers : uncommitted[o] /\ choice[o].info = choice[m].info => o = m

InfoInv == PendingRows /\ NoDuplicateInfo

\* Every step of a modifying dialogue keeps InfoInv.
LEMMA InfoStep ==
  ASSUME OrderTypeOK, InfoInv, NEW m \in Modifiers,
         (\E new \in BOOLEAN, x \in Infos : ChooseInfo(m, new, x)) \/ ModifyStep(m)
  PROVE  InfoInv'
<1> USE DEF OrderTypeOK, InfoInv, PendingRows, NoDuplicateInfo
<1>1. ASSUME NEW new \in BOOLEAN, NEW x \in Infos, ChooseInfo(m, new, x)
      PROVE  InfoInv'
  BY <1>1 DEF ChooseInfo
<1>2. CASE LookUpInfo(m)
  BY <1>2 DEF LookUpInfo
<1>3. CASE InsertInfo(m)
  BY <1>3 DEF InsertInfo
<1>4. CASE UpdateOrder(m)
  BY <1>4 DEF UpdateOrder
<1>5. CASE UpdateFails(m)
  BY <1>5 DEF UpdateFails
<1> QED
  BY <1>1, <1>2, <1>3, <1>4, <1>5 DEF ModifyStep

\* The receive infos of a user are stored once each.
THEOREM InfosStoredOnce == OrderSpec => []NoDuplicateInfo
<1>1. OrderInit => InfoInv
  BY DEF OrderInit, InfoInv, PendingRows, NoDuplicateInfo
<1>2. OrderTypeOK /\ InfoInv /\ [OrderNext]_orderVars => InfoInv'
  <2> SUFFICES ASSUME OrderTypeOK, InfoInv, [OrderNext]_orderVars
               PROVE  InfoInv'
    OBVIOUS
  <2>1. ASSUME UNCHANGED <<copies, choice, uncommitted>>,
               \A m \in Modifiers : dialog'[m] = dialog[m]
        PROVE  InfoInv'
    BY <2>1 DEF InfoInv, PendingRows, NoDuplicateInfo
  <2>2. CASE OrderStep
    BY <2>1, <2>2 DEF OrderStep, Pay, Ship, Deliver, Advance
  <2>3. ASSUME NEW c \in Cancellers, ChooseCancel(c) \/ CancelStep(c)
        PROVE  InfoInv'
    <3>1. \A m \in Modifiers : m # c
      BY OrderAssumption
    <3> QED
      BY <2>1, <2>3, <3>1 DEF OrderTypeOK, ChooseCancel, CancelStep, EnterCancel, RefuseCancel,
         ReadOrder, WriteCancelled, WriteFails
  <2>4. CASE UNCHANGED orderVars
    BY <2>1, <2>4 DEF orderVars
  <2> QED
    BY <2>2, <2>3, <2>4, InfoStep DEF OrderNext, OrderStep
<1>3. InfoInv => NoDuplicateInfo
  BY DEF InfoInv
<1> QED
  BY <1>1, <1>2, <1>3, TypeCorrectness, PTL DEF OrderSpec
=============================================================================
