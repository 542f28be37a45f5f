---------------------------- MODULE OrderActions ----------------------------
(***************************************************************************)
(* actions/action_order.py: dialogues that cancel an order (CancelOrder)   *)
(* and dialogues that change where it is sent (AskSetReceiveInfo), while   *)
(* the shop and the carrier move the same order along.  CancelOrder runs   *)
(* under the lock cancel_order:{id}, taken here as the abstract lock that  *)
(* DistributedLock implements, whose lease is not lost; AskSetReceiveInfo  *)
(* takes no lock.  Database sessions read one snapshot and write by        *)
(* primary key at their commit.                                            *)
(***************************************************************************)
EXTENDS Naturals, FiniteSets

CONSTANTS
    Cancellers,  \* dialogues that cancel the order
    Modifiers,   \* dialogues that change its receive info
    Infos,       \* contents of a receive_info row of this user
    FirstInfo    \* the one the order was placed with

ASSUME OrderAssumption ==
    /\ Cancellers \cap Modifiers = {}
    /\ FirstInfo \in Infos

Dialogs == Cancellers \union Modifiers

VARIABLES
    status,    \* order_info.order_status
    receive,   \* the content order_info.receive_id points to
    copies,    \* how many committed receive_info rows have each content
    dialog,    \* where each dialogue is
    seen,      \* the status a cancelling session has read
    choice,    \* the receive info a modifying dialogue has chosen
    uncommitted, \* its session has inserted a row and not committed it
    inside     \* the dialogues that hold cancel_order:{id}

orderRow == <<status, receive>>
orderVars == <<status, receive, copies, dialog, seen, choice, uncommitted, inside>>

Lock == INSTANCE Mutex WITH Clients <- Cancellers, lost <- {}

\* The filters of get_query_condition: status_code <= 310 and <= 320, not cancelled.
BeforeShipped == {"unpaid", "paid"}
BeforeDelivered == BeforeShipped \union {"shipped"}

None == [new |-> FALSE, info |-> FirstInfo]

OrderInit ==
    /\ status = "unpaid"
    /\ receive = FirstInfo
    /\ copies = [x \in Infos |-> IF x = FirstInfo THEN 1 ELSE 0]
    /\ dialog = [d \in Dialogs |-> "start"]
    /\ seen = [c \in Cancellers |-> "unpaid"]
    /\ choice = [m \in Modifiers |-> None]
    /\ uncommitted = [m \in Modifiers |-> FALSE]
    /\ Lock!Init

GoOn(d, place) == dialog' = [dialog EXCEPT ![d] = place]

-----------------------------------------------------------------------------
\* The order's life outside the agent.
Advance(from, to) ==
    /\ status = from
    /\ status' = to
    /\ UNCHANGED <<receive, copies, dialog, seen, choice, uncommitted, inside>>

Pay == Advance("unpaid", "paid")
Ship == Advance("paid", "shipped")
Deliver == Advance("shipped", "delivered")

-----------------------------------------------------------------------------
(***************************************************************************)
(* cancel_order                                                            *)
(***************************************************************************)

\* AskOrderID offers the order while it is not shipped; the user confirms.
ChooseCancel(c) ==
    /\ dialog[c] = "start"
    /\ status \in BeforeShipped
    /\ GoOn(c, "locking")
    /\ UNCHANGED <<orderRow, copies, seen, choice, uncommitted, inside>>

\* Mutant of EnterCancel: no lock.
EnterWithoutLock(c) ==
    /\ dialog[c] = "locking"
    /\ inside' = inside \union {c}
    /\ GoOn(c, "reading")
    /\ UNCHANGED <<orderRow, copies, seen, choice, uncommitted>>

\* lock.guard() is entered.
EnterCancel(c) ==
    /\ dialog[c] = "locking"
    /\ Lock!Enter(c)
    /\ GoOn(c, "reading")
    /\ UNCHANGED <<orderRow, copies, seen, choice, uncommitted>>

\* guard raises: every attempt found the lock taken, or Redis is not
\* available.  Both end in the same message.
RefuseCancel(c) ==
    /\ dialog[c] = "locking"
    /\ GoOn(c, "busy")
    /\ UNCHANGED <<orderRow, copies, seen, choice, uncommitted, inside>>

\* _do_cancel reads the order and checks its status again.
ReadOrder(c) ==
    /\ dialog[c] = "reading"
    /\ IF status \in BeforeShipped
       THEN /\ seen' = [seen EXCEPT ![c] = status]
            /\ GoOn(c, "writing")
            /\ UNCHANGED inside
       ELSE /\ GoOn(c, "rejected")
            /\ Lock!Leave(c)
            /\ UNCHANGED seen
    /\ UNCHANGED <<orderRow, copies, choice, uncommitted>>

\* The session commits UPDATE ... WHERE order_id = ?, the lock is released
\* and the user told; an order seen as paid is promised its refund.
WriteCancelled(c) ==
    /\ dialog[c] = "writing"
    /\ status' = "cancelled"
    /\ GoOn(c, IF seen[c] = "paid" THEN "refunded" ELSE "cancelled")
    /\ Lock!Leave(c)
    /\ UNCHANGED <<receive, copies, seen, choice, uncommitted>>

\* The commit raises: get_session rolls back, run's except clause answers as
\* if the lock had been refused.
WriteFails(c) ==
    /\ dialog[c] = "writing"
    /\ GoOn(c, "busy")
    /\ Lock!Leave(c)
    /\ UNCHANGED <<orderRow, copies, seen, choice, uncommitted>>

-----------------------------------------------------------------------------
(***************************************************************************)
(* modify_order_receive_info                                               *)
(***************************************************************************)

\* AskOrderID offers the order while it is not delivered; the user picks a
\* stored receive info or composes one, and confirms some time later.
ChooseInfo(m, new, x) ==
    /\ dialog[m] = "start"
    /\ status \in BeforeDelivered
    /\ new \/ copies[x] > 0
    /\ choice' = [choice EXCEPT ![m] = [new |-> new, info |-> x]]
    /\ GoOn(m, "confirming")
    /\ UNCHANGED <<orderRow, copies, seen, uncommitted, inside>>

\* The confirmed run reads the order and looks for a row with the same content.
LookUpInfo(m) ==
    /\ dialog[m] = "confirming"
    /\ GoOn(m, IF choice[m].new /\ copies[choice[m].info] = 0
               THEN "adding" ELSE "updating")
    /\ UNCHANGED <<orderRow, copies, seen, choice, uncommitted, inside>>

\* Mutant of InsertInfo: receive_info without its unique index.
InsertWithoutIndex(m) ==
    /\ dialog[m] = "adding"
    /\ uncommitted' = [uncommitted EXCEPT ![m] = TRUE]
    /\ GoOn(m, "updating")
    /\ UNCHANGED <<orderRow, copies, seen, choice, inside>>

\* session.add and flush under the unique index of receive_info: the insert
\* waits for another session's uncommitted row of the same content, and
\* raises IntegrityError if such a row is committed.
InsertInfo(m) ==
    /\ dialog[m] = "adding"
    /\ \A o \in Modifiers \ {m} : ~(uncommitted[o] /\ choice[o].info = choice[m].info)
    /\ IF copies[choice[m].info] = 0
       THEN /\ uncommitted' = [uncommitted EXCEPT ![m] = TRUE]
            /\ GoOn(m, "updating")
       ELSE /\ GoOn(m, "failed")
            /\ UNCHANGED uncommitted
    /\ UNCHANGED <<orderRow, copies, seen, choice, inside>>

\* Mutant of UpdateOrder: the session is left open after its commit.
UpdateStaysOpen(m) ==
    /\ dialog[m] = "updating"
    /\ receive' = choice[m].info
    /\ copies' = IF uncommitted[m] THEN [copies EXCEPT ![choice[m].info] = @ + 1] ELSE copies
    /\ GoOn(m, "modified")
    /\ UNCHANGED <<status, seen, choice, uncommitted, inside>>

\* order_info.receive_id is set and the session commits, the new row with it.
UpdateOrder(m) ==
    /\ dialog[m] = "updating"
    /\ receive' = choice[m].info
    /\ copies' = IF uncommitted[m] THEN [copies EXCEPT ![choice[m].info] = @ + 1] ELSE copies
    /\ uncommitted' = [uncommitted EXCEPT ![m] = FALSE]
    /\ GoOn(m, "modified")
    /\ UNCHANGED <<status, seen, choice, inside>>

\* The commit raises: leaving the session rolls it back.
UpdateFails(m) ==
    /\ dialog[m] = "updating"
    /\ uncommitted' = [uncommitted EXCEPT ![m] = FALSE]
    /\ GoOn(m, "failed")
    /\ UNCHANGED <<orderRow, copies, seen, choice, inside>>

-----------------------------------------------------------------------------
CancelStep(c) == EnterCancel(c) \/ RefuseCancel(c) \/ ReadOrder(c)
                 \/ WriteCancelled(c) \/ WriteFails(c)

ModifyStep(m) == LookUpInfo(m) \/ InsertInfo(m) \/ UpdateOrder(m) \/ UpdateFails(m)

OrderNext ==
    \/ Pay \/ Ship \/ Deliver
    \/ \E c \in Cancellers : ChooseCancel(c) \/ CancelStep(c)
    \/ \E m \in Modifiers :
        \/ \E new \in BOOLEAN, x \in Infos : ChooseInfo(m, new, x)
        \/ ModifyStep(m)

OrderSpec == OrderInit /\ [][OrderNext]_orderVars

\* A confirmed action runs to its end; users and carriers may stop at any time.
OrderFairSpec ==
    /\ OrderSpec
    /\ (\A c \in Cancellers : WF_orderVars(CancelStep(c)))
    /\ (\A m \in Modifiers : WF_orderVars(ModifyStep(m)))

-----------------------------------------------------------------------------
(***************************************************************************)
(* Properties                                                              *)
(***************************************************************************)

CancelPlaces == {"start", "locking", "reading", "writing", "busy", "rejected",
                 "cancelled", "refunded"}
ModifyPlaces == {"start", "confirming", "adding", "updating", "failed", "modified"}

\* Every variable has its type.
OrderTypeOK ==
    /\ status \in BeforeDelivered \union {"delivered", "cancelled"}
    /\ receive \in Infos
    /\ copies \in [Infos -> Nat]
    /\ dialog \in [Dialogs -> CancelPlaces \union ModifyPlaces]
    /\ \A c \in Cancellers : dialog[c] \in CancelPlaces
    /\ \A m \in Modifiers : dialog[m] \in ModifyPlaces
    /\ seen \in [Cancellers -> BeforeShipped]
    /\ choice \in [Modifiers -> [new : BOOLEAN, info : Infos]]
    /\ uncommitted \in [Modifiers -> BOOLEAN]
    /\ inside \in SUBSET Cancellers

\* However many dialogues cancel the order at once, one of them at most is
\* told that it did: what the lock around check and update is for.
OneCancelReported ==
    \A c, d \in Cancellers :
        dialog[c] \in {"cancelled", "refunded"} /\ dialog[d] \in {"cancelled", "refunded"}
            => c = d

\* Modifying dialogues look a receive info up and insert it without a lock,
\* and still never store the same one twice.
NoDuplicateInfo == \A x \in Infos : copies[x] <= 1

\* An action the user confirmed ends with an answer, although inserts of the
\* same content wait for each other.
ConfirmedAnswered ==
    \A m \in Modifiers : dialog[m] = "confirming" ~> dialog[m] \in {"modified", "failed"}

\* _do_cancel's comment: only an unpaid or unshipped order can be cancelled.
CancelOnlyBeforeShipping ==
    [][status' = "cancelled" /\ status # "cancelled" => status \in BeforeShipped]_orderVars
=============================================================================
