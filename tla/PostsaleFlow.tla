---------------------------- MODULE PostsaleFlow ----------------------------
(***************************************************************************)
(* The flow postsale for one order of several details: GetOrderDetail of   *)
(* actions/action_order.py, then the forms and CommitPostsale of           *)
(* actions/action_postsale.py, once for each chosen detail.  What happens  *)
(* inside CommitPostsale under its lock is PostsaleCommit; here it is one  *)
(* step.  The order's status and the end of a request come from outside.   *)
(***************************************************************************)
EXTENDS Naturals, Sequences, SequencesExt, FiniteSets

CONSTANTS
    Dialogues,
    Details,      \* the order's details
    Cheap,        \* those whose total_amount is below 100
    Types,        \* of "refund", "return", "exchange"
    Reasons,      \* "dislike", "other", and what the tables hold
    MaxRequests,  \* bound: rows of postsale
    MaxFailures   \* bound: submissions that raise

ASSUME DetailsAssumption == IsFiniteSet(Details)

VARIABLES
    status,    \* the order's status_code: delivered 330, after-sale 400, completed 900
    recent,    \* it was delivered less than seven days ago
    requests,  \* the rows of postsale, in the order of create_time
    flowStep,  \* where each dialogue is
    shown,     \* the requests that GetOrderDetail has shown
    hidden,    \* history: those in progress when it returned without showing any
    chosen,    \* history: the details that the user has chosen
    ids,       \* the slot order_detail_ids
    form,      \* the slots postsale_type and postsale_reason
    failures

dialogueVars == <<flowStep, shown, hidden, chosen, ids, form>>
flowVars == <<status, recent, requests, dialogueVars, failures>>

NoForm == [type |-> "none", reason |-> "none"]

OfDetail(d) == {r \in DOMAIN requests : requests[r].detail = d}
Active(d) == {r \in OfDetail(d) : requests[r].active}

FlowInit ==
    /\ status \in {330, 400, 900}
    /\ recent = TRUE
    /\ requests = <<>>
    /\ flowStep = [u \in Dialogues |-> "order"]
    /\ shown = [u \in Dialogues |-> {}]
    /\ hidden = [u \in Dialogues |-> {}]
    /\ chosen = [u \in Dialogues |-> {}]
    /\ ids = [u \in Dialogues |-> <<>>]
    /\ form = [u \in Dialogues |-> NoForm]
    /\ failures = 0

FlowTo(u, place) == flowStep' = [flowStep EXCEPT ![u] = place]
Stays == UNCHANGED <<status, recent, requests, failures>>

-----------------------------------------------------------------------------
(***************************************************************************)
(* GetOrderDetail: the order in one session, its requests in another       *)
(***************************************************************************)
ReadOrder(u) ==
    /\ flowStep[u] = "order"
    /\ IF status < 400
       THEN /\ hidden' = [hidden EXCEPT ![u] = {r \in DOMAIN requests : requests[r].active}]
            /\ FlowTo(u, "details")
       ELSE FlowTo(u, "requests") /\ UNCHANGED hidden
    /\ Stays
    /\ UNCHANGED <<shown, chosen, ids, form>>

\* Of each detail the request with the greatest create_time.
Newest == {r \in DOMAIN requests : \A s \in OfDetail(requests[r].detail) : s <= r}

ReadRequests(u) ==
    /\ flowStep[u] = "requests"
    /\ shown' = [shown EXCEPT ![u] = Newest]
    /\ FlowTo(u, "details")
    /\ Stays
    /\ UNCHANGED <<hidden, chosen, ids, form>>

-----------------------------------------------------------------------------
(***************************************************************************)
(* The forms                                                               *)
(***************************************************************************)
\* action_ask_order_detail_ids: details without requests, or with a completed one;
Offered == {d \in Details : OfDetail(d) = {} \/ OfDetail(d) # Active(d)}

\* In whatever order the query gives them
AllOffered == {q \in [1..Cardinality(Offered) -> Offered] : ToSet(q) = Offered}

\* one of them is chosen, or all.  Without any the slot is set to false.
ChooseDetails(u) ==
    /\ flowStep[u] = "details"
    /\ \E all \in {<<d>> : d \in Offered} \union AllOffered :
        /\ ids' = [ids EXCEPT ![u] = all]
        /\ chosen' = [chosen EXCEPT ![u] = ToSet(all)]
        /\ FlowTo(u, IF all = <<>> THEN "left" ELSE "type")
    /\ Stays
    /\ UNCHANGED <<shown, hidden, form>>

\* action_ask_postsale_type and action_ask_postsale_reason show the first of the ids.
AskType(u) ==
    /\ flowStep[u] = "type"
    /\ \E t \in Types : form' = [form EXCEPT ![u].type = t]
    /\ FlowTo(u, "reason")
    /\ Stays
    /\ UNCHANGED <<shown, hidden, chosen, ids>>

AskReason(u) ==
    /\ flowStep[u] = "reason"
    /\ \E r \in Reasons : form' = [form EXCEPT ![u].reason = r]
    /\ FlowTo(u, "commit")
    /\ Stays
    /\ UNCHANGED <<shown, hidden, chosen, ids>>

\* A button that sets a slot to false ends the flow.
LeaveFlow(u) ==
    /\ flowStep[u] \in {"details", "type", "reason"}
    /\ FlowTo(u, "left")
    /\ Stays
    /\ UNCHANGED <<shown, hidden, chosen, ids, form>>

-----------------------------------------------------------------------------
(***************************************************************************)
(* CommitPostsale                                                          *)
(***************************************************************************)
\* Approved without a review: disliked, delivered within the last seven days,
\* less than 100, and sent back.
Automatic(u) ==
    /\ form[u].reason = "dislike"
    /\ recent
    /\ Head(ids[u]) \in Cheap
    /\ form[u].type # "refund"

Request(u) ==
    [detail |-> Head(ids[u]), active |-> TRUE, by |-> u, type |-> form[u].type,
     status |-> IF Automatic(u) THEN "sending back" ELSE "reviewed"]

\* The flow asks for the type again while the slot is not empty.
Loop(u, rest) == FlowTo(u, IF rest = <<>> THEN "through" ELSE "type")

Submit(u) ==
    /\ flowStep[u] = "commit"
    /\ Active(Head(ids[u])) = {}
    /\ Len(requests) < MaxRequests
    /\ requests' = Append(requests, Request(u))
    /\ ids' = [ids EXCEPT ![u] = Tail(@)]
    /\ Loop(u, Tail(ids[u]))
    /\ UNCHANGED <<status, recent, failures, shown, hidden, chosen, form>>

\* Mutant of Refuse: the detail is taken off the slot here as well.
RefuseAndDrop(u) ==
    /\ flowStep[u] = "commit"
    /\ Active(Head(ids[u])) # {}
    /\ ids' = [ids EXCEPT ![u] = Tail(@)]
    /\ Loop(u, Tail(ids[u]))
    /\ Stays
    /\ UNCHANGED <<shown, hidden, chosen, form>>

\* There is an active request: no event is returned, the detail stays the first.
Refuse(u) ==
    /\ flowStep[u] = "commit"
    /\ Active(Head(ids[u])) # {}
    /\ Loop(u, ids[u])
    /\ Stays
    /\ UNCHANGED <<shown, hidden, chosen, ids, form>>

\* The lock is not got, or the commit raises, applied or not; run answers with a
\* message and no event.
Fail(u) ==
    /\ flowStep[u] = "commit"
    /\ failures < MaxFailures
    /\ failures' = failures + 1
    /\ \/ UNCHANGED requests
       \/ Active(Head(ids[u])) = {} /\ Len(requests) < MaxRequests
          /\ requests' = Append(requests, Request(u))
    /\ Loop(u, ids[u])
    /\ UNCHANGED <<status, recent, shown, hidden, chosen, ids, form>>

-----------------------------------------------------------------------------
\* The back office, and time
CompleteRequest ==
    /\ \E r \in DOMAIN requests :
        requests[r].active /\ requests' = [requests EXCEPT ![r].active = FALSE]
    /\ UNCHANGED <<status, recent, dialogueVars, failures>>

SevenDays == recent /\ recent' = FALSE /\ UNCHANGED <<status, requests, dialogueVars, failures>>

FlowNext ==
    \/ \E u \in Dialogues :
        \/ ReadOrder(u) \/ ReadRequests(u) \/ ChooseDetails(u) \/ AskType(u) \/ AskReason(u)
        \/ LeaveFlow(u) \/ Submit(u) \/ Refuse(u) \/ Fail(u)
    \/ CompleteRequest \/ SevenDays

FlowSpec == FlowInit /\ [][FlowNext]_flowVars

-----------------------------------------------------------------------------
(***************************************************************************)
(* Properties                                                              *)
(***************************************************************************)

\* A dialogue that the flow has led to its end has entered a request of its own
\* for every detail that the user chose, and no detail has two that are active:
\* also when another dialogue was faster, or a submission failed and was repeated.
ThroughMeansRequested ==
    /\ \A u \in Dialogues : flowStep[u] = "through" =>
        \A d \in chosen[u] : \E r \in OfDetail(d) : requests[r].by = u
    /\ \A d \in Details : Cardinality(Active(d)) <= 1

\* The comment in GetOrderDetail: "status_code < 400 means that the order is not in
\* after-sale".  When it returns for such a status no request is in progress.
ActiveIsShown == \A u \in Dialogues : hidden[u] = {}

=============================================================================
