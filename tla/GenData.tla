------------------------------ MODULE GenData ------------------------------
(***************************************************************************)
(* gen_data.py: clear_tables empties the tables, import_receive_info and   *)
(* import_order_info fill them again; an order is drawn step by step from  *)
(* its status.  What the tables order_status and postsale_status hold is   *)
(* not in the repository: the codes are constants.  Time is a number,      *)
(* and Now the present.                                                    *)
(***************************************************************************)
EXTENDS Naturals, Sequences, SequencesExt, FiniteSets

CONSTANTS
    Now,
    Short, Long,    \* the spans of gen_new_time: up to six hours, and a day
    OrderStatuses,  \* a set of [name, code]
    PostStatuses,   \* a set of [name, code, types]
    OrderDetails    \* the order's details

ASSUME GenAssumption ==
    /\ Now \in Nat /\ Short \in Nat /\ Long \in Nat
    /\ \A s \in OrderStatuses : s.code \in Nat /\ (s.name = "completed" => s.code >= 400)
    /\ \A s \in PostStatuses : s.code \in Nat

Never == Now + 1    \* a time that is None
PostsaleTypes == {"refund", "return", "exchange"}

BlankOrder == [status |-> "none", code |-> 0, create |-> 0, payment |-> Never,
               delivered |-> Never, complete |-> Never]

VARIABLES
    genStage,  \* where the script is
    tables,    \* the tables that hold rows
    newOrder,  \* the order that is being drawn
    kind,      \* the type and status of its requests
    drawn      \* its requests: [detail, create, complete]

genVars == <<genStage, tables, newOrder, kind, drawn>>

NoKind == [type |-> "none", name |-> "none", code |-> 0]

\* The order in which clear_tables deletes, and the tables that refer to another.
Tables == <<"complaint", "postsale_logistics", "order_logistics", "logistics", "postsale",
            "order_detail", "order_info", "receive_info">>

RefersTo == {
    <<"complaint", "logistics">>, <<"postsale_logistics", "logistics">>,
    <<"postsale_logistics", "postsale">>, <<"order_logistics", "logistics">>,
    <<"order_logistics", "order_info">>, <<"postsale", "order_detail">>,
    <<"postsale", "receive_info">>, <<"order_detail", "order_info">>,
    <<"order_info", "receive_info">>}

GenInit ==
    /\ genStage = "clear"
    /\ tables \in {T \in SUBSET ToSet(Tables) :
           \A pair \in RefersTo : pair[1] \in T => pair[2] \in T}
    /\ newOrder = BlankOrder
    /\ kind = NoKind
    /\ drawn = <<>>

GenTo(place) == genStage' = place

NextTable == Tables[CHOOSE i \in DOMAIN Tables :
    Tables[i] \in tables /\ \A j \in 1..i - 1 : Tables[j] \notin tables]

\* A row that is referred to cannot be deleted: the exception is caught and
\* the deletions are rolled back.
Delete ==
    /\ genStage = "clear"
    /\ tables # {}
    /\ IF \E pair \in RefersTo : pair[2] = NextTable /\ pair[1] \in tables
       THEN GenTo("not cleared") /\ UNCHANGED tables
       ELSE tables' = tables \ {NextTable} /\ UNCHANGED genStage
    /\ UNCHANGED <<newOrder, kind, drawn>>

Cleared ==
    /\ genStage = "clear"
    /\ tables = {}
    /\ GenTo("order")
    /\ UNCHANGED <<tables, newOrder, kind, drawn>>

-----------------------------------------------------------------------------
(***************************************************************************)
(* gen_order_info                                                          *)
(***************************************************************************)
\* gen_new_time: a time at most delta later, and not after now; None stays None.
NewTime(t, delta) ==
    IF t = Never THEN {Never} ELSE t..(IF t + delta < Now THEN t + delta ELSE Now)

\* gen_logistics and its tracking: the end of the journey, if it is to have one.
Delivery(t, delivered) ==
    IF delivered THEN UNION {NewTime(u, Long) : u \in NewTime(t, Short)} ELSE {Never}

DrawStatus ==
    /\ genStage = "order"
    /\ \E s \in OrderStatuses, t \in 0..Now - 1 :
        /\ newOrder' = [BlankOrder EXCEPT !.status = s.name, !.code = s.code, !.create = t]
        /\ GenTo(IF s.name = "unpaid" THEN "done" ELSE "pay")
    /\ UNCHANGED <<tables, kind, drawn>>

\* The times of payment and of a cancellation are drawn from the same creation; one
\* in two is cancelled before it was paid.
Pay ==
    /\ genStage = "pay"
    /\ \E p \in NewTime(newOrder.create, 1), c \in NewTime(newOrder.create, Short) :
        newOrder' \in
            IF newOrder.status # "cancelled" THEN {[newOrder EXCEPT !.payment = p]}
            ELSE {[newOrder EXCEPT !.payment = p, !.complete = c], [newOrder EXCEPT !.complete = p]}
    /\ GenTo(IF newOrder.status \in {"cancelled", "unshipped"} THEN "done" ELSE "ship")
    /\ UNCHANGED <<tables, kind, drawn>>

ShipOrder ==
    /\ genStage = "ship"
    /\ \E d \in Delivery(newOrder.payment, newOrder.code >= 330) :
        newOrder' = [newOrder EXCEPT !.delivered = d]
    /\ GenTo(IF newOrder.code < 400 THEN "done" ELSE "after")
    /\ UNCHANGED <<tables, kind, drawn>>

\* Completed without a request, or a type and a status for all its requests;
\* random.choice of no status raises.
AfterSale ==
    /\ genStage = "after"
    /\ \/ /\ newOrder.status # "after-sale"
          /\ \E c \in NewTime(newOrder.delivered, Short) :
                newOrder' = [newOrder EXCEPT !.complete = c]
          /\ GenTo("done")
          /\ UNCHANGED kind
       \/ \E type \in PostsaleTypes :
          LET Fitting == {s \in PostStatuses : type \in s.types /\
                  IF newOrder.status = "completed" THEN s.code >= 900 ELSE s.code <= 499} IN
          /\ \/ \E s \in Fitting :
                  kind' = [type |-> type, name |-> s.name, code |-> s.code] /\ GenTo("requests")
             \/ Fitting = {} /\ GenTo("raised") /\ UNCHANGED kind
          /\ UNCHANGED newOrder
    /\ UNCHANGED <<tables, drawn>>

\* gen_postsale: when a request that was made at t is complete; one in progress has
\* a parcel that has not arrived, and an exchange sends one each way.
ReturnTimes(t) == UNION {NewTime(d, Short) : d \in Delivery(t, kind.code >= 900)}

ExchangeTimes(t) == UNION {ReturnTimes(back) : back \in Delivery(t, TRUE)}

CompleteTimes(t) ==
    IF kind.code <= 420 THEN {Never}
    ELSE IF kind.code \in 900..920 THEN NewTime(t, Long)
    ELSE IF kind.type = "return" THEN ReturnTimes(t)
    ELSE IF kind.type = "exchange" THEN ExchangeTimes(t) ELSE {Never}

\* random.choices draws with repetition: a detail may come twice.
DrawRequest ==
    /\ genStage = "requests"
    /\ Len(drawn) < Cardinality(OrderDetails)
    /\ \E d \in OrderDetails, t \in NewTime(newOrder.delivered, Short) :
        \E c \in CompleteTimes(t) :
            drawn' = Append(drawn, [detail |-> d, create |-> t, complete |-> c])
    /\ UNCHANGED <<genStage, tables, newOrder, kind>>

\* Mutant of EndsLast: the order ends with its first request.
EndsFirst(i) == \A j \in DOMAIN drawn : drawn[i].complete <= drawn[j].complete

EndsLast(i) == \A j \in DOMAIN drawn : drawn[j].complete <= drawn[i].complete

\* max() of several times, one of them None, raises.
EndRequests ==
    /\ genStage = "requests"
    /\ drawn # <<>>
    /\ IF newOrder.status = "after-sale" THEN GenTo("done") /\ UNCHANGED newOrder
       ELSE IF Len(drawn) > 1 /\ \E i \in DOMAIN drawn : drawn[i].complete = Never
       THEN GenTo("raised") /\ UNCHANGED newOrder
       ELSE /\ GenTo("done")
            /\ \E i \in DOMAIN drawn :
                  EndsLast(i) /\ newOrder' = [newOrder EXCEPT !.complete = drawn[i].complete]
    /\ UNCHANGED <<tables, kind, drawn>>

\* All orders are committed at once; the next one is drawn.
NextOrder ==
    /\ genStage = "done"
    /\ GenTo("order")
    /\ newOrder' = BlankOrder
    /\ kind' = NoKind
    /\ drawn' = <<>>
    /\ UNCHANGED tables

GenNext ==
    \/ Delete \/ Cleared \/ DrawStatus \/ Pay \/ ShipOrder \/ AfterSale \/ DrawRequest
    \/ EndRequests \/ NextOrder

GenSpec == GenInit /\ [][GenNext]_genVars

-----------------------------------------------------------------------------
(***************************************************************************)
(* Properties                                                              *)
(***************************************************************************)

\* The times of an order that was not cancelled are in the order in which things
\* happen, its requests' included, and a completed order has its end: unless its
\* only request is a refund whose code is above 920.
OrdersMakeSense ==
    genStage = "done" /\ newOrder.status # "cancelled" =>
        /\ newOrder.payment # Never => newOrder.create <= newOrder.payment
        /\ newOrder.delivered # Never => newOrder.payment <= newOrder.delivered
        /\ \A i \in DOMAIN drawn : newOrder.delivered <= drawn[i].create
              /\ drawn[i].create <= drawn[i].complete
              /\ newOrder.status = "completed" => drawn[i].complete <= newOrder.complete
        /\ newOrder.status = "completed" =>
              newOrder.delivered <= newOrder.complete /\ (newOrder.complete = Never =>
                  kind.type = "refund" /\ kind.code > 920)

\* The tables are deleted in an order that no foreign key stops, whichever of them
\* hold rows.
ClearedInOrder == genStage # "not cleared"

\* Drawing a completed order raises only where no status fits the type that was
\* drawn, or max() meets several refunds whose code is above 920: no other request
\* of a completed order is without its end.
RaisesInOrder ==
    genStage = "raised" /\ newOrder.status = "completed" =>
        kind = NoKind \/ (kind.type = "refund" /\ kind.code > 920)

\* What the script leaves in the database, and where it raises.
DataMakesSense == ClearedInOrder /\ OrdersMakeSense /\ RaisesInOrder

=============================================================================
