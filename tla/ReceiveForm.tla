----------------------------- MODULE ReceiveForm -----------------------------
(***************************************************************************)
(* The flow modify_order_receive_info with the forms of                    *)
(* actions/action_order.py: AskReceiveId, AskReceiveProvince, -City and    *)
(* -District, AskSetReceiveInfo.  A row of receive_info is a person (name  *)
(* and phone number) at an address; its three first parts refer to a row   *)
(* of the table region, whose primary key is all three of them.            *)
(***************************************************************************)
EXTENDS Naturals

CONSTANTS
    Regions,    \* the table: a set of [province, city, district]
    People,     \* who may receive
    Streets,    \* what may be typed for the street
    FirstInfo,  \* the row that the order was placed with
    MaxRounds   \* bound: addresses and people entered in one dialogue

\* Rows of region have three columns, and a row of receive_info refers to one.
ASSUME FormAssumption ==
    /\ \A r \in Regions :
        r = [province |-> r.province, city |-> r.city, district |-> r.district]
    /\ FirstInfo \in [person : People, region : Regions, street : Streets]

VARIABLES
    rows,       \* the user's rows of receive_info
    order,      \* the row that the order refers to
    step,       \* the step of the flow
    receiveId,  \* its slot: a row, or "modify", "modified", "none"
    slots,      \* the slots receiver_* and receive_*
    rounds

formVars == <<rows, order, step, receiveId, slots, rounds>>

NoRow == [id |-> "none", row |-> FirstInfo]
Own == [NoRow EXCEPT !.id = "modify"]
Modified == [NoRow EXCEPT !.id = "modified"]

FormInit ==
    /\ rows = {FirstInfo}
    /\ order = FirstInfo
    /\ step = "start"
    /\ receiveId = NoRow
    /\ slots = FirstInfo
    /\ rounds = 0

\* FirstInfo.region is a record of the three columns.
Set(place) == slots' = [slots EXCEPT !.region = place]

-----------------------------------------------------------------------------
\* action_ask_receive_id: the slots take the order's receive info, and the user
\* is offered the own rows, a new one, or nothing.
AskReceiveId ==
    /\ step = "start"
    /\ slots' = order
    /\ \/ \E r \in rows : receiveId' = [id |-> "row", row |-> r] /\ step' = "confirm"
       \/ receiveId' = Own /\ step' = "content"
    /\ rounds' = 0
    /\ UNCHANGED <<rows, order>>

\* modify_content, and the new name or phone number
EnterPerson ==
    /\ step = "content"
    /\ rounds < MaxRounds
    /\ \E p \in People : slots' = [slots EXCEPT !.person = p]
    /\ rounds' = rounds + 1
    /\ step' = "more"
    /\ UNCHANGED <<rows, order, receiveId>>

\* _get_provinces
Provinces == {r.province : r \in Regions}

AskProvince ==
    /\ step = "content"
    /\ rounds < MaxRounds
    /\ \E p \in Provinces : Set([slots.region EXCEPT !.province = p])
    /\ rounds' = rounds + 1
    /\ step' = "city"
    /\ UNCHANGED <<rows, order, receiveId>>

\* Mutant of Cities: of all provinces.
CitiesAnywhere == {r.city : r \in Regions}

Cities == {r.city : r \in {x \in Regions : x.province = slots.region.province}}

AskCity ==
    /\ step = "city"
    /\ \E c \in Cities : Set([slots.region EXCEPT !.city = c])
    /\ step' = "district"
    /\ UNCHANGED <<rows, order, receiveId, rounds>>

\* The filter is on the city's name alone.
Districts == {r.district : r \in {x \in Regions : x.city = slots.region.city}}

AskDistrict ==
    /\ step = "district"
    /\ \E d \in Districts : Set([slots.region EXCEPT !.district = d])
    /\ step' = "street"
    /\ UNCHANGED <<rows, order, receiveId, rounds>>

EnterStreet ==
    /\ step = "street"
    /\ \E s \in Streets : slots' = [slots EXCEPT !.street = s]
    /\ step' = "more"
    /\ UNCHANGED <<rows, order, receiveId, rounds>>

\* if_modify_continue
More ==
    /\ step = "more"
    /\ \/ receiveId' = Modified /\ step' = "content"
       \/ UNCHANGED receiveId /\ step' = "confirm"
    /\ UNCHANGED <<rows, order, slots, rounds>>

\* modify_content is answered with "cancel": what was entered before is kept.
NoMore ==
    /\ step = "content"
    /\ step' = IF receiveId = Modified THEN "confirm" ELSE "start"
    /\ UNCHANGED <<rows, order, receiveId, slots, rounds>>

\* receive_info of action_ask_set_receive_info
Chosen == IF receiveId.id = "row" THEN receiveId.row ELSE slots

\* Confirmed: a row that the user has not is inserted, which the foreign key
\* refuses for what is no region, and the order refers to the row.
Confirm ==
    /\ step = "confirm"
    /\ IF Chosen \in rows \/ Chosen.region \in Regions
       THEN /\ rows' = rows \union {Chosen}
            /\ order' = Chosen
            /\ step' = "start"
       ELSE step' = "raised" /\ UNCHANGED <<rows, order>>
    /\ UNCHANGED <<receiveId, slots, rounds>>

\* Not confirmed, or the flow is left at any other step: the next dialogue.
Leave ==
    /\ step # "start"
    /\ step' = "start"
    /\ UNCHANGED <<rows, order, receiveId, slots, rounds>>

FormNext ==
    \/ AskReceiveId \/ EnterPerson \/ AskProvince \/ AskCity \/ AskDistrict \/ EnterStreet
    \/ More \/ NoMore \/ Confirm \/ Leave

FormSpec == FormInit /\ [][FormNext]_formVars

-----------------------------------------------------------------------------
Ambiguous(city) ==
    \E r, x \in Regions : r.city = city /\ x.city = city /\ r.province # x.province

\* What the buttons have composed can be stored: after any number of rounds, also
\* interrupted ones, the address put up for confirmation is a region - unless
\* two provinces have a city of that name.
AddressStorable ==
    step \in {"confirm", "raised"} =>
        Chosen.region \in Regions \/ Ambiguous(Chosen.region.city)

=============================================================================
