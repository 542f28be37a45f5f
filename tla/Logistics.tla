------------------------------ MODULE Logistics ------------------------------
(***************************************************************************)
(* actions/action_logistics.py: dialogues that ask for the logistics       *)
(* companies, whose list is cached, and dialogues that complain about one  *)
(* parcel, which is offered and recorded without a lock while the carrier  *)
(* moves it.                                                               *)
(***************************************************************************)
EXTENDS Naturals, Sequences, SequencesExt

CONSTANTS
    Talks,
    CacheTtl,    \* cacheable's ttl
    Slow,        \* bound: ticks from a query of the list to its SET
    MaxTime      \* bound

ASSUME LogisticsAssumption == CacheTtl \in Nat /\ Slow \in Nat

NoList == [list |-> 0, at |-> 0]

VARIABLES
    now,
    changed,         \* the times at which lists 1, 2, ... of companies were replaced
    cache,           \* the cached list and when it expires
    loading,         \* by dialogue: the list queried and not yet cached, and when
    told,            \* history: the list told last, and when
    parcel,          \* the order's parcel: "none" (no row), "shipped", "delivered"
    arrived,         \* history: when it was delivered
    complaintStage,  \* by dialogue: where it is in the complaint flow
    offer,           \* by dialogue: the kind of reasons offered, and when
    record           \* the newest row of logistics_complaints_record: the kind of its
                     \* reason, when that was offered, and the parcel when it was written

logisticsVars ==
    <<now, changed, cache, loading, told, parcel, arrived, complaintStage, offer, record>>

listVars == <<changed, cache, loading, told>>
parcelVars == <<parcel, arrived>>
complaintVars == <<complaintStage, offer, record>>

LogisticsInit ==
    /\ now = 0
    /\ changed = <<>>
    /\ cache = NoList
    /\ loading = [d \in Talks |-> NoList]
    /\ told = NoList
    /\ parcel = "none"
    /\ arrived = 0
    /\ complaintStage = [d \in Talks |-> "start"]
    /\ offer = [d \in Talks |-> [kind |-> "none", at |-> 0]]
    /\ record = [kind |-> "none", offered |-> 0, of |-> "none"]

Current == Len(changed) + 1

-----------------------------------------------------------------------------
\* The database and the carrier.
ChangeList ==
    /\ changed' = Append(changed, now)
    /\ Len(changed) < MaxTime
    /\ UNCHANGED <<now, cache, loading, told, parcelVars, complaintVars>>

Ship ==
    /\ parcel = "none"
    /\ parcel' = "shipped"
    /\ UNCHANGED <<now, arrived, listVars, complaintVars>>

Deliver ==
    /\ parcel = "shipped"
    /\ parcel' = "delivered"
    /\ arrived' = now
    /\ UNCHANGED <<now, listVars, complaintVars>>

Tick ==
    /\ now < MaxTime
    /\ \A d \in Talks : loading[d].list # 0 => now < loading[d].at + Slow
    /\ now' = now + 1
    /\ UNCHANGED <<listVars, parcelVars, complaintVars>>

-----------------------------------------------------------------------------
(***************************************************************************)
(* GetLogisticsCompanys                                                    *)
(***************************************************************************)
Tell(list) == told' = [list |-> list, at |-> now]

\* Mutant of FromCache: a hit renews the entry.
FromCacheRenewed(d) ==
    /\ loading[d].list = 0
    /\ cache.list # 0
    /\ now < cache.at
    /\ cache' = [cache EXCEPT !.at = now + CacheTtl]
    /\ Tell(cache.list)
    /\ UNCHANGED <<now, changed, loading, parcelVars, complaintVars>>

FromCache(d) ==
    /\ loading[d].list = 0
    /\ cache.list # 0
    /\ now < cache.at
    /\ Tell(cache.list)
    /\ UNCHANGED <<now, changed, cache, loading, parcelVars, complaintVars>>

\* A miss, or a failing GET: the companies are queried,
Query(d) ==
    /\ loading[d].list = 0
    /\ loading' = [loading EXCEPT ![d] = [list |-> Current, at |-> now]]
    /\ UNCHANGED <<now, changed, cache, told, parcelVars, complaintVars>>

\* cached, unless SET fails, and told.
Store(d) ==
    /\ loading[d].list # 0
    /\ cache' \in {cache, [list |-> loading[d].list, at |-> now + CacheTtl]}
    /\ Tell(loading[d].list)
    /\ loading' = [loading EXCEPT ![d] = NoList]
    /\ UNCHANGED <<now, changed, parcelVars, complaintVars>>

-----------------------------------------------------------------------------
(***************************************************************************)
(* The flow logistics_complaint                                            *)
(***************************************************************************)
ComplaintTo(d, place) == complaintStage' = [complaintStage EXCEPT ![d] = place]

\* GetLogisticsInfo takes the order's first parcel; without one it raises.
GetInfo(d) ==
    /\ complaintStage[d] = "start"
    /\ ComplaintTo(d, IF parcel = "none" THEN "raised" ELSE "informed")
    /\ UNCHANGED <<now, listVars, parcelVars, offer, record>>

\* AskLogisticsComplaint: the reasons for the status by delivered_time.
AskComplaint(d) ==
    /\ complaintStage[d] = "informed"
    /\ offer' = [offer EXCEPT ![d] = [kind |-> parcel, at |-> now]]
    /\ ComplaintTo(d, "offered")
    /\ UNCHANGED <<now, listVars, parcelVars, record>>

\* The user takes one of the reasons, "other" or "cancel".
Choose(d) ==
    /\ complaintStage[d] = "offered"
    /\ \/ ComplaintTo(d, "record") /\ UNCHANGED offer
       \/ ComplaintTo(d, "record") /\ offer' = [offer EXCEPT ![d].kind = "other"]
       \/ ComplaintTo(d, "start") /\ UNCHANGED offer
    /\ UNCHANGED <<now, listVars, parcelVars, record>>

\* RecordLogisticsComplaint writes what is in the slots; a failing commit raises.
Record(d) ==
    /\ complaintStage[d] = "record"
    /\ \/ /\ record' = [kind |-> offer[d].kind, offered |-> offer[d].at, of |-> parcel]
          /\ ComplaintTo(d, "start")
       \/ UNCHANGED record /\ ComplaintTo(d, "raised")
    /\ UNCHANGED <<now, listVars, parcelVars, offer>>

ListNext ==
    \/ ChangeList \/ Tick
    \/ \E d \in Talks : FromCache(d) \/ Query(d) \/ Store(d)

ComplaintNext ==
    \/ Ship \/ Deliver \/ Tick
    \/ \E d \in Talks : GetInfo(d) \/ AskComplaint(d) \/ Choose(d) \/ Record(d)

LogisticsSpec == LogisticsInit /\ [][ListNext \/ ComplaintNext]_logisticsVars

-----------------------------------------------------------------------------
(***************************************************************************)
(* Properties                                                              *)
(***************************************************************************)

\* A list of companies that a user is told was in the table at most the cache's
\* TTL and the time of a load ago, however many dialogues load and store it.
ListIsRecent ==
    told.list \in DOMAIN changed => told.at <= changed[told.list] + CacheTtl + Slow

\* A recorded reason fits what the parcel was when it was recorded, unless the
\* parcel was delivered after the reasons had been offered.
ReasonFits ==
    \/ record.kind \in {record.of, "other"}
    \/ record.of = "delivered" /\ arrived >= record.offered

\* Both, of what users are told and of what is recorded.
ToldWasTrue == ListIsRecent /\ ReasonFits

=============================================================================
