----------------------------- MODULE RedisCalls -----------------------------
(***************************************************************************)
(* The functions of core/redis_client.py that are one command or one       *)
(* script, and the ids core/distributed_id.py takes with them.  A call     *)
(* that raises answers a default value, and so does a call that Redis has  *)
(* executed and whose reply is lost: its caller cannot tell them apart.    *)
(***************************************************************************)
EXTENDS Integers, Sequences

CONSTANTS
    Users, Goods,
    Stock,          \* pieces of each of the goods
    PurchaseLimit,  \* limit of atomic_check_and_purchase
    Segment,        \* count of batch_next_ids
    MaxCalls,       \* bound: calls
    MaxFaults       \* bound: calls that raise

ASSUME CallsAssumption ==
    /\ "shop" \notin Users
    /\ Stock \in Nat
    /\ PurchaseLimit \in Nat
    /\ Segment \in Nat \ {0}

VARIABLES
    stock,     \* the stock key of each of the goods
    bought,    \* purchase_limit:user:..., one key for all goods of a user
    bitmap,    \* the bitmap: users whose bit is set
    counter,   \* the counter of the ids
    sold,      \* history: the pieces of each of the goods that buyers know they have
    has,       \* history: the pieces each buyer, a user or the shop, knows it has
    segments,  \* history: the id segments handed out, in order
    wrong,     \* history: the answers that what callers know does not explain
    calls, faults

callVars == <<stock, bought, bitmap, counter, sold, has, segments, wrong, calls,
              faults>>

Shop == "shop"   \* the caller of atomic_deduct
Buyers == Users \union {Shop}

CallsInit ==
    /\ stock = [g \in Goods |-> Stock]
    /\ bought = [u \in Users |-> 0]
    /\ bitmap = {}
    /\ counter = 0
    /\ sold = [g \in Goods |-> 0]
    /\ has = [b \in Buyers |-> 0]
    /\ segments = <<>>
    /\ wrong = {}
    /\ calls = 0
    /\ faults = 0

\* A command that changes something: it is executed and answered, or it raises,
\* executed or not, and the caller gets the default.
Command(effect, unchanged, answer, default) ==
    /\ calls < MaxCalls
    /\ calls' = calls + 1
    /\ \/ effect /\ answer /\ UNCHANGED faults
       \/ (effect \/ unchanged) /\ default /\ faults < MaxFaults /\ faults' = faults + 1

\* One that changes nothing.
Query(unchanged, answer, default) == Command(unchanged, FALSE, answer, default)

Wrong(what, unexplained) == wrong' = IF unexplained THEN wrong \union {what} ELSE wrong

\* As far as the callers know there are n pieces left, within the buyer's limit.
Possible(b, g, n) == sold[g] + n <= Stock /\ (b \in Users => has[b] + n <= PurchaseLimit)

TakeStock(g, n) == stock' = [stock EXCEPT ![g] = @ - n]

Sell(b, g, n) ==
    /\ sold' = [sold EXCEPT ![g] = @ + n]
    /\ has' = [has EXCEPT ![b] = @ + n]
    /\ Wrong("sold", ~Possible(b, g, n))

Refuse(b, g, n) ==
    /\ Wrong("refused", Possible(b, g, n))
    /\ UNCHANGED <<sold, has>>

-----------------------------------------------------------------------------
(***************************************************************************)
(* Lua deductions                                                          *)
(***************************************************************************)

\* Mutant of Admitted: a purchase that reaches the limit is refused.
AdmittedBelow(u, g, n) == bought[u] + n < PurchaseLimit /\ n <= stock[g]

\* The script's two checks.
Admitted(u, g, n) == bought[u] + n <= PurchaseLimit /\ n <= stock[g]

\* atomic_check_and_purchase: LIMIT or STOCK, a success, or ERROR.
Purchase(u, g, n) ==
    IF Admitted(u, g, n)
    THEN Command(TakeStock(g, n) /\ bought' = [bought EXCEPT ![u] = @ + n],
                 UNCHANGED <<stock, bought>>, Sell(u, g, n), Refuse(u, g, n))
    ELSE Query(UNCHANGED <<stock, bought>>, Refuse(u, g, n), Refuse(u, g, n))

\* atomic_deduct, on the same stock.
Deduct(g, n) ==
    /\ IF n <= stock[g]
       THEN Command(TakeStock(g, n), UNCHANGED stock, Sell(Shop, g, n), Refuse(Shop, g, n))
       ELSE Query(UNCHANGED stock, Refuse(Shop, g, n), Refuse(Shop, g, n))
    /\ UNCHANGED bought

-----------------------------------------------------------------------------
(***************************************************************************)
(* Bitmap and ids                                                          *)
(***************************************************************************)

\* setbit answers the old value of the bit, and 0 when it raises: the caller
\* then takes the bit for one that has just been set.
SetBit(u) == Command(bitmap' = bitmap \union {u}, UNCHANGED bitmap, UNCHANGED wrong, Wrong("setbit", TRUE))

\* getbit answers the bit, and 0 when it raises.
GetBit(u) == Query(UNCHANGED bitmap, UNCHANGED wrong, Wrong("getbit", u \in bitmap))

\* batch_next_ids: [end - count + 1, end] of what cache_incr answers, which is
\* -1 when it raises.  (next_id_redis, and with it gen_order_id and
\* gen_postsale_id, is a segment of one.)
SegmentUpTo(end) == end - Segment + 1..end

HandOut(end) == segments' = Append(segments, SegmentUpTo(end))

NextIds ==
    Command(counter' = counter + Segment, UNCHANGED counter,
            HandOut(counter + Segment), HandOut(-1))

-----------------------------------------------------------------------------
CallsNext ==
    \/ /\ \E g \in Goods, n \in 1..Stock : Deduct(g, n) \/ \E u \in Users : Purchase(u, g, n)
       /\ UNCHANGED <<bitmap, counter, segments>>
    \/ /\ \E u \in Users : SetBit(u) \/ GetBit(u)
       /\ UNCHANGED <<stock, bought, counter, sold, has, segments>>
    \/ /\ NextIds
       /\ UNCHANGED <<stock, bought, bitmap, sold, has, wrong>>

CallsSpec == CallsInit /\ [][CallsNext]_callVars

-----------------------------------------------------------------------------
(***************************************************************************)
(* Properties                                                              *)
(***************************************************************************)

\* Two callers are given the same id only if the calls of both have raised: they
\* then use the same negative ids.
IdsDisjoint ==
    \A i, j \in DOMAIN segments :
        i < j /\ segments[i] \cap segments[j] # {}
            => segments[i] = segments[j] /\ segments[i] = SegmentUpTo(-1)

\* No sale ever exceeds the stock or a user's limit, over all goods, and before
\* a call raises every refusal is explained by the sales that buyers know of, and
\* every id is given away once.
AnswersExplained == IdsDisjoint /\ "sold" \notin wrong /\ (wrong # {} => faults > 0)
=============================================================================
