------------------------------- MODULE Spans -------------------------------
(***************************************************************************)
(* graph/external_lib/uie_pytorch/utils.py, get_span: pairs the positions  *)
(* where an entity may start with those where one may end.  Both lists     *)
(* are walked with one pointer each; what is left of them here is the set  *)
(* behind the pointer, and the dictionary is a set of [start, end].        *)
(***************************************************************************)
EXTENDS Integers, FiniteSets

CONSTANT Positions    \* of the tokens: numbers

ASSUME SpansAssumption == Positions \subseteq Nat

VARIABLES
    starts, ends,  \* start_ids and end_ids from their pointers on
    couples        \* couple_dict, from an end to its start

spanVars == <<starts, ends, couples>>

\* get_bool_ids_greater_than: any positions may be above the limit.
SpanInit ==
    /\ starts \in SUBSET Positions
    /\ ends \in SUBSET Positions
    /\ couples = {}

IsNext(p, S) == p \in S /\ \A q \in S : p <= q

\* Mutant of Couple: the end keeps its other start too.
CoupleToo(s, e) == couples' = couples \union {[start |-> s, end |-> e]}

\* couple_dict[e] = s: an earlier start of this end is replaced.
Couple(s, e) == couples' = {c \in couples : c.end # e} \union {[start |-> s, end |-> e]}


Single(s, e) ==
    /\ s = e
    /\ Couple(s, e)
    /\ starts' = starts \ {s}
    /\ ends' = ends \ {e}

StartBefore(s, e) ==
    /\ s < e
    /\ Couple(s, e)
    /\ starts' = starts \ {s}
    /\ UNCHANGED ends

EndBefore(s, e) ==
    /\ s > e
    /\ ends' = ends \ {e}
    /\ UNCHANGED <<starts, couples>>

SpanNext ==
    \E s \in starts, e \in ends :
        /\ IsNext(s, starts)
        /\ IsNext(e, ends)
        /\ Single(s, e) \/ StartBefore(s, e) \/ EndBefore(s, e)

SpanSpec == SpanInit /\ [][SpanNext]_spanVars

-----------------------------------------------------------------------------
\* "The span set without overlapping, every id can only be used once": no two
\* spans share a position, whatever positions the model finds likely.
WithoutOverlap ==
    \A c, d \in couples : c # d => c.end < d.start \/ d.end < c.start

=============================================================================
