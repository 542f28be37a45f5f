------------------------------- MODULE Bloom -------------------------------
(***************************************************************************)
(* core/redis_bloom.py: a Bloom filter in a Redis bitmap, used as          *)
(* CachePenetrationGuard is meant to be: who has stored a row calls        *)
(* mark_exist, which does not look at what add answers, and a row is       *)
(* looked up only if should_query says so.  The two SHA-256 values of an   *)
(* element are constants.  add and exists send a command per position, the *)
(* batch operations one pipeline, in MULTI/EXEC as is redis-py's default.  *)
(***************************************************************************)
EXTENDS Naturals, Sequences, SequencesExt

CONSTANTS
    Elements,
    Hash1, Hash2,   \* h1 and h2 of each element
    HashCount,      \* _hash_count
    BitSize,        \* _bit_size
    MaxLost         \* bound: calls that raise

\* More than no element is expected, and with a rate below 1.
ASSUME BloomAssumption == HashCount \in Nat \ {0}

VARIABLES
    ones,      \* the bitmap: positions that are 1
    adding,    \* the next position, of 1..HashCount, that the add of each element
               \* sets; 0 before, HashCount + 1 after
    added,     \* history: elements whose add, alone or in a batch, returned True
    asking,    \* the next position that an exists of each element reads, 0 if none
    before,    \* history: what had been added when that exists began
    missed,    \* history: elements declared absent although added before the question
    lost       \* history: calls that raised

bloomVars == <<ones, adding, added, asking, before, missed, lost>>

BloomInit ==
    /\ ones = {}
    /\ adding = [e \in Elements |-> 0]
    /\ added = {}
    /\ asking = [e \in Elements |-> 0]
    /\ before = [e \in Elements |-> {}]
    /\ missed = {}
    /\ lost = 0

\* _get_positions: positions of one element may coincide, but there are always
\* HashCount of them.
Positions(e) == [i \in 1..HashCount |-> (Hash1[e] + (i - 1) * Hash2[e]) % BitSize]

Lose == lost < MaxLost /\ lost' = lost + 1

Absent(S, known) == missed' = missed \union (S \cap known)

-----------------------------------------------------------------------------
(***************************************************************************)
(* add, and mark_exist                                                     *)
(***************************************************************************)
AddElement(e) ==
    /\ adding[e] = 0
    /\ adding' = [adding EXCEPT ![e] = 1]
    /\ UNCHANGED <<ones, added, asking, before, missed, lost>>

\* setbit of one position, True after the last; an exception ends the add, with
\* the bit set or not, and nobody tries again.
SetPosition(e) ==
    /\ adding[e] \in 1..HashCount
    /\ \/ /\ ones' = ones \union {Positions(e)[adding[e]]}
          /\ adding' = [adding EXCEPT ![e] = @ + 1]
          /\ added' = IF adding[e] = HashCount THEN added \union {e} ELSE added
          /\ UNCHANGED lost
       \/ /\ ones' \in {ones, ones \union {Positions(e)[adding[e]]}}
          /\ adding' = [adding EXCEPT ![e] = HashCount + 1]
          /\ UNCHANGED added
          /\ Lose
    /\ UNCHANGED <<asking, before, missed>>

AddBatch(batch) ==
    LET all == ones \union UNION {ToSet(Positions(e)) : e \in batch} IN
    /\ \A e \in batch : adding[e] = 0
    /\ adding' = [e \in Elements |-> IF e \in batch THEN HashCount + 1 ELSE adding[e]]
    /\ \/ ones' = all /\ added' = added \union batch /\ UNCHANGED lost
       \/ ones' \in {ones, all} /\ Lose /\ UNCHANGED added
    /\ UNCHANGED <<asking, before, missed>>

-----------------------------------------------------------------------------
(***************************************************************************)
(* exists, and should_query                                                *)
(***************************************************************************)
Exists(e) ==
    /\ asking[e] = 0
    /\ asking' = [asking EXCEPT ![e] = 1]
    /\ before' = [before EXCEPT ![e] = added]
    /\ UNCHANGED <<ones, adding, added, missed, lost>>

Conclude(e, answer) ==
    /\ Absent(IF answer THEN {} ELSE {e}, before[e])
    /\ asking' = [asking EXCEPT ![e] = 0]
    /\ before' = [before EXCEPT ![e] = {}]

\* getbit: False at the first 0, True after the last position or for an exception.
GetPosition(e) ==
    /\ asking[e] # 0
    /\ \/ IF Positions(e)[asking[e]] \notin ones THEN Conclude(e, FALSE) /\ UNCHANGED lost
          ELSE IF asking[e] = HashCount THEN Conclude(e, TRUE) /\ UNCHANGED lost
          ELSE asking' = [asking EXCEPT ![e] = @ + 1] /\ UNCHANGED <<before, missed, lost>>
       \/ Conclude(e, TRUE) /\ Lose
    /\ UNCHANGED <<ones, adding, added>>

\* Mutant of Group: start stays 0.
GroupFirst(results, i) == SubSeq(results, 1, HashCount)

\* results[start:end]
Group(results, i) == SubSeq(results, i * HashCount + 1, i * HashCount + HashCount)

\* exists_batch, of two elements: the bits of both come in one list.
ExistsBatch(d, e) ==
    LET positions == Positions(d) \o Positions(e)
        results == [p \in DOMAIN positions |-> positions[p] \in ones]
        No(i) == FALSE \in ToSet(Group(results, i))
    IN
    /\ \/ Absent({x \in {d, e} : (x = d /\ No(0)) \/ (x = e /\ No(1))}, added) /\ UNCHANGED lost
       \/ UNCHANGED missed /\ Lose
    /\ UNCHANGED <<ones, adding, added, asking, before>>

BloomNext ==
    \/ \E e \in Elements : AddElement(e) \/ SetPosition(e) \/ Exists(e) \/ GetPosition(e)
    \/ \E S \in SUBSET Elements : AddBatch(S)
    \/ \E d, e \in Elements : ExistsBatch(d, e)

BloomSpec == BloomInit /\ [][BloomNext]_bloomVars

-----------------------------------------------------------------------------
(***************************************************************************)
(* Properties                                                              *)
(***************************************************************************)

\* Whatever runs beside it and whatever raises, an element whose add returned
\* True before the question is never declared absent.
NeverLosesAdded == missed = {}

=============================================================================
