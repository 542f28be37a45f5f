----------------------------- MODULE BeamSearch -----------------------------
(***************************************************************************)
(* graph/src/models/spell_check_t5.py, generate: beam search for a batch.  *)
(* Beam j of sample b is row (b - 1) * NumBeams + j of every tensor.  A    *)
(* cost stands for a negated log probability, Inf for -inf.                *)
(***************************************************************************)
EXTENDS Naturals, Sequences, FiniteSets, SequencesExt

CONSTANTS
    BatchSize, NumBeams, MaxLength,
    Eos, Tokens,   \* the vocabulary
    Costs,         \* what a token may cost
    Inf            \* more than any beam costs

Samples == 1..BatchSize
Rows == 1..BatchSize * NumBeams
Texts == UNION {[1..n -> Tokens \ {Eos}] : n \in 0..MaxLength - 1}

VARIABLES
    cost,       \* the model: what each next token costs, by sample and prefix
    input,      \* decoder_input_ids, without the start token
    score,      \* beam_scores
    finished,   \* is_finish
    t,          \* iterations begun
    output      \* the rows returned, <<>> before

beamVars == <<cost, input, score, finished, t, output>>

Init ==
    /\ cost \in [Samples -> [Texts -> [Tokens -> Costs]]]
    /\ input = [r \in Rows |-> <<>>]
    /\ score = [r \in Rows |-> IF (r - 1) % NumBeams = 0 THEN 0 ELSE Inf]
    /\ finished = [r \in Rows |-> FALSE]
    /\ t = 0
    /\ output = <<>>

SampleOf(r) == (r - 1) \div NumBeams + 1
First(b) == (b - 1) * NumBeams + 1   \* example_offset
RowsOf(b) == First(b)..First(b) + NumBeams - 1

\* next_token_scores: a finished beam goes on with Eos for nothing.
TokenCost(r, token) ==
    IF finished[r] THEN IF token = Eos THEN 0 ELSE Inf
    ELSE cost[SampleOf(r)][input[r]][token]

Sum(x, y) == IF x + y > Inf THEN Inf ELSE x + y   \* -inf plus anything
Total(r, token) == Sum(score[r], TokenCost(r, token))

\* The NumBeams best of sample b, best first; topk may break ties in any way.
TopK(b) ==
    LET all == RowsOf(b) \X Tokens
        T(c) == Total(c[1], c[2]) IN
    {s \in [1..NumBeams -> all] :
        /\ IsInjective(s)
        /\ \A i \in 1..NumBeams - 1 : T(s[i]) <= T(s[i + 1])
        /\ \A c \in all \ ToSet(s) : T(s[NumBeams]) <= T(c)}

\* The rows after the iteration that took `top`: from which beam, with which token.
Taken(top, r) == top[SampleOf(r)][((r - 1) % NumBeams) + 1]

\* torch.cat of decoder_input_ids[beam_indices] and the tokens.
Extended(top) == [r \in Rows |-> Append(input[Taken(top, r)[1]], Taken(top, r)[2])]

Iterate ==
    /\ output = <<>>
    /\ t < MaxLength
    /\ t' = t + 1
    /\ \E top \in [Samples -> UNION {TopK(b) : b \in Samples}] :
        /\ \A b \in Samples : top[b] \in TopK(b)
        /\ score' = [r \in Rows |-> Total(Taken(top, r)[1], Taken(top, r)[2])]
        /\ finished' = [r \in Rows |-> finished[Taken(top, r)[1]] \/ Taken(top, r)[2] = Eos]
        /\ IF \A r \in Rows : finished'[r]
           THEN /\ UNCHANGED input   \* break
                /\ output' = [b \in Samples |-> input[First(b)]]
           ELSE /\ input' = Extended(top)
                /\ UNCHANGED output
    /\ UNCHANGED cost

\* After max_length iterations; the best beam is the first, as topk sorts.
Return ==
    /\ output = <<>>
    /\ t = MaxLength
    /\ output' = [b \in Samples |-> input[First(b)]]
    /\ UNCHANGED <<cost, input, score, finished, t>>

BeamNext == Iterate \/ Return

Spec == Init /\ [][BeamNext]_beamVars

-----------------------------------------------------------------------------
\* What a row has cost: its tokens up to the first Eos.
CostOf(b, row) ==
    LET ends == {i \in DOMAIN row : row[i] = Eos}
        n == IF ends = {} THEN Len(row) ELSE CHOOSE i \in ends : \A j \in ends : i <= j
        upTo[i \in 0..n] ==
            IF i = 0 THEN 0 ELSE upTo[i - 1] + cost[b][SubSeq(row, 1, i - 1)][row[i]] IN
    upTo[n]

\* The comment before the return: each sample's beam with the best score is
\* selected.  What is returned has that score, but for the closing Eos.
ReturnsBestBeam ==
    output # <<>> => \A b \in Samples :
        score[First(b)] \in {CostOf(b, output[b])} \union
            (IF output[b] \in Texts THEN {CostOf(b, Append(output[b], Eos))} ELSE {})

=============================================================================
