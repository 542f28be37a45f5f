----------------------------- MODULE ChatService -----------------------------
(***************************************************************************)
(* graph/src/web: /api/chat answers each question in a thread of its own,  *)
(* and all threads share one ChatService and with it one UIEPredictor      *)
(* (graph/external_lib/uie_pytorch/uie_predictor.py), which keeps the      *)
(* schema and the mapping of a text to its pieces in attributes of the     *)
(* object.  A question is so many pieces long as the model needs.          *)
(***************************************************************************)
EXTENDS Naturals, Sequences, SequencesExt, FiniteSets

CONSTANTS
    Questions,   \* the requests
    Pieces,      \* how many pieces each question is cut into
    Kinds        \* what a question may hold and a schema ask for, with "product"

ASSUME ChatAssumption == Pieces \in [Questions -> Nat \ {0}]

VARIABLES
    requestStage,  \* where each request is
    schema,        \* the schema its intent needs, a sequence
    schemaTree,    \* self._schema_tree of the predictor
    kindsLeft,     \* schema_list: the kinds still to be predicted
    mapping,       \* self.input_mapping: how many pieces it maps
    result,        \* the kinds found
    partly,        \* history: pieces of the question were left out
    overlapped     \* history: another request was in the predictor meanwhile

chatVars == <<requestStage, schema, schemaTree, kindsLeft, mapping, result, partly, overlapped>>

\* The intents that chat handles; for all others it answers "please ask again".
Schemas == {<<"product">>} \union {<<"product", k>> : k \in Kinds \ {"product"}}

ChatInit ==
    /\ requestStage = [q \in Questions |-> "asked"]
    /\ schema = [q \in Questions |-> <<>>]
    /\ schemaTree = <<>>
    /\ kindsLeft = [q \in Questions |-> <<>>]
    /\ mapping = 1
    /\ result = [q \in Questions |-> {}]
    /\ partly = [q \in Questions |-> FALSE]
    /\ overlapped = [q \in Questions |-> FALSE]

RequestTo(q, place) == requestStage' = [requestStage EXCEPT ![q] = place]

Predicting == {"schema set", "split", "prompted", "inferred"}

\* chat: the intent.  A thread that starts overlaps those that are predicting.
SetSchema(q) ==
    /\ requestStage[q] = "asked"
    /\ \E s \in Schemas :
        /\ schema' = [schema EXCEPT ![q] = s]
        /\ schemaTree' = s
    /\ overlapped' = [p \in Questions |->
           overlapped[p] \/ (requestStage[p] \in Predicting
                             \/ (p = q /\ \E o \in Questions : requestStage[o] \in Predicting))]
    /\ RequestTo(q, "schema set")
    /\ UNCHANGED <<kindsLeft, mapping, result, partly>>

OtherIntent(q) ==
    /\ requestStage[q] = "asked"
    /\ RequestTo(q, "ask again")
    /\ UNCHANGED <<schema, schemaTree, kindsLeft, mapping, result, partly, overlapped>>

\* _multi_stage_predict copies the children of the tree as it is now; all schemas
\* are flat.
CopySchema(q) ==
    /\ requestStage[q] = "schema set"
    /\ kindsLeft' = [kindsLeft EXCEPT ![q] = schemaTree]
    /\ RequestTo(q, "split")
    /\ UNCHANGED <<schema, schemaTree, mapping, result, partly, overlapped>>

\* _single_stage_predict for the next kind: _auto_splitter,
Split(q) ==
    /\ requestStage[q] = "split"
    /\ kindsLeft[q] # <<>>
    /\ mapping' = Pieces[q]
    /\ RequestTo(q, "prompted")
    /\ UNCHANGED <<schema, schemaTree, kindsLeft, result, partly, overlapped>>

\* a prompt for each piece of the mapping - the lists must have one length -,
Prompt(q) ==
    /\ requestStage[q] = "prompted"
    /\ RequestTo(q, IF mapping = Pieces[q] THEN "inferred" ELSE "raised")
    /\ UNCHANGED <<schema, schemaTree, kindsLeft, mapping, result, partly, overlapped>>

\* and, after the model, _auto_joiner with what is the mapping by then.
Join(q) ==
    /\ requestStage[q] = "inferred"
    /\ IF mapping > Pieces[q] THEN RequestTo(q, "raised") /\ UNCHANGED <<kindsLeft, result, partly>>
       ELSE /\ partly' = [partly EXCEPT ![q] = @ \/ mapping < Pieces[q]]
            /\ result' \in {result, [result EXCEPT ![q] = @ \union {Head(kindsLeft[q])}]}
            /\ kindsLeft' = [kindsLeft EXCEPT ![q] = Tail(@)]
            /\ RequestTo(q, "split")
    /\ UNCHANGED <<schema, schemaTree, mapping, overlapped>>

\* Mutant of Complete: any entity will do.
AnyFound(q) == result[q] # {}

\* len(result.keys()) == len(schema)
Complete(q) == Cardinality(result[q]) = Len(schema[q])

\* The parameters of the query are looked up in the result by their kind; without
\* records the user is asked again.
Answer(q) ==
    /\ requestStage[q] = "split"
    /\ kindsLeft[q] = <<>>
    /\ IF ~Complete(q) THEN RequestTo(q, "ask again")
       ELSE IF ~(ToSet(schema[q]) \subseteq result[q]) THEN RequestTo(q, "raised")
       ELSE RequestTo(q, "answered") \/ RequestTo(q, "ask again")
    /\ UNCHANGED <<schema, schemaTree, kindsLeft, mapping, result, partly, overlapped>>

ChatNext ==
    \E q \in Questions :
        \/ SetSchema(q) \/ OtherIntent(q) \/ CopySchema(q) \/ Split(q) \/ Prompt(q) \/ Join(q)
        \/ Answer(q)

ChatSpec == ChatInit /\ [][ChatNext]_chatVars

-----------------------------------------------------------------------------
\* A question that no other one overlapped is never answered with an exception,
\* nor from a part of it; and no interleaving makes an answer that was looked up
\* under another question's kinds.
FailureNeedsOverlap ==
    \A q \in Questions :
        /\ requestStage[q] = "raised" \/ partly[q] => overlapped[q]
        /\ requestStage[q] = "answered" => ToSet(schema[q]) \subseteq result[q]

=============================================================================
