----------------------------- MODULE GraphSearch -----------------------------
(***************************************************************************)
(* addons/information_retrieval.py, GraphRAG.search, against               *)
(* addons/create_indexing.py, which drops and rebuilds the indexes that    *)
(* the search reads, may die and is run again, while the graph grows.      *)
(* What the language models answer is a choice.                            *)
(***************************************************************************)
EXTENDS Naturals, Sequences, SequencesExt, FiniteSets

CONSTANTS
    Nodes,        \* those of the indexed labels: strings, but not "unread" and "raised"
    Labels,       \* a sequence: the indexed labels, in the script's order
    LabelOf,      \* the label of each node
    Routes,       \* what the routing model may answer: sequences of [label, entity],
                  \* entity "number", "words" (that a node contains), "paraphrase", ""
    WriteBatch,   \* insert_batch_size
    MaxRuns       \* bound: runs of the script

\* Users are not indexed; they are found by their number.
ASSUME RetrievalAssumption ==
    /\ Labels \in Seq(STRING) \ {<<>>}
    /\ "User" \notin ToSet(Labels)
    /\ LabelOf \in [Nodes -> ToSet(Labels)]

VARIABLES
    present,                     \* the nodes in the graph
    embedded, worded,            \* those with an embedding, with a fulltext
    vectorIndex, fulltextIndex,  \* the labels that have the index
    script,                      \* where create_indexing is, and at which label
    todo,                        \* the nodes it is to write
    runs,
    built,                       \* history: nodes there when the last run began, if it ended
    searchStage,                 \* where search is
    route,                       \* route_res without the items that are passed over
    found,                       \* by item: the nodes found, or Unread, or Raised
    expected,                    \* history: built, if no run began since the search started
    cypher,                      \* the statement: sound?, directed?, and how often it was corrected
    cypherErrors,                \* validate_cypher found some
    reviewed                     \* history: what the reviewing model answered

graphVars == <<present, embedded, worded, vectorIndex, fulltextIndex>>
scriptVars == <<script, todo, runs, built>>
queryVars == <<cypher, cypherErrors, reviewed>>
searchVars == <<searchStage, route, found, expected, queryVars>>
retrievalVars == <<graphVars, scriptVars, searchVars>>

Unread == {"unread"}
Raised == {"raised"}
At(place, i) == [place |-> place, label |-> i]
NoCypher == [valid |-> FALSE, directed |-> FALSE, corrected |-> 0]

OfLabel(l, S) == {n \in S : LabelOf[n] = l}

RetrievalInit ==
    /\ present \in SUBSET Nodes
    /\ embedded = present /\ worded = present
    /\ vectorIndex = ToSet(Labels) /\ fulltextIndex = ToSet(Labels)
    /\ script = At("idle", 1)
    /\ todo = {}
    /\ runs = 0
    /\ built = present
    /\ searchStage = "start"
    /\ route = <<>>
    /\ found = <<>>
    /\ expected = {}
    /\ cypher = NoCypher
    /\ cypherErrors = FALSE
    /\ reviewed = "no"

-----------------------------------------------------------------------------
(***************************************************************************)
(* create_indexing                                                         *)
(***************************************************************************)
Script(from, to) == script = from /\ script' = to

\* drop_constraint and drop_index_without_constraint, one index at a time.
BeginIndexing ==
    /\ runs < MaxRuns
    /\ Script(At("idle", 1), At("drop", 1))
    /\ runs' = runs + 1
    /\ built' = present
    /\ expected' = {}
    /\ UNCHANGED <<graphVars, todo, searchStage, route, found, queryVars>>

DropIndex ==
    /\ script.place = "drop"
    /\ \/ \E l \in vectorIndex : vectorIndex' = vectorIndex \ {l} /\ UNCHANGED fulltextIndex
       \/ \E l \in fulltextIndex : fulltextIndex' = fulltextIndex \ {l} /\ UNCHANGED vectorIndex
    /\ UNCHANGED <<present, embedded, worded, scriptVars, searchVars>>

\* "match (n) remove n.embedding", and the same for the full texts
RemoveEmbeddings ==
    /\ vectorIndex \union fulltextIndex = {}
    /\ Script(At("drop", 1), At("vector", 1))
    /\ embedded' = {}
    /\ UNCHANGED <<present, worded, vectorIndex, fulltextIndex, todo, runs, built, searchVars>>

\* Mutant of CreateVectorIndex: nodes that have a full text are taken for done.
CreateVectorIndexOfRest ==
    /\ script.place = "vector"
    /\ vectorIndex' = vectorIndex \union {Labels[script.label]}
    /\ todo' = OfLabel(Labels[script.label], present \ worded)
    /\ script' = At("embed", script.label)
    /\ UNCHANGED <<present, embedded, worded, fulltextIndex, runs, built, searchVars>>

\* vector_indexing: the index, and the nodes that have no embedding,
CreateVectorIndex ==
    /\ script.place = "vector"
    /\ vectorIndex' = vectorIndex \union {Labels[script.label]}
    /\ todo' = OfLabel(Labels[script.label], present \ embedded)
    /\ script' = At("embed", script.label)
    /\ UNCHANGED <<present, embedded, worded, fulltextIndex, runs, built, searchVars>>

After(place, next) ==
    IF script.label < Len(Labels) THEN At(place, script.label + 1) ELSE At(next, 1)

\* whose embeddings are computed and written.
WriteEmbeddings ==
    /\ script.place = "embed"
    /\ embedded' = embedded \union todo
    /\ todo' = {}
    /\ script' = After("vector", "forget")
    /\ UNCHANGED <<present, worded, vectorIndex, fulltextIndex, runs, built, searchVars>>

RemoveFulltexts ==
    /\ Script(At("forget", 1), At("fulltext", 1))
    /\ worded' = {}
    /\ UNCHANGED <<present, embedded, vectorIndex, fulltextIndex, todo, runs, built, searchVars>>

CreateFulltextIndex ==
    /\ script.place = "fulltext"
    /\ fulltextIndex' = fulltextIndex \union {Labels[script.label]}
    /\ todo' = OfLabel(Labels[script.label], present \ worded)
    /\ script' = At("words", script.label)
    /\ UNCHANGED <<present, embedded, worded, vectorIndex, runs, built, searchVars>>

\* A batch of full texts; after the last the script goes on to the next label.
WriteFulltexts ==
    /\ script.place = "words"
    /\ \E batch \in SUBSET todo :
        /\ Cardinality(batch) = IF Cardinality(todo) < WriteBatch THEN Cardinality(todo) ELSE WriteBatch
        /\ worded' = worded \union batch
        /\ todo' = todo \ batch
    /\ script' = IF todo' = {} THEN After("fulltext", "idle") ELSE script
    /\ UNCHANGED <<present, embedded, vectorIndex, fulltextIndex, runs, built, searchVars>>

\* The script dies; what it did stays.
Die ==
    /\ script.place # "idle"
    /\ script' = At("idle", 1)
    /\ todo' = {}
    /\ built' = {}
    /\ UNCHANGED <<graphVars, runs, searchVars>>

\* datasync adds a node; nothing indexes it before the script runs again.
AddNode ==
    /\ \E n \in Nodes \ present : present' = present \union {n}
    /\ UNCHANGED <<embedded, worded, vectorIndex, fulltextIndex, scriptVars, searchVars>>

-----------------------------------------------------------------------------
(***************************************************************************)
(* search                                                                  *)
(***************************************************************************)
SearchTo(place) == searchStage' = place

\* get_chat_history and route_label: items without an entity are passed over.
\* An event without a text raises, and so may a model.
Route ==
    /\ searchStage = "start"
    /\ \/ \E items \in Routes :
            /\ route' = SelectSeq(items, LAMBDA i : i.entity # "")
            /\ found' = [i \in DOMAIN route' |-> Unread]
            /\ expected' = IF script.place = "idle" THEN built ELSE {}
            /\ SearchTo("retrieve")
       \/ SearchTo("raised") /\ UNCHANGED <<route, found, expected>>
    /\ UNCHANGED <<graphVars, scriptVars, queryVars>>

\* One item is looked up: a user by number (int() raises for a name), the others in
\* threads that asyncio.gather waits for: by the vector, and by the words it
\* shares with a node.  Without both indexes of its label a thread raises.  Nodes
\* are fewer than top_k: all that the indexes hold are found.
LookUp(i) ==
    /\ searchStage = "retrieve"
    /\ found[i] = Unread
    /\ LET label == route[i].label IN
       found' = [found EXCEPT ![i] =
           IF label = "User" THEN IF route[i].entity = "number" THEN {} ELSE Raised
           ELSE IF label \notin vectorIndex \intersect fulltextIndex THEN Raised
           ELSE OfLabel(label, embedded \union IF route[i].entity = "words" THEN worded ELSE {})]
    /\ UNCHANGED <<graphVars, scriptVars, searchStage, route, expected, queryVars>>

\* All are read: the results are merged by label, or the exception leaves search.
Merge ==
    /\ searchStage = "retrieve"
    /\ Unread \notin ToSet(found)
    /\ SearchTo(IF Raised \in ToSet(found) THEN "raised" ELSE "generate")
    /\ UNCHANGED <<graphVars, scriptVars, route, found, expected, queryVars>>

\* generate_cypher: a statement that may be no Cypher, or use a relationship
\* in a direction that the schema does not have.
Generate ==
    /\ searchStage = "generate"
    /\ \E valid, directed \in BOOLEAN :
        cypher' = [valid |-> valid, directed |-> directed, corrected |-> 0]
    /\ SearchTo("explain")
    /\ UNCHANGED <<graphVars, scriptVars, route, found, expected, cypherErrors, reviewed>>

\* validate_cypher, first: EXPLAIN.  A syntax error is noted, any other raises.
Explain ==
    /\ searchStage = "explain"
    /\ \/ cypherErrors' = ~cypher.valid /\ SearchTo("review")
       \/ UNCHANGED cypherErrors /\ SearchTo("raised")
    /\ UNCHANGED <<graphVars, scriptVars, route, found, expected, cypher, reviewed>>

\* Second: the reviewing model's answer is read as JSON.  The prompt asks for no
\* content when nothing is wrong, which json.loads refuses.
Review ==
    /\ searchStage = "review"
    /\ \E answer \in {"errors", "empty list", "nothing"} :
        /\ reviewed' = answer
        /\ cypherErrors' = (cypherErrors \/ answer = "errors")
        /\ SearchTo(IF answer = "nothing" THEN "raised" ELSE IF cypherErrors' THEN "correct" ELSE "direct")
    /\ UNCHANGED <<graphVars, scriptVars, route, found, expected, cypher>>

\* correct_cypher, once; its statement is not validated.
Correct ==
    /\ searchStage = "correct"
    /\ \E valid, directed \in BOOLEAN :
        cypher' = [valid |-> valid, directed |-> directed, corrected |-> 1]
    /\ SearchTo("direct")
    /\ UNCHANGED <<graphVars, scriptVars, route, found, expected, cypherErrors, reviewed>>

\* cypher_corrector turns relationships, or answers "" where neither direction
\* is in the schema.
Direct ==
    /\ searchStage = "direct"
    /\ cypher' \in
          IF cypher.directed THEN {cypher}
          ELSE {[cypher EXCEPT !.directed = TRUE], [cypher EXCEPT !.directed = TRUE, !.valid = FALSE]}
    /\ SearchTo("execute")
    /\ UNCHANGED <<graphVars, scriptVars, route, found, expected, cypherErrors, reviewed>>

\* Whatever execute_query raises, the answer is then the document "empty".
Execute ==
    /\ searchStage = "execute"
    /\ \/ cypher.valid /\ SearchTo("answered")
       \/ SearchTo("answered empty")
    /\ UNCHANGED <<graphVars, scriptVars, route, found, expected, queryVars>>

\* A blank query is answered at once.
Blank ==
    /\ searchStage = "start"
    /\ SearchTo("answered empty")
    /\ UNCHANGED <<graphVars, scriptVars, route, found, expected, queryVars>>

ScriptStep ==
    \/ BeginIndexing \/ DropIndex \/ RemoveEmbeddings \/ CreateVectorIndex \/ WriteEmbeddings
    \/ RemoveFulltexts \/ CreateFulltextIndex \/ WriteFulltexts \/ Die

SearchStep ==
    \/ Route \/ Merge \/ Generate \/ Explain \/ Review \/ Correct \/ Direct \/ Execute \/ Blank
    \/ \E i \in DOMAIN found : LookUp(i)

RetrievalNext == ScriptStep \/ AddNode \/ SearchStep

RetrievalSpec == RetrievalInit /\ [][RetrievalNext]_retrievalVars

-----------------------------------------------------------------------------
(***************************************************************************)
(* Properties                                                              *)
(***************************************************************************)

\* A search that no run of the script interrupts finds every node of its label
\* that was there when the last run began, if that run ended: also one that
\* followed runs that died half-way.
FindsTheBuilt ==
    searchStage \notin {"start", "retrieve", "raised"} =>
        \A i \in DOMAIN found : OfLabel(route[i].label, expected) \subseteq found[i]

\* A statement that EXPLAIN refused, or that the review found wrong, is corrected
\* before it runs; what runs uncorrected was accepted by both.
UncorrectedWasAccepted ==
    searchStage = "direct" /\ cypher.corrected = 0 => cypher.valid /\ reviewed = "empty list"

\* What a search that reaches its answer has relied on: complete indexes, and a
\* statement that was accepted or corrected.
RetrievalSound == FindsTheBuilt /\ UncorrectedWasAccepted

=============================================================================
