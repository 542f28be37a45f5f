---------------------------- MODULE MCAssistant ----------------------------
(***************************************************************************)
(* Model checking of the dialogue actions, of the graph's retrieval,       *)
(* scripts and training, and of the demo data.  They share no state in the *)
(* models, so one run explores them one after the other: machine names the *)
(* one that is explored, and the others keep one of their initial states.  *)
(***************************************************************************)
EXTENDS PostsaleCommit, Spans, ReceiveForm, PostsaleFlow, GraphSearch, DataSync, ChatService,
        Training, Logistics, GenData

CONSTANTS c1, c2

VARIABLE machine

\* The clients of the commit differ in nothing.
Symmetry == Permutations({c1, c2})

\* Two provinces that have a city of the same name, and one more each.
Region(p, c, d) == [province |-> p, city |-> c, district |-> d]
FourRegions == {Region("P", "A", "x"), Region("P", "B", "y"),
                Region("Q", "C", "x"), Region("Q", "B", "z")}
TheFirst == [person |-> "ann", region |-> Region("P", "A", "x"), street |-> "s1"]

\* Two nodes of one of two labels, and what the routing model may answer.
Item(label, entity) == [label |-> label, entity |-> entity]
TwoLabels == <<"SKU", "SPU">>
BothSkus == [n1 |-> "SKU", n2 |-> "SKU"]
FourRoutes == {<<Item("SKU", "words"), Item("SPU", "paraphrase")>>,
               <<Item("User", "number"), Item("SKU", "paraphrase")>>,
               <<Item("User", "words")>>,
               <<Item("Unknown", "words"), Item("SKU", "")>>}

\* Two questions, one of which is cut into two pieces.
OneAndTwo == [q1 |-> 1, q2 |-> 2]

\* Codes as the tables and prompts of the repository use them.
Status(name, code) == [name |-> name, code |-> code]
Ended(name, code, types) == [name |-> name, code |-> code, types |-> types]
AllOrderStatuses == {
    Status("unpaid", 300), Status("unshipped", 310), Status("shipped", 320),
    Status("delivered", 330), Status("after-sale", 400), Status("completed", 900),
    Status("cancelled", 910)}
SomePostStatuses == {
    Ended("reviewed", 410, {"refund", "return", "exchange"}),
    Ended("sent back", 430, {"return", "exchange"}), Ended("sent anew", 440, {"exchange"}),
    Ended("refused", 910, {"refund", "return", "exchange"}),
    Ended("ended", 930, {"refund", "return", "exchange"})}

MCInit ==
    /\ machine \in {"spans", "companies", "complaints", "form", "postsale", "training",
                    "graph", "sync", "chat", "demo", "commit"}
    /\ CommitInit /\ LogisticsInit /\ FormInit /\ TrainingInit /\ ChatInit
    /\ SpanInit /\ (machine # "spans" => starts = {} /\ ends = {})
    /\ FlowInit /\ (machine # "postsale" => status = 330)
    /\ RetrievalInit /\ (machine # "graph" => present = {})
    /\ SyncInit /\ (machine # "sync" => products = [s \in Skus |-> "x"] /\ incomplete = {})
    /\ GenInit /\ (machine # "demo" => tables = {})

MCNext ==
    /\ \/ machine = "spans" /\ SpanNext
       \/ machine = "companies" /\ ListNext
       \/ machine = "complaints" /\ ComplaintNext
       \/ machine = "form" /\ FormNext
       \/ machine = "postsale" /\ FlowNext
       \/ machine = "training" /\ TrainingNext
       \/ machine = "graph" /\ RetrievalNext
       \/ machine = "sync" /\ SyncNext
       \/ machine = "chat" /\ ChatNext
       \/ machine = "demo" /\ GenNext
       \/ machine = "commit" /\ CommitNext
    /\ UNCHANGED machine
    /\ machine # "spans" => UNCHANGED spanVars
    /\ machine \notin {"companies", "complaints"} => UNCHANGED logisticsVars
    /\ machine # "form" => UNCHANGED formVars
    /\ machine # "postsale" => UNCHANGED flowVars
    /\ machine # "training" => UNCHANGED trainingVars
    /\ machine # "graph" => UNCHANGED retrievalVars
    /\ machine # "sync" => UNCHANGED syncVars
    /\ machine # "chat" => UNCHANGED chatVars
    /\ machine # "demo" => UNCHANGED genVars
    /\ machine # "commit" => UNCHANGED commitVars

allVars == <<machine, spanVars, logisticsVars, formVars, flowVars, trainingVars, retrievalVars,
             syncVars, chatVars, genVars, commitVars>>

\* Scripts, searches and dialogues come to their end; who waits for a lock must not.
OthersEnd == machine # "commit" /\ UNCHANGED allVars

MCSpec == MCInit /\ [][MCNext \/ OthersEnd]_allVars

=============================================================================
