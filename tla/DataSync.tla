------------------------------ MODULE DataSync ------------------------------
(***************************************************************************)
(* graph/src/datasync: mysql_data_sync.py copies the products and their    *)
(* attributes from MySQL into the graph, sku_image_sync.py adds attributes *)
(* that a model finds in descriptions and pictures.  Nothing keeps two of  *)
(* these scripts apart.  Each writes one row at a time in a transaction of *)
(* its own, may die between two and is run again, in any order, while the  *)
(* shop changes its data.  Neo4j reads what is committed: what a statement *)
(* has matched may have changed when it writes.  (Two MERGEs at once may   *)
(* make two equal nodes; they are one here.)                               *)
(***************************************************************************)
EXTENDS Naturals, Sequences, SequencesExt, FiniteSets

CONSTANTS
    Scripts,      \* processes that run one script after the other
    Skus,
    SkuNames,     \* what a SKU may be named
    AttrNames, AttrValues,
    Schema,       \* the attribute names that the model is asked for
    MaxSyncRuns,  \* bound: runs of the scripts
    MaxChanges    \* bound: changes of the shop's data

SkuNodes == [sku : Skus, name : SkuNames]

VARIABLES
    products,    \* sku_info: the name of each SKU
    incomplete,  \* SKUs without a spu, category or trademark: the left joins give null
    attrs,       \* sku_attr_value and sku_sale_attr_value: [sku, name, value]
    skuNodes,    \* the SKU nodes
    have,        \* the Have relationships: [node, name, value]
    doing,       \* what each process is doing
    rowsLeft,    \* the rows that it has still to write
    attrRows,    \* the attribute rows it has read
    lacking,     \* the nodes it has found without an attribute of the row's name
    crossed,     \* history: those of them that another process has given one since
    syncRuns, changes

shopVars == <<products, incomplete, attrs, changes>>
graphData == <<skuNodes, have>>
processVars == <<doing, rowsLeft, attrRows, lacking, crossed>>
syncVars == <<shopVars, graphData, processVars, syncRuns>>

SyncInit ==
    /\ products \in [Skus -> SkuNames]
    /\ incomplete \in SUBSET Skus
    /\ attrs = {}
    /\ skuNodes = {}
    /\ have = {}
    /\ doing = [p \in Scripts |-> "none"]
    /\ rowsLeft = [p \in Scripts |-> <<>>]
    /\ attrRows = [p \in Scripts |-> {}]
    /\ lacking = [p \in Scripts |-> {}]
    /\ crossed = [p \in Scripts |-> {}]
    /\ syncRuns = 0
    /\ changes = 0

TurnTo(p, what) == doing' = [doing EXCEPT ![p] = what]
SetRows(p, rows) == rowsLeft' = [rowsLeft EXCEPT ![p] = rows]
SetAttrs(p, rows) == attrRows' = [attrRows EXCEPT ![p] = rows]

-----------------------------------------------------------------------------
\* The shop renames a SKU, or adds an attribute or takes one away.
Change ==
    /\ changes < MaxChanges
    /\ changes' = changes + 1
    /\ \/ \E s \in Skus, n \in SkuNames : products' = [products EXCEPT ![s] = n] /\ UNCHANGED attrs
       \/ /\ \E a \in [sku : Skus, name : AttrNames, value : AttrValues] :
                attrs' = IF a \in attrs THEN attrs \ {a} ELSE attrs \union {a}
          /\ UNCHANGED products
    /\ UNCHANGED <<incomplete, graphData, processVars, syncRuns>>

BeginSync(p, what) ==
    /\ doing[p] = "none"
    /\ syncRuns < MaxSyncRuns
    /\ syncRuns' = syncRuns + 1
    /\ TurnTo(p, what)
    /\ UNCHANGED <<shopVars, graphData, lacking, crossed>>

\* In whatever order the database gives the rows
Rows(S) == {q \in [1..Cardinality(S) -> S] : ToSet(q) = S}

\* read_sku_base_info and read_sku_attr_info, in one connection
BeginMysql(p) ==
    /\ BeginSync(p, "products")
    /\ \E q \in Rows({[sku |-> s, name |-> products[s]] : s \in Skus}) : SetRows(p, q)
    /\ SetAttrs(p, attrs)

\* The script is through, or it dies.
EndSync(p) ==
    /\ doing[p] # "none"
    /\ TurnTo(p, "none")
    /\ SetRows(p, <<>>)
    /\ SetAttrs(p, {})
    /\ lacking' = [lacking EXCEPT ![p] = {}]
    /\ crossed' = [crossed EXCEPT ![p] = {}]
    /\ UNCHANGED <<shopVars, graphData, syncRuns>>

\* write_sku_base_info: MERGE finds the node by id and name, or makes one.  MERGE
\* with a null property raises: the script dies of an incomplete product.
WriteProduct(p) ==
    /\ doing[p] = "products"
    /\ rowsLeft[p] # <<>>
    /\ \/ Head(rowsLeft[p]).sku \in incomplete /\ EndSync(p)
       \/ /\ Head(rowsLeft[p]).sku \notin incomplete
          /\ skuNodes' = skuNodes \union {Head(rowsLeft[p])}
          /\ SetRows(p, Tail(rowsLeft[p]))
          /\ UNCHANGED <<shopVars, have, doing, attrRows, lacking, crossed, syncRuns>>

TurnToAttrs(p) ==
    /\ doing[p] = "products"
    /\ rowsLeft[p] = <<>>
    /\ TurnTo(p, "attributes")
    /\ \E q \in Rows(attrRows[p]) : SetRows(p, q)
    /\ SetAttrs(p, {})
    /\ UNCHANGED <<shopVars, graphData, lacking, crossed, syncRuns>>

Sku(s) == {n \in skuNodes : n.sku = s}

HasName(n, name) == \E h \in have : h.node = n /\ h.name = name

\* MERGE of the row's attribute and of a relationship from each of the nodes; the
\* processes that have found one of them without it are crossed.
Give(p, nodes) ==
    LET row == Head(rowsLeft[p])
    IN  /\ have' = have \union {[node |-> n, name |-> row.name, value |-> row.value] : n \in nodes}
        /\ crossed' = [q \in Scripts |->
               IF q = p THEN {}
               ELSE crossed[q] \union {n \in lacking[q] \intersect nodes :
                                         Head(rowsLeft[q]).name = row.name}]
        /\ SetRows(p, Tail(rowsLeft[p]))

\* write_sku_attr_info: every node with the id gets the attribute.
WriteAttr(p) ==
    /\ doing[p] = "attributes"
    /\ rowsLeft[p] # <<>>
    /\ Give(p, Sku(Head(rowsLeft[p]).sku))
    /\ UNCHANGED <<shopVars, skuNodes, doing, attrRows, lacking, syncRuns>>

\* sku_image_sync: get_sku_entity takes the first value that the model finds for a
\* name, in the description and in the corrected text of the pictures; a text may
\* name an attribute, and another text of the SKU another value.
BeginImages(p) ==
    /\ BeginSync(p, "images")
    /\ \E seen \in SUBSET [sku : Skus, name : Schema, value : AttrValues] :
        Cardinality(seen) <= 2 /\ \E q \in Rows(seen) : SetRows(p, q)
    /\ UNCHANGED attrRows

\* Mutant of LookEntity: the attribute is added whatever the SKU has.
LookNowhere(p) ==
    /\ doing[p] = "images"
    /\ rowsLeft[p] # <<>>
    /\ TurnTo(p, "adding")
    /\ lacking' = [lacking EXCEPT ![p] = Sku(Head(rowsLeft[p]).sku)]
    /\ UNCHANGED <<shopVars, graphData, rowsLeft, attrRows, crossed, syncRuns>>

\* write_sku_entity matches the SKU's nodes that have no attribute of the name
LookEntity(p) ==
    /\ doing[p] = "images"
    /\ rowsLeft[p] # <<>>
    /\ TurnTo(p, "adding")
    /\ lacking' = [lacking EXCEPT ![p] =
           {n \in Sku(Head(rowsLeft[p]).sku) : ~HasName(n, Head(rowsLeft[p]).name)}]
    /\ UNCHANGED <<shopVars, graphData, rowsLeft, attrRows, crossed, syncRuns>>

\* and gives it to them.
AddEntity(p) ==
    /\ doing[p] = "adding"
    /\ Give(p, lacking[p])
    /\ TurnTo(p, "images")
    /\ lacking' = [lacking EXCEPT ![p] = {}]
    /\ UNCHANGED <<shopVars, skuNodes, attrRows, syncRuns>>

SyncStep(p) ==
    \/ BeginMysql(p) \/ WriteProduct(p) \/ TurnToAttrs(p) \/ WriteAttr(p)
    \/ BeginImages(p) \/ LookEntity(p) \/ AddEntity(p) \/ EndSync(p)

SyncNext == Change \/ \E p \in Scripts : SyncStep(p)

SyncSpec == SyncInit /\ [][SyncNext]_syncVars

-----------------------------------------------------------------------------
(***************************************************************************)
(* Properties                                                              *)
(***************************************************************************)

\* A picture gives a node its first attribute of a name: it writes one beside an
\* earlier one, from MySQL or from a picture, only if another process gave the
\* node that one between this process's look and its write.
PictureFillsGap ==
    [][\A p \in Scripts : AddEntity(p) =>
          \A r \in have' \ have : HasName(r.node, r.name) => r.node \in crossed[p]]_syncVars

=============================================================================
