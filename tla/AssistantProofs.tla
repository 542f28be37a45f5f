--------------------------- MODULE AssistantProofs ---------------------------
(***************************************************************************)
(* Proofs about the dialogues' forms and the graph's scripts, each from    *)
(* the specification of its own module: none shares state with another.    *)
(***************************************************************************)
EXTENDS Spans, ReceiveForm, PostsaleFlow, GraphSearch, DataSync, ChatService, Training,
        Logistics, GenData, FiniteSetTheorems, TLAPS

-----------------------------------------------------------------------------
(***************************************************************************)
(* Spans: for any set of token positions, the spans that get_span pairs do *)
(* not overlap.                                                            *)
(***************************************************************************)

\* The types, with an end never before its start.
SpanTypes ==
    /\ starts \subseteq Positions
    /\ ends \subseteq Positions
    /\ \A c \in couples :
        /\ c.start \in Positions
        /\ c.end \in Positions
        /\ c.start <= c.end

\* No end that is left is before a coupled one, and a coupled end that is not left
\* is before all starts that are: a new couple can only replace the last one.
PointersBehind ==
    \A c \in couples :
        /\ \A e \in ends : c.end <= e
        /\ c.end \in ends \/ \A s \in starts : c.end < s

SpanInv == SpanTypes /\ PointersBehind /\ WithoutOverlap

\* The lists are walked from the front: nothing is coupled at first.
LEMMA InitSpanInv == SpanInit => SpanInv
  BY DEF SpanInit, SpanInv, SpanTypes, PointersBehind, WithoutOverlap

\* What is coupled elsewhere ends before the start that is coupled now.
LEMMA NewCoupleBehind ==
  ASSUME SpanInv, NEW s \in starts, NEW e \in ends, IsNext(e, ends),
         NEW c \in couples, c.end # e
  PROVE  c.end < s
<1>1. c.end \in Nat /\ e \in Nat /\ s \in Nat
  BY SpansAssumption DEF SpanInv, SpanTypes
<1>2. CASE c.end \in ends
  <2>1. e <= c.end /\ c.end <= e
    BY <1>2 DEF SpanInv, PointersBehind, IsNext
  <2> QED
    BY <1>1, <2>1
<1>3. CASE c.end \notin ends
  BY <1>3 DEF SpanInv, PointersBehind
<1> QED
  BY <1>2, <1>3

\* One turn of the loop keeps the invariant.
LEMMA NextSpanInv == SpanInv /\ [SpanNext]_spanVars => SpanInv'
<1> SUFFICES ASSUME SpanInv, [SpanNext]_spanVars PROVE SpanInv'
  OBVIOUS
<1>1. CASE UNCHANGED spanVars
  BY <1>1 DEF spanVars, SpanInv, SpanTypes, PointersBehind, WithoutOverlap
<1>2. ASSUME NEW s \in starts, NEW e \in ends, IsNext(s, starts), IsNext(e, ends),
             Single(s, e) \/ StartBefore(s, e)
      PROVE  SpanInv'
  <2> DEFINE new == [start |-> s, end |-> e]
             others == {c \in couples : c.end # e}
  <2>1. /\ couples' = others \union {new}
        /\ s <= e
        /\ s \in Positions /\ e \in Positions /\ s \in Nat /\ e \in Nat
    BY <1>2, SpansAssumption DEF Single, StartBefore, Couple, SpanInv, SpanTypes
  <2>2. \A c \in others : c.end < s
    BY <1>2, NewCoupleBehind
  <2>3. SpanTypes'
    <3>1. starts' \subseteq starts /\ ends' \subseteq ends
      BY <1>2 DEF Single, StartBefore
    <3>2. \A c \in couples' : c.start \in Positions /\ c.end \in Positions /\ c.start <= c.end
      <4> SUFFICES ASSUME NEW c \in couples'
                   PROVE  c.start \in Positions /\ c.end \in Positions /\ c.start <= c.end
        OBVIOUS
      <4>1. CASE c = new
        BY <4>1, <2>1
      <4>2. CASE c \in couples
        BY <4>2 DEF SpanInv, SpanTypes
      <4> QED
        BY <4>1, <4>2, <2>1
    <3> QED
      BY <3>1, <3>2 DEF SpanInv, SpanTypes
  <2>4. PointersBehind'
    <3>1. \A c \in others : (\A x \in ends' : c.end <= x) /\ \A y \in starts' : c.end < y
      <4>1. ends' \subseteq ends /\ starts' \subseteq starts
        BY <1>2 DEF Single, StartBefore
      <4> SUFFICES ASSUME NEW c \in couples, c.end # e
                   PROVE  (\A x \in ends' : c.end <= x) /\ \A y \in starts' : c.end < y
        OBVIOUS
      <4>2. \A x \in ends' : c.end <= x
        BY <4>1 DEF SpanInv, PointersBehind
      <4>3. c.end \in Nat /\ c.end < s /\ starts' \subseteq Nat
        BY <4>1, <2>2, SpansAssumption DEF SpanInv, SpanTypes
      <4>4. \A y \in starts' : s <= y
        BY <4>1, <1>2 DEF IsNext
      <4>5. \A y \in starts' : c.end < y
        BY <4>3, <4>4, <2>1
      <4> QED
        BY <4>2, <4>5
    <3>2. \A x \in ends' : e <= x
      BY <1>2 DEF Single, StartBefore, IsNext
    <3>3. e \in ends' \/ \A y \in starts' : e < y
      <4>1. starts \subseteq Nat
        BY SpansAssumption DEF SpanInv, SpanTypes
      <4>2. CASE Single(s, e)
        BY <4>1, <4>2, <1>2 DEF Single, IsNext
      <4>3. CASE StartBefore(s, e)
        BY <4>3 DEF StartBefore
      <4> QED
        BY <4>2, <4>3, <1>2
    <3> QED
      BY <2>1, <3>1, <3>2, <3>3 DEF PointersBehind
  <2>5. WithoutOverlap'
    BY <2>1, <2>2 DEF WithoutOverlap, SpanInv
  <2> QED
    BY <2>3, <2>4, <2>5 DEF SpanInv
<1>3. ASSUME NEW s \in starts, NEW e \in ends, IsNext(s, starts), IsNext(e, ends),
             EndBefore(s, e)
      PROVE  SpanInv'
  <2>1. SpanTypes' /\ WithoutOverlap'
    BY <1>3 DEF EndBefore, SpanInv, SpanTypes, WithoutOverlap
  <2>2. PointersBehind'
    BY <1>3, SpansAssumption DEF EndBefore, IsNext, SpanInv, SpanTypes, PointersBehind
  <2> QED
    BY <2>1, <2>2 DEF SpanInv
<1> QED
  BY <1>1, <1>2, <1>3 DEF SpanNext

\* get_span's docstring, for every list of positions: no two spans of the result, nor
\* of any moment before, share a position.
THEOREM SpansWithoutOverlap == SpanSpec => []WithoutOverlap
<1>1. SpanInv => WithoutOverlap
  BY DEF SpanInv
<1> QED
  BY InitSpanInv, NextSpanInv, <1>1, PTL DEF SpanSpec

-----------------------------------------------------------------------------
(***************************************************************************)
(* ReceiveForm: for any table of regions and any number of dialogues and   *)
(* rounds, what the form composes can be stored, unless a city's name is   *)
(* ambiguous.                                                              *)
(***************************************************************************)

\* Three names that occur in their columns of the table, maybe in different rows.
Columns == [province : {r.province : r \in Regions},
            city : {r.city : r \in Regions},
            district : {r.district : r \in Regions}]

Infos == [person : People, region : Regions, street : Streets]
Entries == [person : People, region : Columns, street : Streets]

FormTypes ==
    /\ rows \subseteq Infos
    /\ order \in rows
    /\ slots \in Entries
    /\ receiveId \in [id : {"row", "modify", "modified", "none"}, row : Infos]
    /\ receiveId.id = "row" => receiveId.row \in rows
    /\ step \in {"start", "content", "city", "district", "street", "more", "confirm", "raised"}

Storable(place) == place \in Regions \/ Ambiguous(place.city)

\* Between the buttons: the city is one of the province, and what comes after the
\* district is whole.
Composed ==
    /\ step = "district" =>
        \E r \in Regions : r.province = slots.region.province /\ r.city = slots.region.city
    /\ step \in {"content", "street", "more", "confirm", "raised"} => Storable(slots.region)

FormInv == FormTypes /\ Composed

LEMMA RegionsInColumns == Regions \subseteq Columns /\ Infos \subseteq Entries
<1>1. ASSUME NEW r \in Regions PROVE r \in Columns
  <2>1. r = [province |-> r.province, city |-> r.city, district |-> r.district]
    BY FormAssumption
  <2> QED
    BY <2>1 DEF Columns
<1> QED
  BY <1>1 DEF Infos, Entries

LEMMA InitFormInv == FormInit => FormInv
<1> SUFFICES ASSUME FormInit PROVE FormInv
  OBVIOUS
<1>1. FirstInfo \in Infos /\ FirstInfo \in Entries
  BY FormAssumption, RegionsInColumns DEF Infos
<1>2. NoRow \in [id : {"row", "modify", "modified", "none"}, row : Infos] /\ NoRow.id = "none"
  BY <1>1 DEF NoRow
<1> QED
  BY <1>1, <1>2 DEF FormInit, FormInv, FormTypes, Composed

\* A district that is offered for a city completes a region: if only one province
\* has a city of this name, the district's row is in it.
LEMMA DistrictCompletes ==
  ASSUME FormInv, AskDistrict
  PROVE  Storable(slots'.region) /\ slots' \in Entries
<1>1. PICK x \in Regions :
        /\ x.city = slots.region.city
        /\ slots' = [slots EXCEPT !.region = [slots.region EXCEPT !.district = x.district]]
  BY DEF AskDistrict, Districts, Set
<1>2. PICK r \in Regions : r.province = slots.region.province /\ r.city = slots.region.city
  BY DEF AskDistrict, FormInv, Composed
<1>3. slots \in Entries /\ slots.region \in Columns
  BY DEF FormInv, FormTypes, Entries
<1>4. /\ slots'.region = [slots.region EXCEPT !.district = x.district]
      /\ slots'.region \in Columns
      /\ slots' \in Entries
  BY <1>1, <1>3 DEF Entries, Columns
<1>5. slots'.region = [province |-> r.province, city |-> x.city, district |-> x.district]
  BY <1>1, <1>2, <1>3, <1>4 DEF Columns
<1>6. CASE r.province = x.province
  <2>1. x = [province |-> x.province, city |-> x.city, district |-> x.district]
    BY FormAssumption
  <2> QED
    BY <1>4, <1>5, <1>6, <2>1 DEF Storable
<1>7. CASE r.province # x.province
  <2>1. Ambiguous(x.city)
    BY <1>1, <1>2, <1>7 DEF Ambiguous
  <2> QED
    BY <1>4, <1>5, <2>1 DEF Storable
<1> QED
  BY <1>4, <1>6, <1>7

LEMMA NextFormInv ==
  ASSUME FormInv, [FormNext]_formVars
  PROVE  FormInv'
<1>1. CASE UNCHANGED formVars
  BY <1>1 DEF formVars, FormInv, FormTypes, Composed
<1>2. CASE AskReceiveId
  <2>1. order \in Infos /\ order \in Entries /\ Storable(order.region)
    BY RegionsInColumns DEF FormInv, FormTypes, Infos, Storable
  <2>2. Own \in [id : {"row", "modify", "modified", "none"}, row : Infos] /\ Own.id = "modify"
    BY FormAssumption DEF Own, NoRow, Infos
  <2> QED
    BY <1>2, <2>1, <2>2 DEF AskReceiveId, FormInv, FormTypes, Composed
<1>3. CASE EnterPerson \/ EnterStreet
  <2>1. slots' \in Entries /\ slots'.region = slots.region
    BY <1>3 DEF EnterPerson, EnterStreet, FormInv, FormTypes, Entries
  <2> QED
    BY <1>3, <2>1 DEF EnterPerson, EnterStreet, FormInv, FormTypes, Composed
<1>4. CASE AskProvince
  <2>1. slots' \in Entries
    BY <1>4 DEF AskProvince, Set, Provinces, FormInv, FormTypes, Entries, Columns
  <2> QED
    BY <1>4, <2>1 DEF AskProvince, FormInv, FormTypes, Composed
<1>5. CASE AskCity
  <2>1. PICK x \in Regions :
          /\ x.province = slots.region.province
          /\ slots' = [slots EXCEPT !.region = [slots.region EXCEPT !.city = x.city]]
    BY <1>5 DEF AskCity, Cities, Set
  <2>2. /\ slots' \in Entries
        /\ slots'.region.province = x.province
        /\ slots'.region.city = x.city
    BY <2>1 DEF FormInv, FormTypes, Entries, Columns
  <2> QED
    BY <1>5, <2>2 DEF AskCity, FormInv, FormTypes, Composed
<1>6. CASE AskDistrict
  BY <1>6, DistrictCompletes DEF AskDistrict, FormInv, FormTypes, Composed
<1>7. CASE More \/ NoMore \/ Leave
  <2>1. Modified \in [id : {"row", "modify", "modified", "none"}, row : Infos]
        /\ Modified.id = "modified"
    BY FormAssumption DEF Modified, NoRow, Infos
  <2> QED
    BY <1>7, <2>1 DEF More, NoMore, Leave, FormInv, FormTypes, Composed
<1>8. CASE Confirm
  <2>1. Chosen \in rows \/ Chosen = slots
    BY DEF Chosen, FormInv, FormTypes
  <2>2. Chosen \in rows \/ Chosen.region \in Regions => Chosen \in Infos
    BY <2>1 DEF FormInv, FormTypes, Infos, Entries
  <2> QED
    BY <1>8, <2>2 DEF Confirm, FormInv, FormTypes, Composed
<1> QED
  BY <1>1, <1>2, <1>3, <1>4, <1>5, <1>6, <1>7, <1>8 DEF FormNext

\* After any number of rounds and interrupted dialogues, the address put up for
\* confirmation refers to a row of the table, unless two provinces have a city of
\* its name: the buttons for a city are filtered by the province, and those for a
\* district by the city's name alone.
THEOREM FormStorable == FormSpec => []AddressStorable
<1>1. FormInv /\ [FormNext]_formVars => FormInv'
  BY NextFormInv
<1>2. FormInv => AddressStorable
  BY DEF FormInv, FormTypes, Composed, AddressStorable, Chosen, Storable, Infos
<1> QED
  BY <1>1, <1>2, InitFormInv, PTL DEF FormSpec


-----------------------------------------------------------------------------
(***************************************************************************)
(* DataSync: while a process is adding, a node that it has found without   *)
(* the name and that has it now is crossed.                                *)
(***************************************************************************)
SyncTypes ==
    /\ DOMAIN doing = Scripts
    /\ DOMAIN rowsLeft = Scripts
    /\ DOMAIN lacking = Scripts
    /\ DOMAIN crossed = Scripts

LookHolds(p) ==
    doing[p] = "adding" =>
        \A n \in lacking[p] : HasName(n, Head(rowsLeft[p]).name) => n \in crossed[p]

SyncInv == SyncTypes /\ \A p \in Scripts : LookHolds(p)

\* What one process gives, the others are crossed by.
LEMMA GiveCrosses ==
  ASSUME SyncInv, NEW p \in Scripts, NEW nodes, Give(p, nodes),
         NEW q \in Scripts, q # p, doing'[q] = doing[q], lacking'[q] = lacking[q]
  PROVE  LookHolds(q)'
<1> DEFINE row == Head(rowsLeft[p])
<1> SUFFICES ASSUME doing[q] = "adding", NEW n \in lacking[q],
                    HasName(n, Head(rowsLeft[q]).name)'
             PROVE  n \in crossed'[q]
  BY DEF LookHolds, Give, SetRows, SyncInv, SyncTypes
<1>1. rowsLeft'[q] = rowsLeft[q]
  BY DEF Give, SetRows, SyncInv, SyncTypes
<1>2. crossed'[q] = crossed[q] \union {m \in lacking[q] \intersect nodes :
                                         Head(rowsLeft[q]).name = row.name}
  BY DEF Give
<1>3. PICK h \in have' : h.node = n /\ h.name = Head(rowsLeft[q]).name
  BY <1>1 DEF HasName
<1>4. CASE h \in have
  BY <1>2, <1>3, <1>4 DEF SyncInv, LookHolds, HasName
<1>5. CASE h \notin have
  <2>1. h \in {[node |-> m, name |-> row.name, value |-> row.value] : m \in nodes}
    BY <1>5 DEF Give
  <2>2. n \in nodes /\ Head(rowsLeft[q]).name = row.name
    BY <1>3, <2>1
  <2> QED
    BY <1>2, <2>2
<1> QED
  BY <1>4, <1>5

\* A process that takes no step, and whose rows and nodes nobody touches, keeps it.
LEMMA OthersKeepLook ==
  ASSUME SyncInv, NEW q \in Scripts, have' = have, doing'[q] = doing[q],
         rowsLeft'[q] = rowsLeft[q], lacking'[q] = lacking[q], crossed'[q] = crossed[q]
  PROVE  LookHolds(q)'
BY DEF SyncInv, LookHolds, HasName

LEMMA NextSyncInv == SyncInv /\ [SyncNext]_syncVars => SyncInv'
<1> SUFFICES ASSUME SyncInv, [SyncNext]_syncVars PROVE SyncInv'
  OBVIOUS
<1> USE DEF SyncTypes, SetRows, SetAttrs, TurnTo
<1>1. CASE UNCHANGED syncVars
  BY <1>1 DEF SyncInv, LookHolds, HasName, syncVars, graphData, processVars
<1>2. CASE Change
  BY <1>2 DEF Change, SyncInv, LookHolds, HasName, graphData, processVars
<1>3. ASSUME NEW p \in Scripts, BeginMysql(p) \/ BeginImages(p) \/ EndSync(p) PROVE SyncInv'
  <2>1. PICK what \in {"products", "images", "none"} : TurnTo(p, what)
    BY <1>3 DEF BeginMysql, BeginImages, BeginSync, EndSync
  <2>2. SyncTypes' /\ have' = have /\ \A q \in Scripts \ {p} :
          rowsLeft'[q] = rowsLeft[q] /\ lacking'[q] = lacking[q] /\ crossed'[q] = crossed[q]
    BY <1>3 DEF BeginMysql, BeginImages, BeginSync, EndSync, graphData, SyncInv
  <2>3. LookHolds(p)'
    BY <2>1 DEF LookHolds, SyncInv
  <2> QED
    BY <2>1, <2>2, <2>3, OthersKeepLook DEF SyncInv
<1>4. ASSUME NEW p \in Scripts, WriteProduct(p) \/ TurnToAttrs(p) PROVE SyncInv'
  <2>1. doing[p] = "products" /\ doing'[p] # "adding"
    BY <1>4 DEF WriteProduct, TurnToAttrs, EndSync, SyncInv
  <2>2. SyncTypes' /\ have' = have /\ \A q \in Scripts \ {p} :
          /\ doing'[q] = doing[q] /\ rowsLeft'[q] = rowsLeft[q]
          /\ lacking'[q] = lacking[q] /\ crossed'[q] = crossed[q]
    BY <1>4 DEF WriteProduct, TurnToAttrs, EndSync, graphData, SyncInv
  <2>3. LookHolds(p)'
    BY <2>1 DEF LookHolds
  <2> QED
    BY <2>2, <2>3, OthersKeepLook DEF SyncInv
<1>5. ASSUME NEW p \in Scripts, WriteAttr(p) PROVE SyncInv'
  <2>1. SyncTypes' /\ UNCHANGED <<doing, lacking>> /\ doing[p] = "attributes"
    BY <1>5 DEF WriteAttr, Give, SyncInv
  <2>2. \A q \in Scripts \ {p} : LookHolds(q)'
    BY <1>5, <2>1, GiveCrosses DEF WriteAttr
  <2> QED
    BY <2>1, <2>2 DEF SyncInv, LookHolds
<1>6. ASSUME NEW p \in Scripts, LookEntity(p) PROVE SyncInv'
  <2>1. SyncTypes' /\ UNCHANGED <<have, rowsLeft, crossed>> /\ \A q \in Scripts \ {p} :
          doing'[q] = doing[q] /\ lacking'[q] = lacking[q]
    BY <1>6 DEF LookEntity, SyncInv, graphData
  <2>2. LookHolds(p)'
    BY <1>6, <2>1 DEF LookEntity, LookHolds, HasName, SyncInv
  <2> QED
    BY <2>1, <2>2, OthersKeepLook DEF SyncInv
<1>7. ASSUME NEW p \in Scripts, AddEntity(p) PROVE SyncInv'
  <2>1. SyncTypes' /\ doing'[p] = "images" /\ \A q \in Scripts \ {p} :
          doing'[q] = doing[q] /\ lacking'[q] = lacking[q]
    BY <1>7 DEF AddEntity, Give, SyncInv
  <2>2. \A q \in Scripts \ {p} : LookHolds(q)'
    BY <1>7, <2>1, GiveCrosses DEF AddEntity
  <2> QED
    BY <2>1, <2>2 DEF SyncInv, LookHolds
<1> QED
  BY <1>1, <1>2, <1>3, <1>4, <1>5, <1>6, <1>7 DEF SyncNext, SyncStep

\* However many processes run the scripts at once, die and repeat them, in whatever
\* order, and for all data of the shop: a picture's value is written beside another of
\* its name, MySQL's or a picture's, only where another process has given that one
\* after this process had looked.
THEOREM PicturesFillGaps == SyncSpec => PictureFillsGap
<1> DEFINE Fills == \A p \in Scripts : AddEntity(p) =>
                      \A r \in have' \ have : HasName(r.node, r.name) => r.node \in crossed[p]
<1>1. SyncInit => SyncInv
  BY DEF SyncInit, SyncInv, SyncTypes, LookHolds
<1>2. SyncInv => Fills
  <2> SUFFICES ASSUME SyncInv, NEW p \in Scripts, AddEntity(p),
                      NEW r \in have' \ have, HasName(r.node, r.name)
               PROVE  r.node \in crossed[p]
    OBVIOUS
  <2>1. r.node \in lacking[p] /\ r.name = Head(rowsLeft[p]).name
    BY DEF AddEntity, Give
  <2> QED
    BY <2>1 DEF AddEntity, SyncInv, LookHolds
<1> QED
  BY <1>1, <1>2, NextSyncInv, PTL DEF SyncSpec, PictureFillsGap

-----------------------------------------------------------------------------
(***************************************************************************)
(* ChatService: a request that no other one has overlapped is alone in the *)
(* predictor, and finds there what it has put there itself.                *)
(***************************************************************************)
ChatTypes ==
    /\ DOMAIN requestStage = Questions
    /\ DOMAIN schema = Questions
    /\ DOMAIN kindsLeft = Questions
    /\ DOMAIN result = Questions
    /\ partly \in [Questions -> BOOLEAN]
    /\ overlapped \in [Questions -> BOOLEAN]

\* Nobody else is predicting, and the predictor's attributes are those of this question.
AloneInside(q) ==
    /\ \A p \in Questions \ {q} : requestStage[p] \notin Predicting
    /\ schema[q] \in Schemas
    /\ result[q] \subseteq ToSet(schema[q])
    /\ IF requestStage[q] = "schema set" THEN schemaTree = schema[q]
       ELSE kindsLeft[q] \in Seq(ToSet(schema[q]))
    /\ requestStage[q] \in {"prompted", "inferred"} => mapping = Pieces[q] /\ kindsLeft[q] # <<>>

RequestFine(q) ==
    /\ requestStage[q] = "asked" => result[q] = {}
    /\ requestStage[q] \in Predicting /\ ~overlapped[q] => AloneInside(q)
    /\ requestStage[q] = "raised" \/ partly[q] => overlapped[q]
    /\ requestStage[q] = "answered" => ToSet(schema[q]) \subseteq result[q]

ChatInv == ChatTypes /\ \A q \in Questions : RequestFine(q)

\* A schema asks for as many kinds as it is long.
LEMMA SchemaKinds ==
  ASSUME NEW s \in Schemas
  PROVE  s \in Seq(ToSet(s)) /\ IsFiniteSet(ToSet(s)) /\ Cardinality(ToSet(s)) = Len(s)
<1>1. CASE s = <<"product">>
  <2>1. ToSet(s) = {"product"} /\ Len(s) = 1
    BY <1>1 DEF ToSet
  <2> QED
    BY <1>1, <2>1, FS_Singleton
<1>2. CASE \E k \in Kinds \ {"product"} : s = <<"product", k>>
  <2>1. PICK k \in Kinds \ {"product"} : s = <<"product", k>>
    BY <1>2
  <2>2. ToSet(s) = {"product", k} /\ Len(s) = 2
    BY <2>1 DEF ToSet
  <2>3. IsFiniteSet({k}) /\ Cardinality({k}) = 1 /\ "product" \notin {k}
    BY FS_Singleton
  <2>4. IsFiniteSet({k} \union {"product"}) /\ Cardinality({k} \union {"product"}) = 1 + 1
    BY <2>3, FS_AddElement
  <2>5. {k} \union {"product"} = {"product", k}
    OBVIOUS
  <2> QED
    BY <2>1, <2>2, <2>4, <2>5
<1> QED
  BY <1>1, <1>2 DEF Schemas

\* A step of a request inside the predictor, which leaves the other requests alone: those
\* that are inside too are overlapped.
LEMMA InsideStep ==
  ASSUME ChatInv, NEW q \in Questions, requestStage[q] \in Predicting,
         ChatTypes', UNCHANGED <<schema, overlapped>>,
         \A p \in Questions \ {q} : /\ requestStage'[p] = requestStage[p]
                                    /\ result'[p] = result[p]
                                    /\ partly'[p] = partly[p],
         RequestFine(q)'
  PROVE  ChatInv'
<1> SUFFICES ASSUME NEW p \in Questions \ {q} PROVE RequestFine(p)'
  BY DEF ChatInv
<1>1. RequestFine(p)
  BY DEF ChatInv
<1>2. ~(requestStage[p] \in Predicting /\ ~overlapped[p])
  BY <1>1 DEF RequestFine, AloneInside
<1> QED
  BY <1>1, <1>2 DEF RequestFine

LEMMA SchemaIsSet ==
  ASSUME ChatInv, NEW q \in Questions, SetSchema(q)
  PROVE  ChatInv'
<1>1. /\ requestStage[q] = "asked"
      /\ requestStage' = [requestStage EXCEPT ![q] = "schema set"]
      /\ UNCHANGED <<kindsLeft, mapping, result, partly>>
  BY DEF SetSchema, RequestTo
<1>2. PICK s \in Schemas : schema' = [schema EXCEPT ![q] = s] /\ schemaTree' = s
  BY DEF SetSchema
<1>3. overlapped' = [p \in Questions |->
           overlapped[p] \/ (requestStage[p] \in Predicting
                    \/ (p = q /\ \E o \in Questions : requestStage[o] \in Predicting))]
  BY DEF SetSchema
<1>4. ChatTypes'
  BY <1>1, <1>2, <1>3 DEF ChatInv, ChatTypes
<1>5. "asked" \notin Predicting /\ "schema set" \in Predicting
  BY DEF Predicting
<1>6. ASSUME NEW p \in Questions, p # q PROVE RequestFine(p)'
  <2>1. requestStage'[p] = requestStage[p] /\ schema'[p] = schema[p]
    BY <1>1, <1>2, <1>6 DEF ChatInv, ChatTypes
  <2>2. overlapped'[p] = (overlapped[p] \/ requestStage[p] \in Predicting)
    BY <1>3, <1>6
  <2>3. RequestFine(p)
    BY DEF ChatInv
  <2> QED
    BY <1>1, <2>1, <2>2, <2>3 DEF RequestFine
<1>7. RequestFine(q)'
  <2>1. requestStage'[q] = "schema set" /\ schema'[q] = s
    BY <1>1, <1>2 DEF ChatInv, ChatTypes
  <2>2. overlapped'[q] = (overlapped[q] \/ \E o \in Questions : requestStage[o] \in Predicting)
    BY <1>1, <1>3, <1>5
  <2>3. RequestFine(q) /\ result[q] = {}
    BY <1>1 DEF ChatInv, RequestFine
  <2>4. ~overlapped'[q] => AloneInside(q)'
    <3>1. SUFFICES ASSUME ~overlapped'[q] PROVE AloneInside(q)'
      OBVIOUS
    <3>2. \A p \in Questions \ {q} : requestStage'[p] \notin Predicting
      BY <1>1, <2>2, <3>1 DEF ChatInv, ChatTypes
    <3>3. schema'[q] \in Schemas /\ schemaTree' = schema'[q] /\ result'[q] = {}
      BY <1>1, <1>2, <2>1, <2>3
    <3> QED
      BY <2>1, <3>2, <3>3 DEF AloneInside, Predicting
  <2> QED
    BY <1>1, <2>1, <2>2, <2>3, <2>4 DEF RequestFine
<1> QED
  BY <1>4, <1>6, <1>7 DEF ChatInv

LEMMA SchemaIsCopied ==
  ASSUME ChatInv, NEW q \in Questions, CopySchema(q)
  PROVE  ChatInv'
<1>1. /\ requestStage[q] = "schema set"
      /\ requestStage' = [requestStage EXCEPT ![q] = "split"]
      /\ kindsLeft' = [kindsLeft EXCEPT ![q] = schemaTree]
      /\ UNCHANGED <<schema, schemaTree, mapping, result, partly, overlapped>>
  BY DEF CopySchema, RequestTo
<1>2. ChatTypes'
  BY <1>1 DEF ChatInv, ChatTypes
<1>3. requestStage'[q] = "split" /\ kindsLeft'[q] = schemaTree
  BY <1>1 DEF ChatInv, ChatTypes
<1>4. RequestFine(q) /\ requestStage[q] \in Predicting
  BY <1>1 DEF ChatInv, Predicting
<1>5. ~overlapped[q] => AloneInside(q)'
  <2>1. SUFFICES ASSUME ~overlapped[q] PROVE AloneInside(q)'
    OBVIOUS
  <2>2. AloneInside(q)
    BY <1>4, <2>1 DEF RequestFine
  <2>3. schema[q] \in Schemas /\ schemaTree = schema[q] /\ result[q] \subseteq ToSet(schema[q])
    BY <1>1, <2>2 DEF AloneInside
  <2>4. kindsLeft'[q] \in Seq(ToSet(schema[q]))
    BY <1>3, <2>3, SchemaKinds
  <2>5. \A p \in Questions \ {q} : requestStage'[p] \notin Predicting
    BY <1>1, <2>2 DEF AloneInside, ChatInv, ChatTypes
  <2> QED
    BY <1>1, <1>3, <2>3, <2>4, <2>5 DEF AloneInside
<1>6. RequestFine(q)'
  BY <1>1, <1>3, <1>4, <1>5 DEF RequestFine
<1> QED
  BY <1>1, <1>2, <1>4, <1>6, InsideStep DEF ChatInv, ChatTypes

LEMMA TextIsSplit ==
  ASSUME ChatInv, NEW q \in Questions, Split(q)
  PROVE  ChatInv'
<1>1. /\ requestStage[q] = "split"
      /\ kindsLeft[q] # <<>>
      /\ requestStage' = [requestStage EXCEPT ![q] = "prompted"]
      /\ mapping' = Pieces[q]
      /\ UNCHANGED <<schema, schemaTree, kindsLeft, result, partly, overlapped>>
  BY DEF Split, RequestTo
<1>2. ChatTypes'
  BY <1>1 DEF ChatInv, ChatTypes
<1>3. requestStage'[q] = "prompted"
  BY <1>1 DEF ChatInv, ChatTypes
<1>4. RequestFine(q) /\ requestStage[q] \in Predicting
  BY <1>1 DEF ChatInv, Predicting
<1>5. ~overlapped[q] => AloneInside(q)'
  <2>1. SUFFICES ASSUME ~overlapped[q] PROVE AloneInside(q)'
    OBVIOUS
  <2>2. AloneInside(q)
    BY <1>4, <2>1 DEF RequestFine
  <2>5. \A p \in Questions \ {q} : requestStage'[p] \notin Predicting
    BY <1>1, <2>2 DEF AloneInside, ChatInv, ChatTypes
  <2> QED
    BY <1>1, <1>3, <2>2, <2>5 DEF AloneInside
<1>6. RequestFine(q)'
  BY <1>1, <1>3, <1>4, <1>5 DEF RequestFine
<1> QED
  BY <1>1, <1>2, <1>4, <1>6, InsideStep DEF ChatInv, ChatTypes

LEMMA TextIsPrompted ==
  ASSUME ChatInv, NEW q \in Questions, Prompt(q)
  PROVE  ChatInv'
<1>1. /\ requestStage[q] = "prompted"
      /\ requestStage' = [requestStage EXCEPT
             ![q] = IF mapping = Pieces[q] THEN "inferred" ELSE "raised"]
      /\ UNCHANGED <<schema, schemaTree, kindsLeft, mapping, result, partly, overlapped>>
  BY DEF Prompt, RequestTo
<1>2. ChatTypes'
  BY <1>1 DEF ChatInv, ChatTypes
<1>3. requestStage'[q] = IF mapping = Pieces[q] THEN "inferred" ELSE "raised"
  BY <1>1 DEF ChatInv, ChatTypes
<1>4. RequestFine(q) /\ requestStage[q] \in Predicting
  BY <1>1 DEF ChatInv, Predicting
<1>5. ~overlapped[q] => AloneInside(q)' /\ requestStage'[q] = "inferred"
  <2>1. SUFFICES ASSUME ~overlapped[q] PROVE AloneInside(q)' /\ requestStage'[q] = "inferred"
    OBVIOUS
  <2>2. AloneInside(q)
    BY <1>4, <2>1 DEF RequestFine
  <2>3. requestStage'[q] = "inferred"
    BY <1>1, <1>3, <2>2 DEF AloneInside
  <2>5. \A p \in Questions \ {q} : requestStage'[p] \notin Predicting
    BY <1>1, <2>2 DEF AloneInside, ChatInv, ChatTypes
  <2> QED
    BY <1>1, <2>2, <2>3, <2>5 DEF AloneInside
<1>6. RequestFine(q)'
  BY <1>1, <1>3, <1>4, <1>5 DEF RequestFine, ChatInv, ChatTypes
<1> QED
  BY <1>1, <1>2, <1>4, <1>6, InsideStep DEF ChatInv, ChatTypes

LEMMA PiecesAreJoined ==
  ASSUME ChatInv, NEW q \in Questions, Join(q)
  PROVE  ChatInv'
<1>1. requestStage[q] = "inferred" /\ UNCHANGED <<schema, schemaTree, mapping, overlapped>>
  BY DEF Join
<1>2. RequestFine(q) /\ requestStage[q] \in Predicting
  BY <1>1 DEF ChatInv, Predicting
<1>3. CASE mapping > Pieces[q]
  <2>1. /\ requestStage' = [requestStage EXCEPT ![q] = "raised"]
        /\ UNCHANGED <<kindsLeft, result, partly>>
    BY <1>3 DEF Join, RequestTo
  <2>2. ChatTypes'
    BY <1>1, <2>1 DEF ChatInv, ChatTypes
  <2>3. requestStage'[q] = "raised"
    BY <2>1 DEF ChatInv, ChatTypes
  <2>4. overlapped[q]
    <3>1. SUFFICES ASSUME ~overlapped[q] PROVE FALSE
      BY DEF ChatInv, ChatTypes
    <3>2. mapping = Pieces[q]
      BY <1>1, <1>2, <3>1 DEF RequestFine, AloneInside
    <3>3. Pieces[q] \in Nat
      BY ChatAssumption
    <3> QED
      BY <1>3, <3>2, <3>3
  <2>5. RequestFine(q)'
    BY <1>1, <2>3, <2>4 DEF RequestFine
  <2> QED
    BY <1>1, <1>2, <2>1, <2>2, <2>5, InsideStep DEF ChatInv, ChatTypes
<1>4. CASE ~(mapping > Pieces[q])
  <2>1. /\ requestStage' = [requestStage EXCEPT ![q] = "split"]
        /\ partly' = [partly EXCEPT ![q] = @ \/ mapping < Pieces[q]]
        /\ result' \in {result, [result EXCEPT ![q] = @ \union {Head(kindsLeft[q])}]}
        /\ kindsLeft' = [kindsLeft EXCEPT ![q] = Tail(@)]
    BY <1>4 DEF Join, RequestTo
  <2>2. ChatTypes'
    BY <1>1, <2>1 DEF ChatInv, ChatTypes
  <2>3. /\ requestStage'[q] = "split"
        /\ kindsLeft'[q] = Tail(kindsLeft[q])
        /\ result'[q] \subseteq result[q] \union {Head(kindsLeft[q])}
    BY <2>1 DEF ChatInv, ChatTypes
  <2>4. ~overlapped[q] => AloneInside(q)' /\ ~partly'[q]
    <3>1. SUFFICES ASSUME ~overlapped[q] PROVE AloneInside(q)' /\ ~partly'[q]
      OBVIOUS
    <3>2. AloneInside(q)
      BY <1>2, <3>1 DEF RequestFine
    <3>3. mapping = Pieces[q] /\ kindsLeft[q] # <<>> /\ kindsLeft[q] \in Seq(ToSet(schema[q]))
      BY <1>1, <3>2 DEF AloneInside
    <3>4. ~partly'[q]
      <4>1. ~partly[q]
        BY <1>2, <3>1 DEF RequestFine
      <4>2. Pieces[q] \in Nat
        BY ChatAssumption
      <4>3. ~(mapping < Pieces[q])
        BY <3>3, <4>2
      <4> QED
        BY <2>1, <4>1, <4>3 DEF ChatInv, ChatTypes
    <3>5. kindsLeft'[q] \in Seq(ToSet(schema[q])) /\ Head(kindsLeft[q]) \in ToSet(schema[q])
      <4> DEFINE K == ToSet(schema[q])
      <4>1. kindsLeft[q] \in Seq(K) /\ kindsLeft[q] # <<>>
        BY <3>3
      <4> HIDE DEF K
      <4>2. Tail(kindsLeft[q]) \in Seq(K) /\ Head(kindsLeft[q]) \in K
        BY <4>1
      <4> QED
        BY <2>3, <4>2 DEF K
    <3>6. \A p \in Questions \ {q} : requestStage'[p] \notin Predicting
      BY <2>1, <3>2 DEF AloneInside, ChatInv, ChatTypes
    <3> QED
      BY <1>1, <2>3, <3>2, <3>4, <3>5, <3>6 DEF AloneInside
  <2>5. RequestFine(q)'
    BY <1>1, <2>3, <2>4 DEF RequestFine, ChatInv, ChatTypes
  <2> QED
    BY <1>1, <1>2, <2>1, <2>2, <2>5, InsideStep DEF ChatInv, ChatTypes
<1> QED
  BY <1>3, <1>4

LEMMA QuestionIsAnswered ==
  ASSUME ChatInv, NEW q \in Questions, Answer(q)
  PROVE  ChatInv'
<1>1. /\ requestStage[q] = "split"
      /\ UNCHANGED <<schema, schemaTree, kindsLeft, mapping, result, partly, overlapped>>
  BY DEF Answer
<1>2. RequestFine(q) /\ requestStage[q] \in Predicting
  BY <1>1 DEF ChatInv, Predicting
<1>3. PICK place \in {"ask again", "raised", "answered"} :
        /\ requestStage' = [requestStage EXCEPT ![q] = place]
        /\ place = "raised" => Complete(q) /\ ~(ToSet(schema[q]) \subseteq result[q])
        /\ place = "answered" => ToSet(schema[q]) \subseteq result[q]
  BY DEF Answer, RequestTo
<1>4. ChatTypes'
  BY <1>1, <1>3 DEF ChatInv, ChatTypes
<1>5. requestStage'[q] = place /\ place \notin Predicting
  BY <1>3 DEF ChatInv, ChatTypes, Predicting
<1>6. place = "raised" => overlapped[q]
  <2>1. SUFFICES ASSUME ~overlapped[q], Complete(q) PROVE ToSet(schema[q]) \subseteq result[q]
    BY <1>3 DEF ChatInv, ChatTypes
  <2>2. schema[q] \in Schemas /\ result[q] \subseteq ToSet(schema[q])
    BY <1>2, <2>1 DEF RequestFine, AloneInside
  <2>3. IsFiniteSet(ToSet(schema[q])) /\ Cardinality(ToSet(schema[q])) = Len(schema[q])
    BY <2>2, SchemaKinds
  <2>4. Cardinality(result[q]) = Cardinality(ToSet(schema[q]))
    BY <2>1, <2>3 DEF Complete
  <2> QED
    BY <2>2, <2>3, <2>4, FS_Subset
<1>7. RequestFine(q)'
  BY <1>1, <1>2, <1>3, <1>5, <1>6 DEF RequestFine
<1> QED
  BY <1>1, <1>2, <1>3, <1>4, <1>7, InsideStep DEF ChatInv, ChatTypes

LEMMA OtherIntentIsSafe ==
  ASSUME ChatInv, NEW q \in Questions, OtherIntent(q)
  PROVE  ChatInv'
<1>1. /\ requestStage[q] = "asked"
      /\ requestStage' = [requestStage EXCEPT ![q] = "ask again"]
      /\ UNCHANGED <<schema, schemaTree, kindsLeft, mapping, result, partly, overlapped>>
  BY DEF OtherIntent, RequestTo
<1>2. ChatTypes'
  BY <1>1 DEF ChatInv, ChatTypes
<1>3. /\ requestStage'[q] = "ask again"
      /\ \A p \in Questions \ {q} : requestStage'[p] = requestStage[p]
  BY <1>1 DEF ChatInv, ChatTypes
<1>4. \A p \in Questions : requestStage'[p] \in Predicting => requestStage[p] \in Predicting /\ p # q
  BY <1>3 DEF Predicting
<1>5. ASSUME NEW p \in Questions PROVE RequestFine(p)'
  <2>1. RequestFine(p)
    BY DEF ChatInv
  <2>2. AloneInside(p) /\ p # q => AloneInside(p)'
    BY <1>1, <1>3, <1>4 DEF AloneInside
  <2> QED
    BY <1>1, <1>3, <1>4, <2>1, <2>2 DEF RequestFine
<1> QED
  BY <1>2, <1>5 DEF ChatInv

\* For any number of requests in threads of their own and questions cut into any number of
\* pieces: what fails or is answered from a part has been overlapped, and what is answered
\* rests on the entities of its own schema.
THEOREM FailuresOverlap == ChatSpec => []FailureNeedsOverlap
<1>1. ChatInit => ChatInv
  BY DEF ChatInit, ChatInv, ChatTypes, RequestFine, Predicting
<1>2. ChatInv /\ [ChatNext]_chatVars => ChatInv'
  <2> SUFFICES ASSUME ChatInv, [ChatNext]_chatVars PROVE ChatInv'
    OBVIOUS
  <2>1. ASSUME NEW q \in Questions,
               SetSchema(q) \/ OtherIntent(q) \/ CopySchema(q) \/ Split(q) \/ Prompt(q) \/ Join(q)
                 \/ Answer(q)
        PROVE  ChatInv'
    BY <2>1, SchemaIsSet, OtherIntentIsSafe, SchemaIsCopied, TextIsSplit, TextIsPrompted,
       PiecesAreJoined, QuestionIsAnswered
  <2>2. CASE UNCHANGED chatVars
    BY <2>2 DEF chatVars, ChatInv, ChatTypes, RequestFine, AloneInside
  <2> QED
    BY <2>1, <2>2 DEF ChatNext
<1>3. ChatInv => FailureNeedsOverlap
  BY DEF ChatInv, RequestFine, FailureNeedsOverlap
<1> QED
  BY <1>1, <1>2, <1>3, PTL DEF ChatSpec

-----------------------------------------------------------------------------
(***************************************************************************)
(* PostsaleFlow: what a dialogue has taken off its slot it has requested.  *)
(***************************************************************************)
Requests ==
    [detail : Details, active : BOOLEAN, by : Dialogues, type : Types \union {"none"},
     status : {"sending back", "reviewed"}]

FlowTypes ==
    /\ requests \in Seq(Requests)
    /\ DOMAIN flowStep = Dialogues
    /\ ids \in [Dialogues -> Seq(Details)]
    /\ DOMAIN chosen = Dialogues
    /\ form \in [Dialogues -> [type : Types \union {"none"}, reason : Reasons \union {"none"}]]

HasRequested(u, d) == \E r \in DOMAIN requests : requests[r].detail = d /\ requests[r].by = u

\* Of the chosen details those that are not in the slot any more are requested; the slot
\* is empty when the dialogue is through, and not before.
DialogueFine(u) ==
    /\ flowStep[u] \in {"type", "reason", "commit"} => ids[u] # <<>>
    /\ flowStep[u] = "through" => ids[u] = <<>>
    /\ flowStep[u] \in {"type", "reason", "commit", "through"} =>
          \A d \in chosen[u] \ ToSet(ids[u]) : HasRequested(u, d)

OneActiveEach ==
    \A r, s \in DOMAIN requests :
        requests[r].active /\ requests[s].active /\ requests[r].detail = requests[s].detail => r = s

PostsaleInv == FlowTypes /\ OneActiveEach /\ \A u \in Dialogues : DialogueFine(u)

\* A step of one dialogue that leaves the table and the slot alone.
LEMMA AskingStep ==
  ASSUME PostsaleInv, NEW u \in Dialogues, UNCHANGED <<requests, chosen, ids>>,
         form' \in [Dialogues -> [type : Types \union {"none"}, reason : Reasons \union {"none"}]],
         NEW p \in {"requests", "details", "left", "type", "reason", "commit"},
         flowStep' = [flowStep EXCEPT ![u] = p],
         p \in {"type", "reason", "commit"} => flowStep[u] \in {"type", "reason", "commit"}
  PROVE  PostsaleInv'
<1>1. FlowTypes' /\ OneActiveEach'
  BY DEF PostsaleInv, FlowTypes, OneActiveEach
<1>2. ASSUME NEW v \in Dialogues PROVE DialogueFine(v)'
  <2>1. DialogueFine(v)
    BY DEF PostsaleInv
  <2>2. flowStep'[v] = IF v = u THEN p ELSE flowStep[v]
    BY DEF PostsaleInv, FlowTypes
  <2> QED
    BY <2>1, <2>2 DEF DialogueFine, HasRequested
<1> QED
  BY <1>1, <1>2 DEF PostsaleInv

LEMMA DetailsAreChosen ==
  ASSUME PostsaleInv, NEW u \in Dialogues, ChooseDetails(u)
  PROVE  PostsaleInv'
<1>1. UNCHANGED <<requests, form>>
  BY DEF ChooseDetails, Stays
<1>2. PICK all \in {<<d>> : d \in Offered} \union AllOffered :
        /\ ids' = [ids EXCEPT ![u] = all]
        /\ chosen' = [chosen EXCEPT ![u] = ToSet(all)]
        /\ flowStep' = [flowStep EXCEPT ![u] = IF all = <<>> THEN "left" ELSE "type"]
  BY DEF ChooseDetails, FlowTo
<1>3. all \in Seq(Details)
  <2>0. Offered \subseteq Details
    BY DEF Offered
  <2>1. CASE all \in {<<d>> : d \in Offered}
    <3>1. PICK d \in Offered : all = <<d>>
      BY <2>1
    <3>2. d \in Details
      BY <2>0
    <3> QED
      BY <3>1, <3>2
  <2>2. CASE all \in AllOffered
    <3>1. all \in [1..Cardinality(Offered) -> Offered] /\ ToSet(all) = Offered
      BY <2>2 DEF AllOffered
    <3>2. Cardinality(Offered) \in Nat
      BY <2>0, DetailsAssumption, FS_Subset, FS_CardinalityType
    <3> QED
      BY <2>0, <3>1, <3>2
  <2> QED
    BY <1>2, <2>1, <2>2
<1>4. FlowTypes' /\ OneActiveEach'
  BY <1>1, <1>2, <1>3 DEF PostsaleInv, FlowTypes, OneActiveEach
<1>5. ASSUME NEW v \in Dialogues PROVE DialogueFine(v)'
  <2>1. DialogueFine(v)
    BY DEF PostsaleInv
  <2>2. CASE v # u
    <3>1. flowStep'[v] = flowStep[v] /\ ids'[v] = ids[v] /\ chosen'[v] = chosen[v]
      BY <1>2, <2>2 DEF PostsaleInv, FlowTypes
    <3> QED
      BY <1>1, <2>1, <3>1 DEF DialogueFine, HasRequested
  <2>3. CASE v = u
    <3>1. /\ flowStep'[u] = IF all = <<>> THEN "left" ELSE "type"
          /\ ids'[u] = all /\ chosen'[u] = ToSet(all)
      BY <1>2 DEF PostsaleInv, FlowTypes
    <3> QED
      BY <2>3, <3>1 DEF DialogueFine
  <2> QED
    BY <2>2, <2>3
<1> QED
  BY <1>4, <1>5 DEF PostsaleInv

LEMMA HeadAndTail ==
  ASSUME NEW S, NEW s \in Seq(S), s # <<>>
  PROVE  ToSet(s) \subseteq ToSet(Tail(s)) \union {Head(s)}
<1> SUFFICES ASSUME NEW i \in 1..Len(s), s[i] # Head(s) PROVE s[i] \in ToSet(Tail(s))
  BY DEF ToSet
<1>1. i # 1 /\ i - 1 \in 1..Len(s) - 1
  OBVIOUS
<1>2. Len(Tail(s)) = Len(s) - 1 /\ Tail(s)[i - 1] = s[(i - 1) + 1]
  BY <1>1
<1>3. i - 1 \in DOMAIN Tail(s) /\ Tail(s)[i - 1] = s[i]
  BY <1>1, <1>2
<1> QED
  BY <1>3 DEF ToSet

\* A request is entered for the first detail of the slot, which has none in progress.
LEMMA RequestIsEntered ==
  ASSUME PostsaleInv, NEW u \in Dialogues, ids[u] # <<>>, Active(Head(ids[u])) = {},
         requests' = Append(requests, Request(u))
  PROVE  /\ requests' \in Seq(Requests)
         /\ OneActiveEach'
         /\ \A v, d : HasRequested(v, d) => HasRequested(v, d)'
         /\ \A d : d = Head(ids[u]) => HasRequested(u, d)'
<1>1. requests \in Seq(Requests) /\ ids[u] \in Seq(Details)
  BY DEF PostsaleInv, FlowTypes
<1>2. Head(ids[u]) \in Details
  BY <1>1
<1>3. /\ Request(u) \in Requests
      /\ Request(u).detail = Head(ids[u])
      /\ Request(u).by = u
  BY <1>2 DEF Request, Requests, PostsaleInv, FlowTypes
<1>4. requests' \in Seq(Requests) /\ Len(requests') = Len(requests) + 1
  BY <1>1, <1>3
<1>5. /\ \A r \in 1..Len(requests) : requests'[r] = requests[r]
      /\ requests'[Len(requests) + 1] = Request(u)
  BY <1>1, <1>3
<1>6. DOMAIN requests = 1..Len(requests) /\ DOMAIN requests' = 1..Len(requests) + 1
      /\ Len(requests) \in Nat
  BY <1>1, <1>4
<1>7. \A v, d : HasRequested(v, d) => HasRequested(v, d)'
  BY <1>5, <1>6 DEF HasRequested
<1>8. \A d : d = Head(ids[u]) => HasRequested(u, d)'
  <2>1. \E r \in DOMAIN requests' : requests'[r].detail = Head(ids[u]) /\ requests'[r].by = u
    BY <1>3, <1>5, <1>6
  <2> QED
    BY <2>1 DEF HasRequested
<1>9. OneActiveEach'
  <2>1. \A r \in DOMAIN requests : ~(requests[r].active /\ requests[r].detail = Head(ids[u]))
    BY DEF Active, OfDetail
  <2>2. SUFFICES ASSUME NEW r \in DOMAIN requests', NEW s \in DOMAIN requests',
                        requests'[r].active, requests'[s].active,
                        requests'[r].detail = requests'[s].detail
                 PROVE  r = s
    BY DEF OneActiveEach
  <2>3. CASE r \in DOMAIN requests /\ s \in DOMAIN requests
    BY <1>5, <1>6, <2>2, <2>3 DEF PostsaleInv, OneActiveEach
  <2>4. CASE r \notin DOMAIN requests /\ s \in DOMAIN requests
    BY <1>3, <1>5, <1>6, <2>1, <2>2, <2>4
  <2>5. CASE r \in DOMAIN requests /\ s \notin DOMAIN requests
    BY <1>3, <1>5, <1>6, <2>1, <2>2, <2>5
  <2>6. CASE r \notin DOMAIN requests /\ s \notin DOMAIN requests
    BY <1>6, <2>6
  <2> QED
    BY <2>3, <2>4, <2>5, <2>6
<1> QED
  BY <1>4, <1>7, <1>8, <1>9

LEMMA RequestIsSubmitted ==
  ASSUME PostsaleInv, NEW u \in Dialogues, Submit(u)
  PROVE  PostsaleInv'
<1>1. /\ flowStep[u] = "commit"
      /\ Active(Head(ids[u])) = {}
      /\ requests' = Append(requests, Request(u))
      /\ ids' = [ids EXCEPT ![u] = Tail(@)]
      /\ flowStep' = [flowStep EXCEPT ![u] = IF Tail(ids[u]) = <<>> THEN "through" ELSE "type"]
      /\ UNCHANGED <<chosen, form>>
  BY DEF Submit, Loop, FlowTo
<1>2. ids[u] \in Seq(Details) /\ ids[u] # <<>> /\ DialogueFine(u)
  BY <1>1 DEF PostsaleInv, FlowTypes, DialogueFine
<1>3. /\ requests' \in Seq(Requests)
      /\ OneActiveEach'
      /\ \A v, d : HasRequested(v, d) => HasRequested(v, d)'
      /\ \A d : d = Head(ids[u]) => HasRequested(u, d)'
  BY <1>1, <1>2, RequestIsEntered
<1>4. Tail(ids[u]) \in Seq(Details)
  BY <1>2
<1>5. FlowTypes'
  BY <1>1, <1>3, <1>4 DEF PostsaleInv, FlowTypes
<1>6. ASSUME NEW v \in Dialogues PROVE DialogueFine(v)'
  <2>1. DialogueFine(v)
    BY DEF PostsaleInv
  <2>2. CASE v # u
    <3>1. flowStep'[v] = flowStep[v] /\ ids'[v] = ids[v] /\ chosen'[v] = chosen[v]
      BY <1>1, <2>2 DEF PostsaleInv, FlowTypes
    <3> QED
      BY <1>3, <2>1, <3>1 DEF DialogueFine
  <2>3. CASE v = u
    <3>1. /\ flowStep'[u] = IF Tail(ids[u]) = <<>> THEN "through" ELSE "type"
          /\ ids'[u] = Tail(ids[u]) /\ chosen'[u] = chosen[u]
      BY <1>1 DEF PostsaleInv, FlowTypes
    <3>2. ToSet(ids[u]) \subseteq ToSet(Tail(ids[u])) \union {Head(ids[u])}
      BY <1>2, HeadAndTail
    <3>3. \A d \in chosen[u] \ ToSet(Tail(ids[u])) : HasRequested(u, d) \/ d = Head(ids[u])
      BY <1>1, <1>2, <3>2 DEF DialogueFine
    <3>4. \A d \in chosen[u] \ ToSet(Tail(ids[u])) : HasRequested(u, d)'
      BY <1>3, <3>3
    <3> QED
      BY <2>3, <3>1, <3>4 DEF DialogueFine
  <2> QED
    BY <2>2, <2>3
<1> QED
  BY <1>3, <1>5, <1>6 DEF PostsaleInv

\* The detail stays the first of the slot, and the type is asked again.
LEMMA RequestIsRepeated ==
  ASSUME PostsaleInv, NEW u \in Dialogues, Refuse(u) \/ Fail(u)
  PROVE  PostsaleInv'
<1>1. flowStep[u] = "commit" /\ UNCHANGED <<ids, chosen, form>>
  BY DEF Refuse, Fail, Stays
<1>2. ids[u] \in Seq(Details) /\ ids[u] # <<>> /\ DialogueFine(u)
  BY <1>1 DEF PostsaleInv, FlowTypes, DialogueFine
<1>3. flowStep' = [flowStep EXCEPT ![u] = "type"]
  BY <1>2 DEF Refuse, Fail, Loop, FlowTo
<1>4. CASE UNCHANGED requests
  BY <1>1, <1>3, <1>4, AskingStep DEF PostsaleInv, FlowTypes
<1>5. CASE Active(Head(ids[u])) = {} /\ requests' = Append(requests, Request(u))
  <2>1. /\ requests' \in Seq(Requests)
        /\ OneActiveEach'
        /\ \A v, d : HasRequested(v, d) => HasRequested(v, d)'
    BY <1>2, <1>5, RequestIsEntered
  <2>2. FlowTypes'
    BY <1>1, <1>3, <2>1 DEF PostsaleInv, FlowTypes
  <2>3. ASSUME NEW v \in Dialogues PROVE DialogueFine(v)'
    <3>1. DialogueFine(v)
      BY DEF PostsaleInv
    <3>2. flowStep'[v] = IF v = u THEN "type" ELSE flowStep[v]
      BY <1>3 DEF PostsaleInv, FlowTypes
    <3> QED
      BY <1>1, <2>1, <3>1, <3>2 DEF DialogueFine
  <2> QED
    BY <2>1, <2>2, <2>3 DEF PostsaleInv
<1> QED
  BY <1>4, <1>5 DEF Refuse, Fail, Stays

LEMMA RequestIsCompleted ==
  ASSUME PostsaleInv, CompleteRequest
  PROVE  PostsaleInv'
<1>1. UNCHANGED dialogueVars
  BY DEF CompleteRequest
<1>2. PICK r \in DOMAIN requests : requests' = [requests EXCEPT ![r].active = FALSE]
  BY DEF CompleteRequest
<1>3. requests \in Seq(Requests)
  BY DEF PostsaleInv, FlowTypes
<1>4. requests[r] \in Requests
  BY <1>3
<1>5. [requests[r] EXCEPT !.active = FALSE] \in Requests
  BY <1>4 DEF Requests
<1>6. requests' = [requests EXCEPT ![r] = [requests[r] EXCEPT !.active = FALSE]]
  BY <1>2
<1>7. requests' \in Seq(Requests) /\ DOMAIN requests' = DOMAIN requests
  BY <1>3, <1>5, <1>6
<1>8. \A s \in DOMAIN requests :
        /\ requests'[s].detail = requests[s].detail
        /\ requests'[s].by = requests[s].by
        /\ requests'[s].active => requests[s].active
  BY <1>3, <1>4, <1>6 DEF Requests
<1>9. FlowTypes' /\ OneActiveEach'
  BY <1>1, <1>7, <1>8 DEF PostsaleInv, FlowTypes, OneActiveEach, dialogueVars
<1>10. ASSUME NEW v \in Dialogues PROVE DialogueFine(v)'
  <2>1. DialogueFine(v)
    BY DEF PostsaleInv
  <2>2. \A d : HasRequested(v, d) => HasRequested(v, d)'
    BY <1>7, <1>8 DEF HasRequested
  <2> QED
    BY <1>1, <2>1, <2>2 DEF DialogueFine, dialogueVars
<1> QED
  BY <1>9, <1>10 DEF PostsaleInv

\* For any number of dialogues, of details and of failures: who is through has requested
\* each detail that was chosen, and no detail has two requests in progress.
THEOREM ThroughIsRequested == FlowSpec => []ThroughMeansRequested
<1>1. FlowInit => PostsaleInv
  <2> SUFFICES ASSUME FlowInit PROVE PostsaleInv
    OBVIOUS
  <2>1. FlowTypes
    BY DEF FlowInit, FlowTypes, NoForm
  <2>2. OneActiveEach /\ \A u \in Dialogues : DialogueFine(u)
    BY DEF FlowInit, OneActiveEach, DialogueFine
  <2> QED
    BY <2>1, <2>2 DEF PostsaleInv
<1>2. PostsaleInv /\ [FlowNext]_flowVars => PostsaleInv'
  <2> SUFFICES ASSUME PostsaleInv, [FlowNext]_flowVars PROVE PostsaleInv'
    OBVIOUS
  <2>1. form \in [Dialogues -> [type : Types \union {"none"}, reason : Reasons \union {"none"}]]
    BY DEF PostsaleInv, FlowTypes
  <2>2. ASSUME NEW u \in Dialogues, ReadOrder(u) \/ ReadRequests(u) PROVE PostsaleInv'
    BY <2>1, <2>2, AskingStep DEF ReadOrder, ReadRequests, FlowTo, Stays
  <2>3. ASSUME NEW u \in Dialogues, AskType(u) PROVE PostsaleInv'
    <3>1. form' \in [Dialogues -> [type : Types \union {"none"}, reason : Reasons \union {"none"}]]
      BY <2>1, <2>3 DEF AskType
    <3> QED
      BY <2>3, <3>1, AskingStep DEF AskType, FlowTo, Stays
  <2>4. ASSUME NEW u \in Dialogues, AskReason(u) PROVE PostsaleInv'
    <3>1. form' \in [Dialogues -> [type : Types \union {"none"}, reason : Reasons \union {"none"}]]
      BY <2>1, <2>4 DEF AskReason
    <3> QED
      BY <2>4, <3>1, AskingStep DEF AskReason, FlowTo, Stays
  <2>5. ASSUME NEW u \in Dialogues, LeaveFlow(u) PROVE PostsaleInv'
    BY <2>1, <2>5, AskingStep DEF LeaveFlow, FlowTo, Stays
  <2>6. CASE SevenDays \/ UNCHANGED flowVars
    <3>1. UNCHANGED <<requests, dialogueVars>>
      BY <2>6 DEF SevenDays, flowVars
    <3> QED
      BY <3>1 DEF dialogueVars, PostsaleInv, FlowTypes, OneActiveEach, DialogueFine, HasRequested
  <2> QED
    BY <2>2, <2>3, <2>4, <2>5, <2>6, DetailsAreChosen, RequestIsSubmitted, RequestIsRepeated,
       RequestIsCompleted DEF FlowNext
<1>3. PostsaleInv => ThroughMeansRequested
  <2> SUFFICES ASSUME PostsaleInv PROVE ThroughMeansRequested
    OBVIOUS
  <2>1. ASSUME NEW u \in Dialogues, flowStep[u] = "through", NEW d \in chosen[u]
        PROVE  \E r \in OfDetail(d) : requests[r].by = u
    <3>1. ToSet(ids[u]) = {}
      BY <2>1 DEF PostsaleInv, DialogueFine, ToSet
    <3> QED
      BY <2>1, <3>1 DEF PostsaleInv, DialogueFine, HasRequested, OfDetail
  <2>2. ASSUME NEW d \in Details PROVE Cardinality(Active(d)) <= 1
    <3>1. \A r, s \in Active(d) : r = s
      BY DEF PostsaleInv, OneActiveEach, Active, OfDetail
    <3>2. CASE Active(d) = {}
      BY <3>2, FS_EmptySet
    <3>3. CASE Active(d) # {}
      <4>1. PICK r \in Active(d) : Active(d) = {r}
        BY <3>1, <3>3
      <4> QED
        BY <4>1, FS_Singleton
    <3> QED
      BY <3>2, <3>3
  <2> QED
    BY <2>1, <2>2 DEF ThroughMeansRequested
<1> QED
  BY <1>1, <1>2, <1>3, PTL DEF FlowSpec

-----------------------------------------------------------------------------
(***************************************************************************)
(* Logistics: how old a list may be that is loaded, cached or told, and    *)
(* what an offered kind of reasons says of the parcel.                     *)
(***************************************************************************)
LogisticsTypes ==
    /\ now \in Nat
    /\ changed \in Seq(Nat)
    /\ cache \in [list : Nat, at : Nat]
    /\ loading \in [Talks -> [list : Nat, at : Nat]]
    /\ told \in [list : Nat, at : Nat]
    /\ parcel \in {"none", "shipped", "delivered"}
    /\ arrived \in Nat
    /\ DOMAIN complaintStage = Talks
    /\ DOMAIN offer = Talks
    /\ \A d \in Talks : offer[d] = [kind |-> offer[d].kind, at |-> offer[d].at]
                        /\ offer[d].at \in Nat

\* A list that was not replaced before the time t.
LastsUntil(list, t) ==
    /\ list \in 1..Len(changed) + 1
    /\ t <= now
    /\ list \in 1..Len(changed) => t <= changed[list]

ListsInTime ==
    /\ \A d \in Talks : loading[d].list # 0 =>
          LastsUntil(loading[d].list, loading[d].at) /\ now <= loading[d].at + Slow
    /\ cache.list # 0 =>
          \E t \in 0..now : LastsUntil(cache.list, t) /\ cache.at <= t + Slow + CacheTtl
    /\ told.list # 0 =>
          \E t \in 0..now : LastsUntil(told.list, t) /\ told.at <= t + Slow + CacheTtl

\* The kind of reasons is "other", or it fits the parcel, or the parcel came since then.
OffersFit ==
    /\ \A d \in Talks :
        /\ complaintStage[d] = "informed" => parcel \in {"shipped", "delivered"}
        /\ complaintStage[d] \in {"offered", "record"} =>
              /\ offer[d].at <= now
              /\ \/ offer[d].kind \in {parcel, "other"} /\ parcel \in {"shipped", "delivered"}
                 \/ parcel = "delivered" /\ arrived >= offer[d].at
    /\ record.of = "delivered" => parcel = "delivered"
    /\ ReasonFits

LogisticsInv == LogisticsTypes /\ ListsInTime /\ OffersFit

\* A list is replaced when it is: the time that has passed is no earlier than t.
LEMMA StillLasts ==
  ASSUME LogisticsTypes, now' \in Nat, now' >= now,
         changed' = changed \/ changed' = Append(changed, now)
  PROVE  \A l, t \in Nat : LastsUntil(l, t) => LastsUntil(l, t)'
<1>1. SUFFICES ASSUME NEW l \in Nat, NEW t \in Nat, LastsUntil(l, t) PROVE LastsUntil(l, t)'
  OBVIOUS
<1>2. now \in Nat /\ changed \in Seq(Nat) /\ Len(changed) \in Nat
  BY DEF LogisticsTypes
<1>3. CASE changed' = changed
  BY <1>1, <1>2, <1>3 DEF LastsUntil
<1>4. CASE changed' = Append(changed, now)
  <2>1. /\ Len(changed') = Len(changed) + 1
        /\ changed'[Len(changed) + 1] = now
        /\ \A i \in 1..Len(changed) : changed'[i] = changed[i]
    BY <1>2, <1>4
  <2> QED
    BY <1>1, <1>2, <2>1 DEF LastsUntil
<1> QED
  BY <1>3, <1>4

\* The lists that are held stay in time while nothing is told or stored.
LEMMA ListsStayInTime ==
  ASSUME LogisticsInv, now' \in Nat, now' >= now,
         changed' = changed \/ changed' = Append(changed, now),
         UNCHANGED <<cache, told>>,
         loading' \in [Talks -> [list : Nat, at : Nat]],
         \A d \in Talks : loading'[d].list # 0 =>
             /\ LastsUntil(loading'[d].list, loading'[d].at)
             /\ now' <= loading'[d].at + Slow
  PROVE  ListsInTime'
<1>1. \A l, t \in Nat : LastsUntil(l, t) => LastsUntil(l, t)'
  BY StillLasts DEF LogisticsInv
<1>2. cache \in [list : Nat, at : Nat] /\ told \in [list : Nat, at : Nat] /\ now \in Nat
  BY DEF LogisticsInv, LogisticsTypes
<1>3. \A t \in 0..now : t \in Nat /\ t \in 0..now'
  BY <1>2
<1>4. ASSUME cache.list # 0
      PROVE  \E t \in 0..now' : LastsUntil(cache.list, t)' /\ cache.at <= t + Slow + CacheTtl
  <2>1. PICK t \in 0..now : LastsUntil(cache.list, t) /\ cache.at <= t + Slow + CacheTtl
    BY <1>4 DEF LogisticsInv, ListsInTime
  <2> QED
    BY <1>1, <1>2, <1>3, <2>1
<1>5. ASSUME told.list # 0
      PROVE  \E t \in 0..now' : LastsUntil(told.list, t)' /\ told.at <= t + Slow + CacheTtl
  <2>1. PICK t \in 0..now : LastsUntil(told.list, t) /\ told.at <= t + Slow + CacheTtl
    BY <1>5 DEF LogisticsInv, ListsInTime
  <2> QED
    BY <1>1, <1>2, <1>3, <2>1
<1> QED
  BY <1>1, <1>2, <1>4, <1>5 DEF ListsInTime

\* The other half of the invariant in a step that leaves the complaints alone.
LEMMA OffersStay ==
  ASSUME LogisticsInv, UNCHANGED <<parcelVars, complaintVars>>, now' \in Nat, now' >= now
  PROVE  OffersFit'
<1>1. now \in Nat
  BY DEF LogisticsInv, LogisticsTypes
<1>2. \A d \in Talks : offer[d].at \in Nat
  BY DEF LogisticsInv, LogisticsTypes
<1> QED
  BY <1>1, <1>2 DEF LogisticsInv, OffersFit, ReasonFits, parcelVars, complaintVars

LEMMA TimeAndLists ==
  ASSUME LogisticsInv, ChangeList \/ Tick
  PROVE  LogisticsInv'
<1>1. /\ now \in Nat
      /\ changed \in Seq(Nat)
      /\ loading \in [Talks -> [list : Nat, at : Nat]]
      /\ Slow \in Nat
  BY LogisticsAssumption DEF LogisticsInv, LogisticsTypes
<1>2. /\ now' \in Nat /\ now' >= now
      /\ changed' = changed \/ changed' = Append(changed, now)
      /\ UNCHANGED <<cache, loading, told, parcelVars, complaintVars>>
  BY <1>1 DEF ChangeList, Tick, listVars
<1>3. \A d \in Talks : loading[d].list # 0 => now' <= loading[d].at + Slow
  <2>1. CASE ChangeList
    BY <2>1 DEF ChangeList, LogisticsInv, ListsInTime
  <2>2. CASE Tick
    BY <1>1, <2>2 DEF Tick
  <2> QED
    BY <2>1, <2>2
<1>4. ListsInTime'
  <2>1. \A d \in Talks : loading'[d].list # 0 =>
          LastsUntil(loading'[d].list, loading'[d].at) /\ now' <= loading'[d].at + Slow
    BY <1>2, <1>3 DEF LogisticsInv, ListsInTime
  <2> QED
    BY <1>1, <1>2, <2>1, ListsStayInTime
<1>5. LogisticsTypes'
  <2>1. changed' \in Seq(Nat)
    BY <1>1, <1>2
  <2> QED
    BY <1>2, <2>1 DEF LogisticsInv, LogisticsTypes, parcelVars, complaintVars
<1> QED
  BY <1>2, <1>4, <1>5, OffersStay DEF LogisticsInv

LEMMA ListIsQueried ==
  ASSUME LogisticsInv, NEW d \in Talks, Query(d)
  PROVE  LogisticsInv'
<1>1. /\ loading' = [loading EXCEPT ![d] = [list |-> Len(changed) + 1, at |-> now]]
      /\ UNCHANGED <<now, changed, cache, told, parcelVars, complaintVars>>
  BY DEF Query, Current
<1>2. /\ now \in Nat
      /\ changed \in Seq(Nat) /\ Len(changed) \in Nat
      /\ loading \in [Talks -> [list : Nat, at : Nat]]
      /\ Slow \in Nat
  BY LogisticsAssumption DEF LogisticsInv, LogisticsTypes
<1>3. loading' \in [Talks -> [list : Nat, at : Nat]]
  BY <1>1, <1>2
<1>4. ASSUME NEW e \in Talks, loading'[e].list # 0
      PROVE  /\ LastsUntil(loading'[e].list, loading'[e].at)
             /\ now' <= loading'[e].at + Slow
  <2>1. CASE e = d
    <3>1. loading'[e].list = Len(changed) + 1 /\ loading'[e].at = now
      BY <1>1, <1>2, <2>1
    <3>2. LastsUntil(Len(changed) + 1, now)
      BY <1>2 DEF LastsUntil
    <3>3. now <= now + Slow
      BY <1>2
    <3> QED
      BY <1>1, <3>1, <3>2, <3>3
  <2>2. CASE e # d
    <3>1. loading'[e] = loading[e]
      BY <1>1, <1>2, <2>2
    <3> QED
      BY <1>1, <1>4, <3>1 DEF LogisticsInv, ListsInTime
  <2> QED
    BY <2>1, <2>2
<1>5. now' \in Nat /\ now' >= now
  BY <1>1, <1>2
<1>6. ListsInTime'
  BY <1>1, <1>3, <1>4, <1>5, ListsStayInTime
<1>7. LogisticsTypes'
  BY <1>1, <1>3 DEF LogisticsInv, LogisticsTypes, parcelVars, complaintVars
<1> QED
  BY <1>1, <1>5, <1>6, <1>7, OffersStay DEF LogisticsInv

\* Both ways to tell a list: from the cache, which may be so old, or a loaded one,
\* which is younger by the cache's TTL and may go into the cache.
LEMMA ListIsTold ==
  ASSUME LogisticsInv, NEW d \in Talks, FromCache(d) \/ Store(d)
  PROVE  LogisticsInv'
<1>1. /\ now \in Nat
      /\ cache \in [list : Nat, at : Nat]
      /\ loading \in [Talks -> [list : Nat, at : Nat]]
      /\ Slow \in Nat /\ CacheTtl \in Nat
  BY LogisticsAssumption DEF LogisticsInv, LogisticsTypes
<1>2. UNCHANGED <<now, changed, parcelVars, complaintVars>>
  BY DEF FromCache, Store
<1>3. \A l, t : LastsUntil(l, t) => LastsUntil(l, t)'
  BY <1>2 DEF LastsUntil
<1>4. CASE FromCache(d)
  <2>1. /\ cache.list # 0 /\ now < cache.at
        /\ told' = [list |-> cache.list, at |-> now]
        /\ UNCHANGED <<cache, loading>>
    BY <1>4 DEF FromCache, Tell
  <2>2. PICK t \in 0..now : LastsUntil(cache.list, t) /\ cache.at <= t + Slow + CacheTtl
    BY <2>1 DEF LogisticsInv, ListsInTime
  <2>3. now <= t + Slow + CacheTtl
    BY <1>1, <2>1, <2>2
  <2>4. told'.list = cache.list /\ told'.at = now /\ told' \in [list : Nat, at : Nat]
    BY <1>1, <2>1
  <2>5. \E u \in 0..now' : LastsUntil(told.list, u)' /\ told'.at <= u + Slow + CacheTtl
    <3>1. LastsUntil(cache.list, t)'
      BY <1>3, <2>1, <2>2
    <3>2. LastsUntil(told.list, t)'
      BY <2>1, <2>4, <3>1
    <3> QED
      BY <1>2, <2>2, <2>3, <2>4, <3>2
  <2>6. ListsInTime'
    BY <1>2, <1>3, <2>1, <2>5 DEF LogisticsInv, ListsInTime
  <2>7. LogisticsTypes'
    BY <1>2, <2>1, <2>4 DEF LogisticsInv, LogisticsTypes, parcelVars, complaintVars
  <2> QED
    BY <1>1, <1>2, <2>6, <2>7, OffersStay DEF LogisticsInv
<1>5. CASE Store(d)
  <2> DEFINE list == loading[d].list
             at == loading[d].at
  <2>1. /\ list # 0
        /\ cache' \in {cache, [list |-> list, at |-> now + CacheTtl]}
        /\ told' = [list |-> list, at |-> now]
        /\ loading' = [loading EXCEPT ![d] = NoList]
    BY <1>5 DEF Store, Tell
  <2>2. list \in Nat /\ at \in Nat
    BY <1>1
  <2>3. LastsUntil(list, at) /\ now <= at + Slow
    BY <2>1 DEF LogisticsInv, ListsInTime
  <2> HIDE DEF list, at
  <2>4. at \in 0..now
    BY <1>1, <2>2, <2>3 DEF LastsUntil
  <2>5. now <= at + Slow + CacheTtl /\ now + CacheTtl <= at + Slow + CacheTtl
    BY <1>1, <2>2, <2>3
  <2>6. /\ told'.list = list /\ told'.at = now /\ told' \in [list : Nat, at : Nat]
        /\ cache' \in [list : Nat, at : Nat]
        /\ cache' = cache \/ (cache'.list = list /\ cache'.at = now + CacheTtl)
        /\ loading' \in [Talks -> [list : Nat, at : Nat]]
        /\ \A e \in Talks : loading'[e].list # 0 => loading'[e] = loading[e]
    BY <1>1, <2>1, <2>2 DEF NoList
  <2>7. ListsInTime'
    <3>1. \A e \in Talks : loading'[e].list # 0 =>
            LastsUntil(loading[e].list, loading[e].at)' /\ now' <= loading'[e].at + Slow
      BY <1>2, <1>3, <2>6 DEF LogisticsInv, ListsInTime
    <3>2. \E t \in 0..now' : LastsUntil(told.list, t)' /\ told'.at <= t + Slow + CacheTtl
      BY <1>2, <1>3, <2>3, <2>4, <2>5, <2>6
    <3>3. cache'.list # 0 =>
            \E t \in 0..now' : LastsUntil(cache.list, t)' /\ cache'.at <= t + Slow + CacheTtl
      BY <1>2, <1>3, <2>3, <2>4, <2>5, <2>6 DEF LogisticsInv, ListsInTime
    <3> QED
      BY <3>1, <3>2, <3>3 DEF ListsInTime
  <2>8. LogisticsTypes'
    BY <1>2, <2>6 DEF LogisticsInv, LogisticsTypes, parcelVars, complaintVars
  <2> QED
    BY <1>1, <1>2, <2>7, <2>8, OffersStay DEF LogisticsInv
<1> QED
  BY <1>4, <1>5

\* The first half of the invariant in a step that leaves the lists and the time alone.
LEMMA ListsStay ==
  ASSUME LogisticsInv, UNCHANGED <<now, listVars>>
  PROVE  ListsInTime'
  BY DEF LogisticsInv, ListsInTime, LastsUntil, listVars

LEMMA ParcelMoves ==
  ASSUME LogisticsInv, Ship \/ Deliver
  PROVE  LogisticsInv'
<1>1. /\ UNCHANGED <<now, listVars, complaintVars>> /\ now \in Nat
      /\ \A d \in Talks : offer[d].at \in Nat
  BY DEF Ship, Deliver, LogisticsInv, LogisticsTypes
<1>2. \/ parcel = "none" /\ parcel' = "shipped" /\ arrived' = arrived
      \/ parcel = "shipped" /\ parcel' = "delivered" /\ arrived' = now
  BY DEF Ship, Deliver
<1>3. LogisticsTypes'
  BY <1>1, <1>2 DEF LogisticsInv, LogisticsTypes, listVars, complaintVars
<1>4. OffersFit'
  BY <1>1, <1>2 DEF LogisticsInv, OffersFit, ReasonFits, complaintVars
<1> QED
  BY <1>1, <1>3, <1>4, ListsStay DEF LogisticsInv

LEMMA DialogueMoves ==
  ASSUME LogisticsInv, NEW d \in Talks, GetInfo(d) \/ AskComplaint(d) \/ Choose(d) \/ Record(d)
  PROVE  LogisticsInv'
<1>1. UNCHANGED <<now, listVars, parcelVars>> /\ now \in Nat
  BY DEF GetInfo, AskComplaint, Choose, Record, LogisticsInv, LogisticsTypes
<1>2. /\ DOMAIN complaintStage = Talks /\ DOMAIN offer = Talks
      /\ \A e \in Talks : offer[e] = [kind |-> offer[e].kind, at |-> offer[e].at]
                          /\ offer[e].at \in Nat
  BY DEF LogisticsInv, LogisticsTypes
<1>3. PICK place \in {"start", "raised", "informed", "offered", "record"} :
        complaintStage' = [complaintStage EXCEPT ![d] = place]
  BY DEF GetInfo, AskComplaint, Choose, Record, ComplaintTo
<1>4. /\ complaintStage'[d] = place
      /\ \A e \in Talks \ {d} : complaintStage'[e] = complaintStage[e]
      /\ DOMAIN complaintStage' = Talks
  BY <1>2, <1>3
<1>5. CASE AskComplaint(d)
  <2>1. /\ offer' = [offer EXCEPT ![d] = [kind |-> parcel, at |-> now]]
        /\ complaintStage[d] = "informed" /\ complaintStage'[d] = "offered" /\ UNCHANGED record
    BY <1>2, <1>5 DEF AskComplaint, ComplaintTo
  <2>2. /\ offer'[d] = [kind |-> parcel, at |-> now]
        /\ \A e \in Talks \ {d} : offer'[e] = offer[e]
        /\ DOMAIN offer' = Talks
    BY <1>2, <2>1
  <2>3. LogisticsTypes'
    <3>1. \A e \in Talks : offer'[e] = [kind |-> offer'[e].kind, at |-> offer'[e].at]
                            /\ offer'[e].at \in Nat
      BY <1>1, <1>2, <2>2
    <3> QED
      BY <1>1, <1>4, <2>2, <3>1 DEF LogisticsInv, LogisticsTypes, listVars, parcelVars
  <2>4. OffersFit'
    BY <1>1, <1>4, <2>1, <2>2 DEF LogisticsInv, OffersFit, ReasonFits, parcelVars
  <2> QED
    BY <1>1, <2>3, <2>4, ListsStay DEF LogisticsInv
<1>6. CASE Choose(d)
  <2>1. /\ complaintStage[d] = "offered" /\ complaintStage'[d] \in {"record", "start"}
        /\ offer' \in {offer, [offer EXCEPT ![d].kind = "other"]} /\ UNCHANGED record
    BY <1>2, <1>6 DEF Choose, ComplaintTo
  <2>2. /\ offer'[d].kind \in {offer[d].kind, "other"} /\ offer'[d].at = offer[d].at
        /\ offer'[d] = [kind |-> offer'[d].kind, at |-> offer'[d].at]
        /\ \A e \in Talks \ {d} : offer'[e] = offer[e]
        /\ DOMAIN offer' = Talks
    BY <1>2, <2>1
  <2>3. LogisticsTypes'
    BY <1>1, <1>2, <1>4, <2>2 DEF LogisticsInv, LogisticsTypes, listVars, parcelVars
  <2>4. OffersFit'
    BY <1>1, <1>4, <2>1, <2>2 DEF LogisticsInv, OffersFit, ReasonFits, parcelVars
  <2> QED
    BY <1>1, <2>3, <2>4, ListsStay DEF LogisticsInv
<1>7. CASE GetInfo(d) \/ Record(d)
  <2>1. /\ complaintStage'[d] \in {"start", "raised", "informed"} /\ UNCHANGED offer
        /\ complaintStage'[d] = "informed" => parcel \in {"shipped", "delivered"}
    BY <1>2, <1>7 DEF GetInfo, Record, ComplaintTo, LogisticsInv, LogisticsTypes
  <2>2. \/ UNCHANGED record
        \/ /\ complaintStage[d] = "record"
           /\ record' = [kind |-> offer[d].kind, offered |-> offer[d].at, of |-> parcel]
    BY <1>7 DEF GetInfo, Record
  <2>3. LogisticsTypes'
    BY <1>1, <1>2, <1>4, <2>1 DEF LogisticsInv, LogisticsTypes, listVars, parcelVars
  <2>4. OffersFit'
    BY <1>1, <1>4, <2>1, <2>2 DEF LogisticsInv, OffersFit, ReasonFits, parcelVars
  <2> QED
    BY <1>1, <2>3, <2>4, ListsStay DEF LogisticsInv
<1> QED
  BY <1>5, <1>6, <1>7

\* For any TTL, any time of a load, and any number of dialogues, changes and complaints.
THEOREM ToldIsTrue == LogisticsSpec => []ToldWasTrue
<1>1. LogisticsInit => LogisticsInv
  <2> SUFFICES ASSUME LogisticsInit PROVE LogisticsInv
    OBVIOUS
  <2>1. LogisticsTypes
    BY DEF LogisticsInit, LogisticsTypes, NoList
  <2>2. ListsInTime /\ OffersFit
    BY DEF LogisticsInit, ListsInTime, OffersFit, ReasonFits, NoList
  <2> QED
    BY <2>1, <2>2 DEF LogisticsInv
<1>2. LogisticsInv /\ [ListNext \/ ComplaintNext]_logisticsVars => LogisticsInv'
  <2> SUFFICES ASSUME LogisticsInv, [ListNext \/ ComplaintNext]_logisticsVars PROVE LogisticsInv'
    OBVIOUS
  <2>1. CASE UNCHANGED logisticsVars
    BY <2>1 DEF logisticsVars, LogisticsInv, LogisticsTypes, ListsInTime, LastsUntil, OffersFit,
                ReasonFits
  <2> QED
    BY <2>1, TimeAndLists, ListIsQueried, ListIsTold, ParcelMoves, DialogueMoves
       DEF ListNext, ComplaintNext
<1>3. LogisticsInv => ToldWasTrue
  <2> SUFFICES ASSUME LogisticsInv PROVE ToldWasTrue
    OBVIOUS
  <2>1. ListIsRecent
    <3>1. SUFFICES ASSUME told.list \in DOMAIN changed
                   PROVE  told.at <= changed[told.list] + CacheTtl + Slow
      BY DEF ListIsRecent
    <3>2. told.list \in 1..Len(changed) /\ changed \in Seq(Nat) /\ told.at \in Nat
      BY <3>1 DEF LogisticsInv, LogisticsTypes
    <3>3. PICK t \in 0..now : LastsUntil(told.list, t) /\ told.at <= t + Slow + CacheTtl
      BY <3>2 DEF LogisticsInv, ListsInTime
    <3>4. t <= changed[told.list]
      BY <3>2, <3>3 DEF LastsUntil
    <3>5. changed[told.list] \in Nat /\ t \in Nat /\ Slow \in Nat /\ CacheTtl \in Nat
      BY <3>2, LogisticsAssumption DEF LogisticsInv, LogisticsTypes
    <3> QED
      BY <3>2, <3>3, <3>4, <3>5
  <2> QED
    BY <2>1 DEF LogisticsInv, OffersFit, ToldWasTrue
<1> QED
  BY <1>1, <1>2, <1>3, PTL DEF LogisticsSpec

-----------------------------------------------------------------------------
(***************************************************************************)
(* GraphSearch: how far create_indexing has got with the nodes that were   *)
(* there when it began, and what a search can rely on.                     *)
(***************************************************************************)
EmbeddedUpTo(k) == \A j \in 1..k : OfLabel(Labels[j], built) \subseteq embedded

ScriptInv ==
    /\ built \subseteq present /\ present \subseteq Nodes
    /\ script \in [place : {"idle", "drop", "vector", "embed", "forget", "fulltext", "words"},
                   label : 1..Len(Labels)]
    /\ script.place = "vector" => EmbeddedUpTo(script.label - 1)
    /\ script.place = "embed" =>
          /\ EmbeddedUpTo(script.label - 1)
          /\ OfLabel(Labels[script.label], built) \subseteq embedded \union todo
    /\ script.place \in {"idle", "forget", "fulltext", "words"} => EmbeddedUpTo(Len(Labels))

\* Something is expected only of a search that no run of the script has interrupted.
ExpectInv == expected = {} \/ (script.place = "idle" /\ expected = built)

FoundInv ==
    /\ DOMAIN route = DOMAIN found
    /\ searchStage = "start" => found = <<>>
    /\ \A i \in DOMAIN found :
        found[i] \in {Unread, Raised} \/ OfLabel(route[i].label, expected) \subseteq found[i]
    /\ searchStage \notin {"start", "retrieve", "raised"} =>
          \A i \in DOMAIN found : found[i] \notin {Unread, Raised}

QueryInv ==
    /\ cypher \in [valid : BOOLEAN, directed : BOOLEAN, corrected : {0, 1}]
    /\ cypherErrors \in BOOLEAN
    /\ searchStage \in {"explain", "review"} => cypher.corrected = 0
    /\ searchStage = "review" => cypherErrors = ~cypher.valid
    /\ UncorrectedWasAccepted

RetrievalInv == ScriptInv /\ ExpectInv /\ FoundInv /\ QueryInv

\* Every node has one of the labels: once all are embedded, so are the nodes.
LEMMA AllAreEmbedded ==
  ASSUME ScriptInv, script.place = "idle"
  PROVE  built \subseteq embedded
<1>1. EmbeddedUpTo(Len(Labels))
  BY DEF ScriptInv
<1>2. SUFFICES ASSUME NEW n \in built PROVE n \in embedded
  OBVIOUS
<1>3. n \in Nodes /\ LabelOf[n] \in ToSet(Labels)
  BY RetrievalAssumption DEF ScriptInv
<1>4. PICK j \in 1..Len(Labels) : LabelOf[n] = Labels[j]
  BY <1>3, RetrievalAssumption DEF ToSet
<1> QED
  BY <1>1, <1>4 DEF EmbeddedUpTo, OfLabel

LEMMA NothingExpected == ASSUME NEW l PROVE OfLabel(l, {}) = {}
  BY DEF OfLabel

\* A step of the script or of the graph that leaves the search alone.
LEMMA SearchUndisturbed ==
  ASSUME RetrievalInv, UNCHANGED <<searchStage, route, found, queryVars>>,
         expected' = {} \/ expected' = expected
  PROVE  FoundInv' /\ QueryInv'
<1>1. QueryInv'
  BY DEF RetrievalInv, QueryInv, queryVars, UncorrectedWasAccepted
<1>2. ASSUME NEW i \in DOMAIN found, found[i] \notin {Unread, Raised}
      PROVE  OfLabel(route[i].label, expected') \subseteq found[i]
  <2>1. OfLabel(route[i].label, expected) \subseteq found[i]
    BY <1>2 DEF RetrievalInv, FoundInv
  <2> QED
    BY <2>1, NothingExpected
<1>3. FoundInv'
  BY <1>2 DEF RetrievalInv, FoundInv
<1> QED
  BY <1>1, <1>3

\* Nothing but the end of a run makes the script idle.
LEMMA ScriptRuns ==
  ASSUME RetrievalInv, UNCHANGED searchVars, script.place # "idle", ScriptInv'
  PROVE  RetrievalInv'
<1>1. expected = {}
  BY DEF RetrievalInv, ExpectInv
<1>2. ExpectInv'
  BY <1>1 DEF ExpectInv, searchVars
<1> QED
  BY <1>2, SearchUndisturbed DEF RetrievalInv, searchVars

LEMMA LabelsAreThere == Len(Labels) \in Nat \ {0} /\ 1 \in 1..Len(Labels)
<1>1. Labels \in Seq(STRING) /\ Labels # <<>>
  BY RetrievalAssumption
<1>2. Len(Labels) \in Nat /\ Len(Labels) # 0
  BY <1>1
<1> QED
  BY <1>2

LEMMA ScriptBegins ==
  ASSUME RetrievalInv, BeginIndexing
  PROVE  RetrievalInv'
<1>1. /\ script.place = "idle" /\ script' = At("drop", 1)
      /\ built' = present /\ expected' = {}
      /\ UNCHANGED <<graphVars, searchStage, route, found, queryVars>>
  BY DEF BeginIndexing, Script, At
<1>2. ScriptInv'
  BY <1>1, LabelsAreThere DEF RetrievalInv, ScriptInv, At, graphVars
<1> QED
  BY <1>1, <1>2, SearchUndisturbed DEF RetrievalInv, ExpectInv

LEMMA ScriptDrops ==
  ASSUME RetrievalInv, DropIndex \/ RemoveEmbeddings
  PROVE  RetrievalInv'
<1>1. /\ script.place = "drop" /\ UNCHANGED <<present, built, searchVars>>
      /\ script' = script \/ script' = At("vector", 1)
  BY DEF DropIndex, RemoveEmbeddings, Script, At, scriptVars
<1>2. EmbeddedUpTo(0)'
  BY DEF EmbeddedUpTo
<1>3. ScriptInv'
  BY <1>1, <1>2, LabelsAreThere DEF RetrievalInv, ScriptInv, At
<1> QED
  BY <1>1, <1>3, ScriptRuns

\* The nodes of the label without an embedding are to be written; those that were there
\* when the script began are still there.
LEMMA ScriptFindsNodes ==
  ASSUME RetrievalInv, CreateVectorIndex
  PROVE  RetrievalInv'
<1>1. /\ script.place = "vector"
      /\ todo' = OfLabel(Labels[script.label], present \ embedded)
      /\ script' = At("embed", script.label)
      /\ UNCHANGED <<present, embedded, built, searchVars>>
  BY DEF CreateVectorIndex
<1>2. script'.place = "embed" /\ script'.label = script.label
  BY <1>1 DEF At
<1>3. EmbeddedUpTo(script.label - 1) /\ script.label \in 1..Len(Labels)
  BY <1>1 DEF RetrievalInv, ScriptInv
<1>4. \A k : EmbeddedUpTo(k) => EmbeddedUpTo(k)'
  BY <1>1 DEF EmbeddedUpTo
<1>5. OfLabel(Labels[script.label], built) \subseteq embedded \union todo'
  BY <1>1 DEF OfLabel, RetrievalInv, ScriptInv
<1>6. ScriptInv'
  BY <1>1, <1>2, <1>3, <1>4, <1>5 DEF RetrievalInv, ScriptInv, At
<1> QED
  BY <1>1, <1>6, ScriptRuns

LEMMA ScriptEmbeds ==
  ASSUME RetrievalInv, WriteEmbeddings
  PROVE  RetrievalInv'
<1>1. /\ script.place = "embed"
      /\ embedded' = embedded \union todo
      /\ script' = After("vector", "forget")
      /\ UNCHANGED <<present, built, searchVars>>
  BY DEF WriteEmbeddings
<1>2. /\ EmbeddedUpTo(script.label - 1) /\ script.label \in 1..Len(Labels)
      /\ OfLabel(Labels[script.label], built) \subseteq embedded \union todo
  BY <1>1 DEF RetrievalInv, ScriptInv
<1>3. \A j \in 1..script.label : OfLabel(Labels[j], built) \subseteq embedded'
  <2>1. SUFFICES ASSUME NEW j \in 1..script.label PROVE OfLabel(Labels[j], built) \subseteq embedded'
    OBVIOUS
  <2>2. CASE j = script.label
    BY <1>1, <1>2, <2>2
  <2>3. CASE j # script.label
    <3>1. j \in 1..script.label - 1
      BY <1>2, <2>3
    <3> QED
      BY <1>1, <1>2, <3>1 DEF EmbeddedUpTo
  <2> QED
    BY <2>2, <2>3
<1>4. CASE script.label < Len(Labels)
  <2>1. script'.place = "vector" /\ script'.label = script.label + 1
        /\ script' = At("vector", script.label + 1)
    BY <1>1, <1>4 DEF After, At
  <2>2. script.label + 1 \in 1..Len(Labels) /\ (script.label + 1) - 1 = script.label
    BY <1>2, <1>4, LabelsAreThere
  <2>3. \A k : k = script.label => EmbeddedUpTo(k)'
    BY <1>1, <1>3 DEF EmbeddedUpTo
  <2>4. ScriptInv'
    BY <1>1, <2>1, <2>2, <2>3 DEF RetrievalInv, ScriptInv, At
  <2> QED
    BY <1>1, <2>4, ScriptRuns
<1>5. CASE ~(script.label < Len(Labels))
  <2>1. script'.place = "forget" /\ script'.label = 1 /\ script' = At("forget", 1)
    BY <1>1, <1>5 DEF After, At
  <2>2. script.label = Len(Labels)
    BY <1>2, <1>5, LabelsAreThere
  <2>3. EmbeddedUpTo(Len(Labels))'
    BY <1>1, <1>3, <2>2 DEF EmbeddedUpTo
  <2>4. ScriptInv'
    BY <1>1, <2>1, <2>3, LabelsAreThere DEF RetrievalInv, ScriptInv, At
  <2> QED
    BY <1>1, <2>4, ScriptRuns
<1> QED
  BY <1>4, <1>5

\* From then on the embeddings are left alone, whichever label the full texts are of.
LEMMA ScriptWritesTexts ==
  ASSUME RetrievalInv, RemoveFulltexts \/ CreateFulltextIndex \/ WriteFulltexts
  PROVE  RetrievalInv'
<1>1. /\ script.place \in {"forget", "fulltext", "words"}
      /\ UNCHANGED <<present, embedded, built, searchVars>>
  BY DEF RemoveFulltexts, CreateFulltextIndex, WriteFulltexts, Script, At
<1>2. EmbeddedUpTo(Len(Labels))'
  BY <1>1 DEF RetrievalInv, ScriptInv, EmbeddedUpTo
<1>3. script.label \in 1..Len(Labels) /\ script \in
        [place : {"idle", "drop", "vector", "embed", "forget", "fulltext", "words"},
         label : 1..Len(Labels)]
  BY DEF RetrievalInv, ScriptInv
<1>4. script' = script \/ \E p \in {"fulltext", "words", "idle"}, l \in 1..Len(Labels) : script' = At(p, l)
  <2>1. CASE RemoveFulltexts
    BY <2>1, LabelsAreThere DEF RemoveFulltexts, Script
  <2>2. CASE CreateFulltextIndex
    BY <1>3, <2>2 DEF CreateFulltextIndex
  <2>3. CASE WriteFulltexts
    <3>1. script' = script \/ script' = After("fulltext", "idle")
      BY <2>3 DEF WriteFulltexts
    <3>2. script.label < Len(Labels) => script.label + 1 \in 1..Len(Labels)
      BY <1>3, LabelsAreThere
    <3> QED
      BY <3>1, <3>2, LabelsAreThere DEF After
  <2> QED
    BY <2>1, <2>2, <2>3
<1>5. /\ script'.place \in {"forget", "fulltext", "words", "idle"}
      /\ script' \in [place : {"idle", "drop", "vector", "embed", "forget", "fulltext", "words"},
                      label : 1..Len(Labels)]
  BY <1>1, <1>3, <1>4 DEF At
<1>6. ScriptInv'
  BY <1>1, <1>2, <1>5 DEF RetrievalInv, ScriptInv
<1> QED
  BY <1>1, <1>6, ScriptRuns

LEMMA ScriptDies ==
  ASSUME RetrievalInv, Die
  PROVE  RetrievalInv'
<1>1. /\ script.place # "idle" /\ script' = At("idle", 1) /\ built' = {}
      /\ UNCHANGED <<present, searchVars>>
  BY DEF Die, graphVars
<1>2. EmbeddedUpTo(Len(Labels))'
  BY <1>1, NothingExpected DEF EmbeddedUpTo
<1>3. ScriptInv'
  BY <1>1, <1>2, LabelsAreThere DEF RetrievalInv, ScriptInv, At
<1> QED
  BY <1>1, <1>3, ScriptRuns

LEMMA NodeIsAdded ==
  ASSUME RetrievalInv, AddNode
  PROVE  RetrievalInv'
<1>1. /\ present \subseteq present' /\ present' \subseteq Nodes
      /\ UNCHANGED <<embedded, script, todo, built, searchVars>>
  BY DEF AddNode, RetrievalInv, ScriptInv, scriptVars
<1>2. ScriptInv'
  BY <1>1 DEF RetrievalInv, ScriptInv, EmbeddedUpTo
<1>3. ExpectInv'
  BY <1>1 DEF RetrievalInv, ExpectInv, searchVars
<1> QED
  BY <1>1, <1>2, <1>3, SearchUndisturbed DEF RetrievalInv, searchVars

\* A step of the search that has what it found and goes on with its statement.
LEMMA StatementStep ==
  ASSUME RetrievalInv, UNCHANGED <<graphVars, scriptVars, route, found, expected>>,
         searchStage \notin {"start", "retrieve", "raised"}, searchStage' \notin {"start"},
         QueryInv'
  PROVE  RetrievalInv'
<1>1. ScriptInv' /\ ExpectInv'
  BY DEF RetrievalInv, ScriptInv, EmbeddedUpTo, ExpectInv, graphVars, scriptVars
<1>2. FoundInv'
  BY DEF RetrievalInv, FoundInv
<1> QED
  BY <1>1, <1>2 DEF RetrievalInv

LEMMA SearchIsRouted ==
  ASSUME RetrievalInv, Route \/ Blank
  PROVE  RetrievalInv'
<1>1. /\ searchStage = "start" /\ searchStage' \in {"retrieve", "raised", "answered empty"}
      /\ UNCHANGED <<graphVars, scriptVars, queryVars>>
  BY DEF Route, Blank, SearchTo
<1>2. ScriptInv'
  BY <1>1 DEF RetrievalInv, ScriptInv, EmbeddedUpTo, graphVars, scriptVars
<1>3. QueryInv'
  BY <1>1 DEF RetrievalInv, QueryInv, UncorrectedWasAccepted, queryVars
<1>4. CASE UNCHANGED <<route, found, expected>>
  <2>1. found = <<>>
    BY <1>1 DEF RetrievalInv, FoundInv
  <2>2. DOMAIN found' = {} /\ DOMAIN route' = {}
    BY <1>4, <2>1 DEF RetrievalInv, FoundInv
  <2> QED
    BY <1>1, <1>2, <1>3, <1>4, <2>2 DEF RetrievalInv, FoundInv, ExpectInv, scriptVars
<1>5. CASE ~UNCHANGED <<route, found, expected>>
  <2>1. /\ found' = [i \in DOMAIN route' |-> Unread]
        /\ expected' = IF script.place = "idle" THEN built ELSE {}
        /\ searchStage' = "retrieve"
    BY <1>5 DEF Route, Blank, SearchTo
  <2> QED
    BY <1>1, <1>2, <1>3, <2>1 DEF RetrievalInv, FoundInv, ExpectInv, scriptVars
<1> QED
  BY <1>4, <1>5

\* With both indexes of its label a search finds what is embedded; users are no nodes.
LEMMA ItemIsLookedUp ==
  ASSUME RetrievalInv, NEW i \in DOMAIN found, LookUp(i)
  PROVE  RetrievalInv'
<1>1. /\ searchStage = "retrieve" /\ UNCHANGED <<graphVars, scriptVars, searchStage, route,
                                                expected, queryVars>>
  BY DEF LookUp
<1>2. ScriptInv' /\ ExpectInv' /\ QueryInv'
  BY <1>1 DEF RetrievalInv, ScriptInv, EmbeddedUpTo, ExpectInv, QueryInv, UncorrectedWasAccepted,
              graphVars, scriptVars, queryVars
<1>3. expected \subseteq embedded
  BY AllAreEmbedded DEF RetrievalInv, ExpectInv
<1>4. OfLabel("User", expected) = {}
  <2>1. expected \subseteq Nodes
    BY DEF RetrievalInv, ExpectInv, ScriptInv
  <2> QED
    BY <2>1, RetrievalAssumption DEF OfLabel
<1>5. PICK S : /\ found' = [found EXCEPT ![i] = S]
               /\ S = Raised \/ OfLabel(route[i].label, expected) \subseteq S
  <2> DEFINE l == route[i].label
             S == IF l = "User" THEN IF route[i].entity = "number" THEN {} ELSE Raised
                  ELSE IF l \notin vectorIndex \intersect fulltextIndex THEN Raised
                  ELSE OfLabel(l, embedded \union
                                  IF route[i].entity = "words" THEN worded ELSE {})
  <2>1. found' = [found EXCEPT ![i] = S]
    BY DEF LookUp
  <2>2. \A X : OfLabel(l, expected) \subseteq OfLabel(l, embedded \union X)
    BY <1>3 DEF OfLabel
  <2>3. S = Raised \/ OfLabel(l, expected) \subseteq S
    BY <1>4, <2>2
  <2> QED
    BY <2>1, <2>3
<1>6. FoundInv'
  BY <1>1, <1>5 DEF RetrievalInv, FoundInv
<1> QED
  BY <1>2, <1>6 DEF RetrievalInv

LEMMA ItemsAreMerged ==
  ASSUME RetrievalInv, Merge
  PROVE  RetrievalInv'
<1>1. /\ searchStage = "retrieve" /\ Unread \notin ToSet(found)
      /\ searchStage' = IF Raised \in ToSet(found) THEN "raised" ELSE "generate"
      /\ UNCHANGED <<graphVars, scriptVars, route, found, expected, queryVars>>
  BY DEF Merge, SearchTo
<1>2. ScriptInv' /\ ExpectInv'
  BY <1>1 DEF RetrievalInv, ScriptInv, EmbeddedUpTo, ExpectInv, graphVars, scriptVars
<1>3. QueryInv'
  BY <1>1 DEF RetrievalInv, QueryInv, UncorrectedWasAccepted, queryVars
<1>4. FoundInv'
  BY <1>1 DEF RetrievalInv, FoundInv, ToSet
<1> QED
  BY <1>2, <1>3, <1>4 DEF RetrievalInv

\* What EXPLAIN or the review refuses is corrected; what is not corrected both accepted.
LEMMA StatementIsReviewed ==
  ASSUME RetrievalInv, Generate \/ Explain \/ Review \/ Correct \/ Direct \/ Execute
  PROVE  RetrievalInv'
<1>1. /\ UNCHANGED <<graphVars, scriptVars, route, found, expected>>
      /\ searchStage \in {"generate", "explain", "review", "correct", "direct", "execute"}
      /\ searchStage' # "start"
  BY DEF Generate, Explain, Review, Correct, Direct, Execute, SearchTo
<1>2. QueryInv
  BY DEF RetrievalInv
<1>3. SUFFICES QueryInv'
  BY <1>1, StatementStep
<1>4. CASE Generate
  BY <1>2, <1>4 DEF Generate, SearchTo, QueryInv, UncorrectedWasAccepted
<1>5. CASE Explain
  <2>1. /\ searchStage = "explain" /\ UNCHANGED cypher
        /\ \/ cypherErrors' = ~cypher.valid /\ searchStage' = "review"
           \/ cypherErrors' = cypherErrors /\ searchStage' = "raised"
    BY <1>5 DEF Explain, SearchTo
  <2>2. /\ cypher.valid \in BOOLEAN /\ cypherErrors \in BOOLEAN /\ cypher.corrected = 0
        /\ cypher \in [valid : BOOLEAN, directed : BOOLEAN, corrected : {0, 1}]
    BY <1>2, <2>1 DEF QueryInv
  <2>3. cypherErrors' \in BOOLEAN
    BY <2>1, <2>2
  <2> QED
    BY <2>1, <2>2, <2>3 DEF QueryInv, UncorrectedWasAccepted
<1>6. CASE Review
  <2>1. PICK answer \in {"errors", "empty list", "nothing"} :
          /\ reviewed' = answer
          /\ cypherErrors' = (cypherErrors \/ answer = "errors")
          /\ searchStage' = IF answer = "nothing" THEN "raised"
                            ELSE IF cypherErrors' THEN "correct" ELSE "direct"
    BY <1>6 DEF Review, SearchTo
  <2>2. searchStage = "review" /\ UNCHANGED cypher /\ cypherErrors = ~cypher.valid
        /\ cypherErrors \in BOOLEAN /\ cypher.valid \in BOOLEAN
    BY <1>2, <1>6 DEF Review, QueryInv
  <2> QED
    BY <1>2, <2>1, <2>2 DEF QueryInv, UncorrectedWasAccepted
<1>7. CASE Correct
  BY <1>2, <1>7 DEF Correct, SearchTo, QueryInv, UncorrectedWasAccepted
<1>8. CASE Direct
  BY <1>2, <1>8 DEF Direct, SearchTo, QueryInv, UncorrectedWasAccepted
<1>9. CASE Execute
  BY <1>2, <1>9 DEF Execute, SearchTo, QueryInv, UncorrectedWasAccepted, queryVars
<1> QED
  BY <1>4, <1>5, <1>6, <1>7, <1>8, <1>9

\* For any nodes and labels, however often the script is run, dies and is run again, and
\* while the graph grows.
THEOREM AnswersAreSound == RetrievalSpec => []RetrievalSound
<1>1. RetrievalInit => RetrievalInv
  <2> SUFFICES ASSUME RetrievalInit PROVE RetrievalInv
    OBVIOUS
  <2>1. ScriptInv
    BY LabelsAreThere DEF RetrievalInit, ScriptInv, At, EmbeddedUpTo, OfLabel
  <2>2. ExpectInv /\ FoundInv
    BY DEF RetrievalInit, ExpectInv, FoundInv
  <2>3. QueryInv
    BY DEF RetrievalInit, QueryInv, UncorrectedWasAccepted, NoCypher
  <2> QED
    BY <2>1, <2>2, <2>3 DEF RetrievalInv
<1>2. RetrievalInv /\ [RetrievalNext]_retrievalVars => RetrievalInv'
  <2> SUFFICES ASSUME RetrievalInv, [RetrievalNext]_retrievalVars PROVE RetrievalInv'
    OBVIOUS
  <2>1. CASE UNCHANGED retrievalVars
    <3>1. UNCHANGED <<graphVars, scriptVars, searchVars>>
      BY <2>1 DEF retrievalVars
    <3>2. ScriptInv'
      BY <3>1 DEF graphVars, scriptVars, RetrievalInv, ScriptInv, At, EmbeddedUpTo, OfLabel
    <3>3. ExpectInv'
      BY <3>1 DEF graphVars, scriptVars, searchVars, RetrievalInv, ExpectInv
    <3>4. FoundInv'
      BY <3>1 DEF graphVars, scriptVars, searchVars, RetrievalInv, FoundInv, OfLabel
    <3>5. QueryInv'
      BY <3>1 DEF searchVars, queryVars, RetrievalInv, QueryInv, UncorrectedWasAccepted
    <3> QED
      BY <3>2, <3>3, <3>4, <3>5 DEF RetrievalInv
  <2>2. CASE ScriptStep \/ AddNode
    BY <2>2, ScriptBegins, ScriptDrops, ScriptFindsNodes, ScriptEmbeds, ScriptWritesTexts,
       ScriptDies, NodeIsAdded DEF ScriptStep
  <2>3. CASE SearchStep
    BY <2>3, SearchIsRouted, ItemIsLookedUp, ItemsAreMerged, StatementIsReviewed DEF SearchStep
  <2> QED
    BY <2>1, <2>2, <2>3 DEF RetrievalNext
<1>3. RetrievalInv => RetrievalSound
  BY DEF RetrievalInv, FoundInv, QueryInv, RetrievalSound, FindsTheBuilt
<1> QED
  BY <1>1, <1>2, <1>3, PTL DEF RetrievalSpec

-----------------------------------------------------------------------------
(***************************************************************************)
(* Training: what a model has been trained on, in memory and in the file,  *)
(* and how the best score is related to them.                              *)
(***************************************************************************)
\* The batches 1 to n in order, some of them twice running.
Ordered(m, n) ==
    /\ m \in Seq(Nat)
    /\ ToSet(m) = 1..n
    /\ \A i \in 1..Len(m) - 1 : m[i + 1] - m[i] \in {0, 1}
    /\ m # <<>> => m[Len(m)] = n

TrainedBefore(state) == Ordered(state.model, state.step - 1) \/ Ordered(state.model, state.step)

TrainingTypes ==
    /\ batchNo \in Nat
    /\ kills \in Nat
    /\ best \in Int /\ best >= Unreadable
    /\ progress \in [step : Nat \ {0}, model : Seq(Nat), score : Int, counter : Nat]
    /\ checkpoint \in [file : {"missing", "broken", "whole"},
                       state : [step : Nat \ {0}, model : Seq(Nat), score : Int, counter : Nat]]

\* Each death leaves room for the one batch that is trained again.
ModelsInOrder ==
    /\ TrainedBefore(checkpoint.state)
    /\ Len(checkpoint.state.model) <= checkpoint.state.step + kills
    /\ trainStage = "off" => Len(checkpoint.state.model) < checkpoint.state.step + kills
    /\ trainStage \in {"batch", "trained"} =>
          TrainedBefore(progress) /\ Len(progress.model) < progress.step + kills
    /\ trainStage = "batch" => batchNo <= progress.step
    /\ trainStage \in {"save", "evaluate"} =>
          /\ Ordered(progress.model, progress.step)
          /\ Len(progress.model) <= progress.step + kills
          /\ batchNo = progress.step

ScoresInOrder ==
    /\ best # Unreadable => best >= checkpoint.state.score
    /\ trainStage \in {"batch", "save", "evaluate"} =>
          /\ checkpoint.state.score <= progress.score
          /\ best # Unreadable => best >= progress.score

TrainingInv == TrainingTypes /\ ModelsInOrder /\ ScoresInOrder

\* One more batch: the next one, or the last one again.
LEMMA OneMoreBatch ==
  ASSUME NEW n \in Nat \ {0}, NEW m, Ordered(m, n - 1) \/ Ordered(m, n)
  PROVE  Ordered(Append(m, n), n) /\ Len(Append(m, n)) = Len(m) + 1
<1> DEFINE a == Append(m, n)
<1>1. m \in Seq(Nat) /\ Len(m) \in Nat
  BY DEF Ordered
<1>2. /\ a \in Seq(Nat) /\ Len(a) = Len(m) + 1
      /\ \A i \in 1..Len(m) : a[i] = m[i]
      /\ a[Len(m) + 1] = n
  BY <1>1
<1> HIDE DEF a
<1>3. ToSet(a) = ToSet(m) \union {n}
  <2>1. DOMAIN a = 1..Len(m) + 1 /\ DOMAIN m = 1..Len(m)
    BY <1>1, <1>2
  <2>2. ToSet(m) \subseteq ToSet(a) /\ n \in ToSet(a)
    BY <1>1, <1>2, <2>1 DEF ToSet
  <2>3. ToSet(a) \subseteq ToSet(m) \union {n}
    BY <1>1, <1>2, <2>1 DEF ToSet
  <2> QED
    BY <2>2, <2>3
<1>4. ToSet(a) = 1..n
  <2>1. ToSet(m) = 1..n - 1 \/ ToSet(m) = 1..n
    BY DEF Ordered
  <2> QED
    BY <1>3, <2>1
<1>5. \A i \in 1..Len(a) - 1 : a[i + 1] - a[i] \in {0, 1}
  <2>1. SUFFICES ASSUME NEW i \in 1..Len(m) PROVE a[i + 1] - a[i] \in {0, 1}
    BY <1>1, <1>2
  <2>2. CASE i < Len(m)
    <3>1. i \in 1..Len(m) - 1 /\ i + 1 \in 1..Len(m)
      BY <1>1, <2>2
    <3>2. m[i + 1] - m[i] \in {0, 1}
      BY <3>1 DEF Ordered
    <3> QED
      BY <1>2, <3>1, <3>2
  <2>3. CASE i = Len(m)
    <3>1. m # <<>>
      BY <1>1, <2>3
    <3>2. m[i] \in {n - 1, n}
      BY <2>3, <3>1 DEF Ordered
    <3>3. a[i] = m[i] /\ a[i + 1] = n
      BY <1>2, <2>3
    <3> QED
      BY <3>2, <3>3
  <2> QED
    BY <1>1, <2>2, <2>3
<1>6. a[Len(a)] = n
  BY <1>2
<1> QED
  BY <1>2, <1>4, <1>5, <1>6 DEF Ordered, a

LEMMA NothingTrained == Ordered(<<>>, 0) /\ TrainedBefore(New) /\ Len(New.model) = 0
<1>1. Ordered(<<>>, 0)
  BY DEF Ordered, ToSet
<1>2. New.model = <<>> /\ New.step - 1 = 0
  BY DEF New
<1> QED
  BY <1>1, <1>2 DEF TrainedBefore

TrainerStates == [step : Nat \ {0}, model : Seq(Nat), score : Int, counter : Nat]

LEMMA ModelChanges ==
  ASSUME NEW st \in TrainerStates, NEW m \in Seq(Nat)
  PROVE  /\ [st EXCEPT !.model = m] \in TrainerStates
         /\ [st EXCEPT !.model = m].step = st.step
         /\ [st EXCEPT !.model = m].score = st.score
         /\ [st EXCEPT !.model = m].model = m
  BY DEF TrainerStates

LEMMA ScoreChanges ==
  ASSUME NEW st \in TrainerStates, NEW score \in Int
  PROVE  [st EXCEPT !.score = score, !.counter = 0] \in TrainerStates
  BY DEF TrainerStates

LEMMA CounterChanges ==
  ASSUME NEW st \in TrainerStates
  PROVE  [st EXCEPT !.counter = @ + 1] \in TrainerStates
  BY DEF TrainerStates

LEMMA StepChanges ==
  ASSUME NEW st \in TrainerStates, NEW n \in Nat \ {0}
  PROVE  /\ [st EXCEPT !.step = n] \in TrainerStates
         /\ [st EXCEPT !.step = n].step = n
         /\ [st EXCEPT !.step = n].score = st.score
         /\ [st EXCEPT !.step = n].model = st.model
  BY DEF TrainerStates

LEMMA TrainingStarts ==
  ASSUME TrainingInv, Start
  PROVE  TrainingInv'
<1>1. /\ trainStage = "off" /\ trainStage' \in {"unreadable", "batch"}
      /\ batchNo' = 0 /\ progress' = checkpoint.state
      /\ UNCHANGED <<checkpoint, best, kills>>
  BY DEF Start, Resumed
<1>2. checkpoint.state \in TrainerStates
  BY DEF TrainingInv, TrainingTypes, TrainerStates
<1>3. TrainingTypes'
  BY <1>1, <1>2 DEF TrainingInv, TrainingTypes, TrainerStates
<1>4. checkpoint.state.step \in Nat \ {0} /\ checkpoint.state.score \in Int
  BY <1>2 DEF TrainerStates
<1>5. ModelsInOrder'
  BY <1>1, <1>4 DEF TrainingInv, ModelsInOrder, TrainedBefore
<1>6. ScoresInOrder'
  BY <1>1, <1>4 DEF TrainingInv, ScoresInOrder
<1> QED
  BY <1>3, <1>5, <1>6 DEF TrainingInv

LEMMA BatchIsSkipped ==
  ASSUME TrainingInv, Skip \/ EndTraining
  PROVE  TrainingInv'
<1>1. /\ trainStage = "batch" /\ UNCHANGED <<progress, checkpoint, best, kills>>
      /\ \/ trainStage' = "batch" /\ batchNo < progress.step /\ batchNo' = batchNo + 1
         \/ trainStage' = "trained" /\ batchNo' = batchNo
  BY DEF Skip, EndTraining, Done
<1>2. progress.step \in Nat /\ batchNo \in Nat
  BY DEF TrainingInv, TrainingTypes
<1>3. TrainingTypes'
  BY <1>1, <1>2 DEF TrainingInv, TrainingTypes
<1>4. ModelsInOrder'
  BY <1>1, <1>2 DEF TrainingInv, ModelsInOrder, TrainedBefore
<1>5. ScoresInOrder'
  BY <1>1 DEF TrainingInv, ScoresInOrder
<1> QED
  BY <1>3, <1>4, <1>5 DEF TrainingInv

LEMMA BatchIsTrained ==
  ASSUME TrainingInv, Train
  PROVE  TrainingInv'
<1>1. /\ trainStage = "batch" /\ ~(batchNo < progress.step)
      /\ progress' = [progress EXCEPT !.model = Append(progress.model, batchNo)]
      /\ trainStage' = "save"
      /\ UNCHANGED <<batchNo, checkpoint, best, kills>>
  BY DEF Train, Done
<1>2. progress \in TrainerStates /\ batchNo \in Nat /\ kills \in Nat
  BY DEF TrainingInv, TrainingTypes, TrainerStates
<1>3. batchNo = progress.step /\ batchNo \in Nat \ {0}
  BY <1>1, <1>2 DEF TrainingInv, ModelsInOrder, TrainerStates
<1>4. /\ progress'.step = progress.step /\ progress'.score = progress.score
      /\ progress'.model = Append(progress.model, batchNo)
      /\ progress' \in TrainerStates
  <2>1. Append(progress.model, batchNo) \in Seq(Nat)
    BY <1>2 DEF TrainerStates
  <2> QED
    BY <1>1, <1>2, <2>1, ModelChanges
<1>5. /\ Ordered(progress'.model, progress'.step)
      /\ Len(progress'.model) = Len(progress.model) + 1
  <2>1. Ordered(progress.model, batchNo - 1) \/ Ordered(progress.model, batchNo)
    BY <1>1, <1>3 DEF TrainingInv, ModelsInOrder, TrainedBefore
  <2> QED
    BY <1>3, <1>4, <2>1, OneMoreBatch
<1>6. Len(progress'.model) <= progress'.step + kills
  <2>1. Len(progress.model) < progress.step + kills /\ Len(progress.model) \in Nat
    BY <1>1, <1>2 DEF TrainingInv, ModelsInOrder, TrainerStates
  <2> QED
    BY <1>2, <1>3, <1>4, <1>5, <2>1
<1>7. TrainingTypes'
  BY <1>1, <1>4 DEF TrainingInv, TrainingTypes, TrainerStates
<1>8. ModelsInOrder'
  BY <1>1, <1>3, <1>4, <1>5, <1>6 DEF TrainingInv, ModelsInOrder
<1>9. ScoresInOrder'
  BY <1>1, <1>4 DEF TrainingInv, ScoresInOrder
<1> QED
  BY <1>7, <1>8, <1>9 DEF TrainingInv

LEMMA CheckpointIsSaved ==
  ASSUME TrainingInv, SaveCheckpoint
  PROVE  TrainingInv'
<1>1. /\ trainStage = "save" /\ trainStage' = "evaluate"
      /\ checkpoint' = [file |-> "whole", state |-> progress] \/ checkpoint' = checkpoint
      /\ UNCHANGED <<batchNo, progress, best, kills>>
  BY DEF SaveCheckpoint
<1>2. progress \in TrainerStates
  BY DEF TrainingInv, TrainingTypes, TrainerStates
<1>3. checkpoint'.state = progress \/ checkpoint' = checkpoint
  BY <1>1
<1>4. TrainingTypes'
  BY <1>1, <1>2 DEF TrainingInv, TrainingTypes, TrainerStates
<1>5. TrainedBefore(progress)
  BY <1>1 DEF TrainingInv, ModelsInOrder, TrainedBefore
<1>6. ModelsInOrder'
  BY <1>1, <1>3, <1>5 DEF TrainingInv, ModelsInOrder, TrainedBefore
<1>7. progress.score \in Int
  BY <1>2 DEF TrainerStates
<1>8. ScoresInOrder'
  BY <1>1, <1>3, <1>7 DEF TrainingInv, ScoresInOrder
<1> QED
  BY <1>4, <1>6, <1>8 DEF TrainingInv

\* The next batch, with the model as it is.
LEMMA ModelIsEvaluated ==
  ASSUME TrainingInv, Evaluate
  PROVE  TrainingInv'
<1>1. trainStage = "evaluate" /\ UNCHANGED <<checkpoint, kills>>
  BY DEF Evaluate
<1>2. /\ progress \in TrainerStates /\ best \in Int /\ kills \in Nat /\ batchNo \in Nat
      /\ checkpoint.state.score \in Int
  BY DEF TrainingInv, TrainingTypes, TrainerStates
<1>3. \/ \E st \in TrainerStates :
            /\ st.model = progress.model /\ st.step = progress.step
            /\ NextBatch(st)
            /\ \/ st.score = progress.score /\ best' = best
               \/ st.score \in Nat /\ st.score > progress.score /\ best' = st.score
      \/ /\ trainStage' = "stopped early" /\ UNCHANGED <<batchNo, best>>
         /\ progress' = [progress EXCEPT !.counter = @ + 1]
  <2>1. CASE progress.step % EvalSteps # 0
    BY <1>2, <2>1 DEF Evaluate
  <2>2. CASE progress.step % EvalSteps = 0
    <3>1. PICK score \in Scores :
            IF score > progress.score
            THEN /\ NextBatch([progress EXCEPT !.score = score, !.counter = 0])
                 /\ best' = score
            ELSE /\ IF progress.counter + 1 >= Patience
                    THEN /\ progress' = [progress EXCEPT !.counter = @ + 1]
                         /\ trainStage' = "stopped early"
                         /\ UNCHANGED batchNo
                    ELSE NextBatch([progress EXCEPT !.counter = @ + 1])
                 /\ UNCHANGED best
      BY <2>2 DEF Evaluate
    <3>2. score \in Nat /\ score \in Int
      BY TrainingAssumption
    <3>3. [progress EXCEPT !.score = score, !.counter = 0] \in TrainerStates
      BY <1>2, <3>2, ScoreChanges
    <3>4. [progress EXCEPT !.counter = @ + 1] \in TrainerStates
      BY <1>2, CounterChanges
    <3>5. CASE score > progress.score
      <4> DEFINE st == [progress EXCEPT !.score = score, !.counter = 0]
      <4>1. st.model = progress.model /\ st.step = progress.step /\ st.score = score
        BY <1>2 DEF TrainerStates
      <4>2. NextBatch(st) /\ best' = score
        BY <3>1, <3>5
      <4> QED
        BY <3>2, <3>3, <3>5, <4>1, <4>2
    <3>6. CASE ~(score > progress.score)
      <4> DEFINE st == [progress EXCEPT !.counter = @ + 1]
      <4>1. st.model = progress.model /\ st.step = progress.step /\ st.score = progress.score
        BY <1>2 DEF TrainerStates
      <4> QED
        BY <3>1, <3>4, <3>6, <4>1
    <3> QED
      BY <3>5, <3>6
  <2> QED
    BY <2>1, <2>2
<1>4. /\ Ordered(progress.model, progress.step)
      /\ Len(progress.model) <= progress.step + kills
      /\ batchNo = progress.step
  BY <1>1 DEF TrainingInv, ModelsInOrder
<1>5. CASE trainStage' = "stopped early" /\ UNCHANGED <<batchNo, best>>
           /\ progress' = [progress EXCEPT !.counter = @ + 1]
  <2>1. progress' \in TrainerStates
    BY <1>2, <1>5, CounterChanges
  <2>2. TrainingTypes'
    BY <1>1, <1>2, <1>5, <2>1 DEF TrainingInv, TrainingTypes, TrainerStates
  <2>3. ModelsInOrder' /\ ScoresInOrder'
    BY <1>1, <1>5 DEF TrainingInv, ModelsInOrder, ScoresInOrder, TrainedBefore
  <2> QED
    BY <2>2, <2>3 DEF TrainingInv
<1>6. ASSUME NEW st \in TrainerStates,
             st.model = progress.model, st.step = progress.step, NextBatch(st),
             \/ st.score = progress.score /\ best' = best
             \/ st.score \in Nat /\ st.score > progress.score /\ best' = st.score
      PROVE  TrainingInv'
  <2>1. /\ progress' = [st EXCEPT !.step = progress.step + 1]
        /\ batchNo' = batchNo + 1 /\ trainStage' = "batch"
    BY <1>6 DEF NextBatch
  <2>2. /\ progress'.step = progress.step + 1 /\ progress'.model = progress.model
        /\ progress'.score = st.score
        /\ progress' \in TrainerStates
        /\ progress.step \in Nat /\ progress.score \in Int /\ st.score \in Int
        /\ Len(progress.model) \in Nat
    <3>1. /\ progress.step \in Nat /\ progress.score \in Int /\ st.score \in Int
          /\ Len(progress.model) \in Nat
      BY <1>2, <1>6 DEF TrainerStates
    <3>2. progress.step + 1 \in Nat \ {0}
      BY <3>1
    <3> QED
      BY <1>6, <2>1, <3>1, <3>2, StepChanges
  <2>3. TrainingTypes'
    <3>1. best' \in Int /\ best' >= Unreadable
      BY <1>2, <1>6 DEF TrainingInv, TrainingTypes, Unreadable
    <3>2. batchNo' \in Nat
      BY <1>2, <2>1
    <3> QED
      BY <1>1, <2>2, <3>1, <3>2 DEF TrainingInv, TrainingTypes, TrainerStates
  <2>4. TrainedBefore(progress)'
    <3>1. progress'.step - 1 = progress.step
      BY <2>2
    <3>2. Ordered(progress'.model, progress'.step - 1)
      BY <1>4, <2>2, <3>1
    <3> QED
      BY <3>2 DEF TrainedBefore
  <2>5. Len(progress'.model) < progress'.step + kills
    BY <1>2, <1>4, <2>2
  <2>6. ModelsInOrder'
    BY <1>1, <1>2, <1>4, <2>1, <2>2, <2>4, <2>5 DEF TrainingInv, ModelsInOrder, TrainedBefore
  <2>7. ScoresInOrder'
    BY <1>1, <1>2, <1>6, <2>1, <2>2 DEF TrainingInv, ScoresInOrder
  <2> QED
    BY <2>3, <2>6, <2>7 DEF TrainingInv
<1> QED
  BY <1>3, <1>5, <1>6

\* A death, or another call of train(): what is in memory is lost, and the file may be broken.
LEMMA TrainingEnds ==
  ASSUME TrainingInv, Kill \/ Again
  PROVE  TrainingInv'
<1>1. /\ trainStage' = "off" /\ kills' = kills + 1 /\ progress' = New
      /\ UNCHANGED batchNo
      /\ checkpoint' \in {checkpoint, Broken}
      /\ best' \in {best, Unreadable}
  BY DEF Kill, Again
<1>2. /\ kills \in Nat /\ best \in Int /\ best >= Unreadable /\ Unreadable \in Int
      /\ checkpoint.state \in TrainerStates
      /\ checkpoint \in [file : {"missing", "broken", "whole"}, state : TrainerStates]
  BY DEF TrainingInv, TrainingTypes, TrainerStates, Unreadable
<1>3. New \in TrainerStates /\ New.score = -1 /\ New.step = 1 /\ New.model = <<>>
  BY DEF New, Worst, TrainerStates
<1>4. Broken \in [file : {"missing", "broken", "whole"}, state : TrainerStates]
      /\ Broken.state = New
  BY <1>3 DEF Broken
<1>5. checkpoint' = checkpoint \/ (checkpoint' = Broken /\ checkpoint'.state = New)
  BY <1>1, <1>4
<1>6. TrainingTypes'
  <2>1. checkpoint' \in [file : {"missing", "broken", "whole"}, state : TrainerStates]
    BY <1>2, <1>4, <1>5
  <2>2. kills' \in Nat /\ best' \in Int /\ best' >= Unreadable
    BY <1>1, <1>2
  <2>3. progress' \in TrainerStates
    BY <1>1, <1>3
  <2> QED
    BY <1>1, <2>1, <2>2, <2>3 DEF TrainingInv, TrainingTypes, TrainerStates
<1>7. /\ checkpoint.state.step \in Nat /\ Len(checkpoint.state.model) \in Nat
      /\ checkpoint.state.score \in Int
  BY <1>2 DEF TrainerStates
<1>8. ModelsInOrder'
  <2>1. TrainedBefore(checkpoint.state)'
    BY <1>5, NothingTrained DEF TrainingInv, ModelsInOrder, TrainedBefore
  <2>2. Len(checkpoint'.state.model) < checkpoint'.state.step + kills'
    <3>1. Len(checkpoint.state.model) <= checkpoint.state.step + kills
      BY DEF TrainingInv, ModelsInOrder
    <3>2. Len(<<>>) < 1 + (kills + 1)
      BY <1>2
    <3> QED
      BY <1>1, <1>2, <1>3, <1>5, <1>7, <3>1, <3>2
  <2>3. Len(checkpoint'.state.model) <= checkpoint'.state.step + kills'
    <3>1. /\ Len(checkpoint'.state.model) \in Nat /\ checkpoint'.state.step \in Nat
          /\ kills' \in Nat
      BY <1>1, <1>2, <1>3, <1>5, <1>7
    <3> QED
      BY <2>2, <3>1
  <2> QED
    BY <1>1, <2>1, <2>2, <2>3 DEF ModelsInOrder, TrainedBefore
<1>9. ScoresInOrder'
  <2>1. best' # Unreadable => best' = best /\ best >= -1
    BY <1>1, <1>2 DEF Unreadable
  <2>2. best' # Unreadable => best' >= checkpoint'.state.score
    BY <1>3, <1>5, <2>1 DEF TrainingInv, ScoresInOrder
  <2> QED
    BY <1>1, <2>2 DEF ScoresInOrder
<1> QED
  BY <1>6, <1>8, <1>9 DEF TrainingInv

\* For any number of batches, any distances of checkpoints and evaluations, any scores, and
\* however often training dies.
THEOREM TrainingResumes == TrainingSpec => []ResumesInOrder
<1>1. TrainingInit => TrainingInv
  <2> SUFFICES ASSUME TrainingInit PROVE TrainingInv
    OBVIOUS
  <2>1. /\ progress = New /\ checkpoint.state = New /\ checkpoint = Missing
        /\ kills = 0 /\ batchNo = 0 /\ best = -1 /\ trainStage = "off"
    BY DEF TrainingInit, Missing, Worst
  <2>2. New \in TrainerStates /\ New.score = -1 /\ New.step = 1 /\ New.model = <<>>
    BY DEF New, Worst, TrainerStates
  <2>3. TrainingTypes
    <3>1. checkpoint \in [file : {"missing", "broken", "whole"}, state : TrainerStates]
      BY <2>1, <2>2 DEF Missing
    <3> QED
      BY <2>1, <2>2, <3>1 DEF TrainingTypes, TrainerStates, Unreadable
  <2>4. ModelsInOrder
    BY <2>1, <2>2, NothingTrained DEF ModelsInOrder
  <2>5. ScoresInOrder
    BY <2>1, <2>2 DEF ScoresInOrder
  <2> QED
    BY <2>3, <2>4, <2>5 DEF TrainingInv
<1>2. TrainingInv /\ [TrainingNext]_trainingVars => TrainingInv'
  <2> SUFFICES ASSUME TrainingInv, [TrainingNext]_trainingVars PROVE TrainingInv'
    OBVIOUS
  <2>1. CASE UNCHANGED trainingVars
    BY <2>1 DEF trainingVars, TrainingInv, TrainingTypes, ModelsInOrder, TrainedBefore,
                ScoresInOrder
  <2> QED
    BY <2>1, TrainingStarts, BatchIsSkipped, BatchIsTrained, CheckpointIsSaved, ModelIsEvaluated,
       TrainingEnds DEF TrainingNext
<1>3. TrainingInv => ResumesInOrder
  <2> SUFFICES ASSUME TrainingInv PROVE ResumesInOrder
    OBVIOUS
  <2>1. ASSUME trainStage \in {"batch", "trained"}
        PROVE  /\ ToSet(progress.model) \in {1..progress.step - 1, 1..progress.step}
               /\ \A i \in 1..Len(progress.model) - 1 :
                    progress.model[i + 1] - progress.model[i] \in {0, 1}
               /\ Len(progress.model) <= progress.step + kills
    <3>1. TrainedBefore(progress) /\ Len(progress.model) < progress.step + kills
      BY <2>1 DEF TrainingInv, ModelsInOrder
    <3>2. progress.step \in Nat /\ Len(progress.model) \in Nat /\ kills \in Nat
      BY DEF TrainingInv, TrainingTypes
    <3>3. Len(progress.model) <= progress.step + kills
      BY <3>1, <3>2
    <3> QED
      BY <3>1, <3>3 DEF TrainedBefore, Ordered
  <2>2. best # Unreadable => best >= checkpoint.state.score
    BY DEF TrainingInv, ScoresInOrder
  <2> QED
    BY <2>1, <2>2 DEF ResumesInOrder
<1> QED
  BY <1>1, <1>2, <1>3, PTL DEF TrainingSpec


-----------------------------------------------------------------------------
(***************************************************************************)
(* GenData: for any codes of orders (a completed one's is at least 400)    *)
(* and of requests, any number of details and any spans of time, the demo  *)
(* data makes sense.                                                       *)
(***************************************************************************)

OrderRecords == [
    status : {s.name : s \in OrderStatuses} \union {"none"}, code : Nat, create : 0..Now,
    payment : 0..Never, delivered : 0..Never, complete : 0..Never]

RequestRecords == [detail : OrderDetails, create : 0..Now, complete : 0..Never]

GenTypes ==
    /\ tables \subseteq ToSet(Tables)
    /\ newOrder \in OrderRecords
    /\ newOrder.status = "completed" => newOrder.code >= 400
    /\ kind.code \in Nat
    /\ drawn \in Seq(RequestRecords)

\* An order whose parcel has arrived.
HasArrived(o) ==
    o.create <= o.payment /\ o.payment <= o.delivered /\ o.delivered <= Now

\* A request, of the order o, with the type and status k.
FollowsOrder(request, o, k) ==
    /\ o.delivered <= request.create
    /\ request.create <= request.complete
    /\ o.status = "completed" /\ request.complete = Never => k.type = "refund" /\ k.code > 920

\* What has been drawn, at each place of gen_order_info.
DrawnSoFar ==
    /\ genStage \notin {"requests", "done", "raised"} => drawn = <<>>
    /\ genStage = "pay" => newOrder.payment = Never /\ newOrder.delivered = Never
    /\ genStage = "ship" => newOrder.create <= newOrder.payment /\ newOrder.payment <= Now
    /\ genStage \in {"after", "requests"} => HasArrived(newOrder)
    /\ genStage = "requests" =>
          /\ kind.type \in PostsaleTypes
          /\ newOrder.status = "completed" => kind.code >= 900
          /\ \A i \in DOMAIN drawn : FollowsOrder(drawn[i], newOrder, kind)

GenInv == GenTypes /\ DrawnSoFar /\ OrdersMakeSense /\ ClearedInOrder

\* gen_new_time: never before t, never after now, and None only for None.
LEMMA NewTimeFollows ==
  ASSUME NEW t \in 0..Never, NEW delta \in Nat, NEW u \in NewTime(t, delta)
  PROVE  IF t = Never THEN u = Never ELSE u \in t..Now
BY GenAssumption DEF NewTime, Never

\* A journey ends after it began, if it ends.
LEMMA DeliveryFollows ==
  ASSUME NEW t \in 0..Now, NEW delivered, NEW u \in Delivery(t, delivered)
  PROVE  IF delivered THEN u \in t..Now ELSE u = Never
<1>1. CASE delivered
  <2>1. PICK v \in NewTime(t, Short) : u \in NewTime(v, Long)
    BY <1>1 DEF Delivery
  <2>2. v \in t..Now
    BY <2>1, NewTimeFollows, GenAssumption DEF Never
  <2>3. u \in v..Now
    BY <2>1, <2>2, NewTimeFollows, GenAssumption DEF Never
  <2> QED
    BY <1>1, <2>2, <2>3, GenAssumption
<1>2. CASE ~delivered
  BY <1>2 DEF Delivery
<1> QED
  BY <1>1, <1>2

\* A parcel that is sent back arrives if the request has ended.
LEMMA ReturnTimesFollow ==
  ASSUME NEW t \in 0..Now, NEW c \in ReturnTimes(t)
  PROVE  IF kind.code >= 900 THEN c \in t..Now ELSE c = Never
<1>1. PICK d \in Delivery(t, kind.code >= 900) : c \in NewTime(d, Short)
  BY DEF ReturnTimes
<1>2. CASE kind.code >= 900
  <2>1. d \in t..Now
    BY <1>1, <1>2, DeliveryFollows
  <2>2. c \in d..Now
    BY <1>1, <2>1, NewTimeFollows, GenAssumption DEF Never
  <2> QED
    BY <1>2, <2>1, <2>2, GenAssumption
<1>3. CASE ~(kind.code >= 900)
  <2>1. d = Never
    BY <1>1, <1>3 DEF Delivery
  <2>2. c = Never
    BY <1>1, <2>1 DEF NewTime
  <2> QED
    BY <1>3, <2>2
<1> QED
  BY <1>2, <1>3

\* A request is complete after it was made; an ended one has its end, unless it is a
\* refund whose code is above 920.
LEMMA CompleteTimesFollow ==
  ASSUME GenTypes, kind.type \in PostsaleTypes, NEW t \in 0..Now, NEW c \in CompleteTimes(t)
  PROVE  /\ c \in t..Never
         /\ kind.code >= 900 /\ c = Never => kind.type = "refund" /\ kind.code > 920
<1>1. /\ kind.code \in Nat /\ Never \in t..Never
      /\ t..Now \subseteq t..Never /\ Never \notin t..Now
  BY GenAssumption DEF GenTypes, Never
<1>2. c \in NewTime(t, Long) => c \in t..Now
  BY NewTimeFollows, GenAssumption DEF Never
<1>3. c \in ReturnTimes(t) => IF kind.code >= 900 THEN c \in t..Now ELSE c = Never
  BY ReturnTimesFollow
<1>4. c \in ExchangeTimes(t) => IF kind.code >= 900 THEN c \in t..Now ELSE c = Never
  <2> SUFFICES ASSUME c \in ExchangeTimes(t)
               PROVE  IF kind.code >= 900 THEN c \in t..Now ELSE c = Never
    OBVIOUS
  <2>1. PICK back \in Delivery(t, TRUE) : c \in ReturnTimes(back)
    BY DEF ExchangeTimes
  <2>2. back \in t..Now
    BY <2>1, DeliveryFollows
  <2>3. IF kind.code >= 900 THEN c \in back..Now ELSE c = Never
    BY <2>1, <2>2, ReturnTimesFollow, GenAssumption
  <2> QED
    BY <2>2, <2>3, GenAssumption
<1>5. \/ kind.code <= 420 /\ c = Never
      \/ kind.code \in 900..920 /\ c \in NewTime(t, Long)
      \/ c \in ReturnTimes(t)
      \/ c \in ExchangeTimes(t)
      \/ kind.type = "refund" /\ ~(kind.code \in 900..920) /\ c = Never
  BY <1>1 DEF CompleteTimes, PostsaleTypes
<1>6. kind.code \in 900..920 => kind.code >= 900
  BY <1>1
<1> QED
  BY <1>1, <1>2, <1>3, <1>4, <1>5, <1>6

\* clear_tables: a table that refers to another is deleted before it.
LEMMA ReferrersFirst ==
  ASSUME tables \subseteq ToSet(Tables), tables # {}
  PROVE  ~ \E pair \in RefersTo : pair[2] = NextTable /\ pair[1] \in tables
<1> DEFINE First(i) == Tables[i] \in tables /\ \A j \in 1..i - 1 : Tables[j] \notin tables
<1>1. DOMAIN Tables = 1..8
  BY DEF Tables
<1>2. \E i \in 1..8 : First(i)
  <2>1. \E i \in 1..8 : Tables[i] \in tables
    BY <1>1 DEF ToSet
  <2>2. ASSUME \A i \in 1..8 : ~First(i)
        PROVE  FALSE
    <3>1. Tables[1] \notin tables
      BY <2>2
    <3>2. Tables[2] \notin tables
      BY <2>2, <3>1
    <3>3. Tables[3] \notin tables
      BY <2>2, <3>1, <3>2
    <3>4. Tables[4] \notin tables
      BY <2>2, <3>1, <3>2, <3>3
    <3>5. Tables[5] \notin tables
      BY <2>2, <3>1, <3>2, <3>3, <3>4
    <3>6. Tables[6] \notin tables
      BY <2>2, <3>1, <3>2, <3>3, <3>4, <3>5
    <3>7. Tables[7] \notin tables
      BY <2>2, <3>1, <3>2, <3>3, <3>4, <3>5, <3>6
    <3>8. Tables[8] \notin tables
      BY <2>2, <3>1, <3>2, <3>3, <3>4, <3>5, <3>6, <3>7
    <3> QED
      BY <2>1, <3>1, <3>2, <3>3, <3>4, <3>5, <3>6, <3>7, <3>8
  <2> QED
    BY <2>2
<1>3. PICK i \in 1..8 : NextTable = Tables[i] /\ First(i)
  BY <1>1, <1>2 DEF NextTable
<1>4. \A pair \in RefersTo : \A k \in 1..8 : pair[2] = Tables[k] =>
        \E j \in 1..k - 1 : pair[1] = Tables[j]
  BY DEF RefersTo, Tables
<1> QED
  BY <1>3, <1>4

LEMMA DeleteKeepsGenInv ==
  ASSUME GenInv, Delete
  PROVE  GenInv'
<1>1. tables' \subseteq tables
  BY DEF Delete
<1>2. genStage' = "clear"
  BY ReferrersFirst DEF Delete, GenInv, GenTypes
<1>3. genStage = "clear" /\ UNCHANGED <<newOrder, kind, drawn>>
  BY DEF Delete
<1> QED
  BY <1>1, <1>2, <1>3 DEF GenInv, GenTypes, DrawnSoFar, OrdersMakeSense, ClearedInOrder

LEMMA DrawStatusKeepsGenInv ==
  ASSUME GenInv, DrawStatus
  PROVE  GenInv'
<1>1. PICK s \in OrderStatuses, t \in 0..Now - 1 :
        /\ newOrder' = [BlankOrder EXCEPT !.status = s.name, !.code = s.code, !.create = t]
        /\ genStage' = IF s.name = "unpaid" THEN "done" ELSE "pay"
  BY DEF DrawStatus, GenTo
<1>2. drawn = <<>> /\ UNCHANGED <<tables, kind, drawn>>
  BY DEF DrawStatus, GenInv, DrawnSoFar
<1>3. /\ newOrder'.status = s.name /\ newOrder'.code = s.code /\ newOrder'.create = t
      /\ newOrder'.payment = Never /\ newOrder'.delivered = Never
  BY <1>1 DEF BlankOrder
<1>4. GenTypes'
  <2>1. /\ s.code \in Nat /\ t \in 0..Now /\ 0 \in 0..Never /\ Never \in 0..Never
        /\ s.name \in {x.name : x \in OrderStatuses} \union {"none"}
    BY GenAssumption DEF Never
  <2>2. newOrder' \in OrderRecords
    BY <1>1, <2>1 DEF BlankOrder, OrderRecords
  <2>3. s.name = "completed" => s.code >= 400
    BY GenAssumption
  <2> QED
    BY <1>2, <1>3, <2>2, <2>3 DEF GenInv, GenTypes
<1>5. DrawnSoFar'
  BY <1>1, <1>2, <1>3 DEF DrawnSoFar
<1>6. OrdersMakeSense'
  BY <1>1, <1>2, <1>3 DEF OrdersMakeSense
<1>7. ClearedInOrder'
  BY <1>1 DEF ClearedInOrder
<1> QED
  BY <1>4, <1>5, <1>6, <1>7 DEF GenInv

LEMMA PayKeepsGenInv ==
  ASSUME GenInv, Pay
  PROVE  GenInv'
<1>1. /\ newOrder \in OrderRecords /\ newOrder.delivered = Never /\ drawn = <<>>
      /\ newOrder.status = "completed" => newOrder.code >= 400
      /\ UNCHANGED <<tables, kind, drawn>>
      /\ genStage' = IF newOrder.status \in {"cancelled", "unshipped"} THEN "done" ELSE "ship"
  BY DEF Pay, GenInv, GenTypes, DrawnSoFar, GenTo
<1>2. PICK p \in NewTime(newOrder.create, 1), c \in NewTime(newOrder.create, Short) :
        newOrder' \in
            IF newOrder.status # "cancelled" THEN {[newOrder EXCEPT !.payment = p]}
            ELSE {[newOrder EXCEPT !.payment = p, !.complete = c], [newOrder EXCEPT !.complete = p]}
  BY DEF Pay
<1>3. newOrder.create \in 0..Now
  BY <1>1 DEF OrderRecords
<1>4. p \in newOrder.create..Now /\ c \in newOrder.create..Now
  BY <1>3, NewTimeFollows, GenAssumption DEF Never
<1>5. p \in 0..Never /\ c \in 0..Never
  BY <1>3, <1>4, GenAssumption DEF Never
<1>6. newOrder' \in OrderRecords
  BY <1>1, <1>2, <1>5 DEF OrderRecords
<1>7. /\ newOrder'.status = newOrder.status /\ newOrder'.code = newOrder.code
      /\ newOrder'.create = newOrder.create /\ newOrder'.delivered = Never
      /\ newOrder.status # "cancelled" => newOrder'.payment = p
  BY <1>1, <1>2 DEF OrderRecords
<1>8. newOrder.status # "cancelled" =>
        newOrder'.create <= newOrder'.payment /\ newOrder'.payment <= Now
  BY <1>3, <1>4, <1>7, GenAssumption
<1>9. GenTypes'
  BY <1>1, <1>6, <1>7 DEF GenInv, GenTypes
<1>10. DrawnSoFar'
  BY <1>1, <1>8 DEF DrawnSoFar
<1>11. OrdersMakeSense'
  BY <1>1, <1>7, <1>8 DEF OrdersMakeSense
<1>12. ClearedInOrder'
  BY <1>1 DEF ClearedInOrder
<1> QED
  BY <1>9, <1>10, <1>11, <1>12 DEF GenInv

LEMMA ShipKeepsGenInv ==
  ASSUME GenInv, ShipOrder
  PROVE  GenInv'
<1>1. /\ newOrder \in OrderRecords /\ drawn = <<>>
      /\ newOrder.create <= newOrder.payment /\ newOrder.payment <= Now
      /\ newOrder.status = "completed" => newOrder.code >= 400
      /\ UNCHANGED <<tables, kind, drawn>>
      /\ genStage' = IF newOrder.code < 400 THEN "done" ELSE "after"
  BY DEF ShipOrder, GenInv, GenTypes, DrawnSoFar, GenTo
<1>2. PICK d \in Delivery(newOrder.payment, newOrder.code >= 330) :
        newOrder' = [newOrder EXCEPT !.delivered = d]
  BY DEF ShipOrder
<1>3. newOrder.payment \in 0..Now /\ newOrder.create \in 0..Now /\ newOrder.code \in Nat
  BY <1>1, GenAssumption DEF OrderRecords, Never
<1>4. CASE newOrder.code >= 330
  <2>1. d \in newOrder.payment..Now
    BY <1>2, <1>3, <1>4, DeliveryFollows
  <2>2. d \in 0..Never
    BY <1>3, <2>1, GenAssumption DEF Never
  <2>3. newOrder' \in OrderRecords
    BY <1>1, <1>2, <2>2 DEF OrderRecords
  <2>4. /\ newOrder'.status = newOrder.status /\ newOrder'.code = newOrder.code
        /\ newOrder'.create = newOrder.create /\ newOrder'.payment = newOrder.payment
        /\ newOrder'.delivered = d
    BY <1>1, <1>2 DEF OrderRecords
  <2>5. HasArrived(newOrder)'
    BY <1>1, <1>3, <2>1, <2>4, GenAssumption DEF HasArrived
  <2>6. GenTypes'
    BY <1>1, <2>3, <2>4 DEF GenInv, GenTypes
  <2>7. DrawnSoFar'
    BY <1>1, <2>5 DEF DrawnSoFar
  <2>8. newOrder.status = "completed" => genStage' # "done"
    BY <1>1, <1>3
  <2>9. OrdersMakeSense'
    BY <1>1, <2>4, <2>5, <2>8 DEF OrdersMakeSense, HasArrived
  <2> QED
    BY <1>1, <2>6, <2>7, <2>9 DEF GenInv, ClearedInOrder
<1>5. CASE ~(newOrder.code >= 330)
  <2>1. d = Never /\ newOrder.code < 400 /\ newOrder.status # "completed"
    BY <1>1, <1>2, <1>3, <1>5 DEF Delivery
  <2>2. newOrder' \in OrderRecords
    BY <1>1, <1>2, <2>1, GenAssumption, SMTT(20) DEF OrderRecords, Never
  <2>3. /\ newOrder'.status = newOrder.status /\ newOrder'.code = newOrder.code
        /\ newOrder'.create = newOrder.create /\ newOrder'.payment = newOrder.payment
        /\ newOrder'.delivered = Never
    BY <1>1, <1>2, <2>1 DEF OrderRecords
  <2>4. GenTypes'
    BY <1>1, <2>2, <2>3 DEF GenInv, GenTypes
  <2>5. DrawnSoFar'
    BY <1>1, <2>1 DEF DrawnSoFar
  <2>6. OrdersMakeSense'
    BY <1>1, <2>1, <2>3 DEF OrdersMakeSense
  <2> QED
    BY <1>1, <2>4, <2>5, <2>6 DEF GenInv, ClearedInOrder
<1> QED
  BY <1>4, <1>5

LEMMA AfterSaleKeepsGenInv ==
  ASSUME GenInv, AfterSale
  PROVE  GenInv'
<1> DEFINE Fitting(type) == {s \in PostStatuses : type \in s.types /\
                  IF newOrder.status = "completed" THEN s.code >= 900 ELSE s.code <= 499}
<1>1. /\ newOrder \in OrderRecords /\ drawn = <<>> /\ HasArrived(newOrder)
      /\ UNCHANGED <<tables, drawn>>
  BY DEF AfterSale, GenInv, GenTypes, DrawnSoFar
<1>2. CASE /\ \E c \in NewTime(newOrder.delivered, Short) :
                newOrder' = [newOrder EXCEPT !.complete = c]
           /\ genStage' = "done"
           /\ UNCHANGED kind
  <2>1. PICK c \in NewTime(newOrder.delivered, Short) :
          newOrder' = [newOrder EXCEPT !.complete = c]
    BY <1>2
  <2>2. newOrder.delivered \in 0..Now
    BY <1>1, GenAssumption DEF OrderRecords, HasArrived, Never
  <2>3. c \in newOrder.delivered..Now
    BY <2>2, NewTimeFollows, GenAssumption DEF Never
  <2>4. c \in 0..Never /\ c # Never
    BY <2>2, <2>3, GenAssumption DEF Never
  <2>5. newOrder' \in OrderRecords
    BY <1>1, <2>1, <2>4 DEF OrderRecords
  <2>6. /\ newOrder'.status = newOrder.status /\ newOrder'.code = newOrder.code
        /\ newOrder'.create = newOrder.create /\ newOrder'.payment = newOrder.payment
        /\ newOrder'.delivered = newOrder.delivered /\ newOrder'.complete = c
    BY <1>1, <2>1 DEF OrderRecords
  <2>7. GenTypes'
    BY <1>1, <1>2, <2>5, <2>6 DEF GenInv, GenTypes
  <2>8. DrawnSoFar'
    BY <1>2 DEF DrawnSoFar
  <2>9. newOrder.delivered <= c
    BY <2>2, <2>3, GenAssumption
  <2>10. OrdersMakeSense'
    BY <1>1, <2>4, <2>6, <2>9 DEF OrdersMakeSense, HasArrived
  <2> QED
    BY <1>2, <2>7, <2>8, <2>10 DEF GenInv, ClearedInOrder
<1>3. ASSUME NEW type \in PostsaleTypes, NEW s \in Fitting(type), UNCHANGED newOrder,
             kind' = [type |-> type, name |-> s.name, code |-> s.code], genStage' = "requests"
      PROVE  GenInv'
  <2>1. s.code \in Nat /\ (newOrder.status = "completed" => s.code >= 900)
    BY <1>3, GenAssumption
  <2>2. kind'.type = type /\ kind'.code = s.code
    BY <1>3
  <2>3. GenTypes'
    BY <1>1, <1>3, <2>1, <2>2 DEF GenInv, GenTypes
  <2>4. DrawnSoFar'
    BY <1>1, <1>3, <2>1, <2>2 DEF DrawnSoFar, HasArrived
  <2>5. OrdersMakeSense'
    BY <1>3 DEF OrdersMakeSense
  <2>6. ClearedInOrder'
    BY <1>1, <1>3 DEF GenInv, ClearedInOrder
  <2> QED
    BY <2>3, <2>4, <2>5, <2>6 DEF GenInv
<1>4. CASE UNCHANGED <<newOrder, kind>> /\ genStage' = "raised"
  BY <1>1, <1>4 DEF GenInv, GenTypes, DrawnSoFar, OrdersMakeSense, ClearedInOrder
<1>5. \/ /\ \E c \in NewTime(newOrder.delivered, Short) :
               newOrder' = [newOrder EXCEPT !.complete = c]
         /\ genStage' = "done"
         /\ UNCHANGED kind
      \/ /\ UNCHANGED newOrder
         /\ \E type \in PostsaleTypes : \E s \in Fitting(type) :
               /\ kind' = [type |-> type, name |-> s.name, code |-> s.code]
               /\ genStage' = "requests"
      \/ UNCHANGED <<newOrder, kind>> /\ genStage' = "raised"
  BY DEF AfterSale, GenTo
<1> QED
  BY <1>2, <1>3, <1>4, <1>5

LEMMA DrawRequestKeepsGenInv ==
  ASSUME GenInv, DrawRequest
  PROVE  GenInv'
<1>1. PICK d \in OrderDetails, t \in NewTime(newOrder.delivered, Short) :
        \E c \in CompleteTimes(t) :
          drawn' = Append(drawn, [detail |-> d, create |-> t, complete |-> c])
  BY DEF DrawRequest
<1>2. PICK c \in CompleteTimes(t) :
        drawn' = Append(drawn, [detail |-> d, create |-> t, complete |-> c])
  BY <1>1
<1> DEFINE request == [detail |-> d, create |-> t, complete |-> c]
<1>3. /\ newOrder \in OrderRecords /\ HasArrived(newOrder) /\ drawn \in Seq(RequestRecords)
      /\ genStage = "requests" /\ kind.type \in PostsaleTypes
      /\ newOrder.status = "completed" => kind.code >= 900
      /\ \A i \in DOMAIN drawn : FollowsOrder(drawn[i], newOrder, kind)
      /\ UNCHANGED <<genStage, tables, newOrder, kind>>
  BY DEF DrawRequest, GenInv, GenTypes, DrawnSoFar
<1>4. newOrder.delivered \in 0..Now
  BY <1>3, GenAssumption DEF OrderRecords, HasArrived, Never
<1>5. t \in newOrder.delivered..Now
  BY <1>4, NewTimeFollows, GenAssumption DEF Never
<1>6. t \in 0..Now
  BY <1>4, <1>5, GenAssumption
<1>7. /\ c \in t..Never
      /\ kind.code >= 900 /\ c = Never => kind.type = "refund" /\ kind.code > 920
  BY <1>2, <1>3, <1>6, CompleteTimesFollow DEF GenInv
<1>8. c \in 0..Never /\ newOrder.delivered <= t /\ t <= c
  BY <1>4, <1>5, <1>6, <1>7, GenAssumption DEF Never
<1>9. request \in RequestRecords
  BY <1>6, <1>8 DEF RequestRecords
<1>10. FollowsOrder(request, newOrder, kind)
  BY <1>3, <1>7, <1>8 DEF FollowsOrder
<1> HIDE DEF request
<1>11. drawn' = Append(drawn, request)
  BY <1>2 DEF request
<1>12. drawn' \in Seq(RequestRecords)
  BY <1>3, <1>9, <1>11
<1>13. \A i \in DOMAIN drawn' : FollowsOrder(drawn'[i], newOrder, kind)
  <2> SUFFICES ASSUME NEW i \in DOMAIN drawn' PROVE FollowsOrder(drawn'[i], newOrder, kind)
    OBVIOUS
  <2>1. (i \in DOMAIN drawn /\ drawn'[i] = drawn[i]) \/ drawn'[i] = request
    BY <1>3, <1>9, <1>11
  <2> QED
    BY <1>3, <1>10, <2>1
<1>14. GenTypes'
  BY <1>3, <1>12 DEF GenInv, GenTypes
<1>15. DrawnSoFar'
  BY <1>3, <1>13 DEF DrawnSoFar, HasArrived, FollowsOrder
<1> QED
  BY <1>3, <1>14, <1>15 DEF GenInv, OrdersMakeSense, ClearedInOrder

LEMMA EndRequestsKeepsGenInv ==
  ASSUME GenInv, EndRequests
  PROVE  GenInv'
<1>1. /\ newOrder \in OrderRecords /\ HasArrived(newOrder) /\ drawn \in Seq(RequestRecords)
      /\ newOrder.status = "completed" => kind.code >= 900
      /\ \A i \in DOMAIN drawn : FollowsOrder(drawn[i], newOrder, kind)
      /\ UNCHANGED <<tables, kind, drawn>>
  BY DEF EndRequests, GenInv, GenTypes, DrawnSoFar
<1>2. CASE newOrder.status = "after-sale" /\ UNCHANGED newOrder /\ genStage' = "done"
  <2>1. GenTypes' /\ DrawnSoFar'
    BY <1>1, <1>2 DEF GenInv, GenTypes, DrawnSoFar
  <2>2. OrdersMakeSense'
    BY <1>1, <1>2 DEF OrdersMakeSense, HasArrived, FollowsOrder
  <2> QED
    BY <1>2, <2>1, <2>2 DEF GenInv, ClearedInOrder
<1>3. CASE UNCHANGED newOrder /\ genStage' = "raised"
  BY <1>1, <1>3, ZenonT(40) DEF GenInv, GenTypes, DrawnSoFar, OrdersMakeSense, ClearedInOrder
<1>4. ASSUME NEW i \in DOMAIN drawn, EndsLast(i), genStage' = "done",
             newOrder' = [newOrder EXCEPT !.complete = drawn[i].complete]
      PROVE  GenInv'
  <2>1. drawn[i] \in RequestRecords
    BY <1>1
  <2>2. drawn[i].complete \in 0..Never /\ drawn[i].create \in 0..Now
    BY <2>1 DEF RequestRecords
  <2>3. newOrder' \in OrderRecords
    BY <1>1, <1>4, <2>2 DEF OrderRecords
  <2>4. /\ newOrder'.status = newOrder.status /\ newOrder'.code = newOrder.code
        /\ newOrder'.create = newOrder.create /\ newOrder'.payment = newOrder.payment
        /\ newOrder'.delivered = newOrder.delivered
        /\ newOrder'.complete = drawn[i].complete
    BY <1>1, <1>4 DEF OrderRecords
  <2>5. GenTypes' /\ DrawnSoFar'
    BY <1>1, <1>4, <2>3, <2>4 DEF GenInv, GenTypes, DrawnSoFar
  <2>6. newOrder.delivered <= drawn[i].complete
    <3>1. newOrder.delivered \in 0..Never
      BY <1>1 DEF OrderRecords
    <3> QED
      BY <1>1, <2>2, <3>1, GenAssumption DEF FollowsOrder, Never
  <2>7. OrdersMakeSense'
    BY <1>1, <1>4, <2>4, <2>6 DEF OrdersMakeSense, HasArrived, FollowsOrder, EndsLast
  <2> QED
    BY <1>4, <2>5, <2>7 DEF GenInv, ClearedInOrder
<1> QED
  BY <1>2, <1>3, <1>4 DEF EndRequests, GenTo

\* What raises: no type has been chosen before, and the requests are as they follow.
NoKindYet == genStage \in {"clear", "order", "pay", "ship", "after"} => kind = NoKind

LEMMA NextRaises ==
  ASSUME GenInv, NoKindYet, RaisesInOrder, [GenNext]_genVars
  PROVE  NoKindYet' /\ RaisesInOrder'
<1> USE DEF NoKindYet, RaisesInOrder, GenTo
<1>1. CASE Delete \/ Cleared \/ DrawStatus \/ Pay \/ ShipOrder
  BY <1>1 DEF Delete, Cleared, DrawStatus, Pay, ShipOrder
<1>2. CASE AfterSale
  BY <1>2 DEF AfterSale
<1>3. CASE DrawRequest \/ NextOrder \/ UNCHANGED genVars
  BY <1>3 DEF DrawRequest, NextOrder, genVars
<1>4. CASE EndRequests
  <2>1. UNCHANGED kind /\ genStage' \in {"done", "raised"}
    BY <1>4 DEF EndRequests
  <2>2. ASSUME genStage' = "raised", newOrder'.status = "completed"
        PROVE  kind.type = "refund" /\ kind.code > 920
    <3>1. newOrder' = newOrder /\ \E i \in DOMAIN drawn : drawn[i].complete = Never
      BY <1>4, <2>2 DEF EndRequests
    <3> QED
      BY <1>4, <2>2, <3>1 DEF EndRequests, GenInv, DrawnSoFar, FollowsOrder
  <2> QED
    BY <2>1, <2>2
<1> QED
  BY <1>1, <1>2, <1>3, <1>4 DEF GenNext

\* For any codes, details and spans of time.
THEOREM DemoMakesSense == GenSpec => []DataMakesSense
<1>1. GenInit => GenInv
  <2> SUFFICES ASSUME GenInit PROVE GenInv
    OBVIOUS
  <2>1. BlankOrder \in OrderRecords /\ BlankOrder.status = "none"
    BY GenAssumption DEF BlankOrder, OrderRecords, Never
  <2>2. GenTypes
    BY <2>1 DEF GenInit, GenTypes, NoKind
  <2> QED
    BY <2>2 DEF GenInit, GenInv, DrawnSoFar, OrdersMakeSense, ClearedInOrder
<1>2. GenInv /\ [GenNext]_genVars => GenInv'
  <2> SUFFICES ASSUME GenInv, [GenNext]_genVars PROVE GenInv'
    OBVIOUS
  <2>1. CASE Cleared
    BY <2>1 DEF Cleared, GenTo, GenInv, GenTypes, DrawnSoFar, OrdersMakeSense, ClearedInOrder
  <2>2. CASE NextOrder
    <3>1. BlankOrder \in OrderRecords /\ BlankOrder.status = "none"
      BY GenAssumption DEF BlankOrder, OrderRecords, Never
    <3>2. GenTypes'
      BY <2>2, <3>1 DEF NextOrder, GenInv, GenTypes, NoKind
    <3> QED
      BY <2>2, <3>2 DEF NextOrder, GenTo, GenInv, DrawnSoFar, OrdersMakeSense, ClearedInOrder
  <2>3. CASE UNCHANGED genVars
    <3>1. GenTypes' /\ ClearedInOrder'
      BY <2>3 DEF genVars, GenInv, GenTypes, ClearedInOrder
    <3>2. DrawnSoFar'
      BY <2>3 DEF genVars, GenInv, DrawnSoFar, HasArrived, FollowsOrder
    <3>3. OrdersMakeSense'
      BY <2>3 DEF genVars, GenInv, OrdersMakeSense
    <3> QED
      BY <3>1, <3>2, <3>3 DEF GenInv
  <2> QED
    BY <2>1, <2>2, <2>3, DeleteKeepsGenInv, DrawStatusKeepsGenInv, PayKeepsGenInv,
       ShipKeepsGenInv, AfterSaleKeepsGenInv, DrawRequestKeepsGenInv, EndRequestsKeepsGenInv
       DEF GenNext
<1>3. GenInit => NoKindYet /\ RaisesInOrder
  BY DEF GenInit, NoKindYet, RaisesInOrder
<1>4. GenInv /\ NoKindYet /\ RaisesInOrder /\ [GenNext]_genVars => NoKindYet' /\ RaisesInOrder'
  BY NextRaises
<1>5. GenInv /\ RaisesInOrder => DataMakesSense
  BY DEF GenInv, DataMakesSense
<1> QED
  BY <1>1, <1>2, <1>3, <1>4, <1>5, PTL DEF GenSpec

=============================================================================
