-------------------------- MODULE SchemaToolProofs --------------------------
(***************************************************************************)
(* Machine-checked theorems about SchemaTool, for directories of any       *)
(* number of YAML files with any fields: what the inference rules and the  *)
(* validator accept, what is written for an accepted model, and that the   *)
(* schemas a clean run left behind load.                                   *)
(***************************************************************************)
EXTENDS SchemaTool, FiniteSetTheorems, SequenceTheorems, WellFoundedInduction, TLAPS

\* A set of positions that is not empty has a last one.
LEMMA LastOf ==
    ASSUME NEW n \in Nat, NEW S \in SUBSET (1..n), S # {}
    PROVE  \E i \in S : \A j \in S : j <= i
<1> DEFINE fromEnd == {n - i : i \in S}
<1>1. fromEnd \subseteq Nat /\ fromEnd # {}
  <2>1. \A i \in S : n - i \in Nat
    OBVIOUS
  <2> QED BY <2>1
<1> DEFINE less == OpToRel(<, Nat)
<1>2. IsWellFoundedOn(less, Nat)
  BY NatLessThanWellFounded
<1>3. \A x, y \in Nat : y < x => <<y, x>> \in less
  BY DEF OpToRel
<1> HIDE DEF fromEnd, less
<1>4. PICK x \in fromEnd : \A y \in fromEnd : ~(<<y, x>> \in less)
  BY <1>1, <1>2, WFMin, Zenon
<1>5. \A y \in fromEnd : ~(y < x)
  BY <1>1, <1>3, <1>4, Zenon
<1>6. PICK i \in S : x = n - i
  BY DEF fromEnd
<1>7. \A j \in S : ~(n - j < n - i)
  BY <1>5, <1>6 DEF fromEnd
<1>8. \A j \in S : j \in Int /\ i \in Int
  OBVIOUS
<1> QED BY <1>7, <1>8

LEMMA SeqOf ==
    ASSUME NEW S, NEW n \in Nat, NEW q \in [1..n -> S]
    PROVE  q \in Seq(S)
BY SeqDef

-----------------------------------------------------------------------------
(* The parts of a field *)

\* The default of a list is one of its items: the one named, or the first.
LEMMA DefaultFacts ==
    ASSUME NEW sf \in YamlFields, Listed(sf),
           NEW items, DOMAIN items = DOMAIN sf.list,
           \A i \in DOMAIN items : items[i].id = sf.list[i].id
    PROVE  /\ \E i \in DOMAIN items : DefaultItem(sf, items) = items[i]
           /\ sf.default \in {sf.list[i].id : i \in DOMAIN sf.list} \ {""} =>
                  DefaultItem(sf, items).id = sf.default
           /\ sf.default = "" => DefaultItem(sf, items) = items[1]
<1> DEFINE matching == {i \in DOMAIN items : items[i].id = sf.default}
<1>1. sf.list \in Seq(YamlOptions) /\ sf.list # <<>>
  BY DEF YamlFields, Listed
<1>2. PICK n \in Nat : n = Len(sf.list) /\ DOMAIN items = 1..n /\ 1 \in DOMAIN items
  BY <1>1
<1>3. CASE sf.default = "" \/ matching = {}
  BY <1>2, <1>3 DEF DefaultItem
<1>4. CASE sf.default # "" /\ matching # {}
  <2>1. \E i \in matching : \A j \in matching : j <= i
    BY <1>2, <1>4, LastOf
  <2>2. PICK i \in matching : DefaultItem(sf, items) = items[i]
    BY <1>4, <2>1 DEF DefaultItem
  <2> QED BY <1>4, <2>2
<1> QED BY <1>3, <1>4

LEMMA ListRecord ==
    ASSUME NEW multi \in BOOLEAN, NEW default \in Items, NEW items \in Seq(Items)
    PROVE  [multiselect |-> multi, default |-> default, items |-> items] \in Lists
BY DEF Lists

\* The list of a field, and when the validator finds it in order.
LEMMA ListFacts ==
    ASSUME NEW sf \in YamlFields, Listed(sf)
    PROVE  /\ ListOf(sf) \in Lists
           /\ ListOf(sf).multiselect = sf.multi
           /\ \E i \in DOMAIN ListOf(sf).items : ListOf(sf).items[i] = ListOf(sf).default
           /\ sf.default \in {sf.list[i].id : i \in DOMAIN sf.list} \ {""} =>
                  ListOf(sf).default.id = sf.default
           /\ sf.default = "" => ListOf(sf).default = ListOf(sf).items[1]
           /\ ValidList(ListOf(sf)) <=> \A i \in DOMAIN sf.list : sf.list[i].id # ""
<1> DEFINE items == [i \in DOMAIN sf.list |->
                       [id |-> sf.list[i].id, value |-> Or(sf.list[i].label, sf.list[i].id)]]
<1>1. sf.list \in Seq(YamlOptions) /\ sf.list # <<>> /\ sf.multi \in BOOLEAN
  BY DEF YamlFields, Listed
<1>2. /\ items \in Seq(Items) /\ items # <<>> /\ DOMAIN items = DOMAIN sf.list
      /\ \A i \in DOMAIN items : items[i] \in Items
      /\ \A i \in DOMAIN items : items[i].id = sf.list[i].id
      /\ \A i \in DOMAIN items : ValidItem(items[i]) <=> sf.list[i].id # ""
  <2>1. \A i \in DOMAIN sf.list : sf.list[i] \in YamlOptions
    BY <1>1
  <2>2. \A i \in DOMAIN sf.list : items[i] \in Items
    BY <2>1 DEF Or, YamlOptions, Items
  <2>3. items \in Seq(Items) /\ items # <<>> /\ DOMAIN items = DOMAIN sf.list
    <3>1. PICK n \in Nat : DOMAIN sf.list = 1..n /\ n > 0
      BY <1>1
    <3>2. items \in [1..n -> Items]
      BY <2>2, <3>1
    <3>3. items \in Seq(Items)
      BY <3>2, SeqOf, Zenon
    <3> QED BY <3>1, <3>3
  <2>4. \A i \in DOMAIN items : ValidItem(items[i]) <=> sf.list[i].id # ""
    BY <2>2, SchemaAssumption DEF ValidItem, Or
  <2> QED BY <2>2, <2>3, <2>4
<1> DEFINE default == DefaultItem(sf, items)
<1>3. ListOf(sf) = [multiselect |-> sf.multi, default |-> default, items |-> items]
  BY DEF ListOf
<1> HIDE DEF items
<1>4. /\ \E i \in DOMAIN items : items[i] = default
      /\ sf.default \in {sf.list[i].id : i \in DOMAIN sf.list} \ {""} =>
             default.id = sf.default
      /\ sf.default = "" => default = items[1]
  BY <1>2, DefaultFacts
<1> HIDE DEF default
<1>5. default \in Items
  BY <1>2, <1>4
<1>6. /\ ListOf(sf).multiselect = sf.multi
      /\ ListOf(sf).default = default /\ ListOf(sf).items = items
  BY <1>3
<1>7. ListOf(sf) \in Lists /\ ListOf(sf) # Nil
  <2>1. ListOf(sf) \in Lists
    BY <1>1, <1>2, <1>3, <1>5, ListRecord, Zenon
  <2> QED BY <2>1, SchemaAssumption
<1>8. ValidList(ListOf(sf)) <=> \A i \in DOMAIN items : ValidItem(items[i])
  <2>1. ValidList(ListOf(sf)) <=>
          ValidItem(default) /\ \A i \in DOMAIN items : ValidItem(items[i])
    BY <1>2, <1>6, <1>7, Zenon DEF ValidList
  <2> QED BY <1>4, <2>1
<1>9. ValidList(ListOf(sf)) <=> \A i \in DOMAIN sf.list : sf.list[i].id # ""
  BY <1>2, <1>8
<1> QED BY <1>4, <1>6, <1>7, <1>9

\* What is shown of a field passes the validator, unless it is an id that is
\* required, or has a list.
LEMMA VisibilityFacts ==
    ASSUME NEW sf \in YamlFields
    PROVE  /\ Visibility(sf) \in Flags
           /\ sf.logic # "id" => Visibility(sf).view
           /\ sf.logic # "id" /\ sf.required =>
                  Visibility(sf).create /\ Visibility(sf).edit
           /\ sf.readonly /\ ~sf.required =>
                  ~Visibility(sf).create /\ ~Visibility(sf).edit
           /\ sf.readonly \/ sf.locked => ~Visibility(sf).editable
           /\ sf.logic # "id" => ValidVisibility(Or(sf.logic, "other"), Visibility(sf))
                                /\ ValidVisibility("other", Visibility(sf))
           /\ sf.logic = "id" => ~ValidVisibility("other", Visibility(sf))
           /\ sf.logic = "id" => (ValidVisibility("id", Visibility(sf)) <=> ~sf.required)
<1> DEFINE vis == Visibility(sf)
<1>1. /\ sf.required \in BOOLEAN /\ sf.locked \in BOOLEAN /\ sf.readonly \in BOOLEAN
      /\ sf.logic \in STRING
  BY DEF YamlFields
<1>2. Visibility(sf) \in Flags
  BY <1>1 DEF Visibility, Flags
<1>3. /\ vis.required = sf.required
      /\ vis.view = (sf.logic # "id")
      /\ vis.edit = (sf.logic # "id" /\ (~sf.readonly \/ sf.required))
      /\ vis.create = vis.edit
      /\ vis.editable = (sf.logic # "id" /\ ~sf.locked /\ ~sf.readonly)
      /\ DOMAIN vis = {"required", "editable", "view", "edit", "create"}
      /\ vis["required"] = vis.required /\ vis["view"] = vis.view
      /\ vis["edit"] = vis.edit /\ vis["create"] = vis.create
      /\ vis["editable"] = vis.editable
  BY DEF Visibility
<1> HIDE DEF vis
<1>4. sf.logic # "id" => ValidVisibility(Or(sf.logic, "other"), vis)
                         /\ ValidVisibility("other", vis)
  BY <1>1, <1>3 DEF ValidVisibility, Or
<1>5. sf.logic = "id" => ~ValidVisibility("other", vis)
  BY <1>1, <1>3 DEF ValidVisibility
<1>6. sf.logic = "id" => (ValidVisibility("id", vis) <=> ~sf.required)
  <2>1. sf.logic = "id" => ~vis.view /\ ~vis.edit /\ ~vis.create /\ ~vis.editable
    BY <1>3
  <2>2. ValidVisibility("id", vis) <=> \A flag \in DOMAIN vis : ~vis[flag]
    BY DEF ValidVisibility
  <2> QED BY <1>3, <2>1, <2>2
<1>7. /\ sf.logic # "id" => vis.view
      /\ sf.logic # "id" /\ sf.required => vis.create /\ vis.edit
      /\ sf.readonly /\ ~sf.required => ~vis.create /\ ~vis.edit
      /\ sf.readonly \/ sf.locked => ~vis.editable
  BY <1>1, <1>3
<1> QED BY <1>2, <1>4, <1>5, <1>6, <1>7 DEF vis

\* The validator's table of edit types.
LEMMA EditTypes ==
    /\ DOMAIN EditableAs =
           {"text", "textarea", "list", "checkbox", "association", "datetime"}
    /\ EditableAs["text"] = {"string", "integer", "float"}
    /\ EditableAs["textarea"] = {"string"}
    /\ EditableAs["list"] = {"string"}
    /\ EditableAs["checkbox"] = {"bool"}
    /\ EditableAs["association"] = {"to_one", "to_many"}
    /\ EditableAs["datetime"] = {"timestamp"}
BY DEF EditableAs

\* The types of a field without list and association that are in order.
LEMMA TypeFacts ==
    ASSUME NEW sf \in YamlFields, ~Listed(sf), ~Linked(sf)
    PROVE  LET f == ParseField(sf)
           IN  TypesFit(sf, LogicTypes) <=>
                   /\ ValidTypes(f.type, f.logic, f.edit)
                   /\ f.edit # "list"
                   /\ f.type \notin {"to_one", "to_many"}
<1> DEFINE f == ParseField(sf)
<1> DEFINE type == Or(sf.type, "string")
<1>1. /\ f.type = type /\ f.logic = Or(sf.logic, "other")
      /\ f.edit = Or(sf.edit, InferredEdit(type))
  BY DEF ParseField
<1> HIDE DEF f
<1>2. ASSUME type \in BaseTypes \ {"to_one", "to_many"}
      PROVE  /\ InferredEdit(type) \in DOMAIN EditableAs \ {"list", "association"}
             /\ type \in EditableAs[InferredEdit(type)]
  BY <1>2, EditTypes DEF BaseTypes, InferredEdit
<1>3. ASSUME type \in BaseTypes \ {"to_one", "to_many"}
      PROVE  (f.edit # "list" /\ f.edit \in DOMAIN EditableAs /\ type \in EditableAs[f.edit])
             <=> (sf.edit = "" \/ (sf.edit \in DOMAIN EditableAs \ {"list", "association"}
                                   /\ type \in EditableAs[sf.edit]))
  <2>1. CASE sf.edit = ""
    BY <1>1, <1>2, <1>3, <2>1 DEF Or
  <2>2. CASE sf.edit # ""
    <3>1. f.edit = sf.edit
      BY <1>1, <2>2 DEF Or
    <3>2. type \notin EditableAs["association"]
      BY <1>3, EditTypes
    <3> QED BY <2>2, <3>1, <3>2
  <2> QED BY <2>1, <2>2
<1>4. (sf.logic \in {"", "other"} \/ (sf.logic \in LogicTypes /\ type = "string"))
      <=> (f.logic \in LogicTypes /\ (f.logic # "other" => type = "string"))
  BY <1>1 DEF Or, LogicTypes, SingleLogics
<1> QED BY <1>1, <1>3, <1>4 DEF TypesFit, ValidTypes, f

\* What parseYAML makes of a field with an id is a field.
LEMMA ParsedField ==
    ASSUME NEW sf \in YamlFields, sf.id # ""
    PROVE  /\ ParseField(sf) \in Fields
           /\ ParseField(sf) # Nil
           /\ ParseField(sf).id # "" /\ ParseField(sf).label # ""
<1> DEFINE f == ParseField(sf)
<1>1. /\ sf.id \in STRING /\ sf.label \in STRING /\ sf.type \in STRING
      /\ sf.logic \in STRING /\ sf.edit \in STRING
      /\ sf.association \in Associations \cup {Nil}
  BY DEF YamlFields
<1>2. f.id \in STRING /\ f.label \in STRING /\ f.id # "" /\ f.label # ""
  BY <1>1 DEF ParseField, Or
<1>3. /\ f.type \in STRING \cup BaseTypes /\ f.logic \in STRING \cup LogicTypes
      /\ f.edit \in STRING \cup DOMAIN EditableAs
  <2> DEFINE type == Or(sf.type, "string")
  <2>1. /\ f.type \in {"to_many", "to_one", "string", sf.type}
        /\ f.logic \in {"other", sf.logic}
        /\ f.edit \in {"association", "list", sf.edit, InferredEdit(type)}
    BY DEF ParseField, Or
  <2> HIDE DEF f
  <2>2. InferredEdit(type) \in {"checkbox", "datetime", "association", "text"}
    BY DEF InferredEdit
  <2> HIDE DEF type
  <2> QED BY <1>1, <2>1, <2>2, EditTypes DEF BaseTypes, LogicTypes
<1>4. f.visibility \in Flags
  BY VisibilityFacts DEF ParseField
<1>5. f.list \in Lists \cup {Nil}
  BY ListFacts DEF ParseField
<1>6. f.association \in Associations \cup {Nil}
  BY <1>1 DEF ParseField
<1>7. f = [id |-> f.id, label |-> f.label, type |-> f.type, logic |-> f.logic,
           edit |-> f.edit, visibility |-> f.visibility, list |-> f.list,
           association |-> f.association]
  BY DEF ParseField
<1> HIDE DEF f
<1>8. f \in Fields
  BY <1>2, <1>3, <1>4, <1>5, <1>6, <1>7 DEF Fields
<1> QED BY <1>2, <1>8, SchemaAssumption DEF f

\* The validator accepts the field parseYAML made exactly if data-model.md does,
\* with record_url among its logic types.
LEMMA FieldAccepted ==
    ASSUME NEW sf \in YamlFields, sf.id # "", ~(Listed(sf) /\ Linked(sf))
    PROVE  ValidField(ParseField(sf)) <=> Acceptable(sf, LogicTypes)
<1> DEFINE f == ParseField(sf)
<1>1. f # Nil /\ f.id # "" /\ f.label # ""
  BY ParsedField
<1>2. f.visibility = Visibility(sf) /\ f.association = sf.association
  BY DEF ParseField
<1>3. sf.logic \in STRING /\ sf.association \in Associations \cup {Nil}
  BY DEF YamlFields
<1>4. CASE Listed(sf)
  <2>1. /\ f.type = "string" /\ f.logic = "other" /\ f.edit = "list"
        /\ f.list = ListOf(sf)
    BY <1>4 DEF ParseField
  <2> HIDE DEF f
  <2>2. ValidTypes(f.type, f.logic, f.edit)
    BY <2>1, EditTypes DEF ValidTypes, BaseTypes, LogicTypes
  <2>3. ValidVisibility(f.logic, f.visibility) <=> sf.logic # "id"
    BY <1>2, <2>1, VisibilityFacts
  <2>4. ValidList(f.list) <=> \A i \in DOMAIN sf.list : sf.list[i].id # ""
    BY <1>4, <2>1, ListFacts
  <2>5. ValidField(f) <=> (\A i \in DOMAIN sf.list : sf.list[i].id # "") /\ sf.logic # "id"
    BY <1>1, <2>1, <2>2, <2>3, <2>4 DEF ValidField
  <2>6. Acceptable(sf, LogicTypes) <=> (\A i \in DOMAIN sf.list : sf.list[i].id # "") /\ sf.logic # "id"
    BY <1>4 DEF Acceptable
  <2> QED BY <2>5, <2>6 DEF f
<1>5. CASE Linked(sf)
  <2>1. /\ f.type \in {"to_one", "to_many"} /\ f.logic = Or(sf.logic, "other")
        /\ f.edit = "association"
    BY <1>5 DEF ParseField
  <2> HIDE DEF f
  <2>2. ValidTypes(f.type, f.logic, f.edit) <=> sf.logic \in {"", "other"}
    BY <2>1, EditTypes DEF ValidTypes, BaseTypes, LogicTypes, Or
  <2>3. sf.logic \in {"", "other"} => ValidVisibility(f.logic, f.visibility)
    BY <1>2, <2>1, VisibilityFacts
  <2>4. ValidAssociation(f.association) <=>
            /\ sf.association.object # ""
            /\ sf.association.fields.id # "" /\ sf.association.fields.value # ""
    <3>1. sf.association # Nil /\ sf.association.fields \in Items
      BY <1>3, <1>5 DEF Linked, Associations
    <3>2. sf.association.fields # Nil
      BY <3>1, SchemaAssumption
    <3> QED BY <1>2, <3>1, <3>2 DEF ValidAssociation, ValidItem
  <2>5. ValidField(f) <=> sf.logic \in {"", "other"} /\ ValidAssociation(f.association)
    BY <1>1, <2>1, <2>2, <2>3 DEF ValidField
  <2>6. Acceptable(sf, LogicTypes) <=>
            /\ sf.association.object # ""
            /\ sf.association.fields.id # "" /\ sf.association.fields.value # ""
            /\ sf.logic \in {"", "other"}
    BY <1>5 DEF Acceptable
  <2> QED BY <2>4, <2>5, <2>6 DEF f
<1>6. CASE ~Listed(sf) /\ ~Linked(sf)
  <2>1. f.list = Nil /\ f.association = Nil /\ f.logic = Or(sf.logic, "other")
    BY <1>6 DEF ParseField, Linked
  <2>2. TypesFit(sf, LogicTypes) <=> /\ ValidTypes(f.type, f.logic, f.edit)
                         /\ f.edit # "list" /\ f.type \notin {"to_one", "to_many"}
    BY <1>6, TypeFacts
  <2> HIDE DEF f
  <2>3. ~ValidList(f.list) /\ ~ValidAssociation(f.association)
    BY <2>1 DEF ValidList, ValidAssociation
  <2>4. ValidVisibility(f.logic, f.visibility) <=> (sf.logic = "id" => ~sf.required)
    BY <1>2, <2>1, VisibilityFacts DEF Or
  <2>5. ValidField(f) <=> TypesFit(sf, LogicTypes) /\ ValidVisibility(f.logic, f.visibility)
    BY <1>1, <2>2, <2>3 DEF ValidField
  <2>6. Acceptable(sf, LogicTypes) <=> TypesFit(sf, LogicTypes) /\ (sf.logic = "id" => ~sf.required)
    BY <1>6 DEF Acceptable
  <2> QED BY <2>4, <2>5, <2>6 DEF f
<1> QED BY <1>4, <1>5, <1>6

\* The field parseYAML made is what the property table promises.
LEMMA FieldAsDocumented ==
    ASSUME NEW sf \in YamlFields, sf.id # "", ~(Listed(sf) /\ Linked(sf)),
           ValidField(ParseField(sf))
    PROVE  AsDocumented(ParseField(sf), sf)
<1> DEFINE f == ParseField(sf)
<1>1. /\ sf.required \in BOOLEAN /\ sf.locked \in BOOLEAN /\ sf.readonly \in BOOLEAN
      /\ sf.multi \in BOOLEAN
  BY DEF YamlFields
<1>2. Listed(sf) => sf.logic # "id"
  BY FieldAccepted DEF Acceptable
<1>3. Linked(sf) => sf.logic # "id"
  BY FieldAccepted DEF Acceptable
<1>4. f.visibility = Visibility(sf)
      /\ (~Listed(sf) /\ sf.logic = "id" => f.logic = "id")
      /\ (Listed(sf) => f.list = ListOf(sf))
      /\ (Linked(sf) /\ sf.multi => f.type = "to_many")
  BY DEF ParseField, Or
<1> HIDE DEF f
<1>5. sf.required /\ sf.logic # "id" => f.visibility.create /\ f.visibility.edit
  BY <1>4, VisibilityFacts, Zenon
<1>6. sf.required => sf.logic # "id"
  <2>1. sf.logic = "id" => ~Listed(sf) /\ ~Linked(sf)
    BY <1>2, <1>3
  <2> QED BY <2>1, FieldAccepted DEF Acceptable
<1>7. sf.readonly /\ ~sf.required => ~f.visibility.create /\ ~f.visibility.edit
  BY <1>4, VisibilityFacts, Zenon
<1>8. sf.readonly \/ sf.locked => ~f.visibility.editable
  BY <1>4, VisibilityFacts, Zenon
<1>9. f.logic # "id" => f.visibility.view
  BY <1>2, <1>4, VisibilityFacts, Zenon
<1>10. ASSUME Listed(sf)
       PROVE  /\ \E i \in DOMAIN f.list.items : f.list.items[i] = f.list.default
              /\ sf.default \in {sf.list[i].id : i \in DOMAIN sf.list} \ {""} =>
                     f.list.default.id = sf.default
              /\ sf.default = "" => f.list.default = f.list.items[1]
              /\ f.list.multiselect = sf.multi
  <2>1. f.list = ListOf(sf)
    BY <1>4, <1>10
  <2>2. /\ \E i \in DOMAIN ListOf(sf).items : ListOf(sf).items[i] = ListOf(sf).default
        /\ sf.default \in {sf.list[i].id : i \in DOMAIN sf.list} \ {""} =>
               ListOf(sf).default.id = sf.default
        /\ sf.default = "" => ListOf(sf).default = ListOf(sf).items[1]
        /\ ListOf(sf).multiselect = sf.multi
    BY <1>10, ListFacts
  <2> QED BY <2>1, <2>2, Zenon
<1> QED BY <1>4, <1>5, <1>6, <1>7, <1>8, <1>9, <1>10 DEF AsDocumented, f

-----------------------------------------------------------------------------
(* The models *)

\* A field keeps the logic type that counts for the rule of one per model.
LEMMA LogicKept ==
    ASSUME NEW m \in YamlModels, NEW logic \in SingleLogics
    PROVE  HasLogic(Parse(m), logic) = Carries(m, logic)
<1>1. DOMAIN Parse(m).fields = DOMAIN m.fields
      /\ \A i \in DOMAIN m.fields : Parse(m).fields[i] = ParseField(m.fields[i])
  BY DEF Parse
<1>2. \A i \in DOMAIN m.fields :
          ParseField(m.fields[i]).logic = logic <=>
              m.fields[i].logic = logic /\ ~Listed(m.fields[i])
  BY DEF ParseField, Or, SingleLogics
<1> QED BY <1>1, <1>2 DEF HasLogic, Carries

\* The models that pass are exactly those data-model.md describes, with record_url
\* among its logic types.
LEMMA ModelAccepted ==
    ASSUME NEW m \in YamlModels
    PROVE  Passes(m) <=> AcceptableModel(m, LogicTypes)
<1>1. m.id \in STRING /\ m.label \in STRING /\ m.fields \in Seq(YamlFields)
  BY DEF YamlModels
<1>2. \A i \in DOMAIN m.fields : m.fields[i] \in YamlFields
  BY <1>1
<1>3. DOMAIN Parse(m).fields = DOMAIN m.fields
      /\ \A i \in DOMAIN m.fields : Parse(m).fields[i] = ParseField(m.fields[i])
  BY DEF Parse
<1>4. \A logic \in SingleLogics : HasLogic(Parse(m), logic) = Carries(m, logic)
  BY LogicKept
<1>5. IsFiniteSet(Carries(m, "id")) /\ Cardinality(Carries(m, "id")) \in Nat
      /\ (Cardinality(Carries(m, "id")) = 0 <=> Carries(m, "id") = {})
  <2>1. PICK n \in Nat : DOMAIN m.fields = 1..n
    BY <1>1
  <2>2. IsFiniteSet(1..n)
    BY <2>1, FS_Interval
  <2>3. Carries(m, "id") \subseteq 1..n
    BY <2>1 DEF Carries
  <2>4. IsFiniteSet(Carries(m, "id"))
    BY <2>2, <2>3, FS_Subset
  <2> QED BY <2>4, FS_CardinalityType, FS_EmptySet
<1>6. (\A logic \in SingleLogics : Cardinality(HasLogic(Parse(m), logic)) <= 1)
      /\ HasLogic(Parse(m), "id") # {}
      <=> Cardinality(Carries(m, "id")) = 1
          /\ \A logic \in SingleLogics : Cardinality(Carries(m, logic)) <= 1
  BY <1>4, <1>5 DEF SingleLogics
<1>7. HasLogic(Parse(m), "id") # {} => Parse(m).fields # <<>>
  BY DEF HasLogic
<1>8. m.id # "" => Parse(m).id # "" /\ Parse(m).label # ""
  BY DEF Parse, Or
<1>9. ASSUME NEW i \in DOMAIN m.fields
      PROVE  Acceptable(m.fields[i], LogicTypes) <=>
                 /\ m.fields[i].id # "" /\ ~(Listed(m.fields[i]) /\ Linked(m.fields[i]))
                 /\ ValidField(Parse(m).fields[i])
  <2>1. Acceptable(m.fields[i], LogicTypes) =>
            m.fields[i].id # "" /\ ~(Listed(m.fields[i]) /\ Linked(m.fields[i]))
    BY DEF Acceptable
  <2>2. m.fields[i].id # "" /\ ~(Listed(m.fields[i]) /\ Linked(m.fields[i])) =>
            (ValidField(ParseField(m.fields[i])) <=> Acceptable(m.fields[i], LogicTypes))
    BY <1>2, FieldAccepted
  <2> QED BY <1>3, <2>1, <2>2, Zenon
<1>10. ValidateModel(Parse(m)) <=>
          /\ Parse(m).id # "" /\ Parse(m).label # "" /\ Parse(m).fields # <<>>
          /\ \A i \in DOMAIN m.fields : ValidField(Parse(m).fields[i])
          /\ \A logic \in SingleLogics : Cardinality(HasLogic(Parse(m), logic)) <= 1
          /\ HasLogic(Parse(m), "id") # {}
  BY <1>3, Zenon DEF ValidateModel
<1> QED BY <1>6, <1>7, <1>8, <1>9, <1>10, Zenon DEF AcceptableModel, ParseFails, Passes

\* What validates under the tables of data-model.md validates with one more logic
\* type, and that one makes them those of the validator.
LEMMA LogicsFacts ==
    /\ AndRecordURL = LogicTypes
    /\ \A m : AcceptableModel(m, DocumentedLogics) => AcceptableModel(m, AndRecordURL)
<1>1. AndRecordURL = LogicTypes
  BY DEF AndRecordURL, DocumentedLogics, LogicTypes, SingleLogics
<1>2. \A sf : Acceptable(sf, DocumentedLogics) => Acceptable(sf, AndRecordURL)
  BY DEF Acceptable, TypesFit, AndRecordURL
<1>3. \A m : AcceptableModel(m, DocumentedLogics) => AcceptableModel(m, AndRecordURL)
  BY <1>2 DEF AcceptableModel
<1> QED BY <1>1, <1>3

\* What is written is a JSON model: there is something to load.
LEMMA ParsedModel ==
    ASSUME NEW m \in YamlModels, Passes(m)
    PROVE  Loads(Parse(m))
<1>1. m.id \in STRING /\ m.label \in STRING /\ m.extend \in BOOLEAN
      /\ m.fields \in Seq(YamlFields)
  BY DEF YamlModels
<1>2. ~ParseFails(m) /\ ValidateModel(Parse(m))
  BY DEF Passes
<1>3. \A i \in DOMAIN m.fields : ParseField(m.fields[i]) \in Fields
  <2>1. \A i \in DOMAIN m.fields : m.fields[i] \in YamlFields
    BY <1>1
  <2>2. \A i \in DOMAIN m.fields : m.fields[i].id # ""
    BY <1>2 DEF ParseFails
  <2> QED BY <2>1, <2>2, ParsedField
<1> DEFINE fields == [i \in DOMAIN m.fields |-> ParseField(m.fields[i])]
<1>4. fields \in Seq(Fields)
  <2>1. PICK n \in Nat : DOMAIN m.fields = 1..n
    BY <1>1
  <2>2. fields \in [1..n -> Fields]
    BY <1>3, <2>1
  <2> QED BY <2>2, SeqOf, Zenon
<1>5. Parse(m) = [id |-> m.id, label |-> Or(m.label, m.id), extendable |-> m.extend,
                  fields |-> fields]
  BY DEF Parse
<1> HIDE DEF fields
<1>6. Parse(m) \in JsonModels
  <2>1. Or(m.label, m.id) \in STRING
    BY <1>1 DEF Or
  <2> DEFINE label == Or(m.label, m.id)
  <2> HIDE DEF label
  <2>2. [id |-> m.id, label |-> label, extendable |-> m.extend, fields |-> fields]
            \in JsonModels
    BY <1>1, <1>4, <2>1, Zenon DEF JsonModels, label
  <2> QED BY <1>5, <2>2 DEF label
<1> QED BY <1>2, <1>6, SchemaAssumption DEF Loads

-----------------------------------------------------------------------------
(* The tool and the service *)

\* A file that was written was found in order, and a rejected one was not; a file
\* is as it was found or holds what was written, unless a write failed; the tool
\* ends after the last file, and only then is its exit status known; the service
\* panics over a schema that does not load.
FileInv(f) ==
    /\ result[f] = "ok" => Passes(models[f]) /\ schemas[f] = Parse(models[f])
    /\ result[f] = "rejected" => ~Passes(models[f])
    /\ result[f] \in {"none", "rejected"} => schemas[f] = Old
    /\ result[f] = "ioerror" =>
           \/ schemas[f] \in {Old, Nil}
           \/ schemas[f] = Parse(models[f]) /\ Passes(models[f])

ToolInv ==
    /\ TypeOK
    /\ models \in [Files -> YamlModels]
    /\ \A f \in Files : FileInv(f)
    /\ exit # "none" =>
           /\ next = NumFiles + 1
           /\ (\E f \in Files : Failed(f)) => exit = "1"
    /\ service # "down" => exit # "none"
    /\ service = "panic" => \E f \in Files : ~Loads(schemas[f])

LEMMA ToolInit == Init => ToolInv
<1> SUFFICES ASSUME Init PROVE ToolInv
  OBVIOUS
<1>1. models \in [Files -> YamlModels]
  BY SchemaAssumption DEF Init
<1>2. TypeOK
  BY <1>1, SchemaAssumption DEF Init, TypeOK, Files
<1> QED BY <1>1, <1>2 DEF Init, ToolInv, FileInv

LEMMA ToolStep == ToolInv /\ [Next]_vars => ToolInv'
<1> SUFFICES ASSUME ToolInv, [Next]_vars PROVE ToolInv'
  OBVIOUS
<1>1. CASE GenerateFile
  <2>1. next \in Files /\ next' = next + 1
        /\ UNCHANGED <<models, exit, service>>
    BY <1>1 DEF GenerateFile
  <2>2. /\ exit = "none" /\ service = "down"
        /\ result[next] = "none" /\ schemas[next] = Old
        /\ next \in Nat /\ next <= NumFiles
    BY <2>1, SchemaAssumption DEF ToolInv, FileInv, TypeOK, Files
  <2>3. PICK outcome \in {"ok", "rejected", "ioerror"} :
          /\ result' = [result EXCEPT ![next] = outcome]
          /\ DOMAIN schemas' = Files
          /\ \A f \in Files : f # next => schemas'[f] = schemas[f]
          /\ outcome = "ok" => Passes(models[next]) /\ schemas'[next] = Parse(models[next])
          /\ outcome = "rejected" => ~Passes(models[next]) /\ schemas'[next] = Old
          /\ outcome = "ioerror" =>
                 \/ schemas'[next] \in {Old, Nil}
                 \/ schemas'[next] = Parse(models[next]) /\ Passes(models[next])
    <3>1. DOMAIN schemas = Files
      BY DEF ToolInv, TypeOK
    <3>2. CASE ReadFails
      BY <2>2, <3>1, <3>2 DEF ReadFails, Report
    <3>3. CASE Reject
      BY <2>2, <3>1, <3>3 DEF Reject, Report
    <3>4. CASE Write
      <4>1. /\ schemas' = [schemas EXCEPT ![next] = Parse(models[next])]
            /\ Passes(models[next]) /\ result' = [result EXCEPT ![next] = "ok"]
        BY <3>4 DEF Write, Report
      <4>2. "ok" \in {"ok", "rejected", "ioerror"} /\ "ok" # "rejected" /\ "ok" # "ioerror"
        OBVIOUS
      <4> QED BY <2>1, <3>1, <4>1, <4>2
    <3>5. CASE WriteFails
      <4>1. PICK left \in {schemas[next], Nil, Parse(models[next])} :
              schemas' = [schemas EXCEPT ![next] = left]
        BY <3>5 DEF WriteFails
      <4>2. Passes(models[next]) /\ result' = [result EXCEPT ![next] = "ioerror"]
        BY <3>5 DEF WriteFails, Report
      <4> QED BY <2>2, <3>1, <4>1, <4>2
    <3> QED BY <1>1, <3>2, <3>3, <3>4, <3>5 DEF GenerateFile
  <2>4. TypeOK'
    <3>1. result' \in [Files -> {"none", "ok", "rejected", "ioerror"}]
      BY <2>3 DEF ToolInv, TypeOK
    <3>2. \A f \in Files : result'[f] = "none" <=> f >= next'
      BY <2>1, <2>2, <2>3 DEF ToolInv, TypeOK, Files
    <3>3. next' \in 1..NumFiles + 1
      BY <2>1, <2>2, SchemaAssumption DEF Files
    <3> QED BY <2>1, <2>3, <3>1, <3>2, <3>3 DEF ToolInv, TypeOK
  <2>5. ASSUME NEW f \in Files
        PROVE  FileInv(f)'
    <3>1. CASE f = next
      <4>1. result'[f] = outcome /\ models' = models
        BY <2>1, <2>3, <3>1 DEF ToolInv, TypeOK
      <4> QED BY <2>3, <3>1, <4>1 DEF FileInv
    <3>2. CASE f # next
      <4>1. result'[f] = result[f] /\ schemas'[f] = schemas[f] /\ models' = models
        BY <2>1, <2>3, <3>2 DEF ToolInv, TypeOK
      <4> QED BY <4>1 DEF ToolInv, FileInv
    <3> QED BY <3>1, <3>2
  <2> QED BY <2>1, <2>2, <2>4, <2>5 DEF ToolInv
<1>2. CASE Finish
  BY <1>2 DEF Finish, ToolInv, TypeOK, FileInv, Failed
<1>3. CASE StartService
  BY <1>3 DEF StartService, ToolInv, TypeOK, FileInv, Failed
<1>4. CASE UNCHANGED vars
  BY <1>4 DEF vars, ToolInv, TypeOK, FileInv, Failed
<1> QED BY <1>1, <1>2, <1>3, <1>4 DEF Next

\* The inductive invariant of the schema tool and the start of the service.
THEOREM ToolInvariant == Spec => []ToolInv
<1> QED BY ToolInit, ToolStep, PTL DEF Spec

\* The tool reports on exactly the files it has come past, in any directory.
THEOREM TypeCorrect == Spec => []TypeOK
<1>1. ToolInv => TypeOK
  BY DEF ToolInv
<1> QED BY <1>1, ToolInvariant, PTL

\* parseYAML and the validator accept the YAML models data-model.md describes, and
\* beyond them only those that use record_url like one of its logic types, however
\* many fields and options they have.
THEOREM DocumentedAccepted == Spec => []AcceptsAsDocumented
<1>1. ToolInv => AcceptsAsDocumented
  <2> SUFFICES ASSUME ToolInv, NEW f \in Files
               PROVE  /\ AcceptableModel(models[f], DocumentedLogics) =>
                              result[f] # "rejected"
                      /\ result[f] = "ok" => AcceptableModel(models[f], AndRecordURL)
                      /\ result[f] = "rejected" =>
                             ~AcceptableModel(models[f], AndRecordURL)
    BY DEF AcceptsAsDocumented
  <2>1. FileInv(f) /\ models[f] \in YamlModels
    BY DEF ToolInv
  <2>2. Passes(models[f]) <=> AcceptableModel(models[f], AndRecordURL)
    BY <2>1, ModelAccepted, LogicsFacts
  <2> QED BY <2>1, <2>2, LogicsFacts DEF FileInv
<1> QED BY <1>1, ToolInvariant, PTL

\* Each field of a written schema shows, hides and preselects what the property
\* table of data-model.md promises of the YAML field it was made of.
THEOREM DocumentedGenerated == Spec => []GeneratesAsDocumented
<1>1. ToolInv => GeneratesAsDocumented
  <2> SUFFICES ASSUME ToolInv, NEW f \in Files, result[f] = "ok"
               PROVE  /\ Len(schemas[f].fields) = Len(models[f].fields)
                      /\ \A i \in DOMAIN models[f].fields :
                             AsDocumented(schemas[f].fields[i], models[f].fields[i])
    BY DEF GeneratesAsDocumented
  <2> DEFINE m == models[f]
  <2>1. m \in YamlModels /\ Passes(m) /\ schemas[f] = Parse(m)
    BY DEF ToolInv, FileInv
  <2>2. m.fields \in Seq(YamlFields)
    BY <2>1 DEF YamlModels
  <2>3. Parse(m).fields = [i \in DOMAIN m.fields |-> ParseField(m.fields[i])]
    BY DEF Parse
  <2>4. Len(Parse(m).fields) = Len(m.fields)
    BY <2>2, <2>3
  <2>5. ASSUME NEW i \in DOMAIN m.fields
        PROVE  AsDocumented(Parse(m).fields[i], m.fields[i])
    <3>1. /\ m.fields[i] \in YamlFields /\ m.fields[i].id # ""
          /\ ~(Listed(m.fields[i]) /\ Linked(m.fields[i]))
      <4>1. m.fields[i] \in YamlFields
        BY <2>2
      <4>2. ~ParseFails(m)
        BY <2>1 DEF Passes
      <4> HIDE DEF m
      <4> QED BY <4>1, <4>2 DEF ParseFails
    <3>2. ValidField(ParseField(m.fields[i]))
      BY <2>1, <2>3 DEF Passes, ValidateModel
    <3> QED BY <2>3, <3>1, <3>2, FieldAsDocumented
  <2> QED BY <2>1, <2>4, <2>5
<1> QED BY <1>1, ToolInvariant, PTL

\* The service panics at its start only if the tool had reported a failure: over a
\* file it left as it was found, or over one that a failed write broke off.
THEOREM CleanSchemasLoad == Spec => []CleanRunLoads
<1>1. ToolInv => CleanRunLoads
  <2> SUFFICES ASSUME ToolInv, service = "panic"
               PROVE  /\ exit = "1"
                      /\ \A f \in Files : ~Loads(schemas[f]) =>
                             \/ Failed(f) /\ schemas[f] = Old
                             \/ result[f] = "ioerror" /\ schemas[f] = Nil
    BY DEF CleanRunLoads
  <2>1. ASSUME NEW f \in Files, ~Loads(schemas[f])
        PROVE  /\ Failed(f)
               /\ \/ schemas[f] = Old
                  \/ result[f] = "ioerror" /\ schemas[f] = Nil
    <3>1. FileInv(f) /\ models[f] \in YamlModels
      BY DEF ToolInv
    <3>2. Passes(models[f]) => schemas[f] # Parse(models[f])
      BY <2>1, <3>1, ParsedModel
    <3>3. result[f] # "none"
      <4>1. next = NumFiles + 1
        BY DEF ToolInv
      <4> QED BY <4>1, SchemaAssumption DEF ToolInv, TypeOK, Files
    <3>4. result[f] \in {"rejected", "ioerror"}
      BY <3>1, <3>2, <3>3 DEF ToolInv, TypeOK, FileInv
    <3> QED BY <3>1, <3>2, <3>4 DEF FileInv, Failed
  <2>2. PICK f \in Files : ~Loads(schemas[f])
    BY DEF ToolInv
  <2>3. exit = "1"
    BY <2>1, <2>2 DEF ToolInv
  <2> QED BY <2>1, <2>3
<1> QED BY <1>1, ToolInvariant, PTL
=============================================================================
