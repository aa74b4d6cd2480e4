----------------------------- MODULE SchemaTool -----------------------------
(***************************************************************************)
(* The data models of the CRM objects: the schema tool, which compiles the *)
(* YAML files of a directory to JSON files one by one (tools/schema), the  *)
(* rules a JSON model has to pass (model/dataschema), and the start of the *)
(* service, which loads the JSON files and panics over an invalid one.     *)
(* JSON text and error messages are abstracted; nil pointers are Nil, so   *)
(* is a file that holds no JSON model, and a property left out is the      *)
(* empty string or FALSE, as in the Go structs.                            *)
(***************************************************************************)
EXTENDS Naturals, Sequences, FiniteSets

CONSTANTS
    NumFiles,  \* YAML files in the directory, in the order ReadDir lists them
    Inputs,    \* what they may contain: a set of sequences of YAML models
    Old,       \* the JSON model an earlier run, or an editor, left behind
    Nil        \* the nil pointer, and a file that does not unmarshal

Files == 1..NumFiles

BaseTypes == {"string", "integer", "float", "bool", "timestamp", "to_one", "to_many"}

\* Logic types only one field of a model may have.
SingleLogics == {"id", "title", "first_name", "last_name", "middle_name"}
LogicTypes == SingleLogics \cup {"other", "phone", "email", "url", "record_url"}

\* The base types that go with an edit type.
EditableAs ==
    [text |-> {"string", "integer", "float"},
     textarea |-> {"string"},
     list |-> {"string"},
     checkbox |-> {"bool"},
     association |-> {"to_one", "to_many"},
     datetime |-> {"timestamp"}]

\* A YAML model, of which any property may be empty or left out.
YamlOptions == [id : STRING, label : STRING]
Items == [id : STRING, value : STRING]
Associations == [object : STRING, fields : Items]
YamlFields ==
    [id : STRING, label : STRING, type : STRING, logic : STRING, edit : STRING,
     default : STRING, required : BOOLEAN, locked : BOOLEAN, readonly : BOOLEAN,
     multi : BOOLEAN, list : Seq(YamlOptions), association : Associations \cup {Nil}]
YamlModels ==
    [id : STRING, label : STRING, extend : BOOLEAN, fields : Seq(YamlFields)]

\* The parts of a JSON model that are pointers in the Go structs.
Flags == [required : BOOLEAN, editable : BOOLEAN,
          view : BOOLEAN, edit : BOOLEAN, create : BOOLEAN]
Lists == [multiselect : BOOLEAN, default : Items, items : Seq(Items)]
Fields ==
    [id : STRING, label : STRING, type : STRING \cup BaseTypes,
     logic : STRING \cup LogicTypes, edit : STRING \cup DOMAIN EditableAs,
     visibility : Flags, list : Lists \cup {Nil}, association : Associations \cup {Nil}]

JsonModels ==
    [id : STRING, label : STRING, extendable : BOOLEAN, fields : Seq(Fields)]

ASSUME SchemaAssumption ==
    /\ NumFiles \in Nat
    /\ Inputs \subseteq [Files -> YamlModels]
    /\ Nil \notin Items \cup Associations \cup Lists \cup Fields \cup JsonModels

VARIABLES
    models,   \* [Files -> YAML model]
    schemas,  \* [Files -> JSON model or Nil]
    next,     \* the file runOnFiles turns to next
    result,   \* [Files -> what generate reported of the file]
    exit,     \* the exit status of the tool
    service   \* whether the service came up with the schemas

vars == <<models, schemas, next, result, exit, service>>

-----------------------------------------------------------------------------
(* parseYAML *)

Or(text, default) == IF text = "" THEN default ELSE text

\* Mutant: a required field counts as shown in the forms only if not readonly.
VisibilityReadonly(sf) ==
    LET notID == sf.logic # "id"
        inForms == notID /\ ~sf.readonly
    IN  [required |-> sf.required,
         editable |-> notID /\ ~sf.locked /\ ~sf.readonly,
         view |-> notID, edit |-> inForms, create |-> inForms]

\* Required overrides readonly in the forms, and nothing shows an id.
Visibility(sf) ==
    LET notID == sf.logic # "id"
        inForms == notID /\ (~sf.readonly \/ sf.required)
    IN  [required |-> sf.required,
         editable |-> notID /\ ~sf.locked /\ ~sf.readonly,
         view |-> notID, edit |-> inForms, create |-> inForms]

InferredEdit(type) ==
    CASE type = "bool" -> "checkbox"
      [] type = "timestamp" -> "datetime"
      [] type \in {"to_one", "to_many"} -> "association"
      [] OTHER -> "text"

\* Mutant: the default is taken over as it is written, found or not.
DefaultAsWritten(sf, items) == [id |-> Or(sf.default, items[1].id), value |-> sf.default]

\* The last item with the id given as default, or else the first item.
DefaultItem(sf, items) ==
    LET matching == {i \in DOMAIN items : items[i].id = sf.default}
    IN  IF sf.default = "" \/ matching = {}
        THEN items[1]
        ELSE items[CHOOSE i \in matching : \A j \in matching : j <= i]

ListOf(sf) ==
    LET items == [i \in DOMAIN sf.list |->
                    [id |-> sf.list[i].id, value |-> Or(sf.list[i].label, sf.list[i].id)]]
    IN  [multiselect |-> sf.multi, default |-> DefaultItem(sf, items), items |-> items]

Listed(sf) == sf.list # <<>>
Linked(sf) == sf.association # Nil

\* A list and an association decide the types of their field, whatever it says.
ParseField(sf) ==
    LET type == Or(sf.type, "string")
    IN  [id |-> sf.id,
         label |-> Or(sf.label, sf.id),
         type |-> IF Linked(sf) THEN IF sf.multi THEN "to_many" ELSE "to_one"
                  ELSE IF Listed(sf) THEN "string" ELSE type,
         logic |-> IF Listed(sf) THEN "other" ELSE Or(sf.logic, "other"),
         edit |-> IF Linked(sf) THEN "association"
                  ELSE IF Listed(sf) THEN "list" ELSE Or(sf.edit, InferredEdit(type)),
         visibility |-> Visibility(sf),
         list |-> IF Listed(sf) THEN ListOf(sf) ELSE Nil,
         association |-> sf.association]

ParseFails(m) ==
    \/ m.id = ""
    \/ \E i \in DOMAIN m.fields :
         \/ m.fields[i].id = ""
         \/ Listed(m.fields[i]) /\ Linked(m.fields[i])

Parse(m) ==
    [id |-> m.id, label |-> Or(m.label, m.id), extendable |-> m.extend,
     fields |-> [i \in DOMAIN m.fields |-> ParseField(m.fields[i])]]

-----------------------------------------------------------------------------
(* The validator: whether it finds an error, in whichever order it looks *)

ValidTypes(base, logic, edit) ==
    /\ base \in BaseTypes
    /\ logic \in LogicTypes
    /\ logic # "other" => base = "string"
    /\ edit \in DOMAIN EditableAs /\ base \in EditableAs[edit]

ValidVisibility(logic, vis) ==
    CASE logic = "record_url" -> TRUE
      [] logic = "id" -> \A flag \in DOMAIN vis : ~vis[flag]
      [] OTHER -> /\ vis.view \/ vis.create \/ vis.edit
                  /\ vis.required => vis.create /\ vis.edit

ValidItem(i) == i # Nil /\ i.id # "" /\ i.value # ""

ValidList(l) ==
    /\ l # Nil
    /\ ValidItem(l.default)
    /\ l.items # <<>>
    /\ \A i \in DOMAIN l.items : ValidItem(l.items[i])

ValidAssociation(a) == a # Nil /\ a.object # "" /\ ValidItem(a.fields)

ValidField(f) ==
    /\ f # Nil /\ f.id # "" /\ f.label # ""
    /\ ValidTypes(f.type, f.logic, f.edit)
    /\ ValidVisibility(f.logic, f.visibility)
    /\ f.edit = "list" => ValidList(f.list)
    /\ f.type \in {"to_one", "to_many"} => ValidAssociation(f.association)

HasLogic(m, logic) == {i \in DOMAIN m.fields : m.fields[i].logic = logic}

ValidateModel(m) ==
    /\ m.id # "" /\ m.label # "" /\ m.fields # <<>>
    /\ \A i \in DOMAIN m.fields : ValidField(m.fields[i])
    /\ \A logic \in SingleLogics : Cardinality(HasLogic(m, logic)) <= 1
    /\ HasLogic(m, "id") # {}

-----------------------------------------------------------------------------
(* generate, and the start of the service *)

Init ==
    /\ models \in Inputs
    /\ schemas = [f \in Files |-> Old]
    /\ next = 1
    /\ result = [f \in Files |-> "none"]
    /\ exit = "none"
    /\ service = "down"

Report(outcome) == result' = [result EXCEPT ![next] = outcome]

\* The YAML file is not read.
ReadFails ==
    /\ Report("ioerror")
    /\ UNCHANGED schemas

Passes(m) == ~ParseFails(m) /\ ValidateModel(Parse(m))

\* parseYAML or the validator found an error; the JSON file is not touched.
Reject ==
    /\ ~Passes(models[next])
    /\ Report("rejected")
    /\ UNCHANGED schemas

Write ==
    /\ Passes(models[next])
    /\ schemas' = [schemas EXCEPT ![next] = Parse(models[next])]
    /\ Report("ok")

\* os.WriteFile truncates the JSON file before it writes: it fails before that,
\* with a part of the model written, or with all but the last line feed.
WriteFails ==
    /\ Passes(models[next])
    /\ \E left \in {schemas[next], Nil, Parse(models[next])} :
           schemas' = [schemas EXCEPT ![next] = left]
    /\ Report("ioerror")

\* Mutant: the loop ends at the first file that fails.
GenerateStops ==
    /\ next \in Files
    /\ \/ Write /\ next' = next + 1
       \/ (ReadFails \/ Reject \/ WriteFails) /\ next' = NumFiles + 1
    /\ UNCHANGED <<models, exit, service>>

\* Mutant: what is parsed is written without a call of ValidateModel.
GenerateUnchecked ==
    /\ next \in Files
    /\ IF ParseFails(models[next])
       THEN UNCHANGED schemas /\ Report("rejected")
       ELSE schemas' = [schemas EXCEPT ![next] = Parse(models[next])] /\ Report("ok")
    /\ next' = next + 1
    /\ UNCHANGED <<models, exit, service>>

\* Whatever became of a file, the next one has its turn.
GenerateFile ==
    /\ next \in Files
    /\ ReadFails \/ Reject \/ Write \/ WriteFails
    /\ next' = next + 1
    /\ UNCHANGED <<models, exit, service>>

Failed(f) == result[f] \in {"rejected", "ioerror"}

Finish ==
    /\ next = NumFiles + 1
    /\ exit = "none"
    /\ exit' = IF \E f \in Files : Failed(f) THEN "1" ELSE "0"
    /\ UNCHANGED <<models, schemas, next, result, service>>

Loads(schema) == schema # Nil /\ ValidateModel(schema)

\* MustLoad, for every schema embedded in the binary.
StartService ==
    /\ exit # "none"
    /\ service = "down"
    /\ service' = IF \A f \in Files : Loads(schemas[f]) THEN "up" ELSE "panic"
    /\ UNCHANGED <<models, schemas, next, result, exit>>

Next == GenerateFile \/ Finish \/ StartService

Spec == Init /\ [][Next]_vars
-----------------------------------------------------------------------------
(* What docs/data-model.md tells the author of a YAML file *)

\* The tables of logic types, and what the validator knows besides.
DocumentedLogics ==
    {"id", "first_name", "last_name", "middle_name", "title",
     "phone", "email", "url", "other"}
AndRecordURL == DocumentedLogics \cup {"record_url"}

\* The types of a field that has neither list nor association.
TypesFit(sf, logics) ==
    LET type == Or(sf.type, "string")
    IN  /\ type \in BaseTypes \ {"to_one", "to_many"}
        /\ sf.edit = "" \/ (sf.edit \in DOMAIN EditableAs \ {"list", "association"}
                             /\ type \in EditableAs[sf.edit])
        /\ sf.logic \in {"", "other"} \/ (sf.logic \in logics /\ type = "string")

\* When a field with one of these logic types is in order.  What is written about
\* the types of a list, or the type of an association, does not matter, and labels
\* may be left out.
Acceptable(sf, logics) ==
    /\ sf.id # ""
    /\ Listed(sf) => /\ ~Linked(sf)
                     /\ \A i \in DOMAIN sf.list : sf.list[i].id # ""
                     /\ sf.logic # "id"
    /\ Linked(sf) => /\ sf.association.object # ""
                     /\ sf.association.fields.id # "" /\ sf.association.fields.value # ""
                     /\ sf.logic \in {"", "other"}
    /\ ~Listed(sf) /\ ~Linked(sf) =>
           TypesFit(sf, logics) /\ (sf.logic = "id" => ~sf.required)

\* The fields that count for the rule of one field per logic type.
Carries(m, logic) == {i \in DOMAIN m.fields : m.fields[i].logic = logic /\ ~Listed(m.fields[i])}

AcceptableModel(m, logics) ==
    /\ m.id # ""
    /\ \A i \in DOMAIN m.fields : Acceptable(m.fields[i], logics)
    /\ Cardinality(Carries(m, "id")) = 1
    /\ \A logic \in SingleLogics : Cardinality(Carries(m, logic)) <= 1

\* The property table of the YAML format, about the field made of sf.
AsDocumented(f, sf) ==
    /\ sf.required => f.visibility.create /\ f.visibility.edit
    /\ sf.readonly /\ ~sf.required => ~f.visibility.create /\ ~f.visibility.edit
    /\ sf.readonly \/ sf.locked => ~f.visibility.editable
    /\ f.logic # "id" => f.visibility.view
    /\ Listed(sf) => /\ \E i \in DOMAIN f.list.items : f.list.items[i] = f.list.default
                     /\ sf.default \in {sf.list[i].id : i \in DOMAIN sf.list} \ {""} =>
                            f.list.default.id = sf.default
                     /\ sf.default = "" => f.list.default = f.list.items[1]
    /\ sf.multi /\ Listed(sf) => f.list.multiselect
    /\ sf.multi /\ Linked(sf) => f.type = "to_many"

-----------------------------------------------------------------------------
(* Properties *)

\* The type invariant: the tool reports on the files it has come past.
TypeOK ==
    /\ DOMAIN models = Files
    /\ DOMAIN schemas = Files
    /\ next \in 1..NumFiles + 1
    /\ result \in [Files -> {"none", "ok", "rejected", "ioerror"}]
    /\ \A f \in Files : result[f] = "none" <=> f >= next
    /\ exit \in {"none", "0", "1"}
    /\ service \in {"down", "up", "panic"}

\* The inference rules and the validator together accept every YAML model that
\* data-model.md describes, and beyond these only what it would describe if its
\* tables listed the logic type record_url; a file is rejected for nothing else.
AcceptsAsDocumented ==
    \A f \in Files :
        /\ AcceptableModel(models[f], DocumentedLogics) => result[f] # "rejected"
        /\ result[f] = "ok" => AcceptableModel(models[f], AndRecordURL)
        /\ result[f] = "rejected" => ~AcceptableModel(models[f], AndRecordURL)

\* What is written shows, hides and preselects what data-model.md promises.
GeneratesAsDocumented ==
    \A f \in Files : result[f] = "ok" =>
        /\ Len(schemas[f].fields) = Len(models[f].fields)
        /\ \A i \in DOMAIN models[f].fields :
               AsDocumented(schemas[f].fields[i], models[f].fields[i])

\* A service does not panic over schemas that a clean run of the tool left
\* behind.  When it does, the tool had reported the file: a rejected one is as it
\* was found, but a write that failed may have taken the old schema with it.
CleanRunLoads ==
    service = "panic" =>
        /\ exit = "1"
        /\ \A f \in Files : ~Loads(schemas[f]) =>
               \/ Failed(f) /\ schemas[f] = Old
               \/ result[f] = "ioerror" /\ schemas[f] = Nil
=============================================================================
