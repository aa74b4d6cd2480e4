---------------------------- MODULE MCSchemaTool ----------------------------
(* Instances of SchemaTool for TLC. *)
EXTENDS SchemaTool

\* A field of which nothing is written but its id.
Bare == [id |-> "Name", label |-> "", type |-> "", logic |-> "", edit |-> "",
         default |-> "", required |-> FALSE, locked |-> FALSE, readonly |-> FALSE,
         multi |-> FALSE, list |-> <<>>, association |-> Nil]

IdField == [Bare EXCEPT !.id = "Id", !.logic = "id"]
Title == [Bare EXCEPT !.logic = "title"]

Option(id, label) == [id |-> id, label |-> label]
Account(value) == [object |-> "Account", fields |-> [id |-> "Id", value |-> value]]

\* What a field says about its options or its association.
Kinds ==
    {Bare,
     [Bare EXCEPT !.association = Account("Name"), !.multi = TRUE],
     [Bare EXCEPT !.association = Account("")]}
    \cup
    {[Bare EXCEPT !.list = options, !.default = default] :
        options \in {<<Option("Hot", "")>>,
                     <<Option("Hot", ""), Option("Cold", "cold")>>,
                     <<Option("Hot", ""), Option("", "cold")>>},
        default \in {"", "Cold"}}
    \cup
    {[Bare EXCEPT !.list = <<Option("Hot", "")>>, !.association = Account("Name")]}

\* Every combination of types and visibility with these.
FieldsToTry ==
    {[kind EXCEPT !.type = type, !.logic = logic, !.edit = edit,
                  !.required = required, !.locked = locked, !.readonly = readonly] :
        kind \in Kinds,
        type \in {"", "float", "bool", "timestamp", "to_one", "money"},
        logic \in {"", "id", "title", "phone", "record_url", "colour"},
        edit \in {"", "text", "textarea", "checkbox", "datetime", "list", "association",
                  "slider"},
        required \in BOOLEAN, locked \in BOOLEAN, readonly \in BOOLEAN}

Model(fields) == [id |-> "Contact", label |-> "", extend |-> FALSE, fields |-> fields]

\* One file with a field to try, and files with other faults, next to a file
\* that is in order and one that is not.
Directories ==
    {<<Model(<<IdField, field>>), Model(second)>> :
        field \in FieldsToTry, second \in {<<IdField, Title>>, <<Bare>>}}
    \cup
    {<<Model(<<IdField>>), model>> :
        model \in {Model(<<>>), Model(<<IdField, Title, Title>>),
                   Model(<<IdField, IdField>>), Model(<<IdField, [Bare EXCEPT !.id = ""]>>),
                   [Model(<<IdField>>) EXCEPT !.id = ""]}}

\* A schema written by hand, with a field that has no label.
HandWritten ==
    [id |-> "Contact", label |-> "Contact", extendable |-> FALSE,
     fields |-> <<[ParseField(IdField) EXCEPT !.label = ""]>>]
=============================================================================
