------------------------------- MODULE Search -------------------------------
(***************************************************************************)
(* The parameters of a search (api/types.go), the query made of them and   *)
(* the records found (apps/salesforce/handler_search.go).  An empty or     *)
(* missing parameter is Empty; a name that IsValidFieldName refuses is any *)
(* value outside FieldIDs.  LastModifiedDate, which every query orders by  *)
(* and asks for, is left out.                                              *)
(***************************************************************************)
EXTENDS SObject, Sequences

CONSTANTS
    Empty,          \* the empty string
    DefaultTypes    \* <<Account, Contact, Lead>>

ASSUME SearchAssumption ==
    /\ DefaultTypes \in Seq(ObjectTypes)
    /\ Empty \notin FieldIDs \cup Texts \cup RecordIDs

IsValidFieldName(f) == f \in FieldIDs

ElementsOf(s) == {s[i] : i \in DOMAIN s}

-----------------------------------------------------------------------------
(* GetSearchParameters *)

\* object_type is read when there is no object_types.
RequestedTypes(p) == IF p.object_types = <<>> THEN p.object_type ELSE p.object_types

\* Mutant: a search by field is not held to one object type.
ParametersFieldOnly(p) ==
    /\ p.q # Empty
    /\ p.search_by = "field" => p.field # Empty

\* Anything else is answered with 400.
ParametersAccepted(p) ==
    /\ p.q # Empty
    /\ p.search_by = "field" => p.field # Empty /\ Len(RequestedTypes(p)) = 1

\* Two names separated by a comma, or none.
AssociationFields(p) ==
    IF Len(p.fields) = 2 /\ Empty \notin ElementsOf(p.fields) THEN p.fields
    ELSE <<Empty, Empty>>

\* returning has one entry per object type that was requested.
GetSearchParameters(p) ==
    [q |-> p.q, by |-> p.search_by, field |-> p.field,
     types |-> RequestedTypes(p),
     returning |-> [i \in DOMAIN RequestedTypes(p) |-> {}],
     limit |-> IF p.limit \in 1..10 THEN p.limit ELSE 10]

-----------------------------------------------------------------------------
(* The two handlers, up to the query *)

\* SearchHandler: all object types when none was requested.  400 for an object
\* type the app does not have and for a field that is no name.
SearchParameters(p) ==
    LET s == GetSearchParameters(p)
    IN  [s EXCEPT !.types = IF s.types = <<>> THEN DefaultTypes ELSE s.types]

SearchAccepted(p) ==
    /\ ParametersAccepted(p)
    /\ ElementsOf(RequestedTypes(p)) \subseteq ObjectTypes
    /\ p.field # Empty => IsValidFieldName(p.field)

\* SearchAssociationsHandler: of the one object type the two fields named.
AssociationParameters(p) ==
    [GetSearchParameters(p) EXCEPT !.returning = <<ElementsOf(AssociationFields(p))>>]

AssociationsAccepted(p) ==
    /\ ParametersAccepted(p)
    /\ Len(RequestedTypes(p)) = 1
    /\ ElementsOf(RequestedTypes(p)) \subseteq ObjectTypes
    /\ \A f \in ElementsOf(AssociationFields(p)) : IsValidFieldName(f)

-----------------------------------------------------------------------------
(* search *)

\* returning is indexed by the position of each object type.
IndexInRange(s) == s.field # Empty \/ Len(s.types) <= Len(s.returning)

\* By a field: one SELECT, of the first object type.  LIKE is for strings, and a
\* field that is not in the schema is taken for one.
SoqlQuery(s, schemas) ==
    [lang |-> "soql", q |-> s.q, scope |-> s.field, limit |-> s.limit,
     like |-> s.field \in schemas[s.types[1]] => KindOf[s.field] = "string",
     asked |-> [t \in {s.types[1]} |-> getSchemaAPIFields(schemas[t])]]

\* Otherwise one FIND over all of them, for the fields given or those of the schema.
SoslQuery(s, schemas) ==
    [lang |-> "sosl", q |-> s.q, limit |-> s.limit, like |-> FALSE,
     scope |-> IF s.by \in {"phone", "email"} THEN s.by ELSE "all",
     asked |-> [t \in ElementsOf(s.types) |->
                  LET given == UNION {s.returning[i] : i \in {j \in DOMAIN s.returning : s.types[j] = t}}
                  IN  IF given = {} THEN getSchemaAPIFields(schemas[t]) ELSE given]]

Query(s, schemas) ==
    IF s.field # Empty THEN SoqlQuery(s, schemas) ELSE SoslQuery(s, schemas)

\* The CRM refuses fields it does not have, a SELECT of nothing, and LIKE on
\* anything but text.
QueryAccepted(query) ==
    /\ \A t \in DOMAIN query.asked : Readable(t, query.asked[t])
    /\ query.lang = "soql" => \A t \in DOMAIN query.asked :
         /\ query.asked[t] # {}
         /\ query.scope \in CrmFields[t]
         /\ query.like
         /\ KindOf[query.scope] = "string"

InScope(query, f) ==
    IF query.lang = "soql" THEN f = query.scope
    ELSE query.scope = "all" \/ LogicOf[f] = query.scope

Matches(query, record) ==
    /\ record.type \in DOMAIN query.asked
    /\ \E f \in CrmFields[record.type] \ {IdField} :
         /\ KindOf[f] = "string"
         /\ InScope(query, f)
         /\ IF query.q = Empty THEN record.columns[Column(f)] # Null
            ELSE record.columns[Column(f)] = query.q

\* Up to limit of the matching records per object type, whichever come first;
\* records: [ids of the records there are -> CrmRecord].
Results(query, records) ==
    LET matching == {id \in DOMAIN records : Matches(query, records[id])}
        OfType(ids, t) == {id \in ids : records[id].type = t}
    IN  {ids \in SUBSET matching : \A t \in DOMAIN query.asked :
           \/ Cardinality(OfType(ids, t)) = query.limit
           \/ OfType(ids, t) = OfType(matching, t) /\ Cardinality(OfType(ids, t)) < query.limit}

\* What is told of a record found: what was asked for, under the logic the
\* schema gives it.  No name is "Unknown".
TextsOf(so, schema, logics) ==
    {so[f] : f \in {g \in schema \cap DOMAIN so : LogicOf[g] \in logics /\ so[g] \in Texts}}

ObjectInfo(id, record, asked, schema) ==
    LET so == ReplyOf(id, record, asked) IN
    [type |-> record.type,
     id |-> IF IdField \in asked THEN id ELSE Empty,
     phones |-> TextsOf(so, schema, {"phone"}),
     emails |-> TextsOf(so, schema, {"email"}),
     title |-> TextsOf(so, schema, {"first_name", "middle_name", "last_name"})]
=============================================================================
