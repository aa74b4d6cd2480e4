------------------------------ MODULE SObject ------------------------------
(***************************************************************************)
(* What PBXware and the CRM call a record, and the conversions between     *)
(* them (apps/salesforce/helpers.go).  PBXware knows a record by the       *)
(* fields of the client's data schema: a lookup is a nested object, a date *)
(* a UNIX time.  The CRM keeps columns: a lookup is the column f + "Id", a *)
(* date an ISO text.  A schema is here the set of its field ids; the type  *)
(* and logic a field was stored with are KindOf and LogicOf.               *)
(***************************************************************************)
EXTENDS Repo

CONSTANTS
    KindOf,       \* [FieldIDs -> BaseType]
    LogicOf,      \* [FieldIDs -> LogicType]
    IdField,      \* the field "Id"
    CrmFields,    \* [ObjectTypes -> SUBSET FieldIDs], the fields the CRM has
    RecordIDs,    \* ids of CRM records
    Texts,        \* strings other than record ids
    Times,        \* UNIX times
    Null          \* the JSON value null

Kinds == {"string", "timestamp", "to_one", "to_many"}
Logics == {"id", "phone", "email", "first_name", "middle_name", "last_name", "other"}

ASSUME SObjectAssumption ==
    /\ KindOf \in [FieldIDs -> Kinds]
    /\ LogicOf \in [FieldIDs -> Logics]
    /\ IdField \in FieldIDs
    /\ KindOf[IdField] = "string"
    /\ CrmFields \in [ObjectTypes -> SUBSET FieldIDs]
    /\ \A t \in ObjectTypes : IdField \in CrmFields[t]
    /\ 0 \in Times /\ Times \subseteq Nat
    /\ \A f, g \in FieldIDs : <<f, "Id">> # g
    /\ Null \notin RecordIDs
    /\ \A n \in Times : Null # [iso |-> n] /\ Null # [unix |-> n]
    /\ \A id \in RecordIDs : Null # [object |-> id]

-----------------------------------------------------------------------------
(* Values *)

Number(n) == [unix |-> n]           \* a JSON number
DateTime(n) == [iso |-> n]          \* the text of that time
Association(id) == [object |-> id]  \* {"Id": id, "Name": ...}

Numbers == {Number(n) : n \in Times}
DateTimes == {DateTime(n) : n \in Times}
Associations == {Association(id) : id \in RecordIDs}

CrmValues == Texts \cup RecordIDs \cup DateTimes \cup {Null}
JsonValues == CrmValues \cup Numbers \cup Associations

\* The CRM's name of a field.  A lookup f is written as f + "Id" and asked for as
\* f.Id and f.Name: no name that PBXware gives, so one value stands for both.
Lookup(f) == <<f, "Id">>
Column(f) == IF KindOf[f] \in {"to_one", "to_many"} THEN Lookup(f) ELSE f

Columns(t) == {Column(f) : f \in {g \in CrmFields[t] : KindOf[g] # "to_many"}} \ {IdField}

\* A record of the CRM; its id is its key.
CrmRecord == UNION {[type: {t}, columns: [Columns(t) -> CrmValues]] : t \in ObjectTypes}

-----------------------------------------------------------------------------
(* helpers.go *)

\* A text in one of two formats, anything else is 0.
convertToUNIXTimestamp(v) == IF v \in DateTimes THEN v.iso ELSE 0

\* Mutant: a time in seconds is taken for milliseconds.
FromMilliseconds(n) == DateTime(n \div 1000)

convertFromUNIXTimestamp(n) == DateTime(n)

\* Mutant: lookups are taken for lists and skipped.
APIFieldsWithoutLookups(schema) == {f \in schema : KindOf[f] \notin {"to_one", "to_many"}}

\* The names asked of the CRM.
getSchemaAPIFields(schema) == {Column(f) : f \in {g \in schema : KindOf[g] # "to_many"}}

\* The name and the value under which a field of a body is sent.
SentName(schema, f) == IF f \in schema THEN Column(f) ELSE f

\* Mutant: the value is sent as PBXware gave it.
SentAsGiven(schema, f, v) == v

SentValue(schema, f, v) ==
    IF f \in schema /\ KindOf[f] = "timestamp" /\ v \in Numbers
    THEN convertFromUNIXTimestamp(v.unix) ELSE v

\* The body of a create or update, as it is sent: no Id, a lookup under its
\* column, a date as text; a field the schema does not have goes as it is.
apiSObject(schema, data) ==
    [col \in {SentName(schema, f) : f \in DOMAIN data \ {IdField}} |->
        LET f == CHOOSE g \in DOMAIN data \ {IdField} : SentName(schema, g) = col
        IN  SentValue(schema, f, data[f])]

\* An empty lookup has no object and is left out, and so is every to_many field.
Shown(so, f) ==
    /\ f \in DOMAIN so
    /\ KindOf[f] # "to_many"
    /\ KindOf[f] = "to_one" => so[f] \in Associations

\* A record of the CRM as PBXware gets it.
formatSObject(so, schema) ==
    [f \in {g \in schema : Shown(so, g)} |->
        IF KindOf[f] = "timestamp" THEN Number(convertToUNIXTimestamp(so[f])) ELSE so[f]]

-----------------------------------------------------------------------------
(* The CRM's side *)

\* A value that fits the field: a lookup takes an id, a date its text.
Fits(f, v) ==
    \/ v = Null
    \/ KindOf[f] = "to_one" /\ v \in RecordIDs
    \/ KindOf[f] = "timestamp" /\ v \in DateTimes
    \/ KindOf[f] = "string" /\ v \in Texts

\* A write is taken whole, or refused for a column that is not there or a value
\* that does not fit.
Accepts(t, columns) ==
    /\ DOMAIN columns \subseteq Columns(t)
    /\ \A f \in CrmFields[t] :
         Column(f) \in DOMAIN columns => Fits(f, columns[Column(f)])

\* A query that names a field the CRM does not have is refused.
Readable(t, asked) == asked \subseteq Columns(t) \cup {IdField}

\* The reply for the names asked; an empty lookup is null.
ReplyOf(id, record, asked) ==
    [f \in {g \in CrmFields[record.type] : Column(g) \in asked} |->
        IF f = IdField THEN id
        ELSE IF KindOf[f] = "to_one" /\ record.columns[Column(f)] # Null
        THEN Association(record.columns[Column(f)])
        ELSE record.columns[Column(f)]]
=============================================================================
