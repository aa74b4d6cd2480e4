------------------------------- MODULE Records -------------------------------
(***************************************************************************)
(* The calls that reach the CRM (apps/salesforce): get, create and update  *)
(* of an object, create-task, search, associations, and the routing        *)
(* endpoint of the custom source.  A call loads the data schemas it needs, *)
(* one query each, obtains a token and makes a request to the CRM; routing *)
(* loads none and makes two requests.  The schemas are those of            *)
(* DataFields, whose handlers run at the same time, and CRM users edit     *)
(* and delete records.                                                     *)
(***************************************************************************)
EXTENDS DataFields, Search

CONSTANTS
    Calls,        \* calls that may run at once
    Requests,     \* what PBXware may ask
    FirstRecord,  \* the record the CRM holds at first
    AccountType,  \* the object type "Account"
    Gone,         \* a deleted record
    UserValues,   \* bound: what users of the CRM enter
    MaxInFlight,  \* bound: calls and custom-fields handlers at once
    MaxChanges    \* bound: changes of the CRM, by writes and by its users

ASSUME RecordsAssumption ==
    /\ \A t \in ObjectTypes : IdField \in BaseFields[t]
    /\ FirstRecord \in UNION {[I -> CrmRecord] : I \in SUBSET RecordIDs}
    /\ \A id \in DOMAIN FirstRecord : \A f \in CrmFields[FirstRecord[id].type] :
         Column(f) \in Columns(FirstRecord[id].type)
           => Fits(f, FirstRecord[id].columns[Column(f)])
    /\ NoRow # Gone
    /\ {NoRow, Gone} \cap CrmRecord = {}
    /\ NoRow \notin RecordIDs
    /\ UserValues \subseteq CrmValues
    /\ MaxChanges \in Nat
    /\ \A req \in Requests :
         /\ req.op \in {"get", "create", "update", "task", "search", "associations", "route"}
         /\ req.op \in {"get", "create", "update"} => req.type \in ObjectTypes
         /\ req.op \in {"get", "update"} => req.id \in RecordIDs
         /\ req.op = "get" => req.fields \subseteq FieldIDs
         /\ req.op = "search" =>  \* a list, of whatever was sent
              DOMAIN RequestedTypes(req.params) = 1..Len(RequestedTypes(req.params))
         /\ req.op \in {"create", "update"} =>
              req.data \in UNION {[F -> JsonValues] : F \in SUBSET FieldIDs}

VARIABLES
    crm,          \* [RecordIDs -> CrmRecord, Gone or NoRow]
    changes,      \* changes of crm so far
    call          \* [Calls -> Call]

crmVars == <<crm, changes>>
recordVars == <<crmVars, call>>
allVars == <<vars, recordVars>>

NoRequest == [op |-> "none"]
NoFieldsRead == [f \in {} |-> Null]

ReadRecord == UNION {[F -> JsonValues] : F \in SUBSET FieldIDs}
Info == [type: ObjectTypes, id: RecordIDs \cup {Empty}, phones: SUBSET Texts,
         emails: SUBSET Texts, title: SUBSET Texts]

\* todo: object types whose schema is not loaded yet; found: the record a route
\* found, or that was created or updated; moved (history): that record changed
\* since; code, record, infos: the answer.
Call ==
    [pc: {"idle", "prepare", "crm", "done"},
     client: ClientIDs \cup {NoRow},
     req: Requests \cup {NoRequest},
     todo: SUBSET ObjectTypes,
     schemas: [ObjectTypes -> SUBSET SchemaRow],
     found: RecordIDs \cup {NoRow},
     moved: BOOLEAN,
     code: {"none", "200", "201", "400", "403", "404", "500", "aborted"},
     record: ReadRecord,
     infos: SUBSET Info]

NoCall ==
    [pc |-> "idle", client |-> NoRow, req |-> NoRequest, todo |-> {},
     schemas |-> [t \in ObjectTypes |-> {}], found |-> NoRow, moved |-> FALSE,
     code |-> "none", record |-> NoFieldsRead, infos |-> {}]

Exists(id) == crm[id] \notin {NoRow, Gone}

FieldsOf(rows) == {r.field : r \in rows}
SchemaOf(r, t) == FieldsOf(r.schemas[t])
SchemasOf(r) == [t \in ObjectTypes |-> SchemaOf(r, t)]

RecordsInit ==
    /\ clients \in [ClientIDs -> [name: Names, secret: {1}, app: {"", "Salesforce"},
                                  status: {"ACTIVE", "ROUTING"}]]
    /\ \A c \in ClientIDs : clients[c].app = "" <=> clients[c].status = "ROUTING"
    /\ \A c, d \in ClientIDs : clients[c].name = clients[d].name => c = d
    /\ users = [a \in Accounts |-> NoRow]
    /\ tokens = [a \in Accounts |-> NoRow]
    /\ dataSchemas = [c \in ClientIDs |-> {}]
    /\ handler = [h \in Handlers |-> Idle]
    /\ crm = [id \in RecordIDs |-> IF id \in DOMAIN FirstRecord THEN FirstRecord[id] ELSE NoRow]
    /\ changes = 0
    /\ call = [k \in Calls |-> NoCall]

-----------------------------------------------------------------------------
(* The handlers, up to their first query *)

InFlight == Cardinality({h \in Handlers : handler[h] # Idle})
              + Cardinality({k \in Calls : call[k] # NoCall})

Receives(k, op, req) ==
    /\ call[k] = NoCall
    /\ InFlight < MaxInFlight
    /\ req.op = op
    /\ UNCHANGED <<vars, crmVars>>

Start(k, c, req, types) ==
    call' = [call EXCEPT ![k] = [NoCall EXCEPT
               !.pc = "prepare", !.client = c, !.req = req, !.todo = types]]

Refuse(k, c, req, code) ==
    call' = [call EXCEPT ![k] = [NoCall EXCEPT
               !.pc = "done", !.client = c, !.req = req, !.code = code]]

\* The object type is not checked: the CRM refuses what it does not have.  A
\* create or update whose body is not JSON is refused.
ObjectHandler(k, c, req) ==
    /\ \E op \in {"get", "create", "update"} : Receives(k, op, req)
    /\ \/ Start(k, c, req, {req.type})
       \/ req.op # "get" /\ Refuse(k, c, req, "400")

CreateTaskHandler(k, c, req) ==
    /\ Receives(k, "task", req)
    /\ IF req.subject # Empty /\ req.id # Empty /\ req.type \in ObjectTypes
       THEN Start(k, c, req, {})
       ELSE Refuse(k, c, req, "400")

SearchHandler(k, c, req) ==
    /\ Receives(k, "search", req)
    /\ IF SearchAccepted(req.params)
       THEN Start(k, c, req, ElementsOf(SearchParameters(req.params).types))
       ELSE Refuse(k, c, req, "400")

SearchAssociationsHandler(k, c, req) ==
    /\ Receives(k, "associations", req)
    /\ IF AssociationsAccepted(req.params)
       THEN Start(k, c, req, ElementsOf(AssociationParameters(req.params).types))
       ELSE Refuse(k, c, req, "400")

\* Mutant: caller_input may be missing.
RoutingAcceptedEmpty(req) ==
    /\ req.type \in ObjectTypes \ {AccountType}
    /\ \A f \in req.api_fields : IsValidFieldName(f)
    /\ IF req.input_target_field # Empty
       THEN IsValidFieldName(req.input_target_field)
       ELSE req.number # Empty

\* What the routing endpoint answers with 400 otherwise.
RoutingAccepted(req) ==
    /\ req.type \in ObjectTypes \ {AccountType}
    /\ \A f \in req.api_fields : IsValidFieldName(f)
    /\ IF req.input_target_field # Empty
       THEN IsValidFieldName(req.input_target_field) /\ req.caller_input # Empty
       ELSE req.number # Empty

\* The client is named by a header; its status is read here, once.
customSourceRoutingHandler(k, c, req) ==
    /\ Receives(k, "route", req)
    /\ IF clients[c] = NoRow \/ clients[c].status # "ROUTING" THEN Refuse(k, c, req, "403")
       ELSE IF RoutingAccepted(req) THEN Start(k, c, req, {})
       ELSE Refuse(k, c, req, "400")

-----------------------------------------------------------------------------
(* Schemas, query and token *)

Becomes(k, next) ==
    /\ call' = [call EXCEPT ![k] = next]
    /\ UNCHANGED <<vars, crmVars>>

\* One query per object type.
LoadFields(k, t) ==
    LET r == call[k] IN
    /\ r.pc = "prepare"
    /\ t \in r.todo
    /\ Becomes(k, [r EXCEPT !.todo = r.todo \ {t},
                            !.schemas[t] = DataSchemasLoad(t, r.client, FALSE)])

ParametersOf(req) ==
    IF req.op = "search" THEN SearchParameters(req.params) ELSE AssociationParameters(req.params)

Searches(r) == r.req.op \in {"search", "associations"}
Panics(r) == Searches(r) /\ ~IndexInRange(ParametersOf(r.req))

\* What a call keeps to itself is dropped when it answers.
Answered(r, code) ==
    [r EXCEPT !.pc = "done", !.todo = {}, !.schemas = NoCall.schemas, !.code = code]

\* The index is out of range, and net/http closes the connection.
search_Panics(k) ==
    LET r == call[k] IN
    /\ r.pc = "prepare" /\ r.todo = {}
    /\ Panics(r)
    /\ Becomes(k, Answered(r, "aborted"))

\* Mutant: the token is fetched while the schemas are being loaded.
TokenEarly(k) ==
    LET r == call[k] IN
    /\ r.pc = "prepare"
    /\ ~Panics(r)
    /\ Becomes(k, [r EXCEPT !.pc = "crm"])

\* The token getter of the mount (see Sessions) yields a token.
Token(k) ==
    LET r == call[k] IN
    /\ r.pc = "prepare" /\ r.todo = {}
    /\ ~Panics(r)
    /\ Becomes(k, [r EXCEPT !.pc = "crm"])

\* Whatever fails before a record is found is "not found" to the routing caller.
FailureCode(r) == IF r.req.op = "route" /\ r.found = NoRow THEN "404" ELSE "500"

Failed(r) == Answered(r, FailureCode(r))

\* A schema is not read or no token is there.
PrepareFails(k) ==
    LET r == call[k] IN
    /\ r.pc = "prepare"
    /\ r.req.op \notin {"task", "route"} \/ r.todo = {}
    /\ r.todo = {} => ~Panics(r)
    /\ Becomes(k, Failed(r))

-----------------------------------------------------------------------------
(* The request to the CRM and its reply *)

\* The CRM refuses, cannot be reached, or says nothing for 15 seconds.
RequestFails(k) ==
    /\ call[k].pc = "crm"
    /\ Becomes(k, Failed(call[k]))

\* All of it, or what PBXware names, null where there is nothing.
Filtered(result, fields) ==
    IF fields = {} THEN result
    ELSE [f \in fields |-> IF f \in DOMAIN result THEN result[f] ELSE Null]

ObjectGet(k) ==
    LET r == call[k]
        schema == SchemaOf(r, r.req.type)
        asked == IF getSchemaAPIFields(schema) = {} THEN {IdField} ELSE getSchemaAPIFields(schema)
    IN
    /\ r.pc = "crm" /\ r.req.op = "get"
    /\ Exists(r.req.id) /\ crm[r.req.id].type = r.req.type
    /\ Readable(r.req.type, asked)
    /\ Becomes(k, [Answered(r, "200") EXCEPT !.record =
         Filtered(formatSObject(ReplyOf(r.req.id, crm[r.req.id], asked), schema), r.req.fields)])

\* A record is written; every route that found it is told that it changed.
ChangeRecord(id, record) ==
    /\ changes < MaxChanges
    /\ changes' = changes + 1
    /\ crm' = [crm EXCEPT ![id] = record]
    /\ UNCHANGED vars

Moved(id) ==
    [k \in Calls |-> IF call[k].found = id THEN [call[k] EXCEPT !.moved = TRUE] ELSE call[k]]

\* A write is done; the reply arrives, or is lost on the way.
Write(k, id, record) ==
    LET r == call[k] IN
    /\ ChangeRecord(id, record)
    /\ \/ call' = [Moved(id) EXCEPT ![k] = [Answered(r, "200") EXCEPT !.found = id]]
       \/ call' = [Moved(id) EXCEPT ![k] = Failed(r)]

\* Columns of a body over those of a record.
Overlay(columns, old) ==
    [col \in DOMAIN old |-> IF col \in DOMAIN columns THEN columns[col] ELSE old[col]]

ObjectCreate(k, id) ==
    LET r == call[k]
        columns == apiSObject(SchemaOf(r, r.req.type), r.req.data)
    IN
    /\ r.pc = "crm" /\ r.req.op = "create"
    /\ crm[id] = NoRow
    /\ Accepts(r.req.type, columns)
    /\ Write(k, id, [type |-> r.req.type,
                     columns |-> Overlay(columns, [col \in Columns(r.req.type) |-> Null])])

ObjectUpdate(k) ==
    LET r == call[k]
        columns == apiSObject(SchemaOf(r, r.req.type), r.req.data)
    IN
    /\ r.pc = "crm" /\ r.req.op = "update"
    /\ Exists(r.req.id) /\ crm[r.req.id].type = r.req.type
    /\ Accepts(r.req.type, columns)
    /\ Write(k, r.req.id, [crm[r.req.id] EXCEPT !.columns = Overlay(columns, @)])

\* A task hangs on an account (WhatId) or on a person (WhoId).  Nothing reads
\* tasks back, so the CRM's are not kept here.
CreateTask(k) ==
    LET r == call[k] IN
    /\ r.pc = "crm" /\ r.req.op = "task"
    /\ Exists(r.req.id)
    /\ crm[r.req.id].type = AccountType <=> r.req.type = AccountType
    /\ Becomes(k, Answered(r, "201"))

\* The records there are.
ThereIs == [id \in {i \in RecordIDs : Exists(i)} |-> crm[id]]

QueryOf(r) == Query(ParametersOf(r.req), SchemasOf(r))

Search(k) ==
    LET r == call[k] IN
    /\ r.pc = "crm" /\ Searches(r)
    /\ QueryAccepted(QueryOf(r))
    /\ \E ids \in Results(QueryOf(r), ThereIs) :
         Becomes(k, [Answered(r, "200") EXCEPT !.infos =
           {ObjectInfo(id, crm[id], QueryOf(r).asked[crm[id].type], SchemaOf(r, crm[id].type))
              : id \in ids}])

\* The first query of a route: text in the field named, or the number in any phone field.
RouteQuery(req) ==
    [lang |-> IF req.input_target_field # Empty THEN "soql" ELSE "sosl",
     q |-> IF req.input_target_field # Empty THEN req.caller_input ELSE req.number,
     scope |-> IF req.input_target_field # Empty THEN req.input_target_field ELSE "phone",
     limit |-> 1, like |-> TRUE, asked |-> [t \in {req.type} |-> {IdField}]]

findRecord(k, id) ==
    LET r == call[k] IN
    /\ r.pc = "crm" /\ r.req.op = "route" /\ r.found = NoRow
    /\ QueryAccepted(RouteQuery(r.req))
    /\ Exists(id) /\ Matches(RouteQuery(r.req), crm[id])
    /\ Becomes(k, [r EXCEPT !.pc = "prepare", !.found = id])

\* The second query, for the record found; the reply is passed on as it is.
getRecord(k) ==
    LET r == call[k]
        asked == r.req.api_fields \cup {IdField}
    IN
    /\ r.pc = "crm" /\ r.req.op = "route" /\ r.found # NoRow
    /\ Exists(r.found) /\ crm[r.found].type = r.req.type
    /\ Readable(r.req.type, asked)
    /\ Becomes(k, [Answered(r, "200") EXCEPT !.record = ReplyOf(r.found, crm[r.found], asked)])

\* The response is read.
ReceiveAnswer(k) ==
    /\ call[k].pc = "done"
    /\ Becomes(k, NoCall)

-----------------------------------------------------------------------------
(* What goes on around them *)

\* A user of the CRM changes or deletes a record.
CrmEdit(id, next) ==
    /\ ChangeRecord(id, next)
    /\ call' = Moved(id)

CrmUser(id) ==
    \/ CrmEdit(id, Gone)
    \/ \E f \in CrmFields[crm[id].type] \ {IdField}, v \in UserValues :
         /\ Fits(f, v) /\ Column(f) \in Columns(crm[id].type)
         /\ v # crm[id].columns[Column(f)]
         /\ CrmEdit(id, [crm[id] EXCEPT !.columns[Column(f)] = v])

\* versions: a routing client stops being one.
ClientChanges(c) ==
    /\ ClientsUpdateStatus(c, "Salesforce", "ACTIVE")
    /\ UNCHANGED <<handler, recordVars>>

FieldsStep ==
    /\ \/ \E h \in Handlers : Handle(h) /\ (handler[h] = Idle => InFlight < MaxInFlight)
       \/ \E c \in ClientIDs : Objects(c) \/ DeleteIntegration(c)
    /\ UNCHANGED recordVars

Crash ==
    /\ Restart
    /\ call' = [k \in Calls |-> NoCall]
    /\ UNCHANGED crmVars

CallStep(k) ==
    \/ \E c \in ClientIDs, req \in Requests :
         \/ ObjectHandler(k, c, req) \/ CreateTaskHandler(k, c, req)
         \/ SearchHandler(k, c, req) \/ SearchAssociationsHandler(k, c, req)
         \/ customSourceRoutingHandler(k, c, req)
    \/ \E t \in ObjectTypes : LoadFields(k, t)
    \/ search_Panics(k) \/ Token(k) \/ PrepareFails(k) \/ RequestFails(k)
    \/ ObjectGet(k) \/ ObjectUpdate(k) \/ CreateTask(k) \/ Search(k) \/ getRecord(k)
    \/ \E id \in RecordIDs : ObjectCreate(k, id) \/ findRecord(k, id)
    \/ ReceiveAnswer(k)

RecordsNext ==
    \/ \E k \in Calls : CallStep(k)
    \/ FieldsStep
    \/ \E id \in RecordIDs : Exists(id) /\ CrmUser(id)
    \/ \E c \in ClientIDs : ClientChanges(c)
    \/ Crash

RecordsSpec == RecordsInit /\ [][RecordsNext]_allVars

-----------------------------------------------------------------------------
(* Properties *)

\* The type invariant: what a call has still to load is nothing once it has a
\* token, a record is found only by writes and routes, and an answer has a code.
RecordsTypeOK ==
    /\ crm \in [RecordIDs -> CrmRecord \cup {Gone, NoRow}]
    /\ changes \in 0..MaxChanges
    /\ call \in [Calls -> Call]
    /\ \A k \in Calls :
         /\ call[k].pc = "idle" <=> call[k] = NoCall
         /\ call[k].pc # "idle" => call[k].client \in ClientIDs /\ call[k].req \in Requests
         /\ call[k].pc = "crm" => call[k].todo = {}
         /\ call[k].pc = "done" <=> call[k].code # "none"

Done(r, ops) == r.pc = "done" /\ r.code = "200" /\ r.req.op \in ops

\* How PBXware is told of a value of the CRM; an empty lookup is not mentioned.
Told(f, v) ==
    CASE KindOf[f] = "timestamp" /\ v = Null -> Number(0)
      [] KindOf[f] = "timestamp" /\ v \in DateTimes -> Number(v.iso)
      [] KindOf[f] = "to_one" -> Association(v)
      [] OTHER -> v

ShownFields(record, schema) ==
    {f \in schema : /\ KindOf[f] # "to_many"
                    /\ KindOf[f] = "to_one" => record.columns[Column(f)] # Null}

ToldOf(record, id, schema) ==
    [f \in ShownFields(record, schema) |->
        IF f = IdField THEN id ELSE Told(f, record.columns[Column(f)])]

Answers(k, op) == call[k].pc = "crm" /\ call'[k].code = "200" /\ call[k].req.op = op

\* A get answers with the record as it is in the CRM at that moment: every field
\* of the schema that was loaded, or exactly those PBXware named.
GetsTellTheRecord ==
    [][\A k \in Calls : Answers(k, "get") =>
         LET r == call[k]
             told == ToldOf(crm[r.req.id], r.req.id, SchemaOf(r, r.req.type))
         IN  IF r.req.fields = {} THEN call'[k].record = told
             ELSE /\ DOMAIN call'[k].record = r.req.fields
                  /\ \A f \in r.req.fields :
                       call'[k].record[f] = IF f \in DOMAIN told THEN told[f] ELSE Null]_allVars

\* What a body says of a field, as PBXware would read it back.
Said(f, v) ==
    IF KindOf[f] = "to_one" /\ v # Null THEN Association(v)
    ELSE IF KindOf[f] = "timestamp" /\ v = Null THEN Number(0)
    ELSE IF KindOf[f] = "timestamp" /\ v \in DateTimes THEN Number(v.iso) ELSE v

\* Fields of a body that were written are read back under the same schema as
\* they were sent (an empty date as 0), and an empty lookup is gone.
WritesReadBack ==
    [][\A k \in Calls : Answers(k, "create") \/ Answers(k, "update") =>
         LET r == call[k]
             schema == SchemaOf(r, r.req.type)
             told == ToldOf(crm'[call'[k].found], call'[k].found, schema)
         IN  \A f \in (DOMAIN r.req.data \cap schema) \ {IdField} :
               IF KindOf[f] = "to_one" /\ r.req.data[f] = Null THEN f \notin DOMAIN told
               ELSE told[f] = Said(f, r.req.data[f])]_allVars

\* What PBXware sends when a form is saved as it was read.
FormOf(record, id, schema) ==
    [f \in ShownFields(record, schema) |->
        IF KindOf[f] = "to_one" THEN record.columns[Column(f)]
        ELSE ToldOf(record, id, schema)[f]]

\* Saving a record just as it was read under a stored schema is accepted by the
\* CRM and changes nothing, but that an empty date becomes the time 0.
UneditedSaveKeepsRecord ==
    \A id \in RecordIDs, c \in ClientIDs : Exists(id) =>
        LET t == crm[id].type
            schema == FieldsOf(DataSchemasLoad(t, c, FALSE))
            body == apiSObject(schema, FormOf(crm[id], id, schema))
        IN  schema \subseteq CrmFields[t] =>
              /\ Accepts(t, body)
              /\ \A col \in DOMAIN body :
                   \/ body[col] = crm[id].columns[col]
                   \/ body[col] = DateTime(0) /\ crm[id].columns[col] = Null

\* The base fields of a type are registered together or not at all, so a record
\* found by a search lacks its id only if none of them was there when it looked.
FoundRecordsAreNamed ==
    [][\A k \in Calls : Answers(k, "search") =>
         \A info \in call'[k].infos :
           info.id = Empty => BaseOf(call[k].schemas[info.type], info.type) = {}]_allVars

\* The CRM is asked about every object type requested, unless a field was given
\* without search_by=field: then about the first alone.
SearchCoversTypes ==
    \A k \in Calls : call[k].pc = "crm" /\ call[k].req.op = "search" =>
        LET p == call[k].req.params IN
        \/ DOMAIN QueryOf(call[k]).asked = ElementsOf(SearchParameters(p).types)
        \/ p.field # Empty /\ p.search_by # "field"

\* The record a route answers with has what the caller gave, in the field named
\* or as a phone number, and is told as it is, unless it changed after it was
\* found by the first of the two requests.
RoutedRecordMatches ==
    \A k \in Calls : Done(call[k], {"route"}) /\ ~call[k].moved =>
        LET r == call[k] IN
        /\ Exists(r.found)
        /\ crm[r.found].type = r.req.type
        /\ \E f \in CrmFields[r.req.type] :
             /\ r.req.input_target_field \in {f, Empty}
             /\ r.req.input_target_field = Empty => LogicOf[f] = "phone"
             /\ crm[r.found].columns[Column(f)] =
                  IF r.req.input_target_field = Empty THEN r.req.number ELSE r.req.caller_input
        /\ r.record = ReplyOf(r.found, crm[r.found], r.req.api_fields \cup {IdField})

\* What makes it inductive.  A route that found a record was accepted, and the
\* record matches until it changes; with it, what the other properties rest on:
\* columns hold values that fit, a call holds whole schemas, and a search under
\* way has passed the checks of its parameters.
RecordsFit ==
    \A id \in RecordIDs : Exists(id) => \A f \in CrmFields[crm[id].type] :
        Column(f) \in Columns(crm[id].type) => Fits(f, crm[id].columns[Column(f)])

SchemasWhole ==
    \A k \in Calls, t \in ObjectTypes :
        BaseOf(call[k].schemas[t], t) \in {{}, BaseRows(t)}

RouteFound(r) ==
    /\ RoutingAccepted(r.req)
    /\ r.found # NoRow /\ ~r.moved =>
         Exists(r.found) /\ Matches(RouteQuery(r.req), crm[r.found])
    /\ r.code = "200" =>
         /\ r.found # NoRow
         /\ ~r.moved => r.record = ReplyOf(r.found, crm[r.found], r.req.api_fields \cup {IdField})

RecordsInv ==
    /\ RecordsFit
    /\ SchemasWhole
    /\ \A k \in Calls :
         call[k].req.op = "route" /\ (call[k].pc \in {"prepare", "crm"} \/ call[k].code = "200")
           => RouteFound(call[k])
    /\ \A k \in Calls :
         call[k].req.op = "search" /\ call[k].pc \in {"prepare", "crm"}
           => SearchAccepted(call[k].req.params)

\* A search is answered, with records or with an error, whether or not it names
\* object types.
SearchIsAnswered ==
    \A k \in Calls : call[k].code # "aborted"
=============================================================================
