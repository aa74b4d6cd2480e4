----------------------------- MODULE DataFields -----------------------------
(***************************************************************************)
(* The field definitions a client keeps per object type (data_schemas):    *)
(* the base fields of the mounted app, registered by GET config/objects,   *)
(* and the custom fields PBXware pushes to POST config/custom-fields.  The *)
(* latter handler loads the base fields of every object type it was sent,  *)
(* one query each, and then replaces ALL rows of the client; any other     *)
(* handler may run between two of these statements.                        *)
(***************************************************************************)
EXTENDS Repo

CONSTANTS
    Handlers,     \* custom-fields handlers that may run at once
    BaseFields,   \* [ObjectTypes -> SUBSET FieldIDs], the app's schemas
    Payloads      \* the bodies PBXware may post: object type -> field ids

ASSUME DataFieldsAssumption ==
    /\ BaseFields \in [ObjectTypes -> SUBSET FieldIDs]
    /\ Payloads \subseteq UNION {[T -> SUBSET FieldIDs] : T \in SUBSET ObjectTypes}
    /\ NoRow \notin ClientIDs

VARIABLE
    handler       \* [Handlers -> Request]

vars == <<clients, users, tokens, dataSchemas, handler>>

\* The empty body, and what an idle handler holds.
NoFields == [t \in {} |-> {}]

\* todo: the object types not loaded yet; rows: the schemas built so far.
Request ==
    [pc: {"idle", "load", "done"},
     client: ClientIDs \cup {NoRow},
     payload: Payloads \cup {NoFields},
     todo: SUBSET ObjectTypes,
     rows: SUBSET SchemaRow,
     result: {"none", "ok", "error"}]

Idle == [pc |-> "idle", client |-> NoRow, payload |-> NoFields,
         todo |-> {}, rows |-> {}, result |-> "none"]

BaseRows(t) == [type: {t}, field: BaseFields[t], custom: {FALSE}]
CustomRows(t, fields) == [type: {t}, field: fields, custom: {TRUE}]

Answer(h, result) ==
    handler' = [handler EXCEPT ![h] = [handler[h] EXCEPT
                  !.pc = "done", !.todo = {}, !.rows = {}, !.result = result]]

Init ==
    /\ clients \in [ClientIDs -> [name: Names, secret: {1},
                                  app: {"Salesforce"}, status: {"ACTIVE"}]]
    /\ \A c, d \in ClientIDs : clients[c].name = clients[d].name => c = d
    /\ users = [a \in Accounts |-> NoRow]
    /\ tokens = [a \in Accounts |-> NoRow]
    /\ dataSchemas = [c \in ClientIDs |-> {}]
    /\ handler = [h \in Handlers |-> Idle]

-----------------------------------------------------------------------------

\* GET config/objects: the models of the app, in one transaction.
Objects(c) ==
    /\ DataSchemasSave(c, UNION {BaseRows(t) : t \in ObjectTypes})
    /\ UNCHANGED handler

\* Mutant: every object type is loaded, sent or not.
CustomFieldsAllTypes(h, c, payload) ==
    /\ handler[h] = Idle
    /\ handler' = [handler EXCEPT ![h] =
         [Idle EXCEPT !.pc = "load", !.client = c, !.payload = payload,
                      !.todo = ObjectTypes]]
    /\ UNCHANGED repoVars

\* POST config/custom-fields with a body that decodes.
CustomFields(h, c, payload) ==
    /\ handler[h] = Idle
    /\ handler' = [handler EXCEPT ![h] =
         [Idle EXCEPT !.pc = "load", !.client = c, !.payload = payload,
                      !.todo = DOMAIN payload]]
    /\ UNCHANGED repoVars

\* Mutant: Custom is not set on the appended fields.
LoadSchemaAsBase(h, t) ==
    LET r == handler[h] IN
    /\ r.pc = "load"
    /\ t \in r.todo
    /\ handler' = [handler EXCEPT
         ![h].todo = @ \ {t},
         ![h].rows = @ \cup DataSchemasLoad(t, r.client, TRUE)
                       \cup [type: {t}, field: r.payload[t], custom: {FALSE}]]
    /\ UNCHANGED repoVars

\* One round of the loop over the object types, in the order of a Go map: the
\* stored base fields of the type, and the fields that were sent.
LoadSchema(h, t) ==
    LET r == handler[h] IN
    /\ r.pc = "load"
    /\ t \in r.todo
    /\ handler' = [handler EXCEPT
         ![h].todo = @ \ {t},
         ![h].rows = @ \cup DataSchemasLoad(t, r.client, TRUE)
                       \cup CustomRows(t, r.payload[t])]
    /\ UNCHANGED repoVars

SaveFields(h) ==
    /\ handler[h].pc = "load"
    /\ handler[h].todo = {}
    /\ DataSchemasSave(handler[h].client, handler[h].rows)
    /\ Answer(h, "ok")

\* A custom field with the id of a base field, or an id sent twice, violates
\* the primary key; a query may fail as well.  Nothing is written.
CustomFieldsFail(h) ==
    /\ handler[h].pc = "load"
    /\ Answer(h, "error")
    /\ UNCHANGED repoVars

\* The response is read.
Receive(h) ==
    /\ handler[h].pc = "done"
    /\ handler' = [handler EXCEPT ![h] = Idle]
    /\ UNCHANGED repoVars

DeleteIntegration(c) ==
    /\ DeleteClientData(c)
    /\ UNCHANGED handler

Restart ==
    /\ handler' = [h \in Handlers |-> Idle]
    /\ UNCHANGED repoVars

Handle(h) ==
    \/ \E c \in ClientIDs, payload \in Payloads : CustomFields(h, c, payload)
    \/ \E t \in ObjectTypes : LoadSchema(h, t)
    \/ SaveFields(h)
    \/ CustomFieldsFail(h)
    \/ Receive(h)

Next ==
    \/ \E h \in Handlers : Handle(h)
    \/ \E c \in ClientIDs : Objects(c) \/ DeleteIntegration(c)
    \/ Restart

Spec == Init /\ [][Next]_vars

-----------------------------------------------------------------------------
(* Properties *)

\* The type invariant: a handler loads object types it was sent, no others, and
\* is done only with a result.
TypeOK ==
    /\ RepoTypeOK
    /\ handler \in [Handlers -> Request]
    /\ \A h \in Handlers :
         /\ handler[h].todo \subseteq DOMAIN handler[h].payload
         /\ handler[h].pc = "load" => handler[h].client \in ClientIDs
         /\ handler[h].pc = "done" => handler[h].result # "none"

BaseOf(rows, t) == {r \in rows : r.type = t /\ ~r.custom}
CustomOf(rows) == {r \in rows : r.custom}

\* The base fields stored for an object type are those of the app's schema, or
\* none at all: whatever handlers load, append and save in whatever order, no
\* custom field ever passes for a base field, and no base field goes alone.
BaseAllOrNothing ==
    \A c \in ClientIDs, t \in ObjectTypes :
        BaseOf(dataSchemas[c], t) \in {{}, BaseRows(t)}

\* What makes it inductive, with the link between a payload and the rows built
\* from it: of the object types loaded so far a handler holds the base fields
\* or none, and exactly the custom fields it was sent.
BuiltFrom(r) ==
    /\ \A t \in ObjectTypes : BaseOf(r.rows, t) \in {{}, BaseRows(t)}
    /\ CustomOf(r.rows) =
         UNION {CustomRows(t, r.payload[t]) : t \in DOMAIN r.payload \ r.todo}

FieldsInv ==
    /\ BaseAllOrNothing
    /\ \A h \in Handlers : handler[h].pc = "load" => BuiltFrom(handler[h])

\* The pairs of object type and field id the abstract store keeps.
FieldsIn(payload) ==
    UNION {{<<t, f>> : f \in payload[t]} : t \in DOMAIN payload}

State(r) ==
    IF r.pc = "idle" THEN "none" ELSE IF r.pc = "load" THEN "pending" ELSE r.result

Store == INSTANCE FieldStore WITH
    Callers <- Handlers,
    Clients <- ClientIDs,
    Fields <- ObjectTypes \X FieldIDs,
    NoClient <- NoRow,
    custom <- [c \in ClientIDs |->
                 {<<r.type, r.field>> : r \in CustomOf(dataSchemas[c])}],
    call <- [h \in Handlers |->
               [state |-> State(handler[h]), client |-> handler[h].client,
                fields |-> FieldsIn(handler[h].payload)]]

\* The many statements of concurrent calls add up to what FieldStore promises:
\* every call answered with 200 replaced the client's custom fields at once,
\* without mixing in those of another call or of an earlier one.
CallsReplaceAtomically == Store!StoreSpec
=============================================================================
