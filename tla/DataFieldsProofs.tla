-------------------------- MODULE DataFieldsProofs --------------------------
(***************************************************************************)
(* Machine-checked theorems about DataFields, for any number of clients,   *)
(* handlers, object types, fields and bodies: the invariant of the field   *)
(* rows, and that the handlers implement FieldStore.                       *)
(***************************************************************************)
EXTENDS DataFields, RepoProofs

\* NoRow is neither a row nor a client.
LEMMA NoRowFacts == NoRow \notin ClientRow /\ NoRow \notin ClientIDs
BY NoRowAssumption, DataFieldsAssumption DEF ClientRow, ClientStatus

\* A body maps object types to sets of field ids.
LEMMA PayloadFacts ==
    ASSUME NEW payload \in Payloads \cup {NoFields}
    PROVE  /\ DOMAIN payload \subseteq ObjectTypes
           /\ \A t \in DOMAIN payload : payload[t] \subseteq FieldIDs
<1>1. CASE payload = NoFields
  BY <1>1 DEF NoFields
<1>2. CASE payload \in Payloads
  <2>1. PICK T \in SUBSET ObjectTypes : payload \in [T -> SUBSET FieldIDs]
    BY <1>2, DataFieldsAssumption
  <2> QED BY <2>1
<1> QED BY <1>1, <1>2

LEMMA BaseRowsType ==
    ASSUME NEW t \in ObjectTypes
    PROVE  BaseRows(t) \in SUBSET SchemaRow
BY DataFieldsAssumption DEF BaseRows, SchemaRow

LEMMA CustomRowsType ==
    ASSUME NEW t \in ObjectTypes, NEW fields \in SUBSET FieldIDs
    PROVE  CustomRows(t, fields) \in SUBSET SchemaRow
BY DEF CustomRows, SchemaRow

\* What the rows of one round of LoadSchema are.
LEMMA LoadedRows ==
    ASSUME NEW c \in ClientIDs, NEW t \in ObjectTypes
    PROVE  DataSchemasLoad(t, c, TRUE) = BaseOf(dataSchemas[c], t)
BY DEF DataSchemasLoad, BaseOf

-----------------------------------------------------------------------------
(* Type correctness *)

LEMMA AnswerType ==
    ASSUME NEW h \in Handlers, NEW result \in {"ok", "error"}, TypeOK,
           handler[h].pc = "load", Answer(h, result)
    PROVE  /\ handler' \in [Handlers -> Request]
           /\ \A k \in Handlers :
                /\ handler'[k].todo \subseteq DOMAIN handler'[k].payload
                /\ handler'[k].pc = "load" => handler'[k].client \in ClientIDs
                /\ handler'[k].pc = "done" => handler'[k].result # "none"
<1> DEFINE next == [handler[h] EXCEPT
                      !.pc = "done", !.todo = {}, !.rows = {}, !.result = result]
<1>1. handler[h] \in Request
  BY DEF TypeOK
<1>2. next \in Request /\ next.pc = "done" /\ next.todo = {}
      /\ next.result = result
  BY <1>1 DEF Request
<1>3. handler' = [handler EXCEPT ![h] = next]
  BY DEF Answer
<1> HIDE DEF next
<1> QED BY <1>2, <1>3 DEF TypeOK

LEMMA IdleType == Idle \in Request /\ Idle.todo = {} /\ Idle.pc = "idle"
BY DEF Idle, Request

LEMMA HandleType ==
    ASSUME NEW h \in Handlers, TypeOK, Handle(h)
    PROVE  TypeOK'
<1>1. ASSUME NEW c \in ClientIDs, NEW payload \in Payloads, CustomFields(h, c, payload)
      PROVE  TypeOK'
  <2> DEFINE next == [Idle EXCEPT !.pc = "load", !.client = c, !.payload = payload,
                                  !.todo = DOMAIN payload]
  <2>1. DOMAIN payload \subseteq ObjectTypes
    BY PayloadFacts
  <2>2. /\ next \in Request /\ next.todo \subseteq DOMAIN next.payload
        /\ next.client \in ClientIDs /\ next.pc = "load"
    BY <2>1 DEF Idle, Request
  <2>3. handler' = [handler EXCEPT ![h] = next]
    BY <1>1 DEF CustomFields
  <2> HIDE DEF next
  <2> QED BY <1>1, <2>2, <2>3, RepoStutterType DEF CustomFields, TypeOK
<1>2. ASSUME NEW t \in ObjectTypes, LoadSchema(h, t)
      PROVE  TypeOK'
  <2> DEFINE r == handler[h]
             rows == r.rows \cup DataSchemasLoad(t, r.client, TRUE)
                            \cup CustomRows(t, r.payload[t])
             next == [r EXCEPT !.todo = r.todo \ {t}, !.rows = rows]
  <2>1. /\ r \in Request /\ r.pc = "load" /\ t \in r.todo
        /\ r.todo \subseteq DOMAIN r.payload /\ r.client \in ClientIDs
    BY <1>2 DEF LoadSchema, TypeOK
  <2>2. r.payload[t] \in SUBSET FieldIDs
    BY <2>1, PayloadFacts DEF Request
  <2>3. rows \in SUBSET SchemaRow
    <3>1. r.rows \in SUBSET SchemaRow
      BY <2>1 DEF Request
    <3>2. DataSchemasLoad(t, r.client, TRUE) \in SUBSET SchemaRow
      BY <2>1 DEF DataSchemasLoad, TypeOK, RepoTypeOK
    <3>3. CustomRows(t, r.payload[t]) \in SUBSET SchemaRow
      BY <2>2, CustomRowsType
    <3> QED BY <3>1, <3>2, <3>3
  <2>4. handler' = [handler EXCEPT ![h] = next]
    BY <1>2 DEF LoadSchema, TypeOK
  <2> HIDE DEF rows
  <2>5. /\ next \in Request /\ next.todo \subseteq DOMAIN next.payload
        /\ next.client \in ClientIDs /\ next.pc = "load"
    BY <2>1, <2>3 DEF Request
  <2> HIDE DEF next
  <2> QED BY <1>2, <2>4, <2>5, RepoStutterType DEF LoadSchema, TypeOK
<1>3. CASE SaveFields(h)
  <2>1. handler[h].rows \in SUBSET SchemaRow /\ handler[h].client \in ClientIDs
    BY <1>3 DEF SaveFields, TypeOK, Request
  <2>2. RepoTypeOK'
    BY <1>3, <2>1, DataSchemasSaveType DEF SaveFields, TypeOK
  <2> QED BY <1>3, <2>2, AnswerType DEF SaveFields, TypeOK
<1>4. CASE CustomFieldsFail(h)
  BY <1>4, AnswerType, RepoStutterType DEF CustomFieldsFail, TypeOK
<1>5. CASE Receive(h)
  BY <1>5, IdleType, RepoStutterType DEF Receive, TypeOK
<1> QED BY <1>1, <1>2, <1>3, <1>4, <1>5 DEF Handle

LEMMA NextType == TypeOK /\ [Next]_vars => TypeOK'
<1> SUFFICES ASSUME TypeOK, [Next]_vars PROVE TypeOK'
  OBVIOUS
<1>1. CASE \E h \in Handlers : Handle(h)
  BY <1>1, HandleType
<1>2. ASSUME NEW c \in ClientIDs, Objects(c) PROVE TypeOK'
  <2>1. UNION {BaseRows(t) : t \in ObjectTypes} \in SUBSET SchemaRow
    BY BaseRowsType
  <2>2. RepoTypeOK'
    BY <1>2, <2>1, DataSchemasSaveType DEF Objects, TypeOK
  <2> QED BY <1>2, <2>2 DEF Objects, TypeOK
<1>3. ASSUME NEW c \in ClientIDs, DeleteIntegration(c) PROVE TypeOK'
  BY <1>3, DeleteClientDataType DEF DeleteIntegration, TypeOK
<1>4. CASE Restart
  BY <1>4, IdleType, RepoStutterType DEF Restart, TypeOK
<1>5. CASE UNCHANGED vars
  BY <1>5 DEF vars, TypeOK, RepoTypeOK
<1> QED BY <1>1, <1>2, <1>3, <1>4, <1>5 DEF Next

LEMMA InitType == Init => TypeOK
<1> SUFFICES ASSUME Init PROVE TypeOK
  OBVIOUS
<1>1. clients \in [ClientIDs -> ClientRow \cup {NoRow}]
  BY ActiveRows DEF Init
<1>2. RepoTypeOK
  BY <1>1 DEF Init, RepoTypeOK
<1> QED BY <1>2, IdleType DEF Init, TypeOK

\* The tables and the handlers keep their shapes.
THEOREM TypeCorrect == Spec => []TypeOK
BY InitType, NextType, PTL DEF Spec

-----------------------------------------------------------------------------
(* The invariant *)

\* The base rows among those of all object types are those of the one asked for,
\* and no row of them is custom.
LEMMA BaseOfBase ==
    ASSUME NEW t \in ObjectTypes
    PROVE  BaseOf(UNION {BaseRows(u) : u \in ObjectTypes}, t) = BaseRows(t)
<1> DEFINE all == UNION {BaseRows(u) : u \in ObjectTypes}
<1>1. ASSUME NEW u \in ObjectTypes, NEW r \in BaseRows(u)
      PROVE  r.type = u /\ ~r.custom
  BY DEF BaseRows
<1>2. ASSUME NEW r \in BaseOf(all, t) PROVE r \in BaseRows(t)
  <2>1. PICK u \in ObjectTypes : r \in BaseRows(u)
    BY <1>2 DEF BaseOf
  <2> QED BY <1>1, <1>2, <2>1 DEF BaseOf
<1>3. ASSUME NEW r \in BaseRows(t) PROVE r \in BaseOf(all, t)
  BY <1>1, <1>3 DEF BaseOf
<1> QED BY <1>2, <1>3

LEMMA NoneCustom ==
    /\ CustomOf({}) = {}
    /\ CustomOf(UNION {BaseRows(u) : u \in ObjectTypes}) = {}
<1>1. CustomOf({}) = {}
  BY DEF CustomOf
<1>2. ASSUME NEW u \in ObjectTypes, NEW r \in BaseRows(u) PROVE ~r.custom
  BY <1>2 DEF BaseRows
<1>3. CustomOf(UNION {BaseRows(u) : u \in ObjectTypes}) = {}
  BY <1>2 DEF CustomOf
<1> QED BY <1>1, <1>3

\* One round of the loop extends what was built from the body by one type.
LEMMA LoadStep ==
    ASSUME NEW h \in Handlers, NEW t \in ObjectTypes, TypeOK, FieldsInv,
           LoadSchema(h, t)
    PROVE  BuiltFrom(handler[h])'
<1> DEFINE r == handler[h]
           base == BaseOf(dataSchemas[r.client], t)
           custom == CustomRows(t, r.payload[t])
<1>1. /\ r \in Request /\ r.pc = "load" /\ t \in r.todo
      /\ r.todo \subseteq DOMAIN r.payload /\ r.client \in ClientIDs
      /\ BuiltFrom(r)
  BY DEF LoadSchema, TypeOK, FieldsInv
<1>2. /\ handler'[h].rows = r.rows \cup base \cup custom
      /\ handler'[h].todo = r.todo \ {t}
      /\ handler'[h].payload = r.payload
  BY <1>1, LoadedRows DEF LoadSchema, TypeOK, Request
<1>3. base \in {{}, BaseRows(t)}
  BY <1>1 DEF FieldsInv, BaseAllOrNothing
<1>4. ASSUME NEW u \in ObjectTypes
      PROVE  BaseOf(r.rows \cup base \cup custom, u) \in {{}, BaseRows(u)}
  <2>1. BaseOf(r.rows, u) \in {{}, BaseRows(u)}
    BY <1>1 DEF BuiltFrom
  <2>2. BaseOf(custom, u) = {}
    BY DEF BaseOf, CustomRows
  <2>3. BaseOf(base, u) = IF u = t THEN base ELSE {}
    BY DEF BaseOf
  <2>4. BaseOf(r.rows \cup base \cup custom, u)
          = BaseOf(r.rows, u) \cup BaseOf(base, u) \cup BaseOf(custom, u)
    BY DEF BaseOf
  <2> QED BY <1>3, <2>1, <2>2, <2>3, <2>4
<1>5. CustomOf(r.rows \cup base \cup custom)
        = UNION {CustomRows(u, r.payload[u]) : u \in DOMAIN r.payload \ (r.todo \ {t})}
  <2>1. CustomOf(r.rows)
          = UNION {CustomRows(u, r.payload[u]) : u \in DOMAIN r.payload \ r.todo}
    BY <1>1 DEF BuiltFrom
  <2>2. CustomOf(base) = {} /\ CustomOf(custom) = custom
    BY DEF CustomOf, BaseOf, CustomRows
  <2>3. CustomOf(r.rows \cup base \cup custom)
          = CustomOf(r.rows) \cup CustomOf(base) \cup CustomOf(custom)
    BY DEF CustomOf
  <2>4. DOMAIN r.payload \ (r.todo \ {t}) = (DOMAIN r.payload \ r.todo) \cup {t}
    BY <1>1
  <2> QED BY <2>1, <2>2, <2>3, <2>4
<1> QED BY <1>2, <1>4, <1>5 DEF BuiltFrom

\* The rows to be saved are complete once every type of the body was loaded.
LEMMA SavedRows ==
    ASSUME NEW h \in Handlers, TypeOK, FieldsInv, handler[h].pc = "load",
           handler[h].todo = {}
    PROVE  /\ \A t \in ObjectTypes : BaseOf(handler[h].rows, t) \in {{}, BaseRows(t)}
           /\ CustomOf(handler[h].rows)
                = UNION {CustomRows(t, handler[h].payload[t])
                           : t \in DOMAIN handler[h].payload}
<1>1. BuiltFrom(handler[h])
  BY DEF FieldsInv
<1>2. DOMAIN handler[h].payload \ handler[h].todo = DOMAIN handler[h].payload
  OBVIOUS
<1> QED BY <1>1, <1>2 DEF BuiltFrom

LEMMA HandleInv ==
    ASSUME NEW h \in Handlers, TypeOK, FieldsInv, Handle(h)
    PROVE  FieldsInv'
<1>1. ASSUME NEW c \in ClientIDs, NEW payload \in Payloads, CustomFields(h, c, payload)
      PROVE  FieldsInv'
  <2>1. BuiltFrom(handler[h])'
    <3>1. /\ handler'[h].rows = {} /\ handler'[h].payload = payload
          /\ handler'[h].todo = DOMAIN payload
      BY <1>1 DEF CustomFields, Idle, TypeOK
    <3> QED BY <3>1 DEF BuiltFrom, BaseOf, CustomOf
  <2>2. \A k \in Handlers : k # h => handler'[k] = handler[k]
    BY <1>1 DEF CustomFields, TypeOK
  <2>3. UNCHANGED dataSchemas
    BY <1>1 DEF CustomFields, repoVars
  <2>4. BaseAllOrNothing'
    BY <2>3 DEF FieldsInv, BaseAllOrNothing
  <2> QED BY <2>1, <2>2, <2>4 DEF FieldsInv, BuiltFrom
<1>2. ASSUME NEW t \in ObjectTypes, LoadSchema(h, t)
      PROVE  FieldsInv'
  <2>1. BuiltFrom(handler[h])'
    BY <1>2, LoadStep
  <2>2. \A k \in Handlers : k # h => handler'[k] = handler[k]
    BY <1>2 DEF LoadSchema, TypeOK
  <2>3. UNCHANGED dataSchemas
    BY <1>2 DEF LoadSchema, repoVars
  <2>4. BaseAllOrNothing'
    BY <2>3 DEF FieldsInv, BaseAllOrNothing
  <2> QED BY <2>1, <2>2, <2>4 DEF FieldsInv, BuiltFrom
<1>3. ASSUME NEW result, Answer(h, result), BaseAllOrNothing'
      PROVE  FieldsInv'
  <2>1. \A k \in Handlers : handler'[k].pc = "load" => handler'[k] = handler[k]
    BY <1>3 DEF Answer, TypeOK, Request
  <2> QED BY <1>3, <2>1 DEF FieldsInv, BuiltFrom
<1>4. CASE SaveFields(h)
  <2>1. ASSUME NEW c \in ClientIDs, NEW t \in ObjectTypes
        PROVE  BaseOf(dataSchemas'[c], t) \in {{}, BaseRows(t)}
    <3>1. dataSchemas'[c] \in {dataSchemas[c], handler[h].rows}
      BY <1>4 DEF SaveFields, DataSchemasSave, TypeOK, RepoTypeOK
    <3> QED BY <1>4, <3>1, SavedRows DEF SaveFields, FieldsInv, BaseAllOrNothing
  <2> QED BY <1>3, <1>4, <2>1 DEF SaveFields, BaseAllOrNothing
<1>5. CASE CustomFieldsFail(h)
  <2>1. BaseAllOrNothing'
    BY <1>5 DEF CustomFieldsFail, repoVars, FieldsInv, BaseAllOrNothing
  <2> QED BY <1>3, <1>5, <2>1 DEF CustomFieldsFail
<1>6. CASE Receive(h)
  <2>1. \A k \in Handlers : handler'[k].pc = "load" => handler'[k] = handler[k]
    BY <1>6, IdleType DEF Receive, TypeOK
  <2>2. BaseAllOrNothing'
    BY <1>6 DEF Receive, repoVars, FieldsInv, BaseAllOrNothing
  <2> QED BY <2>1, <2>2 DEF FieldsInv, BuiltFrom
<1> QED BY <1>1, <1>2, <1>4, <1>5, <1>6 DEF Handle

LEMMA NextInv == TypeOK /\ FieldsInv /\ [Next]_vars => FieldsInv'
<1> SUFFICES ASSUME TypeOK, FieldsInv, [Next]_vars PROVE FieldsInv'
  OBVIOUS
<1>1. CASE \E h \in Handlers : Handle(h)
  BY <1>1, HandleInv
<1>2. ASSUME UNCHANGED handler, BaseAllOrNothing' PROVE FieldsInv'
  BY <1>2 DEF FieldsInv, BuiltFrom
<1>3. ASSUME NEW c \in ClientIDs, Objects(c) PROVE FieldsInv'
  <2>1. ASSUME NEW d \in ClientIDs, NEW t \in ObjectTypes
        PROVE  BaseOf(dataSchemas'[d], t) \in {{}, BaseRows(t)}
    <3>1. dataSchemas'[d] \in {dataSchemas[d], UNION {BaseRows(u) : u \in ObjectTypes}}
      BY <1>3 DEF Objects, DataSchemasSave, TypeOK, RepoTypeOK
    <3> QED BY <3>1, BaseOfBase DEF FieldsInv, BaseAllOrNothing
  <2> QED BY <1>2, <1>3, <2>1 DEF Objects, BaseAllOrNothing
<1>4. ASSUME NEW c \in ClientIDs, DeleteIntegration(c) PROVE FieldsInv'
  <2>1. ASSUME NEW d \in ClientIDs, NEW t \in ObjectTypes
        PROVE  BaseOf(dataSchemas'[d], t) \in {{}, BaseRows(t)}
    <3>1. dataSchemas'[d] \in {dataSchemas[d], {}}
      BY <1>4 DEF DeleteIntegration, DeleteClientData, TypeOK, RepoTypeOK
    <3>2. BaseOf({}, t) = {}
      BY DEF BaseOf
    <3> QED BY <3>1, <3>2 DEF FieldsInv, BaseAllOrNothing
  <2> QED BY <1>2, <1>4, <2>1 DEF DeleteIntegration, BaseAllOrNothing
<1>5. CASE Restart
  <2>1. \A h \in Handlers : handler'[h].pc # "load"
    BY <1>5, IdleType DEF Restart
  <2>2. BaseAllOrNothing'
    BY <1>5 DEF Restart, repoVars, FieldsInv, BaseAllOrNothing
  <2> QED BY <2>1, <2>2 DEF FieldsInv
<1>6. CASE UNCHANGED vars
  BY <1>6, <1>2 DEF vars, FieldsInv, BaseAllOrNothing
<1> QED BY <1>1, <1>3, <1>4, <1>5, <1>6 DEF Next

LEMMA InitInv == Init => FieldsInv
<1> SUFFICES ASSUME Init PROVE FieldsInv
  OBVIOUS
<1>1. BaseAllOrNothing
  BY DEF Init, BaseAllOrNothing, BaseOf
<1> QED BY <1>1, IdleType DEF Init, FieldsInv

\* What handlers build and tables hold is, of every object type, the base fields
\* of the app or none, and the custom fields of one body.
THEOREM FieldsInvariant == Spec => []FieldsInv
BY InitType, NextType, InitInv, NextInv, PTL DEF Spec

\* No interleaving of registrations, uploads and deletions mixes a custom field
\* with the base fields, or splits the base fields of an object type.
THEOREM BaseFieldsComplete == Spec => []BaseAllOrNothing
<1>1. FieldsInv => BaseAllOrNothing
  BY DEF FieldsInv
<1> QED BY <1>1, FieldsInvariant, PTL

-----------------------------------------------------------------------------
(* The refinement of FieldStore *)

\* The abstract store's view of rows, and of a request.
Pairs(rows) == {<<r.type, r.field>> : r \in CustomOf(rows)}
View(r) == [state |-> State(r), client |-> r.client, fields |-> FieldsIn(r.payload)]

customView == [c \in ClientIDs |-> Pairs(dataSchemas[c])]
callView == [h \in Handlers |-> View(handler[h])]

\* Rows built from a body show the abstract store the fields of the body.
LEMMA PairsOfPayload ==
    ASSUME NEW payload \in Payloads \cup {NoFields}, NEW rows,
           CustomOf(rows) = UNION {CustomRows(t, payload[t]) : t \in DOMAIN payload}
    PROVE  Pairs(rows) = FieldsIn(payload)
<1>1. ASSUME NEW r \in CustomOf(rows)
      PROVE  <<r.type, r.field>> \in FieldsIn(payload)
  <2>1. PICK t \in DOMAIN payload : r \in CustomRows(t, payload[t])
    OBVIOUS
  <2>2. r.type = t /\ r.field \in payload[t]
    BY <2>1 DEF CustomRows
  <2> QED BY <2>2 DEF FieldsIn
<1>2. ASSUME NEW t \in DOMAIN payload, NEW f \in payload[t]
      PROVE  <<t, f>> \in Pairs(rows)
  <2> DEFINE r == [type |-> t, field |-> f, custom |-> TRUE]
  <2>1. r \in CustomRows(t, payload[t])
    BY DEF CustomRows
  <2>2. r \in CustomOf(rows)
    BY <2>1
  <2> QED BY <2>2 DEF Pairs
<1> QED BY <1>1, <1>2 DEF Pairs, FieldsIn

LEMMA ViewIdle == View(Idle) = Store!NoCall
BY DEF View, State, Idle, FieldsIn, NoFields, Store!NoCall

LEMMA InitRefines == Init => Store!StoreInit
<1> SUFFICES ASSUME Init PROVE Store!StoreInit
  OBVIOUS
<1>1. \A c \in ClientIDs : Pairs(dataSchemas[c]) = {}
  BY DEF Init, Pairs, CustomOf
<1>2. \A h \in Handlers : View(handler[h]) = Store!NoCall
  BY ViewIdle DEF Init
<1> QED BY <1>1, <1>2 DEF Store!StoreInit, Pairs, View

\* A request that is answered turns, for the store, from pending to its result.
LEMMA AnswerView ==
    ASSUME NEW h \in Handlers, NEW result \in {"ok", "error"}, TypeOK,
           handler[h].pc = "load", Answer(h, result)
    PROVE  /\ callView[h].state = "pending"
           /\ callView' = [callView EXCEPT ![h].state = result]
<1>1. handler[h] \in Request
  BY DEF TypeOK
<1>2. /\ handler'[h].pc = "done" /\ handler'[h].result = result
      /\ handler'[h].client = handler[h].client
      /\ handler'[h].payload = handler[h].payload
      /\ \A k \in Handlers : k # h => handler'[k] = handler[k]
  BY <1>1 DEF Answer, TypeOK, Request
<1>3. View(handler'[h]) = [View(handler[h]) EXCEPT !.state = result]
  BY <1>2 DEF View, State
<1>4. View(handler[h]).state = "pending"
  BY DEF View, State
<1> QED BY <1>2, <1>3, <1>4 DEF callView

\* Every step of a handler is one of the store, or one the store does not see.
LEMMA HandleRefines ==
    ASSUME NEW h \in Handlers, TypeOK, FieldsInv, Handle(h)
    PROVE  Store!StoreNext \/ UNCHANGED <<customView, callView>>
<1> USE DEF customView, callView
<1>1. ASSUME NEW c \in ClientIDs, NEW payload \in Payloads, CustomFields(h, c, payload)
      PROVE  Store!Submit(h)
  <2>1. FieldsIn(payload) \subseteq ObjectTypes \X FieldIDs
    BY PayloadFacts DEF FieldsIn
  <2>2. View(handler[h]) = Store!NoCall
    BY <1>1, ViewIdle DEF CustomFields
  <2>3. View(handler'[h]) = [state |-> "pending", client |-> c,
                             fields |-> FieldsIn(payload)]
    BY <1>1 DEF CustomFields, View, State, Idle, TypeOK
  <2>4. \A k \in Handlers : k # h => handler'[k] = handler[k]
    BY <1>1 DEF CustomFields, TypeOK
  <2>5. UNCHANGED dataSchemas
    BY <1>1 DEF CustomFields, repoVars
  <2>6. View(handler'[h]) \in [state: {"pending"}, client: ClientIDs,
                               fields: SUBSET (ObjectTypes \X FieldIDs)]
    BY <2>1, <2>3
  <2>7. callView' = [callView EXCEPT ![h] = callView'[h]]
    BY <2>4 DEF View
  <2> QED BY <2>2, <2>5, <2>6, <2>7 DEF Store!Submit, View, Pairs
<1>2. ASSUME NEW t \in ObjectTypes, LoadSchema(h, t)
      PROVE  UNCHANGED <<customView, callView>>
  <2>1. handler[h] \in Request /\ handler[h].pc = "load"
    BY <1>2 DEF LoadSchema, TypeOK
  <2>2. /\ handler'[h].pc = "load"
        /\ handler'[h].client = handler[h].client
        /\ handler'[h].payload = handler[h].payload
        /\ \A k \in Handlers : k # h => handler'[k] = handler[k]
    BY <1>2, <2>1 DEF LoadSchema, TypeOK, Request
  <2>3. \A k \in Handlers : View(handler'[k]) = View(handler[k])
    BY <2>1, <2>2 DEF View, State
  <2>4. UNCHANGED dataSchemas
    BY <1>2 DEF LoadSchema, repoVars
  <2> QED BY <2>3, <2>4
<1>3. CASE SaveFields(h)
  <2>1. /\ handler[h].pc = "load" /\ handler[h].client \in ClientIDs
        /\ handler[h].payload \in Payloads \cup {NoFields}
    BY <1>3 DEF SaveFields, TypeOK, Request
  <2>2. Pairs(handler[h].rows) = FieldsIn(handler[h].payload)
    BY <1>3, <2>1, SavedRows, PairsOfPayload DEF SaveFields
  <2>3. dataSchemas' = [dataSchemas EXCEPT ![handler[h].client] = handler[h].rows]
    BY <1>3 DEF SaveFields, DataSchemasSave
  <2>4. customView' = [customView EXCEPT ![handler[h].client] = FieldsIn(handler[h].payload)]
    BY <2>1, <2>2, <2>3 DEF TypeOK, RepoTypeOK
  <2>5. /\ callView[h].state = "pending"
        /\ callView' = [callView EXCEPT ![h].state = "ok"]
    BY <1>3, <2>1, AnswerView DEF SaveFields
  <2>6. callView[h].client = handler[h].client
        /\ callView[h].fields = FieldsIn(handler[h].payload)
    BY DEF View
  <2> QED BY <2>4, <2>5, <2>6 DEF Store!StoreNext, Store!Replace, View, Pairs
<1>4. CASE CustomFieldsFail(h)
  <2>1. /\ callView[h].state = "pending"
        /\ callView' = [callView EXCEPT ![h].state = "error"]
    BY <1>4, AnswerView DEF CustomFieldsFail
  <2>2. UNCHANGED customView
    BY <1>4 DEF CustomFieldsFail, repoVars
  <2> QED BY <2>1, <2>2 DEF Store!StoreNext, Store!Refuse, View, Pairs
<1>5. CASE Receive(h)
  <2>1. handler[h] \in Request /\ handler[h].pc = "done" /\ handler[h].result # "none"
    BY <1>5 DEF Receive, TypeOK
  <2>2. callView[h].state \in {"ok", "error"}
    BY <2>1 DEF View, State, Request
  <2>3. callView' = [callView EXCEPT ![h] = Store!NoCall]
    BY <1>5, ViewIdle DEF Receive, TypeOK
  <2>4. UNCHANGED customView
    BY <1>5 DEF Receive, repoVars
  <2> QED BY <2>2, <2>3, <2>4 DEF Store!StoreNext, Store!Return, View, Pairs
<1> QED BY <1>1, <1>2, <1>3, <1>4, <1>5 DEF Handle, Store!StoreNext

LEMMA NextRefines ==
    TypeOK /\ FieldsInv /\ [Next]_vars => [Store!StoreNext]_(Store!storeVars)
<1> SUFFICES ASSUME TypeOK, FieldsInv, [Next]_vars
             PROVE  Store!StoreNext \/ UNCHANGED <<customView, callView>>
  BY DEF Store!storeVars, customView, callView, View, Pairs
<1>1. CASE \E h \in Handlers : Handle(h)
  BY <1>1, HandleRefines
<1>2. ASSUME NEW c \in ClientIDs, UNCHANGED handler,
             NEW rows, CustomOf(rows) = {},
             dataSchemas' = [dataSchemas EXCEPT ![c] = rows]
      PROVE  Store!StoreNext
  <2>1. Pairs(rows) = {}
    BY <1>2 DEF Pairs
  <2>2. customView' = [customView EXCEPT ![c] = {}]
    BY <1>2, <2>1 DEF customView, TypeOK, RepoTypeOK
  <2>3. UNCHANGED callView
    BY <1>2 DEF callView
  <2> QED BY <2>2, <2>3 DEF Store!StoreNext, Store!Clear, customView, callView, View, Pairs
<1>3. ASSUME NEW c \in ClientIDs, Objects(c)
      PROVE  Store!StoreNext
  BY <1>2, <1>3, NoneCustom DEF Objects, DataSchemasSave
<1>4. ASSUME NEW c \in ClientIDs, DeleteIntegration(c)
      PROVE  Store!StoreNext
  BY <1>2, <1>4, NoneCustom DEF DeleteIntegration, DeleteClientData
<1>5. CASE Restart
  <2>1. callView' = [h \in Handlers |-> Store!NoCall]
    BY <1>5, ViewIdle DEF Restart, callView
  <2>2. UNCHANGED customView
    BY <1>5 DEF Restart, repoVars, customView
  <2> QED BY <2>1, <2>2 DEF Store!StoreNext, Store!Abandon, customView, callView, View, Pairs
<1>6. CASE UNCHANGED vars
  BY <1>6 DEF vars, customView, callView
<1> QED BY <1>1, <1>3, <1>4, <1>5, <1>6 DEF Next

\* Whatever the interleaving of their statements, the handlers implement the
\* store: a successful call replaces its client's custom fields at one instant.
THEOREM CallsAreAtomic == Spec => CallsReplaceAtomically
<1>1. Spec => [](TypeOK /\ FieldsInv)
  BY TypeCorrect, FieldsInvariant, PTL
<1> QED BY <1>1, InitRefines, NextRefines, PTL
        DEF Spec, CallsReplaceAtomically, Store!StoreSpec
=============================================================================
