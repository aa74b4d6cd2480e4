---------------------------- MODULE RecordsProofs ----------------------------
(***************************************************************************)
(* Machine-checked theorems about Records, for any object types, fields,   *)
(* records, requests and any number of calls at once: the schemas stay     *)
(* whole while calls read them, what a call tells of a record is what the  *)
(* CRM holds, what it writes is read back, and a routed record matches.    *)
(***************************************************************************)
EXTENDS Records, DataFieldsProofs

-----------------------------------------------------------------------------
(* Columns *)

\* No two fields share a column.
LEMMA ColumnInjective ==
    ASSUME NEW f \in FieldIDs, NEW g \in FieldIDs, Column(f) = Column(g)
    PROVE  f = g
<1>1. Lookup(f) # g /\ Lookup(g) # f
  BY SObjectAssumption DEF Lookup
<1>2. Lookup(f) = Lookup(g) => f = g
  BY DEF Lookup
<1> QED BY <1>1, <1>2 DEF Column

LEMMA IdColumn == Column(IdField) = IdField
BY SObjectAssumption DEF Column

LEMMA CrmFieldsFacts ==
    ASSUME NEW t \in ObjectTypes
    PROVE  CrmFields[t] \subseteq FieldIDs /\ IdField \in CrmFields[t]
BY SObjectAssumption

\* A column of a type belongs to one field, which is no list and not the id.
LEMMA ColumnField ==
    ASSUME NEW t \in ObjectTypes, NEW f \in FieldIDs
    PROVE  Column(f) \in Columns(t)
             <=> f \in CrmFields[t] /\ KindOf[f] # "to_many" /\ f # IdField
<1>1. CrmFields[t] \subseteq FieldIDs /\ IdField \in FieldIDs
  BY CrmFieldsFacts, SObjectAssumption
<1>2. ASSUME Column(f) \in Columns(t)
      PROVE  f \in CrmFields[t] /\ KindOf[f] # "to_many" /\ f # IdField
  <2>1. PICK g \in CrmFields[t] : KindOf[g] # "to_many" /\ Column(f) = Column(g)
    BY <1>2 DEF Columns
  <2>2. f = g
    BY <2>1, <1>1, ColumnInjective
  <2>3. f # IdField
    BY <1>2, IdColumn DEF Columns
  <2> QED BY <2>1, <2>2, <2>3
<1>3. ASSUME f \in CrmFields[t], KindOf[f] # "to_many", f # IdField
      PROVE  Column(f) \in Columns(t)
  <2>1. Column(f) # IdField
    BY <1>1, <1>3, IdColumn, ColumnInjective
  <2> QED BY <1>3, <2>1 DEF Columns
<1> QED BY <1>2, <1>3

\* A CRM record has a type and the columns of that type.
LEMMA RecordFacts ==
    ASSUME NEW record \in CrmRecord
    PROVE  /\ record.type \in ObjectTypes
           /\ record.columns \in [Columns(record.type) -> CrmValues]
BY DEF CrmRecord

\* A value that fits is a value of the CRM.
LEMMA FitsValue ==
    ASSUME NEW f, NEW v, Fits(f, v)
    PROVE  v \in CrmValues
BY DEF Fits, CrmValues

\* null is no number, no time and no association.
LEMMA NullFacts ==
    /\ Null \notin DateTimes
    /\ Null \notin Associations
    /\ Null \notin RecordIDs
BY SObjectAssumption DEF DateTimes, DateTime, Associations, Association

\* A number is neither null nor a date in text.
LEMMA NumberFacts ==
    ASSUME NEW v \in Numbers
    PROVE  v # Null /\ v \notin DateTimes
<1>1. v # Null
  BY SObjectAssumption DEF Numbers, Number
<1>2. DOMAIN v = {"unix"}
  BY DEF Numbers, Number
<1>3. \A w \in DateTimes : DOMAIN w = {"iso"}
  BY DEF DateTimes, DateTime
<1>4. v \notin DateTimes
  <2>1. {"unix"} # {"iso"}
    OBVIOUS
  <2> QED BY <2>1, <1>2, <1>3
<1> QED BY <1>1, <1>4

LEMMA DateTimeFacts ==
    /\ \A n \in Times : DateTime(n) \in DateTimes /\ DateTime(n).iso = n
    /\ \A v \in DateTimes : v.iso \in Times /\ v = DateTime(v.iso)
    /\ \A n \in Times : Number(n) \in Numbers /\ Number(n).unix = n
    /\ \A v \in Numbers : v.unix \in Times /\ v = Number(v.unix)
    /\ 0 \in Times
BY SObjectAssumption DEF DateTimes, DateTime, Numbers, Number

-----------------------------------------------------------------------------
(* Conversions *)

\* Every column of the record holds a value that fits its field.
RecordFits(record) ==
    \A f \in CrmFields[record.type] :
        Column(f) \in Columns(record.type) => Fits(f, record.columns[Column(f)])

\* What a get makes of a reply is the record, as PBXware is to be told of it.
LEMMA FormatTells ==
    ASSUME NEW record \in CrmRecord, NEW id \in RecordIDs, NEW schema \in SUBSET FieldIDs,
           RecordFits(record), NEW asked,
           asked = IF getSchemaAPIFields(schema) = {} THEN {IdField}
                   ELSE getSchemaAPIFields(schema),
           Readable(record.type, asked)
    PROVE  formatSObject(ReplyOf(id, record, asked), schema) = ToldOf(record, id, schema)
<1> DEFINE t == record.type
           so == ReplyOf(id, record, asked)
           column(f) == record.columns[Column(f)]
<1>1. t \in ObjectTypes
  BY RecordFacts
<1>2. ASSUME NEW f \in schema, KindOf[f] # "to_many"
      PROVE  /\ f \in CrmFields[t] /\ Column(f) \in asked
             /\ f = IdField \/ Column(f) \in Columns(t)
  <2>1. Column(f) \in getSchemaAPIFields(schema)
    BY <1>2 DEF getSchemaAPIFields
  <2>2. Column(f) \in asked /\ Column(f) \in Columns(t) \cup {IdField}
    BY <2>1 DEF Readable
  <2>3. CASE Column(f) = IdField
    BY <2>2, <2>3, <1>1, IdColumn, ColumnInjective, CrmFieldsFacts, SObjectAssumption
  <2>4. CASE Column(f) \in Columns(t)
    BY <2>2, <2>4, <1>1, ColumnField
  <2> QED BY <2>2, <2>3, <2>4
<1>3. DOMAIN so = {g \in CrmFields[t] : Column(g) \in asked}
  BY DEF ReplyOf
<1>4. ASSUME NEW f \in schema, KindOf[f] # "to_many"
      PROVE  /\ f \in DOMAIN so
             /\ so[f] = IF f = IdField THEN id
                        ELSE IF KindOf[f] = "to_one" /\ column(f) # Null
                        THEN Association(column(f)) ELSE column(f)
  BY <1>2, <1>3, <1>4 DEF ReplyOf
<1>5. ASSUME NEW f \in schema, KindOf[f] # "to_many", f # IdField
      PROVE  Fits(f, column(f))
  BY <1>2, <1>5 DEF RecordFits
<1>6. \A f \in schema : Shown(so, f) <=> f \in ShownFields(record, schema)
  <2> SUFFICES ASSUME NEW f \in schema
               PROVE  Shown(so, f) <=> f \in ShownFields(record, schema)
    OBVIOUS
  <2>1. CASE KindOf[f] = "to_many"
    BY <2>1 DEF Shown, ShownFields
  <2>2. CASE KindOf[f] = "to_one"
    <3>1. f # IdField
      BY <2>2, SObjectAssumption
    <3>2. column(f) = Null \/ column(f) \in RecordIDs
      BY <2>2, <3>1, <1>5 DEF Fits
    <3>3. column(f) \in RecordIDs => Association(column(f)) \in Associations
      BY DEF Associations
    <3>4. so[f] \in Associations <=> column(f) # Null
      BY <2>2, <3>1, <3>2, <3>3, <1>4, NullFacts
    <3> QED BY <2>2, <3>4, <1>4 DEF Shown, ShownFields
  <2>3. CASE KindOf[f] \notin {"to_one", "to_many"}
    BY <2>3, <1>4 DEF Shown, ShownFields
  <2> QED BY <2>1, <2>2, <2>3
<1>7. ASSUME NEW f \in ShownFields(record, schema)
      PROVE  (IF KindOf[f] = "timestamp" THEN Number(convertToUNIXTimestamp(so[f])) ELSE so[f])
               = IF f = IdField THEN id ELSE Told(f, column(f))
  <2>1. f \in schema /\ KindOf[f] # "to_many" /\ (KindOf[f] = "to_one" => column(f) # Null)
    BY DEF ShownFields
  <2>2. CASE f = IdField
    BY <2>1, <2>2, <1>4, SObjectAssumption
  <2>3. CASE f # IdField /\ KindOf[f] = "timestamp"
    <3>1. so[f] = column(f)
      BY <2>1, <2>3, <1>4
    <3>2. column(f) = Null \/ column(f) \in DateTimes
      BY <2>1, <2>3, <1>5 DEF Fits
    <3> QED BY <2>3, <3>1, <3>2, NullFacts DEF Told, convertToUNIXTimestamp
  <2>4. CASE f # IdField /\ KindOf[f] # "timestamp"
    BY <2>1, <2>4, <1>4 DEF Told
  <2> QED BY <2>2, <2>3, <2>4
<1>8. {g \in schema : Shown(so, g)} = ShownFields(record, schema)
  BY <1>6 DEF ShownFields
<1> HIDE DEF so, t, column
<1> QED BY <1>7, <1>8 DEF formatSObject, ToldOf, column, so

\* A field of the schema is sent under its column, and no other field is.
LEMMA SentColumns ==
    ASSUME NEW schema \in SUBSET FieldIDs, NEW data, DOMAIN data \subseteq FieldIDs,
           NEW f \in (DOMAIN data \cap schema) \ {IdField}
    PROVE  /\ Column(f) \in DOMAIN apiSObject(schema, data)
           /\ apiSObject(schema, data)[Column(f)] = SentValue(schema, f, data[f])
<1>1. SentName(schema, f) = Column(f)
  BY DEF SentName
<1>2. ASSUME NEW g \in DOMAIN data \ {IdField}, SentName(schema, g) = Column(f)
      PROVE  g = f
  <2>1. CASE g \in schema
    BY <1>2, <2>1, ColumnInjective DEF SentName
  <2>2. CASE g \notin schema
    <3>1. g = Column(f)
      BY <1>2, <2>2 DEF SentName
    <3>2. Lookup(f) # g
      BY SObjectAssumption DEF Lookup
    <3> QED BY <3>1, <3>2 DEF Column
  <2> QED BY <2>1, <2>2
<1>3. f = CHOOSE g \in DOMAIN data \ {IdField} : SentName(schema, g) = Column(f)
  BY <1>1, <1>2
<1>4. Column(f) \in {SentName(schema, g) : g \in DOMAIN data \ {IdField}}
  BY <1>1
<1> QED BY <1>3, <1>4 DEF apiSObject

\* Fields of the schema that were written tell, by what the body said of them.
LEMMA WrittenTells ==
    ASSUME NEW t \in ObjectTypes, NEW schema \in SUBSET FieldIDs, NEW data,
           DOMAIN data \subseteq FieldIDs,
           Accepts(t, apiSObject(schema, data)),
           NEW f \in (DOMAIN data \cap schema) \ {IdField},
           NEW record, NEW id, record.columns[Column(f)] = apiSObject(schema, data)[Column(f)]
    PROVE  IF KindOf[f] = "to_one" /\ data[f] = Null
           THEN f \notin DOMAIN ToldOf(record, id, schema)
           ELSE /\ f \in DOMAIN ToldOf(record, id, schema)
                /\ ToldOf(record, id, schema)[f] = Said(f, data[f])
<1> DEFINE v == data[f]
           sent == SentValue(schema, f, v)
<1>1. /\ Column(f) \in DOMAIN apiSObject(schema, data)
      /\ record.columns[Column(f)] = sent
  BY SentColumns
<1>2. Column(f) \in Columns(t)
  BY <1>1 DEF Accepts
<1>3. f \in CrmFields[t] /\ KindOf[f] # "to_many"
  BY <1>2, ColumnField
<1>4. Fits(f, sent)
  BY <1>1, <1>3 DEF Accepts
<1>5. f \in DOMAIN ToldOf(record, id, schema) <=> (KindOf[f] = "to_one" => sent # Null)
  BY <1>1, <1>3 DEF ToldOf, ShownFields
<1>6. f \in DOMAIN ToldOf(record, id, schema)
        => ToldOf(record, id, schema)[f] = Told(f, sent)
  BY <1>1 DEF ToldOf
<1>7. CASE KindOf[f] = "timestamp"
  <2>1. CASE v \in Numbers
    <3>1. sent = DateTime(v.unix) /\ v = Number(v.unix) /\ sent \in DateTimes /\ sent.iso = v.unix
      BY <1>7, <2>1, DateTimeFacts DEF SentValue, convertFromUNIXTimestamp
    <3>2. Told(f, sent) = v
      BY <1>7, <3>1, NullFacts DEF Told
    <3>3. v # Null /\ v \notin DateTimes
      BY <2>1, NumberFacts
    <3> QED BY <1>5, <1>6, <1>7, <3>2, <3>3 DEF Said
  <2>2. CASE v \notin Numbers
    <3>1. sent = v
      BY <2>2 DEF SentValue
    <3>2. v = Null \/ v \in DateTimes
      BY <1>4, <1>7, <3>1 DEF Fits
    <3> QED BY <1>5, <1>6, <1>7, <3>1, <3>2, NullFacts DEF Told, Said
  <2> QED BY <2>1, <2>2
<1>8. CASE KindOf[f] = "to_one"
  <2>1. sent = v
    BY <1>8 DEF SentValue
  <2> QED BY <1>5, <1>6, <1>8, <2>1 DEF Told, Said
<1>9. CASE KindOf[f] \notin {"timestamp", "to_one"}
  <2>1. sent = v
    BY <1>9 DEF SentValue
  <2> QED BY <1>5, <1>6, <1>9, <2>1 DEF Told, Said
<1> QED BY <1>7, <1>8, <1>9

\* A record saved as it was read is accepted, and keeps every value it had, but
\* that an empty date becomes the time 0.
LEMMA UneditedSave ==
    ASSUME NEW record \in CrmRecord, NEW id \in RecordIDs, NEW schema \in SUBSET FieldIDs,
           RecordFits(record), schema \subseteq CrmFields[record.type]
    PROVE  LET body == apiSObject(schema, FormOf(record, id, schema))
           IN  /\ Accepts(record.type, body)
               /\ \A col \in DOMAIN body :
                    \/ body[col] = record.columns[col]
                    \/ body[col] = DateTime(0) /\ record.columns[col] = Null
<1> DEFINE t == record.type
           form == FormOf(record, id, schema)
           body == apiSObject(schema, form)
           column(f) == record.columns[Column(f)]
<1>1. t \in ObjectTypes
  BY RecordFacts
<1>2. DOMAIN form = ShownFields(record, schema) /\ DOMAIN form \subseteq schema
  BY DEF FormOf, ShownFields
<1>3. ASSUME NEW f \in DOMAIN form \ {IdField}
      PROVE  /\ f \in CrmFields[t] /\ Column(f) \in Columns(t) /\ Fits(f, column(f))
             /\ Column(f) \in DOMAIN body
             /\ body[Column(f)] = SentValue(schema, f, form[f])
  <2>1. f \in schema /\ KindOf[f] # "to_many"
    BY <1>2 DEF ShownFields
  <2>2. f \in CrmFields[t] /\ Column(f) \in Columns(t)
    BY <2>1, <1>1, ColumnField
  <2>3. Fits(f, column(f))
    BY <2>2 DEF RecordFits
  <2>4. /\ Column(f) \in DOMAIN body
        /\ body[Column(f)] = SentValue(schema, f, form[f])
    BY <2>1, <1>2, SentColumns
  <2> QED BY <2>2, <2>3, <2>4
<1>4. ASSUME NEW f \in DOMAIN form \ {IdField}
      PROVE  /\ Fits(f, body[Column(f)])
             /\ \/ body[Column(f)] = column(f)
                \/ body[Column(f)] = DateTime(0) /\ column(f) = Null
  <2>1. f \in schema /\ KindOf[f] # "to_many"
    BY <1>2 DEF ShownFields
  <2>2. form[f] = IF KindOf[f] = "to_one" THEN column(f) ELSE Told(f, column(f))
    BY <1>2 DEF FormOf, ToldOf
  <2>3. CASE KindOf[f] = "timestamp"
    <3>1. form[f] = Told(f, column(f))
      BY <2>2, <2>3
    <3>2. CASE column(f) = Null
      <4>1. form[f] = Number(0)
        BY <2>3, <3>1, <3>2, NullFacts DEF Told
      <4>2. body[Column(f)] = DateTime(0)
        BY <1>3, <2>1, <2>3, <4>1, DateTimeFacts DEF SentValue, convertFromUNIXTimestamp
      <4> QED BY <2>3, <3>2, <4>2, DateTimeFacts DEF Fits
    <3>3. CASE column(f) \in DateTimes
      <4>1. form[f] = Number(column(f).iso)
        BY <2>3, <3>1, <3>3, NullFacts DEF Told
      <4>2. body[Column(f)] = column(f)
        BY <1>3, <2>1, <2>3, <3>3, <4>1, DateTimeFacts DEF SentValue, convertFromUNIXTimestamp
      <4> QED BY <2>3, <3>3, <4>2 DEF Fits
    <3> QED BY <1>3, <2>3, <3>2, <3>3 DEF Fits
  <2>4. CASE KindOf[f] # "timestamp"
    <3>1. form[f] = column(f)
      BY <2>2, <2>4 DEF Told
    <3>2. CASE KindOf[f] = "to_one"
      BY <1>3, <2>2, <3>2 DEF SentValue
    <3>3. CASE KindOf[f] # "to_one"
      BY <1>3, <2>4, <3>1 DEF SentValue
    <3> QED BY <3>2, <3>3
  <2> QED BY <2>3, <2>4
<1>5. \A col \in DOMAIN body : \E f \in DOMAIN form \ {IdField} : col = Column(f)
  <2>1. DOMAIN body = {SentName(schema, f) : f \in DOMAIN form \ {IdField}}
    BY DEF apiSObject
  <2> QED BY <2>1, <1>2 DEF SentName
<1>6. Accepts(t, body)
  <2>1. DOMAIN body \subseteq Columns(t)
    BY <1>3, <1>5
  <2>2. ASSUME NEW f \in CrmFields[t], Column(f) \in DOMAIN body
        PROVE  Fits(f, body[Column(f)])
    <3>1. PICK g \in DOMAIN form \ {IdField} : Column(f) = Column(g)
      BY <2>2, <1>5
    <3>2. f \in FieldIDs /\ g \in FieldIDs
      BY <1>1, <1>2, CrmFieldsFacts
    <3>3. f = g
      BY <3>1, <3>2, ColumnInjective
    <3> QED BY <3>3, <1>4
  <2> QED BY <2>1, <2>2 DEF Accepts
<1>7. \A col \in DOMAIN body :
        \/ body[col] = record.columns[col]
        \/ body[col] = DateTime(0) /\ record.columns[col] = Null
  BY <1>4, <1>5
<1> QED BY <1>6, <1>7

-----------------------------------------------------------------------------
(* The schemas, beside the calls *)

\* The steps that the tables and the custom-fields handlers see.
LEMMA FieldsSteps ==
    ASSUME [RecordsNext]_allVars
    PROVE  [Next]_vars \/ \E c \in ClientIDs : ClientChanges(c)
<1>1. CASE \E k \in Calls : CallStep(k)
  <2> PICK k \in Calls : CallStep(k)
    BY <1>1
  <2>1. CASE \E c \in ClientIDs, req \in Requests :
               \/ ObjectHandler(k, c, req) \/ CreateTaskHandler(k, c, req)
               \/ SearchHandler(k, c, req) \/ SearchAssociationsHandler(k, c, req)
               \/ customSourceRoutingHandler(k, c, req)
    BY <2>1 DEF ObjectHandler, CreateTaskHandler, SearchHandler,
         SearchAssociationsHandler, customSourceRoutingHandler, Receives
  <2>2. CASE \E t \in ObjectTypes : LoadFields(k, t)
    BY <2>2 DEF LoadFields, Becomes
  <2>3. CASE search_Panics(k) \/ Token(k) \/ PrepareFails(k) \/ RequestFails(k)
    BY <2>3 DEF search_Panics, Token, PrepareFails, RequestFails, Becomes
  <2>4. CASE ObjectGet(k) \/ CreateTask(k) \/ Search(k) \/ getRecord(k)
    BY <2>4 DEF ObjectGet, CreateTask, Search, getRecord, Becomes
  <2>5. CASE ObjectUpdate(k)
    BY <2>5 DEF ObjectUpdate, Write, ChangeRecord
  <2>6. CASE \E id \in RecordIDs : ObjectCreate(k, id) \/ findRecord(k, id)
    BY <2>6 DEF ObjectCreate, findRecord, Becomes, Write, ChangeRecord
  <2>7. CASE ReceiveAnswer(k)
    BY <2>7 DEF ReceiveAnswer, Becomes
  <2> QED BY <2>1, <2>2, <2>3, <2>4, <2>5, <2>6, <2>7 DEF CallStep
<1>2. CASE FieldsStep
  BY <1>2 DEF FieldsStep, Next
<1>3. CASE \E id \in RecordIDs : Exists(id) /\ CrmUser(id)
  BY <1>3 DEF CrmUser, CrmEdit, ChangeRecord
<1>4. CASE \E c \in ClientIDs : ClientChanges(c)
  BY <1>4
<1>5. CASE Crash
  BY <1>5 DEF Crash, Next
<1>6. CASE UNCHANGED allVars
  BY <1>6 DEF allVars
<1> QED BY <1>1, <1>2, <1>3, <1>4, <1>5, <1>6 DEF RecordsNext

LEMMA SchemasInit == RecordsInit => TypeOK /\ FieldsInv
<1> SUFFICES ASSUME RecordsInit PROVE TypeOK /\ FieldsInv
  OBVIOUS
<1>1. clients \in [ClientIDs -> ClientRow \cup {NoRow}]
  <2>1. [name: Names, secret: {1}, app: {"", "Salesforce"}, status: {"ACTIVE", "ROUTING"}]
          \subseteq ClientRow
    <3> SUFFICES ASSUME NEW r \in [name: Names, secret: {1}, app: {"", "Salesforce"},
                                   status: {"ACTIVE", "ROUTING"}]
                 PROVE  r \in ClientRow
      OBVIOUS
    <3>1. r = [name |-> r.name, secret |-> r.secret, app |-> r.app, status |-> r.status]
      OBVIOUS
    <3>2. /\ r.name \in Names /\ r.secret \in {1}
          /\ r.app \in {"", "Salesforce"} /\ r.status \in {"ACTIVE", "ROUTING"}
      BY Zenon
    <3>3. r.secret \in Nat
      <4>1. 1 \in Nat
        OBVIOUS
      <4>2. r.secret = 1
        BY <3>2, Zenon
      <4> QED BY <4>1, <4>2, Zenon
    <3>4. r.app \in {"", "Salesforce", "Custom"} /\ r.status \in ClientStatus
      BY <3>2 DEF ClientStatus
    <3> QED BY <3>1, <3>2, <3>3, <3>4, Zenon DEF ClientRow
  <2> QED BY <2>1 DEF RecordsInit
<1>2. RepoTypeOK
  BY <1>1 DEF RecordsInit, RepoTypeOK
<1>3. TypeOK
  BY <1>2, IdleType DEF RecordsInit, TypeOK
<1>4. BaseAllOrNothing
  BY DEF RecordsInit, BaseAllOrNothing, BaseOf
<1>5. FieldsInv
  BY <1>4, IdleType DEF RecordsInit, FieldsInv
<1> QED BY <1>3, <1>5

LEMMA SchemasNext ==
    TypeOK /\ FieldsInv /\ [RecordsNext]_allVars => TypeOK' /\ FieldsInv'
<1> SUFFICES ASSUME TypeOK, FieldsInv, [RecordsNext]_allVars
             PROVE  TypeOK' /\ FieldsInv'
  OBVIOUS
<1>1. CASE [Next]_vars
  BY <1>1, NextType, NextInv
<1>2. ASSUME NEW c \in ClientIDs, ClientChanges(c)
      PROVE  TypeOK' /\ FieldsInv'
  <2>1. RepoTypeOK'
    BY <1>2, ClientsUpdateStatusType DEF ClientChanges, TypeOK, ClientStatus
  <2>2. UNCHANGED <<dataSchemas, handler>>
    BY <1>2 DEF ClientChanges, ClientsUpdateStatus
  <2>3. TypeOK'
    BY <2>1, <2>2 DEF TypeOK
  <2>4. FieldsInv'
    BY <2>2 DEF FieldsInv, BaseAllOrNothing
  <2> QED BY <2>3, <2>4
<1> QED BY <1>1, <1>2, FieldsSteps

\* Whatever calls run beside them, the custom-fields handlers keep base fields
\* whole: the calls read a table whose invariant they do not disturb.
THEOREM RecordsKeepSchemas == RecordsSpec => [](TypeOK /\ FieldsInv)
BY SchemasInit, SchemasNext, PTL DEF RecordsSpec

LEMMA CallsInitRefine == RecordsInit => Store!StoreInit
<1> SUFFICES ASSUME RecordsInit PROVE Store!StoreInit
  OBVIOUS
<1>1. \A c \in ClientIDs : Pairs(dataSchemas[c]) = {}
  BY DEF RecordsInit, Pairs, CustomOf
<1>2. \A h \in Handlers : View(handler[h]) = Store!NoCall
  BY ViewIdle DEF RecordsInit
<1> QED BY <1>1, <1>2 DEF Store!StoreInit, Pairs, View

\* No step of a call, of the CRM or of a client's status is one the store sees.
LEMMA CallsNextRefine ==
    TypeOK /\ FieldsInv /\ [RecordsNext]_allVars => [Store!StoreNext]_(Store!storeVars)
<1> SUFFICES ASSUME TypeOK, FieldsInv, [RecordsNext]_allVars
             PROVE  [Store!StoreNext]_(Store!storeVars)
  OBVIOUS
<1>1. CASE [Next]_vars
  BY <1>1, NextRefines
<1>2. ASSUME NEW c \in ClientIDs, ClientChanges(c)
      PROVE  UNCHANGED Store!storeVars
  <2>1. UNCHANGED <<dataSchemas, handler>>
    BY <1>2 DEF ClientChanges, ClientsUpdateStatus
  <2> QED BY <2>1 DEF Store!storeVars
<1> QED BY <1>1, <1>2, FieldsSteps

\* Beside any number of calls to the CRM, which read the fields while they are
\* replaced, the custom-fields handlers still implement the store.
THEOREM RecordsCallsAreAtomic == RecordsSpec => CallsReplaceAtomically
BY RecordsKeepSchemas, CallsInitRefine, CallsNextRefine, PTL
   DEF RecordsSpec, CallsReplaceAtomically, Store!StoreSpec

-----------------------------------------------------------------------------
(* One call at a time *)

\* What the two invariants say of one call.
CallOK(r) ==
    /\ r \in Call
    /\ r.pc = "idle" <=> r = NoCall
    /\ r.pc # "idle" => r.client \in ClientIDs /\ r.req \in Requests
    /\ r.pc = "crm" => r.todo = {}
    /\ r.pc = "done" <=> r.code # "none"
    /\ \A t \in ObjectTypes : BaseOf(r.schemas[t], t) \in {{}, BaseRows(t)}

RequestOK(r) ==
    /\ r.req.op = "route" /\ (r.pc \in {"prepare", "crm"} \/ r.code = "200") => RouteFound(r)
    /\ r.req.op = "search" /\ r.pc \in {"prepare", "crm"} => SearchAccepted(r.req.params)

CallsInv ==
    /\ crm \in [RecordIDs -> CrmRecord \cup {Gone, NoRow}]
    /\ changes \in 0..MaxChanges
    /\ call = [k \in Calls |-> call[k]]
    /\ RecordsFit
    /\ \A k \in Calls : CallOK(call[k]) /\ RequestOK(call[k])

LEMMA InvOfCalls == RecordsTypeOK /\ RecordsInv <=> CallsInv
<1>1. call \in [Calls -> Call]
        <=> call = [k \in Calls |-> call[k]] /\ \A k \in Calls : call[k] \in Call
  OBVIOUS
<1> QED BY <1>1 DEF CallsInv, RecordsTypeOK, RecordsInv, SchemasWhole, CallOK, RequestOK

\* A step of one call that leaves the CRM alone.
LEMMA BecomesInv ==
    ASSUME RecordsTypeOK, RecordsInv, NEW k \in Calls, NEW next, CallOK(next), RequestOK(next),
           call' = [call EXCEPT ![k] = next], UNCHANGED crmVars
    PROVE  RecordsTypeOK' /\ RecordsInv'
<1>1. UNCHANGED crm /\ UNCHANGED changes
  BY DEF crmVars
<1>2. /\ call' = [j \in Calls |-> call'[j]]
      /\ \A j \in Calls : call'[j] = IF j = k THEN next ELSE call[j]
  BY DEF RecordsTypeOK
<1>3. RecordsFit'
  BY <1>1 DEF RecordsInv, RecordsFit, Exists
<1>4. ASSUME NEW j \in Calls
      PROVE  CallOK(call'[j]) /\ RequestOK(call'[j])
  BY <1>2, InvOfCalls DEF CallsInv
<1>5. ASSUME NEW j \in Calls
      PROVE  (CallOK(call[j]) /\ RequestOK(call[j]))'
  <2>1. CallOK(call[j])'
    BY <1>4 DEF CallOK
  <2>2. RequestOK(call[j])'
    BY <1>1, <1>4 DEF RequestOK, RouteFound, Exists
  <2> QED BY <2>1, <2>2
<1>6. /\ crm' \in [RecordIDs -> CrmRecord \cup {Gone, NoRow}]
      /\ changes' \in 0..MaxChanges
  BY <1>1 DEF RecordsTypeOK
<1>7. CallsInv'
  BY <1>2, <1>3, <1>5, <1>6 DEF CallsInv
<1> QED BY <1>7, InvOfCalls, PTL

\* Nothing holds a whole schema, vacuously.
LEMMA NoneWhole ==
    \A t \in ObjectTypes : BaseOf(NoCall.schemas[t], t) \in {{}, BaseRows(t)}
BY DEF NoCall, BaseOf

LEMMA NoCallOK == CallOK(NoCall) /\ RequestOK(NoCall)
<1>1. NoFieldsRead \in ReadRecord
  <2>1. {} \in SUBSET FieldIDs /\ NoFieldsRead \in [{} -> JsonValues]
    BY DEF NoFieldsRead
  <2> QED BY <2>1 DEF ReadRecord
<1>2. NoCall \in Call
  BY <1>1 DEF NoCall, Call
<1>3. CallOK(NoCall)
  BY <1>2, NoneWhole DEF CallOK, NoCall
<1>4. RequestOK(NoCall)
  BY DEF RequestOK, NoCall, NoRequest
<1> QED BY <1>3, <1>4

\* A call that was received.
LEMMA FreshOK ==
    ASSUME NEW c \in ClientIDs, NEW req \in Requests, NEW types \in SUBSET ObjectTypes,
           NEW code \in {"400", "403"}
    PROVE  /\ CallOK([NoCall EXCEPT !.pc = "prepare", !.client = c, !.req = req, !.todo = types])
           /\ CallOK([NoCall EXCEPT !.pc = "done", !.client = c, !.req = req, !.code = code])
           /\ RequestOK([NoCall EXCEPT !.pc = "done", !.client = c, !.req = req, !.code = code])
           /\ /\ req.op = "route" => RoutingAccepted(req)
              /\ req.op = "search" => SearchAccepted(req.params)
              => RequestOK([NoCall EXCEPT !.pc = "prepare", !.client = c, !.req = req, !.todo = types])
<1> DEFINE fresh == [NoCall EXCEPT !.pc = "prepare", !.client = c, !.req = req, !.todo = types]
           refused == [NoCall EXCEPT !.pc = "done", !.client = c, !.req = req, !.code = code]
<1>1. NoCall \in Call
  BY NoCallOK DEF CallOK
<1>2. fresh \in Call /\ refused \in Call
  BY <1>1 DEF Call
<1>3. /\ fresh.pc = "prepare" /\ fresh.client = c /\ fresh.req = req /\ fresh.code = "none"
      /\ fresh.schemas = NoCall.schemas /\ fresh.found = NoRow
      /\ refused.pc = "done" /\ refused.client = c /\ refused.req = req /\ refused.code = code
      /\ refused.schemas = NoCall.schemas
  BY DEF NoCall
<1>4. NoCall.pc = "idle"
  BY DEF NoCall
<1>5. CallOK(fresh) /\ CallOK(refused)
  BY <1>2, <1>3, <1>4, NoneWhole DEF CallOK
<1>6. RequestOK(refused)
  BY <1>3 DEF RequestOK
<1>7. /\ req.op = "route" => RoutingAccepted(req)
      /\ req.op = "search" => SearchAccepted(req.params)
      => RequestOK(fresh)
  BY <1>3 DEF RequestOK, RouteFound
<1> QED BY <1>5, <1>6, <1>7

\* An answer is typed as its call was.
LEMMA AnsweredOK ==
    ASSUME NEW r, CallOK(r), r.pc \in {"prepare", "crm"},
           NEW code \in {"200", "201", "404", "500", "aborted"}
    PROVE  /\ CallOK(Answered(r, code))
           /\ code # "200" => RequestOK(Answered(r, code))
<1>1. r \in Call
  BY DEF CallOK
<1>2. NoCall.schemas \in [ObjectTypes -> SUBSET SchemaRow] /\ NoCall.pc = "idle"
  BY DEF NoCall
<1>3. Answered(r, code) \in Call
  BY <1>1, <1>2 DEF Answered, Call
<1>4. /\ Answered(r, code).pc = "done" /\ Answered(r, code).code = code
      /\ Answered(r, code).schemas = NoCall.schemas
      /\ Answered(r, code).client = r.client /\ Answered(r, code).req = r.req
  BY <1>1 DEF Answered, Call
<1>5. CallOK(Answered(r, code))
  BY <1>2, <1>3, <1>4, NoneWhole DEF CallOK
<1> QED BY <1>4, <1>5 DEF RequestOK

LEMMA FailedOK ==
    ASSUME NEW r, CallOK(r), r.pc \in {"prepare", "crm"}
    PROVE  CallOK(Failed(r)) /\ RequestOK(Failed(r)) /\ Failed(r).code # "200"
<1>1. FailureCode(r) \in {"404", "500"}
  BY DEF FailureCode
<1>2. Failed(r).code = FailureCode(r)
  BY DEF Failed, Answered, CallOK, Call
<1> QED BY <1>1, <1>2, AnsweredOK DEF Failed

\* A record changes, and the routes that found it are told.
LEMMA MovedOK ==
    ASSUME RecordsTypeOK, RecordsInv, NEW id \in RecordIDs, NEW record, ChangeRecord(id, record),
           NEW k \in Calls
    PROVE  \A m : m = Moved(id)[k] => CallOK(m) /\ RequestOK(m)'
<1> SUFFICES ASSUME NEW m, m = Moved(id)[k] PROVE CallOK(m) /\ RequestOK(m)'
  OBVIOUS
<1> DEFINE r == call[k]
<1>1. CallOK(r) /\ RequestOK(r)
  BY InvOfCalls DEF CallsInv
<1>2. m = IF r.found = id THEN [r EXCEPT !.moved = TRUE] ELSE r
  BY DEF Moved
<1>3. \A j \in RecordIDs : j # id => crm'[j] = crm[j]
  BY DEF ChangeRecord, RecordsTypeOK
<1>4. CASE r.found = id
  <2>1. r.pc # "idle"
    BY <1>1, <1>4, RecordsAssumption DEF CallOK, NoCall
  <2>2. /\ m \in Call /\ m.pc = r.pc /\ m.client = r.client /\ m.req = r.req /\ m.todo = r.todo
        /\ m.code = r.code /\ m.schemas = r.schemas /\ m.found = r.found /\ m.moved = TRUE
    <3> HIDE DEF r
    <3>1. r \in Call
      BY <1>1 DEF CallOK
    <3>2. m = [r EXCEPT !.moved = TRUE]
      BY <1>2, <1>4
    <3> QED BY <3>1, <3>2 DEF Call
  <2>3. NoCall.pc = "idle"
    BY DEF NoCall
  <2>4. CallOK(m)
    BY <1>1, <2>1, <2>2, <2>3 DEF CallOK
  <2>5. RequestOK(m)'
    BY <1>1, <2>2 DEF RequestOK, RouteFound
  <2> QED BY <2>4, <2>5
<1>5. CASE r.found # id
  <2>1. m = r
    BY <1>2, <1>5
  <2>2. r.found = NoRow \/ r.found \in RecordIDs
    BY <1>1 DEF CallOK, Call
  <2>3. RequestOK(m)'
    BY <1>1, <1>3, <1>5, <2>1, <2>2 DEF RequestOK, RouteFound, Exists
  <2> QED BY <1>1, <2>1, <2>3
<1> QED BY <1>4, <1>5

\* A record changes to one whose columns fit, and at most the call that wrote it
\* takes another step.
LEMMA ChangeInv ==
    ASSUME RecordsTypeOK, RecordsInv, NEW id \in RecordIDs, NEW record,
           \/ record = Gone
           \/ record \in CrmRecord /\ RecordFits(record),
           ChangeRecord(id, record),
           \/ call' = Moved(id)
           \/ \E k \in Calls : \E next :
                call' = [Moved(id) EXCEPT ![k] = next] /\ CallOK(next) /\ RequestOK(next)'
    PROVE  RecordsTypeOK' /\ RecordsInv'
<1>1. crm' = [crm EXCEPT ![id] = record] /\ changes' \in 0..MaxChanges
  BY RecordsAssumption DEF ChangeRecord, RecordsTypeOK
<1>2. crm' \in [RecordIDs -> CrmRecord \cup {Gone, NoRow}]
  BY <1>1 DEF RecordsTypeOK
<1>3. RecordsFit'
  <2> SUFFICES ASSUME NEW j \in RecordIDs, crm'[j] \notin {NoRow, Gone}
               PROVE  RecordFits(crm'[j])
    BY DEF RecordsFit, RecordFits, Exists
  <2>1. CASE j = id
    BY <1>1, <2>1 DEF RecordsTypeOK
  <2>2. CASE j # id
    BY <1>1, <2>2 DEF RecordsTypeOK, RecordsInv, RecordsFit, RecordFits, Exists
  <2> QED BY <2>1, <2>2
<1>4. call' = [k \in Calls |-> call'[k]]
  BY DEF Moved
<1>5. ASSUME NEW k \in Calls
      PROVE  (CallOK(call[k]) /\ RequestOK(call[k]))'
  <2>1. CASE call'[k] = Moved(id)[k]
    <3>1. \A m : m = call'[k] => CallOK(m) /\ RequestOK(m)'
      BY <2>1, MovedOK
    <3>2. PICK m : m = call'[k]
      OBVIOUS
    <3> QED BY <3>1, <3>2 DEF CallOK, RequestOK, RouteFound
  <2>2. CASE call'[k] # Moved(id)[k]
    <3>1. PICK j \in Calls : \E next : /\ call' = [Moved(id) EXCEPT ![j] = next]
                                        /\ CallOK(next) /\ RequestOK(next)'
      BY <2>2
    <3>2. PICK next : /\ call' = [Moved(id) EXCEPT ![j] = next]
                      /\ CallOK(next) /\ RequestOK(next)'
      BY <3>1
    <3>3. call'[k] = next
      BY <2>2, <3>2 DEF Moved
    <3> QED BY <3>2, <3>3 DEF CallOK, RequestOK, RouteFound
  <2> QED BY <2>1, <2>2
<1>6. CallsInv'
  BY <1>1, <1>2, <1>3, <1>4, <1>5 DEF CallsInv
<1> QED BY <1>6, InvOfCalls, PTL

-----------------------------------------------------------------------------
(* The actions *)

LEMMA ReceiveInv ==
    ASSUME RecordsTypeOK, RecordsInv, NEW k \in Calls, NEW c \in ClientIDs, NEW req \in Requests,
           \/ ObjectHandler(k, c, req) \/ CreateTaskHandler(k, c, req)
           \/ SearchHandler(k, c, req) \/ SearchAssociationsHandler(k, c, req)
           \/ customSourceRoutingHandler(k, c, req)
    PROVE  RecordsTypeOK' /\ RecordsInv'
<1> DEFINE fresh(types) ==
             [NoCall EXCEPT !.pc = "prepare", !.client = c, !.req = req, !.todo = types]
           refused(code) ==
             [NoCall EXCEPT !.pc = "done", !.client = c, !.req = req, !.code = code]
<1>1. ASSUME NEW types \in SUBSET ObjectTypes, Start(k, c, req, types), UNCHANGED crmVars,
             req.op = "route" => RoutingAccepted(req),
             req.op = "search" => SearchAccepted(req.params)
      PROVE  RecordsTypeOK' /\ RecordsInv'
  <2>1. CallOK(fresh(types)) /\ RequestOK(fresh(types))
    BY <1>1, FreshOK
  <2>2. call' = [call EXCEPT ![k] = fresh(types)]
    BY <1>1 DEF Start
  <2> HIDE DEF fresh
  <2> QED BY <1>1, <2>1, <2>2, BecomesInv
<1>2. ASSUME NEW code \in {"400", "403"}, Refuse(k, c, req, code), UNCHANGED crmVars
      PROVE  RecordsTypeOK' /\ RecordsInv'
  <2>1. CallOK(refused(code)) /\ RequestOK(refused(code))
    BY <1>2, FreshOK
  <2>2. call' = [call EXCEPT ![k] = refused(code)]
    BY <1>2 DEF Refuse
  <2> HIDE DEF refused
  <2> QED BY <1>2, <2>1, <2>2, BecomesInv
<1>3. CASE ObjectHandler(k, c, req)
  <2>1. /\ req.op \in {"get", "create", "update"} /\ UNCHANGED crmVars
        /\ Start(k, c, req, {req.type}) \/ Refuse(k, c, req, "400")
    BY <1>3 DEF ObjectHandler, Receives
  <2>2. {req.type} \in SUBSET ObjectTypes
    BY <2>1, RecordsAssumption
  <2> QED BY <2>1, <2>2, <1>1, <1>2
<1>4. CASE CreateTaskHandler(k, c, req)
  <2>1. req.op = "task" /\ UNCHANGED crmVars
    BY <1>4 DEF CreateTaskHandler, Receives
  <2>2. Start(k, c, req, {}) \/ Refuse(k, c, req, "400")
    BY <1>4 DEF CreateTaskHandler
  <2> QED BY <2>1, <2>2, <1>1, <1>2
<1>5. CASE SearchHandler(k, c, req)
  <2> DEFINE types == ElementsOf(SearchParameters(req.params).types)
  <2>1. req.op = "search" /\ UNCHANGED crmVars
    BY <1>5 DEF SearchHandler, Receives
  <2>2. ASSUME SearchAccepted(req.params)
        PROVE  types \in SUBSET ObjectTypes
    <3>1. SearchParameters(req.params).types
            = IF RequestedTypes(req.params) = <<>> THEN DefaultTypes
              ELSE RequestedTypes(req.params)
      BY DEF SearchParameters, GetSearchParameters
    <3>2. ElementsOf(DefaultTypes) \subseteq ObjectTypes
      BY SearchAssumption DEF ElementsOf
    <3> QED BY <2>2, <3>1, <3>2 DEF SearchAccepted
  <2>3. \/ SearchAccepted(req.params) /\ Start(k, c, req, types)
        \/ Refuse(k, c, req, "400")
    BY <1>5 DEF SearchHandler
  <2> HIDE DEF types
  <2> QED BY <2>1, <2>2, <2>3, <1>1, <1>2
<1>6. CASE SearchAssociationsHandler(k, c, req)
  <2> DEFINE types == ElementsOf(AssociationParameters(req.params).types)
  <2>1. req.op = "associations" /\ UNCHANGED crmVars
    BY <1>6 DEF SearchAssociationsHandler, Receives
  <2>2. ASSUME AssociationsAccepted(req.params)
        PROVE  types \in SUBSET ObjectTypes
    <3>1. AssociationParameters(req.params).types = RequestedTypes(req.params)
      BY DEF AssociationParameters, GetSearchParameters
    <3> QED BY <2>2, <3>1 DEF AssociationsAccepted
  <2>3. \/ AssociationsAccepted(req.params) /\ Start(k, c, req, types)
        \/ Refuse(k, c, req, "400")
    BY <1>6 DEF SearchAssociationsHandler
  <2> HIDE DEF types
  <2> QED BY <2>1, <2>2, <2>3, <1>1, <1>2
<1>7. CASE customSourceRoutingHandler(k, c, req)
  <2>1. req.op = "route" /\ UNCHANGED crmVars
    BY <1>7 DEF customSourceRoutingHandler, Receives
  <2>2. \/ RoutingAccepted(req) /\ Start(k, c, req, {})
        \/ Refuse(k, c, req, "400") \/ Refuse(k, c, req, "403")
    BY <1>7 DEF customSourceRoutingHandler
  <2> QED BY <2>1, <2>2, <1>1, <1>2
<1> QED BY <1>3, <1>4, <1>5, <1>6, <1>7

\* The loaded rows of a type hold its base fields or none.
LEMMA LoadedWhole ==
    ASSUME FieldsInv, NEW c \in ClientIDs, NEW t \in ObjectTypes
    PROVE  BaseOf(DataSchemasLoad(t, c, FALSE), t) \in {{}, BaseRows(t)}
<1>1. BaseOf(DataSchemasLoad(t, c, FALSE), t) = BaseOf(dataSchemas[c], t)
  BY DEF DataSchemasLoad, BaseOf
<1> QED BY <1>1 DEF FieldsInv, BaseAllOrNothing

LEMMA PrepareInv ==
    ASSUME TypeOK, FieldsInv, RecordsTypeOK, RecordsInv, NEW k \in Calls,
           \/ \E t \in ObjectTypes : LoadFields(k, t)
           \/ search_Panics(k) \/ Token(k) \/ PrepareFails(k) \/ RequestFails(k)
           \/ ReceiveAnswer(k)
    PROVE  RecordsTypeOK' /\ RecordsInv'
<1> DEFINE r == call[k]
<1>1. CallOK(r) /\ RequestOK(r)
  BY InvOfCalls DEF CallsInv
<1>2. ASSUME NEW next, Becomes(k, next), CallOK(next), RequestOK(next)
      PROVE  RecordsTypeOK' /\ RecordsInv'
  BY <1>2, BecomesInv DEF Becomes
<1>3. ASSUME NEW t \in ObjectTypes, LoadFields(k, t)
      PROVE  RecordsTypeOK' /\ RecordsInv'
  <2> DEFINE rows == DataSchemasLoad(t, r.client, FALSE)
             next == [r EXCEPT !.todo = r.todo \ {t}, !.schemas[t] = rows]
  <2>1. r.pc = "prepare" /\ r.client \in ClientIDs /\ r \in Call
    BY <1>1, <1>3 DEF LoadFields, CallOK
  <2>2. rows \in SUBSET SchemaRow /\ BaseOf(rows, t) \in {{}, BaseRows(t)}
    BY <2>1, LoadedWhole DEF TypeOK, RepoTypeOK, DataSchemasLoad
  <2>3. /\ next \in Call /\ next.pc = r.pc /\ next.client = r.client /\ next.req = r.req
        /\ next.code = r.code /\ next.found = r.found /\ next.moved = r.moved
        /\ next.record = r.record
        /\ \A u \in ObjectTypes : next.schemas[u] = IF u = t THEN rows ELSE r.schemas[u]
    BY <2>1, <2>2 DEF Call
  <2>4. NoCall.pc = "idle"
    BY DEF NoCall
  <2>5. CallOK(next)
    BY <1>1, <2>1, <2>2, <2>3, <2>4 DEF CallOK
  <2>6. RequestOK(next)
    BY <1>1, <2>3 DEF RequestOK, RouteFound
  <2>7. Becomes(k, next)
    BY <1>3 DEF LoadFields
  <2> HIDE DEF next
  <2> QED BY <2>5, <2>6, <2>7, <1>2
<1>4. CASE search_Panics(k)
  <2>1. CallOK(Answered(r, "aborted")) /\ RequestOK(Answered(r, "aborted"))
    BY <1>1, <1>4, AnsweredOK DEF search_Panics
  <2> QED BY <1>2, <1>4, <2>1 DEF search_Panics
<1>5. CASE Token(k)
  <2> DEFINE next == [r EXCEPT !.pc = "crm"]
  <2>1. r.pc = "prepare" /\ r.todo = {} /\ Becomes(k, next)
    BY <1>5 DEF Token
  <2>2. /\ next \in Call /\ next.pc = "crm" /\ next.client = r.client /\ next.req = r.req
        /\ next.code = r.code /\ next.found = r.found /\ next.moved = r.moved
        /\ next.record = r.record /\ next.schemas = r.schemas /\ next.todo = r.todo
    BY <1>1 DEF CallOK, Call
  <2>3. NoCall.pc = "idle"
    BY DEF NoCall
  <2>4. CallOK(next)
    BY <1>1, <2>1, <2>2, <2>3 DEF CallOK
  <2>5. RequestOK(next)
    BY <1>1, <2>1, <2>2 DEF RequestOK, RouteFound
  <2> HIDE DEF next
  <2> QED BY <2>1, <2>4, <2>5, <1>2
<1>6. CASE PrepareFails(k) \/ RequestFails(k)
  <2>1. r.pc \in {"prepare", "crm"} /\ Becomes(k, Failed(r))
    BY <1>6 DEF PrepareFails, RequestFails
  <2> QED BY <1>1, <1>2, <2>1, FailedOK
<1>7. CASE ReceiveAnswer(k)
  BY <1>2, <1>7, NoCallOK DEF ReceiveAnswer
<1> QED BY <1>3, <1>4, <1>5, <1>6, <1>7

\* A record that is there has a type, and columns that fit.
LEMMA ThereFacts ==
    ASSUME RecordsTypeOK, RecordsInv, NEW id \in RecordIDs, Exists(id)
    PROVE  crm[id] \in CrmRecord /\ RecordFits(crm[id])
BY DEF RecordsTypeOK, RecordsInv, RecordsFit, RecordFits, Exists

\* The fields of a schema that was loaded are field ids.
LEMMA SchemaFields ==
    ASSUME NEW r \in Call, NEW t \in ObjectTypes
    PROVE  SchemaOf(r, t) \in SUBSET FieldIDs
<1>1. r.schemas[t] \in SUBSET SchemaRow
  BY DEF Call
<1> QED BY <1>1 DEF SchemaOf, FieldsOf, SchemaRow

\* The values of a reply.
LEMMA ReplyType ==
    ASSUME NEW record \in CrmRecord, NEW id \in RecordIDs, RecordFits(record),
           NEW asked, Readable(record.type, asked)
    PROVE  /\ ReplyOf(id, record, asked) \in ReadRecord
           /\ \A f \in DOMAIN ReplyOf(id, record, asked) :
                ReplyOf(id, record, asked)[f] \in JsonValues
<1> DEFINE t == record.type
           so == ReplyOf(id, record, asked)
<1>1. t \in ObjectTypes /\ record.columns \in [Columns(t) -> CrmValues]
  BY RecordFacts
<1>2. DOMAIN so = {g \in CrmFields[t] : Column(g) \in asked} /\ DOMAIN so \subseteq FieldIDs
  BY <1>1, CrmFieldsFacts DEF ReplyOf
<1>3. ASSUME NEW f \in DOMAIN so
      PROVE  so[f] \in JsonValues
  <2>1. so[f] = IF f = IdField THEN id
                ELSE IF KindOf[f] = "to_one" /\ record.columns[Column(f)] # Null
                THEN Association(record.columns[Column(f)]) ELSE record.columns[Column(f)]
    BY <1>2 DEF ReplyOf
  <2>2. CASE f = IdField
    BY <2>1, <2>2 DEF JsonValues, CrmValues
  <2>3. CASE f # IdField
    <3>1. Column(f) \in Columns(t)
      <4>1. Column(f) # IdField
        BY <2>3, <1>2, IdColumn, ColumnInjective, SObjectAssumption
      <4> QED BY <4>1, <1>2 DEF Readable
    <3>2. record.columns[Column(f)] \in CrmValues /\ Fits(f, record.columns[Column(f)])
      BY <1>1, <1>2, <3>1 DEF RecordFits
    <3>3. KindOf[f] = "to_one" /\ record.columns[Column(f)] # Null
            => Association(record.columns[Column(f)]) \in Associations
      BY <3>2 DEF Fits, Associations
    <3> QED BY <2>1, <2>3, <3>2, <3>3 DEF JsonValues
  <2> QED BY <2>2, <2>3
<1>4. so = [f \in DOMAIN so |-> so[f]]
  BY DEF ReplyOf
<1>5. so \in [DOMAIN so -> JsonValues]
  BY <1>3, <1>4
<1> QED BY <1>2, <1>3, <1>5 DEF ReadRecord

\* What a record tells is a read record.
LEMMA ToldType ==
    ASSUME NEW record \in CrmRecord, NEW id \in RecordIDs, NEW schema \in SUBSET FieldIDs,
           NEW asked,
           asked = IF getSchemaAPIFields(schema) = {} THEN {IdField}
                   ELSE getSchemaAPIFields(schema),
           Readable(record.type, asked), RecordFits(record), NEW fields \in SUBSET FieldIDs
    PROVE  Filtered(formatSObject(ReplyOf(id, record, asked), schema), fields) \in ReadRecord
<1> DEFINE so == ReplyOf(id, record, asked)
           result == formatSObject(so, schema)
<1>1. DOMAIN result \subseteq FieldIDs /\ result = [f \in DOMAIN result |-> result[f]]
  BY DEF formatSObject
<1>2. ASSUME NEW f \in DOMAIN result
      PROVE  result[f] \in JsonValues
  <2>1. f \in DOMAIN so
    BY DEF formatSObject, Shown
  <2>2. so[f] \in JsonValues
    BY <2>1, ReplyType
  <2>3. convertToUNIXTimestamp(so[f]) \in Times
    BY DateTimeFacts DEF convertToUNIXTimestamp
  <2>4. Number(convertToUNIXTimestamp(so[f])) \in JsonValues
    BY <2>3, DateTimeFacts DEF JsonValues
  <2>5. result[f] \in {so[f], Number(convertToUNIXTimestamp(so[f]))}
    BY DEF formatSObject
  <2> QED BY <2>2, <2>4, <2>5
<1> HIDE DEF result
<1>3. result \in [DOMAIN result -> JsonValues]
  BY <1>1, <1>2
<1>4. Null \in JsonValues
  BY DEF JsonValues, CrmValues
<1>5. CASE fields = {}
  BY <1>1, <1>3, <1>5 DEF Filtered, ReadRecord, result
<1>6. CASE fields # {}
  <2>1. [f \in fields |-> IF f \in DOMAIN result THEN result[f] ELSE Null] \in [fields -> JsonValues]
    BY <1>2, <1>4
  <2> QED BY <1>6, <2>1 DEF Filtered, ReadRecord, result
<1> QED BY <1>5, <1>6

\* An answer with a record, with what was found, or with the record written.
LEMMA AnswerRecordOK ==
    ASSUME NEW r, CallOK(r), r.pc = "crm", NEW record \in ReadRecord
    PROVE  CallOK([Answered(r, "200") EXCEPT !.record = record])
<1> DEFINE a == Answered(r, "200")
           next == [a EXCEPT !.record = record]
<1>1. CallOK(a)
  BY AnsweredOK
<1>2. a \in Call
  BY <1>1 DEF CallOK
<1>3. a.pc = "done"
  BY DEF Answered, CallOK, Call
<1> HIDE DEF a
<1>4. NoCall.pc = "idle"
  BY DEF NoCall
<1>5. /\ next \in Call /\ next.pc = a.pc /\ next.client = a.client
      /\ next.req = a.req /\ next.todo = a.todo /\ next.code = a.code
      /\ next.schemas = a.schemas
  BY <1>2 DEF Call
<1> HIDE DEF next
<1>6. CallOK(next)
  BY <1>1, <1>3, <1>4, <1>5 DEF CallOK
<1> QED BY <1>6 DEF a, next

LEMMA AnswerInfosOK ==
    ASSUME NEW r, CallOK(r), r.pc = "crm", NEW infos \in (SUBSET Info)
    PROVE  CallOK([Answered(r, "200") EXCEPT !.infos = infos])
<1> DEFINE a == Answered(r, "200")
           next == [a EXCEPT !.infos = infos]
<1>1. CallOK(a)
  BY AnsweredOK
<1>2. a \in Call
  BY <1>1 DEF CallOK
<1>3. a.pc = "done"
  BY DEF Answered, CallOK, Call
<1> HIDE DEF a
<1>4. NoCall.pc = "idle"
  BY DEF NoCall
<1>5. /\ next \in Call /\ next.pc = a.pc /\ next.client = a.client
      /\ next.req = a.req /\ next.todo = a.todo /\ next.code = a.code
      /\ next.schemas = a.schemas
  BY <1>2 DEF Call
<1> HIDE DEF next
<1>6. CallOK(next)
  BY <1>1, <1>3, <1>4, <1>5 DEF CallOK
<1> QED BY <1>6 DEF a, next

LEMMA AnswerFoundOK ==
    ASSUME NEW r, CallOK(r), r.pc = "crm", NEW found \in RecordIDs
    PROVE  CallOK([Answered(r, "200") EXCEPT !.found = found])
<1> DEFINE a == Answered(r, "200")
           next == [a EXCEPT !.found = found]
<1>1. CallOK(a)
  BY AnsweredOK
<1>2. a \in Call
  BY <1>1 DEF CallOK
<1>3. a.pc = "done"
  BY DEF Answered, CallOK, Call
<1> HIDE DEF a
<1>4. NoCall.pc = "idle"
  BY DEF NoCall
<1>5. /\ next \in Call /\ next.pc = a.pc /\ next.client = a.client
      /\ next.req = a.req /\ next.todo = a.todo /\ next.code = a.code
      /\ next.schemas = a.schemas
  BY <1>2 DEF Call
<1> HIDE DEF next
<1>6. CallOK(next)
  BY <1>1, <1>3, <1>4, <1>5 DEF CallOK
<1> QED BY <1>6 DEF a, next

LEMMA InfoType ==
    ASSUME NEW record \in CrmRecord, NEW id \in RecordIDs, NEW asked, NEW schema
    PROVE  ObjectInfo(id, record, asked, schema) \in Info
<1>1. \A so, logics : TextsOf(so, schema, logics) \in SUBSET Texts
  BY DEF TextsOf
<1>2. record.type \in ObjectTypes
  BY RecordFacts
<1> QED BY <1>1, <1>2 DEF ObjectInfo, Info

LEMMA ReadInv ==
    ASSUME RecordsTypeOK, RecordsInv, NEW k \in Calls,
           \/ ObjectGet(k) \/ CreateTask(k) \/ Search(k) \/ getRecord(k)
           \/ \E id \in RecordIDs : findRecord(k, id)
    PROVE  RecordsTypeOK' /\ RecordsInv'
<1> DEFINE r == call[k]
           a == Answered(r, "200")
<1>1. CallOK(r) /\ RequestOK(r)
  BY InvOfCalls DEF CallsInv
<1>2. ASSUME NEW next, Becomes(k, next), CallOK(next), RequestOK(next)
      PROVE  RecordsTypeOK' /\ RecordsInv'
  BY <1>2, BecomesInv DEF Becomes
<1>3. r \in Call /\ (r.pc = "crm" => r.req \in Requests)
  BY <1>1 DEF CallOK
<1>4. a.req = r.req /\ a.found = r.found /\ a.moved = r.moved /\ a.code = "200"
  BY <1>3 DEF Answered, Call
<1>5. CASE ObjectGet(k)
  <2> DEFINE schema == SchemaOf(r, r.req.type)
             asked == IF getSchemaAPIFields(schema) = {} THEN {IdField}
                      ELSE getSchemaAPIFields(schema)
             record == Filtered(formatSObject(ReplyOf(r.req.id, crm[r.req.id], asked), schema),
                                r.req.fields)
             next == [a EXCEPT !.record = record]
  <2>1. /\ r.pc = "crm" /\ r.req.op = "get"
        /\ Exists(r.req.id) /\ crm[r.req.id].type = r.req.type
        /\ Readable(r.req.type, asked)
        /\ Becomes(k, next)
    BY <1>5 DEF ObjectGet
  <2>2. r.req.type \in ObjectTypes /\ r.req.id \in RecordIDs /\ r.req.fields \in SUBSET FieldIDs
    BY <1>3, <2>1, RecordsAssumption
  <2>3. schema \in SUBSET FieldIDs
    BY <1>3, <2>2, SchemaFields
  <2>4. crm[r.req.id] \in CrmRecord /\ RecordFits(crm[r.req.id])
    BY <2>1, <2>2, ThereFacts
  <2> HIDE DEF schema
  <2>5. record \in ReadRecord
    BY <2>1, <2>2, <2>3, <2>4, ToldType
  <2> HIDE DEF record
  <2>6. CallOK(next)
    BY <1>1, <2>1, <2>5, AnswerRecordOK
  <2> HIDE DEF a
  <2>7. RequestOK(next)
    BY <1>3, <1>4, <2>1 DEF RequestOK, a, Answered, Call
  <2> HIDE DEF next
  <2> QED BY <1>2, <2>1, <2>6, <2>7
<1>6. CASE CreateTask(k)
  <2>1. r.pc = "crm" /\ Becomes(k, Answered(r, "201"))
    BY <1>6 DEF CreateTask
  <2> QED BY <1>1, <1>2, <2>1, AnsweredOK
<1>7. CASE Search(k)
  <2>1. PICK ids \in Results(QueryOf(r), ThereIs) :
          Becomes(k, [a EXCEPT !.infos =
            {ObjectInfo(id, crm[id], QueryOf(r).asked[crm[id].type], SchemaOf(r, crm[id].type))
               : id \in ids}])
    BY <1>7 DEF Search
  <2> DEFINE infos == {ObjectInfo(id, crm[id], QueryOf(r).asked[crm[id].type],
                                  SchemaOf(r, crm[id].type)) : id \in ids}
             next == [a EXCEPT !.infos = infos]
  <2>2. r.pc = "crm" /\ r.req.op \in {"search", "associations"} /\ Becomes(k, next)
    BY <1>7, <2>1 DEF Search, Searches
  <2>3. ids \subseteq {id \in RecordIDs : Exists(id)}
    BY DEF Results, ThereIs
  <2>4. \A id \in ids : crm[id] \in CrmRecord
    BY <2>3, ThereFacts
  <2>5. infos \in SUBSET Info
    BY <2>3, <2>4, InfoType
  <2> HIDE DEF infos
  <2>6. CallOK(next)
    BY <1>1, <2>2, <2>5, AnswerInfosOK
  <2> HIDE DEF a
  <2>7. RequestOK(next)
    BY <1>3, <1>4, <2>2 DEF RequestOK, a, Answered, Call
  <2> HIDE DEF next
  <2> QED BY <1>2, <2>2, <2>6, <2>7
<1>8. ASSUME NEW id \in RecordIDs, findRecord(k, id)
      PROVE  RecordsTypeOK' /\ RecordsInv'
  <2> DEFINE next == [r EXCEPT !.pc = "prepare", !.found = id]
  <2>1. /\ r.pc = "crm" /\ r.req.op = "route" /\ Becomes(k, next)
        /\ Exists(id) /\ Matches(RouteQuery(r.req), crm[id])
    BY <1>8 DEF findRecord
  <2>2. /\ next \in Call /\ next.pc = "prepare" /\ next.client = r.client /\ next.req = r.req
        /\ next.code = r.code /\ next.found = id /\ next.schemas = r.schemas
    BY <1>3 DEF Call
  <2>3. NoCall.pc = "idle" /\ r.code = "none"
    BY <1>1, <2>1 DEF NoCall, CallOK
  <2> HIDE DEF next
  <2>4. CallOK(next)
    BY <1>1, <2>1, <2>2, <2>3 DEF CallOK
  <2>5. RequestOK(next)
    BY <1>1, <2>1, <2>2, <2>3 DEF RequestOK, RouteFound
  <2> QED BY <1>2, <2>1, <2>4, <2>5
<1>9. CASE getRecord(k)
  <2> DEFINE asked == r.req.api_fields \cup {IdField}
             record == ReplyOf(r.found, crm[r.found], asked)
             next == [a EXCEPT !.record = record]
  <2>1. /\ r.pc = "crm" /\ r.req.op = "route" /\ r.found # NoRow
        /\ Exists(r.found) /\ crm[r.found].type = r.req.type
        /\ Readable(r.req.type, asked)
        /\ Becomes(k, next)
    BY <1>9 DEF getRecord
  <2>2. r.found \in RecordIDs
    BY <1>3, <2>1 DEF Call
  <2>3. record \in ReadRecord
    BY <2>1, <2>2, ThereFacts, ReplyType
  <2>4. CallOK(next)
    BY <1>1, <2>1, <2>3, AnswerRecordOK
  <2> HIDE DEF a
  <2>5. /\ next.req = r.req /\ next.found = r.found /\ next.moved = r.moved
        /\ next.record = record
    BY <1>3, <1>4 DEF a, Answered, Call
  <2> HIDE DEF next
  <2>6. RequestOK(next)
    BY <1>1, <2>1, <2>5 DEF RequestOK, RouteFound
  <2> QED BY <1>2, <2>1, <2>4, <2>6
<1> QED BY <1>5, <1>6, <1>7, <1>8, <1>9

\* A body that the CRM accepts, laid over columns that fit, fits.
LEMMA OverlayFits ==
    ASSUME NEW t \in ObjectTypes, NEW old \in [Columns(t) -> CrmValues], NEW columns,
           Accepts(t, columns), RecordFits([type |-> t, columns |-> old])
    PROVE  /\ [type |-> t, columns |-> Overlay(columns, old)] \in CrmRecord
           /\ RecordFits([type |-> t, columns |-> Overlay(columns, old)])
<1> DEFINE new == Overlay(columns, old)
<1>1. /\ DOMAIN new = Columns(t) /\ new = [col \in Columns(t) |-> new[col]]
      /\ \A col \in Columns(t) : new[col] = IF col \in DOMAIN columns THEN columns[col] ELSE old[col]
  BY DEF Overlay
<1> HIDE DEF new
<1>2. ASSUME NEW f \in CrmFields[t], Column(f) \in Columns(t)
      PROVE  Fits(f, new[Column(f)])
  <2>1. Column(f) \in DOMAIN columns => Fits(f, columns[Column(f)])
    BY DEF Accepts
  <2>2. Fits(f, old[Column(f)])
    BY <1>2 DEF RecordFits
  <2> QED BY <1>1, <1>2, <2>1, <2>2
<1>3. \A col \in Columns(t) : \E f \in CrmFields[t] : col = Column(f)
  BY DEF Columns
<1>4. new \in [Columns(t) -> CrmValues]
  BY <1>1, <1>2, <1>3, FitsValue
<1>5. RecordFits([type |-> t, columns |-> new])
  BY <1>2 DEF RecordFits
<1> QED BY <1>4, <1>5 DEF CrmRecord, new

LEMMA EmptyRecordFits ==
    ASSUME NEW t \in ObjectTypes
    PROVE  /\ [col \in Columns(t) |-> Null] \in [Columns(t) -> CrmValues]
           /\ RecordFits([type |-> t, columns |-> [col \in Columns(t) |-> Null]])
BY DEF CrmValues, RecordFits, Fits

\* A write that the CRM did, answered or not.
LEMMA WrittenInv ==
    ASSUME RecordsTypeOK, RecordsInv, NEW k \in Calls, NEW id \in RecordIDs, NEW record \in CrmRecord,
           RecordFits(record), call[k].pc = "crm", call[k].req.op \in {"create", "update"},
           Write(k, id, record)
    PROVE  RecordsTypeOK' /\ RecordsInv'
<1> DEFINE r == call[k]
           found == [Answered(r, "200") EXCEPT !.found = id]
<1>1. CallOK(r)
  BY InvOfCalls DEF CallsInv
<1>2. CallOK(found) /\ found.req = r.req
  <2>1. CallOK(found)
    BY <1>1, AnswerFoundOK
  <2> QED BY <1>1, <2>1 DEF CallOK, Call, Answered
<1>3. CallOK(Failed(r)) /\ Failed(r).req = r.req
  <2>1. CallOK(Failed(r))
    BY <1>1, FailedOK
  <2> QED BY <1>1, <2>1 DEF CallOK, Call, Failed, Answered
<1>4. \E next : /\ next = found \/ next = Failed(r)
               /\ call' = [Moved(id) EXCEPT ![k] = next]
  BY DEF Write
<1> HIDE DEF found
<1>5. PICK next : /\ next = found \/ next = Failed(r)
                 /\ call' = [Moved(id) EXCEPT ![k] = next]
  BY <1>4
<1>6. CallOK(next) /\ next.req.op \notin {"route", "search"}
  BY <1>2, <1>3, <1>5
<1>7. RequestOK(next)'
  BY <1>6 DEF RequestOK
<1>8. ChangeRecord(id, record)
  BY DEF Write
<1> QED BY <1>5, <1>6, <1>7, <1>8, ChangeInv

LEMMA WriteInv ==
    ASSUME RecordsTypeOK, RecordsInv, NEW k \in Calls,
           ObjectUpdate(k) \/ \E id \in RecordIDs : ObjectCreate(k, id)
    PROVE  RecordsTypeOK' /\ RecordsInv'
<1> DEFINE r == call[k]
           columns == apiSObject(SchemaOf(r, r.req.type), r.req.data)
<1>1. CallOK(r)
  BY InvOfCalls DEF CallsInv
<1>2. CASE ObjectUpdate(k)
  <2> DEFINE id == r.req.id
             old == crm[id]
             record == [old EXCEPT !.columns = Overlay(columns, @)]
  <2>1. /\ r.pc = "crm" /\ r.req.op = "update" /\ Exists(id) /\ old.type = r.req.type
        /\ Accepts(r.req.type, columns) /\ Write(k, id, record)
    BY <1>2 DEF ObjectUpdate
  <2>2. id \in RecordIDs
    BY <1>1, <2>1, RecordsAssumption DEF CallOK
  <2>3. old \in CrmRecord /\ RecordFits(old)
    BY <2>1, <2>2, ThereFacts
  <2>4. old.type \in ObjectTypes /\ old.columns \in [Columns(old.type) -> CrmValues]
    BY <2>3, RecordFacts
  <2>5. record = [type |-> old.type, columns |-> Overlay(columns, old.columns)]
    BY <2>3 DEF CrmRecord
  <2>6. RecordFits([type |-> old.type, columns |-> old.columns])
    BY <2>3 DEF RecordFits
  <2> HIDE DEF columns, old
  <2>7. record \in CrmRecord /\ RecordFits(record)
    BY <2>1, <2>4, <2>5, <2>6, OverlayFits
  <2> HIDE DEF record
  <2> QED BY <2>1, <2>2, <2>7, WrittenInv
<1>3. ASSUME NEW id \in RecordIDs, ObjectCreate(k, id)
      PROVE  RecordsTypeOK' /\ RecordsInv'
  <2> DEFINE t == r.req.type
             record == [type |-> t,
                        columns |-> Overlay(columns, [col \in Columns(t) |-> Null])]
  <2>1. r.pc = "crm" /\ r.req.op = "create" /\ Accepts(t, columns) /\ Write(k, id, record)
    BY <1>3 DEF ObjectCreate
  <2>2. t \in ObjectTypes
    BY <1>1, <2>1, RecordsAssumption DEF CallOK
  <2> HIDE DEF columns
  <2>3. record \in CrmRecord /\ RecordFits(record)
    BY <2>1, <2>2, EmptyRecordFits, OverlayFits
  <2> HIDE DEF record
  <2> QED BY <2>1, <2>3, WrittenInv
<1> QED BY <1>2, <1>3

LEMMA CrmUserInv ==
    ASSUME RecordsTypeOK, RecordsInv, NEW id \in RecordIDs, Exists(id), CrmUser(id)
    PROVE  RecordsTypeOK' /\ RecordsInv'
<1> DEFINE old == crm[id]
<1>1. old \in CrmRecord /\ RecordFits(old)
  BY ThereFacts
<1>2. CASE CrmEdit(id, Gone)
  <2>1. ChangeRecord(id, Gone) /\ call' = Moved(id)
    BY <1>2 DEF CrmEdit
  <2> QED BY <2>1, ChangeInv
<1>3. ASSUME NEW f \in CrmFields[old.type] \ {IdField}, NEW v \in UserValues, Fits(f, v),
             Column(f) \in Columns(old.type),
             CrmEdit(id, [old EXCEPT !.columns[Column(f)] = v])
      PROVE  RecordsTypeOK' /\ RecordsInv'
  <2> DEFINE record == [old EXCEPT !.columns[Column(f)] = v]
  <2>1. old.type \in ObjectTypes /\ old.columns \in [Columns(old.type) -> CrmValues]
    BY <1>1, RecordFacts
  <2>2. record = [type |-> old.type, columns |-> [old.columns EXCEPT ![Column(f)] = v]]
    BY <1>1 DEF CrmRecord
  <2>3. v \in CrmValues
    BY RecordsAssumption
  <2>4. record \in CrmRecord
    BY <2>1, <2>2, <2>3 DEF CrmRecord
  <2>5. RecordFits(record)
    <3>1. ASSUME NEW g \in CrmFields[old.type], Column(g) \in Columns(old.type)
          PROVE  Fits(g, [old.columns EXCEPT ![Column(f)] = v][Column(g)])
      <4>1. CASE g = f
        BY <1>3, <2>1, <4>1
      <4>2. CASE g # f
        <5>1. Column(g) # Column(f)
          BY <4>2, <2>1, CrmFieldsFacts, ColumnInjective
        <5>2. Fits(g, old.columns[Column(g)])
          BY <1>1, <3>1 DEF RecordFits
        <5> QED BY <2>1, <3>1, <5>1, <5>2
      <4> QED BY <4>1, <4>2
    <3> QED BY <2>2, <3>1 DEF RecordFits
  <2>6. ChangeRecord(id, record) /\ call' = Moved(id)
    BY <1>3 DEF CrmEdit
  <2> HIDE DEF record
  <2> QED BY <2>4, <2>5, <2>6, ChangeInv
<1> QED BY <1>2, <1>3 DEF CrmUser

LEMMA CrashInv ==
    ASSUME RecordsTypeOK, RecordsInv, Crash
    PROVE  RecordsTypeOK' /\ RecordsInv'
<1>1. UNCHANGED <<crm, changes>> /\ call' = [k \in Calls |-> NoCall]
  BY DEF Crash, crmVars
<1>2. \A k \in Calls : call'[k] = NoCall
  BY <1>1
<1>3. ASSUME NEW k \in Calls
      PROVE  (CallOK(call[k]) /\ RequestOK(call[k]))'
  BY <1>2, NoCallOK DEF CallOK, RequestOK, RouteFound, NoCall, NoRequest
<1>4. CallsInv'
  BY <1>1, <1>3, InvOfCalls DEF CallsInv, RecordsFit, Exists
<1> QED BY <1>4, InvOfCalls, PTL

LEMMA CallsUnchanged ==
    ASSUME RecordsTypeOK, RecordsInv, UNCHANGED recordVars
    PROVE  RecordsTypeOK' /\ RecordsInv'
BY DEF recordVars, crmVars, RecordsTypeOK, RecordsInv, RecordsFit, SchemasWhole, RouteFound, Exists

LEMMA CallsInit == RecordsInit => RecordsTypeOK /\ RecordsInv
<1> SUFFICES ASSUME RecordsInit PROVE RecordsTypeOK /\ RecordsInv
  OBVIOUS
<1>1. \A id \in RecordIDs : crm[id] = IF id \in DOMAIN FirstRecord THEN FirstRecord[id] ELSE NoRow
  BY DEF RecordsInit
<1>2. \A id \in DOMAIN FirstRecord : FirstRecord[id] \in CrmRecord
  BY RecordsAssumption
<1>3. crm \in [RecordIDs -> CrmRecord \cup {Gone, NoRow}]
  BY <1>1, <1>2 DEF RecordsInit
<1>4. RecordsFit
  BY <1>1, RecordsAssumption DEF RecordsFit, Exists
<1>5. \A k \in Calls : call[k] = NoCall
  BY DEF RecordsInit
<1>6. changes \in 0..MaxChanges
  <2>1. MaxChanges \in Nat
    BY RecordsAssumption
  <2>2. changes = 0
    BY DEF RecordsInit
  <2> QED BY <2>1, <2>2
<1>7. CallsInv
  BY <1>3, <1>4, <1>5, <1>6, NoCallOK DEF CallsInv, RecordsInit
<1> QED BY <1>7, InvOfCalls

LEMMA CallsNext ==
    ASSUME TypeOK, FieldsInv, RecordsTypeOK, RecordsInv, [RecordsNext]_allVars
    PROVE  RecordsTypeOK' /\ RecordsInv'
<1>1. CASE \E k \in Calls : CallStep(k)
  BY <1>1, ReceiveInv, PrepareInv, ReadInv, WriteInv DEF CallStep
<1>2. CASE FieldsStep
  BY <1>2, CallsUnchanged DEF FieldsStep
<1>3. CASE \E id \in RecordIDs : Exists(id) /\ CrmUser(id)
  BY <1>3, CrmUserInv
<1>4. CASE \E c \in ClientIDs : ClientChanges(c)
  BY <1>4, CallsUnchanged DEF ClientChanges
<1>5. CASE Crash
  BY <1>5, CrashInv
<1>6. CASE UNCHANGED allVars
  BY <1>6, CallsUnchanged DEF allVars
<1> QED BY <1>1, <1>2, <1>3, <1>4, <1>5, <1>6 DEF RecordsNext

-----------------------------------------------------------------------------
(* The theorems *)

LEMMA RecordsAlways == RecordsSpec => [](TypeOK /\ FieldsInv /\ RecordsTypeOK /\ RecordsInv)
BY SchemasInit, SchemasNext, CallsInit, CallsNext, PTL DEF RecordsSpec

\* However many calls run, the CRM holds records of its types, and a call holds
\* a token only when it has all the schemas it needs.
THEOREM RecordsTypeCorrect == RecordsSpec => []RecordsTypeOK
BY RecordsAlways, PTL

\* The invariant the other theorems rest on.
THEOREM RecordsInvariant == RecordsSpec => []RecordsInv
BY RecordsAlways, PTL

\* The types a query is about, for parameters that passed the checks.
LEMMA TypesAsked ==
    ASSUME NEW p, SearchAccepted(p), NEW schemas,
           DOMAIN RequestedTypes(p) = 1..Len(RequestedTypes(p)),
           p.field = Empty \/ p.search_by = "field"
    PROVE  DOMAIN Query(SearchParameters(p), schemas).asked = ElementsOf(SearchParameters(p).types)
<1> DEFINE s == SearchParameters(p)
<1>1. /\ s.field = p.field
      /\ s.types = IF RequestedTypes(p) = <<>> THEN DefaultTypes ELSE RequestedTypes(p)
  BY DEF SearchParameters, GetSearchParameters
<1> HIDE DEF s
<1>2. CASE p.field = Empty
  <2>1. Query(s, schemas) = SoslQuery(s, schemas)
    BY <1>1, <1>2 DEF Query
  <2>2. DOMAIN SoslQuery(s, schemas).asked = ElementsOf(s.types)
    BY DEF SoslQuery
  <2> QED BY <2>1, <2>2 DEF s
<1>3. CASE p.field # Empty
  <2>1. Query(s, schemas) = SoqlQuery(s, schemas)
    BY <1>1, <1>3 DEF Query
  <2>2. DOMAIN SoqlQuery(s, schemas).asked = {s.types[1]}
    BY DEF SoqlQuery
  <2>3. Len(RequestedTypes(p)) = 1
    BY <1>3 DEF SearchAccepted, ParametersAccepted
  <2>4. DOMAIN RequestedTypes(p) = {1}
    BY <2>3
  <2>5. s.types = RequestedTypes(p)
    BY <1>1, <2>4
  <2>6. ElementsOf(s.types) = {s.types[1]}
    BY <2>4, <2>5 DEF ElementsOf
  <2> QED BY <2>1, <2>2, <2>6 DEF s
<1> QED BY <1>2, <1>3

\* Whatever combination of parameters a search is made with, the CRM is asked
\* about every object type requested, but for a field without search_by=field.
THEOREM SearchesCover == RecordsSpec => []SearchCoversTypes
<1>1. RecordsTypeOK /\ RecordsInv => SearchCoversTypes
  <2> SUFFICES ASSUME RecordsTypeOK, RecordsInv, NEW k \in Calls,
                      call[k].pc = "crm", call[k].req.op = "search",
                      call[k].req.params.field = Empty \/ call[k].req.params.search_by = "field"
               PROVE  DOMAIN QueryOf(call[k]).asked
                        = ElementsOf(SearchParameters(call[k].req.params).types)
    BY DEF SearchCoversTypes
  <2>1. SearchAccepted(call[k].req.params)
    BY DEF RecordsInv
  <2>2. call[k].req \in Requests
    BY DEF RecordsTypeOK
  <2>3. DOMAIN RequestedTypes(call[k].req.params) = 1..Len(RequestedTypes(call[k].req.params))
    BY <2>2, RecordsAssumption
  <2>4. QueryOf(call[k]) = Query(SearchParameters(call[k].req.params), SchemasOf(call[k]))
    BY DEF QueryOf, ParametersOf
  <2> QED BY <2>1, <2>3, <2>4, TypesAsked
<1> QED BY <1>1, RecordsAlways, PTL

\* Two requests of a route with changes between them: the record told has what
\* the caller gave, or it changed after it was found.
THEOREM RoutesMatch == RecordsSpec => []RoutedRecordMatches
<1>1. RecordsTypeOK /\ RecordsInv => RoutedRecordMatches
  <2> SUFFICES ASSUME RecordsTypeOK, RecordsInv, NEW k \in Calls,
                      Done(call[k], {"route"}), ~call[k].moved
               PROVE  LET r == call[k] IN
                      /\ Exists(r.found)
                      /\ crm[r.found].type = r.req.type
                      /\ \E f \in CrmFields[r.req.type] :
                           /\ r.req.input_target_field \in {f, Empty}
                           /\ r.req.input_target_field = Empty => LogicOf[f] = "phone"
                           /\ crm[r.found].columns[Column(f)] =
                                IF r.req.input_target_field = Empty
                                THEN r.req.number ELSE r.req.caller_input
                      /\ r.record = ReplyOf(r.found, crm[r.found], r.req.api_fields \cup {IdField})
    BY DEF RoutedRecordMatches
  <2> DEFINE r == call[k]
             query == RouteQuery(r.req)
  <2>1. r.req.op = "route" /\ r.code = "200"
    BY DEF Done
  <2>2. RouteFound(r)
    BY <2>1 DEF RecordsInv
  <2>3. /\ Exists(r.found) /\ Matches(query, crm[r.found])
        /\ r.record = ReplyOf(r.found, crm[r.found], r.req.api_fields \cup {IdField})
    BY <2>1, <2>2 DEF RouteFound
  <2>4. RoutingAccepted(r.req)
    BY <2>2 DEF RouteFound
  <2>5. /\ DOMAIN query.asked = {r.req.type}
        /\ query.q = IF r.req.input_target_field # Empty THEN r.req.caller_input ELSE r.req.number
        /\ query.lang = IF r.req.input_target_field # Empty THEN "soql" ELSE "sosl"
        /\ query.scope = IF r.req.input_target_field # Empty THEN r.req.input_target_field ELSE "phone"
    BY DEF RouteQuery
  <2>6. query.q # Empty
    BY <2>4, <2>5 DEF RoutingAccepted
  <2> HIDE DEF query
  <2>7. crm[r.found].type = r.req.type
    BY <2>3, <2>5 DEF Matches
  <2>8. PICK f \in CrmFields[r.req.type] \ {IdField} :
          InScope(query, f) /\ crm[r.found].columns[Column(f)] = query.q
    BY <2>3, <2>6, <2>7 DEF Matches
  <2>9. /\ r.req.input_target_field \in {f, Empty}
        /\ r.req.input_target_field = Empty => LogicOf[f] = "phone"
    BY <2>5, <2>8 DEF InScope
  <2> QED BY <2>3, <2>5, <2>7, <2>8, <2>9
<1> QED BY <1>1, RecordsAlways, PTL

\* A form saved as it was read changes nothing but empty dates, for any schema
\* the table can hold, however the record got its values.
THEOREM UneditedSaves == RecordsSpec => []UneditedSaveKeepsRecord
<1>1. TypeOK /\ RecordsTypeOK /\ RecordsInv => UneditedSaveKeepsRecord
  <2> SUFFICES ASSUME TypeOK, RecordsTypeOK, RecordsInv,
                      NEW id \in RecordIDs, NEW c \in ClientIDs, Exists(id),
                      NEW schema, schema = FieldsOf(DataSchemasLoad(crm[id].type, c, FALSE)),
                      schema \subseteq CrmFields[crm[id].type]
               PROVE  LET body == apiSObject(schema, FormOf(crm[id], id, schema))
                      IN  /\ Accepts(crm[id].type, body)
                          /\ \A col \in DOMAIN body :
                               \/ body[col] = crm[id].columns[col]
                               \/ body[col] = DateTime(0) /\ crm[id].columns[col] = Null
    BY DEF UneditedSaveKeepsRecord
  <2>1. crm[id] \in CrmRecord /\ RecordFits(crm[id])
    BY ThereFacts
  <2>2. crm[id].type \in ObjectTypes
    BY <2>1, RecordFacts
  <2>3. schema \in SUBSET FieldIDs
    BY <2>2, CrmFieldsFacts
  <2> QED BY <2>1, <2>3, UneditedSave
<1> QED BY <1>1, RecordsAlways, PTL

-----------------------------------------------------------------------------
(* What single steps do *)

\* A call that answers with 200 does so in one of these steps.
LEMMA AnswerSteps ==
    ASSUME RecordsTypeOK, RecordsInv, [RecordsNext]_allVars, NEW k \in Calls,
           call[k].pc = "crm", call'[k].code = "200"
    PROVE  \/ ObjectGet(k) \/ Search(k) \/ getRecord(k) \/ ObjectUpdate(k)
           \/ \E id \in RecordIDs : ObjectCreate(k, id)
<1> DEFINE r == call[k]
<1>1. CallOK(r) /\ r.code = "none"
  <2>1. CallOK(r)
    BY InvOfCalls DEF CallsInv
  <2> QED BY <2>1 DEF CallOK
<1>2. call' # call
  BY <1>1
<1>3. ASSUME NEW next, call' = [call EXCEPT ![k] = next]
      PROVE  call'[k] = next
  BY <1>3 DEF RecordsTypeOK
<1>4. ASSUME NEW j \in Calls, CallStep(j), j # k
      PROVE  FALSE
  <2>1. ASSUME NEW next, call' = [call EXCEPT ![j] = next]
        PROVE  FALSE
    <3>1. call'[k] = call[k]
      BY <1>4, <2>1 DEF RecordsTypeOK
    <3> QED BY <1>1, <3>1
  <2>2. ASSUME NEW id, NEW next, call' = [Moved(id) EXCEPT ![j] = next]
        PROVE  FALSE
    <3>1. call'[k] = Moved(id)[k]
      BY <1>4, <2>2 DEF Moved
    <3>2. call'[k].code = r.code
      BY <1>1, <3>1 DEF Moved, CallOK, Call
    <3> QED BY <1>1, <3>2
  <2>3. ASSUME NEW next, Becomes(j, next)
        PROVE  FALSE
    BY <2>1, <2>3 DEF Becomes
  <2>4. ASSUME NEW c \in ClientIDs, NEW req \in Requests,
               \/ ObjectHandler(j, c, req) \/ CreateTaskHandler(j, c, req)
               \/ SearchHandler(j, c, req) \/ SearchAssociationsHandler(j, c, req)
               \/ customSourceRoutingHandler(j, c, req)
        PROVE  FALSE
    BY <2>1, <2>4 DEF ObjectHandler, CreateTaskHandler, SearchHandler,
         SearchAssociationsHandler, customSourceRoutingHandler, Start, Refuse
  <2>5. CASE \/ \E t \in ObjectTypes : LoadFields(j, t)
             \/ search_Panics(j) \/ Token(j) \/ PrepareFails(j) \/ RequestFails(j)
             \/ ReceiveAnswer(j)
    BY <2>3, <2>5 DEF LoadFields, search_Panics, Token, PrepareFails, RequestFails, ReceiveAnswer
  <2>6. CASE \/ ObjectGet(j) \/ CreateTask(j) \/ Search(j) \/ getRecord(j)
             \/ \E id \in RecordIDs : findRecord(j, id)
    BY <2>3, <2>6 DEF ObjectGet, CreateTask, Search, getRecord, findRecord
  <2>7. ASSUME NEW id, NEW record, Write(j, id, record)
        PROVE  FALSE
    BY <2>2, <2>7 DEF Write
  <2>8. CASE ObjectUpdate(j) \/ \E id \in RecordIDs : ObjectCreate(j, id)
    BY <2>7, <2>8 DEF ObjectUpdate, ObjectCreate
  <2> QED BY <1>4, <2>4, <2>5, <2>6, <2>8 DEF CallStep
<1>5. ASSUME NEW next, Becomes(k, next)
      PROVE  call'[k] = next
  BY <1>3, <1>5 DEF Becomes
<1>6. CASE CallStep(k)
  <2>2. ASSUME NEW c \in ClientIDs, NEW req \in Requests,
               \/ ObjectHandler(k, c, req) \/ CreateTaskHandler(k, c, req)
               \/ SearchHandler(k, c, req) \/ SearchAssociationsHandler(k, c, req)
               \/ customSourceRoutingHandler(k, c, req)
        PROVE  FALSE
    BY <2>2 DEF ObjectHandler, CreateTaskHandler, SearchHandler,
         SearchAssociationsHandler, customSourceRoutingHandler, Receives, NoCall
  <2>3. r.pc \notin {"prepare", "done"}
    OBVIOUS
  <2>4. ~ \/ \E t \in ObjectTypes : LoadFields(k, t)
          \/ search_Panics(k) \/ Token(k) \/ PrepareFails(k) \/ ReceiveAnswer(k)
    BY <2>3 DEF LoadFields, search_Panics, Token, PrepareFails, ReceiveAnswer
  <2>5. ~RequestFails(k)
    <3>1. Failed(r).code # "200"
      BY <1>1, FailedOK
    <3> QED BY <1>5, <3>1 DEF RequestFails
  <2>6. ~CreateTask(k)
    <3>1. Answered(r, "201").code = "201"
      BY <1>1 DEF Answered, CallOK, Call
    <3> QED BY <1>5, <3>1 DEF CreateTask
  <2>7. ~ \E id \in RecordIDs : findRecord(k, id)
    <3> SUFFICES ASSUME NEW id \in RecordIDs, findRecord(k, id) PROVE FALSE
      OBVIOUS
    <3>1. call'[k] = [r EXCEPT !.pc = "prepare", !.found = id]
      BY <1>5 DEF findRecord
    <3>2. call'[k].code = r.code
      BY <1>1, <3>1 DEF CallOK, Call
    <3> QED BY <1>1, <3>2
  <2> QED BY <1>6, <2>2, <2>4, <2>5, <2>6, <2>7 DEF CallStep
<1>7. CASE \E id \in RecordIDs : Exists(id) /\ CrmUser(id)
  <2>1. PICK id \in RecordIDs : call' = Moved(id)
    BY <1>7 DEF CrmUser, CrmEdit
  <2>2. call'[k].code = r.code
    BY <1>1, <2>1 DEF Moved, CallOK, Call
  <2> QED BY <1>1, <2>2
<1>8. CASE FieldsStep \/ \E c \in ClientIDs : ClientChanges(c)
  BY <1>2, <1>8 DEF FieldsStep, ClientChanges, recordVars
<1>9. CASE Crash
  BY <1>9 DEF Crash, NoCall
<1> QED BY <1>2, <1>4, <1>6, <1>7, <1>8, <1>9 DEF RecordsNext, allVars, recordVars

\* A get, whatever the CRM's users and the custom-fields handlers do meanwhile,
\* tells the record as it is when the CRM answers.
THEOREM GetsTell == RecordsSpec => GetsTellTheRecord
<1>1. ASSUME TypeOK, FieldsInv, RecordsTypeOK, RecordsInv, [RecordsNext]_allVars,
             NEW k \in Calls, Answers(k, "get"), NEW told,
             told = ToldOf(crm[call[k].req.id], call[k].req.id, SchemaOf(call[k], call[k].req.type))
      PROVE  IF call[k].req.fields = {} THEN call'[k].record = told
             ELSE /\ DOMAIN call'[k].record = call[k].req.fields
                  /\ \A f \in call[k].req.fields :
                       call'[k].record[f] = IF f \in DOMAIN told THEN told[f] ELSE Null
  <2> DEFINE r == call[k]
             id == r.req.id
             schema == SchemaOf(r, r.req.type)
             asked == IF getSchemaAPIFields(schema) = {} THEN {IdField}
                      ELSE getSchemaAPIFields(schema)
             result == formatSObject(ReplyOf(id, crm[id], asked), schema)
  <2>1. r.pc = "crm" /\ r.req.op = "get" /\ call'[k].code = "200"
    BY <1>1 DEF Answers
  <2>2. ObjectGet(k)
    <3>1. ~Search(k) /\ ~getRecord(k) /\ ~ObjectUpdate(k) /\ ~ \E i \in RecordIDs : ObjectCreate(k, i)
      BY <2>1 DEF Search, Searches, getRecord, ObjectUpdate, ObjectCreate
    <3> QED BY <1>1, <2>1, <3>1, AnswerSteps
  <2>3. CallOK(r)
    BY <1>1, InvOfCalls DEF CallsInv
  <2>4. r \in Call /\ r.req \in Requests
    BY <2>1, <2>3 DEF CallOK
  <2>5. r.req.type \in ObjectTypes /\ id \in RecordIDs
    BY <2>1, <2>4, RecordsAssumption
  <2>6. schema \in SUBSET FieldIDs
    BY <2>4, <2>5, SchemaFields
  <2>7. /\ Exists(id) /\ crm[id].type = r.req.type /\ Readable(crm[id].type, asked)
        /\ Becomes(k, [Answered(r, "200") EXCEPT !.record = Filtered(result, r.req.fields)])
    BY <2>2 DEF ObjectGet
  <2>8. crm[id] \in CrmRecord /\ RecordFits(crm[id])
    BY <1>1, <2>5, <2>7, ThereFacts
  <2> HIDE DEF schema
  <2>9. result = told
    BY <1>1, <2>5, <2>6, <2>7, <2>8, FormatTells DEF schema
  <2> HIDE DEF result
  <2>10. call'[k].record = Filtered(told, r.req.fields)
    BY <1>1, <2>4, <2>7, <2>9 DEF Becomes, RecordsTypeOK, Answered, Call
  <2> QED BY <2>10 DEF Filtered
<1>2. TypeOK /\ FieldsInv /\ RecordsTypeOK /\ RecordsInv /\ [RecordsNext]_allVars
        => [\A k \in Calls : Answers(k, "get") =>
              LET r == call[k]
                  told == ToldOf(crm[r.req.id], r.req.id, SchemaOf(r, r.req.type))
              IN  IF r.req.fields = {} THEN call'[k].record = told
                  ELSE /\ DOMAIN call'[k].record = r.req.fields
                       /\ \A f \in r.req.fields :
                            call'[k].record[f] = IF f \in DOMAIN told THEN told[f] ELSE Null]_allVars
  BY <1>1
<1> QED BY <1>2, RecordsAlways, PTL DEF RecordsSpec, GetsTellTheRecord

\* What a body said of a field the schema has is read back as it was said.
THEOREM WritesAreReadBack == RecordsSpec => WritesReadBack
<1>1. ASSUME TypeOK, FieldsInv, RecordsTypeOK, RecordsInv, [RecordsNext]_allVars,
             NEW k \in Calls, Answers(k, "create") \/ Answers(k, "update"), NEW schema,
             schema = SchemaOf(call[k], call[k].req.type),
             NEW f \in (DOMAIN call[k].req.data \cap schema) \ {IdField}, NEW told,
             told = ToldOf(crm'[call'[k].found], call'[k].found, schema)
      PROVE  IF KindOf[f] = "to_one" /\ call[k].req.data[f] = Null THEN f \notin DOMAIN told
             ELSE told[f] = Said(f, call[k].req.data[f])
  <2> DEFINE r == call[k]
             t == r.req.type
             columns == apiSObject(schema, r.req.data)
  <2>1. r.pc = "crm" /\ r.req.op \in {"create", "update"} /\ call'[k].code = "200"
    BY <1>1 DEF Answers
  <2>2. CallOK(r)
    BY <1>1, InvOfCalls DEF CallsInv
  <2>3. r \in Call /\ r.req \in Requests
    BY <2>1, <2>2 DEF CallOK
  <2>4. /\ t \in ObjectTypes /\ (r.req.op = "update" => r.req.id \in RecordIDs)
        /\ DOMAIN r.req.data \subseteq FieldIDs
    BY <2>1, <2>3, RecordsAssumption
  <2>5. schema \in SUBSET FieldIDs
    BY <1>1, <2>3, <2>4, SchemaFields
  <2>6. Column(f) \in DOMAIN columns
    BY <1>1, <2>4, <2>5, SentColumns
  <2>7. ASSUME NEW id \in RecordIDs, NEW record, Write(k, id, record)
        PROVE  call'[k].found = id /\ crm'[id] = record
    <3>1. Failed(r).code # "200"
      BY <2>1, <2>2, FailedOK
    <3>2. call'[k] = [Answered(r, "200") EXCEPT !.found = id]
      BY <2>1, <2>7, <3>1 DEF Write, Moved
    <3>3. call'[k].found = id
      BY <2>3, <3>2 DEF Answered, Call
    <3>4. crm'[id] = record
      BY <1>1, <2>7 DEF Write, ChangeRecord, RecordsTypeOK
    <3> QED BY <3>3, <3>4
  <2>8. \E id \in RecordIDs : /\ Accepts(t, columns) /\ call'[k].found = id
                              /\ crm'[id].columns[Column(f)] = columns[Column(f)]
    <3>1. ObjectUpdate(k) \/ \E id \in RecordIDs : ObjectCreate(k, id)
      <4>1. ~Search(k) /\ ~getRecord(k) /\ ~ObjectGet(k)
        BY <2>1 DEF Search, Searches, getRecord, ObjectGet
      <4> QED BY <1>1, <2>1, <4>1, AnswerSteps
    <3>2. CASE ObjectUpdate(k)
      <4> DEFINE old == crm[r.req.id]
                 record == [old EXCEPT !.columns = Overlay(columns, @)]
      <4>1. /\ r.req.op = "update" /\ Exists(r.req.id) /\ old.type = t
            /\ Accepts(t, columns) /\ Write(k, r.req.id, record)
        BY <1>1, <3>2 DEF ObjectUpdate
      <4>2. old \in CrmRecord
        BY <1>1, <2>4, <4>1, ThereFacts
      <4>3. old.columns \in [Columns(t) -> CrmValues]
        BY <4>1, <4>2, RecordFacts
      <4>4. record.columns = Overlay(columns, old.columns)
        BY <4>2 DEF CrmRecord
      <4>5. Column(f) \in Columns(t)
        BY <2>6, <4>1 DEF Accepts
      <4>6. record.columns[Column(f)] = columns[Column(f)]
        BY <2>6, <4>3, <4>4, <4>5 DEF Overlay
      <4> HIDE DEF record, columns
      <4>7. call'[k].found = r.req.id /\ crm'[r.req.id] = record
        BY <2>4, <2>7, <4>1
      <4> QED BY <2>4, <4>1, <4>6, <4>7
    <3>3. ASSUME NEW id \in RecordIDs, ObjectCreate(k, id)
          PROVE  /\ Accepts(t, columns) /\ call'[k].found = id
                 /\ crm'[id].columns[Column(f)] = columns[Column(f)]
      <4> DEFINE record == [type |-> t,
                            columns |-> Overlay(columns, [col \in Columns(t) |-> Null])]
      <4>1. Accepts(t, columns) /\ Write(k, id, record)
        BY <1>1, <3>3 DEF ObjectCreate
      <4>2. Column(f) \in Columns(t)
        BY <2>6, <4>1 DEF Accepts
      <4>3. record.columns[Column(f)] = columns[Column(f)]
        BY <2>6, <4>2 DEF Overlay
      <4> HIDE DEF record, columns
      <4>4. call'[k].found = id /\ crm'[id] = record
        BY <2>7, <4>1
      <4> QED BY <4>1, <4>3, <4>4
    <3> QED BY <3>1, <3>2, <3>3
  <2>9. PICK id \in RecordIDs : /\ Accepts(t, columns) /\ call'[k].found = id
                                /\ crm'[id].columns[Column(f)] = columns[Column(f)]
    BY <2>8
  <2>10. PICK record : record = crm'[id]
    OBVIOUS
  <2>11. told = ToldOf(record, id, schema)
    BY <1>1, <2>9, <2>10
  <2>12. PICK data : data = r.req.data
    OBVIOUS
  <2>13. /\ DOMAIN data \subseteq FieldIDs /\ f \in (DOMAIN data \cap schema) \ {IdField}
         /\ Accepts(t, apiSObject(schema, data))
         /\ record.columns[Column(f)] = apiSObject(schema, data)[Column(f)]
    BY <1>1, <2>4, <2>9, <2>10, <2>12
  <2> HIDE DEF t
  <2>14. IF KindOf[f] = "to_one" /\ data[f] = Null THEN f \notin DOMAIN ToldOf(record, id, schema)
         ELSE /\ f \in DOMAIN ToldOf(record, id, schema)
              /\ ToldOf(record, id, schema)[f] = Said(f, data[f])
    BY <2>4, <2>5, <2>13, WrittenTells
  <2> QED BY <2>11, <2>12, <2>14
<1>2. TypeOK /\ FieldsInv /\ RecordsTypeOK /\ RecordsInv /\ [RecordsNext]_allVars
        => [\A k \in Calls : Answers(k, "create") \/ Answers(k, "update") =>
              LET r == call[k]
                  schema == SchemaOf(r, r.req.type)
                  told == ToldOf(crm'[call'[k].found], call'[k].found, schema)
              IN  \A f \in (DOMAIN r.req.data \cap schema) \ {IdField} :
                    IF KindOf[f] = "to_one" /\ r.req.data[f] = Null THEN f \notin DOMAIN told
                    ELSE told[f] = Said(f, r.req.data[f])]_allVars
  BY <1>1
<1> QED BY <1>2, RecordsAlways, PTL DEF RecordsSpec, WritesReadBack

\* Since base fields are registered together or not at all, and a call loads the
\* rows of a type with one query, no search finds nameless records but of a type
\* that has none.
THEOREM FoundAreNamed == RecordsSpec => FoundRecordsAreNamed
<1>1. ASSUME TypeOK, FieldsInv, RecordsTypeOK, RecordsInv, [RecordsNext]_allVars,
             NEW k \in Calls, Answers(k, "search"), NEW info \in call'[k].infos, info.id = Empty
      PROVE  BaseOf(call[k].schemas[info.type], info.type) = {}
  <2> DEFINE r == call[k]
             query == QueryOf(r)
             t == info.type
  <2>1. r.pc = "crm" /\ r.req.op = "search" /\ call'[k].code = "200"
    BY <1>1 DEF Answers
  <2>2. Search(k)
    <3>1. /\ ~ObjectGet(k) /\ ~getRecord(k) /\ ~ObjectUpdate(k)
          /\ ~ \E i \in RecordIDs : ObjectCreate(k, i)
      BY <2>1 DEF ObjectGet, getRecord, ObjectUpdate, ObjectCreate
    <3> QED BY <1>1, <2>1, <3>1, AnswerSteps
  <2>3. r \in Call
    BY <1>1 DEF RecordsTypeOK
  <2>4. PICK ids \in Results(query, ThereIs) :
          call' = [call EXCEPT ![k] = [Answered(r, "200") EXCEPT !.infos =
            {ObjectInfo(id, crm[id], query.asked[crm[id].type], SchemaOf(r, crm[id].type))
               : id \in ids}]]
    BY <2>2 DEF Search, Becomes
  <2>5. info \in {ObjectInfo(id, crm[id], query.asked[crm[id].type], SchemaOf(r, crm[id].type))
                    : id \in ids}
    BY <1>1, <2>3, <2>4 DEF RecordsTypeOK, Answered, Call
  <2>6. PICK id \in ids :
          info = ObjectInfo(id, crm[id], query.asked[crm[id].type], SchemaOf(r, crm[id].type))
    BY <2>5
  <2>7. id \in RecordIDs /\ Exists(id) /\ Matches(query, crm[id])
    <3> HIDE DEF query
    <3> QED BY DEF Results, ThereIs
  <2>8. t = crm[id].type /\ t \in DOMAIN query.asked /\ IdField \notin query.asked[t]
    <3> HIDE DEF query
    <3>1. t = crm[id].type /\ info.id = IF IdField \in query.asked[t] THEN id ELSE Empty
      BY <2>6 DEF ObjectInfo
    <3>2. id # Empty
      BY <2>7, SearchAssumption
    <3> QED BY <1>1, <2>7, <3>1, <3>2 DEF Matches
  <2>9. t \in ObjectTypes
    BY <1>1, <2>7, <2>8, ThereFacts, RecordFacts
  <2>10. query.asked[t] = getSchemaAPIFields(SchemaOf(r, t))
    <3> DEFINE s == SearchParameters(r.req.params)
    <3>1. query = Query(s, SchemasOf(r))
      BY <2>1 DEF QueryOf, ParametersOf
    <3>2. \A i \in DOMAIN s.returning : s.returning[i] = {}
      BY DEF SearchParameters, GetSearchParameters
    <3>3. SchemasOf(r)[t] = SchemaOf(r, t)
      BY <2>9 DEF SchemasOf
    <3>4. CASE s.field # Empty
      <4>1. query = SoqlQuery(s, SchemasOf(r))
        BY <3>1, <3>4 DEF Query
      <4> HIDE DEF s, query
      <4> QED BY <2>8, <3>3, <4>1 DEF SoqlQuery
    <3>5. CASE s.field = Empty
      <4>1. query = SoslQuery(s, SchemasOf(r))
        BY <3>1, <3>5 DEF Query
      <4>2. DOMAIN s.returning = DOMAIN RequestedTypes(r.req.params)
        BY DEF SearchParameters, GetSearchParameters
      <4> HIDE DEF s, query
      <4> QED BY <2>8, <3>2, <3>3, <4>1 DEF SoslQuery
    <3> QED BY <3>4, <3>5
  <2>11. IdField \notin SchemaOf(r, t)
    BY <2>8, <2>10, IdColumn, SObjectAssumption DEF getSchemaAPIFields
  <2>12. BaseOf(r.schemas[t], t) \in {{}, BaseRows(t)}
    BY <1>1, <2>9 DEF RecordsInv, SchemasWhole
  <2>13. [type |-> t, field |-> IdField, custom |-> FALSE] \in BaseRows(t)
    BY <2>9, RecordsAssumption DEF BaseRows
  <2>14. BaseOf(r.schemas[t], t) # BaseRows(t)
    BY <2>11, <2>13 DEF BaseOf, SchemaOf, FieldsOf
  <2> QED BY <2>12, <2>14
<1>2. TypeOK /\ FieldsInv /\ RecordsTypeOK /\ RecordsInv /\ [RecordsNext]_allVars
        => [\A k \in Calls : Answers(k, "search") =>
              \A info \in call'[k].infos :
                info.id = Empty => BaseOf(call[k].schemas[info.type], info.type) = {}]_allVars
  BY <1>1
<1> QED BY <1>2, RecordsAlways, PTL DEF RecordsSpec, FoundRecordsAreNamed
=============================================================================
