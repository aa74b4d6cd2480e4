----------------------------- MODULE RepoProofs -----------------------------
(***************************************************************************)
(* What the operations of package repo do to the shapes of the four        *)
(* tables: lemmas the proofs about Sessions, Clients and DataFields cite.  *)
(***************************************************************************)
EXTENDS Repo, TLAPS

\* A TLA+ step that leaves the tables alone keeps their types.
LEMMA RepoStutterType ==
    RepoTypeOK /\ UNCHANGED repoVars => RepoTypeOK'
BY DEF RepoTypeOK, repoVars

\* The four writes of package repo that sessions cause keep the tables' types.
LEMMA TokensSaveType ==
    ASSUME NEW a \in Accounts, NEW row \in TokenRow, RepoTypeOK, TokensSave(a, row)
    PROVE  RepoTypeOK'
BY DEF RepoTypeOK, TokensSave

LEMMA UsersCreateType ==
    ASSUME NEW a \in Accounts, NEW row \in UserRow, RepoTypeOK, UsersCreate(a, row)
    PROVE  RepoTypeOK'
BY DEF RepoTypeOK, UsersCreate

LEMMA UsersDeleteType ==
    ASSUME NEW a \in Accounts, RepoTypeOK, UsersDelete(a)
    PROVE  RepoTypeOK'
BY DEF RepoTypeOK, UsersDelete

LEMMA DeleteClientDataType ==
    ASSUME NEW c \in ClientIDs, RepoTypeOK, DeleteClientData(c)
    PROVE  RepoTypeOK'
<1>1. clients' \in [ClientIDs -> ClientRow \cup {NoRow}]
  BY DEF RepoTypeOK, DeleteClientData, ClientRow, ClientStatus
<1>2. /\ users' \in [Accounts -> UserRow \cup {NoRow}]
      /\ tokens' \in [Accounts -> TokenRow \cup {NoRow}]
  BY DEF RepoTypeOK, DeleteClientData
<1>3. dataSchemas' \in [ClientIDs -> SUBSET SchemaRow]
  BY DEF RepoTypeOK, DeleteClientData
<1> QED BY <1>1, <1>2, <1>3 DEF RepoTypeOK

LEMMA ClientsCreateType ==
    ASSUME NEW c \in ClientIDs, NEW row \in ClientRow, RepoTypeOK,
           ClientsCreate(c, row)
    PROVE  RepoTypeOK'
BY DEF RepoTypeOK, ClientsCreate

LEMMA ClientsUpdateStatusType ==
    ASSUME NEW c \in ClientIDs, NEW app \in {"", "Salesforce", "Custom"},
           NEW status \in ClientStatus, RepoTypeOK,
           ClientsUpdateStatus(c, app, status)
    PROVE  RepoTypeOK'
<1> DEFINE row == [clients[c] EXCEPT !.app = app, !.status = status]
<1>1. row \in ClientRow
  BY DEF RepoTypeOK, ClientsUpdateStatus, ClientRow
<1>2. clients' = [clients EXCEPT ![c] = row]
  BY DEF RepoTypeOK, ClientsUpdateStatus
<1> HIDE DEF row
<1> QED BY <1>1, <1>2 DEF RepoTypeOK, ClientsUpdateStatus

LEMMA ClientsResetSecretType ==
    ASSUME NEW c \in ClientIDs, NEW secret \in Nat, RepoTypeOK,
           ClientsResetSecret(c, secret)
    PROVE  RepoTypeOK'
<1> DEFINE row == [clients[c] EXCEPT !.secret = secret, !.status = "REVOKED"]
<1>1. row \in ClientRow
  BY DEF RepoTypeOK, ClientsResetSecret, ClientRow, ClientStatus
<1>2. clients' = [clients EXCEPT ![c] = row]
  BY DEF RepoTypeOK, ClientsResetSecret
<1> HIDE DEF row
<1> QED BY <1>1, <1>2 DEF RepoTypeOK, ClientsResetSecret

LEMMA DataSchemasSaveType ==
    ASSUME NEW c \in ClientIDs, NEW rows \in SUBSET SchemaRow, RepoTypeOK,
           DataSchemasSave(c, rows)
    PROVE  RepoTypeOK'
BY DEF RepoTypeOK, DataSchemasSave

\* The rows of clients activated for Salesforce, where the other modules start.
LEMMA ActiveRows ==
    [name: Names, secret: {1}, app: {"Salesforce"}, status: {"ACTIVE"}] \subseteq ClientRow
<1> SUFFICES ASSUME NEW r \in [name: Names, secret: {1}, app: {"Salesforce"},
                               status: {"ACTIVE"}]
             PROVE  r \in ClientRow
  OBVIOUS
<1>1. r = [name |-> r.name, secret |-> r.secret, app |-> r.app, status |-> r.status]
  OBVIOUS
<1>2. /\ r.name \in Names /\ r.secret \in Nat
      /\ r.app = "Salesforce" /\ r.status = "ACTIVE"
  OBVIOUS
<1> QED BY <1>1, <1>2 DEF ClientRow, ClientStatus
=============================================================================
