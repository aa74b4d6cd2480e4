-------------------------------- MODULE Repo --------------------------------
(***************************************************************************)
(* The four tables the service keeps in SQLite and the statements and      *)
(* transactions of package repo that write them.  Every operation here is  *)
(* one atomic step: the pool holds a single connection (db/db.go), so a    *)
(* statement, or everything between Begin and Commit, runs alone, and a    *)
(* transaction that returns early is rolled back.  What the handlers do    *)
(* BETWEEN two such steps is the business of the modules that extend this  *)
(* one.                                                                    *)
(***************************************************************************)
EXTENDS Naturals, FiniteSets

CONSTANTS
    UserIDs,      \* PBXware user ids (the user_id header)
    ClientIDs,    \* ids the clients table may hold
    Names,        \* client names given to "client create"
    Passwords,    \* CRM passwords
    ObjectTypes,  \* CRM object types that have a data schema
    FieldIDs,     \* field ids of the data schemas
    NoRow         \* the absence of a row

ASSUME NoRowAssumption ==
    /\ NoRow \notin [name: Names, secret: Nat, app: {"", "Salesforce", "Custom"},
                     status: {"", "ACTIVE", "DELETED", "REVOKED", "ROUTING"}]
    /\ NoRow \notin [password: Passwords]
    /\ NoRow \notin [refresh: Nat, fresh: BOOLEAN]

VARIABLES
    clients,      \* [ClientIDs -> ClientRow or NoRow]
    users,        \* [Accounts -> UserRow or NoRow]
    tokens,       \* [Accounts -> TokenRow or NoRow]
    dataSchemas   \* [ClientIDs -> set of SchemaRow]

repoVars == <<clients, users, tokens, dataSchemas>>

\* Primary key (user_id, client_id) of the tables users and tokens.
Accounts == UserIDs \X ClientIDs
UserOf(a) == a[1]
ClientOf(a) == a[2]

ClientStatus == {"", "ACTIVE", "DELETED", "REVOKED", "ROUTING"}
ClientRow == [name: Names, secret: Nat, app: {"", "Salesforce", "Custom"},
              status: ClientStatus]

UserRow == [password: Passwords]

\* refresh: the refresh token's number, 0 for the empty string; fresh: whether
\*   the expiry still lies in the future.
TokenRow == [refresh: Nat, fresh: BOOLEAN]

\* Primary key (client_id, object_type, field_id); the client is the index.
SchemaRow == [type: ObjectTypes, field: FieldIDs, custom: BOOLEAN]

RepoTypeOK ==
    /\ clients \in [ClientIDs -> ClientRow \cup {NoRow}]
    /\ users \in [Accounts -> UserRow \cup {NoRow}]
    /\ tokens \in [Accounts -> TokenRow \cup {NoRow}]
    /\ dataSchemas \in [ClientIDs -> SUBSET SchemaRow]

-----------------------------------------------------------------------------
(* Clients *)

\* name is UNIQUE: the INSERT fails when any row carries it.
ClientsCreate(id, row) ==
    /\ clients[id] = NoRow
    /\ \A c \in ClientIDs : clients[c] # NoRow => clients[c].name # row.name
    /\ clients' = [clients EXCEPT ![id] = row]
    /\ UNCHANGED <<users, tokens, dataSchemas>>

\* Mutant: the two string arguments are swapped.
UpdateStatusSwapped(id, app, status) ==
    /\ clients[id] # NoRow
    /\ clients' = [clients EXCEPT ![id].app = status, ![id].status = app]
    /\ UNCHANGED <<users, tokens, dataSchemas>>

\* ErrClientNotFound, and no change, when no row is affected.
ClientsUpdateStatus(id, app, status) ==
    /\ clients[id] # NoRow
    /\ clients' = [clients EXCEPT ![id].app = app, ![id].status = status]
    /\ UNCHANGED <<users, tokens, dataSchemas>>

\* Mutant: a client without app gets its routing status back.
ResetSecretRestores(id, secret) ==
    /\ clients[id] # NoRow
    /\ clients' = [clients EXCEPT ![id].secret = secret,
                                  ![id].status = IF clients[id].app = "" THEN "ROUTING"
                                                 ELSE "REVOKED"]
    /\ UNCHANGED <<users, tokens, dataSchemas>>

ClientsResetSecret(id, secret) ==
    /\ clients[id] # NoRow
    /\ clients' = [clients EXCEPT ![id].secret = secret,
                                  ![id].status = "REVOKED"]
    /\ UNCHANGED <<users, tokens, dataSchemas>>

\* Mutant: the table tokens is forgotten.
DeleteClientKeepsTokens(id) ==
    /\ clients[id] # NoRow
    /\ clients' = [clients EXCEPT ![id].status = "DELETED"]
    /\ dataSchemas' = [dataSchemas EXCEPT ![id] = {}]
    /\ users' = [a \in Accounts |-> IF ClientOf(a) = id THEN NoRow ELSE users[a]]
    /\ UNCHANGED tokens

\* Mutant: the row of the client is deleted with the others.
DeleteClientRow(id) ==
    /\ clients[id] # NoRow
    /\ clients' = [clients EXCEPT ![id] = NoRow]
    /\ dataSchemas' = [dataSchemas EXCEPT ![id] = {}]
    /\ users' = [a \in Accounts |-> IF ClientOf(a) = id THEN NoRow ELSE users[a]]
    /\ tokens' = [a \in Accounts |-> IF ClientOf(a) = id THEN NoRow ELSE tokens[a]]

\* One transaction over all four tables.
DeleteClientData(id) ==
    /\ clients[id] # NoRow
    /\ clients' = [clients EXCEPT ![id].status = "DELETED"]
    /\ dataSchemas' = [dataSchemas EXCEPT ![id] = {}]
    /\ users' = [a \in Accounts |-> IF ClientOf(a) = id THEN NoRow ELSE users[a]]
    /\ tokens' = [a \in Accounts |-> IF ClientOf(a) = id THEN NoRow ELSE tokens[a]]

-----------------------------------------------------------------------------
(* Users *)

\* A plain INSERT: it fails on an existing (id, client_id).
UsersCreate(a, row) ==
    /\ users[a] = NoRow
    /\ users' = [users EXCEPT ![a] = row]
    /\ UNCHANGED <<clients, tokens, dataSchemas>>

\* Mutant: only the user's row is deleted.
UsersDeleteKeepsToken(a) ==
    /\ users[a] # NoRow
    /\ users' = [users EXCEPT ![a] = NoRow]
    /\ UNCHANGED <<clients, tokens, dataSchemas>>

\* "user not found" rolls the transaction back, so a token without its user
\* row is left alone.
UsersDelete(a) ==
    /\ users[a] # NoRow
    /\ users' = [users EXCEPT ![a] = NoRow]
    /\ tokens' = [tokens EXCEPT ![a] = NoRow]
    /\ UNCHANGED <<clients, dataSchemas>>

-----------------------------------------------------------------------------
(* Tokens *)

\* Mutant: the rows of the client are replaced, whoever their user is.
TokensSaveClient(a, row) ==
    /\ tokens' = [b \in Accounts |->
                    IF b = a \/ (ClientOf(b) = ClientOf(a) /\ tokens[b] # NoRow)
                    THEN row ELSE tokens[b]]
    /\ UNCHANGED <<clients, users, dataSchemas>>

\* INSERT OR REPLACE, whatever is there and whoever the user is.
TokensSave(a, row) ==
    /\ tokens' = [tokens EXCEPT ![a] = row]
    /\ UNCHANGED <<clients, users, dataSchemas>>

-----------------------------------------------------------------------------
(* Data schemas *)

\* Rows of one object type, the custom ones left out on request.
DataSchemasLoad(type, id, excludeCustom) ==
    {r \in dataSchemas[id] : r.type = type /\ (excludeCustom => ~r.custom)}

\* The rows of each object type given must have distinct field ids, or the
\* INSERT violates the primary key and the transaction is rolled back.
KeyUnique(rows) ==
    \A r, s \in rows : r.type = s.type /\ r.field = s.field => r = s

\* Mutant: the rows of the object types given are deleted, and no others.
SaveKeepsOtherTypes(id, rows) ==
    /\ KeyUnique(rows)
    /\ dataSchemas' = [dataSchemas EXCEPT
         ![id] = {r \in @ : r.type \notin {s.type : s \in rows}} \cup rows]
    /\ UNCHANGED <<clients, users, tokens>>

\* Deletes every row of the client, of whatever object type, before inserting.
DataSchemasSave(id, rows) ==
    /\ KeyUnique(rows)
    /\ dataSchemas' = [dataSchemas EXCEPT ![id] = rows]
    /\ UNCHANGED <<clients, users, tokens>>
=============================================================================
