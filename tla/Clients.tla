------------------------------ MODULE Clients ------------------------------
(***************************************************************************)
(* The life of a client: the rows of the table clients, the JWTs issued    *)
(* against them, and the three kinds of actor that touch them.  A PBXware  *)
(* system exchanges id and secret for a JWT and then calls the config      *)
(* endpoints and DELETE integration with it; a router calls the custom     *)
(* source endpoint with the bare client id; an administrator creates and   *)
(* resets clients from the command line, in a process of its own over the  *)
(* same database.                                                          *)
(***************************************************************************)
EXTENDS Repo

CONSTANTS
    Peers,       \* PBXware systems, each with one token request at a time
    Admins,      \* invocations of the command line at once
    MaxSecrets   \* bound on the secrets drawn

ASSUME ClientsAssumption ==
    /\ MaxSecrets \in Nat
    /\ NoRow \notin ClientIDs
    /\ NoRow \notin [client: ClientIDs, secret: Nat, overtaken: BOOLEAN]
    /\ NoRow \notin [client: ClientIDs, drew: Nat, read: Nat]

VARIABLES
    drawn,     \* how many secrets crypt.Random has drawn
    request,   \* [Peers -> Grant or NoRow], a token request found correct
    jwt,       \* [Peers -> Grant or NoRow], the JWT the peer holds
    reply,     \* [Peers -> Reply], the last response of /config
    command,   \* [Admins -> Command or NoRow], a create or reset yet to print
    printed,   \* history: the secrets that were printed
    lost       \* history: the secrets whose command failed before it printed

clientVars == <<drawn, request, jwt, reply, command, printed, lost>>
vars == <<clients, users, tokens, dataSchemas,
          drawn, request, jwt, reply, command, printed, lost>>

\* A token request, or the JWT it was answered with.  secret is the one
\* presented, overtaken (history) says that the client was reset since.
TokenGrant == [client: ClientIDs, secret: Nat, overtaken: BOOLEAN]

\* A command that wrote the secret it drew.  read is the secret of the row it is
\* about to print, 0 before the row was read back.
Command == [client: ClientIDs, drew: Nat, read: Nat]

\* What /config answered, and what it answers about.
Reply == [client: ClientIDs \cup {NoRow}, code: {"none", "200", "409"}]

Apps == {"Salesforce", "Custom"}

Init ==
    /\ clients = [c \in ClientIDs |-> NoRow]
    /\ users = [a \in Accounts |-> NoRow]
    /\ tokens = [a \in Accounts |-> NoRow]
    /\ dataSchemas = [c \in ClientIDs |-> {}]
    /\ drawn = 0
    /\ request = [p \in Peers |-> NoRow]
    /\ jwt = [p \in Peers |-> NoRow]
    /\ reply = [p \in Peers |-> [client |-> NoRow, code |-> "none"]]
    /\ command = [a \in Admins |-> NoRow]
    /\ printed = {}
    /\ lost = {}

-----------------------------------------------------------------------------
(* GET token *)

\* Mutant: the secret is not compared.
TokenRequestAnySecret(p, c, s) ==
    /\ request[p] = NoRow
    /\ clients[c] # NoRow
    /\ s <= drawn
    /\ request' = [request EXCEPT
                     ![p] = [client |-> c, secret |-> s, overtaken |-> FALSE]]
    /\ UNCHANGED <<repoVars, drawn, jwt, reply, command, printed, lost>>

\* The row is read and its secret compared; its status is not looked at.  Any
\* other secret is refused with 403, which changes nothing.
TokenRequest(p, c, s) ==
    /\ request[p] = NoRow
    /\ clients[c] # NoRow
    /\ s = clients[c].secret
    /\ request' = [request EXCEPT
                     ![p] = [client |-> c, secret |-> s, overtaken |-> FALSE]]
    /\ UNCHANGED <<repoVars, drawn, jwt, reply, command, printed, lost>>

\* IssueAccessToken signs the client id, without another look at the row.
IssueAccessToken(p) ==
    /\ request[p] # NoRow
    /\ jwt' = [jwt EXCEPT ![p] = request[p]]
    /\ request' = [request EXCEPT ![p] = NoRow]
    /\ UNCHANGED <<repoVars, drawn, reply, command, printed, lost>>

\* The setting that holds the signing key is missing or unreadable, or signing
\* fails: 500, and the client goes without a JWT.
IssueFails(p) ==
    /\ request[p] # NoRow
    /\ request' = [request EXCEPT ![p] = NoRow]
    /\ UNCHANGED <<repoVars, drawn, jwt, reply, command, printed, lost>>

\* The JWT is valid for an hour.
Expire(p) ==
    /\ jwt[p] # NoRow
    /\ jwt' = [jwt EXCEPT ![p] = NoRow]
    /\ UNCHANGED <<repoVars, drawn, request, reply, command, printed, lost>>

-----------------------------------------------------------------------------
(* The endpoints behind authMiddleware: a valid JWT, of whatever client, and *)
(* of whatever mount of whatever app                                         *)

\* Mutant: the status compared is another one.
ConfigRefusesRevoked(p) ==
    /\ jwt[p] # NoRow
    /\ clients[jwt[p].client] # NoRow
    /\ reply' = [reply EXCEPT ![p] =
         [client |-> jwt[p].client,
          code |-> IF clients[jwt[p].client].status = "REVOKED" THEN "409" ELSE "200"]]
    /\ UNCHANGED <<repoVars, drawn, request, jwt, command, printed, lost>>

\* Refused for an ACTIVE client, answered for every other.
Config(p) ==
    /\ jwt[p] # NoRow
    /\ clients[jwt[p].client] # NoRow
    /\ reply' = [reply EXCEPT ![p] =
         [client |-> jwt[p].client,
          code |-> IF clients[jwt[p].client].status = "ACTIVE" THEN "409" ELSE "200"]]
    /\ UNCHANGED <<repoVars, drawn, request, jwt, command, printed, lost>>

\* Mutant: the status is written and the app's name is not.
VersionsKeepsApp(p, app) ==
    /\ jwt[p] # NoRow
    /\ app \in Apps
    /\ ClientsUpdateStatus(jwt[p].client, clients[jwt[p].client].app, "ACTIVE")
    /\ UNCHANGED clientVars

\* Activates the client for the app of the mount, whatever its status was.
Versions(p, app) ==
    /\ jwt[p] # NoRow
    /\ ClientsUpdateStatus(jwt[p].client, app, "ACTIVE")
    /\ UNCHANGED clientVars

DeleteIntegration(p) ==
    /\ jwt[p] # NoRow
    /\ DeleteClientData(jwt[p].client)
    /\ UNCHANGED clientVars

-----------------------------------------------------------------------------
(* The command line *)

\* client create <name> [--routing]: the row is inserted, and what was inserted
\* is what the command is about to print.
Create(a, id, name, routing) ==
    /\ command[a] = NoRow
    /\ drawn < MaxSecrets
    /\ ClientsCreate(id, [name |-> name, secret |-> drawn + 1, app |-> "",
                          status |-> IF routing THEN "ROUTING" ELSE ""])
    /\ drawn' = drawn + 1
    /\ command' = [command EXCEPT
                     ![a] = [client |-> id, drew |-> drawn + 1, read |-> drawn + 1]]
    /\ UNCHANGED <<request, jwt, reply, printed, lost>>

\* A token request or a JWT of c that was there before the reset.
Overtake(grants, c) ==
    [p \in Peers |->
        IF grants[p] # NoRow /\ grants[p].client = c
        THEN [grants[p] EXCEPT !.overtaken = TRUE]
        ELSE grants[p]]

\* Mutant: the row is read before the UPDATE.
ResetReadsFirst(a, c) ==
    /\ command[a] = NoRow
    /\ drawn < MaxSecrets
    /\ ClientsResetSecret(c, drawn + 1)
    /\ drawn' = drawn + 1
    /\ command' = [command EXCEPT
                     ![a] = [client |-> c, drew |-> drawn + 1, read |-> clients[c].secret]]
    /\ request' = Overtake(request, c)
    /\ jwt' = Overtake(jwt, c)
    /\ UNCHANGED <<reply, printed, lost>>

\* client reset <id>: the UPDATE.
ResetSecret(a, c) ==
    /\ command[a] = NoRow
    /\ drawn < MaxSecrets
    /\ ClientsResetSecret(c, drawn + 1)
    /\ drawn' = drawn + 1
    /\ command' = [command EXCEPT
                     ![a] = [client |-> c, drew |-> drawn + 1, read |-> 0]]
    /\ request' = Overtake(request, c)
    /\ jwt' = Overtake(jwt, c)
    /\ UNCHANGED <<reply, printed, lost>>

\* client reset <id>: the row is read back, with the secret of another reset if
\* that came in between.
ReadClient(a) ==
    /\ command[a] # NoRow
    /\ command[a].read = 0
    /\ command' = [command EXCEPT ![a].read = clients[command[a].client].secret]
    /\ UNCHANGED <<repoVars, drawn, request, jwt, reply, printed, lost>>

\* printClient, on what the command holds: the row may be another one by now.
PrintClient(a) ==
    /\ command[a] # NoRow
    /\ command[a].read # 0
    /\ command' = [command EXCEPT ![a] = NoRow]
    /\ printed' = printed \cup {command[a].read}
    /\ UNCHANGED <<repoVars, drawn, request, jwt, reply, lost>>

\* The row is not read (the service holds the database), or the command dies.
PrintFails(a) ==
    /\ command[a] # NoRow
    /\ command' = [command EXCEPT ![a] = NoRow]
    /\ lost' = lost \cup {command[a].drew}
    /\ UNCHANGED <<repoVars, drawn, request, jwt, reply, printed>>

Peer(p) ==
    \/ \E c \in ClientIDs, s \in 1..MaxSecrets : TokenRequest(p, c, s)
    \/ IssueAccessToken(p)
    \/ IssueFails(p)
    \/ Expire(p)
    \/ Config(p)
    \/ \E app \in Apps : Versions(p, app)
    \/ DeleteIntegration(p)

Admin(a) ==
    \/ \E c \in ClientIDs, name \in Names, routing \in BOOLEAN :
         Create(a, c, name, routing)
    \/ \E c \in ClientIDs : ResetSecret(a, c)
    \/ ReadClient(a)
    \/ PrintClient(a)
    \/ PrintFails(a)

Next ==
    \/ \E p \in Peers : Peer(p)
    \/ \E a \in Admins : Admin(a)

Spec == Init /\ [][Next]_vars

-----------------------------------------------------------------------------
(* Properties *)

\* The type invariant: rows, JWTs and command-line processes keep their shapes.
TypeOK ==
    /\ RepoTypeOK
    /\ drawn \in 0..MaxSecrets
    /\ request \in [Peers -> TokenGrant \cup {NoRow}]
    /\ jwt \in [Peers -> TokenGrant \cup {NoRow}]
    /\ reply \in [Peers -> Reply]
    /\ command \in [Admins -> Command \cup {NoRow}]
    /\ printed \in SUBSET Nat
    /\ lost \in SUBSET Nat

AppAgrees(row) ==
    row # NoRow =>
        /\ row.status = "ACTIVE" => row.app # ""
        /\ row.status \in {"", "ROUTING"} => row.app = ""

\* The columns app and status agree, whatever order of activations, deletions
\* and resets wrote them: an ACTIVE client names its app, and a client that was
\* never activated (pending, or ROUTING) names none.
AppMatchesStatus == \A c \in ClientIDs : AppAgrees(clients[c])

\* A grant presents the secret of its client, unless a reset came after it.
Current(g) == g # NoRow => g.overtaken \/ g.secret = clients[g.client].secret

\* A secret is worthless once it is reset: a JWT, or a token request still
\* being answered, that goes by an older secret is from before the reset.
\* Such a JWT is still accepted: this is all that "client reset" revokes.
StaleSecretRefused ==
    \A p \in Peers : Current(request[p]) /\ Current(jwt[p])

\* Somebody is shown the secret that counts.  Commands run side by side, and one
\* may read back and print the secret of another, or print late one that no longer
\* counts; but the command that drew the current secret prints it, unless it is
\* still running or has failed.
ShownBy(a, c) ==
    /\ command[a] # NoRow
    /\ command[a].client = c
    /\ command[a].drew = clients[c].secret

CurrentSecretIsShown ==
    \A c \in ClientIDs :
        clients[c] # NoRow =>
            \/ clients[c].secret \in printed \cup lost
            \/ \E a \in Admins : ShownBy(a, c)

\* A grant and a command under way are of a client in the table.
Held(g) == g # NoRow => clients[g.client] # NoRow

RowsHeld ==
    /\ \A p \in Peers : Held(request[p]) /\ Held(jwt[p])
    /\ \A a \in Admins : Held(command[a])

\* Secrets of a client follow one another: a command reads back its own or a
\* later one, and none is ahead of the row.
InOrder(k) ==
    k # NoRow =>
        /\ k.drew <= clients[k.client].secret
        /\ k.read # 0 => k.drew <= k.read /\ k.read <= clients[k.client].secret

ReadsOwnOrLater == \A a \in Admins : InOrder(command[a])

\* Every secret, stored or presented, was drawn: the next one drawn is new.
Known(n) == n \in 1..drawn

SecretsDrawn ==
    /\ \A c \in ClientIDs : clients[c] # NoRow => Known(clients[c].secret)
    /\ \A p \in Peers :
         /\ request[p] # NoRow => Known(request[p].secret)
         /\ jwt[p] # NoRow => Known(jwt[p].secret)

\* What makes them inductive: rows are marked, never removed, so a secret
\* someone goes by always has a row to be compared with.
ClientsInv ==
    /\ RowsHeld
    /\ SecretsDrawn
    /\ AppMatchesStatus
    /\ StaleSecretRefused
    /\ ReadsOwnOrLater
    /\ CurrentSecretIsShown

\* The status check of the custom source endpoint, which has no other
\* authorization: only "create --routing" opens it.  No client becomes ROUTING
\* later; one that was activated, deleted or reset stays shut out for ever.
RoutingOnlyByCreation ==
    [][\A c \in ClientIDs :
         clients'[c] # NoRow /\ clients'[c].status = "ROUTING" =>
             \/ clients[c] = NoRow
             \/ clients[c].status = "ROUTING"]_vars

\* The single-use rule of /config: once a client was activated for an app the
\* endpoint answers it only after it was deleted or reset (and has kept its
\* app's name), however the activation, the end and the call were interleaved.
ConfigReopensAtEndOnly ==
    [][\A p \in Peers :
         reply'[p] # reply[p] /\ reply'[p].code = "200" =>
             \/ clients[reply'[p].client].app = ""
             \/ clients[reply'[p].client].status \in {"DELETED", "REVOKED"}]_vars

\* The refinement mapping: a row as a stage in the life of its client, and a
\* request or a JWT as the grant it stands for.
StageOf(row) ==
    CASE row = NoRow -> "none"
      [] row # NoRow /\ row.status = "" -> "pending"
      [] row # NoRow /\ row.status = "ROUTING" -> "routing"
      [] row # NoRow /\ row.status = "ACTIVE" -> "active"
      [] row # NoRow /\ row.status \in {"DELETED", "REVOKED"} -> "ended"

KeyOf(row) == IF row = NoRow THEN 0 ELSE row.secret

GrantsOf(r, j) == {[client |-> g.client, key |-> g.secret] : g \in {r, j} \ {NoRow}}

Life == INSTANCE Lifecycle WITH
    Clients <- ClientIDs,
    Holders <- Peers,
    stage <- [c \in ClientIDs |-> StageOf(clients[c])],
    key <- [c \in ClientIDs |-> KeyOf(clients[c])],
    grants <- [p \in Peers |-> GrantsOf(request[p], jwt[p])]

\* Only who presented the secret that counted then, be it long ago, activates or
\* ends a client, and a reset always leaves a secret that no JWT or pending
\* request goes by: token requests, resets, creations and uses of a JWT,
\* interleaved in any order, implement the abstract life cycle.
SecretsAuthorise == Life!LifeSpec

-----------------------------------------------------------------------------
(* What the documents say, and the code does not do *)

\* docs/pbxware-wire-reference.md: after DELETE integration "the client's
\* credentials stop working permanently".  tokenHandler looks at the secret
\* only: it finds the credentials of a DELETED client correct.
DeletedGetsNoToken ==
    [][\A p \in Peers :
         request'[p] # request[p] /\ request'[p] # NoRow =>
             clients[request'[p].client].status # "DELETED"]_vars
=============================================================================
