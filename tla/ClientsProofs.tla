---------------------------- MODULE ClientsProofs ----------------------------
(***************************************************************************)
(* Machine-checked theorems about Clients, for any number of PBXware       *)
(* systems, administrators, clients and secrets.                           *)
(***************************************************************************)
EXTENDS Clients, RepoProofs

\* NoRow is no row, no client, no grant and no command.
LEMMA NoRowFacts ==
    /\ NoRow \notin ClientRow
    /\ NoRow \notin ClientIDs
    /\ NoRow \notin TokenGrant
    /\ NoRow \notin Command
BY NoRowAssumption, ClientsAssumption DEF ClientRow, ClientStatus, TokenGrant, Command

-----------------------------------------------------------------------------
(* Type correctness *)

\* Marking the grants of a client overtaken keeps their shape.
LEMMA OvertakeOK ==
    ASSUME NEW c \in ClientIDs, NEW grants \in [Peers -> TokenGrant \cup {NoRow}]
    PROVE  Overtake(grants, c) \in [Peers -> TokenGrant \cup {NoRow}]
<1> SUFFICES ASSUME NEW p \in Peers, grants[p] # NoRow
             PROVE  [grants[p] EXCEPT !.overtaken = TRUE] \in TokenGrant
  BY DEF Overtake
<1> QED BY DEF TokenGrant

\* A step of a PBXware system keeps TypeOK.
LEMMA PeerType ==
    ASSUME NEW p \in Peers, TypeOK, Peer(p)
    PROVE  TypeOK'
<1>1. jwt[p] # NoRow => jwt[p].client \in ClientIDs
  BY DEF TypeOK, TokenGrant
<1>2. ASSUME NEW c \in ClientIDs, NEW s \in 1..MaxSecrets, TokenRequest(p, c, s)
      PROVE  TypeOK'
  <2>1. [client |-> c, secret |-> s, overtaken |-> FALSE] \in TokenGrant
    BY ClientsAssumption DEF TokenGrant
  <2> QED BY <1>2, <2>1, RepoStutterType DEF TokenRequest, TypeOK
<1>3. CASE IssueAccessToken(p) \/ IssueFails(p)
  BY <1>3, RepoStutterType DEF IssueAccessToken, IssueFails, TypeOK
<1>4. CASE Expire(p)
  BY <1>4, RepoStutterType DEF Expire, TypeOK
<1>5. CASE Config(p)
  <2>1. \A code \in {"200", "409"} : [client |-> jwt[p].client, code |-> code] \in Reply
    BY <1>1, <1>5 DEF Config, Reply
  <2> QED BY <1>5, <2>1, RepoStutterType DEF Config, TypeOK
<1>6. ASSUME NEW app \in Apps, Versions(p, app)
      PROVE  TypeOK'
  <2>1. RepoTypeOK'
    BY <1>1, <1>6, ClientsUpdateStatusType DEF Versions, TypeOK, Apps, ClientStatus
  <2> QED BY <1>6, <2>1 DEF Versions, TypeOK, clientVars
<1>7. CASE DeleteIntegration(p)
  <2>1. RepoTypeOK'
    BY <1>1, <1>7, DeleteClientDataType DEF DeleteIntegration, TypeOK
  <2> QED BY <1>7, <2>1 DEF DeleteIntegration, TypeOK, clientVars
<1> QED BY <1>2, <1>3, <1>4, <1>5, <1>6, <1>7 DEF Peer

\* A step of an administrator keeps TypeOK; what is printed was read from a row.
LEMMA AdminType ==
    ASSUME NEW a \in Admins, TypeOK, RowsHeld, Admin(a)
    PROVE  TypeOK'
<1>1. command[a] # NoRow => command[a] \in Command /\ command[a].client \in ClientIDs
  BY DEF TypeOK, Command
<1>2. ASSUME NEW c \in ClientIDs, ResetSecret(a, c)
      PROVE  TypeOK'
  <2>1. RepoTypeOK'
    BY <1>2, ClientsResetSecretType DEF ResetSecret, TypeOK
  <2>2. /\ Overtake(request, c) \in [Peers -> TokenGrant \cup {NoRow}]
        /\ Overtake(jwt, c) \in [Peers -> TokenGrant \cup {NoRow}]
    BY OvertakeOK DEF TypeOK
  <2>3. drawn' \in 0..MaxSecrets
    BY <1>2, ClientsAssumption DEF ResetSecret, TypeOK
  <2>4. [client |-> c, drew |-> drawn + 1, read |-> 0] \in Command
    BY DEF TypeOK, Command
  <2> QED BY <1>2, <2>1, <2>2, <2>3, <2>4 DEF ResetSecret, TypeOK
<1>3. CASE ReadClient(a)
  <2>1. clients[command[a].client] \in ClientRow
    BY <1>1, <1>3 DEF ReadClient, TypeOK, RepoTypeOK, RowsHeld, Held
  <2>2. [command[a] EXCEPT !.read = clients[command[a].client].secret] \in Command
    BY <1>1, <1>3, <2>1 DEF ReadClient, ClientRow, Command
  <2> QED BY <1>3, <2>2, RepoStutterType DEF ReadClient, TypeOK
<1>4. CASE PrintClient(a) \/ PrintFails(a)
  <2>1. command[a].read \in Nat /\ command[a].drew \in Nat
    BY <1>1, <1>4 DEF PrintClient, PrintFails, Command
  <2> QED BY <1>4, <2>1, RepoStutterType DEF PrintClient, PrintFails, TypeOK
<1>5. ASSUME NEW c \in ClientIDs, NEW name \in Names, NEW routing \in BOOLEAN,
             Create(a, c, name, routing)
      PROVE  TypeOK'
  <2> DEFINE row == [name |-> name, secret |-> drawn + 1, app |-> "",
                     status |-> IF routing THEN "ROUTING" ELSE ""]
  <2>1. row \in ClientRow
    BY DEF ClientRow, ClientStatus, TypeOK
  <2>2. RepoTypeOK'
    BY <1>5, <2>1, ClientsCreateType DEF Create, TypeOK
  <2>3. drawn' \in 0..MaxSecrets
    <3>1. MaxSecrets \in Nat /\ drawn \in 0..MaxSecrets
      BY ClientsAssumption DEF TypeOK
    <3>2. drawn < MaxSecrets /\ drawn' = drawn + 1
      BY <1>5 DEF Create
    <3> QED BY <3>1, <3>2
  <2>4. [client |-> c, drew |-> drawn + 1, read |-> drawn + 1] \in Command
    BY DEF TypeOK, Command
  <2> HIDE DEF row
  <2> QED BY <1>5, <2>2, <2>3, <2>4 DEF Create, TypeOK
<1> QED BY <1>2, <1>3, <1>4, <1>5 DEF Admin

-----------------------------------------------------------------------------
(* The invariant *)

\* The initial state satisfies both.
LEMMA InitInv == Init => TypeOK /\ ClientsInv
<1> SUFFICES ASSUME Init PROVE TypeOK /\ ClientsInv
  OBVIOUS
<1>1. RepoTypeOK
  BY DEF Init, RepoTypeOK
<1>2. TypeOK
  BY <1>1, ClientsAssumption DEF Init, TypeOK, Reply
<1>3. /\ RowsHeld /\ SecretsDrawn /\ StaleSecretRefused
      /\ ReadsOwnOrLater /\ CurrentSecretIsShown
  BY DEF Init, RowsHeld, Held, SecretsDrawn, StaleSecretRefused, Current,
     ReadsOwnOrLater, InOrder, CurrentSecretIsShown
<1>4. AppMatchesStatus
  BY DEF Init, AppMatchesStatus, AppAgrees
<1> QED BY <1>2, <1>3, <1>4 DEF ClientsInv

\* A step that stores and presents only secrets that were known, or the one it
\* draws, keeps every secret known.
LEMMA DrawnInv ==
    ASSUME TypeOK, SecretsDrawn, drawn' \in {drawn, drawn + 1},
           \A c \in ClientIDs :
             \/ clients'[c] = NoRow
             \/ clients'[c].secret = drawn'  /\ drawn' = drawn + 1
             \/ clients[c] # NoRow /\ clients'[c].secret = clients[c].secret,
           \A p \in Peers :
             /\ \/ request'[p] = NoRow
                \/ request[p] # NoRow /\ request'[p].secret = request[p].secret
                \/ Known(request'[p].secret)
             /\ \/ jwt'[p] = NoRow
                \/ jwt[p] # NoRow /\ jwt'[p].secret = jwt[p].secret
                \/ Known(jwt'[p].secret)
    PROVE  SecretsDrawn'
<1>1. drawn \in Nat
  BY DEF TypeOK
<1>2. \A n : Known(n) => n \in 1..drawn'
  BY <1>1 DEF Known
<1>3. drawn' = drawn + 1 => drawn' \in 1..drawn'
  BY <1>1
<1>4. ASSUME NEW c \in ClientIDs, clients'[c] # NoRow
      PROVE  clients'[c].secret \in 1..drawn'
  BY <1>2, <1>3, <1>4 DEF SecretsDrawn
<1>5. ASSUME NEW p \in Peers
      PROVE  /\ request'[p] # NoRow => request'[p].secret \in 1..drawn'
             /\ jwt'[p] # NoRow => jwt'[p].secret \in 1..drawn'
  BY <1>2 DEF SecretsDrawn
<1> QED BY <1>4, <1>5 DEF SecretsDrawn, Known

\* A step that changes app and status of a row, and nothing else, keeps the
\* invariant when the two agree.
LEMMA StatusInv ==
    ASSUME NEW c \in ClientIDs, NEW row, TypeOK, ClientsInv,
           clients[c] # NoRow,
           row # NoRow, row.secret = clients[c].secret, AppAgrees(row),
           clients' = [clients EXCEPT ![c] = row],
           UNCHANGED clientVars
    PROVE  ClientsInv'
<1>1. \A d \in ClientIDs :
        /\ clients'[d] = NoRow <=> clients[d] = NoRow
        /\ clients'[d] # NoRow => clients'[d].secret = clients[d].secret
  BY DEF TypeOK, RepoTypeOK
<1>2. AppMatchesStatus'
  BY DEF ClientsInv, AppMatchesStatus, TypeOK, RepoTypeOK
<1>3. RowsHeld'
  BY <1>1 DEF ClientsInv, RowsHeld, Held, TypeOK, TokenGrant, clientVars
<1>4. StaleSecretRefused'
  BY <1>1 DEF ClientsInv, RowsHeld, Held, StaleSecretRefused, Current, TypeOK,
     TokenGrant, clientVars
<1>5. ReadsOwnOrLater' /\ CurrentSecretIsShown'
  <2>1. UNCHANGED <<command, printed, lost>>
    BY DEF clientVars
  <2>2. ReadsOwnOrLater'
    <3> SUFFICES ASSUME NEW a \in Admins, command[a] # NoRow
                 PROVE  InOrder(command[a])'
      BY <2>1 DEF ReadsOwnOrLater, InOrder
    <3>1. command[a].client \in ClientIDs
      BY DEF TypeOK, Command
    <3>2. clients'[command[a].client].secret = clients[command[a].client].secret
      BY <1>1, <3>1 DEF ClientsInv, RowsHeld, Held
    <3> QED BY <2>1, <3>2 DEF ClientsInv, ReadsOwnOrLater, InOrder
  <2>3. CurrentSecretIsShown'
    BY <1>1, <2>1 DEF ClientsInv, CurrentSecretIsShown, ShownBy
  <2> QED BY <2>2, <2>3
<1>6. SecretsDrawn'
  BY <1>1, DrawnInv DEF ClientsInv, clientVars
<1> QED BY <1>2, <1>3, <1>4, <1>5, <1>6 DEF ClientsInv

\* What the invariant says of rows and commands is untouched by a step that leaves
\* both alone.
LEMMA RowsAloneInv ==
    ASSUME ClientsInv,
           UNCHANGED <<clients, command, printed, lost>>
    PROVE  AppMatchesStatus' /\ ReadsOwnOrLater' /\ CurrentSecretIsShown'
BY DEF ClientsInv, AppMatchesStatus, AppAgrees, ReadsOwnOrLater, InOrder,
   CurrentSecretIsShown, ShownBy

\* A step of a PBXware system keeps the invariant: a token request is found
\* correct against the current row, the other requests leave the secret alone.
LEMMA PeerInv ==
    ASSUME NEW p \in Peers, TypeOK, ClientsInv, Peer(p)
    PROVE  ClientsInv'
<1>1. jwt[p] # NoRow => jwt[p].client \in ClientIDs /\ clients[jwt[p].client] # NoRow
  BY DEF TypeOK, TokenGrant, ClientsInv, RowsHeld, Held
<1>2. ASSUME NEW c \in ClientIDs, NEW s \in 1..MaxSecrets, TokenRequest(p, c, s)
      PROVE  ClientsInv'
  <2>1. Known(s) /\ UNCHANGED <<clients, drawn, jwt>>
    BY <1>2 DEF TokenRequest, ClientsInv, SecretsDrawn, repoVars
  <2>2. request' = [request EXCEPT
                      ![p] = [client |-> c, secret |-> s, overtaken |-> FALSE]]
    BY <1>2 DEF TokenRequest
  <2>3. \A q \in Peers : request'[q] = request[q] \/ request'[q].secret = s
    BY <2>2 DEF TypeOK
  <2>4. SecretsDrawn'
    BY <2>1, <2>3, DrawnInv DEF ClientsInv
  <2>5. RowsHeld' /\ StaleSecretRefused'
    BY <1>2 DEF TokenRequest, ClientsInv, RowsHeld, Held, StaleSecretRefused, Current,
       TypeOK, repoVars
  <2>6. UNCHANGED <<clients, command, printed, lost>>
    BY <1>2 DEF TokenRequest, repoVars
  <2> QED BY <2>4, <2>5, <2>6, RowsAloneInv DEF ClientsInv
<1>3. CASE IssueAccessToken(p) \/ IssueFails(p)
  <2>1. SecretsDrawn'
    BY <1>3 DEF IssueAccessToken, IssueFails, ClientsInv, SecretsDrawn, Known, TypeOK, repoVars
  <2>2. RowsHeld' /\ StaleSecretRefused'
    BY <1>3 DEF IssueAccessToken, IssueFails, ClientsInv, RowsHeld, Held,
       StaleSecretRefused, Current, TypeOK, repoVars
  <2>3. UNCHANGED <<clients, command, printed, lost>>
    BY <1>3 DEF IssueAccessToken, IssueFails, repoVars
  <2> QED BY <2>1, <2>2, <2>3, RowsAloneInv DEF ClientsInv
<1>4. CASE Expire(p)
  <2>1. SecretsDrawn'
    BY <1>4 DEF Expire, ClientsInv, SecretsDrawn, Known, TypeOK, repoVars
  <2>2. RowsHeld' /\ StaleSecretRefused'
    BY <1>4 DEF Expire, ClientsInv, RowsHeld, Held, StaleSecretRefused, Current, TypeOK,
       repoVars
  <2>3. UNCHANGED <<clients, command, printed, lost>>
    BY <1>4 DEF Expire, repoVars
  <2> QED BY <2>1, <2>2, <2>3, RowsAloneInv DEF ClientsInv
<1>5. CASE Config(p)
  <2>1. UNCHANGED <<clients, drawn, request, jwt, command, printed, lost>>
    BY <1>5 DEF Config, repoVars
  <2>2. RowsHeld' /\ StaleSecretRefused' /\ SecretsDrawn'
    BY <2>1 DEF ClientsInv, RowsHeld, Held, StaleSecretRefused, Current, SecretsDrawn, Known
  <2> QED BY <2>1, <2>2, RowsAloneInv DEF ClientsInv
<1>6. ASSUME NEW app \in Apps, Versions(p, app)
      PROVE  ClientsInv'
  <2> DEFINE c == jwt[p].client
             row == [clients[c] EXCEPT !.app = app, !.status = "ACTIVE"]
  <2>1. c \in ClientIDs /\ clients[c] \in ClientRow
    BY <1>1, <1>6 DEF Versions, TypeOK, RepoTypeOK
  <2>2. row \in ClientRow /\ row.secret = clients[c].secret /\ AppAgrees(row)
    BY <2>1 DEF ClientRow, ClientStatus, Apps, AppAgrees
  <2>3. clients' = [clients EXCEPT ![c] = row]
    BY <1>6, <2>1 DEF Versions, ClientsUpdateStatus, TypeOK, RepoTypeOK
  <2>4. UNCHANGED clientVars /\ clients[c] # NoRow
    BY <1>6 DEF Versions, ClientsUpdateStatus
  <2> HIDE DEF row, c
  <2> QED BY <2>1, <2>2, <2>3, <2>4, StatusInv, NoRowFacts
<1>7. CASE DeleteIntegration(p)
  <2> DEFINE c == jwt[p].client
             row == [clients[c] EXCEPT !.status = "DELETED"]
  <2>1. c \in ClientIDs /\ clients[c] \in ClientRow
    BY <1>1, <1>7 DEF DeleteIntegration, TypeOK, RepoTypeOK
  <2>2. row \in ClientRow /\ row.secret = clients[c].secret /\ AppAgrees(row)
    BY <2>1 DEF ClientRow, ClientStatus, AppAgrees
  <2>3. clients' = [clients EXCEPT ![c] = row]
    BY <1>7, <2>1 DEF DeleteIntegration, DeleteClientData, TypeOK, RepoTypeOK
  <2>4. UNCHANGED clientVars /\ clients[c] # NoRow
    BY <1>7 DEF DeleteIntegration, DeleteClientData
  <2> HIDE DEF row, c
  <2> QED BY <2>1, <2>2, <2>3, <2>4, StatusInv, NoRowFacts
<1> QED BY <1>2, <1>3, <1>4, <1>5, <1>6, <1>7 DEF Peer

\* A command that draws a secret and writes it to its client leaves the commands
\* under way behind it, and is the one that will print it.
LEMMA CommandInv ==
    ASSUME TypeOK, ClientsInv, NEW a \in Admins, NEW c \in ClientIDs,
           NEW read \in {0, drawn + 1}, command[a] = NoRow,
           command' = [command EXCEPT
                         ![a] = [client |-> c, drew |-> drawn + 1, read |-> read]],
           clients'[c].secret = drawn + 1,
           \A d \in ClientIDs : d # c => clients'[d] = clients[d],
           UNCHANGED <<printed, lost>>
    PROVE  ReadsOwnOrLater' /\ CurrentSecretIsShown'
<1> DEFINE mine == [client |-> c, drew |-> drawn + 1, read |-> read]
<1>1. drawn \in Nat
  BY DEF TypeOK
<1>2. mine \in Command
  BY <1>1 DEF Command
<1>3. mine # NoRow
  BY <1>2, NoRowFacts
<1>4. command'[a] = mine /\ \A b \in Admins : b # a => command'[b] = command[b]
  BY DEF TypeOK
<1>5. mine.client = c /\ mine.drew = drawn + 1 /\ mine.read = read
  OBVIOUS
<1> HIDE DEF mine
<1>6. ASSUME NEW b \in Admins
      PROVE  InOrder(command[b])'
  <2>1. CASE b = a
    BY <1>1, <1>4, <1>5, <2>1 DEF InOrder
  <2>2. CASE b # a
    <3> SUFFICES ASSUME command[b] # NoRow
                 PROVE  InOrder(command[b])'
      BY <1>4, <2>2 DEF InOrder
    <3>1. command[b] \in Command /\ InOrder(command[b])
      BY DEF TypeOK, ClientsInv, ReadsOwnOrLater
    <3>2. clients[command[b].client] # NoRow /\ command[b].client \in ClientIDs
      BY <3>1 DEF ClientsInv, RowsHeld, Held, Command
    <3>3. clients[command[b].client].secret \in 1..drawn
      BY <3>2 DEF ClientsInv, SecretsDrawn, Known
    <3>4. CASE command[b].client = c
      <4>1. command[b].drew <= drawn + 1
        BY <1>1, <3>1, <3>3 DEF InOrder, Command
      <4>2. command[b].read # 0 =>
              command[b].drew <= command[b].read /\ command[b].read <= drawn + 1
        BY <1>1, <3>1, <3>3 DEF InOrder, Command
      <4> QED BY <1>4, <2>2, <3>4, <4>1, <4>2 DEF InOrder
    <3>5. CASE command[b].client # c
      BY <1>4, <2>2, <3>1, <3>2, <3>5 DEF InOrder
    <3> QED BY <3>4, <3>5
  <2> QED BY <2>1, <2>2
<1>7. ShownBy(a, c)'
  BY <1>3, <1>4, <1>5 DEF ShownBy
<1>8. ASSUME NEW b \in Admins, NEW d \in ClientIDs, d # c, ShownBy(b, d)
      PROVE  ShownBy(b, d)'
  BY <1>4, <1>8 DEF ShownBy
<1>9. CurrentSecretIsShown'
  BY <1>7, <1>8 DEF ClientsInv, CurrentSecretIsShown
<1> QED BY <1>6, <1>9 DEF ReadsOwnOrLater

\* A new client is pending or ROUTING, without an app, and nobody goes by its
\* secret yet.
LEMMA CreateInv ==
    ASSUME NEW a \in Admins, NEW c \in ClientIDs, NEW name \in Names,
           NEW routing \in BOOLEAN, TypeOK, ClientsInv, Create(a, c, name, routing)
    PROVE  ClientsInv'
<1> DEFINE row == [name |-> name, secret |-> drawn + 1, app |-> "",
                   status |-> IF routing THEN "ROUTING" ELSE ""]
<1>1. row \in ClientRow /\ AppAgrees(row)
  BY DEF ClientRow, ClientStatus, TypeOK, AppAgrees
<1>2. clients' = [clients EXCEPT ![c] = row] /\ clients[c] = NoRow
  BY DEF Create, ClientsCreate
<1>3. row # NoRow /\ row.secret = drawn' /\ drawn' = drawn + 1
  BY <1>1, NoRowFacts DEF Create
<1> HIDE DEF row
<1>4. /\ clients'[c] = row
      /\ \A d \in ClientIDs : d # c => clients'[d] = clients[d]
      /\ \A d \in ClientIDs : clients[d] # NoRow => clients'[d] = clients[d]
  BY <1>2 DEF TypeOK, RepoTypeOK
<1>5. AppMatchesStatus'
  BY <1>1, <1>2 DEF ClientsInv, AppMatchesStatus, TypeOK, RepoTypeOK
<1>6. UNCHANGED <<request, jwt, printed, lost>>
  BY DEF Create
<1>7. StaleSecretRefused' /\ \A p \in Peers : Held(request[p])' /\ Held(jwt[p])'
  BY <1>4, <1>6 DEF ClientsInv, RowsHeld, Held, StaleSecretRefused, Current, TypeOK,
     TokenGrant
<1>8. /\ command[a] = NoRow
      /\ command' = [command EXCEPT
                       ![a] = [client |-> c, drew |-> drawn + 1, read |-> drawn + 1]]
  BY DEF Create
<1>9. RowsHeld'
  <2>1. ASSUME NEW b \in Admins
        PROVE  Held(command[b])'
    <3>1. CASE b = a
      <4>1. command'[b].client = c
        BY <1>8, <3>1 DEF TypeOK
      <4> QED BY <1>3, <1>4, <4>1 DEF Held
    <3>2. CASE b # a
      <4>1. command'[b] = command[b]
        BY <1>8, <3>2 DEF TypeOK
      <4>2. command[b] # NoRow => command[b].client \in ClientIDs
        BY DEF TypeOK, Command
      <4> QED BY <1>4, <4>1, <4>2 DEF ClientsInv, RowsHeld, Held
    <3> QED BY <3>1, <3>2
  <2> QED BY <1>7, <2>1 DEF RowsHeld
<1>10. SecretsDrawn'
  BY <1>3, <1>4, <1>6, DrawnInv DEF ClientsInv
<1>11. ReadsOwnOrLater' /\ CurrentSecretIsShown'
  BY <1>3, <1>4, <1>6, <1>8, CommandInv
<1> QED BY <1>5, <1>7, <1>9, <1>10, <1>11 DEF ClientsInv

\* A step of an administrator keeps the invariant: a reset marks the grants of
\* its client, and the secret it drew is printed, lost, or not the current one.
LEMMA AdminInv ==
    ASSUME NEW a \in Admins, TypeOK, ClientsInv, Admin(a)
    PROVE  ClientsInv'
<1>1. ASSUME NEW c \in ClientIDs, ResetSecret(a, c)
      PROVE  ClientsInv'
  <2> DEFINE row == [clients[c] EXCEPT !.secret = drawn + 1, !.status = "REVOKED"]
  <2>1. clients[c] \in ClientRow
    BY <1>1 DEF ResetSecret, ClientsResetSecret, TypeOK, RepoTypeOK
  <2>2. row \in ClientRow /\ AppAgrees(row)
    <3>1. drawn + 1 \in Nat
      BY DEF TypeOK
    <3>2. row \in ClientRow
      BY <2>1, <3>1 DEF ClientRow, ClientStatus
    <3>3. row.status = "REVOKED"
      BY <2>1 DEF ClientRow
    <3> QED BY <3>2, <3>3 DEF AppAgrees
  <2>3. clients' = [clients EXCEPT ![c] = row]
    BY <1>1, <2>1 DEF ResetSecret, ClientsResetSecret, TypeOK, RepoTypeOK
  <2>4. row # NoRow
    BY <2>2, NoRowFacts
  <2> HIDE DEF row
  <2>5. \A d \in ClientIDs :
          /\ clients[d] # NoRow => clients'[d] # NoRow
          /\ d # c => clients'[d] = clients[d]
    BY <2>3, <2>4 DEF TypeOK, RepoTypeOK
  <2>6. AppMatchesStatus'
    BY <2>2, <2>3 DEF ClientsInv, AppMatchesStatus, TypeOK, RepoTypeOK
  <2>7. ASSUME NEW g \in TokenGrant, clients[g.client] # NoRow, Current(g),
               NEW n, n = IF g.client = c THEN [g EXCEPT !.overtaken = TRUE] ELSE g
        PROVE  /\ n.client = g.client /\ clients'[n.client] # NoRow
               /\ n.overtaken \/ n.secret = clients'[n.client].secret
    BY <2>5, <2>7, NoRowFacts DEF Current, TokenGrant
  <2>8. RowsHeld' /\ StaleSecretRefused'
    <3>1. ASSUME NEW p \in Peers
          PROVE  /\ Held(request[p])' /\ Current(request[p])'
                 /\ Held(jwt[p])' /\ Current(jwt[p])'
      <4>1. /\ Held(request[p]) /\ Current(request[p])
            /\ Held(jwt[p]) /\ Current(jwt[p])
        BY DEF ClientsInv, RowsHeld, StaleSecretRefused
      <4>2. /\ request[p] \in TokenGrant \cup {NoRow}
            /\ jwt[p] \in TokenGrant \cup {NoRow}
        BY DEF TypeOK
      <4>3. /\ request'[p] = IF request[p] # NoRow /\ request[p].client = c
                             THEN [request[p] EXCEPT !.overtaken = TRUE]
                             ELSE request[p]
            /\ jwt'[p] = IF jwt[p] # NoRow /\ jwt[p].client = c
                         THEN [jwt[p] EXCEPT !.overtaken = TRUE]
                         ELSE jwt[p]
        BY <1>1 DEF ResetSecret, Overtake
      <4>4. Held(request[p])' /\ Current(request[p])'
        BY <2>7, <4>1, <4>2, <4>3 DEF Held, Current
      <4>5. Held(jwt[p])' /\ Current(jwt[p])'
        BY <2>7, <4>1, <4>2, <4>3 DEF Held, Current
      <4> QED BY <4>4, <4>5
    <3>2. ASSUME NEW b \in Admins
          PROVE  Held(command[b])'
      <4>1. CASE b = a
        <5>1. command'[b] = [client |-> c, drew |-> drawn + 1, read |-> 0]
          BY <1>1, <4>1 DEF ResetSecret, TypeOK
        <5>2. clients'[c] # NoRow
          BY <2>3, <2>4 DEF TypeOK, RepoTypeOK
        <5> QED BY <5>1, <5>2 DEF Held
      <4>2. CASE b # a
        <5>1. command'[b] = command[b]
          BY <1>1, <4>2 DEF ResetSecret, TypeOK
        <5>2. command[b] # NoRow => command[b].client \in ClientIDs
          BY DEF TypeOK, Command
        <5> QED BY <2>5, <5>1, <5>2 DEF ClientsInv, RowsHeld, Held
      <4> QED BY <4>1, <4>2
    <3> QED BY <3>1, <3>2 DEF RowsHeld, StaleSecretRefused
  <2>9. ReadsOwnOrLater' /\ CurrentSecretIsShown'
    <3>1. /\ command' = [command EXCEPT
                         ![a] = [client |-> c, drew |-> drawn + 1, read |-> 0]]
          /\ UNCHANGED <<printed, lost>>
      BY <1>1 DEF ResetSecret
    <3>2. clients'[c] = row /\ row.secret = drawn + 1
      BY <2>1, <2>3 DEF row, ClientRow, TypeOK, RepoTypeOK
    <3>3. command[a] = NoRow
      BY <1>1 DEF ResetSecret
    <3>4. [client |-> c, drew |-> drawn + 1, read |-> 0] # NoRow
      BY NoRowFacts DEF TypeOK, Command
    <3> QED BY <2>5, <3>1, <3>2, <3>3, <3>4, CommandInv
  <2>10. SecretsDrawn'
    <3>1. drawn' = drawn + 1
      BY <1>1 DEF ResetSecret
    <3>2. \A d \in ClientIDs : d = c => clients'[d] = row
      BY <2>3 DEF TypeOK, RepoTypeOK
    <3>3. row.secret = drawn'
      BY <2>1, <3>1 DEF row, ClientRow
    <3>4. \A p \in Peers :
            /\ request'[p] # NoRow =>
                 request[p] # NoRow /\ request'[p].secret = request[p].secret
            /\ jwt'[p] # NoRow =>
                 jwt[p] # NoRow /\ jwt'[p].secret = jwt[p].secret
      BY <1>1 DEF ResetSecret, Overtake, TypeOK, TokenGrant
    <3> QED BY <2>5, <3>1, <3>2, <3>3, <3>4, DrawnInv DEF ClientsInv
  <2> QED BY <2>6, <2>8, <2>9, <2>10 DEF ClientsInv
<1>2. CASE ReadClient(a) \/ PrintClient(a) \/ PrintFails(a)
  <2>1. UNCHANGED <<clients, drawn, request, jwt>>
    BY <1>2 DEF ReadClient, PrintClient, PrintFails, repoVars
  <2>2. AppMatchesStatus' /\ StaleSecretRefused' /\ SecretsDrawn'
    BY <2>1 DEF ClientsInv, AppMatchesStatus, AppAgrees, StaleSecretRefused, Current,
       SecretsDrawn, Known
  <2>3. /\ command[a] \in Command /\ command[a] # NoRow
        /\ clients[command[a].client] \in ClientRow
    BY <1>2 DEF ReadClient, PrintClient, PrintFails, ClientsInv, RowsHeld, Held,
       TypeOK, RepoTypeOK, Command
  <2>4. RowsHeld'
    BY <1>2, <2>1, <2>3 DEF ReadClient, PrintClient, PrintFails, ClientsInv, RowsHeld, Held,
       TypeOK, Command
  <2> DEFINE now == clients[command[a].client].secret
  <2>5. InOrder(command[a]) /\ now \in Nat
    BY <2>3 DEF ClientsInv, ReadsOwnOrLater, ClientRow
  <2>6. CASE ReadClient(a)
    <3>1. command' = [command EXCEPT ![a].read = now]
      BY <2>6 DEF ReadClient
    <3>2. /\ command'[a].client = command[a].client
          /\ command'[a].drew = command[a].drew /\ command'[a].read = now
      BY <2>3, <3>1 DEF TypeOK, Command
    <3>3. command'[a] \in Command
      BY <2>3, <2>5, <3>1 DEF TypeOK, Command
    <3>4. \A b \in Admins : b # a => command'[b] = command[b]
      BY <3>1 DEF TypeOK
    <3>5. command'[a] # NoRow
      BY <3>3, NoRowFacts
    <3>6. UNCHANGED <<clients, printed, lost>>
      BY <2>6 DEF ReadClient, repoVars
    <3> HIDE DEF now
    <3>7. \A b \in Admins, d \in ClientIDs : ShownBy(b, d) => ShownBy(b, d)'
      BY <3>2, <3>4, <3>5, <3>6 DEF ShownBy
    <3>8. CurrentSecretIsShown'
      BY <3>6, <3>7 DEF ClientsInv, CurrentSecretIsShown
    <3>9. InOrder(command[a])'
      BY <2>3, <2>5, <3>2, <3>6 DEF InOrder, Command, now
    <3>10. ReadsOwnOrLater'
      BY <3>4, <3>6, <3>9 DEF ClientsInv, ReadsOwnOrLater, InOrder
    <3> QED BY <2>2, <2>4, <3>8, <3>10 DEF ClientsInv
  <2>7. CASE PrintClient(a) \/ PrintFails(a)
    <3>1. command' = [command EXCEPT ![a] = NoRow] /\ UNCHANGED clients
      BY <2>1, <2>7 DEF PrintClient, PrintFails
    <3>2. ReadsOwnOrLater'
      BY <3>1 DEF ClientsInv, ReadsOwnOrLater, InOrder, TypeOK
    <3>3. printed \subseteq printed' /\ lost \subseteq lost'
      BY <2>7 DEF PrintClient, PrintFails
    <3>4. ASSUME NEW d \in ClientIDs, ShownBy(a, d)
          PROVE  clients[d].secret \in printed' \cup lost'
      <4>1. command[a].drew = now /\ clients[d].secret = now
        BY <3>4 DEF ShownBy
      <4>2. CASE PrintClient(a)
        <5>1. command[a].read = now
          BY <2>3, <2>5, <4>1, <4>2 DEF PrintClient, InOrder, Command
        <5> QED BY <4>1, <4>2, <5>1 DEF PrintClient
      <4>3. CASE PrintFails(a)
        BY <4>1, <4>3 DEF PrintFails
      <4> QED BY <2>7, <4>2, <4>3
    <3>5. ASSUME NEW b \in Admins, NEW d \in ClientIDs, ShownBy(b, d), b # a
          PROVE  ShownBy(b, d)'
      BY <3>1, <3>5 DEF ShownBy, TypeOK
    <3>6. CurrentSecretIsShown'
      BY <3>1, <3>3, <3>4, <3>5 DEF ClientsInv, CurrentSecretIsShown
    <3> QED BY <2>2, <2>4, <3>2, <3>6 DEF ClientsInv
  <2> QED BY <1>2, <2>6, <2>7
<1>3. ASSUME NEW c \in ClientIDs, NEW name \in Names, NEW routing \in BOOLEAN,
             Create(a, c, name, routing)
      PROVE  ClientsInv'
  BY <1>3, CreateInv
<1> QED BY <1>1, <1>2, <1>3 DEF Admin

-----------------------------------------------------------------------------
(* The theorems *)

LEMMA NextInv == TypeOK /\ ClientsInv /\ [Next]_vars => TypeOK' /\ ClientsInv'
<1> SUFFICES ASSUME TypeOK, ClientsInv, [Next]_vars
             PROVE  TypeOK' /\ ClientsInv'
  OBVIOUS
<1>1. RowsHeld
  BY DEF ClientsInv
<1>2. CASE \E p \in Peers : Peer(p)
  BY <1>2, PeerType, PeerInv
<1>3. CASE \E a \in Admins : Admin(a)
  BY <1>1, <1>3, AdminType, AdminInv
<1>4. CASE UNCHANGED vars
  <2>1. TypeOK'
    BY <1>4 DEF vars, TypeOK, RepoTypeOK
  <2>2. ClientsInv'
    BY <1>4, RowsAloneInv DEF vars, ClientsInv, RowsHeld, Held, SecretsDrawn, Known,
       StaleSecretRefused, Current
  <2> QED BY <2>1, <2>2
<1> QED BY <1>2, <1>3, <1>4 DEF Next

\* Rows, JWTs and command-line processes always keep their shapes.
THEOREM TypeCorrect == Spec => []TypeOK
BY InitInv, NextInv, PTL DEF Spec

\* Columns agree, only current secrets are good for a JWT, a command prints its own
\* secret or a later one, and the one that counts is printed by who drew it,
\* whatever order the requests and the commands' statements come in.
THEOREM LifecycleInvariant == Spec => []ClientsInv
BY InitInv, NextInv, PTL DEF Spec

\* An active client names its app and one never activated names none, since every
\* statement that writes one of the two columns leaves them agreeing.
THEOREM ColumnsAgree == Spec => []AppMatchesStatus
<1>1. ClientsInv => AppMatchesStatus
  BY DEF ClientsInv
<1> QED BY <1>1, LifecycleInvariant, PTL

\* A JWT that goes by an old secret was there, or asked for, before the reset.
THEOREM OldSecretsAreRefused == Spec => []StaleSecretRefused
<1>1. ClientsInv => StaleSecretRefused
  BY DEF ClientsInv
<1> QED BY <1>1, LifecycleInvariant, PTL

\* The secret that counts was printed by the command that drew it, unless that
\* command is running or has failed: reading back late shows the same or a later
\* secret, and a later one is the concern of the command that drew it.
THEOREM DrawnSecretIsPrinted == Spec => []CurrentSecretIsShown
<1>1. ClientsInv => CurrentSecretIsShown
  BY DEF ClientsInv
<1> QED BY <1>1, LifecycleInvariant, PTL

\* The custom source endpoint is opened by "create --routing" and nothing else:
\* no step makes a row that is there a ROUTING one.
THEOREM RoutingComesFromCreation == Spec => RoutingOnlyByCreation
<1> DEFINE Step == \A c \in ClientIDs :
                     clients'[c] # NoRow /\ clients'[c].status = "ROUTING" =>
                         \/ clients[c] = NoRow
                         \/ clients[c].status = "ROUTING"
<1>1. TypeOK /\ [Next]_vars => Step
  <2> SUFFICES ASSUME TypeOK, [Next]_vars PROVE Step
    OBVIOUS
  <2>1. \A c \in ClientIDs : clients[c] # NoRow => clients[c] \in ClientRow
    BY DEF TypeOK, RepoTypeOK
  <2>2. ASSUME NEW p \in Peers, Peer(p) PROVE Step
    <3>1. CASE UNCHANGED clients
      BY <3>1
    <3>2. ASSUME NEW app \in Apps, Versions(p, app) PROVE Step
      BY <2>1, <3>2 DEF Versions, ClientsUpdateStatus, TypeOK, RepoTypeOK, ClientRow
    <3>3. CASE DeleteIntegration(p)
      BY <2>1, <3>3 DEF DeleteIntegration, DeleteClientData, TypeOK, RepoTypeOK, ClientRow
    <3> QED BY <2>2, <3>1, <3>2, <3>3
            DEF Peer, TokenRequest, IssueAccessToken, IssueFails, Expire, Config, repoVars
  <2>3. ASSUME NEW a \in Admins, Admin(a) PROVE Step
    <3>1. CASE UNCHANGED clients
      BY <3>1
    <3>2. ASSUME NEW c \in ClientIDs, ResetSecret(a, c) PROVE Step
      BY <2>1, <3>2 DEF ResetSecret, ClientsResetSecret, TypeOK, RepoTypeOK, ClientRow
    <3>3. ASSUME NEW c \in ClientIDs, NEW name \in Names, NEW routing \in BOOLEAN,
                 Create(a, c, name, routing)
          PROVE  Step
      BY <3>3 DEF Create, ClientsCreate, TypeOK, RepoTypeOK
    <3> QED BY <2>3, <3>1, <3>2, <3>3 DEF Admin, ReadClient, PrintClient, PrintFails, repoVars
  <2>4. CASE UNCHANGED vars
    BY <2>4 DEF vars
  <2> QED BY <2>2, <2>3, <2>4 DEF Next
<1> QED BY <1>1, TypeCorrect, PTL DEF Spec, RoutingOnlyByCreation

\* /config answers a client that has an app only when its end has come: the
\* columns agree, so a status other than ACTIVE that goes with an app is one of
\* DELETED and REVOKED.
THEOREM ConfigIsSingleUse == Spec => ConfigReopensAtEndOnly
<1> DEFINE Step == \A p \in Peers :
                     reply'[p] # reply[p] /\ reply'[p].code = "200" =>
                         \/ clients[reply'[p].client].app = ""
                         \/ clients[reply'[p].client].status \in {"DELETED", "REVOKED"}
<1>1. TypeOK /\ ClientsInv /\ [Next]_vars => Step
  <2> SUFFICES ASSUME TypeOK, ClientsInv, [Next]_vars PROVE Step
    OBVIOUS
  <2>1. CASE UNCHANGED reply
    BY <2>1
  <2>2. ASSUME NEW p \in Peers, Config(p) PROVE Step
    <3> DEFINE c == jwt[p].client
    <3>1. c \in ClientIDs /\ clients[c] \in ClientRow
      BY <2>2 DEF Config, TypeOK, TokenGrant, RepoTypeOK
    <3>2. reply' = [reply EXCEPT ![p] =
                      [client |-> c,
                       code |-> IF clients[c].status = "ACTIVE" THEN "409" ELSE "200"]]
      BY <2>2 DEF Config
    <3>3. AppAgrees(clients[c]) /\ clients[c] # NoRow
      BY <2>2, <3>1 DEF ClientsInv, AppMatchesStatus, Config
    <3>4. clients[c].status # "ACTIVE" =>
             \/ clients[c].app = ""
             \/ clients[c].status \in {"DELETED", "REVOKED"}
      BY <3>1, <3>3 DEF AppAgrees, ClientRow, ClientStatus
    <3> HIDE DEF c
    <3> QED BY <3>2, <3>4 DEF TypeOK
  <2>3. ASSUME NEW p \in Peers, Peer(p) PROVE Step
    BY <2>1, <2>2, <2>3 DEF Peer, TokenRequest, IssueAccessToken, IssueFails, Expire,
       Versions, DeleteIntegration, clientVars
  <2>4. ASSUME NEW a \in Admins, Admin(a) PROVE UNCHANGED reply
    BY <2>4 DEF Admin, Create, ResetSecret, ReadClient, PrintClient, PrintFails
  <2> QED BY <2>1, <2>3, <2>4 DEF Next, vars
<1> QED BY <1>1, TypeCorrect, LifecycleInvariant, PTL DEF Spec, ConfigReopensAtEndOnly

-----------------------------------------------------------------------------
(* The refinement of Lifecycle *)

stageView == [c \in ClientIDs |-> StageOf(clients[c])]
keyView == [c \in ClientIDs |-> KeyOf(clients[c])]
grantsView == [p \in Peers |-> GrantsOf(request[p], jwt[p])]

\* A row as a stage and a key.
LEMMA StageFacts ==
    /\ StageOf(NoRow) = "none" /\ KeyOf(NoRow) = 0
    /\ \A row \in ClientRow :
         /\ row # NoRow
         /\ StageOf(row) # "none" /\ KeyOf(row) = row.secret
         /\ row.status = "" => StageOf(row) = "pending"
         /\ row.status = "ROUTING" => StageOf(row) = "routing"
         /\ row.status = "ACTIVE" => StageOf(row) = "active"
         /\ row.status \in {"DELETED", "REVOKED"} => StageOf(row) = "ended"
<1>1. StageOf(NoRow) = "none" /\ KeyOf(NoRow) = 0
  BY DEF StageOf, KeyOf
<1>2. ASSUME NEW row \in ClientRow
      PROVE  /\ row # NoRow
             /\ StageOf(row) # "none" /\ KeyOf(row) = row.secret
             /\ row.status = "" => StageOf(row) = "pending"
             /\ row.status = "ROUTING" => StageOf(row) = "routing"
             /\ row.status = "ACTIVE" => StageOf(row) = "active"
             /\ row.status \in {"DELETED", "REVOKED"} => StageOf(row) = "ended"
  <2>1. row # NoRow
    BY NoRowFacts
  <2>2. row.status \in {"", "ROUTING", "ACTIVE", "DELETED", "REVOKED"}
    BY DEF ClientRow, ClientStatus
  <2> QED BY <2>1, <2>2 DEF StageOf, KeyOf
<1> QED BY <1>1, <1>2

\* The grants of a request and a JWT, one by one.
LEMMA GrantsFacts ==
    ASSUME NEW r, NEW j, NEW x
    PROVE  x \in GrantsOf(r, j) <=>
             \/ r # NoRow /\ x = [client |-> r.client, key |-> r.secret]
             \/ j # NoRow /\ x = [client |-> j.client, key |-> j.secret]
BY DEF GrantsOf

\* The secret drawn next is new to every row and every grant.
LEMMA NextIsFresh ==
    ASSUME TypeOK, SecretsDrawn
    PROVE  Life!Fresh(drawn + 1)
<1>1. drawn \in Nat
  BY DEF TypeOK
<1>2. ASSUME NEW c \in ClientIDs
      PROVE  KeyOf(clients[c]) # drawn + 1
  BY <1>1 DEF KeyOf, SecretsDrawn, Known
<1>3. ASSUME NEW p \in Peers, NEW g \in GrantsOf(request[p], jwt[p])
      PROVE  g.key # drawn + 1
  BY <1>1, GrantsFacts DEF SecretsDrawn, Known
<1> QED BY <1>1, <1>2, <1>3 DEF Life!Fresh

LEMMA LifeInitRefines == Init => Life!LifeInit
<1> SUFFICES ASSUME Init PROVE Life!LifeInit
  OBVIOUS
<1>1. \A p \in Peers : GrantsOf(request[p], jwt[p]) = {}
  BY GrantsFacts DEF Init
<1>2. \A c \in ClientIDs : StageOf(clients[c]) = "none" /\ KeyOf(clients[c]) = 0
  BY StageFacts DEF Init
<1> QED BY <1>1, <1>2 DEF Life!LifeInit

\* A row written over another one of the same client, as the life cycle sees it.
LEMMA RowView ==
    ASSUME NEW c \in ClientIDs, NEW row, TypeOK,
           clients' = [clients EXCEPT ![c] = row]
    PROVE  /\ stageView' = [stageView EXCEPT ![c] = StageOf(row)]
           /\ keyView' = [keyView EXCEPT ![c] = KeyOf(row)]
BY DEF TypeOK, RepoTypeOK, stageView, keyView

\* Steps of a PBXware system: a correct secret is presented, a grant passes from
\* the request to the JWT and expires, or the JWT is used.
LEMMA PeerRefines ==
    ASSUME NEW p \in Peers, TypeOK, ClientsInv, Peer(p)
    PROVE  Life!LifeNext \/ UNCHANGED <<stageView, keyView, grantsView>>
<1> USE DEF stageView, keyView, grantsView
<1>1. jwt[p] # NoRow => jwt[p].client \in ClientIDs /\ clients[jwt[p].client] \in ClientRow
  BY DEF TypeOK, RepoTypeOK, TokenGrant, ClientsInv, RowsHeld, Held
<1>2. ASSUME NEW c \in ClientIDs, NEW s \in 1..MaxSecrets, TokenRequest(p, c, s)
      PROVE  Life!Present(p, c)
  <2>1. clients[c] \in ClientRow /\ s = clients[c].secret /\ request[p] = NoRow
    BY <1>2 DEF TokenRequest, TypeOK, RepoTypeOK
  <2>2. stageView[c] # "none" /\ keyView[c] = s
    BY <2>1, StageFacts
  <2>3. UNCHANGED <<stageView, keyView>>
    BY <1>2 DEF TokenRequest, repoVars
  <2> DEFINE grant == [client |-> c, secret |-> s, overtaken |-> FALSE]
  <2>4. grant \in TokenGrant
    BY DEF TokenGrant
  <2>5. grant # NoRow /\ grant.client = c /\ grant.secret = s
    BY <2>4, NoRowFacts
  <2>6. request' = [request EXCEPT ![p] = grant] /\ UNCHANGED jwt
    BY <1>2 DEF TokenRequest
  <2> HIDE DEF grant
  <2>7. GrantsOf(grant, jwt[p]) = GrantsOf(NoRow, jwt[p]) \cup {[client |-> c, key |-> s]}
    BY <2>5, GrantsFacts
  <2>8. grantsView' = [grantsView EXCEPT ![p] = @ \cup {[client |-> c, key |-> s]}]
    BY <2>1, <2>6, <2>7 DEF TypeOK
  <2> QED BY <2>2, <2>3, <2>8 DEF Life!Present
<1>3. CASE IssueAccessToken(p) \/ IssueFails(p) \/ Expire(p)
  <2>1. UNCHANGED <<stageView, keyView>>
    BY <1>3 DEF IssueAccessToken, IssueFails, Expire, repoVars
  <2>2. /\ \A q \in Peers : q # p => request'[q] = request[q] /\ jwt'[q] = jwt[q]
        /\ {request'[p], jwt'[p]} \subseteq {request[p], jwt[p], NoRow}
    BY <1>3 DEF IssueAccessToken, IssueFails, Expire, TypeOK
  <2>3. GrantsOf(request'[p], jwt'[p]) \subseteq GrantsOf(request[p], jwt[p])
    BY <2>2 DEF GrantsOf
  <2>4. grantsView' = [grantsView EXCEPT ![p] = GrantsOf(request'[p], jwt'[p])]
    BY <2>2
  <2>5. Life!Forget(p)
    BY <2>1, <2>3, <2>4 DEF Life!Forget
  <2> QED BY <2>5 DEF Life!LifeNext
<1>4. CASE Config(p)
  BY <1>4 DEF Config, repoVars
<1>5. ASSUME NEW status \in {"ACTIVE", "DELETED"}, jwt[p] # NoRow,
             NEW row \in ClientRow, row.status = status,
             row.secret = clients[jwt[p].client].secret,
             clients' = [clients EXCEPT ![jwt[p].client] = row],
             UNCHANGED <<request, jwt>>
      PROVE  Life!LifeNext
  <2> DEFINE c == jwt[p].client
             grant == [client |-> c, key |-> jwt[p].secret]
  <2>1. c \in ClientIDs /\ stageView[c] # "none" /\ keyView[c] = row.secret
    BY <1>1, <1>5, StageFacts
  <2>2. grant \in grantsView[p] /\ grant.client = c
    BY <1>5, GrantsFacts
  <2>3. /\ stageView' = [stageView EXCEPT ![c] = StageOf(row)]
        /\ keyView' = [keyView EXCEPT ![c] = KeyOf(row)]
    BY <1>5, <2>1, RowView
  <2>4. keyView' = keyView
    BY <2>1, <2>3, StageFacts
  <2>5. UNCHANGED grantsView
    BY <1>5
  <2>6. StageOf(row) = IF status = "ACTIVE" THEN "active" ELSE "ended"
    BY <1>5, StageFacts
  <2> HIDE DEF grant, c
  <2>7. Life!Use(grant, StageOf(row))
    BY <2>1, <2>2, <2>3, <2>4, <2>5 DEF Life!Use
  <2> QED BY <2>2, <2>6, <2>7 DEF Life!LifeNext
<1>6. ASSUME NEW app \in Apps, Versions(p, app)
      PROVE  Life!LifeNext
  <2> DEFINE c == jwt[p].client
             row == [clients[c] EXCEPT !.app = app, !.status = "ACTIVE"]
  <2>1. c \in ClientIDs /\ clients[c] \in ClientRow /\ jwt[p] # NoRow
    BY <1>1, <1>6 DEF Versions
  <2>2. row \in ClientRow /\ row.secret = clients[c].secret /\ row.status = "ACTIVE"
    BY <2>1 DEF ClientRow, ClientStatus, Apps
  <2>3. clients' = [clients EXCEPT ![c] = row] /\ UNCHANGED <<request, jwt>>
    BY <1>6, <2>1 DEF Versions, ClientsUpdateStatus, clientVars, TypeOK, RepoTypeOK
  <2> HIDE DEF row
  <2> QED BY <1>5, <2>1, <2>2, <2>3
<1>7. CASE DeleteIntegration(p)
  <2> DEFINE c == jwt[p].client
             row == [clients[c] EXCEPT !.status = "DELETED"]
  <2>1. c \in ClientIDs /\ clients[c] \in ClientRow /\ jwt[p] # NoRow
    BY <1>1, <1>7 DEF DeleteIntegration
  <2>2. row \in ClientRow /\ row.secret = clients[c].secret /\ row.status = "DELETED"
    BY <2>1 DEF ClientRow, ClientStatus
  <2>3. clients' = [clients EXCEPT ![c] = row] /\ UNCHANGED <<request, jwt>>
    BY <1>7, <2>1 DEF DeleteIntegration, DeleteClientData, clientVars, TypeOK, RepoTypeOK
  <2> HIDE DEF row
  <2> QED BY <1>5, <2>1, <2>2, <2>3
<1> QED BY <1>2, <1>3, <1>4, <1>6, <1>7 DEF Peer, Life!LifeNext

\* A reset gives the client the secret drawn next and takes no grant away; it
\* only marks them.
LEMMA ResetRefines ==
    ASSUME NEW a \in Admins, NEW c \in ClientIDs, TypeOK, ClientsInv, ResetSecret(a, c)
    PROVE  Life!Reset(c)
<1> DEFINE row == [clients[c] EXCEPT !.secret = drawn + 1, !.status = "REVOKED"]
<1>1. clients[c] \in ClientRow /\ drawn + 1 \in Nat
  BY DEF ResetSecret, ClientsResetSecret, TypeOK, RepoTypeOK
<1>2. row \in ClientRow /\ row.secret = drawn + 1 /\ row.status = "REVOKED"
  BY <1>1 DEF ClientRow, ClientStatus
<1>3. clients' = [clients EXCEPT ![c] = row]
  BY <1>1 DEF ResetSecret, ClientsResetSecret, TypeOK, RepoTypeOK
<1> HIDE DEF row
<1>4. /\ stageView' = [stageView EXCEPT ![c] = "ended"]
      /\ keyView' = [keyView EXCEPT ![c] = drawn + 1]
      /\ stageView[c] # "none"
  <2>1. StageOf(row) = "ended" /\ KeyOf(row) = drawn + 1 /\ StageOf(clients[c]) # "none"
    BY <1>1, <1>2, StageFacts
  <2>2. /\ stageView' = [stageView EXCEPT ![c] = StageOf(row)]
        /\ keyView' = [keyView EXCEPT ![c] = KeyOf(row)]
    BY <1>3, RowView
  <2> QED BY <2>1, <2>2 DEF stageView
<1>5. UNCHANGED grantsView
  <2>1. ASSUME NEW g \in TokenGrant \cup {NoRow},
               NEW n, n = IF g # NoRow /\ g.client = c
                          THEN [g EXCEPT !.overtaken = TRUE] ELSE g
        PROVE  /\ n = NoRow <=> g = NoRow
               /\ g # NoRow => n.client = g.client /\ n.secret = g.secret
    BY <2>1, NoRowFacts DEF TokenGrant
  <2>2. ASSUME NEW p \in Peers
        PROVE  /\ request'[p] = NoRow <=> request[p] = NoRow
               /\ request[p] # NoRow => /\ request'[p].client = request[p].client
                                        /\ request'[p].secret = request[p].secret
               /\ jwt'[p] = NoRow <=> jwt[p] = NoRow
               /\ jwt[p] # NoRow => /\ jwt'[p].client = jwt[p].client
                                    /\ jwt'[p].secret = jwt[p].secret
    <3>1. request[p] \in TokenGrant \cup {NoRow} /\ jwt[p] \in TokenGrant \cup {NoRow}
      BY DEF TypeOK
    <3>2. /\ request'[p] = IF request[p] # NoRow /\ request[p].client = c
                           THEN [request[p] EXCEPT !.overtaken = TRUE]
                           ELSE request[p]
          /\ jwt'[p] = IF jwt[p] # NoRow /\ jwt[p].client = c
                       THEN [jwt[p] EXCEPT !.overtaken = TRUE]
                       ELSE jwt[p]
      BY DEF ResetSecret, Overtake
    <3> QED BY <2>1, <3>1, <3>2
  <2>3. ASSUME NEW p \in Peers
        PROVE  GrantsOf(request'[p], jwt'[p]) = GrantsOf(request[p], jwt[p])
    <3>1. \A x : x \in GrantsOf(request'[p], jwt'[p]) <=>
                x \in GrantsOf(request[p], jwt[p])
      BY <2>2, GrantsFacts
    <3> QED BY <3>1 DEF GrantsOf
  <2> QED BY <2>3 DEF grantsView
<1>6. keyView'[c] = drawn + 1 /\ Life!Fresh(drawn + 1)
  BY <1>4, NextIsFresh DEF ClientsInv, keyView
<1> QED BY <1>4, <1>5, <1>6 DEF Life!Reset, Life!NewKey, stageView, keyView, grantsView

LEMMA CreateRefines ==
    ASSUME NEW a \in Admins, NEW c \in ClientIDs, NEW name \in Names,
           NEW routing \in BOOLEAN, TypeOK, ClientsInv, Create(a, c, name, routing)
    PROVE  Life!Create(c, IF routing THEN "routing" ELSE "pending")
<1> DEFINE row == [name |-> name, secret |-> drawn + 1, app |-> "",
                   status |-> IF routing THEN "ROUTING" ELSE ""]
<1>1. /\ row \in ClientRow /\ row.secret = drawn + 1
      /\ row.status = IF routing THEN "ROUTING" ELSE ""
  BY DEF ClientRow, ClientStatus, TypeOK
<1>2. clients' = [clients EXCEPT ![c] = row] /\ clients[c] = NoRow
  BY DEF Create, ClientsCreate
<1> HIDE DEF row
<1>3. /\ stageView' = [stageView EXCEPT ![c] = IF routing THEN "routing" ELSE "pending"]
      /\ keyView' = [keyView EXCEPT ![c] = drawn + 1]
      /\ stageView[c] = "none"
  <2>1. StageOf(row) = IF routing THEN "routing" ELSE "pending"
    <3>1. CASE routing
      BY <1>1, <3>1, StageFacts
    <3>2. CASE ~routing
      BY <1>1, <3>2, StageFacts
    <3> QED BY <3>1, <3>2
  <2>2. KeyOf(row) = drawn + 1 /\ StageOf(clients[c]) = "none"
    BY <1>1, <1>2, StageFacts
  <2>3. /\ stageView' = [stageView EXCEPT ![c] = StageOf(row)]
        /\ keyView' = [keyView EXCEPT ![c] = KeyOf(row)]
    BY <1>2, RowView
  <2> QED BY <2>1, <2>2, <2>3 DEF stageView
<1>4. UNCHANGED grantsView
  BY DEF Create, grantsView
<1>5. keyView'[c] = drawn + 1 /\ Life!Fresh(drawn + 1)
  BY <1>3, NextIsFresh DEF ClientsInv, keyView
<1> QED BY <1>3, <1>4, <1>5 DEF Life!Create, Life!NewKey, stageView, keyView, grantsView

LEMMA LifeNextRefines ==
    TypeOK /\ ClientsInv /\ [Next]_vars => [Life!LifeNext]_(Life!lifeVars)
<1> SUFFICES ASSUME TypeOK, ClientsInv, [Next]_vars
             PROVE  Life!LifeNext \/ UNCHANGED <<stageView, keyView, grantsView>>
  BY DEF Life!lifeVars, stageView, keyView, grantsView
<1>1. ASSUME NEW p \in Peers, Peer(p)
      PROVE  Life!LifeNext \/ UNCHANGED <<stageView, keyView, grantsView>>
  BY <1>1, PeerRefines
<1>2. ASSUME NEW a \in Admins, Admin(a)
      PROVE  Life!LifeNext \/ UNCHANGED <<stageView, keyView, grantsView>>
  <2>1. CASE ReadClient(a) \/ PrintClient(a) \/ PrintFails(a)
    BY <2>1 DEF ReadClient, PrintClient, PrintFails, repoVars, stageView, keyView, grantsView
  <2>2. CASE \E c \in ClientIDs : ResetSecret(a, c)
    BY <2>2, ResetRefines DEF Life!LifeNext
  <2>3. ASSUME NEW c \in ClientIDs, NEW name \in Names, NEW routing \in BOOLEAN,
               Create(a, c, name, routing)
        PROVE  Life!LifeNext
    BY <2>3, CreateRefines DEF Life!LifeNext
  <2> QED BY <1>2, <2>1, <2>2, <2>3 DEF Admin
<1>3. CASE UNCHANGED vars
  BY <1>3 DEF vars, stageView, keyView, grantsView
<1> QED BY <1>1, <1>2, <1>3 DEF Next

\* Nobody activates or ends a client without having presented a secret when it
\* counted, and every reset leaves a secret no grant goes by: the handlers and
\* the command line implement the abstract life cycle.
THEOREM SecretsAuthoriseChanges == Spec => SecretsAuthorise
<1>1. Spec => [](TypeOK /\ ClientsInv)
  BY TypeCorrect, LifecycleInvariant, PTL
<1> QED BY <1>1, LifeInitRefines, LifeNextRefines, PTL
        DEF Spec, SecretsAuthorise, Life!LifeSpec
=============================================================================
