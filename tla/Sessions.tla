------------------------------ MODULE Sessions ------------------------------
(***************************************************************************)
(* The CRM sessions of PBXware users: the rows of the tables tokens and    *)
(* users, and the concurrent HTTP handlers that log in, refresh, report    *)
(* and log out a session.  A handler is a goroutine; between two of its    *)
(* database calls it waits for the OAuth provider, and any other handler   *)
(* may run.  Each action below is one stretch of a handler up to its next  *)
(* database statement or provider reply.                                   *)
(*                                                                         *)
(* The OAuth provider (Salesforce and the golang.org/x/oauth2 client) is   *)
(* external: it grants, refreshes or refuses.                              *)
(***************************************************************************)
EXTENDS Repo

CONSTANTS
    Handlers,       \* HTTP handlers that may run at once
    AppOf,          \* the mount a client's integration is configured with
    EmptyPassword,  \* the password column of an OAuth user
    Rotates,        \* whether the provider replaces a refresh token on use
    DBFaults,       \* whether a statement may fail for lack of disk, I/O, ...
    MaxGrants       \* bound on the numbers the provider hands out

ASSUME SessionsAssumption ==
    /\ AppOf \in [ClientIDs -> {"code", "password", "credentials"}]
    /\ EmptyPassword \in Passwords
    /\ Rotates \in BOOLEAN
    /\ DBFaults \in BOOLEAN
    /\ MaxGrants \in Nat
    /\ NoRow \notin Accounts \cup Passwords

VARIABLES
    issued,    \* how many grants and rotated refresh tokens the provider made
    live,      \* the refresh tokens the provider accepts
    handler,   \* [Handlers -> Request]
    torn,      \* history: accounts of which a race, a fault or a crash may
               \*   have left only one of the two rows
    lost       \* history: accounts whose rotated refresh token was not stored

sessionVars == <<issued, live, handler, torn, lost>>
vars == <<clients, users, tokens, dataSchemas, issued, live, handler, torn, lost>>

LoginOps == {"login", "callback"}
TokenOps == {"status", "request"}
AppType(a) == AppOf[ClientOf(a)]

(***************************************************************************)
(* pc of a handler: "grant" and "refresh" wait for the provider, "creds"   *)
(* is about to read the stored password, "save" to write the token,        *)
(* "create" to insert the user, "done" has written its response.  token is *)
(* the token in the handler's memory, overtaken (history) says that the    *)
(* account's rows were deleted after the handler last saw or wrote them.   *)
(***************************************************************************)
Request ==
    [pc: {"idle", "grant", "refresh", "creds", "save", "create", "done"},
     op: LoginOps \cup TokenOps \cup {"logout", "none"},
     acct: Accounts \cup {NoRow},
     password: Passwords \cup {NoRow},
     token: TokenRow \cup {NoRow},
     result: {"none", "ok", "error"},
     overtaken: BOOLEAN]

\* A handler between two steps knows its account, and holds a token or a
\* password where its next step needs one.
WellFormed ==
    {r \in Request :
        /\ r.pc # "idle" => r.acct \in Accounts
        /\ r.pc \in {"save", "refresh"} => r.token \in TokenRow
        /\ r.pc = "create" => r.password \in Passwords /\ r.op \in LoginOps
        /\ r.pc \in {"grant", "save"} /\ r.op \in LoginOps => r.password \in Passwords
        /\ r.pc \in {"refresh", "creds"} => r.op \in TokenOps
        /\ r.pc \in {"grant", "save"} => r.op \in LoginOps \cup TokenOps}

Idle == [pc |-> "idle", op |-> "none", acct |-> NoRow, password |-> NoRow,
         token |-> NoRow, result |-> "none", overtaken |-> FALSE]

\* A request accepted and on its way to pc, or answered at once.
Accepted(op, a, pc, password, token) ==
    [pc |-> pc, op |-> op, acct |-> a, password |-> password,
     token |-> token, result |-> "none", overtaken |-> FALSE]
Answered(op, a, result) ==
    [pc |-> "done", op |-> op, acct |-> a, password |-> NoRow,
     token |-> NoRow, result |-> result, overtaken |-> FALSE]

Running(h) == handler[h].pc \notin {"idle", "done"}

\* The rows of the accounts in A have just been deleted.
Overtake(A) ==
    [h \in Handlers |->
        IF Running(h) /\ handler[h].acct \in A
        THEN [handler[h] EXCEPT !.overtaken = TRUE]
        ELSE handler[h]]

\* A request to which the provider has just given a token.
Granted(h, token) == [handler[h] EXCEPT !.pc = "save", !.token = token]

Answer(h, result) ==
    handler' = [handler EXCEPT
                  ![h] = Answered(handler[h].op, handler[h].acct, result)]

Init ==
    /\ clients \in [ClientIDs -> [name: Names, secret: {1},
                                  app: {"Salesforce"}, status: {"ACTIVE"}]]
    /\ \A c, d \in ClientIDs : clients[c].name = clients[d].name => c = d
    /\ users = [a \in Accounts |-> NoRow]
    /\ tokens = [a \in Accounts |-> NoRow]
    /\ dataSchemas = [c \in ClientIDs |-> {}]
    /\ issued = 0
    /\ live = {}
    /\ handler = [h \in Handlers |-> Idle]
    /\ torn = {}
    /\ lost = {}

-----------------------------------------------------------------------------
(* Logging in *)

\* POST auth/login of the password mount; no CRM user has the empty password.
StartLogin(h, a, p) ==
    /\ handler[h] = Idle
    /\ AppType(a) = "password"
    /\ p # EmptyPassword
    /\ handler' = [handler EXCEPT ![h] = Accepted("login", a, "grant", p, NoRow)]
    /\ UNCHANGED <<repoVars, issued, live, torn, lost>>

\* The provider's redirect to the callback; its state names the account.
StartCallback(h, a) ==
    /\ handler[h] = Idle
    /\ AppType(a) = "code"
    /\ handler' = [handler EXCEPT
                     ![h] = Accepted("callback", a, "grant", EmptyPassword, NoRow)]
    /\ UNCHANGED <<repoVars, issued, live, torn, lost>>

\* Mutant: a grant without refresh token is kept as NULL, not as "".
GrantKeepsNull(h) ==
    /\ handler[h].pc = "grant"
    /\ issued < MaxGrants
    /\ issued' = issued + 1
    /\ handler' = [handler EXCEPT ![h] =
         Granted(h, [refresh |-> NoRow, fresh |-> TRUE])]
    /\ UNCHANGED <<repoVars, live, torn, lost>>

\* The code, the password or the consumer key is exchanged for a token, which
\* comes with a refresh token or, at the provider's choice, without.
Grant(h) ==
    /\ handler[h].pc = "grant"
    /\ AppType(handler[h].acct) = "password" => handler[h].password # EmptyPassword
    /\ issued < MaxGrants
    /\ issued' = issued + 1
    /\ \E refresh \in {0, issued + 1} :
         /\ AppType(handler[h].acct) = "credentials" => refresh = 0
         /\ live' = live \cup ({refresh} \ {0})
         /\ handler' = [handler EXCEPT ![h] =
              Granted(h, [refresh |-> refresh, fresh |-> TRUE])]
    /\ UNCHANGED <<repoVars, torn, lost>>

\* A wrong code or password, an "error" parameter, or no answer.
GrantFails(h) ==
    /\ handler[h].pc = "grant"
    /\ Answer(h, "error")
    /\ UNCHANGED <<repoVars, issued, live, torn, lost>>

-----------------------------------------------------------------------------
(* Finding the token of a request: Token(userID, clientID) of the three     *)
(* configurations.  The row is read once, and the handler acts on what it   *)
(* read after the provider has answered.                                    *)

\* The mount without user login has a constant status response.
AsksForToken(h, op, a) ==
    /\ handler[h] = Idle
    /\ AppType(a) = "credentials" => op = "request"

TokenIsFresh(h, op, a) ==
    /\ AsksForToken(h, op, a)
    /\ tokens[a] # NoRow
    /\ tokens[a].fresh
    /\ handler' = [handler EXCEPT ![h] = Answered(op, a, "ok")]
    /\ UNCHANGED <<repoVars, issued, live, torn, lost>>

TokenIsMissing(h, op, a) ==
    /\ AsksForToken(h, op, a)
    /\ AppType(a) # "credentials"
    /\ tokens[a] = NoRow \/ DBFaults
    /\ handler' = [handler EXCEPT ![h] = Answered(op, a, "error")]
    /\ UNCHANGED <<repoVars, issued, live, torn, lost>>

StaleRow(a) == tokens[a] # NoRow /\ ~tokens[a].fresh

\* The client-credentials grant takes a token that is missing, expired or not
\* to be read for none.
TokenByCredentials(h, op, a) ==
    /\ AsksForToken(h, op, a)
    /\ AppType(a) = "credentials"
    /\ tokens[a] = NoRow \/ StaleRow(a) \/ DBFaults
    /\ handler' = [handler EXCEPT
                     ![h] = Accepted(op, a, "grant", EmptyPassword, NoRow)]
    /\ UNCHANGED <<repoVars, issued, live, torn, lost>>

TokenIsStale(h, op, a) ==
    /\ AsksForToken(h, op, a)
    /\ AppType(a) # "credentials"
    /\ StaleRow(a)
    /\ handler' = [handler EXCEPT ![h] =
         IF tokens[a].refresh # 0
         THEN Accepted(op, a, "refresh", NoRow, tokens[a])
         ELSE IF AppType(a) = "password"
         THEN Accepted(op, a, "creds", NoRow, NoRow)
         ELSE Answered(op, a, "error")]
    /\ UNCHANGED <<repoVars, issued, live, torn, lost>>

\* Passwords are encrypted and decrypted with a key read from the settings.  When
\* that read fails, the outcome is the empty string, and nobody is told.
Crypted(password) == {password} \cup (IF DBFaults THEN {EmptyPassword} ELSE {})

\* Without a refresh token the password mount logs in again by itself, with
\* the password stored at the first login.
ReadCredentials(h) ==
    /\ handler[h].pc = "creds"
    /\ LET row == users[handler[h].acct] IN
         \/ /\ row = NoRow \/ DBFaults
            /\ Answer(h, "error")
         \/ /\ row # NoRow
            /\ \E password \in Crypted(row.password) :
                 handler' = [handler EXCEPT ![h].pc = "grant", ![h].password = password]
    /\ UNCHANGED <<repoVars, issued, live, torn, lost>>

\* The provider replaces the refresh token by a new one.
Rotated(h) ==
    /\ issued < MaxGrants
    /\ issued' = issued + 1
    /\ live' = (live \ {handler[h].token.refresh}) \cup {issued + 1}

\* Mutant: the new access token is saved with the old refresh token.
RefreshKeepsOld(h) ==
    LET old == handler[h].token IN
    /\ handler[h].pc = "refresh"
    /\ old.refresh \in live
    /\ Rotates /\ Rotated(h)
    /\ handler' = [handler EXCEPT ![h] = Granted(h, [old EXCEPT !.fresh = TRUE])]
    /\ UNCHANGED <<repoVars, torn, lost>>

Refresh(h) ==
    LET old == handler[h].token
        new(refresh) == [refresh |-> refresh, fresh |-> TRUE]
    IN
    /\ handler[h].pc = "refresh"
    /\ old.refresh \in live
    /\ \/ /\ Rotates
          /\ Rotated(h)
          /\ handler' = [handler EXCEPT ![h] = Granted(h, new(issued + 1))]
       \/ /\ ~Rotates
          /\ handler' = [handler EXCEPT ![h] = Granted(h, new(old.refresh))]
          /\ UNCHANGED <<issued, live>>
    /\ UNCHANGED <<repoVars, torn, lost>>

\* The provider hands out the access token it handed out before: the request
\* goes on with the row as it was read and nothing is saved.
RefreshUnchanged(h) ==
    /\ ~Rotates
    /\ handler[h].pc = "refresh"
    /\ handler[h].token.refresh \in live
    /\ Answer(h, "ok")
    /\ UNCHANGED <<repoVars, issued, live, torn, lost>>

\* A refresh token no longer accepted, or no answer.
RefreshFails(h) ==
    /\ handler[h].pc = "refresh"
    /\ Answer(h, "error")
    /\ UNCHANGED <<repoVars, issued, live, torn, lost>>

\* The provider rotated the refresh token, and its answer did not arrive.
RefreshReplyLost(h) ==
    /\ Rotates
    /\ handler[h].pc = "refresh"
    /\ handler[h].token.refresh \in live
    /\ Rotated(h)
    /\ Answer(h, "error")
    /\ lost' = lost \cup {handler[h].acct}
    /\ UNCHANGED <<repoVars, torn>>

-----------------------------------------------------------------------------
(* Storing the outcome *)

\* A handler that refreshed, or logged in with the stored password, answers;
\* a login goes on to insert the user.  The row is written whether or not it
\* still is the one the handler read, or is there at all.
SaveToken(h) ==
    LET a == handler[h].acct IN
    /\ handler[h].pc = "save"
    /\ TokensSave(a, handler[h].token)
    /\ IF handler[h].op \in LoginOps
       THEN /\ handler' = [handler EXCEPT ![h].pc = "create", ![h].token = NoRow,
                                          ![h].overtaken = FALSE]
            /\ UNCHANGED torn
       ELSE /\ Answer(h, "ok")
            /\ torn' = IF handler[h].overtaken THEN torn \cup {a} ELSE torn
    /\ lost' = lost \ {a}
    /\ UNCHANGED <<issued, live>>

SaveFails(h) ==
    /\ DBFaults
    /\ handler[h].pc = "save"
    /\ Answer(h, "error")
    /\ lost' = IF Rotates /\ handler[h].op \in TokenOps
               THEN lost \cup {handler[h].acct} ELSE lost
    /\ UNCHANGED <<repoVars, issued, live, torn>>

CreateUser(h) ==
    LET a == handler[h].acct IN
    /\ handler[h].pc = "create"
    /\ \E password \in Crypted(handler[h].password) : UsersCreate(a, [password |-> password])
    /\ Answer(h, "ok")
    /\ torn' = IF handler[h].overtaken THEN torn \cup {a} ELSE torn \ {a}
    /\ UNCHANGED <<issued, live, lost>>

\* Mutant: the INSERT is retried until it succeeds.
CreateRetries(h) ==
    /\ handler[h].pc = "create"
    /\ users[handler[h].acct] # NoRow
    /\ UNCHANGED vars

\* The INSERT meets the row of an earlier login: the token stays, the response
\* is a failure.
CreateConflicts(h) ==
    /\ handler[h].pc = "create"
    /\ users[handler[h].acct] # NoRow
    /\ Answer(h, "error")
    /\ UNCHANGED <<repoVars, issued, live, torn, lost>>

CreateFails(h) ==
    /\ DBFaults
    /\ handler[h].pc = "create"
    /\ Answer(h, "error")
    /\ torn' = torn \cup {handler[h].acct}
    /\ UNCHANGED <<repoVars, issued, live, lost>>

-----------------------------------------------------------------------------
(* Ending a session *)

\* GET auth/logout answers 200 whether or not the user was found and deleted.
Logout(h, a) ==
    /\ handler[h] = Idle
    /\ \/ /\ UsersDelete(a)
          /\ handler' = [Overtake({a}) EXCEPT ![h] = Answered("logout", a, "ok")]
          /\ torn' = torn \ {a}
       \/ /\ users[a] = NoRow \/ DBFaults
          /\ handler' = [handler EXCEPT ![h] = Answered("logout", a, "ok")]
          /\ UNCHANGED <<repoVars, torn>>
    /\ UNCHANGED <<issued, live, lost>>

\* DELETE integration, in one transaction.
DeleteIntegration(c) ==
    LET A == {a \in Accounts : ClientOf(a) = c} IN
    /\ DeleteClientData(c)
    /\ handler' = Overtake(A)
    /\ torn' = torn \ A
    /\ UNCHANGED <<issued, live, lost>>

-----------------------------------------------------------------------------
(* The surroundings *)

\* The response is read and the goroutine ends.
Receive(h) ==
    /\ handler[h].pc = "done"
    /\ handler' = [handler EXCEPT ![h] = Idle]
    /\ UNCHANGED <<repoVars, issued, live, torn, lost>>

\* The stored expiry (never later than the provider's) passes.
Expire(a) ==
    /\ tokens[a] # NoRow
    /\ tokens[a].fresh
    /\ tokens' = [tokens EXCEPT ![a].fresh = FALSE]
    /\ UNCHANGED <<clients, users, dataSchemas, issued, live, handler, torn, lost>>

\* The process ends, by a signal and its 15 second grace or by a crash, and
\* starts again: the tables stay, every handler is gone.
Restart ==
    /\ \E h \in Handlers : Running(h)
    /\ handler' = [h \in Handlers |-> Idle]
    /\ torn' = torn \cup {handler[h].acct : h \in {g \in Handlers : handler[g].pc = "create"}}
    /\ lost' = IF Rotates
               THEN lost \cup {handler[h].acct :
                                 h \in {g \in Handlers : handler[g].pc = "save"}}
               ELSE lost
    /\ UNCHANGED <<repoVars, issued, live>>

Provider(h) ==
    \/ Grant(h)
    \/ GrantFails(h)
    \/ Refresh(h)
    \/ RefreshUnchanged(h)
    \/ RefreshFails(h)
    \/ RefreshReplyLost(h)

Database(h) ==
    \/ ReadCredentials(h)
    \/ SaveToken(h)
    \/ SaveFails(h)
    \/ CreateUser(h)
    \/ CreateConflicts(h)
    \/ CreateFails(h)

Accept(h, a) ==
    \/ \E p \in Passwords : StartLogin(h, a, p)
    \/ StartCallback(h, a)
    \/ \E op \in TokenOps :
         \/ TokenIsFresh(h, op, a)
         \/ TokenIsMissing(h, op, a)
         \/ TokenByCredentials(h, op, a)
         \/ TokenIsStale(h, op, a)
    \/ Logout(h, a)

Next ==
    \/ \E h \in Handlers : \/ \E a \in Accounts : Accept(h, a)
                           \/ Provider(h)
                           \/ Database(h)
                           \/ Receive(h)
    \/ \E a \in Accounts : Expire(a)
    \/ \E c \in ClientIDs : DeleteIntegration(c)
    \/ Restart

Spec == Init /\ [][Next]_vars

\* The steps of a handler whose statements the database carries out.
Executes(h) ==
    \/ ReadCredentials(h)
    \/ SaveToken(h)
    \/ CreateUser(h)
    \/ CreateConflicts(h)

\* A goroutine that can run runs, and need not be helped on by a fault.  The
\* provider may keep a handler waiting for ever: the OAuth calls use
\* context.Background() and a client without timeout.
FairSpec == Spec /\ \A h \in Handlers : WF_vars(Executes(h))

-----------------------------------------------------------------------------
(* Properties *)

\* The type invariant: the tables keep the shapes of their schemas and a
\* handler's local variables those of the Go code.
TypeOK ==
    /\ RepoTypeOK
    /\ issued \in 0..MaxGrants
    /\ live \in SUBSET (1..MaxGrants)
    /\ handler \in [Handlers -> WellFormed]
    /\ torn \in SUBSET Accounts
    /\ lost \in SUBSET Accounts

\* The two tables agree on whether the account has a session.
Agree(a) == tokens[a] # NoRow <=> users[a] # NoRow

\* The handler has stored the token of a and is about to insert its user.
Inserting(h, a) == handler[h].pc = "create" /\ handler[h].acct = a

\* A user has a token exactly when the user has a row: the two tables, written
\* by separate statements of a login and deleted by one transaction, disagree
\* only while a login is between the two, or after one of the causes recorded
\* in torn (a handler overtaken by a logout or by the deletion of the
\* integration, a failed INSERT, a restart).
SessionConsistent ==
    \A a \in Accounts :
        AppType(a) # "credentials" /\ a \notin torn =>
            Agree(a) \/ \E h \in Handlers : Inserting(h, a)

\* A request that has read, or written, its account's token row and was not
\* overtaken since: the row is still in the table.
RowHeld(r) ==
    /\ ~r.overtaken
    /\ \/ r.pc = "create"
       \/ /\ r.pc \in {"refresh", "creds", "grant", "save"}
          /\ r.op \in TokenOps
          /\ AppType(r.acct) # "credentials"
    => tokens[r.acct] # NoRow

\* Two tables that disagree are explained: the token is there, and a login that
\* nothing has overtaken will insert the user.
Explained(a) ==
    AppType(a) # "credentials" /\ a \notin torn =>
        \/ Agree(a)
        \/ /\ tokens[a] # NoRow
           /\ \E h \in Handlers : Inserting(h, a) /\ ~handler[h].overtaken

\* The inductive invariant behind SessionConsistent: what a handler saw in the
\* table is still there unless it is known to be overtaken, so that a late
\* write of a token or a user can be told from one that restores nothing.
SessionInv ==
    /\ \A h \in Handlers : RowHeld(handler[h])
    /\ \A a \in Accounts : Explained(a)

\* A stored refresh token the provider no longer accepts has a successor, which
\* a handler is about to store, unless the successor was lost on the way: no
\* interleaving of refreshes and logins strands a session on a spent token.
RefreshTokenKept ==
    \A a \in Accounts :
        tokens[a] # NoRow /\ tokens[a].refresh \notin live \cup {0} =>
            \/ a \in lost
            \/ \E h \in Handlers : handler[h].pc = "save" /\ handler[h].acct = a

\* A row, or a handler, has the refresh token n, and so does the account it is of.
Stores(a, n) == tokens[a] # NoRow /\ tokens[a].refresh = n
Holds(h, n) == handler[h].pc \in {"refresh", "save"} /\ handler[h].token.refresh = n
Uses(a, n) == Stores(a, n) \/ \E h \in Handlers : handler[h].acct = a /\ Holds(h, n)

\* Nobody acts with the CRM session of another PBXware user or of another client:
\* a refresh token is stored for, and renewed on behalf of, one account only,
\* however the handlers of many accounts are interleaved between reading a row,
\* waiting for the provider and writing the row back.
TokensAreSeparate ==
    \A a, b \in Accounts, n \in 1..MaxGrants : Uses(a, n) /\ Uses(b, n) => a = b

\* A provider's grant always leads to a response: once the token is in the
\* handler's hands it is saved and the request answered (or the process ends),
\* whatever the other handlers write meanwhile.
GrantIsAnswered ==
    \A h \in Handlers :
        handler[h].pc = "save" ~> handler[h].pc \in {"done", "idle"}

\* A logout leaves a token behind only where its user's row is missing, for one of
\* the causes of SessionConsistent, or where the transaction failed as a whole.
LogoutEndsSession ==
    [][\A h \in Handlers :
         LET a == handler'[h].acct IN
         /\ handler[h] = Idle
         /\ handler'[h].op = "logout"
         /\ AppType(a) # "credentials" /\ a \notin torn
         /\ \A g \in Handlers : ~Inserting(g, a)
         => tokens'[a] = NoRow \/ (DBFaults /\ users'[a] # NoRow)]_vars

-----------------------------------------------------------------------------
(* What the documents say, and the code does not do *)

\* docs/API-docs.md: the callback's success says whether the token was generated
\* and stored.  In callback.go a stored token still redirects with
\* success=false when the user has a row from an earlier login.
CallbackReportsStoredToken ==
    [][\A h \in Handlers :
         /\ handler[h].op = "callback"
         /\ handler[h].pc = "create"
         /\ handler'[h].pc = "done"
         /\ tokens'[handler[h].acct] # NoRow
         => handler'[h].result = "ok"]_vars

\* docs/API-docs.md: logout "invalidates the user's authorization by deleting
\* tokens".  repo/users.go rolls back when the users row is missing, so a token
\* without its row survives even a logout that nothing else runs against.
LogoutDeletesToken ==
    [][\A h \in Handlers :
         /\ handler[h].pc = "idle"
         /\ handler'[h].op = "logout"
         /\ \A g \in Handlers : Running(g) => handler[g].acct # handler'[h].acct
         => tokens'[handler'[h].acct] = NoRow]_vars
=============================================================================
