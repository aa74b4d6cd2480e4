--------------------------- MODULE SessionsProofs ---------------------------
(***************************************************************************)
(* Machine-checked theorems about Sessions, for any number of users,       *)
(* clients, handlers and grants, with and without refresh token rotation   *)
(* and database faults.                                                    *)
(***************************************************************************)
EXTENDS Sessions, RepoProofs

\* NoRow is no row, no account and no password.
LEMMA NoRowFacts ==
    /\ NoRow \notin ClientRow
    /\ NoRow \notin UserRow
    /\ NoRow \notin TokenRow
    /\ NoRow \notin Accounts
    /\ NoRow \notin Passwords
BY NoRowAssumption, SessionsAssumption
   DEF ClientRow, ClientStatus, UserRow, TokenRow

-----------------------------------------------------------------------------
(* Type correctness *)

\* A handler record built or answered by an action is well formed.
LEMMA AnsweredOK ==
    ASSUME NEW op \in LoginOps \cup TokenOps \cup {"logout"}, NEW a \in Accounts,
           NEW result \in {"ok", "error"}
    PROVE  Answered(op, a, result) \in WellFormed
BY DEF Answered, WellFormed, Request, LoginOps, TokenOps

LEMMA IdleOK == Idle \in WellFormed
BY DEF Idle, WellFormed, Request

\* Answering a running handler, or marking handlers overtaken, keeps every
\* handler well formed.
LEMMA AnswerOK ==
    ASSUME NEW h \in Handlers, NEW result \in {"ok", "error"},
           handler \in [Handlers -> WellFormed],
           handler[h].pc # "idle", handler[h].op \in LoginOps \cup TokenOps,
           Answer(h, result)
    PROVE  handler' \in [Handlers -> WellFormed]
<1>1. handler[h].acct \in Accounts
  BY DEF WellFormed
<1> QED BY <1>1, AnsweredOK DEF Answer

LEMMA OvertakeOK ==
    ASSUME NEW A, handler \in [Handlers -> WellFormed]
    PROVE  Overtake(A) \in [Handlers -> WellFormed]
<1> SUFFICES ASSUME NEW h \in Handlers
             PROVE  [handler[h] EXCEPT !.overtaken = TRUE] \in WellFormed
  BY DEF Overtake
<1> QED BY DEF WellFormed, Request

\* A handler in the middle of a request serves a login or needs a token.
LEMMA RunningOp ==
    ASSUME NEW h \in Handlers, handler \in [Handlers -> WellFormed],
           handler[h].pc \in {"grant", "refresh", "creds", "save", "create"}
    PROVE  /\ handler[h].op \in LoginOps \cup TokenOps
           /\ handler[h].acct \in Accounts
BY DEF WellFormed, Request, LoginOps, TokenOps

\* Accepting a request, logout included, keeps TypeOK.
LEMMA AcceptType ==
    ASSUME NEW h \in Handlers, NEW a \in Accounts, TypeOK, Accept(h, a)
    PROVE  TypeOK'
<1>1. CASE \E p \in Passwords : StartLogin(h, a, p)
  <2>1. PICK p \in Passwords : StartLogin(h, a, p)
    BY <1>1
  <2>2. Accepted("login", a, "grant", p, NoRow) \in WellFormed
    BY DEF Accepted, WellFormed, Request, LoginOps, TokenOps
  <2> QED BY <2>1, <2>2, RepoStutterType DEF StartLogin, TypeOK
<1>2. CASE StartCallback(h, a)
  <2>1. Accepted("callback", a, "grant", EmptyPassword, NoRow) \in WellFormed
    BY SessionsAssumption DEF Accepted, WellFormed, Request, LoginOps, TokenOps
  <2> QED BY <1>2, <2>1, RepoStutterType DEF StartCallback, TypeOK
<1>3. ASSUME NEW op \in TokenOps,
             \/ TokenIsFresh(h, op, a)
             \/ TokenIsMissing(h, op, a)
             \/ TokenByCredentials(h, op, a)
             \/ TokenIsStale(h, op, a)
      PROVE  TypeOK'
  <2>1. /\ Answered(op, a, "ok") \in WellFormed
        /\ Answered(op, a, "error") \in WellFormed
    BY AnsweredOK
  <2>2. CASE TokenIsFresh(h, op, a)
    BY <2>1, <2>2, RepoStutterType DEF TokenIsFresh, TypeOK
  <2>3. CASE TokenIsMissing(h, op, a)
    BY <2>1, <2>3, RepoStutterType DEF TokenIsMissing, TypeOK
  <2>4. CASE TokenByCredentials(h, op, a)
    <3>1. Accepted(op, a, "grant", EmptyPassword, NoRow) \in WellFormed
      BY SessionsAssumption DEF Accepted, WellFormed, Request, LoginOps, TokenOps
    <3> QED BY <2>4, <3>1, RepoStutterType DEF TokenByCredentials, TypeOK
  <2>5. CASE TokenIsStale(h, op, a)
    <3>1. tokens[a] \in TokenRow
      BY <2>5 DEF TokenIsStale, StaleRow, TypeOK, RepoTypeOK
    <3>2. /\ Accepted(op, a, "refresh", NoRow, tokens[a]) \in WellFormed
          /\ Accepted(op, a, "creds", NoRow, NoRow) \in WellFormed
      BY <3>1 DEF Accepted, WellFormed, Request, LoginOps, TokenOps
    <3> QED BY <2>1, <2>5, <3>2, RepoStutterType DEF TokenIsStale, TypeOK
  <2> QED BY <1>3, <2>2, <2>3, <2>4, <2>5
<1>4. CASE Logout(h, a)
  <2>1. Answered("logout", a, "ok") \in WellFormed
    BY AnsweredOK
  <2>2. CASE /\ UsersDelete(a)
             /\ handler' = [Overtake({a}) EXCEPT ![h] = Answered("logout", a, "ok")]
             /\ torn' = torn \ {a}
    <3>1. RepoTypeOK'
      BY <1>4, <2>2, UsersDeleteType DEF Logout, TypeOK
    <3>2. Overtake({a}) \in [Handlers -> WellFormed]
      BY OvertakeOK DEF TypeOK
    <3> QED BY <1>4, <2>1, <2>2, <3>1, <3>2 DEF Logout, TypeOK
  <2>3. CASE /\ handler' = [handler EXCEPT ![h] = Answered("logout", a, "ok")]
             /\ UNCHANGED <<repoVars, torn>>
    BY <1>4, <2>1, <2>3, RepoStutterType DEF Logout, TypeOK
  <2> QED BY <1>4, <2>2, <2>3 DEF Logout
<1> QED BY <1>1, <1>2, <1>3, <1>4 DEF Accept

\* A token received while waiting for the provider leaves the handler well formed.
LEMMA GrantedOK ==
    ASSUME NEW h \in Handlers, NEW token \in TokenRow,
           handler \in [Handlers -> WellFormed],
           handler[h].pc \in {"grant", "refresh"}
    PROVE  Granted(h, token) \in WellFormed
<1>1. handler[h] \in WellFormed
  OBVIOUS
<1>2. Granted(h, token) \in Request
  BY <1>1 DEF Granted, WellFormed, Request
<1> QED BY <1>1, <1>2 DEF Granted, WellFormed, Request, LoginOps, TokenOps

\* The provider's replies keep TypeOK.
LEMMA ProviderType ==
    ASSUME NEW h \in Handlers, TypeOK, Provider(h)
    PROVE  TypeOK'
<1> USE SessionsAssumption
<1>0. /\ handler \in [Handlers -> WellFormed]
      /\ handler[h] \in WellFormed
      /\ issued \in Nat
  BY DEF TypeOK
<1>1. CASE Grant(h)
  <2> DEFINE new(refresh) == [refresh |-> refresh, fresh |-> TRUE]
  <2>1. PICK refresh \in {0, issued + 1} :
          /\ live' = live \cup ({refresh} \ {0})
          /\ handler' = [handler EXCEPT ![h] = Granted(h, new(refresh))]
    BY <1>1 DEF Grant
  <2>2. new(refresh) \in TokenRow
    BY <1>0, <2>1 DEF TokenRow
  <2>3. Granted(h, new(refresh)) \in WellFormed
    BY <1>1, <2>2, GrantedOK DEF Grant, TypeOK
  <2>4. handler' \in [Handlers -> WellFormed]
    BY <1>0, <2>1, <2>3
  <2>5. issued' \in 0..MaxGrants /\ live' \in SUBSET (1..MaxGrants)
    BY <1>1, <2>1 DEF Grant, TypeOK
  <2> QED BY <1>1, <2>4, <2>5, RepoStutterType DEF Grant, TypeOK
<1>2. CASE GrantFails(h)
  BY <1>0, <1>2, AnswerOK, RunningOp, RepoStutterType DEF GrantFails, TypeOK
<1>3. ASSUME Rotated(h)
      PROVE  issued' \in 0..MaxGrants /\ live' \in SUBSET (1..MaxGrants)
  <2>1. issued + 1 \in 1..MaxGrants
    BY <1>0, <1>3 DEF Rotated
  <2>2. live \in SUBSET (1..MaxGrants)
    BY DEF TypeOK
  <2>3. live' \in SUBSET (1..MaxGrants)
    BY <1>3, <2>1, <2>2 DEF Rotated
  <2> QED BY <1>0, <1>3, <2>1, <2>3 DEF Rotated
<1>4. CASE Refresh(h)
  <2> DEFINE old == handler[h].token
             new(refresh) == [refresh |-> refresh, fresh |-> TRUE]
  <2>1. old \in TokenRow
    BY <1>0, <1>4 DEF Refresh, WellFormed
  <2>2. \A refresh \in Nat : new(refresh) \in TokenRow
    BY <2>1 DEF TokenRow
  <2>3. \A refresh \in Nat : Granted(h, new(refresh)) \in WellFormed
    BY <1>4, <2>2, GrantedOK DEF Refresh, TypeOK
  <2>4. CASE /\ Rotates
             /\ Rotated(h)
             /\ handler' = [handler EXCEPT ![h] = Granted(h, new(issued + 1))]
    <3>1. handler' \in [Handlers -> WellFormed]
      BY <1>0, <2>3, <2>4
    <3> QED BY <1>3, <1>4, <2>4, <3>1, RepoStutterType DEF Refresh, TypeOK
  <2>5. CASE /\ ~Rotates
             /\ handler' = [handler EXCEPT ![h] = Granted(h, new(old.refresh))]
             /\ UNCHANGED <<issued, live>>
    <3>1. old.refresh \in Nat
      BY <2>1 DEF TokenRow
    <3>2. handler' \in [Handlers -> WellFormed]
      BY <1>0, <2>3, <2>5, <3>1
    <3> QED BY <1>4, <2>5, <3>2, RepoStutterType DEF Refresh, TypeOK
  <2> QED BY <1>4, <2>4, <2>5 DEF Refresh
<1>5. CASE RefreshUnchanged(h)
  BY <1>0, <1>5, AnswerOK, RunningOp, RepoStutterType DEF RefreshUnchanged, TypeOK
<1>6. CASE RefreshFails(h)
  BY <1>0, <1>6, AnswerOK, RunningOp, RepoStutterType DEF RefreshFails, TypeOK
<1>7. CASE RefreshReplyLost(h)
  BY <1>0, <1>3, <1>7, AnswerOK, RunningOp, RepoStutterType DEF RefreshReplyLost, TypeOK
<1> QED BY <1>1, <1>2, <1>4, <1>5, <1>6, <1>7 DEF Provider

\* The handler's database steps keep TypeOK.
LEMMA DatabaseType ==
    ASSUME NEW h \in Handlers, TypeOK, Database(h)
    PROVE  TypeOK'
<1> DEFINE a == handler[h].acct
<1>0. /\ handler \in [Handlers -> WellFormed]
      /\ handler[h] \in WellFormed
      /\ handler[h].pc \in {"creds", "save", "create"}
  BY DEF TypeOK, Database, ReadCredentials, SaveToken, SaveFails, CreateUser,
         CreateConflicts, CreateFails
<1>1. a \in Accounts /\ handler[h].op \in LoginOps \cup TokenOps
  BY <1>0, RunningOp
<1>2. \A result \in {"ok", "error"} :
        Answer(h, result) => handler' \in [Handlers -> WellFormed]
  BY <1>0, <1>1, AnswerOK
<1>3. CASE ReadCredentials(h)
  <2>1. CASE Answer(h, "error")
    BY <1>2, <1>3, <2>1, RepoStutterType DEF ReadCredentials, TypeOK
  <2>2. ASSUME users[a] # NoRow, NEW password \in Crypted(users[a].password),
               handler' = [handler EXCEPT ![h].pc = "grant", ![h].password = password]
        PROVE  TypeOK'
    <3> DEFINE next == [handler[h] EXCEPT !.pc = "grant", !.password = password]
    <3>1. password \in Passwords
      BY <1>1, <2>2, SessionsAssumption DEF Crypted, TypeOK, RepoTypeOK, UserRow
    <3>2. handler[h].op \in TokenOps
      BY <1>0, <1>3 DEF ReadCredentials, WellFormed
    <3>3. next \in Request
      BY <1>0, <3>1 DEF WellFormed, Request
    <3>4. next \in WellFormed
      BY <1>0, <1>1, <3>1, <3>2, <3>3 DEF WellFormed, Request
    <3>5. handler' = [handler EXCEPT ![h] = next]
      BY <1>0, <2>2
    <3> HIDE DEF next
    <3>6. handler' \in [Handlers -> WellFormed]
      BY <1>0, <3>4, <3>5
    <3> QED BY <1>3, <3>6, RepoStutterType DEF ReadCredentials, TypeOK
  <2> QED BY <1>3, <2>1, <2>2 DEF ReadCredentials
<1>4. CASE SaveToken(h)
  <2>1. RepoTypeOK'
    <3>1. handler[h].token \in TokenRow
      BY <1>0, <1>4 DEF SaveToken, WellFormed
    <3> QED BY <1>1, <1>4, <3>1, TokensSaveType DEF SaveToken, TypeOK
  <2>2. CASE handler[h].op \in LoginOps
    <3> DEFINE next == [handler[h] EXCEPT !.pc = "create", !.token = NoRow,
                                          !.overtaken = FALSE]
    <3>1. next \in Request
      BY <1>0 DEF WellFormed, Request
    <3>2. next \in WellFormed
      BY <1>0, <1>1, <1>4, <2>2, <3>1 DEF SaveToken, WellFormed, Request
    <3>3. handler' = [handler EXCEPT ![h] = next]
      BY <1>0, <1>4, <2>2 DEF SaveToken
    <3> HIDE DEF next
    <3>4. handler' \in [Handlers -> WellFormed]
      BY <1>0, <3>2, <3>3
    <3> QED BY <1>4, <2>1, <2>2, <3>4 DEF SaveToken, TypeOK
  <2>3. CASE handler[h].op \notin LoginOps
    BY <1>1, <1>2, <1>4, <2>1, <2>3 DEF SaveToken, TypeOK
  <2> QED BY <2>2, <2>3
<1>5. CASE SaveFails(h)
  BY <1>1, <1>2, <1>5, RepoStutterType DEF SaveFails, TypeOK
<1>6. CASE CreateUser(h)
  <2>1. \A password \in Crypted(handler[h].password) : [password |-> password] \in UserRow
    BY <1>0, <1>6, SessionsAssumption DEF CreateUser, Crypted, WellFormed, UserRow
  <2>2. RepoTypeOK'
    BY <1>1, <1>6, <2>1, UsersCreateType DEF CreateUser, TypeOK
  <2> QED BY <1>1, <1>2, <1>6, <2>2 DEF CreateUser, TypeOK
<1>7. CASE CreateConflicts(h)
  BY <1>2, <1>7, RepoStutterType DEF CreateConflicts, TypeOK
<1>8. CASE CreateFails(h)
  BY <1>1, <1>2, <1>8, RepoStutterType DEF CreateFails, TypeOK
<1> QED BY <1>3, <1>4, <1>5, <1>6, <1>7, <1>8 DEF Database

\* Every step keeps TypeOK.
LEMMA NextType == TypeOK /\ [Next]_vars => TypeOK'
<1> SUFFICES ASSUME TypeOK, [Next]_vars
             PROVE  TypeOK'
  OBVIOUS
<1>1. ASSUME NEW h \in Handlers, NEW a \in Accounts, Accept(h, a)
      PROVE  TypeOK'
  BY <1>1, AcceptType
<1>2. ASSUME NEW h \in Handlers, Provider(h)
      PROVE  TypeOK'
  BY <1>2, ProviderType
<1>3. ASSUME NEW h \in Handlers, Database(h)
      PROVE  TypeOK'
  BY <1>3, DatabaseType
<1>4. ASSUME NEW h \in Handlers, Receive(h)
      PROVE  TypeOK'
  BY <1>4, IdleOK, RepoStutterType DEF Receive, TypeOK
<1>5. ASSUME NEW a \in Accounts, Expire(a)
      PROVE  TypeOK'
  <2> DEFINE row == [tokens[a] EXCEPT !.fresh = FALSE]
  <2>1. row \in TokenRow
    BY <1>5 DEF Expire, TypeOK, RepoTypeOK, TokenRow
  <2>2. tokens' = [tokens EXCEPT ![a] = row]
    BY <1>5 DEF Expire
  <2> HIDE DEF row
  <2>3. RepoTypeOK'
    BY <1>5, <2>1, <2>2 DEF Expire, TypeOK, RepoTypeOK
  <2> QED BY <1>5, <2>3 DEF Expire, TypeOK
<1>6. ASSUME NEW c \in ClientIDs, DeleteIntegration(c)
      PROVE  TypeOK'
  <2>1. RepoTypeOK'
    BY <1>6, DeleteClientDataType DEF DeleteIntegration, TypeOK
  <2>2. handler' \in [Handlers -> WellFormed]
    BY <1>6, OvertakeOK DEF DeleteIntegration, TypeOK
  <2> QED BY <1>6, <2>1, <2>2 DEF DeleteIntegration, TypeOK
<1>7. CASE Restart
  <2>1. \A h \in Handlers : handler[h].pc \in {"create", "save"} => handler[h].acct \in Accounts
    BY DEF TypeOK, WellFormed
  <2>2. torn' \in SUBSET Accounts /\ lost' \in SUBSET Accounts
    BY <1>7, <2>1 DEF Restart, TypeOK
  <2> QED BY <1>7, <2>2, IdleOK, RepoStutterType DEF Restart, TypeOK
<1>8. CASE UNCHANGED vars
  BY <1>8, RepoStutterType DEF vars, repoVars, TypeOK
<1> QED BY <1>1, <1>2, <1>3, <1>4, <1>5, <1>6, <1>7, <1>8 DEF Next

\* Every behaviour of the handlers keeps the types of the tables and of the
\* handlers' variables.
THEOREM TypeCorrect == Spec => []TypeOK
<1>1. Init => TypeOK
  <2> SUFFICES ASSUME Init PROVE TypeOK
    OBVIOUS
  <2>1. clients \in [ClientIDs -> ClientRow \cup {NoRow}]
    BY ActiveRows DEF Init
  <2>2. RepoTypeOK
    BY <2>1 DEF Init, RepoTypeOK
  <2> QED BY <2>2, IdleOK, SessionsAssumption DEF Init, TypeOK
<1> QED BY <1>1, NextType, PTL DEF Spec

-----------------------------------------------------------------------------
(* The two tables of a session agree *)

\* A step of one handler that writes no table keeps SessionInv, if the handler
\* claims no row it has not seen, and gives up no insert that is still owed.
LEMMA HandlerStep ==
    ASSUME NEW h \in Handlers, NEW r, TypeOK, SessionInv,
           UNCHANGED <<users, tokens>>,
           torn \subseteq torn',
           handler' = [handler EXCEPT ![h] = r],
           RowHeld(r),
           handler[h].pc = "create" /\ ~handler[h].overtaken =>
               handler[h].acct \in torn' \/ Agree(handler[h].acct)
    PROVE  SessionInv'
<1>1. ASSUME NEW g \in Handlers
      PROVE  RowHeld(handler[g])'
  <2>1. CASE g = h
    BY <2>1 DEF RowHeld, TypeOK
  <2>2. CASE g # h
    BY <2>2 DEF SessionInv, RowHeld, TypeOK
  <2> QED BY <2>1, <2>2
<1>2. ASSUME NEW a \in Accounts
      PROVE  Explained(a)'
  <2> SUFFICES ASSUME AppType(a) # "credentials", a \notin torn', ~Agree(a)
               PROVE  \E g \in Handlers : /\ tokens[a] # NoRow
                                          /\ Inserting(g, a)'
                                          /\ ~handler'[g].overtaken
    BY DEF Explained, Agree, AppType
  <2>1. PICK g \in Handlers : tokens[a] # NoRow /\ Inserting(g, a) /\ ~handler[g].overtaken
    BY DEF SessionInv, Explained
  <2>2. g # h
    BY <2>1 DEF Inserting
  <2> QED BY <2>1, <2>2 DEF Inserting, TypeOK
<1> QED BY <1>1, <1>2 DEF SessionInv

\* An answered request claims nothing.
LEMMA AnsweredHolds ==
    ASSUME NEW op, NEW a, NEW result
    PROVE  RowHeld(Answered(op, a, result))
BY DEF RowHeld, Answered

\* Accepting a request keeps SessionInv: a request that starts to refresh, or to
\* log in again, has just read its row, and a logout marks those it overtakes.
LEMMA AcceptInv ==
    ASSUME NEW h \in Handlers, NEW a \in Accounts, TypeOK, SessionInv, Accept(h, a)
    PROVE  SessionInv'
<1>0. handler[h] = Idle /\ handler[h].pc # "create"
  <2>1. handler[h] = Idle
    BY DEF Accept, StartLogin, StartCallback, AsksForToken, TokenIsFresh, TokenIsMissing,
           TokenByCredentials, TokenIsStale, Logout
  <2> QED BY <2>1 DEF Idle
<1>1. CASE \E p \in Passwords : StartLogin(h, a, p)
  <2>1. PICK p \in Passwords : StartLogin(h, a, p)
    BY <1>1
  <2>2. RowHeld(Accepted("login", a, "grant", p, NoRow))
    BY DEF RowHeld, Accepted, TokenOps
  <2> QED BY <1>0, <2>1, <2>2, HandlerStep DEF StartLogin, repoVars
<1>2. CASE StartCallback(h, a)
  <2>1. RowHeld(Accepted("callback", a, "grant", EmptyPassword, NoRow))
    BY DEF RowHeld, Accepted, TokenOps
  <2> QED BY <1>0, <1>2, <2>1, HandlerStep DEF StartCallback, repoVars
<1>3. ASSUME NEW op \in TokenOps, TokenIsFresh(h, op, a) \/ TokenIsMissing(h, op, a)
      PROVE  SessionInv'
  BY <1>0, <1>3, AnsweredHolds, HandlerStep DEF TokenIsFresh, TokenIsMissing, repoVars
<1>4. ASSUME NEW op \in TokenOps, TokenByCredentials(h, op, a)
      PROVE  SessionInv'
  <2>1. RowHeld(Accepted(op, a, "grant", EmptyPassword, NoRow))
    BY <1>4 DEF TokenByCredentials, RowHeld, Accepted
  <2> QED BY <1>0, <1>4, <2>1, HandlerStep DEF TokenByCredentials, repoVars
<1>5. ASSUME NEW op \in TokenOps, TokenIsStale(h, op, a)
      PROVE  SessionInv'
  <2> DEFINE r == IF tokens[a].refresh # 0
                  THEN Accepted(op, a, "refresh", NoRow, tokens[a])
                  ELSE IF AppType(a) = "password"
                  THEN Accepted(op, a, "creds", NoRow, NoRow)
                  ELSE Answered(op, a, "error")
  <2>1. RowHeld(r)
    BY <1>5 DEF TokenIsStale, StaleRow, RowHeld, Accepted, Answered
  <2>2. handler' = [handler EXCEPT ![h] = r]
    BY <1>5 DEF TokenIsStale
  <2> HIDE DEF r
  <2> QED BY <1>0, <1>5, <2>1, <2>2, HandlerStep DEF TokenIsStale, repoVars
<1>6. CASE Logout(h, a)
  <2>1. CASE /\ handler' = [handler EXCEPT ![h] = Answered("logout", a, "ok")]
             /\ UNCHANGED <<repoVars, torn>>
    BY <1>0, <1>6, <2>1, AnsweredHolds, HandlerStep DEF Logout, repoVars
  <2>2. CASE /\ UsersDelete(a)
             /\ handler' = [Overtake({a}) EXCEPT ![h] = Answered("logout", a, "ok")]
             /\ torn' = torn \ {a}
    <3>1. /\ users' = [users EXCEPT ![a] = NoRow]
          /\ tokens' = [tokens EXCEPT ![a] = NoRow]
          /\ handler' = [Overtake({a}) EXCEPT ![h] = Answered("logout", a, "ok")]
          /\ torn' = torn \ {a}
      BY <1>6, <2>2 DEF Logout, UsersDelete
    <3>2. ASSUME NEW g \in Handlers
          PROVE  RowHeld(handler[g])'
      <4>1. CASE g = h
        BY <3>1, <4>1 DEF RowHeld, Answered, Overtake
      <4>2. CASE g # h
        <5>1. handler'[g] = Overtake({a})[g]
          BY <3>1, <4>2 DEF Overtake
        <5>2. CASE Running(g) /\ handler[g].acct = a
          <6>1. handler'[g].overtaken
            BY <5>1, <5>2 DEF Overtake, TypeOK, WellFormed, Request
          <6> QED BY <6>1 DEF RowHeld
        <5>3. CASE ~Running(g)
          <6>1. handler'[g].pc \in {"idle", "done"}
            BY <5>1, <5>3 DEF Overtake, Running
          <6> QED BY <6>1 DEF RowHeld
        <5>4. CASE Running(g) /\ handler[g].acct # a
          <6>1. handler'[g] = handler[g]
            BY <5>1, <5>4 DEF Overtake
          <6>2. handler[g].acct \in Accounts /\ RowHeld(handler[g])
            BY <5>4 DEF SessionInv, TypeOK, WellFormed, Running
          <6>3. tokens'[handler[g].acct] = tokens[handler[g].acct]
            BY <3>1, <5>4, <6>2 DEF TypeOK, RepoTypeOK
          <6> QED BY <6>1, <6>2, <6>3 DEF RowHeld, AppType
        <5> QED BY <5>2, <5>3, <5>4
      <4> QED BY <4>1, <4>2
    <3>3. ASSUME NEW b \in Accounts
          PROVE  Explained(b)'
      <4>1. CASE b = a
        BY <3>1, <4>1 DEF Explained, Agree, TypeOK, RepoTypeOK
      <4>2. CASE b # a
        <5>1. tokens'[b] = tokens[b] /\ users'[b] = users[b] /\ (b \in torn <=> b \in torn')
          BY <3>1, <4>2 DEF TypeOK, RepoTypeOK
        <5>2. \A g \in Handlers : Inserting(g, b) => handler'[g] = handler[g]
          BY <1>0, <3>1, <4>2 DEF Overtake, Inserting
        <5>3. Explained(b)
          BY DEF SessionInv
        <5> QED BY <5>1, <5>2, <5>3 DEF Explained, Agree, AppType, Inserting
      <4> QED BY <4>1, <4>2
    <3> QED BY <3>2, <3>3 DEF SessionInv
  <2> QED BY <1>6, <2>1, <2>2 DEF Logout
<1> QED BY <1>1, <1>2, <1>3, <1>4, <1>5, <1>6 DEF Accept

\* The provider's replies keep SessionInv: they move a handler on, or end it,
\* without touching a row.
LEMMA ProviderInv ==
    ASSUME NEW h \in Handlers, TypeOK, SessionInv, Provider(h)
    PROVE  SessionInv'
<1>0. handler[h].pc \in {"grant", "refresh"} /\ handler[h] \in WellFormed
  BY DEF Provider, Grant, GrantFails, Refresh, RefreshUnchanged, RefreshFails,
         RefreshReplyLost, TypeOK
<1>1. ASSUME NEW token, handler' = [handler EXCEPT ![h] = Granted(h, token)],
             UNCHANGED <<repoVars, torn>>
      PROVE  SessionInv'
  <2>1. RowHeld(handler[h])
    BY DEF SessionInv
  <2>2. /\ Granted(h, token).pc = "save"
        /\ Granted(h, token).acct = handler[h].acct
        /\ Granted(h, token).op = handler[h].op
        /\ Granted(h, token).overtaken = handler[h].overtaken
    BY <1>0 DEF Granted, WellFormed, Request
  <2>3. RowHeld(Granted(h, token))
    BY <1>0, <2>1, <2>2 DEF RowHeld
  <2> QED BY <1>0, <1>1, <2>3, HandlerStep DEF repoVars
<1>2. ASSUME NEW result, Answer(h, result), UNCHANGED <<repoVars, torn>>
      PROVE  SessionInv'
  BY <1>0, <1>2, AnsweredHolds, HandlerStep DEF Answer, repoVars
<1>3. CASE Grant(h)
  BY <1>1, <1>3 DEF Grant
<1>4. CASE Refresh(h)
  BY <1>1, <1>4 DEF Refresh
<1>5. CASE GrantFails(h) \/ RefreshUnchanged(h) \/ RefreshFails(h) \/ RefreshReplyLost(h)
  BY <1>2, <1>5 DEF GrantFails, RefreshUnchanged, RefreshFails, RefreshReplyLost
<1> QED BY <1>3, <1>4, <1>5 DEF Provider

\* The handler's database steps keep SessionInv.  A login that saves its token
\* owes the user's row from then on; a save or an insert that comes after its
\* account's rows were deleted is recorded in torn.
LEMMA DatabaseInv ==
    ASSUME NEW h \in Handlers, TypeOK, SessionInv, Database(h)
    PROVE  SessionInv'
<1>0. /\ handler[h] \in WellFormed
      /\ handler[h].pc \in {"creds", "save", "create"}
      /\ handler[h].acct \in Accounts
  BY DEF TypeOK, Database, ReadCredentials, SaveToken, SaveFails, CreateUser,
         CreateConflicts, CreateFails, WellFormed
<1> SUFFICES ASSUME NEW a \in Accounts, a = handler[h].acct
             PROVE  SessionInv'
  BY <1>0
<1>1. RowHeld(handler[h]) /\ Explained(a)
  BY <1>0 DEF SessionInv
<1>2. ASSUME NEW result, Answer(h, result), UNCHANGED <<repoVars, torn>>,
             handler[h].pc # "create"
      PROVE  SessionInv'
  BY <1>2, AnsweredHolds, HandlerStep DEF Answer, repoVars
<1>3. CASE ReadCredentials(h)
  <2>1. CASE Answer(h, "error")
    BY <1>2, <1>3, <2>1 DEF ReadCredentials
  <2>2. ASSUME NEW password,
               handler' = [handler EXCEPT ![h].pc = "grant", ![h].password = password]
        PROVE  SessionInv'
    <3> DEFINE next == [handler[h] EXCEPT !.pc = "grant", !.password = password]
    <3>1. /\ next.pc = "grant" /\ next.acct = a
          /\ next.op = handler[h].op /\ next.overtaken = handler[h].overtaken
      BY <1>0 DEF WellFormed, Request
    <3>2. handler' = [handler EXCEPT ![h] = next]
      BY <2>2 DEF TypeOK
    <3> HIDE DEF next
    <3>3. RowHeld(next)
      BY <1>1, <1>3, <3>1 DEF ReadCredentials, RowHeld
    <3> QED BY <1>3, <3>2, <3>3, HandlerStep DEF ReadCredentials, repoVars
  <2> QED BY <1>3, <2>1, <2>2 DEF ReadCredentials
<1>4. CASE SaveToken(h)
  <2>1. /\ tokens' = [tokens EXCEPT ![a] = handler[h].token]
        /\ UNCHANGED users
        /\ tokens'[a] # NoRow
    BY <1>0, <1>4, NoRowFacts DEF SaveToken, TokensSave, WellFormed, TypeOK, RepoTypeOK
  <2>2. ASSUME NEW g \in Handlers, g # h
        PROVE  RowHeld(handler[g])' /\ handler'[g] = handler[g]
    <3>1. handler'[g] = handler[g]
      BY <1>4, <2>2 DEF SaveToken, Answer, TypeOK
    <3>2. RowHeld(handler[g]) /\ (handler[g].pc # "idle" => handler[g].acct \in Accounts)
      BY DEF SessionInv, TypeOK, WellFormed
    <3> QED BY <2>1, <3>1, <3>2 DEF RowHeld, AppType, TypeOK, RepoTypeOK
  <2>3. ASSUME NEW b \in Accounts, b # a
        PROVE  Explained(b)'
    <3>1. tokens'[b] = tokens[b] /\ users'[b] = users[b] /\ (b \in torn <=> b \in torn')
      BY <1>4, <2>1, <2>3 DEF SaveToken, TypeOK, RepoTypeOK
    <3>2. \A g \in Handlers : Inserting(g, b) => handler'[g] = handler[g]
      BY <2>2, <2>3 DEF Inserting
    <3>3. Explained(b)
      BY DEF SessionInv
    <3> QED BY <3>1, <3>2, <3>3 DEF Explained, Agree, AppType, Inserting
  <2>4. CASE handler[h].op \in LoginOps
    <3> DEFINE next == [handler[h] EXCEPT !.pc = "create", !.token = NoRow,
                                          !.overtaken = FALSE]
    <3>1. handler'[h] = next
      BY <1>4, <2>4 DEF SaveToken, TypeOK
    <3>2. next.pc = "create" /\ next.acct = a /\ next.overtaken = FALSE
      BY <1>0 DEF WellFormed, Request
    <3>3. RowHeld(handler[h])'
      BY <2>1, <3>1, <3>2 DEF RowHeld
    <3>4. Explained(a)'
      BY <2>1, <3>1, <3>2 DEF Explained, Inserting, AppType
    <3> QED BY <2>2, <2>3, <3>3, <3>4 DEF SessionInv
  <2>5. CASE handler[h].op \notin LoginOps
    <3>1. handler'[h] = Answered(handler[h].op, a, "ok")
      BY <1>4, <2>5 DEF SaveToken, Answer, TypeOK
    <3>2. RowHeld(handler[h])'
      BY <3>1 DEF RowHeld, Answered
    <3>3. handler[h].op \in TokenOps
      BY <1>0, <1>4, <2>5 DEF SaveToken, WellFormed
    <3>4. Explained(a)'
      <4> SUFFICES ASSUME AppType(a) # "credentials", a \notin torn', ~Agree(a)'
                   PROVE  \E g \in Handlers : Inserting(g, a)' /\ ~handler'[g].overtaken
        BY <2>1 DEF Explained, AppType
      <4>1. ~handler[h].overtaken /\ a \notin torn
        BY <1>4, <2>5 DEF SaveToken
      <4>2. tokens[a] # NoRow /\ users[a] = NoRow
        BY <1>1, <1>4, <2>1, <3>3, <4>1 DEF SaveToken, RowHeld, Agree
      <4>3. PICK g \in Handlers : Inserting(g, a) /\ ~handler[g].overtaken
        BY <1>1, <4>1, <4>2 DEF Explained, Agree
      <4>4. handler'[g] = handler[g]
        BY <1>4, <2>2, <4>3 DEF SaveToken, Inserting
      <4> QED BY <4>3, <4>4 DEF Inserting
    <3> QED BY <2>2, <2>3, <3>2, <3>4 DEF SessionInv
  <2> QED BY <2>4, <2>5
<1>5. CASE SaveFails(h)
  BY <1>2, <1>5 DEF SaveFails
<1>6. CASE CreateUser(h)
  <2>0. PICK password \in Crypted(handler[h].password) :
              UsersCreate(a, [password |-> password])
    BY <1>6 DEF CreateUser
  <2>1. /\ users' = [users EXCEPT ![a] = [password |-> password]]
        /\ UNCHANGED tokens
        /\ handler' = [handler EXCEPT ![h] = Answered(handler[h].op, a, "ok")]
        /\ torn' = IF handler[h].overtaken THEN torn \cup {a} ELSE torn \ {a}
    BY <1>6, <2>0 DEF CreateUser, UsersCreate, Answer
  <2>2. users'[a] # NoRow
    <3>1. [password |-> password] \in UserRow
      BY <1>0, <1>6, SessionsAssumption DEF CreateUser, Crypted, WellFormed, UserRow
    <3> QED BY <1>0, <2>1, <3>1, NoRowFacts DEF TypeOK, RepoTypeOK
  <2>3. ASSUME NEW g \in Handlers
        PROVE  RowHeld(handler[g])'
    <3>1. CASE g = h
      BY <2>1, <3>1 DEF RowHeld, Answered, TypeOK
    <3>2. CASE g # h
      BY <2>1, <3>2 DEF RowHeld, SessionInv, TypeOK, AppType
    <3> QED BY <3>1, <3>2
  <2>4. ASSUME NEW b \in Accounts
        PROVE  Explained(b)'
    <3>1. CASE b = a
      <4>1. handler[h].overtaken => a \in torn'
        BY <2>1
      <4>2. ~handler[h].overtaken => tokens'[a] # NoRow
        BY <1>1, <1>6, <2>1 DEF CreateUser, RowHeld
      <4> QED BY <2>2, <3>1, <4>1, <4>2 DEF Explained, Agree
    <3>2. CASE b # a
      <4>1. users'[b] = users[b] /\ (b \in torn <=> b \in torn')
        BY <2>1, <3>2 DEF TypeOK, RepoTypeOK
      <4>2. \A g \in Handlers : Inserting(g, b) => handler'[g] = handler[g]
        BY <2>1, <3>2 DEF Inserting, TypeOK
      <4>3. Explained(b)
        BY DEF SessionInv
      <4> QED BY <2>1, <4>1, <4>2, <4>3 DEF Explained, Agree, AppType, Inserting
    <3> QED BY <3>1, <3>2
  <2> QED BY <2>3, <2>4 DEF SessionInv
<1>7. CASE CreateConflicts(h)
  <2>1. ~handler[h].overtaken => Agree(a)
    BY <1>1, <1>7 DEF CreateConflicts, RowHeld, Agree
  <2> QED BY <1>7, <2>1, AnsweredHolds, HandlerStep DEF CreateConflicts, Answer, repoVars
<1>8. CASE CreateFails(h)
  BY <1>8, AnsweredHolds, HandlerStep DEF CreateFails, Answer, repoVars
<1> QED BY <1>3, <1>4, <1>5, <1>6, <1>7, <1>8 DEF Database

\* Every step keeps SessionInv.
LEMMA NextInv == TypeOK /\ SessionInv /\ [Next]_vars => SessionInv'
<1> SUFFICES ASSUME TypeOK, SessionInv, [Next]_vars
             PROVE  SessionInv'
  OBVIOUS
<1>1. ASSUME NEW h \in Handlers, NEW a \in Accounts, Accept(h, a)
      PROVE  SessionInv'
  BY <1>1, AcceptInv
<1>2. ASSUME NEW h \in Handlers, Provider(h)
      PROVE  SessionInv'
  BY <1>2, ProviderInv
<1>3. ASSUME NEW h \in Handlers, Database(h)
      PROVE  SessionInv'
  BY <1>3, DatabaseInv
<1>4. ASSUME NEW h \in Handlers, Receive(h)
      PROVE  SessionInv'
  <2>1. RowHeld(Idle)
    BY DEF RowHeld, Idle
  <2> QED BY <1>4, <2>1, HandlerStep DEF Receive, repoVars
<1>5. ASSUME NEW e \in Accounts, Expire(e)
      PROVE  SessionInv'
  <2>1. /\ UNCHANGED <<users, handler, torn>>
        /\ tokens' = [tokens EXCEPT ![e].fresh = FALSE]
        /\ tokens[e] \in TokenRow
    BY <1>5 DEF Expire, TypeOK, RepoTypeOK
  <2>2. \A b \in Accounts : tokens[b] # NoRow <=> tokens'[b] # NoRow
    <3>1. [tokens[e] EXCEPT !.fresh = FALSE] \in TokenRow
      BY <2>1 DEF TokenRow
    <3> QED BY <2>1, <3>1, NoRowFacts DEF TypeOK, RepoTypeOK
  <2>3. \A h \in Handlers : handler[h].pc # "idle" => handler[h].acct \in Accounts
    BY DEF TypeOK, WellFormed
  <2>4. \A h \in Handlers : RowHeld(handler[h])'
    BY <2>1, <2>2, <2>3 DEF SessionInv, RowHeld, AppType
  <2>5. \A b \in Accounts : Explained(b)'
    BY <2>1, <2>2 DEF SessionInv, Explained, Agree, Inserting, AppType
  <2> QED BY <2>4, <2>5 DEF SessionInv
<1>6. ASSUME NEW c \in ClientIDs, DeleteIntegration(c)
      PROVE  SessionInv'
  <2> DEFINE A == {a \in Accounts : ClientOf(a) = c}
  <2>1. /\ users' = [a \in Accounts |-> IF ClientOf(a) = c THEN NoRow ELSE users[a]]
        /\ tokens' = [a \in Accounts |-> IF ClientOf(a) = c THEN NoRow ELSE tokens[a]]
        /\ handler' = Overtake(A)
        /\ torn' = torn \ A
    BY <1>6 DEF DeleteIntegration, DeleteClientData
  <2>2. ASSUME NEW g \in Handlers
        PROVE  RowHeld(handler[g])'
    <3>1. CASE Running(g) /\ handler[g].acct \in A
      <4>1. handler'[g].overtaken
        BY <2>1, <3>1 DEF Overtake, TypeOK, WellFormed, Request
      <4> QED BY <4>1 DEF RowHeld
    <3>2. CASE ~Running(g)
      <4>1. handler'[g].pc \in {"idle", "done"}
        BY <2>1, <3>2 DEF Overtake, Running
      <4> QED BY <4>1 DEF RowHeld
    <3>3. CASE Running(g) /\ handler[g].acct \notin A
      <4>1. handler'[g] = handler[g]
        BY <2>1, <3>3 DEF Overtake
      <4>2. handler[g].acct \in Accounts /\ RowHeld(handler[g])
        BY <3>3 DEF SessionInv, TypeOK, WellFormed, Running
      <4>3. tokens'[handler[g].acct] = tokens[handler[g].acct]
        BY <2>1, <3>3, <4>2
      <4> QED BY <4>1, <4>2, <4>3 DEF RowHeld, AppType
    <3> QED BY <3>1, <3>2, <3>3
  <2>3. ASSUME NEW b \in Accounts
        PROVE  Explained(b)'
    <3>1. CASE b \in A
      BY <2>1, <3>1 DEF Explained, Agree
    <3>2. CASE b \notin A
      <4>1. tokens'[b] = tokens[b] /\ users'[b] = users[b] /\ (b \in torn <=> b \in torn')
        BY <2>1, <3>2
      <4>2. \A g \in Handlers : Inserting(g, b) => handler'[g] = handler[g]
        BY <2>1, <3>2 DEF Overtake, Inserting
      <4>3. Explained(b)
        BY DEF SessionInv
      <4> QED BY <4>1, <4>2, <4>3 DEF Explained, Agree, AppType, Inserting
    <3> QED BY <3>1, <3>2
  <2> QED BY <2>2, <2>3 DEF SessionInv
<1>7. CASE Restart
  <2>1. \A h \in Handlers : RowHeld(handler[h])'
    BY <1>7 DEF Restart, RowHeld, Idle
  <2>2. ASSUME NEW b \in Accounts
        PROVE  Explained(b)'
    <3>1. UNCHANGED <<users, tokens>> /\ torn \subseteq torn'
      BY <1>7 DEF Restart, repoVars
    <3>2. \A h \in Handlers : Inserting(h, b) => b \in torn'
      BY <1>7 DEF Restart, Inserting
    <3>3. Explained(b)
      BY DEF SessionInv
    <3> QED BY <3>1, <3>2, <3>3 DEF Explained, Agree, AppType
  <2> QED BY <2>1, <2>2 DEF SessionInv
<1>8. CASE UNCHANGED vars
  BY <1>8 DEF vars, SessionInv, RowHeld, Explained, Agree, Inserting, AppType
<1> QED BY <1>1, <1>2, <1>3, <1>4, <1>5, <1>6, <1>7, <1>8 DEF Next

\* SessionInv holds in every reachable state.
THEOREM SessionInvariant == Spec => []SessionInv
<1>1. Init => SessionInv
  BY DEF Init, SessionInv, RowHeld, Explained, Agree, Idle
<1> QED BY <1>1, TypeCorrect, NextInv, PTL DEF Spec

\* The tables users and tokens agree on who is logged in, for any interleaving
\* of any number of logins, refreshes, logouts and deletions, outside the
\* window of a login and the recorded causes.
THEOREM TablesAgree == Spec => []SessionConsistent
<1>1. SessionInv => SessionConsistent
  BY DEF SessionInv, Explained, SessionConsistent
<1> QED BY <1>1, SessionInvariant, PTL

-----------------------------------------------------------------------------
(* No session is stranded on a spent refresh token *)

\* A handler that is about to store the refresh token n.
Saves(h, n) == handler[h].pc = "save" /\ handler[h].token.refresh = n

\* A handler that refreshed, or logged in again, on behalf of a.
Renews(h, a) ==
    /\ handler[h].pc = "save"
    /\ handler[h].op \in TokenOps
    /\ handler[h].acct = a

GrantNumbers == 1..MaxGrants

\* The provider has issued every refresh token there is.
Issued ==
    /\ live \subseteq 1..issued
    /\ \A a \in Accounts : tokens[a] # NoRow => tokens[a].refresh <= issued
    /\ \A h \in Handlers :
         handler[h].pc \in {"refresh", "save"} => handler[h].token.refresh <= issued

\* A refresh token is of one account: TokensAreSeparate, for each two places.
Separate ==
    \A n \in GrantNumbers :
        /\ \A a, b \in Accounts : Stores(a, n) /\ Stores(b, n) => a = b
        /\ \A a \in Accounts, h \in Handlers :
             Stores(a, n) /\ Holds(h, n) => handler[h].acct = a
        /\ \A g, h \in Handlers :
             Holds(g, n) /\ Holds(h, n) => handler[g].acct = handler[h].acct

\* Where refresh tokens rotate, a new one is nowhere but in the memory of the
\* handler that is about to store it.
Unshared ==
    \A n \in GrantNumbers, h \in Handlers :
        Saves(h, n) => /\ \A a \in Accounts : ~Stores(a, n)
                       /\ \A g \in Handlers : Holds(g, n) => g = h

\* A new refresh token is accepted until it is stored; a stored one that is not
\* accepted any more has a successor that a handler is about to store, or that
\* was lost.
Renewed ==
    \A n \in GrantNumbers :
        /\ \A h \in Handlers : Saves(h, n) => n \in live
        /\ \A a \in Accounts : Stores(a, n) /\ n \notin live =>
             Rotates /\ (a \in lost \/ \E h \in Handlers : Renews(h, a))

\* The inductive invariant behind TokensAreSeparate and RefreshTokenKept.
KeptInv == Issued /\ Separate /\ (Rotates => Unshared) /\ Renewed

\* A step in which the provider does nothing, no row gets another refresh token
\* and no handler takes one up keeps KeptInv, if a handler that gives up a
\* rotated one is recorded.
LEMMA KeptQuiet ==
    ASSUME KeptInv, issued' = issued, live' = live, lost \subseteq lost',
           \A a \in Accounts : tokens'[a] # NoRow =>
               tokens[a] # NoRow /\ tokens'[a].refresh = tokens[a].refresh,
           \A h \in Handlers : handler'[h].pc \in {"refresh", "save"} =>
               /\ handler'[h].pc = handler[h].pc /\ handler'[h].acct = handler[h].acct
               /\ handler'[h].token = handler[h].token,
           Rotates => \A h \in Handlers, a \in Accounts :
               Renews(h, a) => a \in lost' \/ Renews(h, a)'
    PROVE  KeptInv'
<1>1. \A n \in GrantNumbers :
          /\ \A a \in Accounts : Stores(a, n)' => Stores(a, n)
          /\ \A h \in Handlers : Holds(h, n)' => Holds(h, n) /\ handler'[h].acct = handler[h].acct
          /\ \A h \in Handlers : Saves(h, n)' => Saves(h, n)
  BY DEF Stores, Holds, Saves
<1>2. Issued'
  BY DEF KeptInv, Issued
<1>3. Separate' /\ (Rotates => Unshared')
  <2>1. Separate'
    BY <1>1 DEF KeptInv, Separate, GrantNumbers
  <2>2. ASSUME Rotates PROVE Unshared'
    BY <1>1, <2>2, Zenon DEF KeptInv, Unshared, GrantNumbers
  <2> QED BY <2>1, <2>2
<1>4. Renewed'
  <2> SUFFICES ASSUME NEW n \in GrantNumbers
               PROVE  /\ \A h \in Handlers : Saves(h, n)' => n \in live'
                      /\ \A a \in Accounts : Stores(a, n)' /\ n \notin live' =>
                           Rotates /\ (a \in lost' \/ \E h \in Handlers : Renews(h, a)')
    BY DEF Renewed, GrantNumbers
  <2> QED BY <1>1 DEF KeptInv, Renewed
<1> QED BY <1>2, <1>3, <1>4 DEF KeptInv

\* The same for a step of one handler that had nothing to store, and has nothing
\* to refresh or to store after it.
LEMMA KeptHandler ==
    ASSUME TypeOK, KeptInv, NEW h \in Handlers, NEW r,
           handler' = [handler EXCEPT ![h] = r],
           r.pc \notin {"refresh", "save"},
           UNCHANGED <<issued, live>>, lost \subseteq lost',
           \A a \in Accounts : tokens'[a] # NoRow =>
               tokens[a] # NoRow /\ tokens'[a].refresh = tokens[a].refresh,
           handler[h].pc = "save" /\ Rotates /\ handler[h].op \in TokenOps =>
               handler[h].acct \in lost'
    PROVE  KeptInv'
<1>1. handler'[h] = r /\ \A g \in Handlers \ {h} : handler'[g] = handler[g]
  BY DEF TypeOK
<1>2. \A g \in Handlers : handler'[g].pc \in {"refresh", "save"} => handler'[g] = handler[g]
  BY <1>1
<1>3. Rotates => \A g \in Handlers, a \in Accounts :
                     Renews(g, a) => a \in lost' \/ Renews(g, a)'
  BY <1>1 DEF Renews
<1> QED BY <1>2, <1>3, KeptQuiet

\* A request that is accepted takes up the refresh token of its own row.
LEMMA KeptAccept ==
    ASSUME TypeOK, KeptInv, NEW h \in Handlers, NEW a \in Accounts, Accept(h, a)
    PROVE  KeptInv'
<1>1. handler[h] = Idle /\ handler[h].pc = "idle"
  <2>1. handler[h] = Idle
    BY DEF Accept, StartLogin, StartCallback, AsksForToken, TokenIsFresh, TokenIsMissing,
           TokenByCredentials, TokenIsStale, Logout
  <2> QED BY <2>1 DEF Idle
<1>2. ASSUME NEW r, handler' = [handler EXCEPT ![h] = r], r.pc \notin {"refresh", "save"},
             UNCHANGED <<repoVars, issued, live, lost>>
      PROVE  KeptInv'
  BY <1>1, <1>2, KeptHandler DEF repoVars
<1>3. ASSUME NEW op, NEW pc, NEW password, NEW token, NEW result
      PROVE  /\ Accepted(op, a, pc, password, token).pc = pc
             /\ Accepted(op, a, pc, password, token).acct = a
             /\ Accepted(op, a, pc, password, token).token = token
             /\ Answered(op, a, result).pc = "done"
  BY DEF Accepted, Answered
<1>4. CASE \/ \E p \in Passwords : StartLogin(h, a, p)
           \/ StartCallback(h, a)
           \/ \E op \in TokenOps : TokenIsFresh(h, op, a) \/ TokenIsMissing(h, op, a)
                                   \/ TokenByCredentials(h, op, a)
  BY <1>2, <1>3, <1>4 DEF StartLogin, StartCallback, TokenIsFresh, TokenIsMissing,
       TokenByCredentials
<1>5. ASSUME NEW op \in TokenOps, TokenIsStale(h, op, a)
      PROVE  KeptInv'
  <2>1. UNCHANGED <<repoVars, issued, live, lost>> /\ tokens[a] # NoRow
    BY <1>5 DEF TokenIsStale, StaleRow
  <2>2. CASE tokens[a].refresh = 0
    <3>1. \/ handler' = [handler EXCEPT ![h] = Accepted(op, a, "creds", NoRow, NoRow)]
          \/ handler' = [handler EXCEPT ![h] = Answered(op, a, "error")]
      BY <1>5, <2>2 DEF TokenIsStale
    <3> QED BY <1>2, <1>3, <2>1, <3>1
  <2>3. CASE tokens[a].refresh # 0
    <3>1. handler' = [handler EXCEPT ![h] = Accepted(op, a, "refresh", NoRow, tokens[a])]
      BY <1>5, <2>3 DEF TokenIsStale
    <3>2. /\ handler'[h].pc = "refresh" /\ handler'[h].acct = a
          /\ handler'[h].token = tokens[a]
          /\ \A g \in Handlers \ {h} : handler'[g] = handler[g]
      BY <1>3, <3>1 DEF TypeOK
    <3>3. UNCHANGED <<tokens, issued, live, lost>>
      BY <2>1 DEF repoVars
    <3>4. \A n \in GrantNumbers :
              /\ \A b \in Accounts : Stores(b, n)' <=> Stores(b, n)
              /\ \A g \in Handlers : Saves(g, n)' <=> Saves(g, n)
              /\ \A g \in Handlers \ {h} : Holds(g, n)' <=> Holds(g, n)
              /\ Holds(h, n)' <=> Stores(a, n)
      BY <1>1, <2>1, <3>2, <3>3 DEF Stores, Saves, Holds
    <3>5. Issued'
      BY <2>1, <3>2, <3>3 DEF KeptInv, Issued
    <3>6. Separate' /\ (Rotates => Unshared')
      <4>1. Separate'
        BY <3>2, <3>4 DEF KeptInv, Separate, GrantNumbers
      <4>2. ASSUME Rotates PROVE Unshared'
        BY <3>2, <3>4, <4>2 DEF KeptInv, Unshared, GrantNumbers
      <4> QED BY <4>1, <4>2
    <3>7. Renewed'
      <4>1. \A g \in Handlers, b \in Accounts : Renews(g, b) => Renews(g, b)'
        BY <1>1, <3>2 DEF Renews
      <4> QED BY <3>3, <3>4, <4>1 DEF KeptInv, Renewed, GrantNumbers
    <3> QED BY <3>5, <3>6, <3>7 DEF KeptInv
  <2> QED BY <2>2, <2>3
<1>6. CASE Logout(h, a)
  <2>1. UNCHANGED <<issued, live, lost>>
    BY <1>6 DEF Logout
  <2>2. \A b \in Accounts : tokens'[b] # NoRow =>
            tokens[b] # NoRow /\ tokens'[b].refresh = tokens[b].refresh
    BY <1>6 DEF Logout, UsersDelete, repoVars, TypeOK, RepoTypeOK
  <2>3. handler'[h].pc = "done"
    BY <1>1, <1>6, <1>3 DEF Logout, Overtake, TypeOK
  <2>4. ASSUME NEW g \in Handlers \ {h}
        PROVE  /\ handler'[g].pc = handler[g].pc /\ handler'[g].acct = handler[g].acct
               /\ handler'[g].token = handler[g].token /\ handler'[g].op = handler[g].op
    <3>1. handler'[g] \in {handler[g], [handler[g] EXCEPT !.overtaken = TRUE]}
      BY <1>6 DEF Logout, Overtake, TypeOK
    <3>2. handler[g] \in Request
      BY DEF TypeOK, WellFormed
    <3> QED BY <3>1, <3>2 DEF Request
  <2>5. \A g \in Handlers, b \in Accounts : Renews(g, b) => Renews(g, b)'
    BY <1>1, <2>4 DEF Renews
  <2> QED BY <2>1, <2>2, <2>3, <2>4, <2>5, KeptQuiet
<1> QED BY <1>4, <1>5, <1>6 DEF Accept

\* A handler to which the provider has given a token: one never seen before, or,
\* where tokens are not rotated, the one it had.
LEMMA KeptGranted ==
    ASSUME TypeOK, KeptInv, NEW h \in Handlers, NEW token \in TokenRow,
           handler[h].pc \in {"grant", "refresh"},
           handler' = [handler EXCEPT ![h] = Granted(h, token)],
           UNCHANGED <<tokens, lost>>,
           \/ /\ issued < MaxGrants /\ issued' = issued + 1
              /\ token.refresh \in {0, issued + 1}
              /\ live' = live \cup ({token.refresh} \ {0})
           \/ /\ Rotates /\ handler[h].pc = "refresh"
              /\ issued < MaxGrants /\ issued' = issued + 1
              /\ token.refresh = issued + 1
              /\ live' = (live \ {handler[h].token.refresh}) \cup {issued + 1}
           \/ /\ ~Rotates /\ handler[h].pc = "refresh" /\ UNCHANGED <<issued, live>>
              /\ token.refresh = handler[h].token.refresh /\ token.refresh \in live
    PROVE  KeptInv'
<1> DEFINE a == handler[h].acct
           m == token.refresh
<1>1. /\ handler[h] \in WellFormed /\ a \in Accounts /\ issued \in Nat /\ m \in Nat
      /\ issued <= MaxGrants /\ MaxGrants \in Nat /\ live \subseteq 1..issued
  BY SessionsAssumption DEF TypeOK, WellFormed, TokenRow, KeptInv, Issued
<1>2. /\ handler'[h].pc = "save" /\ handler'[h].acct = a /\ handler'[h].token = token
      /\ handler'[h].op = handler[h].op
      /\ \A g \in Handlers \ {h} : handler'[g] = handler[g]
  BY <1>1 DEF TypeOK, Granted, WellFormed, Request
<1> HIDE DEF a
<1>3. \A n \in GrantNumbers :
          /\ \A b \in Accounts : Stores(b, n)' <=> Stores(b, n)
          /\ \A g \in Handlers \ {h} : Saves(g, n)' <=> Saves(g, n)
          /\ \A g \in Handlers \ {h} : Holds(g, n)' <=> Holds(g, n)
          /\ Holds(h, n)' <=> n = m
          /\ Saves(h, n)' <=> n = m
          /\ ~Saves(h, n)
  BY <1>2 DEF Stores, Saves, Holds
<1>4. \A n \in GrantNumbers : n > issued =>
          /\ \A b \in Accounts : ~Stores(b, n)
          /\ \A g \in Handlers : ~Holds(g, n)
  <2>1. \A b \in Accounts : tokens[b] # NoRow => tokens[b].refresh \in Nat
    BY DEF TypeOK, RepoTypeOK, TokenRow
  <2>2. \A g \in Handlers :
            handler[g].pc \in {"refresh", "save"} => handler[g].token.refresh \in Nat
    BY DEF TypeOK, WellFormed, TokenRow
  <2> QED BY <1>1, <2>1, <2>2 DEF KeptInv, Issued, Stores, Holds, GrantNumbers
<1>5. \A g \in Handlers, b \in Accounts : Renews(g, b) => Renews(g, b)'
  BY <1>2 DEF Renews
<1>6. Issued'
  <2>1. issued' \in Nat /\ issued <= issued' /\ m <= issued' /\ live' \subseteq 1..issued'
    <3>1. issued' \in Nat /\ issued <= issued'
      BY <1>1
    <3>2. \A n \in 1..issued : n \in 1..issued'
      BY <1>1, <3>1
    <3>3. issued' = issued + 1 => issued + 1 \in 1..issued'
      BY <1>1
    <3>4. live' \subseteq 1..issued'
      <4>1. CASE live' = live
        BY <1>1, <3>2, <4>1
      <4>2. CASE issued' = issued + 1 /\ live' \subseteq live \cup {issued + 1}
        BY <1>1, <3>2, <3>3, <4>2
      <4>3. \/ live' = live
            \/ issued' = issued + 1 /\ live' \subseteq live \cup {issued + 1}
        OBVIOUS
      <4> QED BY <4>1, <4>2, <4>3
    <3>5. m <= issued'
      BY <1>1
    <3> QED BY <3>1, <3>4, <3>5
  <2>2. \A b \in Accounts : tokens'[b] # NoRow => tokens'[b].refresh <= issued'
    BY <1>1, <2>1 DEF KeptInv, Issued, TypeOK, RepoTypeOK, TokenRow
  <2>3. \A g \in Handlers :
            handler'[g].pc \in {"refresh", "save"} => handler'[g].token.refresh <= issued'
    <3>1. \A g \in Handlers : handler[g].pc \in {"refresh", "save"} =>
              handler[g].token.refresh \in Nat /\ handler[g].token.refresh <= issued
      BY DEF KeptInv, Issued, TypeOK, WellFormed, TokenRow
    <3> QED BY <1>1, <1>2, <2>1, <3>1
  <2> QED BY <2>1, <2>2, <2>3 DEF Issued
<1>7. ASSUME NEW n \in GrantNumbers, n = m, m = 0 \/ m > issued
      PROVE  /\ \A b \in Accounts : ~Stores(b, n)'
             /\ \A g \in Handlers \ {h} : ~Holds(g, n)' /\ ~Saves(g, n)'
  <2>1. n > issued
    BY <1>7 DEF GrantNumbers
  <2> QED BY <1>3, <1>4, <2>1 DEF Holds, Saves
<1>9. Separate'
  <2> SUFFICES ASSUME NEW n \in GrantNumbers
               PROVE  /\ \A b, c \in Accounts : Stores(b, n)' /\ Stores(c, n)' => b = c
                      /\ \A b \in Accounts, g \in Handlers :
                           Stores(b, n)' /\ Holds(g, n)' => handler'[g].acct = b
                      /\ \A g, k \in Handlers :
                           Holds(g, n)' /\ Holds(k, n)' => handler'[g].acct = handler'[k].acct
    BY DEF Separate, GrantNumbers
  <2>1. CASE n = m /\ (m = 0 \/ m > issued)
    BY <1>7, <2>1
  <2>2. CASE n # m
    BY <1>2, <1>3, <2>2 DEF KeptInv, Separate
  <2>3. CASE handler[h].pc = "refresh" /\ m = handler[h].token.refresh
    <3>1. Holds(h, m)
      BY <2>3 DEF Holds
    <3>2. \A g \in Handlers : Holds(g, n)' => Holds(g, n) /\ handler'[g].acct = handler[g].acct
      BY <1>2, <1>3, <3>1 DEF a
    <3> QED BY <1>3, <3>2 DEF KeptInv, Separate
  <2> QED BY <1>1, <2>1, <2>2, <2>3
<1>10. ASSUME Rotates PROVE Unshared'
  <2>1. m = 0 \/ m > issued
    BY <1>1, <1>10
  <2> SUFFICES ASSUME NEW n \in GrantNumbers
               PROVE  \A k \in Handlers : Saves(k, n)' =>
                        /\ \A b \in Accounts : ~Stores(b, n)'
                        /\ \A g \in Handlers : Holds(g, n)' => g = k
    BY DEF Unshared, GrantNumbers
  <2>2. CASE n = m
    BY <1>7, <2>1, <2>2
  <2>3. CASE n # m
    BY <1>3, <1>10, <2>3 DEF KeptInv, Unshared
  <2> QED BY <2>2, <2>3
<1>8. Renewed'
  <2> SUFFICES ASSUME NEW n \in GrantNumbers
               PROVE  /\ \A g \in Handlers : Saves(g, n)' => n \in live'
                      /\ \A b \in Accounts : Stores(b, n)' /\ n \notin live' =>
                           Rotates /\ (b \in lost' \/ \E g \in Handlers : Renews(g, b)')
    BY DEF Renewed, GrantNumbers
  <2>1. /\ \A g \in Handlers : Saves(g, n) => n \in live
        /\ \A b \in Accounts : Stores(b, n) /\ n \notin live =>
             Rotates /\ (b \in lost \/ \E g \in Handlers : Renews(g, b))
    BY DEF KeptInv, Renewed
  <2>2. m \in GrantNumbers => m \in live'
    BY DEF GrantNumbers
  <2>3. CASE n \in live => n \in live'
    BY <1>3, <1>5, <2>1, <2>2, <2>3
  <2>4. CASE n \in live /\ n \notin live'
    <3>1. Rotates /\ handler[h].pc = "refresh" /\ n = handler[h].token.refresh
      BY <2>4
    <3>2. Holds(h, n)
      BY <3>1 DEF Holds
    <3>3. \A g \in Handlers \ {h} : ~Saves(g, n)
      BY <3>1, <3>2 DEF KeptInv, Unshared
    <3>4. \A b \in Accounts : Stores(b, n) => b = a
      BY <3>2 DEF KeptInv, Separate, a
    <3>5. \A b \in Accounts : b = a => Renews(h, b)'
      BY <1>1, <1>2, <3>1 DEF Renews, WellFormed
    <3> QED BY <1>3, <2>2, <2>4, <3>1, <3>3, <3>4, <3>5
  <2> QED BY <2>3, <2>4
<1> QED BY <1>6, <1>8, <1>9, <1>10 DEF KeptInv

\* What the provider does keeps KeptInv: a spent refresh token has its successor
\* in the handler's memory, or the answer with it is recorded as lost.
LEMMA KeptProvider ==
    ASSUME TypeOK, KeptInv, NEW h \in Handlers, Provider(h)
    PROVE  KeptInv'
<1>1. handler[h] \in WellFormed /\ issued \in Nat
  BY DEF TypeOK
<1>2. CASE GrantFails(h) \/ RefreshUnchanged(h) \/ RefreshFails(h)
  <2>1. PICK result : Answer(h, result)
    BY <1>2 DEF GrantFails, RefreshUnchanged, RefreshFails
  <2>2. UNCHANGED <<tokens, issued, live, lost>> /\ handler[h].pc # "save"
    BY <1>2 DEF GrantFails, RefreshUnchanged, RefreshFails, repoVars
  <2>3. Answered(handler[h].op, handler[h].acct, result).pc = "done"
    BY DEF Answered
  <2> QED BY <2>1, <2>2, <2>3, KeptHandler DEF Answer
<1>3. CASE Grant(h)
  <2>1. PICK refresh \in {0, issued + 1} :
            /\ live' = live \cup ({refresh} \ {0})
            /\ handler' = [handler EXCEPT ![h] = Granted(h, [refresh |-> refresh, fresh |-> TRUE])]
    BY <1>3 DEF Grant
  <2>2. /\ handler[h].pc = "grant" /\ issued < MaxGrants /\ issued' = issued + 1
        /\ UNCHANGED <<tokens, lost>>
    BY <1>3 DEF Grant, repoVars
  <2> DEFINE token == [refresh |-> refresh, fresh |-> TRUE]
  <2>3. token \in TokenRow /\ token.refresh = refresh
    BY <1>1 DEF TokenRow
  <2> HIDE DEF token
  <2> QED BY <2>1, <2>2, <2>3, KeptGranted DEF token
<1>4. CASE Refresh(h)
  <2> DEFINE new(refresh) == [refresh |-> refresh, fresh |-> TRUE]
             old == handler[h].token.refresh
  <2>1. /\ handler[h].pc = "refresh" /\ old \in live /\ UNCHANGED <<tokens, lost>>
        /\ old \in Nat
    BY <1>1, <1>4 DEF Refresh, repoVars, WellFormed, TokenRow
  <2>2. \A n \in Nat : new(n) \in TokenRow /\ new(n).refresh = n
    BY DEF TokenRow
  <2>3. \/ /\ Rotates /\ issued < MaxGrants /\ issued' = issued + 1
           /\ live' = (live \ {old}) \cup {issued + 1}
           /\ handler' = [handler EXCEPT ![h] = Granted(h, new(issued + 1))]
        \/ /\ ~Rotates /\ UNCHANGED <<issued, live>>
           /\ handler' = [handler EXCEPT ![h] = Granted(h, new(old))]
    BY <1>4 DEF Refresh, Rotated
  <2> HIDE DEF new
  <2>4. issued + 1 \in Nat
    BY <1>1
  <2> QED BY <2>1, <2>2, <2>3, <2>4, KeptGranted
<1>5. CASE RefreshReplyLost(h)
  <2> DEFINE a == handler[h].acct
             r == Answered(handler[h].op, a, "error")
             spent == handler[h].token.refresh
  <2>1. /\ Rotates /\ handler[h].pc = "refresh" /\ UNCHANGED tokens
        /\ issued < MaxGrants /\ issued' = issued + 1
        /\ live' = (live \ {spent}) \cup {issued + 1}
        /\ handler' = [handler EXCEPT ![h] = r] /\ lost' = lost \cup {a}
    BY <1>5 DEF RefreshReplyLost, Rotated, Answer, repoVars
  <2>2. r.pc = "done"
    BY DEF Answered
  <2> HIDE DEF r
  <2>3. handler'[h] = r /\ \A g \in Handlers \ {h} : handler'[g] = handler[g]
    BY <2>1 DEF TypeOK
  <2>4. \A n \in GrantNumbers :
            /\ \A b \in Accounts : Stores(b, n)' <=> Stores(b, n)
            /\ \A g \in Handlers \ {h} : (Saves(g, n)' <=> Saves(g, n)) /\ (Holds(g, n)' <=> Holds(g, n))
            /\ ~Saves(h, n)' /\ ~Holds(h, n)'
    BY <2>1, <2>2, <2>3 DEF Stores, Saves, Holds
  <2>5. Issued'
    <3>1. live' \subseteq 1..issued'
      <4>1. live \subseteq 1..issued
        BY DEF KeptInv, Issued
      <4>2. \A n \in 1..issued : n \in 1..issued'
        BY <1>1, <2>1
      <4>3. issued + 1 \in 1..issued'
        BY <1>1, <2>1
      <4> QED BY <2>1, <4>1, <4>2, <4>3
    <3>2. \A b \in Accounts : tokens[b] # NoRow =>
              tokens[b].refresh \in Nat /\ tokens[b].refresh <= issued
      BY DEF KeptInv, Issued, TypeOK, RepoTypeOK, TokenRow
    <3>3. \A g \in Handlers : handler[g].pc \in {"refresh", "save"} =>
              handler[g].token.refresh \in Nat /\ handler[g].token.refresh <= issued
      BY DEF KeptInv, Issued, TypeOK, WellFormed, TokenRow
    <3>4. \A b \in Accounts : tokens'[b] # NoRow => tokens'[b].refresh <= issued'
      BY <1>1, <2>1, <3>2
    <3>5. \A g \in Handlers :
              handler'[g].pc \in {"refresh", "save"} => handler'[g].token.refresh <= issued'
      BY <1>1, <2>1, <2>2, <2>3, <3>3
    <3> QED BY <3>1, <3>4, <3>5 DEF Issued
  <2>6. Separate' /\ Unshared'
    <3>1. Separate'
      BY <2>3, <2>4 DEF KeptInv, Separate, GrantNumbers
    <3>2. Unshared'
      BY <2>1, <2>4 DEF KeptInv, Unshared, GrantNumbers
    <3> QED BY <3>1, <3>2
  <2>7. Renewed'
    <3> SUFFICES ASSUME NEW n \in GrantNumbers
                 PROVE  /\ \A g \in Handlers : Saves(g, n)' => n \in live'
                        /\ \A b \in Accounts : Stores(b, n)' /\ n \notin live' =>
                             Rotates /\ (b \in lost' \/ \E g \in Handlers : Renews(g, b)')
      BY DEF Renewed, GrantNumbers
    <3>1. \A g \in Handlers, b \in Accounts : Renews(g, b) => Renews(g, b)'
      BY <2>1, <2>3 DEF Renews
    <3>2. /\ \A g \in Handlers : Saves(g, n) => n \in live
          /\ \A b \in Accounts : Stores(b, n) /\ n \notin live =>
               Rotates /\ (b \in lost \/ \E g \in Handlers : Renews(g, b))
      BY DEF KeptInv, Renewed
    <3>3. CASE n # spent
      BY <2>1, <2>4, <3>1, <3>2, <3>3
    <3>4. CASE n = spent
      <4>1. Holds(h, n)
        BY <2>1, <3>4 DEF Holds
      <4>2. \A g \in Handlers \ {h} : ~Saves(g, n)
        BY <2>1, <4>1 DEF KeptInv, Unshared
      <4>3. \A b \in Accounts : Stores(b, n) => b = a
        BY <4>1 DEF KeptInv, Separate
      <4> QED BY <2>1, <2>4, <4>2, <4>3
    <3> QED BY <3>3, <3>4
  <2> QED BY <2>5, <2>6, <2>7 DEF KeptInv
<1> QED BY <1>2, <1>3, <1>4, <1>5 DEF Provider

\* A database statement keeps KeptInv: what is written is a refresh token that
\* is still accepted, in place of the one it succeeds.
LEMMA KeptDatabase ==
    ASSUME TypeOK, KeptInv, NEW h \in Handlers, Database(h)
    PROVE  KeptInv'
<1>1. handler[h] \in WellFormed
  BY DEF TypeOK
<1>2. \A result : Answered(handler[h].op, handler[h].acct, result).pc = "done"
  BY DEF Answered
<1>3. CASE ReadCredentials(h)
  <2>1. handler[h].pc = "creds" /\ UNCHANGED <<tokens, issued, live, lost>>
    BY <1>3 DEF ReadCredentials, repoVars
  <2>2. CASE Answer(h, "error")
    BY <1>2, <2>1, <2>2, KeptHandler DEF Answer
  <2>3. CASE ~Answer(h, "error")
    <3>1. PICK password : handler' = [handler EXCEPT ![h].pc = "grant", ![h].password = password]
      BY <1>3, <2>3 DEF ReadCredentials
    <3> DEFINE r == [handler[h] EXCEPT !.pc = "grant", !.password = password]
    <3>2. handler' = [handler EXCEPT ![h] = r]
      BY <3>1 DEF TypeOK
    <3>3. r.pc = "grant"
      BY <1>1 DEF WellFormed, Request
    <3> HIDE DEF r
    <3> QED BY <2>1, <3>2, <3>3, KeptHandler
  <2> QED BY <2>2, <2>3
<1>4. CASE SaveFails(h)
  <2>1. Answer(h, "error") /\ UNCHANGED <<tokens, issued, live>> /\ lost \subseteq lost'
    BY <1>4 DEF SaveFails, repoVars
  <2>2. Rotates /\ handler[h].op \in TokenOps => handler[h].acct \in lost'
    BY <1>4 DEF SaveFails
  <2> QED BY <1>2, <2>1, <2>2, KeptHandler DEF Answer
<1>5. CASE CreateUser(h) \/ CreateConflicts(h) \/ CreateFails(h)
  <2>1. PICK result : Answer(h, result)
    BY <1>5 DEF CreateUser, CreateConflicts, CreateFails
  <2>2. UNCHANGED <<tokens, issued, live, lost>> /\ handler[h].pc = "create"
    BY <1>5 DEF CreateUser, UsersCreate, CreateConflicts, CreateFails, repoVars
  <2> QED BY <1>2, <2>1, <2>2, KeptHandler DEF Answer
<1>6. CASE SaveToken(h)
  <2> DEFINE a == handler[h].acct
             token == handler[h].token
             m == token.refresh
  <2>1. /\ handler[h].pc = "save" /\ a \in Accounts /\ token \in TokenRow /\ token # NoRow
        /\ m \in Nat
    BY <1>1, <1>6, NoRowFacts DEF SaveToken, WellFormed, TokenRow
  <2>2. UNCHANGED <<issued, live>> /\ lost' = lost \ {a}
    BY <1>6 DEF SaveToken
  <2>3. /\ tokens'[a] = token
        /\ \A b \in Accounts : b # a => tokens'[b] = tokens[b]
    BY <1>6, <2>1 DEF SaveToken, TokensSave, TypeOK, RepoTypeOK
  <2>4. /\ handler'[h].pc \in {"create", "done"}
        /\ \A g \in Handlers \ {h} : handler'[g] = handler[g]
    BY <1>1, <1>2, <1>6 DEF SaveToken, Answer, TypeOK, WellFormed, Request
  <2>5. \A n \in GrantNumbers :
            /\ \A b \in Accounts : b = a => (Stores(b, n)' <=> n = m)
            /\ \A b \in Accounts : b # a => (Stores(b, n)' <=> Stores(b, n))
            /\ \A g \in Handlers \ {h} : (Saves(g, n)' <=> Saves(g, n)) /\ (Holds(g, n)' <=> Holds(g, n))
            /\ ~Saves(h, n)' /\ ~Holds(h, n)'
            /\ n = m => Saves(h, n) /\ Holds(h, n)
    BY <2>1, <2>3, <2>4 DEF Stores, Saves, Holds
  <2>6. \A g \in Handlers, b \in Accounts : b # a /\ Renews(g, b) => Renews(g, b)'
    BY <2>4 DEF Renews
  <2>7. Issued'
    <3>1. \A b \in Accounts : tokens'[b] # NoRow => tokens'[b].refresh <= issued'
      BY <2>1, <2>2, <2>3 DEF KeptInv, Issued
    <3>2. \A g \in Handlers :
              handler'[g].pc \in {"refresh", "save"} => handler'[g].token.refresh <= issued'
      BY <2>2, <2>4 DEF KeptInv, Issued
    <3> QED BY <2>2, <3>1, <3>2 DEF KeptInv, Issued
  <2> HIDE DEF a, token, m
  <2>8. Separate'
    <3> SUFFICES ASSUME NEW n \in GrantNumbers
                 PROVE  /\ \A b, c \in Accounts : Stores(b, n)' /\ Stores(c, n)' => b = c
                        /\ \A b \in Accounts, g \in Handlers :
                             Stores(b, n)' /\ Holds(g, n)' => handler'[g].acct = b
                        /\ \A g, k \in Handlers :
                             Holds(g, n)' /\ Holds(k, n)' => handler'[g].acct = handler'[k].acct
      BY DEF Separate, GrantNumbers
    <3>2. /\ \A b, c \in Accounts : Stores(b, n) /\ Stores(c, n) => b = c
          /\ \A b \in Accounts, g \in Handlers : Stores(b, n) /\ Holds(g, n) => handler[g].acct = b
          /\ \A g, k \in Handlers : Holds(g, n) /\ Holds(k, n) => handler[g].acct = handler[k].acct
      BY DEF KeptInv, Separate
    <3>3. \A g \in Handlers : Holds(g, n)' => Holds(g, n) /\ handler'[g].acct = handler[g].acct
      BY <2>4, <2>5
    <3>4. CASE n = m
      <4>1. \A b \in Accounts : Stores(b, n)' => b = a
        <5>1. Holds(h, n) /\ handler[h].acct = a
          BY <2>5, <3>4 DEF a
        <5> QED BY <2>5, <3>2, <5>1
      <4> QED BY <3>2, <3>3, <3>4, <4>1, <2>5 DEF a
    <3>5. CASE n # m
      <4>1. \A b \in Accounts : Stores(b, n)' => Stores(b, n)
        BY <2>5, <3>5
      <4> QED BY <3>2, <3>3, <4>1
    <3> QED BY <3>4, <3>5
  <2>10. ASSUME Rotates PROVE Unshared'
    <3> SUFFICES ASSUME NEW n \in GrantNumbers
                 PROVE  \A k \in Handlers : Saves(k, n)' =>
                          /\ \A b \in Accounts : ~Stores(b, n)'
                          /\ \A g \in Handlers : Holds(g, n)' => g = k
      BY DEF Unshared, GrantNumbers
    <3>1. \A k \in Handlers : Saves(k, n) =>
            /\ \A b \in Accounts : ~Stores(b, n)
            /\ \A g \in Handlers : Holds(g, n) => g = k
      BY <2>10 DEF KeptInv, Unshared
    <3>2. CASE n = m
      <4>1. \A g \in Handlers : Saves(g, n) => Holds(g, n)
        BY DEF Saves, Holds
      <4>2. \A g \in Handlers : ~Saves(g, n)'
        BY <2>5, <3>1, <3>2, <4>1
      <4> QED BY <4>2
    <3>3. CASE n # m
      BY <2>5, <3>1, <3>3
    <3> QED BY <3>2, <3>3
  <2>9. Renewed'
    <3> SUFFICES ASSUME NEW n \in GrantNumbers
                 PROVE  /\ \A g \in Handlers : Saves(g, n)' => n \in live'
                        /\ \A b \in Accounts : Stores(b, n)' /\ n \notin live' =>
                             Rotates /\ (b \in lost' \/ \E g \in Handlers : Renews(g, b)')
      BY DEF Renewed, GrantNumbers
    <3>1. /\ \A g \in Handlers : Saves(g, n) => n \in live
          /\ \A b \in Accounts : Stores(b, n) /\ n \notin live =>
               Rotates /\ (b \in lost \/ \E g \in Handlers : Renews(g, b))
      BY DEF KeptInv, Renewed
    <3>2. \A g \in Handlers : Saves(g, n)' => n \in live'
      BY <2>2, <2>5, <3>1
    <3>3. \A b \in Accounts : b = a /\ Stores(b, n)' => n \in live'
      BY <2>2, <2>5, <3>1
    <3>4. \A b \in Accounts : b # a /\ Stores(b, n)' /\ n \notin live' =>
              Rotates /\ (b \in lost' \/ \E g \in Handlers : Renews(g, b)')
      BY <2>2, <2>5, <2>6, <3>1
    <3> QED BY <3>2, <3>3, <3>4
  <2> QED BY <2>7, <2>8, <2>9, <2>10 DEF KeptInv
<1> QED BY <1>3, <1>4, <1>5, <1>6 DEF Database

\* Every step keeps KeptInv.
LEMMA KeptNext == TypeOK /\ KeptInv /\ [Next]_vars => KeptInv'
<1> SUFFICES ASSUME TypeOK, KeptInv, [Next]_vars PROVE KeptInv'
  OBVIOUS
<1>1. ASSUME NEW h \in Handlers, NEW a \in Accounts, Accept(h, a)
      PROVE  KeptInv'
  BY <1>1, KeptAccept
<1>2. ASSUME NEW h \in Handlers, Provider(h)
      PROVE  KeptInv'
  BY <1>2, KeptProvider
<1>3. ASSUME NEW h \in Handlers, Database(h)
      PROVE  KeptInv'
  BY <1>3, KeptDatabase
<1>4. ASSUME NEW h \in Handlers, Receive(h)
      PROVE  KeptInv'
  <2>1. Idle.pc = "idle"
    BY DEF Idle
  <2> QED BY <1>4, <2>1, KeptHandler DEF Receive, repoVars
<1>5. ASSUME NEW e \in Accounts, Expire(e)
      PROVE  KeptInv'
  <2>1. /\ UNCHANGED <<handler, issued, live, lost>>
        /\ tokens' = [tokens EXCEPT ![e].fresh = FALSE]
        /\ tokens[e] \in TokenRow /\ tokens[e] # NoRow
    BY <1>5, NoRowFacts DEF Expire, TypeOK, RepoTypeOK
  <2>2. \A b \in Accounts : tokens'[b] # NoRow =>
            tokens[b] # NoRow /\ tokens'[b].refresh = tokens[b].refresh
    BY <2>1 DEF TypeOK, RepoTypeOK, TokenRow
  <2>3. \A h \in Handlers, b \in Accounts : Renews(h, b) => Renews(h, b)'
    BY <2>1 DEF Renews
  <2> QED BY <2>1, <2>2, <2>3, KeptQuiet
<1>6. ASSUME NEW c \in ClientIDs, DeleteIntegration(c)
      PROVE  KeptInv'
  <2> DEFINE A == {a \in Accounts : ClientOf(a) = c}
  <2>1. /\ tokens' = [a \in Accounts |-> IF ClientOf(a) = c THEN NoRow ELSE tokens[a]]
        /\ handler' = Overtake(A) /\ UNCHANGED <<issued, live, lost>>
    BY <1>6 DEF DeleteIntegration, DeleteClientData
  <2>2. \A b \in Accounts : tokens'[b] # NoRow =>
            tokens[b] # NoRow /\ tokens'[b].refresh = tokens[b].refresh
    BY <2>1
  <2>3. ASSUME NEW g \in Handlers
        PROVE  /\ handler'[g].pc = handler[g].pc /\ handler'[g].acct = handler[g].acct
               /\ handler'[g].token = handler[g].token /\ handler'[g].op = handler[g].op
    <3>1. handler'[g] \in {handler[g], [handler[g] EXCEPT !.overtaken = TRUE]}
      BY <2>1 DEF Overtake
    <3>2. handler[g] \in Request
      BY DEF TypeOK, WellFormed
    <3> QED BY <3>1, <3>2 DEF Request
  <2>4. \A g \in Handlers, b \in Accounts : Renews(g, b) => Renews(g, b)'
    BY <2>3 DEF Renews
  <2> HIDE DEF A
  <2> QED BY <2>1, <2>2, <2>3, <2>4, KeptQuiet
<1>7. CASE Restart
  <2>1. UNCHANGED <<tokens, issued, live>> /\ lost \subseteq lost'
    BY <1>7 DEF Restart, repoVars
  <2>2. \A g \in Handlers : handler'[g].pc = "idle"
    BY <1>7 DEF Restart, Idle
  <2>3. Rotates => \A g \in Handlers, b \in Accounts : Renews(g, b) => b \in lost'
    BY <1>7 DEF Restart, Renews
  <2> QED BY <2>1, <2>2, <2>3, KeptQuiet
<1>8. CASE UNCHANGED vars
  <2>1. UNCHANGED <<tokens, handler, issued, live, lost>>
    BY <1>8 DEF vars
  <2>2. \A g \in Handlers, b \in Accounts : Renews(g, b) => Renews(g, b)'
    BY <2>1 DEF Renews
  <2> QED BY <2>1, <2>2, KeptQuiet
<1> QED BY <1>1, <1>2, <1>3, <1>4, <1>5, <1>6, <1>7, <1>8 DEF Next

\* KeptInv holds in every reachable state.
THEOREM KeptInvariant == Spec => []KeptInv
<1>1. Init => KeptInv
  <2> SUFFICES ASSUME Init PROVE KeptInv
    OBVIOUS
  <2>1. /\ live = {} /\ issued = 0 /\ \A a \in Accounts : tokens[a] = NoRow
        /\ \A h \in Handlers : handler[h].pc = "idle"
    BY DEF Init, Idle
  <2> QED BY <2>1 DEF KeptInv, Issued, Separate, Unshared, Renewed, Stores, Holds, Saves
<1> QED BY <1>1, TypeCorrect, KeptNext, PTL DEF Spec

\* No interleaving of any number of refreshes, logins, logouts, deletions, lost
\* answers, faults and restarts strands a session on a spent refresh token
\* unless its successor was lost on the way: token.go writes a rotated token
\* over the row it was read from, and nothing else ever holds it.
THEOREM RefreshTokensKept == Spec => []RefreshTokenKept
<1>1. TypeOK /\ KeptInv => RefreshTokenKept
  <2> SUFFICES ASSUME TypeOK, KeptInv, NEW a \in Accounts,
                      tokens[a] # NoRow, tokens[a].refresh \notin live \cup {0}
               PROVE  a \in lost \/ \E h \in Handlers : handler[h].pc = "save" /\ handler[h].acct = a
    BY DEF RefreshTokenKept
  <2> DEFINE n == tokens[a].refresh
  <2>1. n \in GrantNumbers
    <3>1. n \in Nat /\ n <= issued /\ issued \in Nat /\ issued <= MaxGrants
      BY SessionsAssumption DEF TypeOK, RepoTypeOK, TokenRow, KeptInv, Issued
    <3> QED BY <3>1, SessionsAssumption DEF GrantNumbers
  <2>2. a \in lost \/ \E h \in Handlers : Renews(h, a)
    BY <2>1 DEF KeptInv, Renewed, Stores
  <2> QED BY <2>2 DEF Renews
<1> QED BY <1>1, KeptInvariant, TypeCorrect, PTL

\* Whatever the accounts and the handlers, no refresh token comes to be stored
\* for, or renewed on behalf of, two accounts: a handler writes back to the row
\* it read, and the provider gives a new number to every grant.
THEOREM AccountsAreSeparate == Spec => []TokensAreSeparate
<1>1. KeptInv => TokensAreSeparate
  <2> SUFFICES ASSUME KeptInv, NEW a \in Accounts, NEW b \in Accounts,
                      NEW n \in GrantNumbers, Uses(a, n), Uses(b, n)
               PROVE  a = b
    BY DEF TokensAreSeparate, GrantNumbers
  <2>1. /\ Stores(a, n) /\ Stores(b, n) => a = b
        /\ \A h \in Handlers : Stores(a, n) /\ Holds(h, n) => handler[h].acct = a
        /\ \A h \in Handlers : Stores(b, n) /\ Holds(h, n) => handler[h].acct = b
        /\ \A g, h \in Handlers :
             Holds(g, n) /\ Holds(h, n) => handler[g].acct = handler[h].acct
    BY DEF KeptInv, Separate
  <2> QED BY <2>1 DEF Uses
<1> QED BY <1>1, KeptInvariant, PTL

-----------------------------------------------------------------------------
(* What a logout leaves *)

\* A logout answers its own request and at most marks the others as overtaken.
LEMMA LogoutAnswers ==
    ASSUME TypeOK, NEW h \in Handlers, NEW a \in Accounts, Logout(h, a)
    PROVE  /\ handler'[h] = Answered("logout", a, "ok")
           /\ \A g \in Handlers \ {h} : handler'[g].op = handler[g].op
<1>1. CASE handler' = [Overtake({a}) EXCEPT ![h] = Answered("logout", a, "ok")]
  <2>1. \A g \in Handlers : Overtake({a})[g].op = handler[g].op
    <3> SUFFICES ASSUME NEW g \in Handlers PROVE Overtake({a})[g].op = handler[g].op
      OBVIOUS
    <3>1. handler[g] \in Request
      BY DEF TypeOK, WellFormed
    <3> QED BY <3>1 DEF Overtake, Request
  <2>2. Overtake({a}) = [g \in Handlers |-> Overtake({a})[g]]
    BY DEF Overtake
  <2> QED BY <1>1, <2>1, <2>2
<1>2. CASE handler' = [handler EXCEPT ![h] = Answered("logout", a, "ok")]
  BY <1>2 DEF TypeOK
<1> QED BY <1>1, <1>2 DEF Logout

\* No other step begins, and ends, a logout.
LEMMA OnlyLogout ==
    ASSUME TypeOK, [Next]_vars, NEW h \in Handlers, handler[h] = Idle,
           handler'[h].op = "logout"
    PROVE  \E a \in Accounts : Logout(h, a)
<1>1. handler[h].pc = "idle" /\ handler[h].op # "logout" /\ ~Running(h)
  BY DEF Idle, Running
<1>2. ASSUME NEW g \in Handlers, NEW r, handler' = [handler EXCEPT ![g] = r]
      PROVE  g = h
  BY <1>1, <1>2 DEF TypeOK
<1>3. ASSUME NEW A, handler' = Overtake(A)
      PROVE  FALSE
  BY <1>1, <1>3 DEF Overtake
<1>4. ASSUME NEW g \in Handlers, NEW a \in Accounts, Accept(g, a)
      PROVE  Logout(h, a)
  <2>1. CASE Logout(g, a)
    <3>1. g = h
      BY <1>1, <2>1, LogoutAnswers
    <3> QED BY <2>1, <3>1
  <2>2. ASSUME NEW op \in LoginOps \cup TokenOps, NEW pc, NEW password, NEW token, NEW result
        PROVE  /\ Accepted(op, a, pc, password, token).op # "logout"
               /\ Answered(op, a, result).op # "logout"
    BY DEF Accepted, Answered, LoginOps, TokenOps
  <2>3. ASSUME NEW r, handler' = [handler EXCEPT ![g] = r], r.op # "logout"
        PROVE  FALSE
    BY <1>2, <2>3 DEF TypeOK
  <2>4. ASSUME NEW p \in Passwords, StartLogin(g, a, p)
        PROVE  FALSE
    <3>1. handler' = [handler EXCEPT ![g] = Accepted("login", a, "grant", p, NoRow)]
      BY <2>4 DEF StartLogin
    <3>2. Accepted("login", a, "grant", p, NoRow).op # "logout"
      BY <2>2 DEF LoginOps
    <3> QED BY <2>3, <3>1, <3>2
  <2>5. CASE StartCallback(g, a)
    BY <2>2, <2>3, <2>5 DEF StartCallback, LoginOps
  <2>6. ASSUME NEW op \in TokenOps,
               TokenIsFresh(g, op, a) \/ TokenIsMissing(g, op, a) \/ TokenByCredentials(g, op, a)
        PROVE  FALSE
    BY <2>2, <2>3, <2>6 DEF TokenIsFresh, TokenIsMissing, TokenByCredentials
  <2>7. ASSUME NEW op \in TokenOps, TokenIsStale(g, op, a)
        PROVE  FALSE
    <3>1. \/ handler' = [handler EXCEPT ![g] = Accepted(op, a, "refresh", NoRow, tokens[a])]
          \/ handler' = [handler EXCEPT ![g] = Accepted(op, a, "creds", NoRow, NoRow)]
          \/ handler' = [handler EXCEPT ![g] = Answered(op, a, "error")]
      BY <2>7 DEF TokenIsStale
    <3> QED BY <2>2, <2>3, <3>1
  <2> QED BY <1>4, <2>1, <2>4, <2>5, <2>6, <2>7 DEF Accept
<1>5. ASSUME NEW g \in Handlers, Provider(g) \/ Database(g)
      PROVE  FALSE
  <2>1. /\ \A k \in Handlers \ {g} : handler'[k] = handler[k]
        /\ handler[g].pc # "idle"
    BY <1>5 DEF Provider, Database, Grant, GrantFails, Refresh, RefreshUnchanged, RefreshFails,
         RefreshReplyLost, ReadCredentials, SaveToken, SaveFails, CreateUser, CreateConflicts,
         CreateFails, Answer, TypeOK
  <2> QED BY <1>1, <2>1
<1>6. ASSUME NEW g \in Handlers, Receive(g)
      PROVE  FALSE
  BY <1>1, <1>6 DEF Receive, TypeOK
<1>7. ASSUME NEW a \in Accounts, Expire(a)
      PROVE  FALSE
  BY <1>1, <1>7 DEF Expire
<1>8. ASSUME NEW c \in ClientIDs, DeleteIntegration(c)
      PROVE  FALSE
  BY <1>3, <1>8 DEF DeleteIntegration
<1>9. CASE Restart
  BY <1>1, <1>9 DEF Restart, Idle
<1>10. CASE UNCHANGED vars
  BY <1>1, <1>10 DEF vars
<1> QED BY <1>4, <1>5, <1>6, <1>7, <1>8, <1>9, <1>10 DEF Next

\* A logout deletes both rows of a session, or fails as a whole, or meets one of
\* the two tables' recorded disagreements: it never leaves half of one itself.
THEOREM LogoutsEndSessions == Spec => LogoutEndsSession
<1> DEFINE Step ==
      \A h \in Handlers :
        LET a == handler'[h].acct IN
        /\ handler[h] = Idle
        /\ handler'[h].op = "logout"
        /\ AppType(a) # "credentials" /\ a \notin torn
        /\ \A g \in Handlers : ~Inserting(g, a)
        => tokens'[a] = NoRow \/ (DBFaults /\ users'[a] # NoRow)
<1>1. TypeOK /\ SessionConsistent /\ [Next]_vars => Step
  <2> SUFFICES ASSUME TypeOK, SessionConsistent, [Next]_vars,
                      NEW h \in Handlers,
                      handler[h] = Idle, handler'[h].op = "logout",
                      NEW a, a = handler'[h].acct,
                      AppType(a) # "credentials", a \notin torn,
                      \A g \in Handlers : ~Inserting(g, a)
               PROVE  tokens'[a] = NoRow \/ (DBFaults /\ users'[a] # NoRow)
    OBVIOUS
  <2>1. a \in Accounts /\ Logout(h, a)
    <3>1. PICK b \in Accounts : Logout(h, b)
      BY OnlyLogout
    <3>2. handler'[h] = Answered("logout", b, "ok")
      BY <3>1, LogoutAnswers
    <3>3. a = b
      BY <3>2 DEF Answered
    <3> QED BY <3>1, <3>3
  <2>2. CASE UsersDelete(a)
    BY <2>1, <2>2 DEF UsersDelete, TypeOK, RepoTypeOK
  <2>3. CASE UNCHANGED repoVars /\ users[a] = NoRow
    BY <2>1, <2>3 DEF repoVars, SessionConsistent, Agree
  <2>4. CASE UNCHANGED repoVars /\ users[a] # NoRow /\ DBFaults
    BY <2>4 DEF repoVars
  <2> QED BY <2>1, <2>2, <2>3, <2>4 DEF Logout
<1> QED BY <1>1, TypeCorrect, TablesAgree, PTL DEF Spec, LogoutEndsSession

-----------------------------------------------------------------------------
(* How far a request is *)

\* How many steps a request has left at most.
StepsLeft(pc) ==
    CASE pc = "creds" -> 5
      [] pc \in {"grant", "refresh"} -> 4
      [] pc = "save" -> 3
      [] pc = "create" -> 2
      [] pc = "done" -> 1
      [] pc = "idle" -> 0

\* A request under way stays where it is or goes on.
RequestsGoOn ==
    [][\A h \in Handlers :
         \/ handler[h].pc = "idle"
         \/ handler'[h].pc = handler[h].pc
         \/ StepsLeft(handler'[h].pc) < StepsLeft(handler[h].pc)]_vars

LEMMA StepsLeftValues ==
    /\ StepsLeft("creds") = 5 /\ StepsLeft("grant") = 4 /\ StepsLeft("refresh") = 4
    /\ StepsLeft("save") = 3 /\ StepsLeft("create") = 2 /\ StepsLeft("done") = 1
    /\ StepsLeft("idle") = 0
BY DEF StepsLeft

\* No request goes back: a code, a password or a refresh token is presented once,
\* no statement is repeated, and after five steps, however the others interfere,
\* the request is over.  GrantIsAnswered adds that the steps are taken.
THEOREM RequestsAdvance == Spec => RequestsGoOn
<1> DEFINE GoesOn(h) == \/ handler[h].pc = "idle"
                        \/ handler'[h].pc = handler[h].pc
                        \/ StepsLeft(handler'[h].pc) < StepsLeft(handler[h].pc)
           Step == \A h \in Handlers : GoesOn(h)
<1>1. TypeOK /\ [Next]_vars => Step
  <2> SUFFICES ASSUME TypeOK, [Next]_vars, NEW h \in Handlers
               PROVE  GoesOn(h)
    OBVIOUS
  <2>1. \A g \in Handlers : handler[g].pc \in {"idle", "grant", "refresh", "creds",
                                               "save", "create", "done"}
    BY DEF TypeOK, WellFormed, Request
  <2>2. ASSUME NEW g \in Handlers, NEW r, handler' = [handler EXCEPT ![g] = r],
               handler[g].pc = "idle" \/ StepsLeft(r.pc) < StepsLeft(handler[g].pc)
        PROVE  GoesOn(h)
    BY <2>2 DEF TypeOK
  <2>3. ASSUME NEW A, handler' = Overtake(A)
        PROVE  GoesOn(h)
    <3>1. handler[h] \in Request
      BY DEF TypeOK, WellFormed
    <3>2. handler'[h].pc = handler[h].pc
      BY <2>3, <3>1 DEF Overtake, Request
    <3> QED BY <3>2
  <2>4. ASSUME NEW g \in Handlers, NEW a \in Accounts, Accept(g, a)
        PROVE  GoesOn(h)
    <3>1. handler[g].pc = "idle"
      BY <2>4 DEF Accept, StartLogin, StartCallback, TokenIsFresh, TokenIsMissing,
         TokenByCredentials, TokenIsStale, AsksForToken, Logout, Idle
    <3>2. CASE Logout(g, a)
      <4>1. CASE handler' = [Overtake({a}) EXCEPT ![g] = Answered("logout", a, "ok")]
        <5>1. handler[h] \in Request
          BY DEF TypeOK, WellFormed
        <5>2. h # g => handler'[h].pc = handler[h].pc
          BY <4>1, <5>1 DEF Overtake, Request
        <5> QED BY <3>1, <5>2
      <4>2. CASE handler' = [handler EXCEPT ![g] = Answered("logout", a, "ok")]
        BY <2>2, <3>1, <4>2
      <4> QED BY <3>2, <4>1, <4>2 DEF Logout
    <3>3. CASE ~Logout(g, a)
      <4>1. \A k \in Handlers \ {g} : handler'[k] = handler[k]
        BY <2>4, <3>3 DEF Accept, StartLogin, StartCallback, TokenIsFresh, TokenIsMissing,
           TokenByCredentials, TokenIsStale, TypeOK
      <4> QED BY <3>1, <4>1
    <3> QED BY <3>2, <3>3
  <2>5. ASSUME NEW g \in Handlers, Answer(g, "ok") \/ Answer(g, "error"),
               handler[g].pc \notin {"idle", "done"}
        PROVE  GoesOn(h)
    <3>1. \A op, acct, result : Answered(op, acct, result).pc = "done"
      BY DEF Answered
    <3>2. StepsLeft("done") < StepsLeft(handler[g].pc)
      BY <2>1, <2>5, StepsLeftValues
    <3> QED BY <2>2, <2>5, <3>1, <3>2 DEF Answer
  <2>6. ASSUME NEW g \in Handlers, NEW token, handler' = [handler EXCEPT ![g] = Granted(g, token)],
               handler[g].pc \in {"grant", "refresh"}
        PROVE  GoesOn(h)
    <3>1. handler[g] \in Request
      BY DEF TypeOK, WellFormed
    <3>2. Granted(g, token).pc = "save"
      BY <3>1 DEF Granted, Request
    <3> QED BY <2>2, <2>6, <3>2, StepsLeftValues
  <2>7. ASSUME NEW g \in Handlers, Provider(g)
        PROVE  GoesOn(h)
    BY <2>5, <2>6, <2>7 DEF Provider, Grant, GrantFails, Refresh, RefreshUnchanged,
       RefreshFails, RefreshReplyLost
  <2>8. ASSUME NEW g \in Handlers, Database(g)
        PROVE  GoesOn(h)
    <3>1. handler[g] \in Request /\ handler \in [Handlers -> WellFormed]
      BY DEF TypeOK, WellFormed
    <3>2. CASE ReadCredentials(g)
      <4>1. ASSUME NEW password,
                   handler' = [handler EXCEPT ![g].pc = "grant", ![g].password = password]
            PROVE  GoesOn(h)
        <5>1. h # g => handler'[h] = handler[h]
          BY <3>1, <4>1
        <5>2. h = g => handler'[h].pc = "grant"
          BY <3>1, <4>1 DEF Request
        <5>3. handler[g].pc = "creds"
          BY <3>2 DEF ReadCredentials
        <5> QED BY <5>1, <5>2, <5>3, StepsLeftValues
      <4> QED BY <2>5, <3>2, <4>1 DEF ReadCredentials
    <3>3. CASE SaveToken(g)
      <4>1. CASE Answer(g, "ok")
        BY <2>5, <3>3, <4>1 DEF SaveToken
      <4>2. CASE handler' = [handler EXCEPT ![g].pc = "create", ![g].token = NoRow,
                                            ![g].overtaken = FALSE]
        <5>1. h # g => handler'[h] = handler[h]
          BY <3>1, <4>2
        <5>2. h = g => handler'[h].pc = "create"
          BY <3>1, <4>2 DEF Request
        <5>3. handler[g].pc = "save"
          BY <3>3 DEF SaveToken
        <5> QED BY <5>1, <5>2, <5>3, StepsLeftValues
      <4> QED BY <3>3, <4>1, <4>2 DEF SaveToken
    <3>4. CASE SaveFails(g) \/ CreateUser(g) \/ CreateConflicts(g) \/ CreateFails(g)
      BY <2>5, <3>4 DEF SaveFails, CreateUser, CreateConflicts, CreateFails
    <3> QED BY <2>8, <3>2, <3>3, <3>4 DEF Database
  <2>9. ASSUME NEW g \in Handlers, Receive(g)
        PROVE  GoesOn(h)
    <3>1. Idle.pc = "idle" /\ handler[g].pc = "done" /\ handler' = [handler EXCEPT ![g] = Idle]
      BY <2>9 DEF Receive, Idle
    <3> QED BY <2>2, <3>1, StepsLeftValues
  <2>10. CASE Restart
    <3>1. handler'[h].pc = "idle"
      BY <2>10 DEF Restart, Idle
    <3> QED BY <2>1, <3>1, StepsLeftValues
  <2>11. ASSUME NEW a \in Accounts, Expire(a) PROVE GoesOn(h)
    BY <2>11 DEF Expire
  <2>12. ASSUME NEW c \in ClientIDs, DeleteIntegration(c) PROVE GoesOn(h)
    BY <2>3, <2>12 DEF DeleteIntegration
  <2>13. CASE UNCHANGED vars
    BY <2>13 DEF vars
  <2>14. ASSUME NEW g \in Handlers,
                (\E a \in Accounts : Accept(g, a)) \/ Provider(g) \/ Database(g) \/ Receive(g)
         PROVE  GoesOn(h)
    BY <2>4, <2>7, <2>8, <2>9, <2>14
  <2> QED BY <2>10, <2>11, <2>12, <2>13, <2>14 DEF Next
<1> QED BY <1>1, TypeCorrect, PTL DEF Spec, RequestsGoOn
=============================================================================
