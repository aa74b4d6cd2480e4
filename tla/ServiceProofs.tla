---------------------------- MODULE ServiceProofs ----------------------------
(***************************************************************************)
(* Machine-checked theorems about Service, for any configurations and any  *)
(* number of requests served at once.                                      *)
(***************************************************************************)
EXTENDS Service, TLAPS

\* The end of the process is the state before its start.
LEMMA EndInv ==
    ASSUME TypeOK, End
    PROVE  TypeOK' /\ ServiceInv'
<1>1. TypeOK'
  BY DEF TypeOK, End, Steps
<1>2. AllIdle'
  BY DEF End, AllIdle
<1>3. ServiceInv'
  BY <1>2 DEF End, ServiceInv, OAuthFollowsConfig, DrainedBeforeClose
<1> QED BY <1>1, <1>3

LEMMA InitInv == Init => TypeOK /\ ServiceInv
<1> SUFFICES ASSUME Init PROVE TypeOK /\ ServiceInv
  OBVIOUS
<1>1. TypeOK
  BY DEF Init, TypeOK, Steps
<1>2. AllIdle
  BY DEF Init, AllIdle
<1>3. ServiceInv
  BY <1>2 DEF Init, ServiceInv, OAuthFollowsConfig, DrainedBeforeClose
<1> QED BY <1>1, <1>3

\* A step of the main goroutine.
LEMMA MainInv ==
    ASSUME TypeOK, ServiceInv, Main
    PROVE  TypeOK' /\ ServiceInv'
<1> USE DEF TypeOK, Steps, ServiceInv, OAuthFollowsConfig, DrainedBeforeClose, AllIdle
<1>1. CASE ReadConfig
  BY <1>1, ServiceAssumption DEF ReadConfig
<1>2. CASE CreateDefault
  BY <1>2, ServiceAssumption DEF CreateDefault
<1>3. CASE ConfigFails
  <2>1. CASE booting
    BY <1>3, <2>1, EndInv DEF ConfigFails
  <2>2. CASE ~booting
    BY <1>3, <2>2 DEF ConfigFails
  <2> QED BY <2>1, <2>2
<1>4. CASE StoreConfig
  BY <1>4 DEF StoreConfig
<1>5. CASE OpenDatabase
  BY <1>5 DEF OpenDatabase
<1>6. CASE InitFails
  BY <1>6, EndInv DEF InitFails
<1>7. CASE RefreshOAuthConfig
  BY <1>7 DEF RefreshOAuthConfig
<1>8. CASE StartHTTPServer
  BY <1>8 DEF StartHTTPServer
<1>9. CASE Notify
  BY <1>9 DEF Notify
<1>10. CASE ReceiveHangup
  BY <1>10 DEF ReceiveHangup
<1>11. CASE ReceiveTerminate
  BY <1>11 DEF ReceiveTerminate
<1>12. CASE Drained
  BY <1>12 DEF Drained
<1>13. CASE DrainTimeout
  BY <1>13 DEF DrainTimeout
<1>14. CASE CloseDatabase
  BY <1>14 DEF CloseDatabase
<1>15. CASE Return
  BY <1>15, EndInv DEF Return
<1> QED BY <1>1, <1>2, <1>3, <1>4, <1>5, <1>6, <1>7, <1>8, <1>9, <1>10, <1>11,
           <1>12, <1>13, <1>14, <1>15 DEF Main

\* A step of a goroutine of the HTTP server: no handler is there before the
\* server, and the server is there only after the OAuth configuration.
LEMMA HandlerInv ==
    ASSUME TypeOK, ServiceInv, NEW h \in Handlers,
           Accept(h) \/ LoadOAuthConfig(h) \/ Respond(h)
    PROVE  TypeOK' /\ ServiceInv'
<1> USE DEF TypeOK, Steps, ServiceInv, OAuthFollowsConfig, DrainedBeforeClose, AllIdle
<1>1. CASE Accept(h)
  BY <1>1 DEF Accept
<1>2. CASE LoadOAuthConfig(h)
  <2>1. handler[h] # "idle"
    BY <1>2 DEF LoadOAuthConfig
  <2>2. server # "down"
    BY <2>1
  <2>3. oauth \in Configs
    BY <2>2
  <2>4. TypeOK'
    BY <1>2, <2>3 DEF LoadOAuthConfig
  <2>5. AllIdle' => AllIdle
    BY <1>2, <2>1, <2>3, ServiceAssumption DEF LoadOAuthConfig
  <2>6. ~AllIdle
    BY <2>1
  <2>7. UNCHANGED <<file, pc, booting, parsed, conf, oauth, sigs, server, database, overdue>>
    BY <1>2 DEF LoadOAuthConfig
  <2>8. ServiceInv'
    BY <2>2, <2>5, <2>6, <2>7
  <2> QED BY <2>4, <2>8
<1>3. CASE Respond(h)
  BY <1>3 DEF Respond
<1> QED BY <1>1, <1>2, <1>3

\* A step of the administrator.
LEMMA AdminInv ==
    ASSUME TypeOK, ServiceInv,
           \/ \E content \in Configs \cup {Missing, Broken} : Edit(content)
           \/ Hangup
           \/ Terminate
    PROVE  TypeOK' /\ ServiceInv'
<1> USE DEF TypeOK, Steps, ServiceInv, OAuthFollowsConfig, DrainedBeforeClose, AllIdle
<1>1. ASSUME NEW content \in Configs \cup {Missing, Broken}, Edit(content)
      PROVE  TypeOK' /\ ServiceInv'
  <2>1. file' \in Configs \cup {Missing, Broken} /\ asked' \in BOOLEAN
    BY <1>1 DEF Edit
  <2>2. UNCHANGED <<pc, booting, parsed, conf, oauth, sigs, server, database,
                    handler, overdue, outcome>>
    BY <1>1 DEF Edit, process
  <2>3. TypeOK'
    BY <2>1, <2>2
  <2>4. ServiceInv'
    BY <2>2
  <2> QED BY <2>3, <2>4
<1>2. CASE Hangup
  <2>1. CASE booting
    BY <1>2, <2>1, EndInv DEF Hangup
  <2>2. CASE ~booting
    BY <1>2, <2>2 DEF Hangup, Deliver
  <2> QED BY <2>1, <2>2
<1>3. CASE Terminate
  <2>1. CASE booting
    BY <1>3, <2>1, EndInv DEF Terminate
  <2>2. CASE ~booting
    BY <1>3, <2>2 DEF Terminate, Deliver
  <2> QED BY <2>1, <2>2
<1> QED BY <1>1, <1>2, <1>3

LEMMA NextInv == TypeOK /\ ServiceInv /\ [Next]_vars => TypeOK' /\ ServiceInv'
<1> SUFFICES ASSUME TypeOK, ServiceInv, [Next]_vars
             PROVE  TypeOK' /\ ServiceInv'
  OBVIOUS
<1>1. CASE Start
  BY <1>1 DEF Start, TypeOK, Steps, ServiceInv, OAuthFollowsConfig,
     DrainedBeforeClose, AllIdle
<1>2. CASE ServerFails
  BY <1>2, EndInv DEF ServerFails
<1>3. CASE UNCHANGED vars
  BY <1>3 DEF vars, TypeOK, ServiceInv, OAuthFollowsConfig, DrainedBeforeClose, AllIdle
<1> QED BY <1>1, <1>2, <1>3, MainInv, HandlerInv, AdminInv DEF Next

-----------------------------------------------------------------------------
(* The theorems *)

\* The variables keep their shapes; above all, no handler meets the OAuth
\* configuration before it was stored, whatever reload or stop is under way.
THEOREM TypeCorrect == Spec => []TypeOK
BY InitInv, NextInv, PTL DEF Spec

\* The invariant of start, reload and stop.
THEOREM ServiceInvariant == Spec => []ServiceInv
BY InitInv, NextInv, PTL DEF Spec

\* Between two signals the handlers use the configuration in force.
THEOREM OAuthIsCurrent == Spec => []OAuthFollowsConfig
<1>1. ServiceInv => OAuthFollowsConfig
  BY DEF ServiceInv
<1> QED BY <1>1, ServiceInvariant, PTL

\* The database is closed under overdue requests only.
THEOREM DrainComesFirst == Spec => []DrainedBeforeClose
<1>1. ServiceInv => DrainedBeforeClose
  BY DEF ServiceInv
<1> QED BY <1>1, ServiceInvariant, PTL
=============================================================================
