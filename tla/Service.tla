------------------------------ MODULE Service ------------------------------
(***************************************************************************)
(* The service process: its start, the loop over signals in main, Reload   *)
(* and Stop, next to the handlers that run in goroutines of the HTTP       *)
(* server, and the administrator who edits config.yaml and runs            *)
(* "systemctl reload" and "systemctl stop".  What the handlers do to the   *)
(* tables is the business of Sessions, Clients and DataFields; here they   *)
(* load the OAuth configuration and are drained when the service stops.    *)
(***************************************************************************)
EXTENDS Naturals

CONSTANTS
    Configs,   \* contents of config.yaml that parse
    Default,   \* the contents written when there is no file
    Missing,   \* there is no file
    Broken,    \* a file that does not parse
    NoConfig,  \* a configuration pointer that was never stored to
    Handlers   \* requests served at once

ASSUME ServiceAssumption ==
    /\ Default \in Configs
    /\ Missing \notin Configs /\ Broken \notin Configs /\ NoConfig \notin Configs
    /\ Missing # Broken
    /\ {"idle", "accepted"} \cap (Configs \cup {NoConfig}) = {}

VARIABLES
    file,      \* config.yaml
    pc,        \* the main goroutine: its next step
    booting,   \* signal.Notify was not called yet
    parsed,    \* Reload's local variable conf
    conf,      \* the pointer config.config
    oauth,     \* the configuration salesforce.oAuthConfig was made from
    sigs,      \* the channel of signals: it holds one
    server,    \* the HTTP server
    database,  \* "open" or "closed"
    handler,   \* [Handlers -> what each request has come to]
    overdue,   \* Shutdown ran into its timeout
    asked,     \* history: a reload was asked for since the last edit
    outcome    \* history: what became of it

process == <<pc, booting, parsed, conf, oauth, sigs, server, database, handler, overdue>>
vars == <<file, pc, booting, parsed, conf, oauth, sigs, server, database,
          handler, overdue, asked, outcome>>

Steps == {"exited", "read", "store", "database", "oauth", "listen", "notify",
          "receive", "shutdown", "close", "return"}

AllIdle == \A h \in Handlers : handler[h] = "idle"

Init ==
    /\ file \in Configs \cup {Missing, Broken}
    /\ pc = "exited"
    /\ booting = TRUE
    /\ parsed = NoConfig
    /\ conf = NoConfig
    /\ oauth = NoConfig
    /\ sigs = "none"
    /\ server = "down"
    /\ database = "closed"
    /\ handler = [h \in Handlers |-> "idle"]
    /\ overdue = FALSE
    /\ asked = FALSE
    /\ outcome = "none"

\* The process ends, and its memory and its handlers with it.
End ==
    /\ pc' = "exited"
    /\ booting' = TRUE
    /\ parsed' = NoConfig
    /\ conf' = NoConfig
    /\ oauth' = NoConfig
    /\ sigs' = "none"
    /\ server' = "down"
    /\ database' = "closed"
    /\ handler' = [h \in Handlers |-> "idle"]
    /\ overdue' = FALSE
    /\ UNCHANGED <<file, asked, outcome>>

-----------------------------------------------------------------------------
(* config.Reload, called by Init and by Reload *)

Start ==
    /\ pc = "exited"
    /\ pc' = "read"
    /\ UNCHANGED <<file, booting, parsed, conf, oauth, sigs, server, database,
                   handler, overdue, asked, outcome>>

ReadConfig ==
    /\ pc = "read"
    /\ file \in Configs
    /\ parsed' = file
    /\ pc' = "store"
    /\ UNCHANGED <<file, booting, conf, oauth, sigs, server, database,
                   handler, overdue, asked, outcome>>

\* os.ReadFile fails, and the defaults are written: because there is no file, as
\* the comment in config.go has it, or for another reason (too many open files,
\* an I/O error), over a file that is there.
CreateDefault ==
    /\ pc = "read"
    /\ file' = Default
    /\ parsed' = Default
    /\ pc' = "store"
    /\ UNCHANGED <<booting, conf, oauth, sigs, server, database, handler,
                   overdue, asked, outcome>>

\* The file does not parse, or it can neither be read nor written.  A service
\* that starts exits with 1, one that reloads keeps what it has.
ConfigFails ==
    /\ pc = "read"
    /\ IF booting
       THEN End
       ELSE /\ pc' = "receive"
            /\ outcome' = "error"
            /\ UNCHANGED <<file, booting, parsed, conf, oauth, sigs, server,
                           database, handler, overdue, asked>>

\* Mutant: Reload returns without a call of RefreshOAuthConfig.
StoreOnly ==
    /\ pc = "store"
    /\ conf' = parsed
    /\ pc' = IF booting THEN "database" ELSE "receive"
    /\ UNCHANGED <<file, booting, parsed, oauth, sigs, server, database,
                   handler, overdue, asked, outcome>>

StoreConfig ==
    /\ pc = "store"
    /\ conf' = parsed
    /\ pc' = IF booting THEN "database" ELSE "oauth"
    /\ UNCHANGED <<file, booting, parsed, oauth, sigs, server, database,
                   handler, overdue, asked, outcome>>

\* Mutant: Init does not call RefreshOAuthConfig, only Reload does.
OpenDatabaseOnly ==
    /\ pc = "database"
    /\ database' = "open"
    /\ pc' = "listen"
    /\ UNCHANGED <<file, booting, parsed, conf, oauth, sigs, server, handler,
                   overdue, asked, outcome>>

\* db.Init and migrations.Run.
OpenDatabase ==
    /\ pc = "database"
    /\ database' = "open"
    /\ pc' = "oauth"
    /\ UNCHANGED <<file, booting, parsed, conf, oauth, sigs, server, handler,
                   overdue, asked, outcome>>

InitFails ==
    /\ pc = "database"
    /\ End

RefreshOAuthConfig ==
    /\ pc = "oauth"
    /\ oauth' = conf
    /\ pc' = IF booting THEN "listen" ELSE "receive"
    /\ outcome' = IF booting THEN outcome ELSE "ok"
    /\ UNCHANGED <<file, booting, parsed, conf, sigs, server, database,
                   handler, overdue, asked>>

-----------------------------------------------------------------------------
(* main *)

StartHTTPServer ==
    /\ pc = "listen"
    /\ server' = "listening"
    /\ pc' = "notify"
    /\ UNCHANGED <<file, booting, parsed, conf, oauth, sigs, database, handler,
                   overdue, asked, outcome>>

Notify ==
    /\ pc = "notify"
    /\ booting' = FALSE
    /\ pc' = "receive"
    /\ UNCHANGED <<file, parsed, conf, oauth, sigs, server, database, handler,
                   overdue, asked, outcome>>

ReceiveHangup ==
    /\ pc = "receive"
    /\ sigs = "HUP"
    /\ sigs' = "none"
    /\ pc' = "read"
    /\ UNCHANGED <<file, booting, parsed, conf, oauth, server, database,
                   handler, overdue, asked, outcome>>

\* Stop: Shutdown closes the listener and waits for the handlers.
ReceiveTerminate ==
    /\ pc = "receive"
    /\ sigs = "TERM"
    /\ sigs' = "none"
    /\ server' = "closing"
    /\ pc' = "shutdown"
    /\ UNCHANGED <<file, booting, parsed, conf, oauth, database, handler,
                   overdue, asked, outcome>>

Drained ==
    /\ pc = "shutdown"
    /\ AllIdle
    /\ pc' = "close"
    /\ UNCHANGED <<file, booting, parsed, conf, oauth, sigs, server, database,
                   handler, overdue, asked, outcome>>

\* Mutant: Shutdown gets a context without a timeout.
NeverOverdue == pc = "shutdown" /\ AllIdle /\ UNCHANGED vars

\* After 15 seconds the handlers are left alone.
DrainTimeout ==
    /\ pc = "shutdown"
    /\ ~AllIdle
    /\ overdue' = TRUE
    /\ pc' = "close"
    /\ UNCHANGED <<file, booting, parsed, conf, oauth, sigs, server, database,
                   handler, asked, outcome>>

CloseDatabase ==
    /\ pc = "close"
    /\ database' = "closed"
    /\ pc' = "return"
    /\ UNCHANGED <<file, booting, parsed, conf, oauth, sigs, server, handler,
                   overdue, asked, outcome>>

Return ==
    /\ pc = "return"
    /\ End

Main ==
    \/ ReadConfig \/ CreateDefault \/ ConfigFails \/ StoreConfig
    \/ OpenDatabase \/ InitFails \/ RefreshOAuthConfig
    \/ StartHTTPServer \/ Notify \/ ReceiveHangup \/ ReceiveTerminate
    \/ Drained \/ DrainTimeout \/ CloseDatabase \/ Return

-----------------------------------------------------------------------------
(* The goroutines of the HTTP server *)

\* ListenAndServe returns an error, and the process exits with 1.
ServerFails ==
    /\ server = "listening"
    /\ End

\* Mutant: requests are still accepted while the server shuts down.
AcceptWhileClosing(h) ==
    /\ server \in {"listening", "closing"}
    /\ handler[h] = "idle"
    /\ handler' = [handler EXCEPT ![h] = "accepted"]
    /\ UNCHANGED <<file, pc, booting, parsed, conf, oauth, sigs, server,
                   database, overdue, asked, outcome>>

Accept(h) ==
    /\ server = "listening"
    /\ handler[h] = "idle"
    /\ handler' = [handler EXCEPT ![h] = "accepted"]
    /\ UNCHANGED <<file, pc, booting, parsed, conf, oauth, sigs, server,
                   database, overdue, asked, outcome>>

\* tokenGetter: the OAuth configuration as it is at the moment.
LoadOAuthConfig(h) ==
    /\ handler[h] = "accepted"
    /\ handler' = [handler EXCEPT ![h] = oauth]
    /\ UNCHANGED <<file, pc, booting, parsed, conf, oauth, sigs, server,
                   database, overdue, asked, outcome>>

Respond(h) ==
    /\ handler[h] # "idle"
    /\ handler' = [handler EXCEPT ![h] = "idle"]
    /\ UNCHANGED <<file, pc, booting, parsed, conf, oauth, sigs, server,
                   database, overdue, asked, outcome>>

-----------------------------------------------------------------------------
(* The administrator *)

Edit(content) ==
    /\ file' = content
    /\ asked' = FALSE
    /\ UNCHANGED <<process, outcome>>

\* Mutant: the channel has no buffer, so a signal is lost when main is busy.
DeliverUnbuffered(sig) == IF sigs = "none" /\ pc = "receive" THEN sig ELSE sigs

\* A signal that finds the channel full is dropped.
Deliver(sig) == IF sigs = "none" THEN sig ELSE sigs

\* kill -HUP.  Before signal.Notify it has its default effect: it kills.
Hangup ==
    /\ pc # "exited"
    /\ IF booting
       THEN End
       ELSE /\ sigs' = Deliver("HUP")
            /\ asked' = TRUE
            /\ outcome' = "none"
            /\ UNCHANGED <<file, pc, booting, parsed, conf, oauth, server,
                           database, handler, overdue>>

\* kill -TERM, or -INT.
Terminate ==
    /\ pc # "exited"
    /\ IF booting
       THEN End
       ELSE /\ sigs' = Deliver("TERM")
            /\ UNCHANGED <<file, pc, booting, parsed, conf, oauth, server,
                           database, handler, overdue, asked, outcome>>

Next ==
    \/ Start
    \/ Main
    \/ ServerFails
    \/ \E h \in Handlers : Accept(h) \/ LoadOAuthConfig(h) \/ Respond(h)
    \/ \E content \in Configs \cup {Missing, Broken} : Edit(content)
    \/ Hangup
    \/ Terminate

\* The main goroutine of a running process is scheduled, and the timeout of
\* Shutdown passes.  Nothing is assumed of handlers, signals and edits.
Fairness == WF_vars(Main)

Spec == Init /\ [][Next]_vars
FairSpec == Spec /\ Fairness

-----------------------------------------------------------------------------
(* Properties *)

\* The type invariant.  A handler never holds NoConfig: the pointer it loads
\* without a check was stored to before the server came up.
TypeOK ==
    /\ file \in Configs \cup {Missing, Broken}
    /\ pc \in Steps
    /\ booting \in BOOLEAN
    /\ parsed \in Configs \cup {NoConfig}
    /\ conf \in Configs \cup {NoConfig}
    /\ oauth \in Configs \cup {NoConfig}
    /\ sigs \in {"none", "HUP", "TERM"}
    /\ server \in {"down", "listening", "closing"}
    /\ database \in {"open", "closed"}
    /\ handler \in [Handlers -> {"idle", "accepted"} \cup Configs]
    /\ overdue \in BOOLEAN
    /\ asked \in BOOLEAN
    /\ outcome \in {"none", "ok", "error"}

\* Whenever main waits for a signal, handlers log in with the consumer of the
\* configuration in force: a reload that fails half way through, or a restart,
\* leaves no mixture of an old and a new one behind.
OAuthFollowsConfig == pc = "receive" => conf # NoConfig /\ oauth = conf

\* The database is closed under a request only if the request outlived the
\* fifteen seconds of Shutdown.
DrainedBeforeClose == server # "down" /\ database = "closed" => AllIdle \/ overdue

\* What makes the three inductive.
ServiceInv ==
    /\ OAuthFollowsConfig
    /\ DrainedBeforeClose
    /\ pc = "store" => parsed # NoConfig
    /\ pc \in {"database", "oauth", "listen", "notify"} => conf # NoConfig
    /\ pc \in {"oauth", "listen", "notify"} => database = "open"
    /\ pc \in {"listen", "notify"} => oauth = conf
    /\ ~booting /\ pc # "oauth" => oauth = conf
    /\ ~booting => pc \notin {"exited", "database", "listen", "notify"}
    /\ booting => pc \in {"exited", "read", "store", "database", "oauth", "listen", "notify"}
    /\ booting => (server # "down" <=> pc = "notify")
    /\ ~booting => server # "down" /\ oauth # NoConfig /\ conf # NoConfig
    /\ ~booting /\ pc # "return" => database = "open"
    /\ server = "closing" <=> pc \in {"shutdown", "close", "return"}
    /\ server = "down" => AllIdle
    /\ pc \in {"close", "return"} => AllIdle \/ overdue

\* The last edit counts although signals coalesce: once a reload is asked for
\* after it, the service comes to run with what the file says, or the reload
\* fails, or the service stops, or the file is edited again.
ReloadApplies ==
    asked ~> \/ conf = file /\ oauth = file
             \/ outcome = "error"
             \/ ~asked
             \/ pc \in {"shutdown", "close", "return", "exited"}

\* A TERM that found its place in the channel ends the process, whatever
\* reload is under way and however long the handlers take.
TerminateEnds == sigs = "TERM" ~> pc = "exited"
=============================================================================
