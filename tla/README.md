# A TLA+ model of crm-middleware

The service of this repository stands between PBXware telephone systems and a
CRM (Salesforce). This directory holds TLA+ modules of its parts, the TLC
configurations that model-check them on small instances, and proofs, checked by
TLAPS, of the properties that matter most for every instance. `PROJECT.json`
maps every definition to the lines of Go it stands for and lists the runs, the
hazards, the findings and the theorems.

    tlc -workers 2 -config MCClients.cfg MCClients     # one run
    tlapm ClientsProofs.tla                            # one module's proofs

## 1. Inventory

| Part | State it keeps | Operations | What makes it correct |
|---|---|---|---|
| **Tables** (`repo/`, `db/db.go`) | `clients`, `users`, `tokens`, `data_schemas` in SQLite over one pooled connection | the statements and transactions of package `repo` | a transaction is all or nothing; keys are unique |
| **User sessions** (`oauth/`, `api/callback.go`, `api/handlers.go` 220-310) | rows of `tokens` and `users`, the handlers' local copies, the provider's refresh tokens | login, callback, status, any CRM request (`Token`), logout | the two tables agree; no refresh token that works is thrown away; a grant is answered |
| **Client life cycle** (`api/handlers.go` 17-133, `httputil/token.go`, `cmd/cmd_client.go`) | rows of `clients`, issued JWTs, printed secrets | token, config, versions, delete integration; `client create`, `client reset` | a reset secret obtains nothing; the new one is printed; app and status agree; routing clients are made by the administrator only |
| **Data fields** (`api/handlers.go` 73-179, `repo/data_schemas.go`) | rows of `data_schemas` | `GET config/objects`, `POST config/custom-fields` | a call replaces the custom fields at once; base fields are whole or absent |
| **Migrations** (`db/migrations`, `db/settings`) | the schema, version, offset, instance-id and JWT secret | `Run`, at every start | the recorded version is never ahead of the schema; passwords stay readable |
| **Service process** (`main.go`, `service/`, `config/config.go`) | the configuration, the OAuth configuration, the signal channel, the HTTP server, the open database | start, SIGHUP (reload), SIGTERM (drain and stop) | handlers use the configuration in force; the last edit is applied; a stop drains first, and ends |
| **Schema models and tool** (`model/dataschema`, `tools/schema`) | YAML models, JSON schemas | `generate`, validation at start | the documented models are accepted, and others only for `record_url`; what a clean run wrote loads |
| **Salesforce objects** (`handler_object.go`, `helpers.go`) | the schema a call loaded | get, create, update; conversions | what is read is the CRM's record; what is written is read back |
| **Salesforce search and tasks** (`handler_search.go`, `handler_task.go`, `api/types.go`) | the schemas a call loaded | search, associations, create-task | the CRM is asked about every type requested; every accepted search is answered |
| **Custom source routing** (`custom_source_routing.go`) | the record found | a lookup in two CRM requests | only routing clients; the record answered is the one that matched |
| Custom app template, CLI parser, systemd, logger, HTTP helpers, build constants | files on the host | | |

How they interact: every HTTP request is a goroutine of its own; all share the
tables, and read the OAuth configuration through one atomic pointer. A handler
makes several statements with calls to the OAuth provider between them, and no
transaction spans two of them. The command line is another process over the same
database file. Signals reach the main goroutine through a channel that holds one.
systemd restarts a process that fails (`Restart=on-failure`).

What is hard: the order of statements of concurrent handlers; rows deleted under
a handler that waits for the provider; refresh tokens that the provider replaces
on use; processes that end between two statements, with or without the 15 seconds
of `Shutdown`; reloads with handlers running; signals that coalesce. The hazards
are listed in `PROJECT.json`, each at its line.

## 2. Modules

| Module | Models | Runs | Proofs |
|---|---|---|---|
| `Repo` | the four tables and one operator per writing statement or transaction | through the next three | `RepoProofs` (lemmas) |
| `Sessions` | login, callback, `Token` of the three configurations, logout, with the provider, restarts and database faults | `MCSessionsCode`, `MCSessionsLive`, `MCSessionsRelogin`, `MCSessionsLogout` | `SessionsProofs` |
| `Clients`, `Lifecycle` | token, config, versions, delete, create, reset; and the abstract life cycle that they implement | `MCClients`, `MCClientsDeleted` | `ClientsProofs` |
| `DataFields`, `FieldStore` | the custom-fields handlers, and the store with atomic calls that they implement | `MCRecords` | `DataFieldsProofs` |
| `SObject`, `Search` | the conversions of records, the search parameters, the queries and their results, as operators; and what the CRM makes of them | through `Records` | with `Records` |
| `Records` | the calls that reach the CRM, beside the handlers of `DataFields`, users of the CRM and restarts | `MCRecords`, `MCRecordsSearch` | `RecordsProofs` |
| `Migrations` | `Run` with a crash between any two statements and settings that read as missing | `MCMigrations`, `MCMigrationsSecrets` | `MigrationsProofs` |
| `Service` | start, signal loop, reload, drain, stop | `MCService` | `ServiceProofs` |
| `SchemaTool` | parseYAML, the validator, `generate`, `MustLoad` | `MCSchemaTool` | `SchemaToolProofs` |

`Sessions`, `Clients` and `DataFields` extend `Repo`: each models the handlers
around the tables it is about, and each has `DeleteIntegration`, the transaction
that touches all four. `Records` extends `DataFields` and `Search`, which extends
`SObject`: the schemas a call loads are those the custom-fields handlers write,
and both sets of handlers run at once.

**Correspondence.** An action is one stretch of a handler: from one database
statement or provider reply to the next. A handler's local variables are a record
(`handler[h]` in `Sessions` and `DataFields`) whose `pc` names what it is about to
do; the early returns of the Go code are actions or disjuncts of their own that
end in a response. In `Clients` a token request is two actions (the secret is
compared; the JWT is signed, or cannot be), `client reset` three (the UPDATE, the
SELECT, the print: a process of its own, which others overtake between any two),
`client create` two, and every other endpoint is a single statement. In `Records` each schema
loaded, the token, and each request to the CRM with its reply is a step of a call
(`call[k]`); routing makes two requests. `SObject` and `Search` hold no state. In
`Migrations` each `exec`, each saved setting and each crash is a step. In `Service` the main
goroutine has a `pc`; `End` is any exit of the process. Variables marked
*history* in a module record what the properties need to speak of the past (for
instance `torn`: which race, fault or crash may have left only one of two rows)
and enable nothing.

Abstractions: a name, password, secret, token, configuration or field is a number
or a model value; SQL is what it does to the rows; logs and messages are left
out; attributes of a token are left out; a token's expiry is the flag `fresh`. A
client is configured with one mount (`AppOf`), though nothing in the code stops a
system from calling two. A query is the record of what it asks, not its text, and a
search matches whole values; the order of results and `LastModifiedDate` are left
out. A lookup `f` is written as `fId` and asked for as `f.Id` and `f.Name`; one
value, `Lookup(f)`, stands for the names. What a user of the CRM enters fits its
field.

External, modelled from how the code uses it: the OAuth provider (grants,
refuses, refreshes with or without rotation, loses a reply), the CRM (accepts a
query or a write, or refuses it for a field it does not have or a value that does
not fit; may lose the reply of a write it has carried out; its users edit and delete
records), and the administrator's editor.

## 3. Runs

Passing:

- **MCSessionsCode** (591,406 states): the accounts of two users on the
  authorization-code mount, three handlers, two grants, rotation and faults on.
  `users` and `tokens` disagree only while a login is between its two writes or
  after a cause in `torn`; a stored refresh token that the provider no longer
  accepts has a successor about to be stored, unless the successor was lost
  (`lost`); no refresh token is stored, held or presented for two accounts; a
  logout leaves a token only where its user's row is missing or the transaction
  failed. Three handlers are a login, a refresh and a logout at once, two grants a
  login of each user, or a login and a rotation of one.
- **MCSessionsLive** (311,001 states): a password mount, where the service logs
  in again by itself with the stored password, and a client-credentials mount,
  without symmetry, under `LiveSpec` (`FairSpec` with the two clients' names
  fixed): a token received from the provider leads to a response.
- **MCClients** (310,626 states): two clients, one system, two administrators,
  three secrets: enough for two overlapping resets of one client, or one beside a
  second client with the same name tried. The secret printed last may be one that no
  longer counts (reset 1, A reads, reset 2, B reads and prints, A prints);
  `CurrentSecretIsShown` says that the one that counts is printed all the same, by
  the command that drew it, unless that command failed. The refinement `Life!LifeSpec` is checked here: a
  row is seen as a stage, a request or a JWT as the grant it stands for, and the
  steps between them (the JWT signed, the config read, the secret printed) are
  stutters or drop a grant.
- **MCRecords** (299,101 states): one client, two object types, two records of the
  CRM (one there, one that a create makes), one change of the CRM. In flight at once
  are two custom-fields calls, or one and a call to the CRM of any kind: requests
  for get (with and without `fields`), create, update (with a body that is JSON, or
  not), task, six forms of search,
  three of routing; custom fields for one type, which drops the base fields of the
  other, and for both, one of them with the id of a base field. A change of the CRM stands for another call that writes. The
  refinement `Store!StoreSpec` is checked here. The instance has no second call to
  the CRM, since calls share nothing but the CRM's records; the proofs are for any
  number.
- **MCMigrations** (19,912 states): five crashes, two values for random settings.
  Five reach a crash in version 0, between the version and the offset of it, in
  version 1, and after a start that took version 2 for 0: with them the conditions in
  `StoredPasswordsReadable` and `InstalledStays` are needed, and without them the
  properties fail.
- **MCService** (15,120 states): two requests, two configurations, a broken and
  a missing file, any number of edits, signals, reloads and starts.
- **MCSchemaTool** (1,296,145 states): 46,085 directories of two YAML files: every
  combination of six types, six logic types (`record_url`, which
  `data-model.md:73-83` does not list, among them), eight edit types and the three
  visibility flags with ten ways to write a list or an association, and the
  faults of whole models. A file may not be readable, and a write may fail before it
  truncates the old schema, after that, or behind all but the line feed.
  `AcceptsAsDocumented` says that every documented model is accepted and that all
  others but those with `record_url` are refused; `CleanRunLoads`, what the service
  finds of each file. The tool stops when it is done, so deadlock is not
  checked.

Violations, each a place where a document says one thing and the code does
another (quoted in `PROJECT.json` under findings):

- **MCSessionsRelogin**: a second login replaces the token and reports failure,
  because the INSERT meets the row of the first.
- **MCSessionsLogout**: a login cut short between its two writes leaves a token
  without its user's row, and it survives every logout, which answers 200, since
  `users.Delete` rolls back on "user not found". A login or refresh overtaken by a
  logout leaves the same.
- **MCClientsDeleted**: a token request that comes after the client was deleted is
  found correct, since its status is not looked at.
- **MCMigrationsSecrets**: the process dies between `Set(version)`
  (`migrations.go:69`) and the reset of the offset (`:72`); the next one reads version
  1 and version 0's offset of 4, skips both statements of version 1 and serves without
  instance-id or JWT secret. A longer run does the same through the local variable
  `offset`, which is not reset: a process that resumes version 0 in the middle. To put
  one of the two right leaves the other.
- **MCRecordsSearch**: a search without object types panics, because the default
  types are set after `ReturningFields` was made for those requested.

**Bounds.** `MaxGrants` (numbers the provider hands out), `MaxSecrets` (secrets
drawn), `MaxCrashes`, `MaxChanges` (of the CRM), `MaxInFlight` (handlers and calls
at once), and the sizes of the sets. The counters grow only; when one
reaches its bound the action that draws from it is off and all others go on. The
proofs hold for every value of these constants.

**Symmetry** is used for handlers, users, clients, names, systems and administrators
where nothing orders them, and in no run with a liveness property.

**Fairness.** `Sessions`: weak fairness of a handler's database steps that the database
carries out (`Executes`), since a goroutine that is ready runs and a statement
returns, and no progress may depend on a fault; none of the provider's steps, since the OAuth calls use `context.Background()` and a client without a
timeout. `Migrations`: of the start of a process that failed
(`Restart=on-failure`) and of its next statement; the start is strongly fair for the
settings as they are, since a read may fail but not for ever. `Service`: of the main
goroutine, whose only wait that depends on others, `Shutdown`, has a timeout; none
of the handlers, signals or edits.

Every property of a passing run has a mutant in `PROJECT.json`: a plausible bug
of a mapped definition that makes TLC find that property violated.

## 4. Proofs

Every proof module holds, for all values of the constants: `TypeCorrect`
(`Spec => []TypeOK`), the inductive invariant of its module, and the properties
that follow.

- **Sessions**: `SessionConsistent` is not inductive. `SessionInv` adds that the
  row a handler has read or written is still there unless the handler is marked
  `overtaken` by a deletion (`RowHeld`), and that two tables that disagree are
  explained by a handler that nothing has overtaken and that will insert the
  user (`Explained`). A late write of a token is then either to a row that is
  there, or is a recorded cause. `RefreshTokenKept` follows from `KeptInv` (in
  SessionsProofs, where its names stand): the provider has issued every refresh
  token there is; all who store or hold one do so for one account (`Separate`, from
  which `TokensAreSeparate` follows); where tokens rotate, a new one is nowhere but in
  the memory of the handler about to store it (`Unshared`); a new one is accepted
  until it is stored, and a stored one that is spent has a handler that renews it, or
  was lost (`Renewed`). `LogoutEndsSession` is about the step of a logout: no other
  step begins and ends one (`OnlyLogout`), and where the user's row is missing
  `SessionConsistent` says that the token's is too, but for the causes it names.
- **Clients**: `ClientsInv` adds `RowsHeld`, that a grant and a command under way
  are of a client that has a row, which holds since rows are marked, never removed;
  `SecretsDrawn`, that no secret is ahead of those drawn; and `ReadsOwnOrLater`, that
  a command reads back its own secret or a later one of its client, and none is ahead
  of the row. So a command that drew the secret that still counts prints just that
  one (`DrawnSecretIsPrinted`). With it every step is a step of `Lifecycle` or a stutter (`SecretsAuthoriseChanges`):
  the secret drawn next is new to all rows and grants (`NextIsFresh`), and the use of
  a JWT is the use of a grant. The action properties `RoutingOnlyByCreation` and
  `ConfigReopensAtEndOnly` follow from the types and `AppMatchesStatus`.
- **DataFields**: `FieldsInv` says what a handler has built so far; with it every
  step of `DataFields` is a step of `FieldStore` or a stutter (`CallsAreAtomic`).
  `RecordsCallsAreAtomic` says the same of `Records`, where the calls that reach the
  CRM run beside these handlers.
- **Migrations**: `MigrationInv` ties the local variables to the stored settings
  and the tables that are there, for any number of crashes and settings read as 0.
  An instance-id that a password was encrypted with can be replaced only by a process
  that took the latest version for 0, which `misread` records; the same holds of the version, the tables and all secrets
  once the latest version is there (`InstalledStays`).
- **Records**: `RecordsInv` says that what the CRM holds fits its fields
  (`RecordsFit`), that a call holds the base fields of a type whole or not at all
  (`SchemasWhole`, from `FieldsInv`: every step of `Records` is a step of
  `DataFields` or leaves its variables), and that a route holds a record that
  matched and matches until it is marked `moved` (`RouteFound`). From it follow
  `RoutedRecordMatches`, `UneditedSaveKeepsRecord`, and, as statements about the
  step in which the CRM answers, `GetsTellTheRecord`, `WritesReadBack` and
  `FoundRecordsAreNamed`. It also says that a search under way has passed the checks
  of its parameters, from which the case analysis of `SearchCoversTypes` follows. Their lemmas are about the operators: `apiSObject` sends
  each field of a body under a name of its own, `formatSObject` undoes it.
- **Service**: `ServiceInv` ties the main goroutine's next step to the pointers,
  the server and the database that are up at it. From it `TypeOK` says that no
  handler meets the OAuth configuration before it is stored.

- **SchemaTool**: `ToolInv` says of each file (`FileInv`) what its result and its
  schema are: written if it was accepted, as it was if it was rejected, and after an
  input/output error one of the two or destroyed. The rest is about the operators, for any YAML
  model: `FieldAccepted` compares the inferred types and visibility of one field with
  the validator's table, for a list, an association and neither; `LogicKept` says
  which fields count for the rule of one per logic type, and `ModelAccepted` puts the
  two together. `DefaultFacts` (the last item of the given id, or the first, is one
  of the items) rests on the natural numbers being well-founded.

The assumptions are the named ASSUMEs of the modules: the sets contain their
special members (`EmptyPassword`, `Default`), bounds are natural numbers, and
`NoRow`, `NoConfig`, `Nil` and the like are none of the values they stand apart from,
and a YAML file has the fields of the Go structs it is read into.
TLC evaluates them in every passing run.

The inductive invariants `ClientsInv`, `MigrationInv`, `ServiceInv` and `KeptInv` are
proved and in no run's cfg, since each run checks what is concluded from them.

Model-checked only: the liveness properties (`GrantIsAnswered`, `ComesUpAgain`,
`ReloadApplies`, `TerminateEnds`), since the prover reasons neither about fairness
nor about ENABLED. Two theorems prove the part of them that is safety:
`RequestsAdvance` (a request never goes back, so it has at most five steps to take)
and `RunsAdvance` (each step of the migrations brings `Progress` nearer to its bound,
or ends the process); that the steps are taken, and that a process is started again,
is left to TLC.

## 5. Differences seen while modelling, without a run of their own

- The status of a user whose expired token cannot be refreshed is
  `authorized=false` (`handlers.go:279`); `API-docs.md:190-191` counts an expired
  token as a login.
- A login keeps the password of the first one (`handlers.go:257` inserts only), so
  after a change of password the automatic login uses the old one.
- A handler in flight during DELETE integration stores a token or field rows of
  the deleted client; `pbxware-wire-reference.md:358` says everything is deleted.
- `versions` of another mount moves an ACTIVE client to another app
  (`handlers.go:63`); `custom/README.md:128`.
- A DELETED client that obtained a JWT becomes ACTIVE again through `versions`
  (`handlers.go:63`).
- The logic type `record_url` is accepted (`dataschema.go:20-35`);
  `data-model.md:73-83` and `:177` do not list it.
- The schema tool's `os.WriteFile` truncates the old schema (`main.go:57`): a write
  that fails leaves a file over which the service panics, though the tool says FAIL.
- `config` answers a client again after reset or deletion (`handlers.go:51`);
  `ConfigReopensAtEndOnly` says that it answers in no other case.
- `client reset` announces "invalidate active sessions" (`cmd.go:27`); JWTs stay
  valid for their hour.
- A custom-fields call for one object type drops the base fields of all others
  (`data_schemas.go:54`); `pbxware-wire-reference.md:345`.
- A refresh writes the row unconditionally (`authorization_code.go:40`): begun
  before a new login and ended after it, it replaces the login's token by one of the
  earlier session, where `API-docs.md:35` has the login's token authorize the
  requests that follow.
- A get leaves out a lookup that is empty (`helpers.go:128`), where
  `API-docs.md:552` shows `"Parent": null` and `pbxware-wire-reference.md:262` speaks
  of `null`; with `fields` it is `null`. `GetsTellTheRecord` states both.
- An empty date is read as 0, so a form saved as it was read turns it into 1970-01-01
  (`UneditedSaveKeepsRecord` allows this one change).
- A create, update or task whose reply is lost, or comes after 15 seconds, has been
  carried out although PBXware is told 500; `pbxware-wire-reference.md:318` says of create-task that
  "any other status means failure".
- A custom field the CRM does not have makes every get and search of its object type
  fail, since each asks for all fields of the schema.
- After the base fields of a type were dropped (above) a search returns its records
  with an empty id and the title "Unknown"; `FoundRecordsAreNamed` says that nothing
  else does.
- An answer of `associations` has the record's `Id` and its name fields, not the two
  fields named (`handler_search.go:214`), which are only asked for.
- `field` without `search_by=field` searches the first object type only
  (`handler_search.go:131`); `SearchCoversTypes` names this case.
- The first request of a route answers 404 for any failure, a missing token and an
  unreachable CRM included (`custom_source_routing.go:136`).
- A latest version that reads as 0, met with an offset left by a crash, lowers the
  version, and the next start but one draws a new instance-id under the stored
  passwords (`settings.go:21`, `migrations.go:69`).
- A crash between CREATE TABLE and the saved offset makes every later start fail
  (`migrations.go:60`); `ComesUpAgain` names this case.
- Any failure to read `config.yaml` writes the defaults over it (`config.go:66`);
  the comment at `config.go:43` speaks of a missing file.
- A SIGTERM sent while a SIGHUP waits in the channel is dropped (`main.go:44`); a
  SIGHUP before `signal.Notify` kills the process.
- In hand-written JSON an omitted `label` or item `value` is an error
  (`validator.go:61`, `:181`), while `data-model.md:49` and `:152` give it a
  default; a list's default need not be one of its items (`validator.go:161`),
  while `data-model.md:151` says it must.

## 6. Plan

Written in this order: Repo, Sessions, Clients, DataFields with FieldStore,
Migrations, their proofs, Service with its proofs, SchemaTool, SObject, Search,
Records with its proofs, the proofs of SchemaTool. Next:

1. `DataFields` composed with the validator: duplicate field ids.
2. Sessions of a client that two mounts serve.

## 7. Not modelled

The custom app's stub handlers, beyond its name in `Clients`; log files, build
constants, the command-line parser, and the files and commands of `systemd install`,
which are output without a property of their own; the setup page of the custom
source; `generate`'s failures before its first file (the directories), which end the
tool with nothing written; the tasks the CRM keeps; the attributes of tokens; timestamps, other than
as expiry and as values of fields.
