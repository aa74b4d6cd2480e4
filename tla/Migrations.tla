----------------------------- MODULE Migrations -----------------------------
(***************************************************************************)
(* The schema migrations a service process applies before it serves, and   *)
(* the two rows of the settings table that say how far they got.  The      *)
(* process may die between any two statements; systemd starts it again.    *)
(* A statement and the settings row that records it are two separate       *)
(* auto-committed statements.  A settings row that cannot be read is read   *)
(* as 0.                                                                   *)
(*                                                                         *)
(* The random values of migration 1 are drawn when the process starts      *)
(* (package variables), so every process has values of its own.            *)
(***************************************************************************)
EXTENDS Integers, Sequences

CONSTANTS
    Seeds,       \* the random strings a process may draw
    NoValue,     \* a settings row that is not there, read as ""
    MaxCrashes   \* bound on crashes and failed statements

ASSUME MigrationsAssumption ==
    /\ NoValue \notin Seeds
    /\ MaxCrashes \in Nat

latestVersion == 2

enabledMigrations ==
    [ver \in 0..latestVersion - 1 |->
        IF ver = 0
        THEN <<"clients", "data_schemas", "users", "tokens">>
        ELSE <<"instance-id", "jwt-secret">>]

Tables == {"clients", "data_schemas", "users", "tokens"}
Secrets == {"instance-id", "jwt-secret"}

VARIABLES
    version, offset,   \* the settings MIG:VERSION and MIG:VERSION-OFFSET
    tables,            \* the tables that exist
    secrets,           \* [Secrets -> Seeds or NoValue], the settings SYS:...
    ciphers,           \* the keys stored passwords are encrypted with
    pc, ver, off,      \* where the process is in Run
    resume,            \* its local variable "offset"
    seed,              \* the random values it drew
    misread,           \* history: the stored versions that a process took for 0
    crashes

stored == <<version, offset, tables, secrets, ciphers>>
process == <<ver, off, resume, seed>>
vars == <<stored, pc, process, misread, crashes>>

Init ==
    /\ version = 0 /\ offset = 0
    /\ tables = {}
    /\ secrets = [s \in Secrets |-> NoValue]
    /\ ciphers = {}
    /\ pc = "down" /\ ver = 0 /\ off = 0 /\ resume = 0
    /\ seed \in [Secrets -> Seeds]
    /\ misread = {}
    /\ crashes = 0

-----------------------------------------------------------------------------

\* Where the two loops go on to at statement o of version v.
LoopStart(v, o) ==
    IF v = latestVersion THEN "running"
    ELSE IF o < Len(enabledMigrations[v]) THEN "exec" ELSE "saveVersion"

\* Mutant: a version that cannot be read is taken for the latest.
BeginLatest(v, o) ==
    /\ pc = "down"
    /\ ver' = IF v = version THEN v ELSE latestVersion
    /\ off' = o
    /\ resume' = o
    /\ seed' \in [Secrets -> Seeds]
    /\ pc' = LoopStart(ver', o)
    /\ misread' = misread \cup ({version} \ {v})
    /\ UNCHANGED <<stored, crashes>>

\* Mutant: the setting is taken for the last version applied, not the next.
BeginAtApplied(v, o) ==
    /\ pc = "down"
    /\ ver' = IF v = 0 THEN 0 ELSE v - 1
    /\ off' = o
    /\ resume' = o
    /\ seed' \in [Secrets -> Seeds]
    /\ pc' = LoopStart(ver', o)
    /\ misread' = misread \cup ({version} \ {v})
    /\ UNCHANGED <<stored, crashes>>

\* A new process that has read both settings; neither is read again.
Begin(v, o) ==
    /\ pc = "down"
    /\ ver' = v
    /\ off' = o
    /\ resume' = o
    /\ seed' \in [Secrets -> Seeds]
    /\ pc' = LoopStart(v, o)
    /\ misread' = misread \cup ({version} \ {v})
    /\ UNCHANGED <<stored, crashes>>

\* Each of the two reads may fail silently.
Start == \E v \in {version, 0}, o \in {offset, 0} : Begin(v, o)

Statement == enabledMigrations[ver][off + 1]

\* Mutant: an error of a statement is ignored.
ExecIgnoresError ==
    /\ pc = "exec"
    /\ off < Len(enabledMigrations[ver])
    /\ pc' = "saveOffset"
    /\ tables' \in {tables, tables \cup ({Statement} \cap Tables)}
    /\ UNCHANGED <<version, offset, secrets, ciphers, process, misread, crashes>>

\* Mutant: a setting is inserted, and fails when it is there already.
ExecInsertsOnce ==
    /\ pc = "exec"
    /\ off < Len(enabledMigrations[ver])
    /\ \/ /\ Statement \in Tables \ tables
          /\ tables' = tables \cup {Statement}
          /\ pc' = "saveOffset"
          /\ UNCHANGED secrets
       \/ /\ Statement \in Secrets
          /\ secrets[Statement] = NoValue
          /\ secrets' = [secrets EXCEPT ![Statement] = seed[Statement]]
          /\ pc' = "saveOffset"
          /\ UNCHANGED tables
       \/ /\ \/ Statement \in tables
             \/ Statement \in Secrets /\ secrets[Statement] # NoValue
          /\ pc' = "down"
          /\ UNCHANGED <<tables, secrets>>
    /\ UNCHANGED <<version, offset, ciphers, process, misread, crashes>>

\* CREATE TABLE without IF NOT EXISTS fails on a table that is there, and the
\* process exits; a setting is inserted or replaced.
Exec ==
    /\ pc = "exec"
    /\ off < Len(enabledMigrations[ver])
    /\ \/ /\ Statement \in Tables
          /\ Statement \notin tables
          /\ tables' = tables \cup {Statement}
          /\ pc' = "saveOffset"
          /\ UNCHANGED secrets
       \/ /\ Statement \in Tables
          /\ Statement \in tables
          /\ pc' = "down"
          /\ UNCHANGED <<tables, secrets>>
       \/ /\ Statement \in Secrets
          /\ secrets' = [secrets EXCEPT ![Statement] = seed[Statement]]
          /\ pc' = "saveOffset"
          /\ UNCHANGED tables
    /\ UNCHANGED <<version, offset, ciphers, process, misread, crashes>>

\* Mutant: the offset is counted twice.
SaveOffsetTwice ==
    /\ pc = "saveOffset"
    /\ off' = off + 1
    /\ offset' = off' + 1
    /\ pc' = LoopStart(ver, off + 1)
    /\ UNCHANGED <<version, tables, secrets, ciphers, ver, resume, seed, misread, crashes>>

SaveOffset ==
    /\ pc = "saveOffset"
    /\ offset' = off + 1
    /\ off' = off + 1
    /\ pc' = LoopStart(ver, off + 1)
    /\ UNCHANGED <<version, tables, secrets, ciphers, ver, resume, seed, misread, crashes>>

\* Mutant: the version just applied is saved, not the next.
SaveVersionApplied ==
    /\ pc = "saveVersion"
    /\ version' = ver
    /\ pc' = "resetOffset"
    /\ UNCHANGED <<offset, tables, secrets, ciphers, process, misread, crashes>>

SaveVersion ==
    /\ pc = "saveVersion"
    /\ version' = ver + 1
    /\ pc' = "resetOffset"
    /\ UNCHANGED <<offset, tables, secrets, ciphers, process, misread, crashes>>

\* The row is reset; the local variable the next version starts from is not.
ResetOffset ==
    /\ pc = "resetOffset"
    /\ offset' = 0
    /\ ver' = ver + 1
    /\ off' = resume
    /\ pc' = LoopStart(ver + 1, resume)
    /\ UNCHANGED <<version, tables, secrets, ciphers, resume, seed, misread, crashes>>

\* The service stores a password: with an instance-id that is missing, AES has
\* no key and the column stays "".
StorePassword ==
    /\ pc = "running"
    /\ ciphers' = ciphers \cup ({secrets["instance-id"]} \ {NoValue})
    /\ UNCHANGED <<version, offset, tables, secrets, pc, process, misread, crashes>>

\* The process dies, or a statement fails and it exits.
Crash ==
    /\ pc # "down"
    /\ crashes < MaxCrashes
    /\ crashes' = crashes + 1
    /\ pc' = "down"
    /\ UNCHANGED <<stored, process, misread>>

Run == Exec \/ SaveOffset \/ SaveVersion \/ ResetOffset

Next == Start \/ Run \/ StorePassword \/ Crash

Spec == Init /\ [][Next]_vars

\* Restart=on-failure in the unit file, a process that runs, and a database that
\* does not refuse to be read for ever.
FairSpec == Spec /\ SF_vars(Begin(version, offset)) /\ WF_vars(Run)

-----------------------------------------------------------------------------
(* Properties *)

\* The type invariant: the saved offset is one a loop over four or two statements
\* can reach, the version at most the latest.
TypeOK ==
    /\ version \in 0..latestVersion
    /\ offset \in 0..4
    /\ tables \in SUBSET Tables
    /\ secrets \in [Secrets -> Seeds \cup {NoValue}]
    /\ ciphers \in SUBSET Seeds
    /\ pc \in {"down", "exec", "saveOffset", "saveVersion", "resetOffset", "running"}
    /\ ver \in 0..latestVersion
    /\ off \in 0..4
    /\ resume \in 0..4
    /\ seed \in [Secrets -> Seeds]
    /\ misread \in SUBSET (0..latestVersion)
    /\ crashes \in 0..MaxCrashes

\* The recorded version is never ahead of the schema: wherever the process died
\* and was started again, and whatever it failed to read, version 1 means that
\* all four tables exist.
SchemaBeforeVersion == version >= 1 => tables = Tables

\* Every password that was stored can still be decrypted: crypt.go's
\* instance-id "never changes" once a process has served, although each process
\* draws another one and writes it with an upsert.  Only a process that cannot
\* read the latest version, and so starts from 0, may get to migration 1 again.
StoredPasswordsReadable ==
    latestVersion \notin misread => ciphers \subseteq {secrets["instance-id"]}

\* What the latest version installed stays, though every start draws new random
\* values and may read either setting as 0: the version falls back, and a table
\* or a secret is written once more, only by a process that took the latest
\* version itself for 0.
InstalledStays ==
    [][version = latestVersion =>
         \/ UNCHANGED <<version, tables, secrets>>
         \/ ver = 0 /\ latestVersion \in misread]_vars

\* What makes the three inductive: the process works on the recorded version, or
\* on version 0 when it could not be read; in version 0 a statement succeeds only
\* at the recorded offset, behind which every table exists; and a password is only
\* ever stored at the latest version, where no process executes a statement any
\* more.
MigrationInv ==
    /\ version = 0 => \A i \in 1..offset : enabledMigrations[0][i] \in tables
    /\ SchemaBeforeVersion
    /\ pc \in {"exec", "saveOffset", "saveVersion"} =>
         /\ ver < latestVersion
         /\ ver = version \/ (ver = 0 /\ version \in misread)
    /\ pc \in {"exec", "saveOffset"} => off < Len(enabledMigrations[ver])
    /\ pc = "exec" /\ ver = 0 /\ version = 0 => off <= offset
    /\ pc = "saveOffset" /\ ver = 0 =>
         version = 0 /\ off = offset /\ enabledMigrations[0][off + 1] \in tables
    /\ pc = "saveVersion" /\ ver = 0 /\ version = 0 => offset = 4
    /\ pc = "resetOffset" => ver + 1 = version
    /\ pc = "running" => version = latestVersion
    /\ ciphers # {} => latestVersion \in misread \cup {version}
    /\ StoredPasswordsReadable

\* The statement to be executed next is a CREATE TABLE that was executed before.
HalfApplied ==
    /\ version = 0
    /\ offset < 4
    /\ enabledMigrations[0][offset + 1] \in tables

\* However often it crashes, a service comes up again, unless a crash fell
\* between a CREATE TABLE and the record of it.
ComesUpAgain == []<>(pc = "running" \/ HalfApplied)

\* crypt.go: "instance-id is 32-byte by design", the key of every password; the
\* JWT secret signs every token.  A process that dies between recording version 1
\* and resetting the offset leaves version 0's offset of 4 with it, and the next
\* one skips version 1, which has two statements, as a whole.  (A process that
\* resumes version 0 in the middle skips them too: it resets the setting and goes
\* on with its local variable.)
SecretsInstalled ==
    pc = "running" => \A s \in Secrets : secrets[s] # NoValue
=============================================================================
