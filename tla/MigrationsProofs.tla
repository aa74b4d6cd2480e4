-------------------------- MODULE MigrationsProofs --------------------------
(***************************************************************************)
(* Machine-checked theorems about Migrations, for any random values and    *)
(* any number of crashes.                                                  *)
(***************************************************************************)
EXTENDS Migrations, TLAPS

\* What the two migrations consist of.
LEMMA EnabledMigrations ==
    /\ enabledMigrations[0] = <<"clients", "data_schemas", "users", "tokens">>
    /\ enabledMigrations[1] = <<"instance-id", "jwt-secret">>
    /\ Len(enabledMigrations[0]) = 4
    /\ Len(enabledMigrations[1]) = 2
    /\ \A i \in 1..4 : enabledMigrations[0][i] \in Tables
    /\ \A i \in 1..2 : enabledMigrations[1][i] \in Secrets
    /\ \A t \in Tables : \E i \in 1..4 : enabledMigrations[0][i] = t
<1>1. enabledMigrations[0] = <<"clients", "data_schemas", "users", "tokens">>
  BY DEF enabledMigrations, latestVersion
<1>2. enabledMigrations[1] = <<"instance-id", "jwt-secret">>
  BY DEF enabledMigrations, latestVersion
<1>3. /\ Len(enabledMigrations[0]) = 4
      /\ enabledMigrations[0][1] = "clients"
      /\ enabledMigrations[0][2] = "data_schemas"
      /\ enabledMigrations[0][3] = "users"
      /\ enabledMigrations[0][4] = "tokens"
  BY <1>1
<1>4. /\ Len(enabledMigrations[1]) = 2
      /\ enabledMigrations[1][1] = "instance-id"
      /\ enabledMigrations[1][2] = "jwt-secret"
  BY <1>2
<1>5. \A i \in 1..4 : enabledMigrations[0][i] \in Tables
  <2>1. \A i \in 1..4 : i = 1 \/ i = 2 \/ i = 3 \/ i = 4
    OBVIOUS
  <2> QED BY <1>3, <2>1 DEF Tables
<1>6. \A i \in 1..2 : enabledMigrations[1][i] \in Secrets
  <2>1. \A i \in 1..2 : i = 1 \/ i = 2
    OBVIOUS
  <2> QED BY <1>4, <2>1 DEF Secrets
<1>7. \A t \in Tables : \E i \in 1..4 : enabledMigrations[0][i] = t
  <2>1. 1 \in 1..4 /\ 2 \in 1..4 /\ 3 \in 1..4 /\ 4 \in 1..4
    OBVIOUS
  <2> QED BY <1>3, <2>1 DEF Tables
<1> QED BY <1>1, <1>2, <1>3, <1>4, <1>5, <1>6, <1>7

LEMMA Lengths ==
    Len(enabledMigrations[0]) = 4 /\ Len(enabledMigrations[1]) = 2
BY EnabledMigrations

\* A table is no secret.
LEMMA TablesAreNoSecrets == Tables \cap Secrets = {}
BY DEF Tables, Secrets

\* Where the loops go on, case by case.
LEMMA LoopStartCases ==
    ASSUME NEW v \in 0..latestVersion, NEW o \in 0..4
    PROVE  /\ LoopStart(v, o) \in {"exec", "saveVersion", "running"}
           /\ LoopStart(v, o) = "running" => v = latestVersion
           /\ LoopStart(v, o) = "exec" => v < latestVersion /\ o < Len(enabledMigrations[v])
           /\ LoopStart(v, o) = "saveVersion" => v < latestVersion
           /\ LoopStart(v, o) = "saveVersion" /\ v = 0 => o = 4
<1>1. v = 0 \/ v = 1 \/ v = 2
  BY DEF latestVersion
<1>2. CASE v = 0
  BY <1>2, Lengths DEF LoopStart, latestVersion
<1>3. CASE v = 1
  BY <1>3, Lengths DEF LoopStart, latestVersion
<1>4. CASE v = 2
  BY <1>4 DEF LoopStart, latestVersion
<1> QED BY <1>1, <1>2, <1>3, <1>4

\* The inductive step.
LEMMA NextInv ==
    ASSUME TypeOK, MigrationInv, [Next]_vars
    PROVE  TypeOK' /\ MigrationInv'
<1>1. CASE Start
  <2>1. PICK v \in {version, 0}, o \in {offset, 0} : Begin(v, o)
    BY <1>1 DEF Start
  <2>2. /\ v \in 0..latestVersion /\ o \in 0..4 /\ ver' = v /\ off' = o /\ resume' = o
        /\ pc' = LoopStart(v, o) /\ seed' \in [Secrets -> Seeds]
        /\ misread' = misread \cup ({version} \ {v})
        /\ UNCHANGED <<version, offset, tables, secrets, ciphers, crashes>>
    BY <2>1 DEF Begin, TypeOK, stored, latestVersion
  <2>3. TypeOK'
    BY <2>2, LoopStartCases DEF TypeOK
  <2>4. MigrationInv'
    BY <2>2, LoopStartCases, EnabledMigrations
    DEF MigrationInv, TypeOK, SchemaBeforeVersion, StoredPasswordsReadable
  <2> QED BY <2>3, <2>4
<1>2. CASE Exec
  <2>1. /\ pc = "exec" /\ ver \in {0, 1} /\ (ver = version \/ (ver = 0 /\ version \in misread))
        /\ off < Len(enabledMigrations[ver])
        /\ UNCHANGED <<version, offset, ciphers, ver, off, resume, seed, misread, crashes>>
    BY <1>2 DEF Exec, MigrationInv, TypeOK, latestVersion, process
  <2>2. Statement = enabledMigrations[ver][off + 1] /\ off \in Nat
    BY DEF Statement, TypeOK
  <2>3. CASE ver = 0
    <3>1. off + 1 \in 1..4 /\ Statement \in Tables /\ Statement \notin Secrets
      BY <2>1, <2>2, <2>3, EnabledMigrations, TablesAreNoSecrets
    <3>2. /\ UNCHANGED secrets
          /\ tables' = tables \cup {Statement}
          /\ pc' = "saveOffset" \/ pc' = "down"
      BY <1>2, <3>1 DEF Exec
    <3>3. TypeOK'
      BY <2>1, <3>1, <3>2 DEF TypeOK
    <3>4. pc' = "saveOffset" => version = 0 /\ off = offset
      <4>1. pc' = "saveOffset" => Statement \notin tables
        BY <1>2, <3>1 DEF Exec
      <4>2. version \in 0..latestVersion /\ offset \in 0..4
        BY DEF TypeOK
      <4>3. version >= 1 => Statement \in tables
        BY <3>1 DEF MigrationInv, SchemaBeforeVersion
      <4>4. version = 0 /\ off < offset => Statement \in tables
        <5>1. off < offset => off + 1 \in 1..offset
          BY <2>2, <4>2
        <5> QED BY <2>2, <2>3, <5>1 DEF MigrationInv
      <4>5. version = 0 => off <= offset
        BY <2>1, <2>3 DEF MigrationInv
      <4>6. version = 0 \/ version >= 1
        BY <4>2 DEF latestVersion
      <4> QED BY <2>2, <4>1, <4>2, <4>3, <4>4, <4>5, <4>6
    <3>5. enabledMigrations[0][off + 1] \in tables' /\ tables \subseteq tables'
      BY <2>2, <2>3, <3>2
    <3>6. SchemaBeforeVersion'
      BY <2>1, <3>1, <3>2 DEF MigrationInv, SchemaBeforeVersion
    <3>7. MigrationInv'
      BY <2>1, <2>3, <3>2, <3>4, <3>5, <3>6
      DEF MigrationInv, TypeOK, StoredPasswordsReadable, latestVersion
    <3> QED BY <3>3, <3>7
  <2>4. CASE ver = 1
    <3>1. off + 1 \in 1..2 /\ Statement \in Secrets /\ Statement \notin Tables
      BY <2>1, <2>2, <2>4, EnabledMigrations, TablesAreNoSecrets
    <3>2. /\ secrets' = [secrets EXCEPT ![Statement] = seed[Statement]]
          /\ UNCHANGED tables
          /\ pc' = "saveOffset"
      BY <1>2, <3>1 DEF Exec
    <3>3. TypeOK'
      BY <2>1, <3>1, <3>2 DEF TypeOK
    <3>4. version = 1 /\ (ciphers = {} \/ latestVersion \in misread)
      BY <2>1, <2>4 DEF MigrationInv, latestVersion
    <3>5. MigrationInv'
      BY <2>1, <2>4, <3>2, <3>4
      DEF MigrationInv, TypeOK, SchemaBeforeVersion, StoredPasswordsReadable
    <3> QED BY <3>3, <3>5
  <2> QED BY <2>1, <2>3, <2>4
<1>3. CASE SaveOffset
  <2>1. /\ pc = "saveOffset" /\ ver = version /\ ver \in {0, 1}
        /\ off < Len(enabledMigrations[ver])
        /\ pc' = LoopStart(ver, off + 1)
        /\ offset' = off + 1 /\ off' = off + 1
        /\ UNCHANGED <<version, tables, secrets, ciphers, ver, resume, seed, misread, crashes>>
    BY <1>3 DEF SaveOffset, MigrationInv, TypeOK, latestVersion
  <2>2. off + 1 \in 0..4
    <3>1. off \in Nat /\ (ver = 0 \/ ver = 1)
      BY <2>1 DEF TypeOK
    <3>2. CASE ver = 0
      BY <2>1, <3>1, <3>2, Lengths
    <3>3. CASE ver = 1
      BY <2>1, <3>1, <3>3, Lengths
    <3> QED BY <3>1, <3>2, <3>3
  <2>3. TypeOK'
    BY <2>1, <2>2, LoopStartCases DEF TypeOK
  <2>4. version = 0 => \A i \in 1..offset' : enabledMigrations[0][i] \in tables
    <3> SUFFICES ASSUME version = 0, NEW i \in 1..offset'
                 PROVE  enabledMigrations[0][i] \in tables
      OBVIOUS
    <3>1. i = off + 1 \/ i \in 1..off
      BY <2>1 DEF TypeOK
    <3> QED BY <2>1, <3>1 DEF MigrationInv
  <2>5. MigrationInv'
    BY <2>1, <2>2, <2>4, LoopStartCases
    DEF MigrationInv, TypeOK, SchemaBeforeVersion, StoredPasswordsReadable
  <2> QED BY <2>3, <2>5
<1>4. CASE SaveVersion
  <2>1. /\ pc = "saveVersion" /\ ver \in {0, 1} /\ (ver = version \/ (ver = 0 /\ version \in misread))
        /\ version' = ver + 1 /\ pc' = "resetOffset"
        /\ UNCHANGED <<offset, tables, secrets, ciphers, ver, off, resume, seed, misread, crashes>>
    BY <1>4 DEF SaveVersion, MigrationInv, TypeOK, latestVersion, process
  <2>2. TypeOK'
    BY <2>1 DEF TypeOK, latestVersion
  <2>3. tables = Tables
    <3>1. CASE ver = 0 /\ version = 0
      BY <2>1, <3>1, EnabledMigrations DEF MigrationInv, TypeOK
    <3>2. CASE version >= 1
      BY <3>2 DEF MigrationInv, SchemaBeforeVersion
    <3> QED BY <2>1, <3>1, <3>2 DEF TypeOK, latestVersion
  <2>4. ciphers = {} \/ latestVersion \in misread
    BY <2>1 DEF MigrationInv, latestVersion
  <2>5. MigrationInv'
    BY <2>1, <2>3, <2>4
    DEF MigrationInv, TypeOK, SchemaBeforeVersion, StoredPasswordsReadable
  <2> QED BY <2>2, <2>5
<1>5. CASE ResetOffset
  <2>1. /\ pc = "resetOffset" /\ ver + 1 = version /\ version \in 1..latestVersion
        /\ offset' = 0 /\ ver' = ver + 1 /\ off' = resume
        /\ pc' = LoopStart(ver + 1, resume)
        /\ UNCHANGED <<version, tables, secrets, ciphers, resume, seed, misread, crashes>>
    BY <1>5 DEF ResetOffset, MigrationInv, TypeOK
  <2>2. TypeOK'
    BY <2>1, LoopStartCases DEF TypeOK
  <2>3. MigrationInv'
    BY <2>1, LoopStartCases
    DEF MigrationInv, TypeOK, SchemaBeforeVersion, StoredPasswordsReadable
  <2> QED BY <2>2, <2>3
<1>6. CASE StorePassword
  <2>1. /\ pc = "running"
        /\ ciphers' = ciphers \cup ({secrets["instance-id"]} \ {NoValue})
        /\ UNCHANGED <<version, offset, tables, secrets, pc, ver, off, resume, seed, misread, crashes>>
    BY <1>6 DEF StorePassword, process
  <2>2. secrets["instance-id"] \in Seeds \cup {NoValue}
    BY DEF TypeOK, Secrets
  <2>3. TypeOK'
    BY <2>1, <2>2 DEF TypeOK
  <2>4. MigrationInv'
    BY <2>1 DEF MigrationInv, SchemaBeforeVersion, StoredPasswordsReadable
  <2> QED BY <2>3, <2>4
<1>7. CASE Crash
  <2>1. /\ crashes' \in 0..MaxCrashes
        /\ pc' = "down"
        /\ UNCHANGED <<version, offset, tables, secrets, ciphers, ver, off, resume, seed, misread>>
    BY <1>7, MigrationsAssumption DEF Crash, stored, process, TypeOK
  <2>2. TypeOK'
    BY <2>1 DEF TypeOK
  <2>3. MigrationInv'
    BY <2>1 DEF MigrationInv, SchemaBeforeVersion, StoredPasswordsReadable
  <2> QED BY <2>2, <2>3
<1>8. CASE UNCHANGED vars
  BY <1>8 DEF vars, stored, process, MigrationInv, TypeOK, SchemaBeforeVersion, StoredPasswordsReadable
<1> QED BY <1>1, <1>2, <1>3, <1>4, <1>5, <1>6, <1>7, <1>8 DEF Next, Run

\* Type correctness and the inductive invariant.
THEOREM MigrationInvariant == Spec => [](TypeOK /\ MigrationInv)
<1>1. Init => TypeOK /\ MigrationInv
  BY MigrationsAssumption
  DEF Init, TypeOK, MigrationInv, SchemaBeforeVersion, StoredPasswordsReadable, latestVersion
<1>2. TypeOK /\ MigrationInv /\ [Next]_vars => TypeOK' /\ MigrationInv'
  BY NextInv
<1> QED BY <1>1, <1>2, PTL DEF Spec

\* However a process ends and whatever it fails to read, the settings stay within
\* what a later process can start from.
THEOREM TypeCorrect == Spec => []TypeOK
BY MigrationInvariant, PTL

\* The recorded version never runs ahead of the schema, after any crashes and misread
\* settings.
THEOREM SchemaIsThere == Spec => []SchemaBeforeVersion
<1>1. MigrationInv => SchemaBeforeVersion
  BY DEF MigrationInv
<1> QED BY <1>1, MigrationInvariant, PTL

\* No stored password loses its key: the instance-id is never replaced once a
\* process has served, unless a process took the latest version for 0.
THEOREM PasswordsStayReadable == Spec => []StoredPasswordsReadable
<1>1. MigrationInv => StoredPasswordsReadable
  BY DEF MigrationInv
<1> QED BY <1>1, MigrationInvariant, PTL

\* A process that read the latest version right executes no statement, so what is
\* installed then is changed only by one that began again from version 0.
THEOREM InstalledVersionStays == Spec => InstalledStays
<1> DEFINE Step == version = latestVersion =>
                     \/ UNCHANGED <<version, tables, secrets>>
                     \/ ver = 0 /\ latestVersion \in misread
<1>1. TypeOK /\ MigrationInv /\ [Next]_vars => Step
  <2> SUFFICES ASSUME TypeOK, MigrationInv, [Next]_vars, version = latestVersion
               PROVE  \/ UNCHANGED <<version, tables, secrets>>
                      \/ ver = 0 /\ latestVersion \in misread
    OBVIOUS
  <2>1. CASE Exec \/ SaveVersion
    <3>1. pc \in {"exec", "saveVersion"}
      BY <2>1 DEF Exec, SaveVersion
    <3> QED BY <3>1 DEF MigrationInv, latestVersion
  <2>2. CASE Start
    BY <2>2 DEF Start, Begin, stored
  <2>3. CASE SaveOffset \/ ResetOffset \/ StorePassword \/ Crash \/ UNCHANGED vars
    BY <2>3 DEF SaveOffset, ResetOffset, StorePassword, Crash, vars, stored
  <2> QED BY <2>1, <2>2, <2>3 DEF Next, Run
<1> QED BY <1>1, MigrationInvariant, PTL DEF Spec, InstalledStays

\* How far a process is: its version, the statements of it behind, and the part of
\* the loops it is in.
Progress ==
    20 * ver + 3 * off
        + (CASE pc = "saveOffset" -> 1
             [] pc = "saveVersion" -> 1
             [] pc = "resetOffset" -> 2
             [] OTHER -> 0)

\* Every step of Run brings the process further, or ends it at a table that is
\* there already.
RunGoesOn == [][Run => Progress' > Progress \/ pc' = "down"]_vars

\* The two loops end, from whatever version and offset a process starts: none of
\* its steps is taken twice, and there is an upper bound for Progress.
THEOREM RunsAdvance == Spec => RunGoesOn /\ [](Progress \in 0..54)
<1> DEFINE Step == Run => Progress' > Progress \/ pc' = "down"
<1>1. TypeOK => Progress \in 0..54
  BY DEF TypeOK, Progress, latestVersion
<1>2. TypeOK /\ MigrationInv /\ [Next]_vars => Step
  <2> SUFFICES ASSUME TypeOK, MigrationInv, Run
               PROVE  Progress' > Progress \/ pc' = "down"
    OBVIOUS
  <2>1. ver \in Nat /\ off \in Nat /\ off <= 4 /\ resume \in Nat
    BY DEF TypeOK, latestVersion
  <2>2. CASE Exec
    BY <2>1, <2>2 DEF Exec, Progress, process
  <2>3. CASE SaveOffset
    <3>1. ver' = ver /\ off' = off + 1
      BY <2>3 DEF SaveOffset
    <3> QED BY <2>1, <2>3, <3>1 DEF SaveOffset, Progress
  <2>4. CASE SaveVersion
    BY <2>1, <2>4 DEF SaveVersion, Progress, process
  <2>5. CASE ResetOffset
    <3>1. pc = "resetOffset" /\ ver' = ver + 1 /\ off' = resume /\ off' \in Nat
      BY <2>1, <2>5 DEF ResetOffset
    <3>2. pc' # "saveOffset" /\ pc' # "resetOffset"
      BY <2>5 DEF ResetOffset, LoopStart
    <3> QED BY <2>1, <3>1, <3>2 DEF Progress
  <2> QED BY <2>2, <2>3, <2>4, <2>5 DEF Run
<1> QED BY <1>1, <1>2, TypeCorrect, MigrationInvariant, PTL DEF Spec, RunGoesOn
=============================================================================
