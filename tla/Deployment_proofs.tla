-------------------------- MODULE Deployment_proofs --------------------------
(***************************************************************************)
(* What Deployment promises whatever the number of programs, accounts and  *)
(* migrations, and in every environment.                                   *)
(***************************************************************************)
EXTENDS Deployment, TLAPS

-----------------------------------------------------------------------------
(* Configuration.                                                          *)

\* What an API instance can be, after all of its checks.
Sound(s) ==
  /\ s.available <=> s.database
  /\ s.production => s.secure /\ ~ s.migrates

\* Load, ValidateAuthRuntime, LoadTokenManager and Service.Available agree.
LEMMA SetupsSound ==
  \A s \in Setups :
    /\ s \in [database : BOOLEAN, migrates : BOOLEAN, available : BOOLEAN,
              production : BOOLEAN, secure : BOOLEAN]
    /\ Sound(s)
<1> SUFFICES ASSUME NEW e \in Envs, Loads(e), ValidateAuthRuntime(Config(e))
             PROVE  LET s == Setup(Config(e)) IN
                    /\ s \in [database : BOOLEAN, migrates : BOOLEAN,
                              available : BOOLEAN, production : BOOLEAN,
                              secure : BOOLEAN]
                    /\ Sound(s)
  BY DEF Setups
<1> DEFINE c == Config(e)
<1>1. /\ e.database # Junk /\ e.database \in {TRUE, FALSE, Unset, Junk}
      /\ e.migrate # Junk /\ e.migrate \in {TRUE, FALSE, Unset, Junk}
  BY DeploymentAssumption DEF Loads, Parses, Defaults
<1>2. c.database \in BOOLEAN /\ c.migrate \in BOOLEAN
  BY <1>1 DEF Config, Defaults
<1>3. c.database => c.secret >= 32
  BY DEF ValidateAuthRuntime
<1>4. c.migrate => c.appEnv # "production"
  BY DEF Loads, Validate
<1> HIDE DEF c
<1>5. LET s == Setup(c) IN
      /\ s \in [database : BOOLEAN, migrates : BOOLEAN, available : BOOLEAN,
                production : BOOLEAN, secure : BOOLEAN]
      /\ Sound(s)
  BY <1>2, <1>3, <1>4 DEF Setup, Available, CookieSecure, Sound
<1> QED
  BY <1>5 DEF c

-----------------------------------------------------------------------------
(* The inductive invariant.                                                *)

\* The version that the holder of the lock believes in is the schema's, give or
\* take the migration it is executing.
Working ==
  \A p \in Programs :
    /\ stage[p] = "stepping" => ~ dirty /\ at[p] = version
    /\ stage[p] \in {"applying", "marking"} => dirty /\ More(p) /\ version = Target(p)
    /\ stage[p] = "applying" => applied = 1 .. at[p]
    /\ stage[p] = "marking" => applied = 1 .. Target(p)

Configured == \A p \in Programs : Sound(setup[p])

\* The goal is as far away as the steps that are left.
Aimed ==
  \A p \in Programs : stage[p] \in {"stepping", "applying", "marking"} =>
    goal[p] = IF Forward(p) THEN Last ELSE at[p] - steps[p]

\* Until the transaction that creates an administrator ends, the tables stay,
\* and once it has inserted its user there is no other account of that address.
Provisioned ==
  \A p \in Programs :
    /\ stage[p] \in Provisioning => AuthMigration \in applied
    /\ stage[p] \in {"inserted", "granted"} => owner[email[p]] = Nobody

IInv ==
  /\ TypeOK /\ Working /\ VersionTruthful /\ Configured
  /\ Aimed /\ Provisioned /\ AccountsAreWhole

\* Initially it holds.
LEMMA InitIInv == Init => IInv
<1> SUFFICES ASSUME Init PROVE IInv
  OBVIOUS
<1>1. TypeOK
  <2>1. setup \in [Programs -> [database : BOOLEAN, migrates : BOOLEAN,
                               available : BOOLEAN, production : BOOLEAN,
                               secure : BOOLEAN]]
    BY DEF Init, Idle
  <2>2. version \in 0 .. Last /\ steps \in [Programs -> 0 .. MaxSteps] /\ at \in [Programs -> 0 .. Last]
    BY DeploymentAssumption DEF Init
  <2>3. dirty \in BOOLEAN /\ email \in [Programs -> Emails]
    BY DEF Init
  <2>4. goal \in [Programs -> -MaxSteps .. Last]
    BY DeploymentAssumption DEF Init
  <2> QED
    BY <2>1, <2>2, <2>3, <2>4, DeploymentAssumption DEF Init, TypeOK, Stages, Jobs, Outcomes,
       Provisioning
<1>2. Working
  BY DEF Init, Working
<1>3. VersionTruthful
  BY DEF Init, VersionTruthful
<1>4. Configured
  BY DEF Init, Configured, Sound, Idle
<1>5. Aimed /\ Provisioned /\ AccountsAreWhole
  BY DEF Init, Aimed, Provisioned, Provisioning, AccountsAreWhole
<1> QED
  BY <1>1, <1>2, <1>3, <1>4, <1>5 DEF IInv

-----------------------------------------------------------------------------
(* Every step preserves it, conjunct by conjunct.                          *)

\* A program that ends gives back what it held.
LEMMA TypeExit ==
  ASSUME TypeOK, NEW p \in Programs, NEW code \in Outcomes, Exit(p, code),
         UNCHANGED <<schema, email>>,
         owner' \in [Emails -> Programs \cup {Nobody}], granted' \subseteq Emails
  PROVE  TypeOK'
<1> USE DeploymentAssumption DEF TypeOK
<1>1. /\ stage' \in [Programs -> Stages]
      /\ job' \in [Programs -> Jobs]
      /\ outcome' \in [Programs -> Outcomes]
  BY DEF Exit, Stages, Jobs
<1>2. setup' \in [Programs -> [database : BOOLEAN, migrates : BOOLEAN, available : BOOLEAN,
                               production : BOOLEAN, secure : BOOLEAN]]
  BY DEF Exit, Idle
<1>3. /\ steps' \in [Programs -> 0 .. MaxSteps] /\ at' \in [Programs -> 0 .. Last]
      /\ goal' \in [Programs -> -MaxSteps .. Last]
  BY DEF Exit
<1>4. ASSUME NEW q \in Programs
      PROVE  /\ stage'[q] \in {"stepping", "applying", "marking"} <=> lock' = q
             /\ stage'[q] \in Provisioning <=> roleLock' = q
  BY DEF Exit, Release, Provisioning
<1>5. lock' \in Programs \cup {Nobody} /\ roleLock' \in Programs \cup {Nobody}
  BY DEF Exit, Release
<1> QED
  BY <1>1, <1>2, <1>3, <1>4, <1>5 DEF schema

\* TypeOK: nobody works without the lock.
LEMMA TypeStep ==
  ASSUME TypeOK, Working, [Next]_vars
  PROVE  TypeOK'
<1> USE DeploymentAssumption
<1> USE DEF TypeOK, Stages, Jobs, Outcomes, Idle, Provisioning, schema, accounts, locks, given
<1>1. ASSUME NEW p \in Programs, StartAPI(p) PROVE TypeOK'
  <2>1. PICK s \in Setups :
          /\ setup' = [setup EXCEPT ![p] = s]
          /\ Enter(p, "api", 0, IF s.migrates THEN "joining"
                                ELSE IF s.database THEN "opening" ELSE "serving")
          /\ UNCHANGED email
    BY <1>1 DEF StartAPI
  <2>2. s \in [database : BOOLEAN, migrates : BOOLEAN, available : BOOLEAN,
              production : BOOLEAN, secure : BOOLEAN]
    BY SetupsSound
  <2> QED
    BY <2>1, <2>2 DEF Enter, Move
<1>2. ASSUME NEW p \in Programs, StartMigrate(p) PROVE TypeOK'
  <2>1. PICK what \in Jobs, n \in 0 .. MaxSteps : Enter(p, what, n, "joining")
    BY <1>2 DEF StartMigrate
  <2> QED
    BY <1>2, <2>1 DEF StartMigrate, Enter, Move
<1>3. ASSUME NEW p \in Programs, StartAuth(p) PROVE TypeOK'
  BY <1>3 DEF StartAuth, Enter, Move
<1>4. ASSUME NEW p \in Programs, Refuse(p) PROVE TypeOK'
  BY <1>4, TypeExit DEF Refuse
<1>5. ASSUME NEW p \in Programs, Join(p) PROVE TypeOK'
  BY <1>5 DEF Join, Move
<1>6. ASSUME NEW p \in Programs, Version(p) PROVE TypeOK'
  BY <1>6, TypeExit DEF Version
<1>7. ASSUME NEW p \in Programs, Lock(p) PROVE TypeOK'
  <2>1. goal'[p] \in -MaxSteps .. Last /\ goal' = [goal EXCEPT ![p] = goal'[p]]
    BY <1>7 DEF Lock, Aim
  <2>2. goal' \in [Programs -> -MaxSteps .. Last]
    BY <2>1
  <2>3. at' \in [Programs -> 0 .. Last]
    BY <1>7 DEF Lock, Aim
  <2> QED
    BY <1>7, <2>2, <2>3 DEF Lock, Move
<1>8. ASSUME NEW p \in Programs, FindDirty(p) PROVE TypeOK'
  BY <1>8, TypeExit DEF FindDirty
<1>9. ASSUME NEW p \in Programs, MarkDirty(p) PROVE TypeOK'
  BY <1>9 DEF MarkDirty, Move, More, Target, Forward
<1>10. ASSUME NEW p \in Programs, Run(p) PROVE TypeOK'
  <2>1. Target(p) \in 1 .. Last \/ ~ Forward(p)
    BY <1>10 DEF Run, Move, Working, More, Target, Forward
  <2>2. applied' \subseteq 1 .. Last
    BY <1>10, <2>1 DEF Run
  <2>3. owner' \in [Emails -> Programs \cup {Nobody}] /\ granted' \subseteq Emails
    BY <1>10 DEF Run
  <2> QED
    BY <1>10, <2>2, <2>3 DEF Run, Move
<1>11. ASSUME NEW p \in Programs, MarkClean(p) PROVE TypeOK'
  <2>1. Target(p) \in 0 .. Last
    BY <1>11 DEF MarkClean, Move, Working, More, Target, Forward
  <2>2. steps'[p] \in 0 .. MaxSteps /\ steps' = [steps EXCEPT ![p] = steps'[p]]
    BY <1>11 DEF MarkClean, Move, Working, More, Forward
  <2> QED
    BY <1>11, <2>1, <2>2 DEF MarkClean, Move
<1>12. ASSUME NEW p \in Programs, Finish(p) PROVE TypeOK'
  <2>1. CASE job[p] = "api"
    <3>1. Move(p, "stepping", "opening") /\ Release(p)
          /\ at' = [at EXCEPT ![p] = 0] /\ goal' = [goal EXCEPT ![p] = 0]
          /\ UNCHANGED <<schema, accounts, email, job, setup, steps, outcome>>
      BY <1>12, <2>1 DEF Finish
    <3>2. /\ stage' \in [Programs -> Stages] /\ at' \in [Programs -> 0 .. Last]
          /\ goal' \in [Programs -> -MaxSteps .. Last]
      BY <3>1 DEF Move
    <3>3. ASSUME NEW q \in Programs
          PROVE  /\ stage'[q] \in {"stepping", "applying", "marking"} <=> lock' = q
                 /\ stage'[q] \in Provisioning <=> roleLock' = q
      BY <3>1 DEF Move, Release, Provisioning
    <3>4. lock' \in Programs \cup {Nobody} /\ roleLock' \in Programs \cup {Nobody}
      BY <3>1 DEF Release
    <3> QED
      BY <3>1, <3>2, <3>3, <3>4
  <2>2. CASE job[p] # "api"
    <3>1. PICK code \in Outcomes : Exit(p, code)
      BY <1>12, <2>2 DEF Finish
    <3> QED
      BY <1>12, <3>1, TypeExit DEF Finish
  <2> QED
    BY <2>1, <2>2
<1>13. ASSUME NEW p \in Programs, Open(p) PROVE TypeOK'
  BY <1>13 DEF Open, Move
<1>14. ASSUME NEW p \in Programs, Stop(p) PROVE TypeOK'
  BY <1>14, TypeExit DEF Stop
<1>15. ASSUME NEW p \in Programs, EnsureRole(p) PROVE TypeOK'
  BY <1>15 DEF EnsureRole, Move
<1>16. ASSUME NEW p \in Programs, NoTables(p) PROVE TypeOK'
  BY <1>16, TypeExit DEF NoTables
<1>17. ASSUME NEW p \in Programs, InsertUser(p) PROVE TypeOK'
  BY <1>17 DEF InsertUser, Move
<1>18. ASSUME NEW p \in Programs, UserExists(p) PROVE TypeOK'
  BY <1>18, TypeExit DEF UserExists
<1>19. ASSUME NEW p \in Programs, Break(p) PROVE TypeOK'
  BY <1>19, TypeExit DEF Break
<1>20. CASE ForceVersion
  BY <1>20 DEF ForceVersion
<1>21. CASE UNCHANGED vars
  BY <1>21 DEF vars
<1>22. ASSUME NEW p \in Programs, Grant(p) PROVE TypeOK'
  BY <1>22 DEF Grant, Move
<1>23. ASSUME NEW p \in Programs, CommitAdmin(p) PROVE TypeOK'
  <2>1. owner' \in [Emails -> Programs \cup {Nobody}] /\ granted' \subseteq Emails
    BY <1>23 DEF CommitAdmin
  <2>2. PICK told \in Outcomes : Exit(p, told)
    BY <1>23 DEF CommitAdmin
  <2> QED
    BY <1>23, <2>1, <2>2, TypeExit DEF CommitAdmin
<1> QED
  BY <1>1, <1>2, <1>3, <1>4, <1>5, <1>6, <1>7, <1>8, <1>9, <1>10, <1>11,
    <1>12, <1>13, <1>14, <1>15, <1>16, <1>17, <1>18, <1>19, <1>20, <1>21, <1>22, <1>23
  DEF Next, Start, Progress

\* The stages of a program that holds golang-migrate's lock.
AtWork == {"stepping", "applying", "marking"}

\* A step that neither touches the schema and its record nor concerns whoever
\* is at work on them.
Aside ==
  /\ UNCHANGED <<schema, lock>>
  /\ \A p \in Programs :
       \/ stage[p] \notin AtWork /\ stage'[p] \notin AtWork
       \/ UNCHANGED <<stage[p], job[p], steps[p], at[p], goal[p], outcome[p]>>

\* All but the steps under golang-migrate's lock, its loss and the operator's
\* force are such.
LEMMA StepKinds ==
  ASSUME TypeOK, [Next]_vars
  PROVE  \/ Aside
         \/ ForceVersion
         \/ \E p \in Programs :
              \/ Lock(p) \/ MarkDirty(p) \/ Run(p) \/ MarkClean(p) \/ Finish(p)
              \/ Break(p) /\ lock = p
<1> USE DeploymentAssumption
<1> USE DEF TypeOK, Aside, AtWork, schema, locks, given
<1>1. ASSUME NEW p \in Programs, StartAPI(p) PROVE Aside
  BY <1>1 DEF StartAPI, Enter, Move
<1>2. ASSUME NEW p \in Programs, StartMigrate(p) PROVE Aside
  BY <1>2 DEF StartMigrate, Enter, Move
<1>3. ASSUME NEW p \in Programs, StartAuth(p) PROVE Aside
  BY <1>3 DEF StartAuth, Enter, Move
<1>4. ASSUME NEW p \in Programs, Refuse(p) PROVE Aside
  BY <1>4 DEF Refuse, Exit, Release
<1>5. ASSUME NEW p \in Programs, Join(p) PROVE Aside
  BY <1>5 DEF Join, Move
<1>6. ASSUME NEW p \in Programs, Version(p) PROVE Aside
  BY <1>6 DEF Version, Exit, Release
<1>7. ASSUME NEW p \in Programs, FindDirty(p) PROVE Aside
  BY <1>7 DEF FindDirty, Exit, Release
<1>8. ASSUME NEW p \in Programs, Open(p) PROVE Aside
  BY <1>8 DEF Open, Move
<1>9. ASSUME NEW p \in Programs, Stop(p) PROVE Aside
  BY <1>9 DEF Stop, Exit, Release
<1>10. ASSUME NEW p \in Programs, EnsureRole(p) PROVE Aside
  BY <1>10 DEF EnsureRole, Move
<1>11. ASSUME NEW p \in Programs, NoTables(p) PROVE Aside
  BY <1>11 DEF NoTables, Exit, Release
<1>12. ASSUME NEW p \in Programs, InsertUser(p) \/ Grant(p) \/ CommitAdmin(p) PROVE Aside
  BY <1>12 DEF InsertUser, Grant, CommitAdmin, Move, Exit, Release
<1>13. ASSUME NEW p \in Programs, UserExists(p) PROVE Aside
  BY <1>13 DEF UserExists, Exit, Release
<1>14. ASSUME NEW p \in Programs, Break(p), lock # p PROVE Aside
  BY <1>14 DEF Break, Exit, Release
<1>15. ASSUME UNCHANGED vars PROVE Aside
  BY <1>15 DEF vars
<1> HIDE DEF TypeOK, Aside, AtWork, schema, locks, given
<1> QED
  BY <1>1, <1>2, <1>3, <1>4, <1>5, <1>6, <1>7, <1>8, <1>9, <1>10, <1>11, <1>12, <1>13, <1>14, <1>15
  DEF Next, Start, Progress

\* Working: only the holder of the lock touches version and schema.
LEMMA WorkingStep ==
  ASSUME TypeOK, Working, VersionTruthful, [Next]_vars
  PROVE  Working'
<1> USE DeploymentAssumption
<1> USE DEF TypeOK, Working, VersionTruthful, More, Target, Forward, schema,
    locks, given
<1>1. CASE Aside
  BY <1>1 DEF Aside, AtWork
<1>2. ASSUME NEW p \in Programs, Lock(p) PROVE Working'
  BY <1>2 DEF Lock, Aim, Move
<1>3. ASSUME NEW p \in Programs, MarkDirty(p) PROVE Working'
  BY <1>3 DEF MarkDirty, Move, More, Target, Forward
<1>4. ASSUME NEW p \in Programs, Run(p) PROVE Working'
  <2>1. /\ stage[p] = "applying" /\ lock = p
        /\ stage' = [stage EXCEPT ![p] = "marking"]
        /\ UNCHANGED <<version, dirty, at, steps, job>>
    BY <1>4 DEF Run, Move
  <2>2. applied' = 1 .. Target(p)
    <3>1. applied = 1 .. at[p] /\ at[p] \in Nat
      BY <2>1, DeploymentAssumption
    <3>2. CASE Forward(p)
      <4>1. applied' = applied \cup {at[p] + 1}
        BY <1>4, <3>2 DEF Run
      <4> QED
        BY <3>1, <3>2, <4>1
    <3>3. CASE ~ Forward(p)
      <4>1. applied' = applied \ {at[p]}
        BY <1>4, <3>3 DEF Run
      <4> QED
        BY <3>1, <3>3, <4>1
    <3> QED
      BY <3>2, <3>3
  <2>3. \A q \in Programs : q # p => stage[q] \notin {"stepping", "applying", "marking"}
    BY <2>1
  <2> QED
    BY <2>1, <2>2, <2>3
<1>5. ASSUME NEW p \in Programs, MarkClean(p) PROVE Working'
  BY <1>5 DEF MarkClean, Move, Target, Forward
<1>6. ASSUME NEW p \in Programs, Finish(p) PROVE Working'
  BY <1>6 DEF Finish, Move, Exit, Release, More, Forward
<1>7. ASSUME NEW p \in Programs, Break(p), lock = p PROVE Working'
  BY <1>7 DEF Break, Exit, Release
<1>8. CASE ForceVersion
  BY <1>8 DEF ForceVersion
<1> QED
  BY StepKinds, <1>1, <1>2, <1>3, <1>4, <1>5, <1>6, <1>7, <1>8

\* VersionTruthful: the flag is cleared once the migration is there.
LEMMA VersionStep ==
  ASSUME TypeOK, Working, VersionTruthful, [Next]_vars
  PROVE  VersionTruthful'
<1> USE DeploymentAssumption
<1> USE DEF TypeOK, Working, VersionTruthful, schema, locks, given
<1>1. CASE Aside
  BY <1>1 DEF Aside, AtWork
<1>2. ASSUME NEW p \in Programs, Lock(p) PROVE VersionTruthful'
  BY <1>2 DEF Lock, Aim, Move
<1>3. ASSUME NEW p \in Programs, MarkDirty(p) PROVE VersionTruthful'
  BY <1>3 DEF MarkDirty, Move, More, Target, Forward
<1>4. ASSUME NEW p \in Programs, Run(p) PROVE VersionTruthful'
  BY <1>4 DEF Run, Move, Target, Forward
<1>5. ASSUME NEW p \in Programs, MarkClean(p) PROVE VersionTruthful'
  BY <1>5 DEF MarkClean, Move, Target, Forward
<1>6. ASSUME NEW p \in Programs, Finish(p) PROVE VersionTruthful'
  BY <1>6 DEF Finish, Move, Exit, Release, More, Forward
<1>7. ASSUME NEW p \in Programs, Break(p), lock = p PROVE VersionTruthful'
  BY <1>7 DEF Break, Exit, Release
<1>8. CASE ForceVersion
  BY <1>8 DEF ForceVersion
<1> QED
  BY StepKinds, <1>1, <1>2, <1>3, <1>4, <1>5, <1>6, <1>7, <1>8

\* Configured: what run() has taken from its configuration does not change.
LEMMA ConfiguredStep ==
  ASSUME TypeOK, Configured, [Next]_vars
  PROVE  Configured'
<1> USE DeploymentAssumption
<1> USE DEF TypeOK, Configured, Idle, Sound, schema, locks, given
<1>1. ASSUME NEW p \in Programs, StartAPI(p) PROVE Configured'
  <2>1. PICK s \in Setups : setup' = [setup EXCEPT ![p] = s]
    BY <1>1 DEF StartAPI
  <2> QED
    BY <2>1, SetupsSound
<1>2. ASSUME NEW p \in Programs, StartMigrate(p) PROVE Configured'
  BY <1>2 DEF StartMigrate, Enter, Move
<1>3. ASSUME NEW p \in Programs, StartAuth(p) PROVE Configured'
  BY <1>3 DEF StartAuth, Enter, Move
<1>4. ASSUME NEW p \in Programs, Refuse(p) PROVE Configured'
  BY <1>4 DEF Refuse, Exit, Release
<1>5. ASSUME NEW p \in Programs, Join(p) PROVE Configured'
  BY <1>5 DEF Join, Move
<1>6. ASSUME NEW p \in Programs, Version(p) PROVE Configured'
  BY <1>6 DEF Version, Exit, Release
<1>7. ASSUME NEW p \in Programs, Lock(p) PROVE Configured'
  BY <1>7 DEF Lock, Aim, Move
<1>8. ASSUME NEW p \in Programs, FindDirty(p) PROVE Configured'
  BY <1>8 DEF FindDirty, Exit, Release
<1>9. ASSUME NEW p \in Programs, MarkDirty(p) PROVE Configured'
  BY <1>9 DEF MarkDirty, Move, More, Target, Forward
<1>10. ASSUME NEW p \in Programs, Run(p) PROVE Configured'
  BY <1>10 DEF Run, Move, Target, Forward
<1>11. ASSUME NEW p \in Programs, MarkClean(p) PROVE Configured'
  BY <1>11 DEF MarkClean, Move, Target, Forward
<1>12. ASSUME NEW p \in Programs, Finish(p) PROVE Configured'
  BY <1>12 DEF Finish, Move, Exit, Release, More, Forward
<1>13. ASSUME NEW p \in Programs, Open(p) PROVE Configured'
  BY <1>13 DEF Open, Move
<1>14. ASSUME NEW p \in Programs, Stop(p) PROVE Configured'
  BY <1>14 DEF Stop, Exit, Release
<1>15. ASSUME NEW p \in Programs, EnsureRole(p) PROVE Configured'
  BY <1>15 DEF EnsureRole, Move
<1>16. ASSUME NEW p \in Programs, NoTables(p) PROVE Configured'
  BY <1>16 DEF NoTables, Exit, Release
<1>17. ASSUME NEW p \in Programs, InsertUser(p) PROVE Configured'
  BY <1>17 DEF InsertUser, Move
<1>18. ASSUME NEW p \in Programs, UserExists(p) PROVE Configured'
  BY <1>18 DEF UserExists, Exit, Release
<1>19. ASSUME NEW p \in Programs, Break(p) PROVE Configured'
  BY <1>19 DEF Break, Exit, Release
<1>20. CASE ForceVersion
  BY <1>20 DEF ForceVersion
<1>21. CASE UNCHANGED vars
  BY <1>21 DEF vars
<1>22. ASSUME NEW p \in Programs, Grant(p) PROVE Configured'
  BY <1>22 DEF Grant, Move
<1>23. ASSUME NEW p \in Programs, CommitAdmin(p) PROVE Configured'
  BY <1>23 DEF CommitAdmin, Exit, Release
<1> QED
  BY <1>1, <1>2, <1>3, <1>4, <1>5, <1>6, <1>7, <1>8, <1>9, <1>10, <1>11,
    <1>12, <1>13, <1>14, <1>15, <1>16, <1>17, <1>18, <1>19, <1>20, <1>21, <1>22, <1>23
  DEF Next, Start, Progress

\* Aimed: what is reverted is taken off the steps.
LEMMA AimedStep ==
  ASSUME TypeOK, Working, Aimed, [Next]_vars
  PROVE  Aimed'
<1> USE DeploymentAssumption
<1> USE DEF TypeOK, Working, Aimed, More, Target, Forward, schema, locks, given
<1>1. CASE Aside
  BY <1>1 DEF Aside, AtWork
<1>2. ASSUME NEW p \in Programs, Lock(p) PROVE Aimed'
  BY <1>2 DEF Lock, Aim, Move
<1>3. ASSUME NEW p \in Programs, MarkDirty(p) PROVE Aimed'
  BY <1>3 DEF MarkDirty, Move
<1>4. ASSUME NEW p \in Programs, Run(p) PROVE Aimed'
  BY <1>4 DEF Run, Move
<1>5. ASSUME NEW p \in Programs, MarkClean(p) PROVE Aimed'
  BY <1>5 DEF MarkClean, Move
<1>6. ASSUME NEW p \in Programs, Finish(p) PROVE Aimed'
  BY <1>6 DEF Finish, Move, Exit, Release
<1>7. ASSUME NEW p \in Programs, Break(p), lock = p PROVE Aimed'
  BY <1>7 DEF Break, Exit, Release
<1>8. CASE ForceVersion
  BY <1>8 DEF ForceVersion
<1> QED
  BY StepKinds, <1>1, <1>2, <1>3, <1>4, <1>5, <1>6, <1>7, <1>8

\* A step that touches neither the accounts nor the tables, nor takes the
\* transaction of an administrator further.
Elsewhere ==
  /\ UNCHANGED <<applied, accounts>>
  /\ \A p \in Programs :
       /\ stage'[p] \in Provisioning =>
            stage[p] = stage'[p] /\ email'[p] = email[p]
       /\ stage[p] \in Provisioning => outcome'[p] \in {outcome[p], "failed", "exists"}

\* All but the migrations and the statements of CreateAdmin are such.
LEMMA AccountKinds ==
  ASSUME TypeOK, [Next]_vars
  PROVE  \/ Elsewhere
         \/ \E p \in Programs :
              \/ Run(p) \/ EnsureRole(p) \/ InsertUser(p) \/ Grant(p) \/ CommitAdmin(p)
<1> USE DEF TypeOK, Elsewhere, Provisioning, schema, accounts, locks, given
<1>1. ASSUME NEW p \in Programs, StartAPI(p) PROVE Elsewhere
  BY <1>1 DEF StartAPI, Enter, Move
<1>2. ASSUME NEW p \in Programs, StartMigrate(p) PROVE Elsewhere
  BY <1>2 DEF StartMigrate, Enter, Move
<1>3. ASSUME NEW p \in Programs, StartAuth(p) PROVE Elsewhere
  BY <1>3 DEF StartAuth, Enter, Move
<1>4. ASSUME NEW p \in Programs, Refuse(p) PROVE Elsewhere
  BY <1>4 DEF Refuse, Exit, Release
<1>5. ASSUME NEW p \in Programs, Join(p) PROVE Elsewhere
  BY <1>5 DEF Join, Move
<1>6. ASSUME NEW p \in Programs, Version(p) PROVE Elsewhere
  BY <1>6 DEF Version, Exit, Release
<1>7. ASSUME NEW p \in Programs, Lock(p) PROVE Elsewhere
  BY <1>7 DEF Lock, Move
<1>8. ASSUME NEW p \in Programs, FindDirty(p) PROVE Elsewhere
  BY <1>8 DEF FindDirty, Exit, Release
<1>9. ASSUME NEW p \in Programs, MarkDirty(p) PROVE Elsewhere
  BY <1>9 DEF MarkDirty, Move
<1>10. ASSUME NEW p \in Programs, MarkClean(p) PROVE Elsewhere
  BY <1>10 DEF MarkClean, Move
<1>11. ASSUME NEW p \in Programs, Finish(p) PROVE Elsewhere
  BY <1>11 DEF Finish, Move, Exit, Release
<1>12. ASSUME NEW p \in Programs, Open(p) PROVE Elsewhere
  BY <1>12 DEF Open, Move
<1>13. ASSUME NEW p \in Programs, Stop(p) PROVE Elsewhere
  BY <1>13 DEF Stop, Exit, Release
<1>14. ASSUME NEW p \in Programs, NoTables(p) PROVE Elsewhere
  BY <1>14 DEF NoTables, Exit, Release
<1>15. ASSUME NEW p \in Programs, UserExists(p) PROVE Elsewhere
  BY <1>15 DEF UserExists, Exit, Release
<1>16. ASSUME NEW p \in Programs, Break(p) PROVE Elsewhere
  BY <1>16 DEF Break, Exit, Release
<1>17. ASSUME ForceVersion PROVE Elsewhere
  BY <1>17 DEF ForceVersion
<1>18. ASSUME UNCHANGED vars PROVE Elsewhere
  BY <1>18 DEF vars
<1> HIDE DEF TypeOK, Elsewhere, Provisioning, schema, accounts, locks, given
<1> QED
  BY <1>1, <1>2, <1>3, <1>4, <1>5, <1>6, <1>7, <1>8, <1>9, <1>10, <1>11, <1>12,
    <1>13, <1>14, <1>15, <1>16, <1>17, <1>18
  DEF Next, Start, Progress

\* Dropping the tables waits for whoever is provisioning: he holds the row.
LEMMA DropWaits ==
  ASSUME TypeOK, NEW p \in Programs, Run(p), ~ Forward(p), at[p] = AuthMigration,
         NEW q \in Programs
  PROVE  stage[q] \notin Provisioning
BY DeploymentAssumption DEF TypeOK, Run

\* Any other migration leaves them alone.
LEMMA RunKeeps ==
  ASSUME TypeOK, NEW p \in Programs, Run(p), Forward(p) \/ at[p] # AuthMigration
  PROVE  UNCHANGED accounts /\ (AuthMigration \in applied => AuthMigration \in applied')
BY DEF Run

\* Provisioned: one transaction at a time holds the row of the role.
LEMMA ProvisionedStep ==
  ASSUME TypeOK, Provisioned, [Next]_vars
  PROVE  Provisioned'
<1> USE DeploymentAssumption
<1> USE DEF TypeOK, Provisioned, schema, accounts, locks, given
<1>1. CASE Elsewhere
  BY <1>1 DEF Elsewhere, Provisioning
<1>2. ASSUME NEW p \in Programs, Run(p) PROVE Provisioned'
  <2>1. ASSUME NEW q \in Programs, stage'[q] \in Provisioning
        PROVE  stage[q] = stage'[q] /\ email'[q] = email[q]
    BY <1>2, <2>1 DEF Run, Move, Provisioning
  <2>2. CASE ~ Forward(p) /\ at[p] = AuthMigration
    BY <1>2, <2>1, <2>2, DropWaits DEF Provisioning
  <2>3. CASE Forward(p) \/ at[p] # AuthMigration
    BY <1>2, <2>1, <2>3, RunKeeps DEF Provisioning
  <2> QED
    BY <2>2, <2>3
<1>3. ASSUME NEW p \in Programs, EnsureRole(p) PROVE Provisioned'
  BY <1>3 DEF EnsureRole, Move, Provisioning
<1>4. ASSUME NEW p \in Programs, InsertUser(p) PROVE Provisioned'
  BY <1>4 DEF InsertUser, Move, Provisioning
<1>5. ASSUME NEW p \in Programs, Grant(p) PROVE Provisioned'
  BY <1>5 DEF Grant, Move, Provisioning
<1>6. ASSUME NEW p \in Programs, CommitAdmin(p) PROVE Provisioned'
  <2>1. /\ stage[p] = "granted" /\ stage' = [stage EXCEPT ![p] = "off"]
        /\ UNCHANGED <<applied, email>>
    BY <1>6 DEF CommitAdmin, Exit
  <2>2. ASSUME NEW q \in Programs PROVE stage'[q] \notin Provisioning
    BY <2>1 DEF Provisioning
  <2> QED
    BY <2>2 DEF Provisioning
<1> QED
  BY AccountKinds, <1>1, <1>2, <1>3, <1>4, <1>5, <1>6

\* AccountsAreWhole: the commit publishes everything at once.
LEMMA WholeStep ==
  ASSUME TypeOK, Provisioned, AccountsAreWhole, [Next]_vars
  PROVE  AccountsAreWhole'
<1> USE DeploymentAssumption
<1> USE DEF TypeOK, AccountsAreWhole, schema, accounts, locks, given
<1>1. CASE Elsewhere
  BY <1>1 DEF Elsewhere
<1>2. ASSUME NEW p \in Programs, Run(p) PROVE AccountsAreWhole'
  <2>1. CASE ~ Forward(p) /\ at[p] = AuthMigration
    BY <1>2, <2>1 DEF Run
  <2>2. CASE Forward(p) \/ at[p] # AuthMigration
    BY <1>2, <2>2, RunKeeps
  <2> QED
    BY <2>1, <2>2
<1>3. ASSUME NEW p \in Programs, EnsureRole(p) \/ InsertUser(p) \/ Grant(p)
      PROVE  AccountsAreWhole'
  BY <1>3 DEF EnsureRole, InsertUser, Grant
<1>4. ASSUME NEW p \in Programs, CommitAdmin(p) PROVE AccountsAreWhole'
  <2>1. AuthMigration \in applied
    BY <1>4 DEF CommitAdmin, Provisioned, Provisioning
  <2> QED
    BY <1>4, <2>1 DEF CommitAdmin
<1> QED
  BY AccountKinds, <1>1, <1>2, <1>3, <1>4

-----------------------------------------------------------------------------
(* Theorems.                                                               *)

\* IInv is inductive.
THEOREM InductiveInvariant == Spec => []IInv
<1>1. IInv /\ [Next]_vars => IInv'
  BY TypeStep, WorkingStep, VersionStep, ConfiguredStep, AimedStep, ProvisionedStep,
     WholeStep
  DEF IInv
<1> QED
  BY InitIInv, <1>1, PTL DEF Spec

\* The lock has one holder, and only its holder works.
THEOREM TypeCorrect == Spec => []TypeOK
<1>1. IInv => TypeOK
  BY DEF IInv
<1> QED
  BY InductiveInvariant, <1>1, PTL

\* A version that is not dirty is that of the schema.
THEOREM VersionAlwaysTruthful == Spec => []VersionTruthful
<1>1. IInv => VersionTruthful
  BY DEF IInv
<1> QED
  BY InductiveInvariant, <1>1, PTL

\* Every instance that serves can authenticate if it has a database, and a
\* production instance is configured as one.
THEOREM InstancesConfigured == Spec => []ServingIsConfigured
<1>1. IInv => ServingIsConfigured
  BY DEF IInv, Configured, Sound, ServingIsConfigured
<1> QED
  BY InductiveInvariant, <1>1, PTL

\* Without the lock nobody works, and nobody gets it while the flag is set.
LEMMA DirtyStep ==
  ASSUME IInv, [Next]_vars
  PROVE  LeavesDirtyAlone
<1> USE DeploymentAssumption
<1> USE DEF IInv, TypeOK, Working, VersionTruthful, LeavesDirtyAlone, schema,
    locks, given
<1>1. CASE Aside
  BY <1>1 DEF Aside, AtWork
<1>2. ASSUME NEW p \in Programs, Lock(p) PROVE LeavesDirtyAlone
  BY <1>2 DEF Lock, Aim, Move
<1>3. ASSUME NEW p \in Programs, MarkDirty(p) PROVE LeavesDirtyAlone
  BY <1>3 DEF MarkDirty, Move, More, Target, Forward
<1>4. ASSUME NEW p \in Programs, Run(p) PROVE LeavesDirtyAlone
  BY <1>4 DEF Run, Move, Target, Forward
<1>5. ASSUME NEW p \in Programs, MarkClean(p) PROVE LeavesDirtyAlone
  BY <1>5 DEF MarkClean, Move, Target, Forward
<1>6. ASSUME NEW p \in Programs, Finish(p) PROVE LeavesDirtyAlone
  BY <1>6 DEF Finish, Move, Exit, Release, More, Forward
<1>7. ASSUME NEW p \in Programs, Break(p), lock = p PROVE LeavesDirtyAlone
  BY <1>7 DEF Break, Exit, Release
<1>8. CASE ForceVersion
  BY <1>8 DEF ForceVersion
<1> QED
  BY StepKinds, <1>1, <1>2, <1>3, <1>4, <1>5, <1>6, <1>7, <1>8 DEF IInv

\* Only an operator takes up a dirty schema.
THEOREM DirtyLeftAlone == Spec => DirtyIsLeftAlone
<1>1. IInv /\ [Next]_vars => LeavesDirtyAlone
  BY DirtyStep
<1> QED
  BY InductiveInvariant, <1>1, PTL DEF Spec, DirtyIsLeftAlone

\* A program at work has not reported anything.
Unreported == \A p \in Programs : stage[p] # "off" => outcome[p] = "none"

\* A start clears what the last run has reported, and only an exit reports.
LEMMA UnreportedStep ==
  ASSUME TypeOK, Unreported, [Next]_vars
  PROVE  Unreported'
<1> USE DeploymentAssumption
<1> USE DEF TypeOK, Unreported, Stages, schema, locks, given
<1>1. ASSUME NEW p \in Programs, StartAPI(p) PROVE Unreported'
  BY <1>1 DEF StartAPI, Enter, Move
<1>2. ASSUME NEW p \in Programs, StartMigrate(p) PROVE Unreported'
  BY <1>2 DEF StartMigrate, Enter, Move
<1>3. ASSUME NEW p \in Programs, StartAuth(p) PROVE Unreported'
  BY <1>3 DEF StartAuth, Enter, Move
<1>4. ASSUME NEW p \in Programs, Refuse(p) PROVE Unreported'
  BY <1>4 DEF Refuse, Exit, Release
<1>5. ASSUME NEW p \in Programs, Join(p) PROVE Unreported'
  BY <1>5 DEF Join, Move
<1>6. ASSUME NEW p \in Programs, Version(p) PROVE Unreported'
  BY <1>6 DEF Version, Exit, Release
<1>7. ASSUME NEW p \in Programs, Lock(p) PROVE Unreported'
  BY <1>7 DEF Lock, Aim, Move
<1>8. ASSUME NEW p \in Programs, FindDirty(p) PROVE Unreported'
  BY <1>8 DEF FindDirty, Exit, Release
<1>9. ASSUME NEW p \in Programs, MarkDirty(p) PROVE Unreported'
  BY <1>9 DEF MarkDirty, Move, More, Target, Forward
<1>10. ASSUME NEW p \in Programs, Run(p) PROVE Unreported'
  BY <1>10 DEF Run, Move, Target, Forward
<1>11. ASSUME NEW p \in Programs, MarkClean(p) PROVE Unreported'
  BY <1>11 DEF MarkClean, Move, Target, Forward
<1>12. ASSUME NEW p \in Programs, Finish(p) PROVE Unreported'
  BY <1>12 DEF Finish, Move, Exit, Release, More, Forward
<1>13. ASSUME NEW p \in Programs, Open(p) PROVE Unreported'
  BY <1>13 DEF Open, Move
<1>14. ASSUME NEW p \in Programs, Stop(p) PROVE Unreported'
  BY <1>14 DEF Stop, Exit, Release
<1>15. ASSUME NEW p \in Programs, EnsureRole(p) PROVE Unreported'
  BY <1>15 DEF EnsureRole, Move
<1>16. ASSUME NEW p \in Programs, NoTables(p) PROVE Unreported'
  BY <1>16 DEF NoTables, Exit, Release
<1>17. ASSUME NEW p \in Programs, InsertUser(p) PROVE Unreported'
  BY <1>17 DEF InsertUser, Move
<1>18. ASSUME NEW p \in Programs, UserExists(p) PROVE Unreported'
  BY <1>18 DEF UserExists, Exit, Release
<1>19. ASSUME NEW p \in Programs, Break(p) PROVE Unreported'
  BY <1>19 DEF Break, Exit, Release
<1>20. CASE ForceVersion
  BY <1>20 DEF ForceVersion
<1>21. CASE UNCHANGED vars
  BY <1>21 DEF vars
<1>22. ASSUME NEW p \in Programs, Grant(p) PROVE Unreported'
  BY <1>22 DEF Grant, Move
<1>23. ASSUME NEW p \in Programs, CommitAdmin(p) PROVE Unreported'
  BY <1>23 DEF CommitAdmin, Exit, Release
<1> QED
  BY <1>1, <1>2, <1>3, <1>4, <1>5, <1>6, <1>7, <1>8, <1>9, <1>10, <1>11,
    <1>12, <1>13, <1>14, <1>15, <1>16, <1>17, <1>18, <1>19, <1>20, <1>21, <1>22, <1>23
  DEF Next, Start, Progress

LEMMA NothingReported == Spec => []Unreported
<1>1. Init => Unreported
  BY DEF Init, Unreported
<1>2. IInv /\ Unreported /\ [Next]_vars => Unreported'
  BY UnreportedStep DEF IInv
<1> QED
  BY InductiveInvariant, <1>1, <1>2, PTL DEF Spec

\* Who stops stepping has nothing left to do, and so has reached its goal.
LEMMA CompleteStep ==
  ASSUME IInv, Unreported, [Next]_vars
  PROVE  CompletesMigration
<1> USE DeploymentAssumption
<1> USE DEF IInv, TypeOK, Working, Aimed, VersionTruthful, Unreported,
    CompletesMigration, Stages, More, Forward, schema, locks, given
<1>1. CASE Aside
  BY <1>1 DEF Aside, AtWork
<1>2. ASSUME NEW p \in Programs, Lock(p) PROVE CompletesMigration
  BY <1>2 DEF Lock, Aim, Move
<1>3. ASSUME NEW p \in Programs, MarkDirty(p) PROVE CompletesMigration
  BY <1>3 DEF MarkDirty, Move, More, Target, Forward
<1>4. ASSUME NEW p \in Programs, Run(p) PROVE CompletesMigration
  BY <1>4 DEF Run, Move, Target, Forward
<1>5. ASSUME NEW p \in Programs, MarkClean(p) PROVE CompletesMigration
  BY <1>5 DEF MarkClean, Move, Target, Forward
<1>6. ASSUME NEW p \in Programs, Finish(p) PROVE CompletesMigration
  BY <1>6 DEF Finish, Move, Exit, Release, More, Forward
<1>7. ASSUME NEW p \in Programs, Break(p), lock = p PROVE CompletesMigration
  BY <1>7 DEF Break, Exit, Release
<1>8. CASE ForceVersion
  BY <1>8 DEF ForceVersion
<1> QED
  BY StepKinds, <1>1, <1>2, <1>3, <1>4, <1>5, <1>6, <1>7, <1>8 DEF IInv

\* Success is reported of a complete migration only, upwards or downwards.
THEOREM MigratedComplete == Spec => MigratedMeansComplete
<1>1. IInv /\ Unreported /\ [Next]_vars => CompletesMigration
  BY CompleteStep
<1> QED
  BY InductiveInvariant, NothingReported, <1>1, PTL DEF Spec, MigratedMeansComplete

\* An account that is there has its role, its permission and its tables.
THEOREM AccountsWhole == Spec => []AccountsAreWhole
<1>1. IInv => AccountsAreWhole
  BY DEF IInv
<1> QED
  BY InductiveInvariant, <1>1, PTL

\* Whoever commits has kept the address free since it was inserted, and only
\* the end of the tables ends an account.
LEMMA CreatorStep ==
  ASSUME IInv, Unreported, [Next]_vars
  PROVE  KeepsCreators
<1> USE DeploymentAssumption
<1> USE DEF IInv, TypeOK, KeepsCreators, schema, accounts, locks, given
<1>1. ASSUME NEW p \in Programs, stage[p] \in Provisioning PROVE outcome[p] = "none"
  BY <1>1 DEF Unreported, Provisioning
<1>2. CASE Elsewhere
  BY <1>1, <1>2 DEF Elsewhere
<1>3. ASSUME NEW p \in Programs, Run(p) PROVE KeepsCreators
  <2>1. \A q \in Programs : stage[q] \in Provisioning => outcome'[q] = "none"
    BY <1>1, <1>3 DEF Run
  <2>2. CASE ~ Forward(p) /\ at[p] = AuthMigration
    BY <1>3, <2>1, <2>2 DEF Run
  <2>3. CASE Forward(p) \/ at[p] # AuthMigration
    BY <1>3, <2>1, <2>3, RunKeeps
  <2> QED
    BY <2>2, <2>3
<1>4. ASSUME NEW p \in Programs, EnsureRole(p) \/ InsertUser(p) \/ Grant(p)
      PROVE  KeepsCreators
  BY <1>1, <1>4 DEF EnsureRole, InsertUser, Grant
<1>5. ASSUME NEW p \in Programs, CommitAdmin(p) PROVE KeepsCreators
  <2>1. /\ stage[p] = "granted"
        /\ owner' = [owner EXCEPT ![email[p]] = p]
        /\ \A q \in Programs : q # p => outcome'[q] = outcome[q]
        /\ UNCHANGED email
    BY <1>5 DEF CommitAdmin, Exit
  <2>2. owner[email[p]] = Nobody
    BY <2>1 DEF Provisioned
  <2> QED
    BY <1>1, <2>1, <2>2
<1> QED
  BY AccountKinds, <1>2, <1>3, <1>4, <1>5

\* An account has one creator for as long as its table exists.
THEOREM CreatorsKept == Spec => OneCreatorPerAccount
<1>1. IInv /\ Unreported /\ [Next]_vars => KeepsCreators
  BY CreatorStep
<1> QED
  BY InductiveInvariant, NothingReported, <1>1, PTL DEF Spec, OneCreatorPerAccount

-----------------------------------------------------------------------------
(* The abstract specification.                                             *)

\* Every step of any program, or of the operator, is a step of SchemaLevels or
\* leaves the schema and its record alone.
LEMMA LevelsStep ==
  ASSUME IInv, [Next]_vars
  PROVE  [Levels!Next]_(Levels!vars)
<1> USE DeploymentAssumption
<1> USE DEF IInv, TypeOK, Working, VersionTruthful, Levels!vars, schema, locks, given
<1>1. CASE Aside
  BY <1>1 DEF Aside, AtWork
<1>2. ASSUME NEW p \in Programs, Lock(p) PROVE [Levels!Next]_(Levels!vars)
  <2>1. Levels!Begin
    BY <1>2 DEF Lock, Move, Levels!Begin
  <2> QED
    BY <2>1 DEF Levels!Next
<1>3. ASSUME NEW p \in Programs, MarkDirty(p) PROVE [Levels!Next]_(Levels!vars)
  <2>1. Levels!Announce
    BY <1>3 DEF MarkDirty, Move, More, Target, Forward, Levels!Announce
  <2> QED
    BY <2>1 DEF Levels!Next
<1>4. ASSUME NEW p \in Programs, Run(p) PROVE [Levels!Next]_(Levels!vars)
  \* At p's level before, at its target after: never the same.
  <2>1. /\ stage[p] = "applying" /\ lock = p /\ dirty
        /\ applied = 1 .. at[p] /\ at[p] \in 0 .. Last
        /\ version = Target(p) /\ More(p)
        /\ UNCHANGED <<version, dirty, lock>>
    BY <1>4 DEF Run, Move
  <2>2. applied' = 1 .. version
    <3>1. CASE Forward(p)
      <4>1. applied' = applied \cup {at[p] + 1} /\ version = at[p] + 1
        BY <1>4, <2>1, <3>1 DEF Run, Target
      <4> QED
        BY <2>1, <4>1
    <3>2. CASE ~ Forward(p)
      <4>1. applied' = applied \ {at[p]} /\ version = at[p] - 1
        BY <1>4, <2>1, <3>2 DEF Run, Target
      <4> QED
        BY <2>1, <4>1
    <3> QED
      BY <3>1, <3>2
  <2>3. applied # 1 .. version
    <3>1. CASE version = at[p] + 1
      <4>1. version \in 1 .. version /\ version \notin 1 .. at[p]
        BY <2>1, <3>1
      <4> QED
        BY <2>1, <4>1
    <3>2. CASE version = at[p] - 1 /\ at[p] > 0
      <4>1. at[p] \in 1 .. at[p] /\ at[p] \notin 1 .. version
        BY <2>1, <3>2
      <4> QED
        BY <2>1, <4>1
    <3> QED
      BY <2>1, <3>1, <3>2 DEF Target, More
  <2>4. Levels!Execute
    BY <2>1, <2>2, <2>3 DEF Levels!Execute
  <2> QED
    BY <2>4 DEF Levels!Next
<1>5. ASSUME NEW p \in Programs, MarkClean(p) PROVE [Levels!Next]_(Levels!vars)
  <2>1. Levels!Complete
    BY <1>5 DEF MarkClean, Move, Target, Forward, Levels!Complete
  <2> QED
    BY <2>1 DEF Levels!Next
<1>6. ASSUME NEW p \in Programs, Finish(p) PROVE [Levels!Next]_(Levels!vars)
  <2>1. Levels!End
    BY <1>6 DEF Finish, Move, Exit, Release, Levels!End
  <2> QED
    BY <2>1 DEF Levels!Next
<1>7. ASSUME NEW p \in Programs, Break(p), lock = p PROVE [Levels!Next]_(Levels!vars)
  <2>1. CASE lock = p
    <3>1. Levels!End
      BY <1>7, <2>1 DEF Break, Exit, Release, Levels!End
    <3> QED
      BY <3>1 DEF Levels!Next
  <2>2. CASE lock # p
    BY <1>7, <2>2 DEF Break, Exit, Release
  <2> QED
    BY <2>1, <2>2
<1>8. CASE ForceVersion
  <2>1. Levels!Resolve
    BY <1>8 DEF ForceVersion, Levels!Resolve
  <2> QED
    BY <2>1 DEF Levels!Next
<1> QED
  BY StepKinds, <1>1, <1>2, <1>3, <1>4, <1>5, <1>6, <1>7, <1>8 DEF IInv

\* The programs of a deployment, any number of them, implement SchemaLevels.
THEOREM Refinement == Spec => ImplementsSchemaLevels
<1>1. Init => Levels!Init
  BY DEF Init, Levels!Init
<1>2. IInv /\ [Next]_vars => [Levels!Next]_(Levels!vars)
  BY LevelsStep
<1> QED
  BY <1>1, <1>2, InductiveInvariant, PTL DEF Spec, ImplementsSchemaLevels, Levels!Spec
=============================================================================
