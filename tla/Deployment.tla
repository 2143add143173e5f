------------------------------ MODULE Deployment ------------------------------
(***************************************************************************)
(* The programs of a deployment at work on one database: API instances,    *)
(* which may migrate it when they start, cmd/migrate, and cmd/auth, which  *)
(* creates administrators.  Any number of them run side by side, and each  *)
(* may lose its connection or be killed between any two statements.        *)
(*                                                                         *)
(* golang-migrate keeps its version and dirty flag in one row and holds an *)
(* advisory lock of the session while it works; it sets the flag, executes *)
(* one migration, which PostgreSQL does as a whole or not at all, and      *)
(* clears it.  No program clears the flag of another.                      *)
(***************************************************************************)
EXTENDS Configuration

CONSTANTS
  Programs,      \* processes
  Envs,          \* their environments
  Emails,
  Last,          \* the migrations are 1 .. Last
  AuthMigration, \* the one that creates users, roles and permissions
  MaxSteps,      \* bound on -steps
  Nobody

ASSUME DeploymentAssumption ==
  /\ Last \in Nat
  /\ AuthMigration \in 1 .. Last
  /\ MaxSteps \in Nat
  /\ Nobody \notin Programs
  /\ \A e \in Envs : /\ DOMAIN e = DOMAIN Defaults
                     /\ {e.database, e.migrate} \subseteq {TRUE, FALSE, Unset, Junk}

VARIABLES
  version, dirty, \* the row of schema_migrations; version 0 is no row
  applied,        \* the migrations the schema has
  owner,          \* owner[e]: who created the account e, once committed
  granted,        \* the accounts with a role, and that with its permission
  lock,           \* holder of golang-migrate's advisory lock
  roleLock,       \* holder of the row of the administrator role
  stage,          \* how far each program has come
  job,            \* what it was started for
  steps,          \* migrations it still has to revert
  at,             \* the version it has read, or reached
  email,          \* the account it shall create
  setup,          \* what an API instance has taken from its configuration
  outcome         \* how its last run ended

\* History, which only the properties read.
VARIABLE
  goal            \* the version at which a migration shall be complete

schema == <<version, dirty, applied>>
accounts == <<owner, granted>>
locks == <<lock, roleLock>>
given == <<job, email, setup>>
vars == <<schema, accounts, locks, stage, given, steps, at, goal, outcome>>

Jobs == {"none", "api", "up", "down", "version", "admin"}

Stages ==
  { "off",
    "joining",   \* in WithInstance, which takes the lock once for its table
    "locking",   \* in m.Up or m.Steps, before it has the lock
    "stepping",  \* with the lock, between two migrations
    "applying",  \* the flag is set
    "marking",   \* the migration has been executed
    "opening",   \* db.Open
    "creating",  \* CreateAdmin, before its transaction
    "holding",   \* inside it, with the role and its permission
    "inserted",  \* the user's row is inserted
    "granted",   \* and so are the rows that grant it the role
    "serving" }

Outcomes == {"none", "ok", "failed", "exists"}

Idle == [database |-> FALSE, migrates |-> FALSE, available |-> FALSE,
         production |-> FALSE, secure |-> FALSE]

Setup(c) == [database |-> c.database, migrates |-> c.migrate,
             available |-> Available(c),
             production |-> c.appEnv = "production", secure |-> CookieSecure(c)]

Init ==
  /\ version = 0 /\ dirty = FALSE /\ applied = {}
  /\ owner = [e \in Emails |-> Nobody] /\ granted = {}
  /\ lock = Nobody /\ roleLock = Nobody
  /\ stage = [p \in Programs |-> "off"]
  /\ job = [p \in Programs |-> "none"]
  /\ steps = [p \in Programs |-> 0]
  /\ at = [p \in Programs |-> 0]
  /\ goal = [p \in Programs |-> 0]
  /\ email \in [Programs -> Emails]
  /\ setup = [p \in Programs |-> Idle]
  /\ outcome = [p \in Programs |-> "none"]

Move(p, from, to) ==
  /\ stage[p] = from
  /\ stage' = [stage EXCEPT ![p] = to]

\* Mutant of Release: a lock outlives the connection.
Keep(p) == UNCHANGED lock /\ roleLock' = (IF roleLock = p THEN Nobody ELSE roleLock)

\* A connection that is closed, or lost, rolls back and releases its locks.
Release(p) ==
  /\ lock' = IF lock = p THEN Nobody ELSE lock
  /\ roleLock' = IF roleLock = p THEN Nobody ELSE roleLock

Exit(p, code) ==
  /\ stage' = [stage EXCEPT ![p] = "off"]
  /\ outcome' = [outcome EXCEPT ![p] = code]
  /\ Release(p)
  /\ job' = [job EXCEPT ![p] = "none"]
  /\ setup' = [setup EXCEPT ![p] = Idle]
  /\ steps' = [steps EXCEPT ![p] = 0]
  /\ at' = [at EXCEPT ![p] = 0]
  /\ goal' = [goal EXCEPT ![p] = 0]

-----------------------------------------------------------------------------
(* The start of each program.                                              *)

\* Run p, which shall begin at the given stage.
Enter(p, what, n, to) ==
  /\ Move(p, "off", to)
  /\ job' = [job EXCEPT ![p] = what]
  /\ steps' = [steps EXCEPT ![p] = n]
  /\ outcome' = [outcome EXCEPT ![p] = "none"]
  /\ UNCHANGED <<schema, accounts, locks, at, goal>>

\* What the environments come to.
Setups ==
  {Setup(Config(e)) : e \in {e \in Envs :
     /\ Loads(e)
     /\ ValidateAuthRuntime(Config(e)) /\ LoadsTokenManager(Config(e))}}

MayMigrate == \E e \in Envs : Loads(e) /\ MigrationURLRequired(Config(e))
MayProvision == \E e \in Envs : Loads(e) /\ Config(e).database

StartAPI(p) ==
  \E s \in Setups :
    /\ Enter(p, "api", 0, IF s.migrates THEN "joining"
                          ELSE IF s.database THEN "opening" ELSE "serving")
    /\ setup' = [setup EXCEPT ![p] = s]
    /\ UNCHANGED email

StartMigrate(p) ==
  /\ MayMigrate
  /\ \/ Enter(p, "up", 0, "joining")
     \/ \E n \in 1 .. MaxSteps : Enter(p, "down", n, "joining")
     \/ Enter(p, "version", 0, "joining")
  /\ UNCHANGED <<email, setup>>

StartAuth(p) ==
  /\ MayProvision
  /\ Enter(p, "admin", 0, "opening")
  /\ \E e \in Emails : email' = [email EXCEPT ![p] = e]
  /\ UNCHANGED setup

\* A configuration that is refused, or a step count below one.
Refuse(p) ==
  /\ stage[p] = "off"
  /\ Exit(p, "failed")
  /\ UNCHANGED <<schema, accounts, email>>

-----------------------------------------------------------------------------
(* Migrations.                                                             *)

Forward(p) == job[p] \in {"up", "api"}
More(p) == IF Forward(p) THEN at[p] < Last ELSE steps[p] > 0 /\ at[p] > 0
Target(p) == IF Forward(p) THEN at[p] + 1 ELSE at[p] - 1

\* WithInstance waits for the lock, however long, and creates its table.
Join(p) ==
  /\ job[p] # "version"
  /\ Move(p, "joining", "locking")
  /\ lock = Nobody
  /\ UNCHANGED <<schema, accounts, locks, given, steps, at, goal, outcome>>

\* Version reads the row without the lock; a dirty one is no error.
Version(p) ==
  /\ job[p] = "version"
  /\ stage[p] = "joining"
  /\ lock = Nobody
  /\ Exit(p, "ok")
  /\ UNCHANGED <<schema, accounts, email>>

\* From the version that is recorded to the last one, or down by the steps
\* asked for, which may be more than there are.
Aim(p) ==
  /\ at' = [at EXCEPT ![p] = version]
  /\ goal' = [goal EXCEPT ![p] = IF Forward(p) THEN Last ELSE version - steps[p]]

\* Mutant of Lock: a dirty version is taken for a clean one.
LockDirty(p) ==
  /\ Move(p, "locking", "stepping")
  /\ lock = Nobody
  /\ lock' = p
  /\ Aim(p)
  /\ UNCHANGED <<schema, accounts, roleLock, given, steps, outcome>>

\* Mutant of Lock: nobody waits.
LockShared(p) ==
  /\ Move(p, "locking", "stepping")
  /\ ~ dirty
  /\ lock' = p
  /\ Aim(p)
  /\ UNCHANGED <<schema, accounts, roleLock, given, steps, outcome>>

\* Up and Steps read the version under the lock.
Lock(p) ==
  /\ Move(p, "locking", "stepping")
  /\ lock = Nobody
  /\ ~ dirty
  /\ lock' = p
  /\ Aim(p)
  /\ UNCHANGED <<schema, accounts, roleLock, given, steps, outcome>>

\* ErrDirty.
FindDirty(p) ==
  /\ stage[p] = "locking"
  /\ lock = Nobody
  /\ dirty
  /\ Exit(p, "failed")
  /\ UNCHANGED <<schema, accounts, email>>

\* SetVersion(target, true).
MarkDirty(p) ==
  /\ Move(p, "stepping", "applying")
  /\ More(p)
  /\ version' = Target(p)
  /\ dirty' = TRUE
  /\ UNCHANGED <<applied, accounts, locks, given, steps, at, goal, outcome>>

\* Dropping the tables waits for a transaction that has locked rows of theirs.
Run(p) ==
  /\ Move(p, "applying", "marking")
  /\ IF Forward(p)
     THEN applied' = applied \cup {Target(p)} /\ UNCHANGED accounts
     ELSE /\ at[p] = AuthMigration => roleLock = Nobody
          /\ applied' = applied \ {at[p]}
          /\ IF at[p] = AuthMigration
             THEN owner' = [e \in Emails |-> Nobody] /\ granted' = {}
             ELSE UNCHANGED accounts
  /\ UNCHANGED <<version, dirty, locks, given, steps, at, goal, outcome>>

\* SetVersion(target, false).
MarkClean(p) ==
  /\ Move(p, "marking", "stepping")
  /\ version' = Target(p)
  /\ dirty' = FALSE
  /\ at' = [at EXCEPT ![p] = Target(p)]
  /\ steps' = [steps EXCEPT ![p] = IF Forward(p) THEN @ ELSE @ - 1]
  /\ UNCHANGED <<applied, accounts, locks, given, goal, outcome>>

\* Mutant of Finish: running out of migrations is no error.
FinishShort(p) ==
  /\ stage[p] = "stepping"
  /\ ~ More(p)
  /\ IF job[p] = "api"
     THEN /\ Move(p, "stepping", "opening")
          /\ Release(p)
          /\ at' = [at EXCEPT ![p] = 0]
          /\ goal' = [goal EXCEPT ![p] = 0]
          /\ UNCHANGED <<job, setup, steps, outcome>>
     ELSE Exit(p, "ok")
  /\ UNCHANGED <<schema, accounts, email>>

\* Nothing is left to do: ErrNoChange, or done.  Reverting more migrations
\* than there are fails once they are reverted.
Finish(p) ==
  /\ stage[p] = "stepping"
  /\ ~ More(p)
  /\ IF job[p] = "api"
     THEN /\ Move(p, "stepping", "opening")
          /\ Release(p)
          /\ at' = [at EXCEPT ![p] = 0]
          /\ goal' = [goal EXCEPT ![p] = 0]
          /\ UNCHANGED <<job, setup, steps, outcome>>
     ELSE Exit(p, IF steps[p] = 0 THEN "ok" ELSE "failed")
  /\ UNCHANGED <<schema, accounts, email>>

-----------------------------------------------------------------------------
(* The pool, the API and its administrators.                               *)

Open(p) ==
  /\ Move(p, "opening", IF job[p] = "api" THEN "serving" ELSE "creating")
  /\ UNCHANGED <<schema, accounts, locks, given, steps, at, goal, outcome>>

Stop(p) ==
  /\ stage[p] = "serving"
  /\ Exit(p, "ok")
  /\ UNCHANGED <<schema, accounts, email>>

Provisioning == {"holding", "inserted", "granted"}

\* The unique index makes an insert wait for the same address's uncommitted row.
NoneInserts(e) ==
  \A p \in Programs : stage[p] \in {"inserted", "granted"} => email[p] # e

\* The upsert of the role locks its row, and later runs wait for it.
EnsureRole(p) ==
  /\ Move(p, "creating", "holding")
  /\ AuthMigration \in applied
  /\ roleLock = Nobody
  /\ roleLock' = p
  /\ UNCHANGED <<schema, accounts, lock, given, steps, at, goal, outcome>>

NoTables(p) ==
  /\ stage[p] = "creating"
  /\ AuthMigration \notin applied
  /\ Exit(p, "failed")
  /\ UNCHANGED <<schema, accounts, email>>

\* Mutant of InsertUser: ON CONFLICT DO UPDATE.
UpsertUser(p) ==
  /\ Move(p, "holding", "inserted")
  /\ NoneInserts(email[p])
  /\ UNCHANGED <<schema, accounts, locks, given, steps, at, goal, outcome>>

\* Mutant of InsertUser: outside the transaction.
InsertUserAtOnce(p) ==
  /\ Move(p, "holding", "inserted")
  /\ NoneInserts(email[p])
  /\ owner[email[p]] = Nobody
  /\ owner' = [owner EXCEPT ![email[p]] = p]
  /\ UNCHANGED <<schema, granted, locks, given, steps, at, goal, outcome>>

\* INSERT ... ON CONFLICT DO NOTHING inserts a row nobody else sees yet.
InsertUser(p) ==
  /\ Move(p, "holding", "inserted")
  /\ NoneInserts(email[p])
  /\ owner[email[p]] = Nobody
  /\ UNCHANGED <<schema, accounts, locks, given, steps, at, goal, outcome>>

\* It has returned no row: ErrUserExists.
UserExists(p) ==
  /\ stage[p] = "holding"
  /\ NoneInserts(email[p])
  /\ owner[email[p]] # Nobody
  /\ Exit(p, "exists")
  /\ UNCHANGED <<schema, accounts, email>>

\* The rows of user_roles and role_permissions.
Grant(p) ==
  /\ Move(p, "inserted", "granted")
  /\ UNCHANGED <<schema, accounts, locks, given, steps, at, goal, outcome>>

\* The commit publishes all rows, and its reply may be lost.
CommitAdmin(p) ==
  /\ stage[p] = "granted"
  /\ owner' = [owner EXCEPT ![email[p]] = p]
  /\ granted' = granted \cup {email[p]}
  /\ \E told \in {"ok", "failed"} : Exit(p, told)
  /\ UNCHANGED <<schema, email>>

-----------------------------------------------------------------------------
(* Environment.                                                            *)

\* A lost connection, a failing statement, the lock timeout, invalid input, a
\* signal, a crash.
Break(p) ==
  /\ stage[p] # "off"
  /\ Exit(p, "failed")
  /\ UNCHANGED <<schema, accounts, email>>

\* An operator looks at the schema and forces the version golang-migrate shall
\* believe.  No program here does.
ForceVersion ==
  /\ dirty /\ lock = Nobody
  /\ version' \in 0 .. Last
  /\ applied = 1 .. version'
  /\ dirty' = FALSE
  /\ UNCHANGED <<applied, accounts, locks, stage, given, steps, at, goal, outcome>>

Start(p) == StartAPI(p) \/ StartMigrate(p) \/ StartAuth(p) \/ Refuse(p)

\* What a program does by itself.
Progress(p) ==
  \/ Join(p) \/ Version(p) \/ Lock(p) \/ FindDirty(p)
  \/ MarkDirty(p) \/ Run(p) \/ MarkClean(p) \/ Finish(p)
  \/ Open(p) \/ EnsureRole(p) \/ NoTables(p)
  \/ InsertUser(p) \/ UserExists(p) \/ Grant(p) \/ CommitAdmin(p)

Next ==
  \/ \E p \in Programs : Start(p) \/ Progress(p) \/ Stop(p) \/ Break(p)
  \/ ForceVersion

Spec == Init /\ [][Next]_vars

\* PostgreSQL grants a lock to its waiters in turn.
FairSpec == Spec /\ \A p \in Programs : SF_vars(Progress(p))

-----------------------------------------------------------------------------
(* Properties.                                                             *)

\* Type invariant.  Who has begun to work under a lock holds it.
TypeOK ==
  /\ version \in 0 .. Last
  /\ dirty \in BOOLEAN
  /\ applied \subseteq 1 .. Last
  /\ owner \in [Emails -> Programs \cup {Nobody}]
  /\ granted \subseteq Emails
  /\ lock \in Programs \cup {Nobody}
  /\ roleLock \in Programs \cup {Nobody}
  /\ stage \in [Programs -> Stages]
  /\ job \in [Programs -> Jobs]
  /\ steps \in [Programs -> 0 .. MaxSteps]
  /\ at \in [Programs -> 0 .. Last]
  /\ goal \in [Programs -> -MaxSteps .. Last]
  /\ email \in [Programs -> Emails]
  /\ setup \in [Programs -> [database : BOOLEAN, migrates : BOOLEAN,
                             available : BOOLEAN, production : BOOLEAN,
                             secure : BOOLEAN]]
  /\ outcome \in [Programs -> Outcomes]
  /\ \A p \in Programs :
       /\ stage[p] \in {"stepping", "applying", "marking"} <=> lock = p
       /\ stage[p] \in Provisioning <=> roleLock = p

\* However many instances and commands migrate at once, and wherever each of
\* them is interrupted: a version that is not dirty is the version of the
\* schema, so no later run skips a migration or executes it twice.
VersionTruthful == ~ dirty => applied = 1 .. version

\* A migration that was interrupted stops every program that would migrate, API
\* instances included, before it begins, until an operator has looked at the
\* schema.
LeavesDirtyAlone == dirty /\ lock = Nobody /\ ~ ForceVersion => UNCHANGED <<schema, lock>>
DirtyIsLeftAlone == [][LeavesDirtyAlone]_vars

\* Whatever mix of instances and commands migrates, interleaved and interrupted
\* anywhere, the database keeps the promise of SchemaLevels: migrations are
\* announced, executed and completed one at a time by one program, in order and
\* without a gap, and what a killed one leaves behind is off by one at most.
Levels == INSTANCE SchemaLevels
            WITH present <- applied, recorded <- version, working <- lock # Nobody
ImplementsSchemaLevels == Levels!Spec

\* An instance that migrates goes on to open its pool, and cmd/migrate reports
\* success, only when the schema is complete, or down has reverted exactly the
\* number of migrations it was asked to, counted from the version at which it
\* got the lock; of more than there were it reports a failure.
CompletesMigration ==
  \A p \in Programs :
    /\ stage[p] = "stepping"
    /\ stage'[p] = "opening" \/ outcome'[p] = "ok"
    => ~ dirty' /\ version' = goal[p] /\ applied' = 1 .. goal[p]
MigratedMeansComplete == [][CompletesMigration]_vars

\* However operators race, retry after a lost reply and are interrupted, and
\* whoever migrates beside them: an account that is there has its tables, its
\* role and its permission, so a later run that is told "exists" leaves no
\* account behind that cannot do its work.
AccountsAreWhole ==
  \A e \in Emails : owner[e] # Nobody => AuthMigration \in applied /\ e \in granted

\* Two operators who create the same account do not overwrite each other,
\* though the one that inserts it looks long before it commits: an account
\* keeps its creator, and so its password, while the tables are there, and who
\* is told "created" is its creator.
KeepsCreators ==
  /\ \A e \in Emails :
       owner[e] # Nobody /\ AuthMigration \in applied' => owner'[e] = owner[e]
  /\ \A p \in Programs :
       stage[p] \in Provisioning /\ outcome'[p] = "ok" => owner'[email[p]] = p
OneCreatorPerAccount == [][KeepsCreators]_vars

\* Whatever the environment: an instance that serves with a database can
\* authenticate, one without answers 503; production keeps its cookies secure
\* and does not migrate by itself.
ServingIsConfigured ==
  \A p \in Programs : stage[p] = "serving" /\ job[p] = "api" =>
    /\ setup[p].available <=> setup[p].database
    /\ setup[p].production => setup[p].secure /\ ~ setup[p].migrates

\* Every program ends, or serves: nobody keeps the lock it waits for, and an
\* interrupted migration does not stay in the way.
EveryProgramEnds ==
  \A p \in Programs : stage[p] # "off" ~> stage[p] \in {"off", "serving"}
=============================================================================
