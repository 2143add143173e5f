----------------------- MODULE RefreshSessions_proofs -----------------------
(***************************************************************************)
(* Proofs about RefreshSessions, for any users, tokens, requests and time. *)
(*                                                                         *)
(* The safety properties are not inductive by themselves.  What makes them *)
(* so is what the locks protect: a request in its transaction holds the    *)
(* row of the token it presented; from "locked" on it also holds its       *)
(* user's row, and with it the whole family, since every token of a family *)
(* has the same user and a rotation needs the lock on that user.  So the   *)
(* snapshot of a family UPDATE run under the user lock stays exact, and    *)
(* nothing revokes a token between the check and the commit of a rotation. *)
(***************************************************************************)
EXTENDS RefreshRefinement, FiniteSetTheorems, TLAPS

\* The rows of a family belong to one user, and the family's first is there.
RowsConsistent ==
  \A t \in stored :
    family[t] \in stored /\ owner[t] \in Users /\ owner[family[t]] = owner[t]

\* Where a request is says what it presented and which locks it holds.
LocksHeld ==
  \A r \in Requests :
    /\ pc[r] = "issuing" => user[r] \in Users
    /\ pc[r] \in {"presented", "ending", "ended"} => arg[r] \in stored \cup {NoToken}
    /\ pc[r] = "reuse" => arg[r] \in stored
    /\ pc[r] \in Transactional => arg[r] \in stored /\ rowLock[arg[r]] = r
    /\ pc[r] \in {"locked", "rotated", "revoking"} => userLock[owner[arg[r]]] = r

\* The snapshot of a family UPDATE holds rows of the presented token's family,
\* and the one taken under the user's lock still is the whole family.
BatchesExact ==
  \A r \in Requests :
    /\ batch[r] \subseteq stored
    /\ \A t \in batch[r] : arg[r] \in stored /\ family[t] = family[arg[r]]
    /\ pc[r] = "revoking" => batch[r] = FamilyRows(family[arg[r]])

AtMostOneLive ==
  \A s, t \in Live : family[s] = family[t] => s = t

ReusedFamiliesDead ==
  \A r \in Requests :
    pc[r] = "reuse" => \A t \in Live : family[t] # family[arg[r]]

\* Only a request in its transaction holds a lock.
HoldersRun ==
  \A r \in Requests :
    /\ \A t \in Tokens : rowLock[t] = r => pc[r] \in Transactional \cup {"ending"}
    /\ \A u \in Users : userLock[u] = r => pc[r] \in {"locked", "rotated", "revoking"}

UnusedRevokedDead ==
  \A t \in revoked \ used, s \in Live : family[s] # family[t]

IInv ==
  /\ TypeOK
  /\ RowsConsistent
  /\ LocksHeld
  /\ HoldersRun
  /\ BatchesExact
  /\ RotationActsOnCurrentState
  /\ AtMostOneLive
  /\ ReusedFamiliesDead
  /\ UnusedRevokedDead

-----------------------------------------------------------------------------
(***************************************************************************)
(* Type correctness.                                                       *)
(***************************************************************************)

\* The initial state is well typed.
LEMMA TypeInit == Init => TypeOK
  BY ConstantsAssumption DEF Init, TypeOK, Outcomes, Steps

\* What an answer does to locks and locals keeps their types.
LEMMA TypeFinish ==
  ASSUME TypeOK, NEW r \in Requests, NEW o \in Outcomes, Finish(r, o)
  PROVE  /\ active' \subseteq Users
         /\ rowLock' \in [Tokens -> Requests \cup {Nobody}]
         /\ userLock' \in [Users -> Requests \cup {Nobody}]
         /\ pc' \in [Requests -> Outcomes \cup Steps]
         /\ arg' \in [Requests -> Tokens \cup {NoToken}]
         /\ user' \in [Requests -> Users \cup {NoUser}]
         /\ batch' \in [Requests -> SUBSET Tokens]
         /\ now' \in [Requests -> Nat]
         /\ clock' \in Nat
  BY DEF TypeOK, Finish

\* Type correctness is inductive by itself, save that an UPDATE only writes
\* rows that are there.
LEMMA TypeStep ==
  ASSUME TypeOK, LocksHeld, BatchesExact, [Next]_vars
  PROVE  TypeOK'
<1> USE ConstantsAssumption
<1>1. ASSUME NEW r \in Requests, Begin(r) PROVE TypeOK'
  <2>1. ASSUME NEW t \in Tokens \cup {NoToken}, NEW u \in Users \cup {NoUser},
               NEW b \in SUBSET Tokens, NEW step \in Steps, Arrive(r, step, t, u, b)
        PROVE  TypeOK'
    BY <2>1 DEF TypeOK, Arrive, Readings, rows, locks
  <2>2. FamilyRows(family[arg[r]]) \subseteq Tokens /\ \A f : FamilyRows(f) \subseteq Tokens
    BY DEF TypeOK, FamilyRows
  <2> QED BY <1>1, <2>1, <2>2 DEF Begin, BeginLogin, BeginRefresh, BeginLogout, Steps
<1>2. ASSUME NEW r \in Requests, NEW c \in Tokens, NEW o \in Outcomes,
             CreateRefreshToken(r, c, o)
      PROVE  TypeOK'
  <2>1. user[r] \in Users /\ now[r] + RefreshTTL \in Nat
    BY <1>2 DEF CreateRefreshToken, LocksHeld, TypeOK
  <2> QED BY <1>2, <2>1, TypeFinish DEF CreateRefreshToken, TypeOK
<1>3. ASSUME NEW r \in Requests, NEW c \in Tokens, NEW o \in Outcomes,
             CommitRotation(r, c, o)
      PROVE  TypeOK'
  <2>1. arg[r] \in stored /\ arg[r] \in Tokens /\ now[r] + RefreshTTL \in Nat
    BY <1>3 DEF CommitRotation, LocksHeld, Transactional, TypeOK
  <2> QED BY <1>3, <2>1, TypeFinish DEF CommitRotation, TypeOK
<1>4. ASSUME NEW r \in Requests, NEW o \in Outcomes, Revoke(r), Finish(r, o)
      PROVE  TypeOK'
  <2>1. batch[r] \subseteq stored
    BY DEF BatchesExact
  <2> QED BY <1>4, <2>1, TypeFinish DEF Revoke, TypeOK
<1>5. ASSUME NEW r \in Requests, NEW o \in Outcomes, Finish(r, o), UNCHANGED rows
      PROVE  TypeOK'
  BY <1>5, TypeFinish DEF TypeOK, rows
<1>6. ASSUME NEW r \in Requests, LockToken(r) PROVE TypeOK'
  BY <1>6 DEF LockToken, TypeOK, rows, locals, Steps
<1>7. ASSUME NEW r \in Requests, LockUser(r) PROVE TypeOK'
  BY <1>7 DEF LockUser, TypeOK, rows, locals, Steps
<1>8. ASSUME NEW r \in Requests, DetectReuse(r) PROVE TypeOK'
  BY <1>8 DEF DetectReuse, TypeOK, rows, locks, Steps, FamilyRows
<1>9. ASSUME NEW r \in Requests, Rotate(r) PROVE TypeOK'
  BY <1>9 DEF Rotate, TypeOK, rows, locks, locals, Steps
<1>10. ASSUME NEW r \in Requests, NEW t \in Tokens, LockFamilyRow(r, t) PROVE TypeOK'
  BY <1>10 DEF LockFamilyRow, TypeOK, rows, locals
<1>11. ASSUME NEW u \in Users, NEW a, SetActive(u, a) PROVE TypeOK'
  BY <1>11 DEF SetActive, TypeOK, rows, locks, locals
<1>12. CASE Tick
  BY <1>12 DEF Tick, TypeOK, rows, locks, locals
<1>13. CASE UNCHANGED vars
  BY <1>13 DEF vars, TypeOK, rows, locks, locals
<1>14. "invalid" \in Outcomes /\ "unavailable" \in Outcomes
  BY DEF Outcomes
<1>15. Deadlocked \subseteq Requests
  BY DEF Deadlocked
<1> QED
  BY <1>1, <1>2, <1>3, <1>4, <1>5, <1>6, <1>7, <1>8, <1>9, <1>10, <1>11, <1>12, <1>13,
     <1>14, <1>15
  DEF Next, Progress, NoSuchToken, RejectToken, Fail, AbortDeadlocked,
      CommitReuseRevocation, CommitLogout
-----------------------------------------------------------------------------
(***************************************************************************)
(* Rows and locks.                                                         *)
(***************************************************************************)

\* A login's token is the first of a family of its own; a rotation's joins
\* the family, and the user, of the token it replaces.
LEMMA RowsStep ==
  ASSUME TypeOK, RowsConsistent, LocksHeld, [Next]_vars
  PROVE  RowsConsistent'
<1>1. ASSUME NEW r \in Requests, NEW c \in Tokens, NEW o \in Outcomes,
             CreateRefreshToken(r, c, o)
      PROVE  RowsConsistent'
  BY <1>1 DEF CreateRefreshToken, FreshTokens, RowsConsistent, LocksHeld, TypeOK
<1>2. ASSUME NEW r \in Requests, NEW c \in Tokens, NEW o \in Outcomes,
             CommitRotation(r, c, o)
      PROVE  RowsConsistent'
  <2>1. arg[r] \in stored
    BY <1>2 DEF CommitRotation, LocksHeld, Transactional
  <2> QED BY <1>2, <2>1 DEF CommitRotation, FreshTokens, RowsConsistent, TypeOK
<1>3. ASSUME UNCHANGED <<stored, family, owner>> PROVE RowsConsistent'
  BY <1>3 DEF RowsConsistent
<1> QED
  BY <1>1, <1>2, <1>3
  DEF Next, Begin, BeginLogin, BeginRefresh, BeginLogout, Arrive, Progress, NoSuchToken,
      LockToken, LockUser, DetectReuse, RejectToken, Rotate, LockFamilyRow,
      CommitReuseRevocation, CommitLogout, Revoke, Fail, AbortDeadlocked, SetActive, Tick,
      vars, rows

\* A finishing request releases its own locks and nobody else's.
LEMMA FinishLocks ==
  ASSUME TypeOK, NEW r \in Requests, NEW o \in Outcomes, Finish(r, o),
         NEW q \in Requests, q # r
  PROVE  /\ pc'[q] = pc[q] /\ arg'[q] = arg[q] /\ user'[q] = user[q] /\ batch'[q] = batch[q]
         /\ \A t \in Tokens : rowLock[t] = q => rowLock'[t] = q
         /\ \A u \in Users : userLock[u] = q => userLock'[u] = q
  BY DEF TypeOK, Finish

\* What the ending of a request does to LocksHeld when rows are only added.
LEMMA FinishKeepsLocksHeld ==
  ASSUME TypeOK, RowsConsistent, LocksHeld, NEW r \in Requests, NEW o \in Outcomes,
         Finish(r, o), stored \subseteq stored',
         \A t \in stored : owner'[t] = owner[t],
         o = "reuse" => arg[r] \in stored,
         o = "ended" => arg[r] \in stored \cup {NoToken}
  PROVE  LocksHeld'
<1> SUFFICES ASSUME NEW q \in Requests PROVE LocksHeld!(q)'
  BY DEF LocksHeld
<1>1. CASE q = r
  BY <1>1 DEF Finish, Outcomes, Transactional, TypeOK
<1>2. CASE q # r
  BY <1>2, FinishLocks DEF LocksHeld, RowsConsistent, Transactional, TypeOK
<1> QED BY <1>1, <1>2

\* A request takes its locks in order and gives them up only with its answer.
LEMMA LocksStep ==
  ASSUME TypeOK, RowsConsistent, LocksHeld, [Next]_vars
  PROVE  LocksHeld'
<1> USE ConstantsAssumption DEF Transactional
<1>1. ASSUME NEW r \in Requests, Begin(r) PROVE LocksHeld'
  <2>1. ASSUME NEW u \in Users, Arrive(r, "issuing", NoToken, u, {}) PROVE LocksHeld'
    BY <2>1 DEF Arrive, rows, locks, LocksHeld, TypeOK
  <2>2. ASSUME NEW t \in stored \cup {NoToken}, NEW step \in {"presented", "ending"},
               NEW u, NEW b, Arrive(r, step, t, u, b)
        PROVE  LocksHeld'
    BY <2>2 DEF Arrive, rows, locks, LocksHeld, TypeOK
  <2> QED BY <1>1, <2>1, <2>2 DEF Begin, BeginLogin, BeginRefresh, BeginLogout
<1>2. ASSUME NEW r \in Requests, NEW c \in Tokens, NEW o \in Outcomes,
             CreateRefreshToken(r, c, o)
      PROVE  LocksHeld'
  <2>1. o \notin {"reuse", "ended"} /\ c \notin stored
    BY <1>2 DEF CreateRefreshToken, Told, FreshTokens
  <2> QED BY <1>2, <2>1, FinishKeepsLocksHeld DEF CreateRefreshToken, TypeOK
<1>3. ASSUME NEW r \in Requests, NEW c \in Tokens, NEW o \in Outcomes,
             CommitRotation(r, c, o)
      PROVE  LocksHeld'
  <2>1. o \notin {"reuse", "ended"} /\ c \notin stored
    BY <1>3 DEF CommitRotation, Told, FreshTokens
  <2> QED BY <1>3, <2>1, FinishKeepsLocksHeld DEF CommitRotation, TypeOK
<1>4. ASSUME NEW r \in Requests, NEW o \in Outcomes, CommitReuseRevocation(r, o)
      PROVE  LocksHeld'
  <2>1. o # "ended" /\ arg[r] \in stored
    BY <1>4 DEF CommitReuseRevocation, Told, LocksHeld
  <2> QED BY <1>4, <2>1, FinishKeepsLocksHeld DEF CommitReuseRevocation, Revoke
<1>5. ASSUME NEW r \in Requests, NEW o \in Outcomes, CommitLogout(r, o)
      PROVE  LocksHeld'
  <2>1. o # "reuse" /\ arg[r] \in stored \cup {NoToken}
    BY <1>5 DEF CommitLogout, Told, LocksHeld
  <2> QED BY <1>5, <2>1, FinishKeepsLocksHeld DEF CommitLogout, Revoke
<1>6. ASSUME NEW r \in Requests, NEW o \in {"invalid", "unavailable"}, Finish(r, o),
             UNCHANGED rows
      PROVE  LocksHeld'
  BY <1>6, FinishKeepsLocksHeld DEF rows, Outcomes
<1>7. ASSUME NEW r \in Requests, LockToken(r) PROVE LocksHeld'
  BY <1>7 DEF LockToken, rows, locals, LocksHeld, TypeOK
<1>8. ASSUME NEW r \in Requests, LockUser(r) PROVE LocksHeld'
  <2>1. arg[r] \in stored /\ owner[arg[r]] \in Users
    BY <1>8 DEF LockUser, LocksHeld, RowsConsistent
  <2> QED BY <1>8, <2>1 DEF LockUser, rows, locals, LocksHeld, TypeOK
<1>9. ASSUME NEW r \in Requests, DetectReuse(r) PROVE LocksHeld'
  BY <1>9 DEF DetectReuse, rows, locks, LocksHeld, TypeOK
<1>10. ASSUME NEW r \in Requests, Rotate(r) PROVE LocksHeld'
  BY <1>10 DEF Rotate, rows, locks, locals, LocksHeld, TypeOK
<1>11. ASSUME NEW r \in Requests, NEW t \in Tokens, LockFamilyRow(r, t) PROVE LocksHeld'
  BY <1>11 DEF LockFamilyRow, rows, locals, LocksHeld, TypeOK
<1>12. ASSUME UNCHANGED <<rows, locks, pc, locals>> PROVE LocksHeld'
  BY <1>12 DEF rows, locks, locals, LocksHeld
<1>13. Deadlocked \subseteq Requests
  BY DEF Deadlocked
<1> QED
  BY <1>1, <1>2, <1>3, <1>4, <1>5, <1>6, <1>7, <1>8, <1>9, <1>10, <1>11, <1>12, <1>13
  DEF Next, Progress, NoSuchToken, RejectToken, Fail, AbortDeadlocked, SetActive, Tick, vars
\* A lock is taken by a request in its transaction, which ends with all its
\* locks released.
LEMMA HoldersStep ==
  ASSUME TypeOK, RowsConsistent, LocksHeld, HoldersRun, [Next]_vars
  PROVE  HoldersRun'
<1> USE DEF Transactional
<1>1. ASSUME NEW r \in Requests, NEW step \in Steps,
             NEW t, NEW u, NEW b, Arrive(r, step, t, u, b)
      PROVE  HoldersRun'
  BY <1>1 DEF Arrive, locks, HoldersRun, Outcomes, TypeOK
<1>2. ASSUME NEW r \in Requests, NEW o \in Outcomes, Finish(r, o)
      PROVE  HoldersRun'
  <2>1. /\ \A t \in Tokens : rowLock'[t] # r /\ (rowLock'[t] = Nobody \/ rowLock'[t] = rowLock[t])
        /\ \A u \in Users : userLock'[u] # r /\ (userLock'[u] = Nobody \/ userLock'[u] = userLock[u])
    BY <1>2, ConstantsAssumption DEF Finish
  <2> QED BY <1>2, <2>1, FinishLocks, ConstantsAssumption DEF HoldersRun
<1>3. ASSUME NEW r \in Requests, LockToken(r) PROVE HoldersRun'
  BY <1>3, ConstantsAssumption DEF LockToken, HoldersRun, TypeOK
<1>4. ASSUME NEW r \in Requests, LockUser(r) PROVE HoldersRun'
  BY <1>4, ConstantsAssumption DEF LockUser, HoldersRun, TypeOK
<1>5. ASSUME NEW r \in Requests, DetectReuse(r) \/ Rotate(r) PROVE HoldersRun'
  BY <1>5 DEF DetectReuse, Rotate, locks, HoldersRun, TypeOK
<1>6. ASSUME NEW r \in Requests, NEW t \in Tokens, LockFamilyRow(r, t) PROVE HoldersRun'
  BY <1>6, ConstantsAssumption DEF LockFamilyRow, HoldersRun, TypeOK
<1>7. ASSUME UNCHANGED <<locks, pc>> PROVE HoldersRun'
  BY <1>7 DEF locks, HoldersRun
<1>8. Deadlocked \subseteq Requests /\ "invalid" \in Outcomes /\ "unavailable" \in Outcomes
  BY DEF Deadlocked, Outcomes
<1>9. ASSUME NEW r \in Requests, Begin(r) PROVE HoldersRun'
  BY <1>1, <1>9 DEF Begin, BeginLogin, BeginRefresh, BeginLogout, Steps
<1> QED
  BY <1>2, <1>3, <1>4, <1>5, <1>6, <1>7, <1>8, <1>9
  DEF Next, Progress, CreateRefreshToken, CommitRotation, NoSuchToken, RejectToken, Fail,
      AbortDeadlocked, CommitReuseRevocation, CommitLogout, SetActive, Tick, vars
-----------------------------------------------------------------------------
(***************************************************************************)
(* What the locks protect.                                                 *)
(***************************************************************************)

\* Two requests past the user lock work for different users, and so on
\* different families.
LEMMA LockedUsersDiffer ==
  ASSUME RowsConsistent, LocksHeld, NEW q \in Requests, NEW r \in Requests, q # r,
         pc[q] \in {"locked", "rotated", "revoking"},
         pc[r] \in {"locked", "rotated", "revoking"}
  PROVE  /\ owner[arg[q]] # owner[arg[r]]
         /\ family[arg[q]] # family[arg[r]]
  BY DEF RowsConsistent, LocksHeld, Transactional

\* A request that commits writes to a row another request has presented and
\* locked only if it is that request.
LEMMA LockedTokensDiffer ==
  ASSUME LocksHeld, NEW q \in Requests, NEW r \in Requests, q # r,
         pc[q] \in Transactional
  PROVE  /\ pc[r] \in Transactional => arg[q] # arg[r]
         /\ (\A t \in batch[r] : rowLock[t] = r) => arg[q] \notin batch[r]
  BY DEF LocksHeld

\* A family UPDATE's snapshot stays within the family, and under the user's
\* lock it stays the whole family.
LEMMA BatchesStep ==
  ASSUME TypeOK, RowsConsistent, LocksHeld, BatchesExact, [Next]_vars
  PROVE  BatchesExact'
<1> USE DEF Transactional
<1>1. ASSUME NEW r \in Requests, Begin(r) PROVE BatchesExact'
  BY <1>1 DEF Begin, BeginLogin, BeginRefresh, BeginLogout, Arrive, rows, BatchesExact,
              FamilyRows, TypeOK
<1>2. ASSUME NEW r \in Requests, NEW c \in Tokens, NEW o \in Outcomes,
             CreateRefreshToken(r, c, o)
      PROVE  BatchesExact'
  <2>1. c \notin stored /\ o # "revoking" /\ \A q \in Requests : family[arg[q]] # c \/ arg[q] \notin stored
    BY <1>2 DEF CreateRefreshToken, FreshTokens, RowsConsistent, Outcomes
  <2>2. stored' = stored \cup {c} /\ family' = [family EXCEPT ![c] = c]
    BY <1>2 DEF CreateRefreshToken
  <2>3. pc'[r] = o /\ batch'[r] = {}
    BY <1>2 DEF CreateRefreshToken, Finish, TypeOK
  <2>4. ASSUME NEW q \in Requests, q # r, pc[q] = "revoking"
        PROVE  batch[q] = FamilyRows(family[arg[q]])'
    <3>1. arg[q] \in stored
      BY <2>4 DEF LocksHeld
    <3> QED BY <1>2, <2>1, <2>2, <2>4, <3>1, FinishLocks
            DEF CreateRefreshToken, BatchesExact, FamilyRows, TypeOK
  <2> QED BY <1>2, <2>1, <2>2, <2>3, <2>4, FinishLocks DEF CreateRefreshToken, BatchesExact
<1>3. ASSUME NEW r \in Requests, NEW c \in Tokens, NEW o \in Outcomes,
             CommitRotation(r, c, o)
      PROVE  BatchesExact'
  <2>1. c \notin stored /\ o # "revoking" /\ arg[r] \in stored
    BY <1>3 DEF CommitRotation, FreshTokens, LocksHeld, Outcomes
  <2>2. stored' = stored \cup {c} /\ family' = [family EXCEPT ![c] = family[arg[r]]]
    BY <1>3 DEF CommitRotation
  <2>3. pc'[r] = o /\ batch'[r] = {}
    BY <1>3 DEF CommitRotation, Finish, TypeOK
  <2>4. ASSUME NEW q \in Requests, q # r, pc[q] = "revoking"
        PROVE  batch[q] = FamilyRows(family[arg[q]])'
    <3>1. arg[q] \in stored /\ family[arg[q]] # family[arg[r]]
      BY <1>3, <2>4, LockedUsersDiffer DEF CommitRotation, LocksHeld
    <3> QED BY <1>3, <2>1, <2>2, <2>4, <3>1, FinishLocks
            DEF CommitRotation, BatchesExact, FamilyRows, TypeOK
  <2> QED BY <1>3, <2>1, <2>2, <2>3, <2>4, FinishLocks DEF CommitRotation, BatchesExact
<1>4. ASSUME NEW r \in Requests, NEW o \in Outcomes, Finish(r, o),
             UNCHANGED <<stored, family>>
      PROVE  BatchesExact'
  <2>1. o # "revoking" /\ pc'[r] = o /\ batch'[r] = {}
    BY <1>4 DEF Finish, Outcomes, TypeOK
  <2> QED BY <1>4, <2>1, FinishLocks DEF BatchesExact, FamilyRows
<1>5. ASSUME NEW r \in Requests, DetectReuse(r) PROVE BatchesExact'
  BY <1>5 DEF DetectReuse, rows, BatchesExact, FamilyRows, TypeOK
<1>6. ASSUME NEW r \in Requests, NEW step \in {"tokenLocked", "locked", "rotated"},
             pc' = [pc EXCEPT ![r] = step], UNCHANGED <<rows, arg, batch>>
      PROVE  BatchesExact'
  BY <1>6 DEF rows, BatchesExact, FamilyRows, TypeOK
<1>7. ASSUME UNCHANGED <<rows, pc, arg, batch>> PROVE BatchesExact'
  BY <1>7 DEF rows, BatchesExact, FamilyRows
<1>8. Deadlocked \subseteq Requests /\ "invalid" \in Outcomes /\ "unavailable" \in Outcomes
  BY DEF Deadlocked, Outcomes
<1> QED
  BY <1>1, <1>2, <1>3, <1>4, <1>5, <1>6, <1>7, <1>8
  DEF Next, Progress, NoSuchToken, RejectToken, Fail, AbortDeadlocked, SetActive, Tick, vars,
      LockToken, LockUser, Rotate, LockFamilyRow, CommitReuseRevocation, CommitLogout, Revoke,
      rows, locals

\* Nothing uses, revokes or deactivates what a rotation has checked.
LEMMA RotationStep ==
  ASSUME TypeOK, RowsConsistent, LocksHeld, RotationActsOnCurrentState, [Next]_vars
  PROVE  RotationActsOnCurrentState'
<1> USE DEF Transactional
<1>1. ASSUME NEW r \in Requests, Begin(r) PROVE RotationActsOnCurrentState'
  BY <1>1 DEF Begin, BeginLogin, BeginRefresh, BeginLogout, Arrive, rows,
              RotationActsOnCurrentState, Live, TypeOK
<1>2. ASSUME NEW r \in Requests, NEW c \in Tokens, NEW o \in Outcomes,
             CreateRefreshToken(r, c, o)
      PROVE  RotationActsOnCurrentState'
  <2>1. o # "rotated" /\ pc'[r] = o /\ c \notin stored
    BY <1>2 DEF CreateRefreshToken, Finish, FreshTokens, Outcomes, TypeOK
  <2> QED BY <1>2, <2>1, FinishLocks
          DEF CreateRefreshToken, Finish, RotationActsOnCurrentState, Live, TypeOK
<1>3. ASSUME NEW r \in Requests, NEW c \in Tokens, NEW o \in Outcomes,
             CommitRotation(r, c, o)
      PROVE  RotationActsOnCurrentState'
  <2>1. o # "rotated" /\ pc'[r] = o /\ c \notin stored
    BY <1>3 DEF CommitRotation, Finish, FreshTokens, Outcomes, TypeOK
  <2>2. \A q \in Requests : q # r /\ pc[q] = "rotated" => arg[q] # arg[r]
    BY <1>3, LockedTokensDiffer DEF CommitRotation
  <2> QED BY <1>3, <2>1, <2>2, FinishLocks
          DEF CommitRotation, Finish, RotationActsOnCurrentState, Live, TypeOK
<1>4. ASSUME NEW r \in Requests, NEW o \in Outcomes, Revoke(r), Finish(r, o)
      PROVE  RotationActsOnCurrentState'
  <2>1. o # "rotated" /\ pc'[r] = o
    BY <1>4 DEF Finish, Outcomes, TypeOK
  <2>2. \A q \in Requests : q # r /\ pc[q] = "rotated" => arg[q] \notin batch[r]
    BY <1>4, LockedTokensDiffer DEF Revoke
  <2> QED BY <1>4, <2>1, <2>2, FinishLocks
          DEF Revoke, Finish, RotationActsOnCurrentState, Live
<1>5. ASSUME NEW r \in Requests, NEW o \in Outcomes, Finish(r, o), UNCHANGED rows
      PROVE  RotationActsOnCurrentState'
  <2>1. o # "rotated" /\ pc'[r] = o
    BY <1>5 DEF Finish, Outcomes, TypeOK
  <2> QED BY <1>5, <2>1, FinishLocks DEF Finish, RotationActsOnCurrentState, Live, rows
<1>6. ASSUME NEW r \in Requests, Rotate(r) PROVE RotationActsOnCurrentState'
  BY <1>6 DEF Rotate, Acceptable, rows, locals, RotationActsOnCurrentState, Live, LocksHeld,
              TypeOK
<1>7. ASSUME NEW u \in Users, NEW a, SetActive(u, a) PROVE RotationActsOnCurrentState'
  <2>1. \A q \in Requests : pc[q] = "rotated" => owner[arg[q]] # u
    BY <1>7, ConstantsAssumption DEF SetActive, LocksHeld
  <2> QED BY <1>7, <2>1 DEF SetActive, rows, locals, RotationActsOnCurrentState, Live
<1>8. ASSUME NEW r \in Requests, NEW step \in {"tokenLocked", "locked", "revoking"},
             pc' = [pc EXCEPT ![r] = step], UNCHANGED <<rows, arg, active>>
      PROVE  RotationActsOnCurrentState'
  BY <1>8 DEF rows, RotationActsOnCurrentState, Live, TypeOK
<1>9. ASSUME UNCHANGED <<rows, pc, arg, active>> PROVE RotationActsOnCurrentState'
  BY <1>9 DEF rows, RotationActsOnCurrentState, Live
<1>10. Deadlocked \subseteq Requests /\ "invalid" \in Outcomes /\ "unavailable" \in Outcomes
  BY DEF Deadlocked, Outcomes
<1> QED
  BY <1>1, <1>2, <1>3, <1>4, <1>5, <1>6, <1>7, <1>8, <1>9, <1>10
  DEF Next, Progress, NoSuchToken, RejectToken, Fail, AbortDeadlocked, Tick, vars,
      LockToken, LockUser, DetectReuse, LockFamilyRow, CommitReuseRevocation, CommitLogout,
      locals

\* Whether a step logs in, rotates, revokes or leaves the rows alone, a family
\* keeps at most one live token.
LEMMA LiveStep ==
  ASSUME TypeOK, RowsConsistent, LocksHeld, RotationActsOnCurrentState, AtMostOneLive,
         [Next]_vars
  PROVE  AtMostOneLive'
<1>1. ASSUME NEW r \in Requests, NEW c \in Tokens, NEW o \in Outcomes,
             CreateRefreshToken(r, c, o)
      PROVE  AtMostOneLive'
  <2>1. c \notin stored /\ Live' = Live \cup {c} /\ family' = [family EXCEPT ![c] = c]
    BY <1>1 DEF CreateRefreshToken, FreshTokens, Live, TypeOK
  <2>2. \A t \in Live : t \in stored /\ family[t] # c
    BY <2>1 DEF Live, RowsConsistent
  <2> QED BY <2>1, <2>2 DEF AtMostOneLive, TypeOK
<1>2. ASSUME NEW r \in Requests, NEW c \in Tokens, NEW o \in Outcomes,
             CommitRotation(r, c, o)
      PROVE  AtMostOneLive'
  <2>1. /\ c \notin stored /\ arg[r] \in Live
        /\ Live' = (Live \ {arg[r]}) \cup {c}
        /\ family' = [family EXCEPT ![c] = family[arg[r]]]
    BY <1>2 DEF CommitRotation, FreshTokens, Live, TypeOK, RotationActsOnCurrentState
  <2>2. \A t \in Live : t \in stored /\ (family[t] = family[arg[r]] => t = arg[r])
    BY <2>1 DEF Live, AtMostOneLive
  <2> QED BY <2>1, <2>2 DEF AtMostOneLive, TypeOK
<1>3. ASSUME Live' \subseteq Live, UNCHANGED family PROVE AtMostOneLive'
  BY <1>3 DEF AtMostOneLive
<1>4. ASSUME NEW r \in Requests, Revoke(r) PROVE Live' \subseteq Live /\ UNCHANGED family
  BY <1>4 DEF Revoke, Live
<1>5. ASSUME UNCHANGED rows PROVE Live' \subseteq Live /\ UNCHANGED family
  BY <1>5 DEF rows, Live
<1> QED
  BY <1>1, <1>2, <1>3, <1>4, <1>5
  DEF Next, Begin, BeginLogin, BeginRefresh, BeginLogout, Arrive, Progress, NoSuchToken,
      LockToken, LockUser, DetectReuse, RejectToken, Rotate, LockFamilyRow,
      CommitReuseRevocation, CommitLogout, Fail, AbortDeadlocked, SetActive, Tick, vars

\* The family UPDATE of the reuse branch misses no row, and what has no live
\* token gets none.
LEMMA ReusedStep ==
  ASSUME IInv, [Next]_vars
  PROVE  ReusedFamiliesDead'
<1> USE DEF IInv
<1>1. ASSUME NEW r \in Requests, Begin(r) PROVE ReusedFamiliesDead'
  BY <1>1 DEF Begin, BeginLogin, BeginRefresh, BeginLogout, Arrive, rows, ReusedFamiliesDead,
              Live, TypeOK
<1>2. ASSUME NEW r \in Requests, NEW c \in Tokens, NEW o \in Outcomes,
             CreateRefreshToken(r, c, o)
      PROVE  ReusedFamiliesDead'
  <2>1. /\ c \notin stored /\ Live' = Live \cup {c} /\ family' = [family EXCEPT ![c] = c]
        /\ pc'[r] # "reuse"
    BY <1>2 DEF CreateRefreshToken, Finish, FreshTokens, Told, Live, TypeOK
  <2>2. \A q \in Requests :
          pc[q] = "reuse" => arg[q] \in stored /\ family[arg[q]] # c
    BY <2>1 DEF LocksHeld, RowsConsistent
  <2> QED BY <1>2, <2>1, <2>2, FinishLocks
          DEF CreateRefreshToken, ReusedFamiliesDead, Live, TypeOK
<1>3. ASSUME NEW r \in Requests, NEW c \in Tokens, NEW o \in Outcomes,
             CommitRotation(r, c, o)
      PROVE  ReusedFamiliesDead'
  <2>1. /\ c \notin stored /\ arg[r] \in Live /\ pc'[r] # "reuse"
        /\ Live' = (Live \ {arg[r]}) \cup {c}
        /\ family' = [family EXCEPT ![c] = family[arg[r]]]
    BY <1>3 DEF CommitRotation, Finish, FreshTokens, Told, Live, TypeOK,
                RotationActsOnCurrentState
  <2>2. \A q \in Requests :
          pc[q] = "reuse" => arg[q] \in stored /\ family[arg[q]] # family[arg[r]]
    BY <2>1 DEF LocksHeld, ReusedFamiliesDead
  <2> QED BY <1>3, <2>1, <2>2, FinishLocks
          DEF CommitRotation, ReusedFamiliesDead, Live, TypeOK
<1>4. ASSUME NEW r \in Requests, NEW o \in Outcomes, CommitReuseRevocation(r, o)
      PROVE  ReusedFamiliesDead'
  <2>1. /\ batch[r] = FamilyRows(family[arg[r]])
        /\ Live' = Live \ batch[r] /\ UNCHANGED family
    BY <1>4 DEF CommitReuseRevocation, BatchesExact, Revoke, Live
  <2>2. \A t \in Live' : family[t] # family[arg[r]]
    BY <2>1 DEF FamilyRows, Live
  <2>3. pc'[r] = "reuse" => arg'[r] = arg[r]
    BY <1>4 DEF CommitReuseRevocation, Finish, TypeOK
  <2> QED BY <1>4, <2>1, <2>2, <2>3, FinishLocks
          DEF CommitReuseRevocation, ReusedFamiliesDead
<1>5. ASSUME NEW r \in Requests, NEW o \in Outcomes \ {"reuse"}, Finish(r, o),
             Live' \subseteq Live, UNCHANGED family
      PROVE  ReusedFamiliesDead'
  <2>1. pc'[r] # "reuse"
    BY <1>5 DEF Finish, TypeOK
  <2> QED BY <1>5, <2>1, FinishLocks DEF ReusedFamiliesDead
<1>6. ASSUME NEW r \in Requests,
             NEW step \in {"tokenLocked", "locked", "rotated", "revoking"},
             pc' = [pc EXCEPT ![r] = step], UNCHANGED <<rows, arg>>
      PROVE  ReusedFamiliesDead'
  BY <1>6 DEF rows, ReusedFamiliesDead, Live, TypeOK
<1>7. ASSUME UNCHANGED <<rows, pc, arg>> PROVE ReusedFamiliesDead'
  BY <1>7 DEF rows, ReusedFamiliesDead, Live
<1>8. ASSUME NEW r \in Requests, NEW o \in Outcomes, CommitLogout(r, o)
      PROVE  ReusedFamiliesDead'
  BY <1>5, <1>8 DEF CommitLogout, Told, Revoke, Live
<1>9. ASSUME NEW r \in Requests, NEW o \in {"invalid", "unavailable"}, Finish(r, o),
             UNCHANGED rows
      PROVE  ReusedFamiliesDead'
  BY <1>5, <1>9 DEF rows, Live, Outcomes
<1>10. Deadlocked \subseteq Requests
  BY DEF Deadlocked
<1> QED
  BY <1>1, <1>2, <1>3, <1>4, <1>6, <1>7, <1>8, <1>9, <1>10
  DEF Next, Progress, NoSuchToken, RejectToken, Fail, AbortDeadlocked, SetActive, Tick, vars,
      LockToken, LockUser, DetectReuse, Rotate, LockFamilyRow, locals

\* A family that a token was revoked in unused had no other live one, and gets
\* none: a rotation needs a live token to start from.
LEMMA UnusedRevokedStep ==
  ASSUME IInv, [Next]_vars
  PROVE  UnusedRevokedDead'
<1> USE DEF IInv
<1>1. ASSUME NEW r \in Requests, NEW c \in Tokens, NEW o \in Outcomes,
             CreateRefreshToken(r, c, o)
      PROVE  UnusedRevokedDead'
  <2>1. /\ c \notin stored /\ Live' = Live \cup {c} /\ family' = [family EXCEPT ![c] = c]
        /\ used' = used /\ revoked' = revoked
    BY <1>1 DEF CreateRefreshToken, FreshTokens, Live, TypeOK
  <2>2. \A t \in stored : t # c /\ t \in Tokens /\ family[t] # c
    BY <2>1 DEF RowsConsistent, TypeOK
  <2> QED BY <2>1, <2>2 DEF UnusedRevokedDead, Live, TypeOK
<1>2. ASSUME NEW r \in Requests, NEW c \in Tokens, NEW o \in Outcomes,
             CommitRotation(r, c, o)
      PROVE  UnusedRevokedDead'
  <2>1. /\ c \notin stored /\ arg[r] \in Live
        /\ Live' = (Live \ {arg[r]}) \cup {c}
        /\ family' = [family EXCEPT ![c] = family[arg[r]]]
        /\ revoked' \ used' \subseteq revoked \ used
    BY <1>2 DEF CommitRotation, FreshTokens, Live, TypeOK, RotationActsOnCurrentState
  <2>2. \A t \in revoked \ used : t # c /\ t \in Tokens /\ family[t] # family[arg[r]]
    BY <2>1 DEF UnusedRevokedDead, TypeOK
  <2> QED BY <2>1, <2>2 DEF UnusedRevokedDead, Live, TypeOK
<1>3. ASSUME NEW r \in Requests, Revoke(r)
      PROVE  UnusedRevokedDead'
  <2>1. Live' = Live \ batch[r] /\ family' = family /\ used' = used
        /\ revoked' = revoked \cup batch[r]
    BY <1>3 DEF Revoke, Live
  <2>2. ASSUME NEW t \in revoked' \ used', NEW s \in Live', family[s] = family[t]
        PROVE  FALSE
    <3>1. CASE t \in revoked
      BY <2>1, <2>2, <3>1 DEF UnusedRevokedDead
    <3>2. CASE t \notin revoked
      <4>1. t \in Live /\ t \in batch[r] /\ s \in Live /\ s \notin batch[r]
        BY <2>1, <2>2, <3>2 DEF BatchesExact, Live
      <4> QED BY <2>2, <4>1 DEF AtMostOneLive
    <3> QED BY <3>1, <3>2
  <2> QED BY <2>1, <2>2 DEF UnusedRevokedDead
<1>4. ASSUME UNCHANGED rows PROVE UnusedRevokedDead'
  BY <1>4 DEF rows, UnusedRevokedDead, Live
<1> QED
  BY <1>1, <1>2, <1>3, <1>4
  DEF Next, Begin, BeginLogin, BeginRefresh, BeginLogout, Arrive, Progress, NoSuchToken,
      LockToken, LockUser, DetectReuse, RejectToken, Rotate, LockFamilyRow,
      CommitReuseRevocation, CommitLogout, Fail, AbortDeadlocked, SetActive, Tick, vars
-----------------------------------------------------------------------------
(***************************************************************************)
(* Cycles of waits.                                                        *)
(***************************************************************************)

\* A cycle may be begun at its second request, so a deadlocked request waits
\* for a deadlocked one.
LEMMA DeadlockedWaits ==
  ASSUME NEW r \in Deadlocked
  PROVE  \E s \in Deadlocked : WaitsFor(r, s)
<1>1. Cardinality(Requests) \in Nat /\ r \in Requests
  BY ConstantsAssumption, FS_CardinalityType DEF Deadlocked
<1>0. PICK n \in 1 .. Cardinality(Requests) :
              \E c \in [0 .. n -> Requests] : Cycle(c, n, r)
  BY DEF Deadlocked
<1>2. PICK c \in [0 .. n -> Requests] : Cycle(c, n, r)
  BY <1>0
<1> DEFINE s == c[1]
           d == [i \in 0 .. n |-> IF i < n THEN c[i + 1] ELSE s]
<1>3. s \in Requests /\ d \in [0 .. n -> Requests] /\ d[0] = s /\ d[n] = s
  BY <1>1
<1>4. WaitsFor(r, s)
  <2>1. 1 \in 1 .. n /\ 1 - 1 = 0
    BY <1>1
  <2> QED BY <1>2, <2>1 DEF Cycle
<1>5. ASSUME NEW i \in 1 .. n PROVE WaitsFor(d[i - 1], d[i])
  <2>1. i \in Nat /\ n \in Nat /\ d[i - 1] = c[i]
    BY <1>1
  <2>2. CASE i < n
    <3>1. d[i] = c[i + 1] /\ i + 1 \in 1 .. n /\ (i + 1) - 1 = i
      BY <1>1, <2>2
    <3> QED BY <1>2, <2>1, <3>1 DEF Cycle
  <2>3. CASE i = n
    BY <1>2, <1>3, <1>4, <2>1, <2>3 DEF Cycle
  <2> QED BY <1>1, <2>2, <2>3
<1> HIDE DEF d, s
<1>6. Cycle(d, n, s)
  BY <1>3, <1>5 DEF Cycle
<1> QED BY <1>2, <1>3, <1>4, <1>6 DEF Deadlocked

\* Who waits for a users row waits for a family UPDATE, if its holder waits.
LEMMA UserLockWait ==
  ASSUME IInv, NEW r \in Requests, NEW s \in Deadlocked, WaitsFor(r, s),
         pc[r] \in {"issuing", "tokenLocked"}
  PROVE  pc[s] = "revoking"
<1> USE DEF IInv
<1>1. s \in Requests /\ \E q : WaitsFor(s, q)
  BY DeadlockedWaits DEF Deadlocked
<1>2. \E u \in Users : userLock[u] = s
  BY DEF WaitsFor, LocksHeld, RowsConsistent, Transactional
<1>3. pc[s] \in {"locked", "rotated", "revoking"}
  BY <1>1, <1>2 DEF HoldersRun
<1> QED BY <1>1, <1>3 DEF WaitsFor

\* On every cycle there is a family UPDATE: at most two waits lead to it.
LEMMA CycleHasRevocation ==
  ASSUME IInv, NEW r \in Deadlocked
  PROVE  \E s \in Deadlocked : pc[s] \in {"revoking", "ending"}
<1> USE DEF IInv
<1>1. r \in Requests /\ \A q \in Deadlocked : q \in Requests
  BY DEF Deadlocked
<1>2. PICK s \in Deadlocked : WaitsFor(r, s)
  BY DeadlockedWaits
<1>3. CASE pc[r] \in {"issuing", "tokenLocked"}
  BY <1>1, <1>2, <1>3, UserLockWait
<1>4. CASE pc[r] = "presented"
  <2>1. PICK q \in Deadlocked : WaitsFor(s, q)
    BY DeadlockedWaits
  <2>2. arg[r] \in Tokens /\ rowLock[arg[r]] = s
    BY <1>1, <1>2, <1>4 DEF WaitsFor, TypeOK
  <2>3. pc[s] \in Transactional \cup {"ending"}
    BY <1>1, <2>2 DEF HoldersRun
  <2>4. pc[s] \in {"tokenLocked", "revoking", "ending"}
    BY <2>1, <2>3 DEF WaitsFor, Transactional
  <2> QED BY <1>1, <2>1, <2>4, UserLockWait
<1>5. CASE pc[r] \in {"revoking", "ending"}
  BY <1>5
<1> QED BY <1>2, <1>3, <1>4, <1>5 DEF WaitsFor
-----------------------------------------------------------------------------
(***************************************************************************)
(* The theorems.                                                           *)
(***************************************************************************)

\* The empty table satisfies the invariant.
LEMMA InitEstablishes == Init => IInv
<1> SUFFICES ASSUME Init PROVE IInv
  OBVIOUS
<1>1. TypeOK
  BY TypeInit
<1>2. RowsConsistent /\ AtMostOneLive
  BY DEF Init, RowsConsistent, AtMostOneLive, Live
<1>3. LocksHeld /\ BatchesExact /\ RotationActsOnCurrentState /\ ReusedFamiliesDead
  BY DEF Init, LocksHeld, BatchesExact, RotationActsOnCurrentState, ReusedFamiliesDead,
         Transactional
<1>4. HoldersRun /\ UnusedRevokedDead
  BY ConstantsAssumption DEF Init, HoldersRun, UnusedRevokedDead
<1> QED BY <1>1, <1>2, <1>3, <1>4 DEF IInv

\* The conjunction of what the locks protect is an invariant of every step of
\* every handler, whatever fails in between.
THEOREM InductiveInvariant == Spec => []IInv
<1>1. Init => IInv
  BY InitEstablishes
<1>2. IInv /\ [Next]_vars => IInv'
  BY TypeStep, RowsStep, LocksStep, HoldersStep, BatchesStep, RotationStep, LiveStep,
     ReusedStep, UnusedRevokedStep
  DEF IInv
<1> QED BY <1>1, <1>2, PTL DEF Spec

\* The tables, locks and locals are well typed in every run: no handler writes
\* a row that is not there, or reads the columns of no token.
THEOREM TypeCorrect == Spec => []TypeOK
<1>1. IInv => TypeOK
  BY DEF IInv
<1> QED BY <1>1, InductiveInvariant, PTL

\* A rotation commits on what it read: the token it replaces is current and its
\* user active up to the commit.
THEOREM RotationIsCurrent == Spec => []RotationActsOnCurrentState
<1>1. IInv => RotationActsOnCurrentState
  BY DEF IInv
<1> QED BY <1>1, InductiveInvariant, PTL

\* A set whose members are all equal has at most one of them.
LEMMA AtMostOneMember ==
  ASSUME NEW S, \A x, y \in S : x = y
  PROVE  Cardinality(S) <= 1
<1>1. CASE S = {}
  BY <1>1, FS_EmptySet
<1>2. ASSUME NEW x \in S PROVE Cardinality(S) <= 1
  <2>1. S = {x}
    BY <1>2
  <2> QED BY <2>1, FS_Singleton
<1> QED BY <1>1, <1>2

\* No number of concurrent refreshes, logins and logouts leaves a session with
\* two current refresh tokens.
THEOREM SingleLiveToken == Spec => []OneLiveTokenPerFamily
<1>1. IInv => OneLiveTokenPerFamily
  <2> SUFFICES ASSUME IInv, NEW f \in Tokens PROVE Cardinality(LiveIn(f)) <= 1
    BY DEF OneLiveTokenPerFamily
  <2>1. \A s, t \in LiveIn(f) : s = t
    BY DEF IInv, AtMostOneLive, LiveIn
  <2> QED BY <2>1, AtMostOneMember
<1> QED BY <1>1, InductiveInvariant, PTL

\* The answer that a token was reused is final: the family is dead when it is
\* given and stays dead.
THEOREM ReuseReplyIsFinal == Spec => []ReuseReplyMeansFamilyDead
<1>1. IInv => ReuseReplyMeansFamilyDead
  BY DEF IInv, ReusedFamiliesDead, ReuseReplyMeansFamilyDead, LiveIn
<1> QED BY <1>1, InductiveInvariant, PTL

\* What a refresh refuses without ending the family, because its token was
\* revoked and never used, belongs to a session that is over already.
THEOREM RevokedUnusedIsFinal == Spec => []RevokedUnusedMeansFamilyDead
<1>1. IInv => RevokedUnusedMeansFamilyDead
  BY DEF IInv, UnusedRevokedDead, RevokedUnusedMeansFamilyDead, LiveIn
<1> QED BY <1>1, InductiveInvariant, PTL

\* Whatever is presented at once, no deadlock is made of logins and rotations
\* alone: every one has the family UPDATE of a reuse or a logout in it.
THEOREM DeadlocksHaveRevocation == Spec => []DeadlockNeedsRevocation
<1>1. IInv => DeadlockNeedsRevocation
  BY CycleHasRevocation DEF DeadlockNeedsRevocation
<1> QED BY <1>1, InductiveInvariant, PTL

\* The lock on the users row is held from the checks to the commit; login,
\* rotation, reuse detection and the operator all wait for it.
LEMMA ShieldStep == ASSUME IInv, [Next]_vars PROVE ShieldsUser
<1> SUFFICES ASSUME NEW r \in Requests, NEW u \in Users,
                    pc[r] \in {"rotated", "revoking"}, pc'[r] = pc[r], u = owner[arg[r]]
             PROVE  /\ TokensOf(u)' = TokensOf(u)
                    /\ used' \cap TokensOf(u) = used \cap TokensOf(u)
                    /\ u \in active' <=> u \in active
                    /\ \A q \in Requests \ {r} :
                         pc[q] \in {"locked", "rotated", "revoking"} => owner[arg[q]] # u
  BY DEF ShieldsUser
<1> DEFINE Quiet == /\ TokensOf(u)' = TokensOf(u)
                    /\ used' \cap TokensOf(u) = used \cap TokensOf(u)
                    /\ u \in active' <=> u \in active
<1>1. userLock[u] = r /\ r # Nobody
  BY ConstantsAssumption DEF IInv, LocksHeld
<1>2. \A q \in Requests \ {r} :
        pc[q] \in {"locked", "rotated", "revoking"} => owner[arg[q]] # u
  BY LockedUsersDiffer DEF IInv
<1>3. ASSUME NEW q \in Requests, NEW o \in Outcomes, Finish(q, o) PROVE q # r
  BY <1>3 DEF Finish, Outcomes, IInv, TypeOK
\* A row of somebody else.
<1>4. ASSUME NEW c \in Tokens, c \notin stored, stored' = stored \cup {c},
             NEW v, v # u, owner' = [owner EXCEPT ![c] = v]
      PROVE  TokensOf(u)' = TokensOf(u)
  BY <1>4 DEF TokensOf, IInv, TypeOK
<1>5. ASSUME UNCHANGED <<stored, used, owner>>, u \in active' <=> u \in active
      PROVE  Quiet
  BY <1>5 DEF TokensOf
<1>6. ASSUME NEW q \in Requests, NEW c \in Tokens, NEW o \in Outcomes,
             CreateRefreshToken(q, c, o)
      PROVE  Quiet
  <2>1. user[q] # u
    BY <1>1, <1>6 DEF CreateRefreshToken
  <2> QED BY <1>4, <1>6, <2>1 DEF CreateRefreshToken, FreshTokens, Finish
<1>7. ASSUME NEW q \in Requests, NEW c \in Tokens, NEW o \in Outcomes,
             CommitRotation(q, c, o)
      PROVE  Quiet
  <2>1. owner[arg[q]] # u
    BY <1>2, <1>3, <1>7 DEF CommitRotation
  <2>2. TokensOf(u)' = TokensOf(u)
    BY <1>4, <1>7, <2>1 DEF CommitRotation, FreshTokens
  <2>3. used' \cap TokensOf(u) = used \cap TokensOf(u)
    BY <1>7, <2>1 DEF CommitRotation, TokensOf
  <2> QED BY <1>7, <2>2, <2>3 DEF CommitRotation, Finish
<1>8. ASSUME NEW v \in Users, SetActive(v, active \cup {v}) \/ SetActive(v, active \ {v})
      PROVE  Quiet
  <2>1. v # u
    BY <1>1, <1>8 DEF SetActive
  <2> QED BY <1>5, <1>8, <2>1 DEF SetActive, rows
<1>9. ASSUME NEW q \in Requests, NEW o \in Outcomes,
             CommitReuseRevocation(q, o) \/ CommitLogout(q, o)
      PROVE  Quiet
  BY <1>5, <1>9 DEF CommitReuseRevocation, CommitLogout, Revoke, Finish
<1>10. ASSUME UNCHANGED <<rows, active>> PROVE Quiet
  BY <1>5, <1>10 DEF rows
<1>11. Quiet
  <2> HIDE DEF Quiet
  <2>1. ASSUME NEW q \in Requests, Begin(q) \/ Fail(q) PROVE Quiet
    BY <1>10, <2>1 DEF Begin, BeginLogin, BeginRefresh, BeginLogout, Arrive, Fail, Finish
  <2>2. ASSUME NEW q \in Requests, Progress(q) PROVE Quiet
    BY <1>6, <1>7, <1>9, <1>10, <2>2
    DEF Progress, NoSuchToken, LockToken, LockUser, DetectReuse, RejectToken, Rotate,
        LockFamilyRow, Finish
  <2>3. CASE Tick \/ UNCHANGED vars \/ \E q \in Deadlocked : AbortDeadlocked(q)
    BY <1>10, <2>3 DEF Tick, vars, AbortDeadlocked, Finish
  <2> QED BY <1>8, <2>1, <2>2, <2>3 DEF Next
<1> QED BY <1>2, <1>11

\* The user of a rotation or a reuse branch is nobody else's until it has
\* committed or failed.
THEOREM UserIsShielded == Spec => LockShieldsUser
<1>1. IInv /\ [Next]_vars => ShieldsUser
  BY ShieldStep
<1> QED BY <1>1, InductiveInvariant, PTL DEF Spec, LockShieldsUser
=============================================================================
