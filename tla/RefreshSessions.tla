--------------------------- MODULE RefreshSessions ---------------------------
(***************************************************************************)
(* Refresh-token sessions: logins, refreshes and logouts that run at the   *)
(* same time, in any number of API instances, against one PostgreSQL.      *)
(*                                                                         *)
(* The component is Service.Login (from the moment the password has been   *)
(* accepted), Service.Refresh and Service.Logout with the repository calls *)
(* they make.  Its shared state is the tables refresh_tokens and users; a  *)
(* request is one HTTP handler, and one database transaction where the     *)
(* code opens one.  Statements run under READ COMMITTED: each sees what    *)
(* had committed when it started, and a row another transaction has locked *)
(* makes it wait.  The interleaving is that of the row locks and commits.  *)
(*                                                                         *)
(*  - RotateRefreshToken locks the presented token's row and then, because *)
(*    its FOR UPDATE names no table, the users row it joins.               *)
(*  - CreateRefreshToken's foreign key needs a share of the users row.     *)
(*  - RevokeRefreshFamilyByToken, one UPDATE, locks the family's rows that *)
(*    had committed when it started, and no users row.                     *)
(*                                                                         *)
(* used_at and revoked_at are only ever compared with NULL, so the columns *)
(* are the sets used and revoked.                                          *)
(*                                                                         *)
(* Every instance has a clock of its own.  The variable clock is the       *)
(* slowest one; the others are ahead of it by up to MaxSkew, now by more   *)
(* and now by less.                                                        *)
(***************************************************************************)
EXTENDS Integers, FiniteSets

CONSTANTS
  Users,       \* rows of the table users
  Tokens,      \* refresh tokens, each standing for its hash
  Requests,    \* handlers that may run at the same time
  RefreshTTL,  \* lifetime of a refresh token, in ticks
  MaxSkew,     \* how far the instances' clocks may differ
  MaxTime,     \* bound on the clock
  Faults,      \* whether connections break and callers go away
  Nobody,      \* the holder of a free lock
  NoToken,     \* no token, or one the store does not know
  NoUser       \* no user

ASSUME ConstantsAssumption ==
  /\ IsFiniteSet(Requests)
  /\ RefreshTTL \in Nat \ {0}
  /\ MaxSkew \in Nat
  /\ MaxTime \in Nat
  /\ Faults \in BOOLEAN
  /\ Nobody \notin Requests
  /\ NoToken \notin Tokens
  /\ NoUser \notin Users

VARIABLES
  \* the committed rows of refresh_tokens
  stored,      \* tokens that have a row
  used,        \* rows with used_at set
  revoked,     \* rows with revoked_at set
  owner,       \* column user_id
  family,      \* column family_id: the token the family's login issued
  expires,     \* column expires_at
  \* the table users, and the locks
  active,      \* users with active = true
  rowLock,     \* the request that holds a refresh_tokens row
  userLock,    \* the request that holds a users row
  \* the requests
  pc,          \* how far each has come, or its outcome
  arg,         \* the token it presented
  user,        \* the user it is logging in
  batch,       \* the rows its family UPDATE is going to write
  now,         \* the time its instance's clock showed when it arrived
  clock        \* the time on the slowest of those clocks

rows == <<stored, used, revoked, owner, family, expires>>
locks == <<rowLock, userLock>>
locals == <<arg, user, batch, now>>
vars == <<rows, active, locks, pc, locals, clock>>

(***************************************************************************)
(* A request has one of these outcomes, or is at one of these steps.       *)
(***************************************************************************)
Outcomes ==
  { "idle",          \* it has not served anything yet
    "ok",            \* 200, cookies with a new token
    "invalid",       \* ErrInvalidRefreshToken
    "reuse",         \* ErrRefreshReuse
    "ended",         \* logout answered 204
    "unavailable" }  \* ErrUnavailable, or the caller is gone

Steps ==
  { "issuing",       \* login: about to insert the first token
    "presented",     \* refresh: about to lock the token's row
    "tokenLocked",   \* refresh: about to lock the user's row
    "locked",        \* refresh: both rows locked and read
    "rotated",       \* refresh: both writes done, not committed
    "revoking",      \* refresh: locking the family's rows, reuse detected
    "ending" }       \* logout: locking the family's rows

Transactional == {"tokenLocked", "locked", "rotated", "revoking"}

\* The rows of a family, and the tokens a refresh accepts as current.
FamilyRows(f) == {t \in stored : family[t] = f}
Live == stored \ (used \cup revoked)
LiveIn(f) == {t \in Live : family[t] = f}

\* randomOpaqueToken never repeats a value.  A token is named when its row
\* commits: before that nobody but the request that drew it has seen it.
FreshTokens == Tokens \ stored

\* Bound: a request that may store a token arrives only while the finite set
\* Tokens has one left for it.
MayStore ==
  {r \in Requests :
     \/ pc[r] = "issuing"
     \/ pc[r] \in {"presented", "tokenLocked", "locked", "rotated"} /\ arg[r] \notin used}
TokensLeft == Cardinality(FreshTokens) > Cardinality(MayStore)

Init ==
  /\ stored = {} /\ used = {} /\ revoked = {}
  /\ owner = [t \in Tokens |-> NoUser]
  /\ family = [t \in Tokens |-> NoToken]
  /\ expires = [t \in Tokens |-> 0]
  /\ active = Users
  /\ rowLock = [t \in Tokens |-> Nobody]
  /\ userLock = [u \in Users |-> Nobody]
  /\ pc = [r \in Requests |-> "idle"]
  /\ arg = [r \in Requests |-> NoToken]
  /\ user = [r \in Requests |-> NoUser]
  /\ batch = [r \in Requests |-> {}]
  /\ now = [r \in Requests |-> 0]
  /\ clock = 0

\* What the clock of some instance may show.
Readings == clock .. clock + MaxSkew

(***************************************************************************)
(* Arrival: the handler reads the clock of its instance, once.             *)
(***************************************************************************)
Arrive(r, step, t, u, b) ==
  /\ pc[r] \in Outcomes
  /\ pc' = [pc EXCEPT ![r] = step]
  /\ arg' = [arg EXCEPT ![r] = t]
  /\ user' = [user EXCEPT ![r] = u]
  /\ batch' = [batch EXCEPT ![r] = b]
  /\ \E n \in Readings : now' = [now EXCEPT ![r] = n]
  /\ UNCHANGED <<rows, active, locks, clock>>

\* Mutant of Finish: no rollback is deferred, so a finished request leaves
\* its transaction open.
FinishLeakingLocks(r, outcome) ==
  /\ pc' = [pc EXCEPT ![r] = outcome]
  /\ arg' = [arg EXCEPT ![r] = NoToken]
  /\ user' = [user EXCEPT ![r] = NoUser]
  /\ batch' = [batch EXCEPT ![r] = {}]
  /\ now' = [now EXCEPT ![r] = 0]
  /\ UNCHANGED <<active, locks, clock>>

\* The end of a request: commit or rollback releases what it holds.  The
\* token a revocation was about is kept, so that its outcome has a subject.
Finish(r, outcome) ==
  /\ pc' = [pc EXCEPT ![r] = outcome]
  /\ arg' = [arg EXCEPT ![r] = IF outcome \in {"reuse", "ended"} THEN @ ELSE NoToken]
  /\ user' = [user EXCEPT ![r] = NoUser]
  /\ batch' = [batch EXCEPT ![r] = {}]
  /\ now' = [now EXCEPT ![r] = 0]
  /\ rowLock' = [t \in Tokens |-> IF rowLock[t] = r THEN Nobody ELSE rowLock[t]]
  /\ userLock' = [u \in Users |-> IF userLock[u] = r THEN Nobody ELSE userLock[u]]
  /\ UNCHANGED <<active, clock>>

\* What the caller may be told of a commit that took effect: an error after
\* it (the commit's reply lost, the access token not signed) is a 503.
Told(outcome) == {outcome} \cup (IF Faults THEN {"unavailable"} ELSE {})

(***************************************************************************)
(* Login, from the accepted password on.                                   *)
(***************************************************************************)
BeginLogin(r, u) ==
  /\ u \in active
  /\ TokensLeft
  /\ Arrive(r, "issuing", NoToken, u, {})

\* Mutant of CreateRefreshToken: the lifetime is subtracted.
CreateExpiredToken(r, c, outcome) ==
  /\ pc[r] = "issuing"
  /\ userLock[user[r]] = Nobody
  /\ c \in FreshTokens
  /\ outcome \in Told("ok")
  /\ stored' = stored \cup {c}
  /\ owner' = [owner EXCEPT ![c] = user[r]]
  /\ family' = [family EXCEPT ![c] = c]
  /\ expires' = [expires EXCEPT ![c] = now[r] - RefreshTTL]
  /\ UNCHANGED <<used, revoked>>
  /\ Finish(r, outcome)

\* One INSERT that commits by itself.  It does not look at active again.
CreateRefreshToken(r, c, outcome) ==
  /\ pc[r] = "issuing"
  /\ userLock[user[r]] = Nobody
  /\ c \in FreshTokens
  /\ outcome \in Told("ok")
  /\ stored' = stored \cup {c}
  /\ owner' = [owner EXCEPT ![c] = user[r]]
  /\ family' = [family EXCEPT ![c] = c]
  /\ expires' = [expires EXCEPT ![c] = now[r] + RefreshTTL]
  /\ UNCHANGED <<used, revoked>>
  /\ Finish(r, outcome)

(***************************************************************************)
(* Refresh.                                                                *)
(***************************************************************************)
BeginRefresh(r, t) ==
  /\ t \in stored \cup {NoToken}
  /\ t \in used \cup {NoToken} \/ TokensLeft
  /\ Arrive(r, "presented", t, NoUser, {})

\* The lookup finds no row.
NoSuchToken(r) ==
  /\ pc[r] = "presented"
  /\ arg[r] = NoToken
  /\ Finish(r, "invalid")
  /\ UNCHANGED rows

\* SELECT ... FOR UPDATE, first row: the token's.
LockToken(r) ==
  /\ pc[r] = "presented"
  /\ arg[r] # NoToken
  /\ rowLock[arg[r]] = Nobody
  /\ rowLock' = [rowLock EXCEPT ![arg[r]] = r]
  /\ pc' = [pc EXCEPT ![r] = "tokenLocked"]
  /\ UNCHANGED <<rows, active, userLock, locals, clock>>

\* Mutant of LockUser: FOR UPDATE OF rt, which leaves the users row alone.
ReadUserUnlocked(r) ==
  /\ pc[r] = "tokenLocked"
  /\ pc' = [pc EXCEPT ![r] = "locked"]
  /\ UNCHANGED <<rows, active, locks, locals, clock>>

\* SELECT ... FOR UPDATE, second row: its user's.  The columns are read now:
\* PostgreSQL re-reads a row it has waited for.
LockUser(r) ==
  /\ pc[r] = "tokenLocked"
  /\ userLock[owner[arg[r]]] = Nobody
  /\ userLock' = [userLock EXCEPT ![owner[arg[r]]] = r]
  /\ pc' = [pc EXCEPT ![r] = "locked"]
  /\ UNCHANGED <<rows, active, rowLock, locals, clock>>

\* used_at is set: start the UPDATE of the whole family, whose snapshot is
\* taken here.
DetectReuse(r) ==
  /\ pc[r] = "locked"
  /\ arg[r] \in used
  /\ pc' = [pc EXCEPT ![r] = "revoking"]
  /\ batch' = [batch EXCEPT ![r] = FamilyRows(family[arg[r]])]
  /\ UNCHANGED <<rows, active, locks, arg, user, now, clock>>

Acceptable(r) ==
  /\ arg[r] \notin revoked
  /\ expires[arg[r]] > now[r]
  /\ owner[arg[r]] \in active

\* Revoked, expired or of an inactive user: roll back.
RejectToken(r) ==
  /\ pc[r] = "locked"
  /\ arg[r] \notin used
  /\ ~ Acceptable(r)
  /\ Finish(r, "invalid")
  /\ UNCHANGED rows

\* Mutant of Rotate: a revoked token that was never used is accepted.
RotateRevoked(r) ==
  /\ pc[r] = "locked"
  /\ arg[r] \notin used
  /\ expires[arg[r]] > now[r]
  /\ owner[arg[r]] \in active
  /\ pc' = [pc EXCEPT ![r] = "rotated"]
  /\ UNCHANGED <<rows, active, locks, locals, clock>>

\* Mark the token used and insert its replacement, both uncommitted.
Rotate(r) ==
  /\ pc[r] = "locked"
  /\ arg[r] \notin used
  /\ Acceptable(r)
  /\ pc' = [pc EXCEPT ![r] = "rotated"]
  /\ UNCHANGED <<rows, active, locks, locals, clock>>

\* Mutant of CommitRotation: the presented token stays current.
CommitRotationKeepingToken(r, c, outcome) ==
  /\ pc[r] = "rotated"
  /\ c \in FreshTokens
  /\ outcome \in Told("ok")
  /\ stored' = stored \cup {c}
  /\ owner' = [owner EXCEPT ![c] = owner[arg[r]]]
  /\ family' = [family EXCEPT ![c] = family[arg[r]]]
  /\ expires' = [expires EXCEPT ![c] = now[r] + RefreshTTL]
  /\ UNCHANGED <<used, revoked>>
  /\ Finish(r, outcome)

\* Mutant of CommitRotation: the replacement expires when it is issued.
CommitRotationWithoutTTL(r, c, outcome) ==
  /\ pc[r] = "rotated"
  /\ c \in FreshTokens
  /\ outcome \in Told("ok")
  /\ stored' = stored \cup {c}
  /\ used' = used \cup {arg[r]}
  /\ revoked' = revoked \cup {arg[r]}
  /\ owner' = [owner EXCEPT ![c] = owner[arg[r]]]
  /\ family' = [family EXCEPT ![c] = family[arg[r]]]
  /\ expires' = [expires EXCEPT ![c] = now[r]]
  /\ Finish(r, outcome)

\* Mutant of CommitRotation: used_at is not set.
CommitRotationRevokingOnly(r, c, outcome) ==
  /\ pc[r] = "rotated"
  /\ c \in FreshTokens
  /\ outcome \in Told("ok")
  /\ stored' = stored \cup {c}
  /\ revoked' = revoked \cup {arg[r]}
  /\ owner' = [owner EXCEPT ![c] = owner[arg[r]]]
  /\ family' = [family EXCEPT ![c] = family[arg[r]]]
  /\ expires' = [expires EXCEPT ![c] = now[r] + RefreshTTL]
  /\ UNCHANGED used
  /\ Finish(r, outcome)

\* Both writes become visible together.
CommitRotation(r, c, outcome) ==
  /\ pc[r] = "rotated"
  /\ c \in FreshTokens
  /\ outcome \in Told("ok")
  /\ stored' = stored \cup {c}
  /\ used' = used \cup {arg[r]}
  /\ revoked' = revoked \cup {arg[r]}
  /\ owner' = [owner EXCEPT ![c] = owner[arg[r]]]
  /\ family' = [family EXCEPT ![c] = family[arg[r]]]
  /\ expires' = [expires EXCEPT ![c] = now[r] + RefreshTTL]
  /\ Finish(r, outcome)

(***************************************************************************)
(* Logout, and the family UPDATE it shares with the reuse branch.          *)
(***************************************************************************)

\* One UPDATE; its snapshot, subquery included, is taken here.  A token the
\* store does not know matches no row.
BeginLogout(r, t) ==
  /\ t \in stored \cup {NoToken}
  /\ Arrive(r, "ending", t, NoUser,
            IF t = NoToken THEN {} ELSE FamilyRows(family[t]))

\* The rows are locked one by one in an order the plan does not fix.
LockFamilyRow(r, t) ==
  /\ pc[r] \in {"revoking", "ending"}
  /\ t \in batch[r]
  /\ rowLock[t] = Nobody
  /\ rowLock' = [rowLock EXCEPT ![t] = r]
  /\ UNCHANGED <<rows, active, userLock, pc, locals, clock>>

Revoke(r) ==
  /\ \A t \in batch[r] : rowLock[t] = r
  /\ revoked' = revoked \cup batch[r]
  /\ UNCHANGED <<stored, used, owner, family, expires>>

CommitReuseRevocation(r, outcome) ==
  /\ pc[r] = "revoking"
  /\ outcome \in Told("reuse")
  /\ Revoke(r)
  /\ Finish(r, outcome)

CommitLogout(r, outcome) ==
  /\ pc[r] = "ending"
  /\ outcome \in Told("ended")
  /\ Revoke(r)
  /\ Finish(r, outcome)

(***************************************************************************)
(* What makes a transaction fail.                                          *)
(***************************************************************************)

\* A broken connection, a cancelled request or a crash of the instance: the
\* server rolls the transaction back.
Fail(r) ==
  /\ Faults
  /\ pc[r] \in Steps
  /\ Finish(r, "unavailable")
  /\ UNCHANGED rows

\* r cannot go on, or may find it cannot, before s ends.
WaitsFor(r, s) ==
  /\ s # r
  /\ \/ /\ pc[r] = "issuing"
        /\ userLock[user[r]] = s
     \/ /\ pc[r] = "presented"
        /\ arg[r] # NoToken
        /\ rowLock[arg[r]] = s
     \/ /\ pc[r] = "tokenLocked"
        /\ userLock[owner[arg[r]]] = s
     \/ /\ pc[r] \in {"revoking", "ending"}
        /\ \E t \in batch[r] : rowLock[t] = s

\* c leads along waits from r back to r.
Cycle(c, n, r) ==
  /\ c[0] = r /\ c[n] = r
  /\ \A i \in 1 .. n : WaitsFor(c[i - 1], c[i])

\* The requests on a cycle of waits.
Deadlocked ==
  {r \in Requests :
     \E n \in 1 .. Cardinality(Requests) : \E c \in [0 .. n -> Requests] : Cycle(c, n, r)}

\* PostgreSQL rolls back one transaction of a cycle of waits.
AbortDeadlocked(r) ==
  /\ r \in Deadlocked
  /\ Finish(r, "unavailable")
  /\ UNCHANGED rows

(***************************************************************************)
(* The environment: an operator's SQL, and time.                           *)
(***************************************************************************)
SetActive(u, a) ==
  /\ a \in {active \cup {u}, active \ {u}}
  /\ a # active
  /\ userLock[u] = Nobody
  /\ active' = a
  /\ UNCHANGED <<rows, locks, pc, locals, clock>>

Tick ==
  /\ clock < MaxTime
  /\ clock' = clock + 1
  /\ UNCHANGED <<rows, active, locks, pc, locals>>

Begin(r) ==
  \/ \E u \in Users : BeginLogin(r, u)
  \/ \E t \in Tokens \cup {NoToken} : BeginRefresh(r, t) \/ BeginLogout(r, t)

\* What the service and the database do for a request that has begun.
Progress(r) ==
  \/ \E o \in Outcomes :
       \/ \E c \in Tokens : CreateRefreshToken(r, c, o) \/ CommitRotation(r, c, o)
       \/ CommitReuseRevocation(r, o)
       \/ CommitLogout(r, o)
  \/ NoSuchToken(r)
  \/ LockToken(r)
  \/ LockUser(r)
  \/ DetectReuse(r)
  \/ RejectToken(r)
  \/ Rotate(r)
  \/ \E t \in Tokens : LockFamilyRow(r, t)

Next ==
  \/ \E r \in Requests : Begin(r) \/ Progress(r) \/ Fail(r)
  \/ \E r \in Deadlocked : AbortDeadlocked(r)
  \/ \E u \in Users : SetActive(u, active \cup {u}) \/ SetActive(u, active \ {u})
  \/ Tick

Spec == Init /\ [][Next]_vars

\* Every running request is scheduled; PostgreSQL serves a row's waiters in
\* turn, so one whose lock is free again and again is granted it; and its
\* deadlock detector breaks every cycle.
Fairness ==
  /\ \A r \in Requests : SF_vars(Progress(r))
  /\ WF_vars(\E r \in Deadlocked : AbortDeadlocked(r))

FairSpec == Spec /\ Fairness
-----------------------------------------------------------------------------
(***************************************************************************)
(* Properties.                                                             *)
(***************************************************************************)

\* Type invariant: the tables, the locks and the handlers' locals hold what
\* their columns and Go types hold.
TypeOK ==
  /\ stored \subseteq Tokens /\ used \subseteq stored /\ revoked \subseteq stored
  /\ owner \in [Tokens -> Users \cup {NoUser}]
  /\ family \in [Tokens -> Tokens \cup {NoToken}]
  /\ expires \in [Tokens -> Nat]
  /\ active \subseteq Users
  /\ rowLock \in [Tokens -> Requests \cup {Nobody}]
  /\ userLock \in [Users -> Requests \cup {Nobody}]
  /\ pc \in [Requests -> Outcomes \cup Steps]
  /\ arg \in [Requests -> Tokens \cup {NoToken}]
  /\ user \in [Requests -> Users \cup {NoUser}]
  /\ batch \in [Requests -> SUBSET Tokens]
  /\ now \in [Requests -> Nat]
  /\ clock \in Nat

\* However many refreshes present the same token or different tokens of one
\* session at once, a session never has two current refresh tokens: rotation
\* in RotateRefreshToken spends exactly the token it replaces.
OneLiveTokenPerFamily ==
  \A f \in Tokens : Cardinality(LiveIn(f)) <= 1

\* Between reading the rows and committing, nothing invalidates what
\* RotateRefreshToken decided on: the token it is about to replace is still
\* unspent and unrevoked, and its user still active.
RotationActsOnCurrentState ==
  \A r \in Requests :
    pc[r] = "rotated" => arg[r] \in Live /\ owner[arg[r]] \in active

\* Once a refresh has answered that a token was reused, the whole session is
\* dead, also the replacement a concurrent rotation was inserting while the
\* family UPDATE of RotateRefreshToken ran, and no later refresh revives it.
ReuseReplyMeansFamilyDead ==
  \A r \in Requests : pc[r] = "reuse" => LiveIn(family[arg[r]]) = {}

\* A refresh that presents a revoked token revokes nothing, unless the token
\* had been used: RotateRefreshToken looks at used_at first and trusts that
\* what was revoked unused belongs to a session that is over.
RevokedUnusedMeansFamilyDead ==
  \A t \in revoked \ used : LiveIn(family[t]) = {}

\* Refreshes that only rotate, and logins, never deadlock, whatever tokens
\* they present: RotateRefreshToken takes its two locks in one order.  Every
\* cycle of waits runs through a family UPDATE.
DeadlockNeedsRevocation ==
  Deadlocked # {} => \E r \in Deadlocked : pc[r] \in {"revoking", "ending"}

\* From its checks to its commit a rotation or a reuse branch has the user to
\* itself: nobody else stores or spends a token of that user, is past the lock
\* on the users row with one, or changes whether the user is active.
\* SessionClients, where a rotation is one step under the guard that none is
\* under way, and a detected reuse is one step as well, rests on it.
TokensOf(u) == {t \in stored : owner[t] = u}
ShieldsUser ==
  \A r \in Requests, u \in Users :
    pc[r] \in {"rotated", "revoking"} /\ pc'[r] = pc[r] /\ u = owner[arg[r]] =>
      /\ TokensOf(u)' = TokensOf(u)
      /\ used' \cap TokensOf(u) = used \cap TokensOf(u)
      /\ u \in active' <=> u \in active
      /\ \A q \in Requests \ {r} :
           pc[q] \in {"locked", "rotated", "revoking"} => owner[arg[q]] # u
LockShieldsUser == [][ShieldsUser]_vars

\* A refresh shortens a session by no more than the clocks of the instances
\* differ, however many instances the session has wandered through and however
\* long each handler, with the time it read on arrival, then waited for its
\* locks: the token that enters a family expires at most MaxSkew earlier than
\* any before it, the first included, so the losses never add up.
RefreshShortensByAtMostSkew ==
  [][\A c \in stored' \ stored : \A p \in stored :
       family[p] = family'[c] => expires'[c] >= expires[p] - MaxSkew]_vars

\* Every login, refresh and logout is answered: no request waits for ever
\* for a row, though requests lock rows in opposite orders.
EveryRequestIsAnswered ==
  \A r \in Requests : pc[r] \in Steps ~> pc[r] \in Outcomes

\* What the OpenAPI contract of logout says ("Revoke the refresh-token
\* family", "Session ended"): after the 204 the session has no current token.
LogoutEndsFamily ==
  \A r \in Requests :
    pc[r] = "ended" /\ arg[r] # NoToken => LiveIn(family[arg[r]]) = {}

\* What the README says of refresh tokens ("revoked by family, and
\* invalidated on reuse"), with no connection ever failing: a refresh that
\* found its token used does not end before the family is dead.  It may, as the
\* victim of a deadlock: with another UPDATE of the family, or with a rotation
\* that has the live token's row and waits for the user's, which goes on to
\* renew the family.
ReuseInvalidatesFamily ==
  [][\A r \in Requests :
       pc[r] = "revoking" /\ pc'[r] # "revoking"
         => \A t \in stored' : family'[t] = family[arg[r]] => t \in revoked']_vars
=============================================================================
