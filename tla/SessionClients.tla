---------------------------- MODULE SessionClients ----------------------------
(***************************************************************************)
(* A browser and its sessions: login, refresh and logout from the request  *)
(* to the delivery of its cookies, and the access tokens the service signs *)
(* on the way.                                                             *)
(*                                                                         *)
(* The sessions are those of TokenFamilies, which the store implements: a  *)
(* rotation or a revocation takes effect in one step, its commit.  What    *)
(* the locks of the store forbid meanwhile is in the guards.  An access    *)
(* token is a value nobody looks up: it says until when it is good and     *)
(* what its owner may do, as that was read when it was asked for.          *)
(*                                                                         *)
(* Requests belong to one browser of one user.  Replies may overtake each  *)
(* other or be lost.  The clocks of the API instances are ahead of the     *)
(* slowest one by up to MaxSkew.                                           *)
(***************************************************************************)
EXTENDS Integers

CONSTANTS
  Requests,  \* login, refresh and logout requests
  Tokens,    \* refresh tokens
  Grants,    \* roles and permissions
  AccessTTL, \* lifetime of an access token
  MaxSkew,
  MaxTime,   \* bound on the clock
  MaxChanges, \* bound on what operators change
  NoToken,   \* no refresh token
  Unopened, Closed

ASSUME ClientAssumption ==
  /\ AccessTTL \in Nat \ {0}
  /\ MaxSkew \in Nat
  /\ MaxTime \in Nat
  /\ MaxChanges \in Nat
  /\ Unopened \notin Tokens /\ Closed \notin Tokens /\ NoToken \notin Tokens
  /\ Unopened # Closed

VARIABLES
  live, seen, \* the sessions, see TokenFamilies
  family,     \* the family_id of each refresh token
  active,     \* users.active
  granted,    \* roles and permissions the user has in the database
  clock,
  stage,      \* how far each request has come
  token,      \* the refresh token it presents, has stored or is revoking
  now,        \* the time its handler read on arrival
  claims,     \* the roles and permissions it read
  access,     \* an access token, one of those that have been signed
  jar         \* the browser's refresh cookie

\* History, which only the properties read.
VARIABLES
  changes,    \* how often operators have changed the user
  changedAt,  \* when each grant, and the user's being active, last changed
  closedAt,   \* when each session ended
  serial      \* one request at a time so far, and none of them failed

store == <<live, seen, family>>
user == <<active, granted, changes, changedAt>>
locals == <<token, now, claims>>
vars == <<store, user, clock, closedAt, stage, locals, access, jar, serial>>

Sessions == INSTANCE TokenFamilies

\* NotBefore and IssuedAt are one time, ExpiresAt is AccessTTL later.
NoAccess == [family |-> NoToken, grants |-> {}, issued |-> 0]

\* Replies on their way: with both session cookies, with cleared cookies, or
\* an error that leaves the cookies alone.
Replies == {"session", "cleared", "refused"}

Stages ==
  { "idle",
    "verifying",   \* Login, until findUser
    "inserting",   \* Login, before CreateRefreshToken
    "presenting",  \* Refresh, before RotateRefreshToken has its locks
    "rotating",    \* inside its transaction
    "signing",     \* before IssueAccessToken
    "leaving",     \* Logout, before its UPDATE
    "revoking" }   \* inside it
  \cup Replies

Family(r) == family[token[r]]

\* The transaction of a rotation has locked the user's row and its token's.
NoneRotates == \A q \in Requests : stage[q] # "rotating"

\* What a handler may read as the time.
Readings == clock .. clock + MaxSkew

Init ==
  /\ Sessions!Init
  /\ family = [t \in Tokens |-> NoToken]
  /\ active = TRUE
  /\ granted \in SUBSET Grants
  /\ clock = 0
  /\ stage = [r \in Requests |-> "idle"]
  /\ token = [r \in Requests |-> NoToken]
  /\ now = [r \in Requests |-> 0]
  /\ claims = [r \in Requests |-> {}]
  /\ access = NoAccess
  /\ jar = NoToken
  /\ changes = 0
  /\ changedAt = [user |-> 0, grant |-> [g \in Grants |-> 0]]
  /\ closedAt = [f \in Tokens |-> 0]
  /\ serial = TRUE

-----------------------------------------------------------------------------
(* Requests.  CSRF validation comes first; a request it refuses is none.   *)

Move(r, from, to) ==
  /\ stage[r] = from
  /\ stage' = [stage EXCEPT ![r] = to]

\* What a handler no longer needs.
Forget(r) ==
  /\ now' = [now EXCEPT ![r] = 0]
  /\ claims' = [claims EXCEPT ![r] = {}]

Answer(r, from, reply) ==
  /\ Move(r, from, reply)
  /\ token' = [token EXCEPT ![r] = NoToken]
  /\ Forget(r)

\* The handler reads the clock before it does anything else.
ReadClock(r) == \E n \in Readings : now' = [now EXCEPT ![r] = n]

AllIdle == \A q \in Requests : stage[q] = "idle"

\* A client that holds a session has no reason to log in.
BeginLogin(r) ==
  /\ Move(r, "idle", "verifying")
  /\ ReadClock(r)
  /\ serial' = (serial /\ AllIdle /\ jar = NoToken)
  /\ UNCHANGED <<store, user, clock, closedAt, token, claims, access, jar>>

\* Without its cookie a refresh is refused, a logout clears all the same.
Present(r, to) ==
  /\ jar # NoToken
  /\ Move(r, "idle", to)
  /\ token' = [token EXCEPT ![r] = jar]
  /\ serial' = (serial /\ AllIdle)
  /\ UNCHANGED <<store, user, clock, closedAt, claims, access, jar>>

BeginRefresh(r) == Present(r, "presenting") /\ ReadClock(r)
BeginLogout(r) == Present(r, "leaving") /\ UNCHANGED now

ReadClaims(r) == claims' = [claims EXCEPT ![r] = granted]

\* The password is right and the user active, at this moment.
FindUser(r) ==
  /\ active
  /\ Move(r, "verifying", "inserting")
  /\ ReadClaims(r)
  /\ UNCHANGED <<store, user, clock, closedAt, token, now, access, jar, serial>>

\* Invalid credentials, or too many failures.
RefuseLogin(r) ==
  /\ Answer(r, "verifying", "refused")
  /\ UNCHANGED <<store, user, clock, closedAt, access, jar, serial>>

\* Mutant of CreateRefreshToken: the token joins the family of another one.
CreateInFamilyOf(r) ==
  /\ Move(r, "inserting", "signing")
  /\ NoneRotates
  /\ \E t, f \in Tokens :
       /\ Sessions!Open(t)
       /\ family' = [family EXCEPT ![t] = f]
       /\ token' = [token EXCEPT ![r] = t]
  /\ UNCHANGED <<user, clock, closedAt, now, claims, access, jar, serial>>

\* issueTokens: the first token of a new family.  Its reference to the user
\* waits for a rotation's lock.
CreateRefreshToken(r) ==
  /\ Move(r, "inserting", "signing")
  /\ NoneRotates
  /\ \E t \in Tokens :
       /\ Sessions!Open(t)
       /\ family' = [family EXCEPT ![t] = t]
       /\ token' = [token EXCEPT ![r] = t]
  /\ UNCHANGED <<user, clock, closedAt, now, claims, access, jar, serial>>

\* The SELECT ... FOR UPDATE finds the token live and its user active; the
\* claims are read before the commit.
CheckToken(r) ==
  /\ Move(r, "presenting", "rotating")
  /\ NoneRotates
  /\ live[Family(r)] = token[r]
  /\ active
  /\ ReadClaims(r)
  /\ UNCHANGED <<store, user, clock, closedAt, token, now, access, jar, serial>>

CommitRotation(r) ==
  /\ Move(r, "rotating", "signing")
  /\ \E t \in Tokens :
       /\ Sessions!Exchange(Family(r), t)
       /\ family' = [family EXCEPT ![t] = Family(r)]
       /\ token' = [token EXCEPT ![r] = t]
  /\ UNCHANGED <<user, clock, closedAt, now, claims, access, jar, serial>>

Revoke(f) ==
  /\ Sessions!Close(f)
  /\ closedAt' = [closedAt EXCEPT ![f] = clock]
  /\ UNCHANGED family

\* A token that has been used ends its session.
DetectReuse(r) ==
  /\ Answer(r, "presenting", "refused")
  /\ NoneRotates
  /\ live[Family(r)] # token[r]
  /\ Revoke(Family(r))
  /\ UNCHANGED <<user, clock, access, jar, serial>>

\* A revoked or expired token, or an inactive user.
RejectToken(r) ==
  /\ Answer(r, "presenting", "refused")
  /\ NoneRotates
  /\ live[Family(r)] \in {token[r], Closed}
  /\ UNCHANGED <<store, user, clock, closedAt, access, jar, serial>>

\* IssueAccessToken.  access keeps one of all tokens, whichever.
Issue(r, n) ==
  /\ Move(r, "signing", "session")
  /\ access' \in {access, [family |-> Family(r), grants |-> claims[r], issued |-> n]}
  /\ Forget(r)
  /\ UNCHANGED <<store, user, clock, closedAt, token, jar, serial>>

\* Mutant of Sign: the lifetime begins when the token is signed.
SignLate(r) == Issue(r, clock + MaxSkew)

\* The lifetime begins at the time of arrival.
Sign(r) == Issue(r, now[r])

\* The UPDATE of a logout sees the tokens of its snapshot, and of these only
\* the live one matters.
ReadFamily(r) ==
  /\ Move(r, "leaving", "revoking")
  /\ token' = [token EXCEPT ![r] =
       IF live[Family(r)] \in Tokens THEN live[Family(r)] ELSE @]
  /\ UNCHANGED <<store, user, clock, closedAt, now, claims, access, jar, serial>>

\* It waits for the row of a rotation.  A token stored meanwhile stays live.
CommitLogout(r) ==
  /\ Answer(r, "revoking", "cleared")
  /\ \A q \in Requests : stage[q] = "rotating" => token[q] # token[r]
  /\ IF live[Family(r)] = token[r]
     THEN Revoke(Family(r))
     ELSE UNCHANGED <<store, closedAt>>
  /\ UNCHANGED <<user, clock, access, jar, serial>>

\* An error, a timeout or a crash answers 503, and rolls a transaction back.
\* A logout clears the cookies nevertheless.
Fail(r) ==
  /\ stage[r] \notin {"idle"} \cup Replies
  /\ Answer(r, stage[r],
            IF stage[r] \in {"leaving", "revoking"} THEN "cleared" ELSE "refused")
  /\ serial' = FALSE
  /\ UNCHANGED <<store, user, clock, closedAt, access, jar>>

\* Mutant of Deliver: a refresh does not set the refresh cookie.
DeliverAccessOnly(r) ==
  /\ stage[r] \in Replies
  /\ Answer(r, stage[r], "idle")
  /\ jar' = CASE stage[r] = "session" -> IF jar = NoToken THEN token[r] ELSE jar
              [] stage[r] = "cleared" -> NoToken
              [] OTHER                -> jar
  /\ UNCHANGED <<store, user, clock, closedAt, access, serial>>

\* setSessionCookies, clearCookies: whichever reply comes last counts.
Deliver(r) ==
  /\ stage[r] \in Replies
  /\ Answer(r, stage[r], "idle")
  /\ jar' = CASE stage[r] = "session" -> token[r]
              [] stage[r] = "cleared" -> NoToken
              [] OTHER                -> jar
  /\ UNCHANGED <<store, user, clock, closedAt, access, serial>>

Lose(r) ==
  /\ stage[r] \in Replies
  /\ Answer(r, stage[r], "idle")
  /\ serial' = FALSE
  /\ UNCHANGED <<store, user, clock, closedAt, access, jar>>

-----------------------------------------------------------------------------
(* Operators and time.                                                     *)

\* An operator's UPDATE of the user waits for a rotation's lock.
SetActive ==
  /\ changes < MaxChanges
  /\ changes' = changes + 1
  /\ NoneRotates
  /\ active' = ~ active
  /\ changedAt' = [changedAt EXCEPT !.user = clock]
  /\ UNCHANGED <<store, granted, clock, closedAt, stage, locals, access, jar, serial>>

ChangeGrant(g) ==
  /\ changes < MaxChanges
  /\ changes' = changes + 1
  /\ granted' = IF g \in granted THEN granted \ {g} ELSE granted \cup {g}
  /\ changedAt' = [changedAt EXCEPT !.grant[g] = clock]
  /\ UNCHANGED <<store, active, clock, closedAt, stage, locals, access, jar, serial>>

Tick ==
  /\ clock < MaxTime
  /\ clock' = clock + 1
  /\ UNCHANGED <<store, user, closedAt, stage, locals, access, jar, serial>>

Next ==
  \/ \E r \in Requests :
       \/ BeginLogin(r) \/ FindUser(r) \/ RefuseLogin(r) \/ CreateRefreshToken(r)
       \/ BeginRefresh(r) \/ CheckToken(r) \/ CommitRotation(r)
       \/ DetectReuse(r) \/ RejectToken(r) \/ Sign(r)
       \/ BeginLogout(r) \/ ReadFamily(r) \/ CommitLogout(r)
       \/ Fail(r) \/ Deliver(r) \/ Lose(r)
  \/ SetActive \/ (\E g \in Grants : ChangeGrant(g)) \/ Tick

Spec == Init /\ [][Next]_vars

-----------------------------------------------------------------------------
(* Access checks.  They have no state: a decision is a function of the     *)
(* token and of the time some instance reads.                              *)

\* ParseAccessToken, as RequireAuthentication calls it.
Authenticates(a, n) == a # NoAccess /\ a.issued <= n /\ n < a.issued + AccessTTL

\* RequirePermission, RequireRole.
Authorizes(a, g, n) == Authenticates(a, n) /\ g \in a.grants

\* At time t, something that has been so for as long as tokens live.
Settled(t) == clock >= t + AccessTTL + MaxSkew

-----------------------------------------------------------------------------
(* Properties.                                                             *)

\* Type invariant.  A token is known by its family from the moment it is
\* stored, and a session's live token is one of its own.
TypeOK ==
  /\ live \in [Tokens -> Tokens \cup {Unopened, Closed}]
  /\ seen \subseteq Tokens
  /\ family \in [Tokens -> Tokens \cup {NoToken}]
  /\ active \in BOOLEAN
  /\ granted \subseteq Grants
  /\ clock \in 0 .. MaxTime
  /\ stage \in [Requests -> Stages]
  /\ token \in [Requests -> seen \cup {NoToken}]
  /\ now \in [Requests -> 0 .. MaxTime + MaxSkew]
  /\ claims \in [Requests -> SUBSET Grants]
  /\ access \in [family : Tokens \cup {NoToken}, grants : SUBSET Grants, issued : Nat]
  /\ jar \in seen \cup {NoToken}
  /\ changes \in 0 .. MaxChanges
  /\ changedAt \in [user : 0 .. MaxTime, grant : [Grants -> 0 .. MaxTime]]
  /\ closedAt \in [Tokens -> 0 .. MaxTime]
  /\ serial \in BOOLEAN
  /\ \A f \in Tokens : live[f] \in Tokens => live[f] \in seen /\ family[live[f]] = f

\* Logout and reuse detection do not recall access tokens, and a refresh may
\* be in flight when they end the session.  Still none is accepted, by any
\* instance, once the session has been over for the lifetime of one.
AccessEndsWithSession ==
  \A n \in Readings :
    Authenticates(access, n) /\ live[access.family] = Closed
      => ~ Settled(closedAt[access.family])

\* Neither does deactivation, which a login may overlook between the look at
\* the password and the INSERT: access ends a lifetime later all the same.
AccessEndsWithUser ==
  \A n \in Readings :
    Authenticates(access, n) /\ ~ active => ~ Settled(changedAt.user)

\* 200 or 403: every decision on a role or permission is the one the database
\* would give, unless that has changed within the lifetime of a token.
DecisionsAreRecent ==
  \A n \in Readings : \A g \in Grants :
    Authenticates(access, n) /\ Settled(changedAt.grant[g])
      => (Authorizes(access, g, n) <=> g \in granted)

\* A client that sends one request at a time, gets every answer and does not log
\* in while it holds a session's cookie has the live token of its session and
\* leaves no other session open: rotation never locks it out, and a logout
\* leaves nothing behind.  Nothing is said of clients whose requests overlap or
\* whose replies are lost: to them the server looks the same as to a thief.
SerialClientKeepsSession ==
  serial /\ AllIdle
    => {live[f] : f \in Tokens} \cap Tokens = {jar} \ {NoToken}
=============================================================================
