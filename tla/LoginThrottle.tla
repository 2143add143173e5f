---------------------------- MODULE LoginThrottle ----------------------------
(***************************************************************************)
(* The login rate limit for one IP/email pair: Service.Login up to its     *)
(* verdict, and the table login_attempts behind it.  Pairs share nothing   *)
(* but the table, whose statements all name the key, so one is modelled.   *)
(*                                                                         *)
(* A handler reads the clock once, on arrival, and every statement it runs *)
(* uses that time, however long the statement has to wait.  The clock is   *)
(* that of its instance: clock is the slowest of them, and the others are  *)
(* ahead of it by up to MaxSkew, now by more and now by less.  Failures    *)
(* are recorded under an advisory lock; the first check and the clearing   *)
(* after a success take no lock.                                           *)
(***************************************************************************)
EXTENDS Integers, FiniteSets

CONSTANTS
  Requests,     \* logins that may run at the same time
  LoginLimit,   \* failures a window may hold
  LoginWindow,  \* its length, in ticks
  MaxSkew,      \* how far the instances' clocks may differ
  MaxTime,      \* bound on the clock
  MaxRows,      \* bound on the rows ever inserted
  Faults,       \* whether connections break and callers go away
  Nobody        \* the holder of the free lock

ASSUME ThrottleAssumption ==
  /\ IsFiniteSet(Requests)
  /\ LoginLimit \in Nat \ {0}
  /\ LoginWindow \in Nat \ {0}
  /\ MaxSkew \in Nat
  /\ MaxTime \in Nat
  /\ MaxRows \in Nat
  /\ Faults \in BOOLEAN
  /\ Nobody \notin Requests

VARIABLES
  attempts,    \* ids of the committed rows of login_attempts
  at,          \* column attempted_at of every row ever inserted
  serial,      \* the last id given out
  lock,        \* the request that holds the advisory lock
  pc,          \* how far each request has come, or its answer
  now,         \* the time it read on arrival
  seen,        \* the rows its DELETE has found
  clock        \* the time on the slowest clock

\* History, which only the properties read.
VARIABLES
  purged,      \* ids the purge of expired rows has deleted
  cleared,     \* ids of the failures that accepted logins were to clear
  excused      \* those of them that had been cleared when a request arrived

table == <<attempts, at, serial, purged, cleared>>
arrival == <<now, excused>>
vars == <<table, lock, pc, arrival, seen, clock>>

Answers ==
  { "idle",          \* it has not served anything yet
    "limited",       \* 429, ErrRateLimited
    "denied",        \* 401, ErrInvalidCredentials
    "accepted",      \* the credentials are good, tokens are issued next
    "unavailable" }  \* ErrUnavailable, or the caller is gone

Steps ==
  { "arrived",       \* about to run IsLoginRateLimited
    "verifying",     \* about to look the user up and verify the password
    "failed",        \* RecordLoginFailure: waiting for the advisory lock
    "purging",       \* RecordLoginFailure: lock held, about to purge and count
    "full",          \* RecordLoginFailure: the limit is reached, not committed
    "inserted",      \* RecordLoginFailure: row inserted, not committed
    "clearing" }     \* ClearLoginAttempts: deleting

Rows == 1 .. MaxRows

\* The rows a request that arrived at time n counts, and those it purges.
Counted(n) == {i \in attempts : at[i] > n - LoginWindow}
\* Mutant of Expired: the purge also takes rows of the last tick of the window.
ExpiredEarly(n) == {i \in attempts : at[i] <= n - LoginWindow + 1}
Expired(n) == {i \in attempts : at[i] <= n - LoginWindow}

Init ==
  /\ attempts = {} /\ serial = 0
  /\ purged = {} /\ cleared = {}
  /\ excused = [r \in Requests |-> {}]
  /\ at = [i \in Rows |-> 0]
  /\ lock = Nobody
  /\ pc = [r \in Requests |-> "idle"]
  /\ now = [r \in Requests |-> 0]
  /\ seen = [r \in Requests |-> {}]
  /\ clock = 0

Step(r, from, to) ==
  /\ pc[r] = from
  /\ pc' = [pc EXCEPT ![r] = to]

\* Mutant of Answer: the transaction is left open.
AnswerWithoutRollback(r, from, answer) ==
  /\ Step(r, from, answer)
  /\ seen' = [seen EXCEPT ![r] = {}]
  /\ UNCHANGED <<lock, arrival, clock>>

\* An answer ends the request's transaction, which frees the lock, and with it go
\* the handler's locals.
Answer(r, from, answer) ==
  /\ Step(r, from, answer)
  /\ seen' = [seen EXCEPT ![r] = {}]
  /\ lock' = IF lock = r THEN Nobody ELSE lock
  /\ now' = [now EXCEPT ![r] = 0]
  /\ excused' = [excused EXCEPT ![r] = {}]
  /\ UNCHANGED clock

\* A commit that took effect may still be reported as an error.
Told(answer) == {answer} \cup (IF Faults THEN {"unavailable"} ELSE {})

\* What the clock of some instance may show.
Readings == clock .. clock + MaxSkew

Arrive(r) ==
  /\ pc[r] \in Answers
  /\ pc' = [pc EXCEPT ![r] = "arrived"]
  /\ \E n \in Readings : now' = [now EXCEPT ![r] = n]
  /\ excused' = [excused EXCEPT ![r] = cleared]
  /\ UNCHANGED <<table, lock, seen, clock>>

\* The first check, a query of its own.
IsLoginRateLimited(r) ==
  \/ /\ Cardinality(Counted(now[r])) >= LoginLimit
     /\ Answer(r, "arrived", "limited")
     /\ UNCHANGED table
  \/ /\ Cardinality(Counted(now[r])) < LoginLimit
     /\ Step(r, "arrived", "verifying")
     /\ UNCHANGED <<table, lock, arrival, seen, clock>>

\* The requests that may still insert a row.
Pending == {r \in Requests : pc[r] \in {"failed", "purging", "inserted"}}

\* Bound: once no id would be left for one more failure, passwords are right.
RowsLeft == serial + Cardinality(Pending) < MaxRows

\* An unknown or inactive user, a wrong password, or none of these.  After a
\* success the DELETE of ClearLoginAttempts takes its snapshot.
Verify(r) ==
  \/ /\ RowsLeft
     /\ Step(r, "verifying", "failed")
     /\ UNCHANGED <<table, lock, arrival, seen, clock>>
  \/ /\ Step(r, "verifying", "clearing")
     /\ seen' = [seen EXCEPT ![r] = attempts]
     /\ UNCHANGED <<table, lock, arrival, clock>>

\* Mutant of ClearLoginAttempts: only rows that have expired are deleted.
ClearExpired(r, answer) ==
  /\ answer \in Told("accepted")
  /\ Answer(r, "clearing", answer)
  /\ attempts' = attempts \ (seen[r] \cap Expired(now[r]))
  /\ cleared' = cleared \cup seen[r]
  /\ UNCHANGED <<at, serial, purged>>

ClearLoginAttempts(r, answer) ==
  /\ answer \in Told("accepted")
  /\ Answer(r, "clearing", answer)
  /\ attempts' = attempts \ seen[r]
  /\ cleared' = cleared \cup seen[r]
  /\ UNCHANGED <<at, serial, purged>>

(***************************************************************************)
(* RecordLoginFailure, one transaction under pg_advisory_xact_lock.        *)
(***************************************************************************)

\* Mutant of LockKey: no advisory lock.
SkipLock(r) ==
  /\ Step(r, "failed", "purging")
  /\ UNCHANGED <<table, lock, arrival, seen, clock>>

LockKey(r) ==
  /\ lock = Nobody
  /\ Step(r, "failed", "purging")
  /\ lock' = r
  /\ UNCHANGED <<table, arrival, seen, clock>>

\* DELETE what has expired, SELECT COUNT what has not; then INSERT, or not.
PurgeAndCount(r) ==
  /\ seen' = [seen EXCEPT ![r] = Expired(now[r])]
  /\ \/ /\ Cardinality(Counted(now[r])) >= LoginLimit
        /\ Step(r, "purging", "full")
     \/ /\ Cardinality(Counted(now[r])) < LoginLimit
        /\ Step(r, "purging", "inserted")
  /\ UNCHANGED <<table, lock, arrival, clock>>

\* Rows that a concurrent success has cleared are gone already.
CommitPurge(r) ==
  /\ attempts' = attempts \ seen[r]
  /\ purged' = purged \cup (attempts \cap seen[r])

\* The limit is reached: only the purge is committed.
CommitFull(r, answer) ==
  /\ answer \in Told("limited")
  /\ Answer(r, "full", answer)
  /\ CommitPurge(r)
  /\ UNCHANGED <<at, serial, cleared>>

\* Mutant of CommitFailure: the new row takes the last id again.
CommitSameId(r, answer) ==
  /\ answer \in Told("denied")
  /\ Answer(r, "inserted", answer)
  /\ at' = [at EXCEPT ![serial + 1] = now[r]]
  /\ attempts' = (attempts \ seen[r]) \cup {serial + 1}
  /\ purged' = purged \cup (attempts \cap seen[r])
  /\ UNCHANGED <<serial, cleared>>

CommitFailure(r, answer) ==
  /\ answer \in Told("denied")
  /\ Answer(r, "inserted", answer)
  /\ serial' = serial + 1
  /\ at' = [at EXCEPT ![serial'] = now[r]]
  /\ attempts' = (attempts \ seen[r]) \cup {serial'}
  /\ purged' = purged \cup (attempts \cap seen[r])
  /\ UNCHANGED cleared

\* A broken connection, a cancelled request or a crash: rolled back.
Fail(r) ==
  /\ Faults
  /\ \E step \in Steps : Answer(r, step, "unavailable")
  /\ UNCHANGED table

Tick ==
  /\ clock < MaxTime
  /\ clock' = clock + 1
  /\ UNCHANGED <<table, lock, pc, arrival, seen>>

Progress(r) ==
  \/ IsLoginRateLimited(r)
  \/ Verify(r)
  \/ LockKey(r)
  \/ PurgeAndCount(r)
  \/ \E answer \in Answers :
       \/ ClearLoginAttempts(r, answer)
       \/ CommitFull(r, answer)
       \/ CommitFailure(r, answer)

Next ==
  \/ \E r \in Requests : Arrive(r) \/ Progress(r) \/ Fail(r)
  \/ Tick

Spec == Init /\ [][Next]_vars

\* Running requests are scheduled, and PostgreSQL grants the advisory lock to
\* its waiters in turn.
FairSpec == Spec /\ \A r \in Requests : SF_vars(Progress(r))

-----------------------------------------------------------------------------
(***************************************************************************)
(* Properties.                                                             *)
(***************************************************************************)

\* Type invariant: ids are given out once and rows keep theirs.
TypeOK ==
  /\ serial \in 0 .. MaxRows
  /\ attempts \subseteq 1 .. serial /\ purged \subseteq 1 .. serial
  /\ attempts \cap purged = {}
  /\ at \in [Rows -> Nat]
  /\ lock \in Requests \cup {Nobody}
  /\ pc \in [Requests -> Answers \cup Steps]
  /\ now \in [Requests -> Nat]
  /\ seen \in [Requests -> SUBSET (1 .. serial)]
  /\ cleared \subseteq 1 .. serial
  /\ excused \in [Requests -> SUBSET (1 .. serial)]
  /\ clock \in Nat

\* The rows of S that fall into the window that opens with row i.
Window(S, i) == {j \in S : at[i] <= at[j] /\ at[j] < at[i] + LoginWindow}

\* However many logins fail at once, in whatever order RecordLoginFailure gets
\* to them and however old the times they arrived with, the table never holds
\* more than the limit of failures in any window.
WindowBound ==
  \A i \in attempts : Cardinality(Window(attempts, i)) <= LoginLimit

\* A success wipes the slate clean: who logs in is not throttled afterwards for
\* the failures before it.  Whoever is answered 429, by the first check or by
\* RecordLoginFailure, there have been as many failures as the limit that its
\* window still covers and that no login had cleared when it arrived; neither
\* checks without the lock, nor purges, nor failures that were being recorded
\* while the login cleared bring back one that it has cleared.
Held(r) == {i \in 1 .. serial : at[i] > now[r] - LoginWindow} \ excused[r]
SuccessResetsLimit ==
  [][\A r \in Requests :
       pc[r] # "limited" /\ pc'[r] = "limited" => Cardinality(Held(r)) >= LoginLimit]_vars

\* Every login is answered: the advisory lock is always released.
EveryLoginIsAnswered ==
  \A r \in Requests : pc[r] \in Steps ~> pc[r] \in Answers

\* What RecordLoginFailure says of itself ("concurrent API instances cannot
\* insert more than the configured number of failures"), of the rows inserted
\* and not cleared by a success, also those purged since.
FailuresPerWindow ==
  \A i \in attempts \cup purged :
    Cardinality(Window(attempts \cup purged, i)) <= LoginLimit

\* What RecordLoginFailure does guarantee of them.  A purge hides failures from
\* requests that arrived with an older time and still run, and from instances
\* whose clocks are behind.  So the limit holds, up to less than the number of
\* concurrent requests, of spans that are shorter than the window by what the
\* clocks differ, however often rows are purged and requests overtake each other.
Span(S, i) == {j \in Window(S, i) : at[j] < at[i] + LoginWindow - MaxSkew}
FailureExcessBounded ==
  \A i \in attempts \cup purged :
    Cardinality(Span(attempts \cup purged, i)) < LoginLimit + Cardinality(Requests)
=============================================================================
