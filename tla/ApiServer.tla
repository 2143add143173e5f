------------------------------ MODULE ApiServer ------------------------------
(***************************************************************************)
(* One process of the API from start to exit: run() of cmd/api, the HTTP   *)
(* server with its chain of middleware, the connection pool and the store  *)
(* of error events.                                                        *)
(*                                                                         *)
(* A handler is whatever the mux dispatches to, the template's modules or  *)
(* the application's: any sequence of queries, writes of the header, and   *)
(* then a return or a panic.  It writes through the responseWriter it is   *)
(* given, never through the one which that unwraps to, and holds at most   *)
(* one connection at a time, for a query or a transaction.  A connection   *)
(* serves one request after the other, so a member of Requests stands for  *)
(* a connection and the request it carries.  http.Server and pgxpool are   *)
(* modelled by what run() relies on: Shutdown waits for requests but not   *)
(* beyond its timeout, and Close refuses new connections and waits for     *)
(* those that are out.                                                     *)
(***************************************************************************)
EXTENDS Integers, FiniteSets

CONSTANTS
  Requests,  \* connections, and the requests they carry
  MaxConns   \* size of the pool, DATABASE_MAX_CONNS

ASSUME ServerAssumption ==
  /\ IsFiniteSet(Requests)
  /\ MaxConns \in Nat \ {0}

VARIABLES
  phase,      \* how far run() has come
  exit,       \* how the process ends
  signalled,  \* SIGINT or SIGTERM has arrived
  listener,   \* the socket of ListenAndServe
  pool,       \* the connection pool
  stage,      \* how far each request has come
  wire,       \* the reply net/http has sent
  status,     \* what the responseWriter of ErrorPersistence has recorded
  event       \* what became of the request's error event

process == <<phase, exit, signalled, listener, pool>>
replies == <<wire, status, event>>
vars == <<process, stage, replies>>

Phases ==
  { "down",
    "configuring",  \* main: config.Load
    "preparing",    \* run: signals are caught; keys, startup migrations
    "opening",      \* run: db.Open
    "serving",      \* run: in its select
    "draining",     \* run: in server.Shutdown
    "closing" }     \* run: returning, in the deferred pool.Close

\* A reply below 500, or a server error.
Statuses == {"ok", "fail"}

\* A request that holds a connection of the pool.
Holding == {"querying", "inserting"}

\* The stages of a request from its first byte to the end of its handler.
Busy == {"handling", "waiting", "persisting"} \cup Holding

Holders == {r \in Requests : stage[r] \in Holding}
HasFree == pool = "open" /\ Cardinality(Holders) < MaxConns

Blank == [r \in Requests |-> "none"]

Init ==
  /\ phase = "configuring"
  /\ exit = "running"
  /\ signalled = FALSE
  /\ listener = "none"
  /\ pool = "none"
  /\ stage = Blank
  /\ wire = Blank
  /\ status = Blank
  /\ event = Blank

-----------------------------------------------------------------------------
(* The process.                                                            *)

\* It ends, and with it the requests that are still being served.
Die(how) ==
  /\ phase' = "down"
  /\ exit' = how
  /\ stage' = [r \in Requests |-> IF stage[r] \in Busy THEN "killed" ELSE stage[r]]
  /\ UNCHANGED <<signalled, listener, pool, replies>>

\* A configuration that does not validate, keys that cannot be loaded, a
\* migration that fails, a database that does not answer.
StartupFails ==
  /\ \/ phase \in {"configuring", "preparing"}
     \/ phase = "opening" /\ pool = "unopened"
  /\ Die("error")

\* The configuration says whether there is a database.
Configure ==
  /\ phase = "configuring"
  /\ phase' = "preparing"
  /\ pool' \in {"none", "unopened"}
  /\ UNCHANGED <<exit, signalled, listener, stage, replies>>

\* Migrations do not look at the signal.
Prepare ==
  /\ phase = "preparing"
  /\ phase' = "opening"
  /\ UNCHANGED <<exit, signalled, listener, pool, stage, replies>>

\* db.Open pings under the context that a signal cancels.  Then the routes
\* are registered and ListenAndServe starts.
OpenPool ==
  /\ phase = "opening"
  /\ pool = "unopened" => ~ signalled
  /\ phase' = "serving"
  /\ listener' = "starting"
  /\ pool' = IF pool = "unopened" THEN "open" ELSE pool
  /\ UNCHANGED <<exit, signalled, stage, replies>>

Listen ==
  /\ listener = "starting"
  /\ listener' \in {"open", "failed"}
  /\ UNCHANGED <<phase, exit, signalled, pool, stage, replies>>

\* Accept fails for good.
ListenerFails ==
  /\ listener = "open"
  /\ listener' = "failed"
  /\ UNCHANGED <<phase, exit, signalled, pool, stage, replies>>

\* run() returns: its deferred pool.Close refuses connections from now on.
Return(how) ==
  /\ phase' = "closing"
  /\ exit' = how
  /\ pool' = IF pool = "open" THEN "closed" ELSE pool
  /\ UNCHANGED <<signalled, stage, replies>>

\* The select of run() takes the error of ListenAndServe.
ServerFailed ==
  /\ phase = "serving"
  /\ listener = "failed"
  /\ Return("error")
  /\ UNCHANGED listener

\* Mutant of BeginShutdown: the pool is closed when the signal arrives.
ShutdownClosingPool ==
  /\ phase = "serving"
  /\ signalled
  /\ phase' = "draining"
  /\ listener' = "closed"
  /\ pool' = IF pool = "open" THEN "closed" ELSE pool
  /\ UNCHANGED <<exit, signalled, stage, replies>>

\* It takes the signal.  Shutdown closes the listener.
BeginShutdown ==
  /\ phase = "serving"
  /\ signalled
  /\ phase' = "draining"
  /\ listener' = "closed"
  /\ UNCHANGED <<exit, signalled, pool, stage, replies>>

\* Shutdown gives a connection up that has not sent a request for a while.
DropConnection(r) ==
  /\ phase = "draining"
  /\ stage[r] = "accepted"
  /\ stage' = [stage EXCEPT ![r] = "none"]
  /\ UNCHANGED <<process, replies>>

\* Shutdown returns when no connection is active, or new.
Drained ==
  /\ phase = "draining"
  /\ \A r \in Requests : stage[r] \notin Busy \cup {"accepted"}
  /\ Return("clean")
  /\ UNCHANGED listener

DrainTimeout ==
  /\ phase = "draining"
  /\ Return("error")
  /\ UNCHANGED listener

\* pool.Close has got every connection back; main exits.
CloseAndExit ==
  /\ phase = "closing"
  /\ pool = "closed" => Holders = {}
  /\ Die(exit)

\* Before run() has asked for signals one kills the process; later ones are
\* noted, and only the first one counts.
Signal ==
  /\ phase # "down"
  /\ ~ signalled
  /\ IF phase = "configuring"
     THEN Die("killed")
     ELSE /\ signalled' = TRUE
          /\ UNCHANGED <<phase, exit, listener, pool, stage, replies>>

\* A crash of the process or its machine.
Crash ==
  /\ phase # "down"
  /\ Die("killed")

Restart ==
  /\ phase = "down"
  /\ phase' = "configuring"
  /\ exit' = "running"
  /\ signalled' = FALSE
  /\ listener' = "none"
  /\ pool' = "none"
  /\ stage' = Blank
  /\ wire' = Blank
  /\ status' = Blank
  /\ event' = Blank

-----------------------------------------------------------------------------
(* Requests.                                                               *)

Move(r, from, to) ==
  /\ phase # "down"
  /\ stage[r] = from
  /\ stage' = [stage EXCEPT ![r] = to]

Accept(r) ==
  /\ listener = "open"
  /\ stage[r] \in {"none", "done"}
  /\ Move(r, stage[r], "accepted")
  /\ UNCHANGED <<process, replies>>

\* A request arrives: on a new connection, or on one kept alive, which
\* Shutdown has closed.
Receive(r) ==
  /\ \/ stage[r] = "accepted"
     \/ stage[r] = "done" /\ listener # "closed"
  /\ Move(r, stage[r], "handling")
  /\ wire' = [wire EXCEPT ![r] = "none"]
  /\ status' = [status EXCEPT ![r] = "none"]
  /\ event' = [event EXCEPT ![r] = "none"]
  /\ UNCHANGED process

\* Mutant of WriteHeader: wroteHeader is not looked at.
OverwriteStatus(r, s) ==
  /\ wire' = [wire EXCEPT ![r] = IF @ = "none" THEN s ELSE @]
  /\ status' = [status EXCEPT ![r] = s]

\* The first header counts, for net/http and for the responseWriter.
WriteHeader(r, s) ==
  /\ wire' = [wire EXCEPT ![r] = IF @ = "none" THEN s ELSE @]
  /\ status' = [status EXCEPT ![r] = IF @ = "none" THEN s ELSE @]

Answer(r, s) ==
  /\ Move(r, "handling", "handling")
  /\ WriteHeader(r, s)
  /\ UNCHANGED <<process, event>>

\* What ErrorPersistence does when the handler is through.
Conclude(r) ==
  Move(r, "handling", IF status'[r] = "fail" THEN "persisting" ELSE "done")

\* The handler returns.  Without a header the reply is 200.
HandlerReturns(r) ==
  /\ WriteHeader(r, "ok")
  /\ Conclude(r)
  /\ UNCHANGED <<process, event>>

\* Recovery, the innermost of the chain, writes a 500 if it still can.
HandlerPanics(r) ==
  /\ WriteHeader(r, "fail")
  /\ Conclude(r)
  /\ UNCHANGED <<process, event>>

\* A query, or a transaction: a connection has to be had first.
Query(r) ==
  /\ pool # "none"
  /\ Move(r, "handling", "waiting")
  /\ UNCHANGED <<process, replies>>

Acquire(r) ==
  /\ HasFree
  /\ Move(r, "waiting", "querying")
  /\ UNCHANGED <<process, replies>>

\* The pool is closed, the request was cancelled, the readiness check has
\* waited for its timeout, or no connection can be made.
AcquireFails(r) ==
  /\ Move(r, "waiting", "handling")
  /\ UNCHANGED <<process, replies>>

\* Mutant of Release: the rows are not closed, and the connection stays out.
KeepConnection(r) ==
  /\ Move(r, "querying", "querying")
  /\ UNCHANGED <<process, replies>>

\* The query has its result, or an error, and the connection goes back.
Release(r) ==
  /\ Move(r, "querying", "handling")
  /\ UNCHANGED <<process, replies>>

\* PostgresStore.Persist, which a cancelled request does not cancel.
BeginInsert(r) ==
  /\ HasFree
  /\ Move(r, "persisting", "inserting")
  /\ UNCHANGED <<process, replies>>

\* NoopStore; or no connection within the second, or never again.
PersistFails(r) ==
  /\ Move(r, "persisting", "done")
  /\ event' = [event EXCEPT ![r] =
       CASE pool = "none"   -> "discarded"
         [] pool = "closed" -> "refused"
         [] OTHER           -> "failed"]
  /\ UNCHANGED <<process, wire, status>>

\* An INSERT that takes effect may be reported as an error, which is logged.
Insert(r, e) ==
  /\ e \in {"stored", "failed"}
  /\ Move(r, "inserting", "done")
  /\ event' = [event EXCEPT ![r] = e]
  /\ UNCHANGED <<process, wire, status>>

-----------------------------------------------------------------------------
\* What run() does by itself.
Advance ==
  \/ Configure \/ Prepare \/ OpenPool \/ Listen \/ StartupFails
  \/ ServerFailed \/ BeginShutdown \/ Drained \/ DrainTimeout \/ CloseAndExit

Next ==
  \/ Advance
  \/ ListenerFails \/ Signal \/ Crash \/ Restart
  \/ \E r \in Requests :
       \/ DropConnection(r) \/ Accept(r) \/ Receive(r)
       \/ \E s \in Statuses : Answer(r, s)
       \/ HandlerReturns(r) \/ HandlerPanics(r)
       \/ Query(r) \/ Acquire(r) \/ AcquireFails(r) \/ Release(r)
       \/ BeginInsert(r) \/ PersistFails(r)
       \/ \E e \in {"stored", "failed"} : Insert(r, e)

Spec == Init /\ [][Next]_vars

\* run() is scheduled and its timers fire; handlers return; the pool serves
\* its waiters in turn, and refuses them when it is closed; PostgreSQL answers
\* or the connection breaks; persistence gives up after a second.
Fairness ==
  /\ WF_vars(Advance)
  /\ \A r \in Requests :
       /\ SF_vars(HandlerReturns(r))
       /\ SF_vars(Acquire(r))
       /\ WF_vars(pool = "closed" /\ AcquireFails(r))
       /\ WF_vars(Release(r))
       /\ WF_vars(PersistFails(r) \/ BeginInsert(r))
       /\ WF_vars(\E e \in {"stored", "failed"} : Insert(r, e))

FairSpec == Spec /\ Fairness

-----------------------------------------------------------------------------
(* Properties.                                                             *)

\* Type invariant.  The pool is there from db.Open on, and only a run() on its
\* way out closes it, as the handlers and the store of a draining server need it.
TypeOK ==
  /\ phase \in Phases
  /\ exit \in {"running", "clean", "error", "killed"}
  /\ signalled \in BOOLEAN
  /\ listener \in {"none", "starting", "open", "failed", "closed"}
  /\ pool \in {"none", "unopened", "open", "closed"}
  /\ stage \in [Requests -> Busy \cup {"none", "accepted", "done", "killed"}]
  /\ wire \in [Requests -> Statuses \cup {"none"}]
  /\ status \in [Requests -> Statuses \cup {"none"}]
  /\ event \in [Requests -> {"none", "stored", "failed", "refused", "discarded"}]
  /\ pool = "closed" => phase \in {"closing", "down"}
  /\ phase \in {"serving", "draining"} => pool \in {"none", "open"}

\* A process that exits with status 0 has lost nothing: every request it had
\* begun was served to its end, and no error event found the pool closed by
\* run()'s deferred Close.
GracefulExitLosesNothing ==
  exit = "clean" => \A r \in Requests : stage[r] # "killed" /\ event[r] # "refused"

\* The error events tell what clients saw: a reply of 500 or more is reported
\* to the store once its handler is through, panics included, and no other
\* reply is, not even one that panicked after its header was out.
EventsTellReplies ==
  \A r \in Requests :
    stage[r] = "done" => (wire[r] = "fail" <=> event[r] # "none")

\* Every request is served to its end: no handler waits for ever for a
\* connection, though persisting its failure takes a second turn at the pool
\* from which it may just have been refused.
EveryRequestEnds ==
  \A r \in Requests : stage[r] \in Busy ~> stage[r] \in {"done", "killed"}

\* A signal ends the process, at whatever point of startup, service or
\* shutdown it arrives and however full the pool is.
SignalEndsProcess == signalled ~> phase = "down"
=============================================================================
