--------------------------- MODULE ApiServer_proofs ---------------------------
(***************************************************************************)
(* What ApiServer promises whatever the number of requests and the size of *)
(* the pool.                                                               *)
(***************************************************************************)
EXTENDS ApiServer, TLAPS

-----------------------------------------------------------------------------
(* The inductive invariant.                                                *)

\* A request is killed by the end of the process and by nothing else.
KilledByExit == phase # "down" => \A r \in Requests : stage[r] # "killed"

\* Only a closed pool refuses an event, so what is refused was left over by
\* a shutdown.
RefusedByClose == \A r \in Requests : event[r] = "refused" => pool = "closed"

\* Once run() has returned without an error nothing can begin any more: no
\* connection is open that could carry a request, and none can be made.
NothingLeft ==
  /\ phase = "draining" => listener = "closed"
  /\ exit = "clean" =>
       /\ phase \in {"closing", "down"}
       /\ listener = "closed"
       /\ \A r \in Requests : stage[r] \in {"none", "done"} /\ event[r] # "refused"

\* The recorder agrees with the wire; a request has no event before its handler
\* is through, and only failed ones get as far as the store.
Recorded ==
  \A r \in Requests :
    /\ wire[r] = status[r]
    /\ stage[r] \in Busy => event[r] = "none"
    /\ stage[r] \in {"persisting", "inserting"} => status[r] = "fail"
    /\ stage[r] = "done" => (status[r] = "fail" <=> event[r] # "none")

IInv == TypeOK /\ KilledByExit /\ RefusedByClose /\ NothingLeft /\ Recorded

\* Initially it holds.
LEMMA InitIInv == Init => IInv
BY DEF Init, Blank, IInv, TypeOK, KilledByExit, RefusedByClose, NothingLeft,
  Recorded, Phases, Statuses, Busy, Holding

-----------------------------------------------------------------------------
(* Every step preserves it, conjunct by conjunct.                          *)

\* The end of the process, whatever the reason.
LEMMA TypeDie ==
  ASSUME TypeOK, NEW how \in {"running", "clean", "error", "killed"}, Die(how)
  PROVE  TypeOK'
<1>1. stage' \in [Requests -> Busy \cup {"none", "accepted", "done", "killed"}]
  BY DEF TypeOK, Die
<1>2. phase' \in Phases /\ phase' \notin {"serving", "draining"}
  BY DEF Die, Phases
<1>3. pool' = "closed" => phase' \in {"closing", "down"}
  BY DEF Die
<1> QED
  BY <1>1, <1>2, <1>3 DEF TypeOK, Die, replies

\* TypeOK, which is inductive by itself.
LEMMA TypeStep ==
  ASSUME TypeOK, [Next]_vars
  PROVE  TypeOK'
<1> USE DEF Phases, Statuses, Busy, Holding, TypeOK, process, replies
<1>1. CASE Configure
  BY <1>1 DEF Configure
<1>2. CASE Prepare
  BY <1>2 DEF Prepare
<1>3. CASE OpenPool
  BY <1>3 DEF OpenPool
<1>4. CASE Listen
  BY <1>4 DEF Listen
<1>5. CASE StartupFails
  BY <1>5, TypeDie DEF StartupFails
<1>6. CASE ServerFailed
  BY <1>6 DEF ServerFailed, Return
<1>7. CASE BeginShutdown
  BY <1>7 DEF BeginShutdown
<1>8. CASE Drained
  BY <1>8 DEF Drained, Return, Busy, Holding
<1>9. CASE DrainTimeout
  BY <1>9 DEF DrainTimeout, Return
<1>10. CASE CloseAndExit
  BY <1>10, TypeDie DEF CloseAndExit
<1>11. CASE ListenerFails
  BY <1>11 DEF ListenerFails
<1>12. CASE Signal
  <2>1. CASE Die("killed")
    BY <2>1, TypeDie
  <2>2. CASE signalled' = TRUE /\ UNCHANGED <<phase, exit, listener, pool, stage, replies>>
    BY <2>2
  <2> QED
    BY <1>12, <2>1, <2>2 DEF Signal
<1>13. CASE Crash
  BY <1>13, TypeDie DEF Crash
<1>14. CASE Restart
  BY <1>14 DEF Restart, Blank
<1>15. ASSUME NEW r \in Requests, DropConnection(r) PROVE TypeOK'
  BY <1>15 DEF DropConnection
<1>16. ASSUME NEW r \in Requests, Accept(r) PROVE TypeOK'
  BY <1>16 DEF Accept, Move
<1>17. ASSUME NEW r \in Requests, Receive(r) PROVE TypeOK'
  BY <1>17 DEF Receive, Move
<1>18. ASSUME NEW r \in Requests, NEW s \in Statuses, Answer(r, s) PROVE TypeOK'
  BY <1>18 DEF Answer, Move, WriteHeader
<1>19. ASSUME NEW r \in Requests, HandlerReturns(r) PROVE TypeOK'
  BY <1>19 DEF HandlerReturns, Move, WriteHeader, Conclude
<1>20. ASSUME NEW r \in Requests, HandlerPanics(r) PROVE TypeOK'
  BY <1>20 DEF HandlerPanics, Move, WriteHeader, Conclude
<1>21. ASSUME NEW r \in Requests, Query(r) PROVE TypeOK'
  BY <1>21 DEF Query, Move
<1>22. ASSUME NEW r \in Requests, Acquire(r) PROVE TypeOK'
  BY <1>22 DEF Acquire, Move
<1>23. ASSUME NEW r \in Requests, AcquireFails(r) PROVE TypeOK'
  BY <1>23 DEF AcquireFails, Move
<1>24. ASSUME NEW r \in Requests, Release(r) PROVE TypeOK'
  BY <1>24 DEF Release, Move
<1>25. ASSUME NEW r \in Requests, BeginInsert(r) PROVE TypeOK'
  BY <1>25 DEF BeginInsert, Move
<1>26. ASSUME NEW r \in Requests, PersistFails(r) PROVE TypeOK'
  BY <1>26 DEF PersistFails, Move
<1>27. ASSUME NEW r \in Requests, NEW e \in {"stored", "failed"}, Insert(r, e) PROVE TypeOK'
  BY <1>27 DEF Insert, Move
<1>28. CASE UNCHANGED vars
  BY <1>28 DEF vars
<1> QED
  BY <1>1, <1>2, <1>3, <1>4, <1>5, <1>6, <1>7, <1>8, <1>9, <1>10, <1>11,
    <1>12, <1>13, <1>14, <1>15, <1>16, <1>17, <1>18, <1>19, <1>20, <1>21,
    <1>22, <1>23, <1>24, <1>25, <1>26, <1>27, <1>28 DEF Next, Advance

\* KilledByExit: every step that kills ends the process.
LEMMA KilledStep ==
  ASSUME TypeOK, KilledByExit, [Next]_vars
  PROVE  KilledByExit'
<1> USE DEF Phases, Statuses, Busy, Holding, TypeOK, KilledByExit, process, replies
<1>1. CASE Configure
  BY <1>1 DEF Configure
<1>2. CASE Prepare
  BY <1>2 DEF Prepare
<1>3. CASE OpenPool
  BY <1>3 DEF OpenPool
<1>4. CASE Listen
  BY <1>4 DEF Listen
<1>5. CASE StartupFails
  BY <1>5 DEF StartupFails, Die, Busy, Holding
<1>6. CASE ServerFailed
  BY <1>6 DEF ServerFailed, Return
<1>7. CASE BeginShutdown
  BY <1>7 DEF BeginShutdown
<1>8. CASE Drained
  BY <1>8 DEF Drained, Return, Busy, Holding
<1>9. CASE DrainTimeout
  BY <1>9 DEF DrainTimeout, Return
<1>10. CASE CloseAndExit
  BY <1>10 DEF CloseAndExit, Die, Busy, Holding
<1>11. CASE ListenerFails
  BY <1>11 DEF ListenerFails
<1>12. CASE Signal
  BY <1>12 DEF Signal, Die, Busy, Holding
<1>13. CASE Crash
  BY <1>13 DEF Crash, Die, Busy, Holding
<1>14. CASE Restart
  BY <1>14 DEF Restart, Blank
<1>15. ASSUME NEW r \in Requests, DropConnection(r) PROVE KilledByExit'
  BY <1>15 DEF DropConnection
<1>16. ASSUME NEW r \in Requests, Accept(r) PROVE KilledByExit'
  BY <1>16 DEF Accept, Move
<1>17. ASSUME NEW r \in Requests, Receive(r) PROVE KilledByExit'
  BY <1>17 DEF Receive, Move
<1>18. ASSUME NEW r \in Requests, NEW s \in Statuses, Answer(r, s) PROVE KilledByExit'
  BY <1>18 DEF Answer, Move, WriteHeader
<1>19. ASSUME NEW r \in Requests, HandlerReturns(r) PROVE KilledByExit'
  BY <1>19 DEF HandlerReturns, Move, WriteHeader, Conclude
<1>20. ASSUME NEW r \in Requests, HandlerPanics(r) PROVE KilledByExit'
  BY <1>20 DEF HandlerPanics, Move, WriteHeader, Conclude
<1>21. ASSUME NEW r \in Requests, Query(r) PROVE KilledByExit'
  BY <1>21 DEF Query, Move
<1>22. ASSUME NEW r \in Requests, Acquire(r) PROVE KilledByExit'
  BY <1>22 DEF Acquire, Move
<1>23. ASSUME NEW r \in Requests, AcquireFails(r) PROVE KilledByExit'
  BY <1>23 DEF AcquireFails, Move
<1>24. ASSUME NEW r \in Requests, Release(r) PROVE KilledByExit'
  BY <1>24 DEF Release, Move
<1>25. ASSUME NEW r \in Requests, BeginInsert(r) PROVE KilledByExit'
  BY <1>25 DEF BeginInsert, Move
<1>26. ASSUME NEW r \in Requests, PersistFails(r) PROVE KilledByExit'
  BY <1>26 DEF PersistFails, Move
<1>27. ASSUME NEW r \in Requests, NEW e \in {"stored", "failed"}, Insert(r, e) PROVE KilledByExit'
  BY <1>27 DEF Insert, Move
<1>28. CASE UNCHANGED vars
  BY <1>28 DEF vars
<1> QED
  BY <1>1, <1>2, <1>3, <1>4, <1>5, <1>6, <1>7, <1>8, <1>9, <1>10, <1>11,
    <1>12, <1>13, <1>14, <1>15, <1>16, <1>17, <1>18, <1>19, <1>20, <1>21,
    <1>22, <1>23, <1>24, <1>25, <1>26, <1>27, <1>28 DEF Next, Advance

\* RefusedByClose: a closed pool is never opened again by the same process.
LEMMA RefusedStep ==
  ASSUME TypeOK, RefusedByClose, [Next]_vars
  PROVE  RefusedByClose'
<1> USE DEF Phases, Statuses, Busy, Holding, TypeOK, RefusedByClose, process, replies
<1>1. CASE Configure
  BY <1>1 DEF Configure
<1>2. CASE Prepare
  BY <1>2 DEF Prepare
<1>3. CASE OpenPool
  BY <1>3 DEF OpenPool
<1>4. CASE Listen
  BY <1>4 DEF Listen
<1>5. CASE StartupFails
  BY <1>5 DEF StartupFails, Die, Busy, Holding
<1>6. CASE ServerFailed
  BY <1>6 DEF ServerFailed, Return
<1>7. CASE BeginShutdown
  BY <1>7 DEF BeginShutdown
<1>8. CASE Drained
  BY <1>8 DEF Drained, Return, Busy, Holding
<1>9. CASE DrainTimeout
  BY <1>9 DEF DrainTimeout, Return
<1>10. CASE CloseAndExit
  BY <1>10 DEF CloseAndExit, Die, Busy, Holding
<1>11. CASE ListenerFails
  BY <1>11 DEF ListenerFails
<1>12. CASE Signal
  BY <1>12 DEF Signal, Die, Busy, Holding
<1>13. CASE Crash
  BY <1>13 DEF Crash, Die, Busy, Holding
<1>14. CASE Restart
  BY <1>14 DEF Restart, Blank
<1>15. ASSUME NEW r \in Requests, DropConnection(r) PROVE RefusedByClose'
  BY <1>15 DEF DropConnection
<1>16. ASSUME NEW r \in Requests, Accept(r) PROVE RefusedByClose'
  BY <1>16 DEF Accept, Move
<1>17. ASSUME NEW r \in Requests, Receive(r) PROVE RefusedByClose'
  BY <1>17 DEF Receive, Move
<1>18. ASSUME NEW r \in Requests, NEW s \in Statuses, Answer(r, s) PROVE RefusedByClose'
  BY <1>18 DEF Answer, Move, WriteHeader
<1>19. ASSUME NEW r \in Requests, HandlerReturns(r) PROVE RefusedByClose'
  BY <1>19 DEF HandlerReturns, Move, WriteHeader, Conclude
<1>20. ASSUME NEW r \in Requests, HandlerPanics(r) PROVE RefusedByClose'
  BY <1>20 DEF HandlerPanics, Move, WriteHeader, Conclude
<1>21. ASSUME NEW r \in Requests, Query(r) PROVE RefusedByClose'
  BY <1>21 DEF Query, Move
<1>22. ASSUME NEW r \in Requests, Acquire(r) PROVE RefusedByClose'
  BY <1>22 DEF Acquire, Move
<1>23. ASSUME NEW r \in Requests, AcquireFails(r) PROVE RefusedByClose'
  BY <1>23 DEF AcquireFails, Move
<1>24. ASSUME NEW r \in Requests, Release(r) PROVE RefusedByClose'
  BY <1>24 DEF Release, Move
<1>25. ASSUME NEW r \in Requests, BeginInsert(r) PROVE RefusedByClose'
  BY <1>25 DEF BeginInsert, Move
<1>26. ASSUME NEW r \in Requests, PersistFails(r) PROVE RefusedByClose'
  BY <1>26 DEF PersistFails, Move
<1>27. ASSUME NEW r \in Requests, NEW e \in {"stored", "failed"}, Insert(r, e) PROVE RefusedByClose'
  BY <1>27 DEF Insert, Move
<1>28. CASE UNCHANGED vars
  BY <1>28 DEF vars
<1> QED
  BY <1>1, <1>2, <1>3, <1>4, <1>5, <1>6, <1>7, <1>8, <1>9, <1>10, <1>11,
    <1>12, <1>13, <1>14, <1>15, <1>16, <1>17, <1>18, <1>19, <1>20, <1>21,
    <1>22, <1>23, <1>24, <1>25, <1>26, <1>27, <1>28 DEF Next, Advance

\* NothingLeft: Drained establishes it, as a draining server's pool is not
\* closed, and a closed listener makes it stable.
LEMMA NothingLeftStep ==
  ASSUME TypeOK, KilledByExit, RefusedByClose, NothingLeft, [Next]_vars
  PROVE  NothingLeft'
<1> USE DEF Phases, Statuses, Busy, Holding, TypeOK, KilledByExit, RefusedByClose, NothingLeft, process, replies
<1>1. CASE Configure
  BY <1>1 DEF Configure
<1>2. CASE Prepare
  BY <1>2 DEF Prepare
<1>3. CASE OpenPool
  BY <1>3 DEF OpenPool
<1>4. CASE Listen
  BY <1>4 DEF Listen
<1>5. CASE StartupFails
  BY <1>5 DEF StartupFails, Die, Busy, Holding
<1>6. CASE ServerFailed
  BY <1>6 DEF ServerFailed, Return
<1>7. CASE BeginShutdown
  BY <1>7 DEF BeginShutdown
<1>8. CASE Drained
  BY <1>8 DEF Drained, Return, Busy, Holding
<1>9. CASE DrainTimeout
  BY <1>9 DEF DrainTimeout, Return
<1>10. CASE CloseAndExit
  BY <1>10 DEF CloseAndExit, Die, Busy, Holding
<1>11. CASE ListenerFails
  BY <1>11 DEF ListenerFails
<1>12. CASE Signal
  BY <1>12 DEF Signal, Die, Busy, Holding
<1>13. CASE Crash
  BY <1>13 DEF Crash, Die, Busy, Holding
<1>14. CASE Restart
  BY <1>14 DEF Restart, Blank
<1>15. ASSUME NEW r \in Requests, DropConnection(r) PROVE NothingLeft'
  BY <1>15 DEF DropConnection
<1>16. ASSUME NEW r \in Requests, Accept(r) PROVE NothingLeft'
  BY <1>16 DEF Accept, Move
<1>17. ASSUME NEW r \in Requests, Receive(r) PROVE NothingLeft'
  BY <1>17 DEF Receive, Move
<1>18. ASSUME NEW r \in Requests, NEW s \in Statuses, Answer(r, s) PROVE NothingLeft'
  BY <1>18 DEF Answer, Move, WriteHeader
<1>19. ASSUME NEW r \in Requests, HandlerReturns(r) PROVE NothingLeft'
  BY <1>19 DEF HandlerReturns, Move, WriteHeader, Conclude
<1>20. ASSUME NEW r \in Requests, HandlerPanics(r) PROVE NothingLeft'
  BY <1>20 DEF HandlerPanics, Move, WriteHeader, Conclude
<1>21. ASSUME NEW r \in Requests, Query(r) PROVE NothingLeft'
  BY <1>21 DEF Query, Move
<1>22. ASSUME NEW r \in Requests, Acquire(r) PROVE NothingLeft'
  BY <1>22 DEF Acquire, Move
<1>23. ASSUME NEW r \in Requests, AcquireFails(r) PROVE NothingLeft'
  BY <1>23 DEF AcquireFails, Move
<1>24. ASSUME NEW r \in Requests, Release(r) PROVE NothingLeft'
  BY <1>24 DEF Release, Move
<1>25. ASSUME NEW r \in Requests, BeginInsert(r) PROVE NothingLeft'
  BY <1>25 DEF BeginInsert, Move
<1>26. ASSUME NEW r \in Requests, PersistFails(r) PROVE NothingLeft'
  BY <1>26 DEF PersistFails, Move
<1>27. ASSUME NEW r \in Requests, NEW e \in {"stored", "failed"}, Insert(r, e) PROVE NothingLeft'
  BY <1>27 DEF Insert, Move
<1>28. CASE UNCHANGED vars
  BY <1>28 DEF vars
<1> QED
  BY <1>1, <1>2, <1>3, <1>4, <1>5, <1>6, <1>7, <1>8, <1>9, <1>10, <1>11,
    <1>12, <1>13, <1>14, <1>15, <1>16, <1>17, <1>18, <1>19, <1>20, <1>21,
    <1>22, <1>23, <1>24, <1>25, <1>26, <1>27, <1>28 DEF Next, Advance

\* Recorded: wire and recorder change together, whoever writes first.
LEMMA RecordedStep ==
  ASSUME TypeOK, Recorded, [Next]_vars
  PROVE  Recorded'
<1> USE DEF Phases, Statuses, Busy, Holding, TypeOK, Recorded, process, replies
<1>1. CASE Configure
  BY <1>1 DEF Configure
<1>2. CASE Prepare
  BY <1>2 DEF Prepare
<1>3. CASE OpenPool
  BY <1>3 DEF OpenPool
<1>4. CASE Listen
  BY <1>4 DEF Listen
<1>5. CASE StartupFails
  BY <1>5 DEF StartupFails, Die, Busy, Holding
<1>6. CASE ServerFailed
  BY <1>6 DEF ServerFailed, Return
<1>7. CASE BeginShutdown
  BY <1>7 DEF BeginShutdown
<1>8. CASE Drained
  BY <1>8 DEF Drained, Return, Busy, Holding
<1>9. CASE DrainTimeout
  BY <1>9 DEF DrainTimeout, Return
<1>10. CASE CloseAndExit
  BY <1>10 DEF CloseAndExit, Die, Busy, Holding
<1>11. CASE ListenerFails
  BY <1>11 DEF ListenerFails
<1>12. CASE Signal
  BY <1>12 DEF Signal, Die, Busy, Holding
<1>13. CASE Crash
  BY <1>13 DEF Crash, Die, Busy, Holding
<1>14. CASE Restart
  BY <1>14 DEF Restart, Blank
<1>15. ASSUME NEW r \in Requests, DropConnection(r) PROVE Recorded'
  BY <1>15 DEF DropConnection
<1>16. ASSUME NEW r \in Requests, Accept(r) PROVE Recorded'
  BY <1>16 DEF Accept, Move
<1>17. ASSUME NEW r \in Requests, Receive(r) PROVE Recorded'
  BY <1>17 DEF Receive, Move
<1>18. ASSUME NEW r \in Requests, NEW s \in Statuses, Answer(r, s) PROVE Recorded'
  BY <1>18 DEF Answer, Move, WriteHeader
<1>19. ASSUME NEW r \in Requests, HandlerReturns(r) PROVE Recorded'
  BY <1>19 DEF HandlerReturns, Move, WriteHeader, Conclude
<1>20. ASSUME NEW r \in Requests, HandlerPanics(r) PROVE Recorded'
  BY <1>20 DEF HandlerPanics, Move, WriteHeader, Conclude
<1>21. ASSUME NEW r \in Requests, Query(r) PROVE Recorded'
  BY <1>21 DEF Query, Move
<1>22. ASSUME NEW r \in Requests, Acquire(r) PROVE Recorded'
  BY <1>22 DEF Acquire, Move
<1>23. ASSUME NEW r \in Requests, AcquireFails(r) PROVE Recorded'
  BY <1>23 DEF AcquireFails, Move
<1>24. ASSUME NEW r \in Requests, Release(r) PROVE Recorded'
  BY <1>24 DEF Release, Move
<1>25. ASSUME NEW r \in Requests, BeginInsert(r) PROVE Recorded'
  BY <1>25 DEF BeginInsert, Move
<1>26. ASSUME NEW r \in Requests, PersistFails(r) PROVE Recorded'
  BY <1>26 DEF PersistFails, Move
<1>27. ASSUME NEW r \in Requests, NEW e \in {"stored", "failed"}, Insert(r, e) PROVE Recorded'
  BY <1>27 DEF Insert, Move
<1>28. CASE UNCHANGED vars
  BY <1>28 DEF vars
<1> QED
  BY <1>1, <1>2, <1>3, <1>4, <1>5, <1>6, <1>7, <1>8, <1>9, <1>10, <1>11,
    <1>12, <1>13, <1>14, <1>15, <1>16, <1>17, <1>18, <1>19, <1>20, <1>21,
    <1>22, <1>23, <1>24, <1>25, <1>26, <1>27, <1>28 DEF Next, Advance

-----------------------------------------------------------------------------
(* Theorems.                                                               *)

\* The strengthened invariant.
THEOREM InductiveInvariant == Spec => []IInv
<1>1. IInv /\ [Next]_vars => IInv'
  BY TypeStep, KilledStep, RefusedStep, NothingLeftStep, RecordedStep DEF IInv
<1> QED
  BY InitIInv, <1>1, PTL DEF Spec

\* run() closes the pool only on its way out, and it is open as long as the
\* server may dispatch requests.
THEOREM TypeCorrect == Spec => []TypeOK
<1>1. IInv => TypeOK
  BY DEF IInv
<1> QED
  BY InductiveInvariant, <1>1, PTL

\* A process that exits with status 0 has served whatever it had begun, and
\* has closed the pool on none of its error events.
THEOREM GracefulExit == Spec => []GracefulExitLosesNothing
<1>1. IInv => GracefulExitLosesNothing
  BY DEF IInv, NothingLeft, GracefulExitLosesNothing
<1> QED
  BY InductiveInvariant, <1>1, PTL

\* Exactly the server errors that were sent are reported to the store.
THEOREM EventsMatchReplies == Spec => []EventsTellReplies
<1>1. IInv => EventsTellReplies
  BY DEF IInv, Recorded, EventsTellReplies
<1> QED
  BY InductiveInvariant, <1>1, PTL
=============================================================================
