------------------------ MODULE LoginThrottle_proofs ------------------------
(***************************************************************************)
(* Proofs about LoginThrottle, for any number of requests, limit, window   *)
(* and time.                                                               *)
(*                                                                         *)
(* The limit is kept by the request that holds the advisory lock: only it  *)
(* inserts, others can only delete, so the rows it counted against the     *)
(* limit are still all there are when it commits.  That the time it writes *)
(* may be older than the rows does not matter: it counts every row after   *)
(* its own window began, the later ones included.                          *)
(*                                                                         *)
(* Rows that a later arrival has purged are not counted.  But who purges a *)
(* row of a window read a time after that window, so that the slowest      *)
(* clock is past it but for the skew, and all who arrive from then on read *)
(* a time after the window shortened by the skew: its rows, purged or not, *)
(* and the requests that may still add to them are together fewer than the *)
(* limit plus the number of requests, from the first purge on.             *)
(***************************************************************************)
EXTENDS LoginThrottle, FiniteSetTheorems, TLAPS

\* Ids are left for the requests that may still insert.
RowsReserved == serial + Cardinality(Pending) <= MaxRows

\* The lock is held from the purge to the commit.
LockHeld == \A r \in Requests : pc[r] \in {"purging", "full", "inserted"} => lock = r

\* A row about to be committed was counted against the limit, and still is.
RoomForRow ==
  \A r \in Requests : pc[r] = "inserted" => Cardinality(Counted(now[r])) < LoginLimit

\* What a login has cleared is not in the table, and does not come back.
ClearedGone ==
  /\ attempts \cap cleared = {}
  /\ \A r \in Requests : excused[r] \subseteq cleared

\* A refusal is for what is held against the request, and stays so until its
\* transaction commits.
RefusedForCause ==
  \A r \in Requests : pc[r] = "full" => Cardinality(Held(r)) >= LoginLimit

\* The rows of S in the window that opens at time w, whether or not a row opens it.
InWindow(S, w) == {j \in S : w <= at[j] /\ at[j] < w + LoginWindow}

\* The limit holds of every window.
EveryWindow == \A w \in Nat : Cardinality(InWindow(attempts, w)) <= LoginLimit

\* The rows of S in that window, shortened by the skew.
InSpan(S, w) == {j \in S : w <= at[j] /\ at[j] < w + LoginWindow - MaxSkew}

\* Nobody has arrived further in the future than clocks differ.
ArrivedBefore == \A r \in Requests : now[r] <= clock + MaxSkew

\* A purge removes what had left the window before its request arrived.
PurgesExpired ==
  \A r \in Requests : pc[r] \in {"full", "inserted"} =>
    \A i \in seen[r] : at[i] + LoginWindow <= now[r]

\* The requests that may still add a row to the shortened window.
Late(w) ==
  {r \in Requests :
     /\ pc[r] \in {"arrived", "verifying", "failed", "purging", "inserted"}
     /\ w <= now[r] /\ now[r] < w + LoginWindow - MaxSkew}

\* Once a row of a shortened window has been purged, nobody arrives in it any
\* more, by whatever clock.
ExcessReserved ==
  \A w \in Nat :
    \/ InSpan(purged, w) = {}
    \/ /\ w + LoginWindow - MaxSkew <= clock
       /\ Cardinality(InSpan(attempts \cup purged, w)) + Cardinality(Late(w))
            < LoginLimit + Cardinality(Requests)

\* Rows come from requests.
RowsFromRequests == attempts \cup purged # {} => Requests # {}

IInv ==
  /\ TypeOK
  /\ RowsReserved
  /\ LockHeld
  /\ RoomForRow
  /\ ClearedGone
  /\ RefusedForCause
  /\ EveryWindow
  /\ ArrivedBefore
  /\ PurgesExpired
  /\ ExcessReserved
  /\ RowsFromRequests

-----------------------------------------------------------------------------
(***************************************************************************)
(* Counting.                                                               *)
(***************************************************************************)

\* Rows are finitely many, so are the parts of them that are counted.
LEMMA CardinalityMonotone ==
  ASSUME NEW n \in Nat, NEW S, NEW T, S \subseteq T, T \subseteq 1 .. n
  PROVE  /\ IsFiniteSet(S) /\ Cardinality(S) \in Nat
         /\ IsFiniteSet(T) /\ Cardinality(T) \in Nat
         /\ Cardinality(S) <= Cardinality(T)
  <1>1. IsFiniteSet(1 .. n)
    BY FS_Interval
  <1>2. IsFiniteSet(T)
    BY <1>1, FS_Subset
  <1>3. IsFiniteSet(S) /\ Cardinality(S) <= Cardinality(T)
    BY <1>2, FS_Subset
  <1> QED
    BY <1>2, <1>3, FS_CardinalityType

\* The requests that may still insert are finitely many.
LEMMA PendingFinite == IsFiniteSet(Pending) /\ Cardinality(Pending) \in Nat
  <1>1. Pending \subseteq Requests /\ IsFiniteSet(Requests)
    BY ThrottleAssumption DEF Pending
  <1> QED
    BY <1>1, FS_Subset, FS_CardinalityType

-----------------------------------------------------------------------------
(***************************************************************************)
(* Types.                                                                  *)
(***************************************************************************)

\* What an answer does to a request keeps the types.
LEMMA TypeAnswer ==
  ASSUME TypeOK, NEW r \in Requests, NEW from, NEW answer \in Answers,
         Answer(r, from, answer)
  PROVE  /\ lock' \in Requests \cup {Nobody}
         /\ pc' \in [Requests -> Answers \cup Steps]
         /\ now' \in [Requests -> Nat]
         /\ seen' \in [Requests -> SUBSET (1 .. serial)]
         /\ excused' \in [Requests -> SUBSET (1 .. serial)]
         /\ clock' \in Nat
  BY DEF TypeOK, Answer, Step, arrival

\* Every step keeps the types; a commit finds an id left for its row.
LEMMA TypeStep == TypeOK /\ RowsReserved /\ [Next]_vars => TypeOK'
  <1> SUFFICES ASSUME TypeOK, RowsReserved, [Next]_vars
               PROVE  TypeOK'
    OBVIOUS
  <1> USE ThrottleAssumption DEF arrival
  <1>0. CASE UNCHANGED vars
    BY <1>0 DEF TypeOK, vars, table
  <1>1. ASSUME NEW r \in Requests, Arrive(r)
        PROVE  TypeOK'
    BY <1>1 DEF TypeOK, Arrive, Readings, table, Steps
  <1>2. ASSUME NEW r \in Requests, IsLoginRateLimited(r)
        PROVE  TypeOK'
    <2>1. "limited" \in Answers /\ "verifying" \in Steps
      BY DEF Answers, Steps
    <2>2. CASE Answer(r, "arrived", "limited") /\ UNCHANGED table
      BY <2>1, <2>2, TypeAnswer DEF TypeOK, table
    <2>3. CASE Step(r, "arrived", "verifying") /\ UNCHANGED <<table, lock, arrival, seen, clock>>
      BY <2>1, <2>3 DEF TypeOK, table, Step
    <2> QED
      BY <1>2, <2>2, <2>3 DEF IsLoginRateLimited
  <1>3. ASSUME NEW r \in Requests, Verify(r)
        PROVE  TypeOK'
    BY <1>3 DEF TypeOK, Verify, Step, table, Steps
  <1>4. ASSUME NEW r \in Requests, LockKey(r)
        PROVE  TypeOK'
    BY <1>4 DEF TypeOK, LockKey, Step, table, Steps
  <1>5. ASSUME NEW r \in Requests, PurgeAndCount(r)
        PROVE  TypeOK'
    BY <1>5 DEF TypeOK, PurgeAndCount, Step, table, Steps, Expired
  <1>6. ASSUME NEW r \in Requests, NEW answer \in Answers, ClearLoginAttempts(r, answer)
        PROVE  TypeOK'
    BY <1>6, TypeAnswer DEF TypeOK, ClearLoginAttempts
  <1>7. ASSUME NEW r \in Requests, NEW answer \in Answers, CommitFull(r, answer)
        PROVE  TypeOK'
    BY <1>7, TypeAnswer DEF TypeOK, CommitFull, CommitPurge
  <1>8. ASSUME NEW r \in Requests, NEW answer \in Answers, CommitFailure(r, answer)
        PROVE  TypeOK'
    <2>1. Answer(r, "inserted", answer) /\ pc[r] = "inserted"
      BY <1>8 DEF CommitFailure, Answer, Step
    <2>2. r \in Pending
      BY <2>1 DEF Pending
    <2>3. Cardinality(Pending) # 0
      BY <2>2, PendingFinite, FS_EmptySet
    <2>4. serial + 1 \in Rows
      BY <2>3, PendingFinite DEF RowsReserved, TypeOK, Rows
    <2>5. 1 .. serial \subseteq 1 .. (serial + 1) /\ serial + 1 \in 1 .. (serial + 1)
          /\ serial + 1 \notin 1 .. serial /\ serial + 1 \in 0 .. MaxRows
      BY <2>4 DEF TypeOK, Rows
    <2>6. /\ serial' = serial + 1
          /\ attempts' = (attempts \ seen[r]) \cup {serial + 1}
          /\ purged' = purged \cup (attempts \cap seen[r])
          /\ at' \in [Rows -> Nat]
      BY <1>8, <2>4 DEF CommitFailure, TypeOK
    <2>7. /\ seen' \in [Requests -> SUBSET (1 .. serial')]
          /\ excused' \in [Requests -> SUBSET (1 .. serial')]
          /\ cleared' \subseteq 1 .. serial'
      BY <1>8, <2>1, <2>5, <2>6, TypeAnswer DEF TypeOK, CommitFailure
    <2>8. /\ attempts' \subseteq 1 .. serial' /\ purged' \subseteq 1 .. serial'
          /\ attempts' \cap purged' = {}
      <3>1. attempts \subseteq 1 .. serial /\ purged \subseteq 1 .. serial
            /\ attempts \cap purged = {}
        BY DEF TypeOK
      <3>2. serial + 1 \notin purged'
        BY <2>5, <2>6, <3>1
      <3> QED
        BY <2>5, <2>6, <3>1, <3>2
    <2> QED
      BY <2>1, <2>5, <2>6, <2>7, <2>8, TypeAnswer DEF TypeOK
  <1>9. ASSUME NEW r \in Requests, Fail(r)
        PROVE  TypeOK'
    <2>1. "unavailable" \in Answers
      BY DEF Answers
    <2>2. PICK step \in Steps : Answer(r, step, "unavailable")
      BY <1>9 DEF Fail
    <2> QED
      BY <1>9, <2>1, <2>2, TypeAnswer DEF TypeOK, Fail, table
  <1>10. CASE Tick
    BY <1>10 DEF TypeOK, Tick, table
  <1> QED
    BY <1>0, <1>1, <1>2, <1>3, <1>4, <1>5, <1>6, <1>7, <1>8, <1>9, <1>10
    DEF Next, Progress

\* Every step keeps ids in reserve: whoever may insert has one.
LEMMA ReserveStep == TypeOK /\ RowsReserved /\ [Next]_vars => RowsReserved'
  <1> SUFFICES ASSUME TypeOK, RowsReserved, [Next]_vars
               PROVE  RowsReserved'
    OBVIOUS
  <1> USE ThrottleAssumption
  <1>1. TypeOK'
    BY TypeStep
  <1>2. serial \in Nat /\ serial' \in Nat
    BY <1>1 DEF TypeOK
  <1>3. CASE Pending' \subseteq Pending /\ serial' = serial
    <2>1. Cardinality(Pending') \in Nat /\ Cardinality(Pending') <= Cardinality(Pending)
      BY <1>3, PendingFinite, FS_Subset, FS_CardinalityType
    <2> QED
      BY <2>1, <1>2, <1>3, PendingFinite DEF RowsReserved
  <1>4. ASSUME NEW r \in Requests, Verify(r), pc'[r] = "failed"
        PROVE  RowsReserved'
    <2>1. RowsLeft /\ serial' = serial
      BY <1>4 DEF Verify, Step, table, TypeOK
    <2>2. Pending' = Pending \cup {r}
      BY <1>4 DEF Verify, Step, Pending, TypeOK
    <2>3. \/ Cardinality(Pending') = Cardinality(Pending)
          \/ Cardinality(Pending') = Cardinality(Pending) + 1
      BY <2>2, PendingFinite, FS_AddElement, Zenon
    <2> QED
      BY <2>1, <2>3, <1>2, PendingFinite DEF RowsLeft, RowsReserved
  <1>5. ASSUME NEW r \in Requests, NEW answer \in Answers, CommitFailure(r, answer)
        PROVE  RowsReserved'
    <2>1. serial' = serial + 1 /\ r \in Pending
      BY <1>5 DEF CommitFailure, Answer, Step, Pending
    <2>2. Pending' = Pending \ {r}
      BY <1>5 DEF CommitFailure, Answer, Step, Pending, TypeOK, Answers
    <2>3. Cardinality(Pending') = Cardinality(Pending) - 1
      BY <2>1, <2>2, PendingFinite, FS_RemoveElement
    <2> QED
      BY <2>1, <2>3, <1>2, PendingFinite DEF RowsReserved
  <1>6. ASSUME NEW r \in Requests, NEW from, NEW answer \in Answers,
               Answer(r, from, answer), serial' = serial
        PROVE  RowsReserved'
    BY <1>3, <1>6 DEF Answer, Step, Pending, TypeOK, Answers
  <1>7. "limited" \in Answers /\ "unavailable" \in Answers
    BY DEF Answers
  <1>8. ASSUME NEW r \in Requests, IsLoginRateLimited(r)
        PROVE  RowsReserved'
    BY <1>3, <1>6, <1>7, <1>8 DEF IsLoginRateLimited, Step, Pending, TypeOK, table
  <1>9. ASSUME NEW r \in Requests, Verify(r)
        PROVE  RowsReserved'
    BY <1>3, <1>4, <1>9 DEF Verify, Step, Pending, TypeOK, table
  <1>10. ASSUME NEW r \in Requests, Arrive(r)
        PROVE  RowsReserved'
    BY <1>3, <1>10 DEF Arrive, Pending, TypeOK, table
  <1>11. ASSUME NEW r \in Requests, LockKey(r) \/ PurgeAndCount(r)
        PROVE  RowsReserved'
    BY <1>3, <1>11 DEF LockKey, PurgeAndCount, Step, Pending, TypeOK, table
  <1>12. ASSUME NEW r \in Requests, NEW answer \in Answers,
                ClearLoginAttempts(r, answer) \/ CommitFull(r, answer)
        PROVE  RowsReserved'
    BY <1>6, <1>12 DEF ClearLoginAttempts, CommitFull
  <1>13. ASSUME NEW r \in Requests, Fail(r)
        PROVE  RowsReserved'
    BY <1>6, <1>7, <1>13 DEF Fail, table
  <1>14. CASE UNCHANGED vars \/ Tick
    BY <1>3, <1>14 DEF vars, Tick, table, Pending
  <1> QED
    BY <1>5, <1>8, <1>9, <1>10, <1>11, <1>12, <1>13, <1>14 DEF Next, Progress

-----------------------------------------------------------------------------
(***************************************************************************)
(* What a step does to the table.                                          *)
(***************************************************************************)

\* A step inserts one row, under the lock, or only deletes rows.
LEMMA TableStep ==
  ASSUME TypeOK, [Next]_vars
  PROVE  \/ at' = at /\ serial' = serial /\ attempts' \subseteq attempts
         \/ \E r \in Requests, answer \in Answers : CommitFailure(r, answer)
  <1>1. ASSUME NEW r \in Requests, Arrive(r) \/ Fail(r)
        PROVE  at' = at /\ serial' = serial /\ attempts' = attempts
    BY <1>1 DEF Arrive, Fail, table
  <1>2. ASSUME NEW r \in Requests,
               IsLoginRateLimited(r) \/ Verify(r) \/ LockKey(r) \/ PurgeAndCount(r)
        PROVE  at' = at /\ serial' = serial /\ attempts' = attempts
    BY <1>2 DEF IsLoginRateLimited, Verify, LockKey, PurgeAndCount, table
  <1>3. ASSUME NEW r \in Requests, NEW answer \in Answers,
               ClearLoginAttempts(r, answer) \/ CommitFull(r, answer)
        PROVE  at' = at /\ serial' = serial /\ attempts' \subseteq attempts
    BY <1>3 DEF ClearLoginAttempts, CommitFull, CommitPurge
  <1>4. CASE UNCHANGED vars \/ Tick
    BY <1>4 DEF vars, Tick, table
  <1> QED
    BY <1>1, <1>2, <1>3, <1>4 DEF Next, Progress

\* Rows keep their ids and times.
LEMMA RowsKept ==
  ASSUME TypeOK, RowsReserved, [Next]_vars
  PROVE  /\ serial \in Nat /\ serial' \in Nat
         /\ \A i \in 1 .. serial : i \in 1 .. serial' /\ at'[i] = at[i]
  <1>1. serial \in Nat /\ serial' \in Nat
    BY TypeStep DEF TypeOK
  <1>2. CASE at' = at /\ serial' = serial
    BY <1>1, <1>2
  <1>3. ASSUME NEW r \in Requests, NEW answer \in Answers, CommitFailure(r, answer)
        PROVE  \A i \in 1 .. serial : i \in 1 .. serial' /\ at'[i] = at[i]
    <2>1. serial' = serial + 1 /\ at' = [at EXCEPT ![serial + 1] = now[r]]
      BY <1>3 DEF CommitFailure
    <2> QED
      BY <1>1, <2>1, ThrottleAssumption DEF TypeOK, Rows
  <1> QED
    BY <1>1, <1>2, <1>3, TableStep

\* A commit adds one row, with the time its request arrived, and purges what the
\* request has found.
LEMMA CommitStep ==
  ASSUME TypeOK, RowsReserved, NEW r \in Requests, NEW answer \in Answers,
         CommitFailure(r, answer)
  PROVE  /\ pc[r] = "inserted" /\ serial' = serial + 1
         /\ serial + 1 \notin attempts \cup purged
         /\ attempts' = (attempts \ seen[r]) \cup {serial + 1}
         /\ purged' = purged \cup (attempts \cap seen[r])
         /\ at'[serial + 1] = now[r] /\ now[r] \in Nat
         /\ \A j \in attempts \cup purged : at'[j] = at[j] /\ at[j] \in Nat
  <1> USE ThrottleAssumption
  <1>1. serial' = serial + 1 /\ pc[r] = "inserted"
    BY DEF CommitFailure, Answer, Step
  <1>2. serial' \in 0 .. MaxRows /\ serial \in Nat
    <2>1. Next
      BY DEF Next, Progress
    <2> QED
      BY <2>1, TypeStep DEF TypeOK
  <1>3. serial + 1 \in Rows /\ \A j \in 1 .. serial : j \in Rows /\ j # serial + 1
    BY <1>1, <1>2 DEF Rows
  <1>4. attempts \cup purged \subseteq 1 .. serial
    BY DEF TypeOK
  <1>5. at \in [Rows -> Nat] /\ now[r] \in Nat
    BY DEF TypeOK
  <1>6. at' = [at EXCEPT ![serial + 1] = now[r]]
    BY <1>1 DEF CommitFailure
  <1> QED
    BY <1>1, <1>3, <1>4, <1>5, <1>6 DEF CommitFailure

\* A request's time is set when it arrives and kept until it is answered.
LEMMA NowStep ==
  ASSUME TypeOK, [Next]_vars, NEW r \in Requests,
         pc'[r] \notin Answers, pc'[r] # "arrived"
  PROVE  now'[r] = now[r] /\ excused'[r] = excused[r]
  <1>1. ASSUME NEW q \in Requests, NEW from, NEW answer \in Answers, Answer(q, from, answer)
        PROVE  now'[r] = now[r] /\ excused'[r] = excused[r]
    BY <1>1 DEF TypeOK, Answer, Step
  <1>2. CASE UNCHANGED arrival
    BY <1>2 DEF arrival
  <1>3. ASSUME NEW q \in Requests, Arrive(q)
        PROVE  now'[r] = now[r] /\ excused'[r] = excused[r]
    BY <1>3 DEF TypeOK, Arrive
  <1>4. "limited" \in Answers /\ "unavailable" \in Answers
    BY DEF Answers
  <1> QED
    BY <1>1, <1>2, <1>3, <1>4
    DEF Next, Progress, vars, IsLoginRateLimited, Verify, LockKey, PurgeAndCount,
        ClearLoginAttempts, CommitFull, CommitFailure, Fail, Tick

-----------------------------------------------------------------------------
(***************************************************************************)
(* The invariant.                                                          *)
(***************************************************************************)

\* The lock is taken before the purge and released only by the answer.
LEMMA LockStep == TypeOK /\ LockHeld /\ [Next]_vars => LockHeld'
  <1> SUFFICES ASSUME TypeOK, LockHeld, [Next]_vars
               PROVE  LockHeld'
    OBVIOUS
  <1> USE ThrottleAssumption DEF LockHeld, TypeOK
  <1>1. ASSUME NEW r \in Requests, NEW from, NEW answer \in Answers, Answer(r, from, answer)
        PROVE  LockHeld'
    BY <1>1 DEF Answer, Step, Answers
  <1>2. "limited" \in Answers /\ "unavailable" \in Answers
    BY DEF Answers
  <1>3. ASSUME NEW r \in Requests, Arrive(r) \/ IsLoginRateLimited(r) \/ Verify(r)
        PROVE  LockHeld'
    BY <1>1, <1>2, <1>3 DEF Arrive, IsLoginRateLimited, Verify, Step, table
  <1>4. ASSUME NEW r \in Requests, LockKey(r)
        PROVE  LockHeld'
    BY <1>4 DEF LockKey, Step
  <1>5. ASSUME NEW r \in Requests, PurgeAndCount(r)
        PROVE  LockHeld'
    BY <1>5 DEF PurgeAndCount, Step
  <1>6. ASSUME NEW r \in Requests, NEW answer \in Answers,
               ClearLoginAttempts(r, answer) \/ CommitFull(r, answer) \/ CommitFailure(r, answer)
        PROVE  LockHeld'
    BY <1>1, <1>6 DEF ClearLoginAttempts, CommitFull, CommitFailure
  <1>7. ASSUME NEW r \in Requests, Fail(r)
        PROVE  LockHeld'
    BY <1>1, <1>2, <1>7 DEF Fail
  <1>8. CASE UNCHANGED vars \/ Tick
    BY <1>8 DEF vars, Tick
  <1> QED
    BY <1>3, <1>4, <1>5, <1>6, <1>7, <1>8 DEF Next, Progress

\* Between the count and the commit the lock keeps other inserts out, and a
\* delete only makes more room.
LEMMA RoomStep ==
  TypeOK /\ RowsReserved /\ LockHeld /\ RoomForRow /\ [Next]_vars => RoomForRow'
  <1> SUFFICES ASSUME TypeOK, RowsReserved, LockHeld, RoomForRow, [Next]_vars,
                      NEW r \in Requests, pc'[r] = "inserted"
               PROVE  Cardinality(Counted(now[r]))' < LoginLimit
    BY DEF RoomForRow
  <1> USE ThrottleAssumption
  <1>1. now'[r] = now[r] /\ now[r] \in Nat
    BY NowStep DEF TypeOK, Answers
  <1>2. Cardinality(Counted(now[r])) < LoginLimit
    <2>1. CASE pc[r] = "inserted"
      BY <2>1 DEF RoomForRow
    <2>2. CASE PurgeAndCount(r)
      BY <2>2 DEF PurgeAndCount, Step, TypeOK
    <2> QED
      BY <2>1, <2>2 DEF Next, Progress, vars, arrival, Arrive, IsLoginRateLimited, Verify, LockKey,
         PurgeAndCount, ClearLoginAttempts, CommitFull, CommitFailure, Fail, Tick, Answer, Step,
         TypeOK, Answers
  <1>3. \A s \in Requests, answer \in Answers : ~ CommitFailure(s, answer)
    <2>1. SUFFICES ASSUME NEW s \in Requests, NEW answer \in Answers, CommitFailure(s, answer)
                   PROVE  FALSE
      OBVIOUS
    <2>2. pc[s] = "inserted" /\ lock = s /\ lock' # s
      BY <2>1 DEF CommitFailure, Answer, Step, LockHeld
    <2>3. lock' = r
      BY TypeStep, LockStep DEF LockHeld
    <2>4. lock' = Nobody
      BY <2>1, <2>2 DEF CommitFailure, Answer
    <2> QED
      BY <2>3, <2>4
  <1>4. at' = at /\ attempts' \subseteq attempts
    BY <1>3, TableStep
  <1>5. Counted(now[r])' \subseteq Counted(now[r]) /\ Counted(now[r]) \subseteq 1 .. serial
        /\ serial \in Nat
    <2>1. Counted(now[r])' = {i \in attempts' : at[i] > now[r] - LoginWindow}
      BY <1>1, <1>4 DEF Counted
    <2>2. Counted(now[r]) = {i \in attempts : at[i] > now[r] - LoginWindow}
      BY DEF Counted
    <2>3. attempts \subseteq 1 .. serial /\ serial \in Nat
      BY DEF TypeOK
    <2> QED
      BY <1>4, <2>1, <2>2, <2>3
  <1>6. /\ Cardinality(Counted(now[r])') <= Cardinality(Counted(now[r]))
        /\ Cardinality(Counted(now[r])') \in Nat
        /\ Cardinality(Counted(now[r])) \in Nat
    BY <1>5, CardinalityMonotone
  <1> QED
    BY <1>2, <1>6

\* A clearing takes from the table what it clears, and new rows have new ids.
LEMMA ClearedStep ==
  TypeOK /\ RowsReserved /\ ClearedGone /\ [Next]_vars => ClearedGone'
  <1> SUFFICES ASSUME TypeOK, RowsReserved, ClearedGone, [Next]_vars
               PROVE  ClearedGone'
    OBVIOUS
  <1>1. ASSUME NEW r \in Requests, NEW answer \in Answers, CommitFailure(r, answer)
        PROVE  attempts' \cap cleared' = {}
    <2>1. /\ cleared' = cleared /\ attempts' = (attempts \ seen[r]) \cup {serial + 1}
          /\ serial + 1 \notin cleared
      BY <1>1, CommitStep DEF CommitFailure, TypeOK
    <2> QED
      BY <2>1 DEF ClearedGone
  <1>2. ASSUME NEW r \in Requests, NEW answer \in Answers, ClearLoginAttempts(r, answer)
        PROVE  attempts' \cap cleared' = {}
    BY <1>2 DEF ClearLoginAttempts, ClearedGone
  <1>3. ASSUME cleared' = cleared, attempts' \subseteq attempts
        PROVE  attempts' \cap cleared' = {}
    BY <1>3 DEF ClearedGone
  <1>4. attempts' \cap cleared' = {}
    BY <1>1, <1>2, <1>3 DEF Next, Progress, vars, table, arrival, Arrive, IsLoginRateLimited, Verify,
       LockKey, PurgeAndCount, CommitFull, CommitPurge, Fail, Tick, ClearedGone
  <1>5. cleared \subseteq cleared'
    BY DEF Next, Progress, vars, table, arrival, Arrive, IsLoginRateLimited, Verify, LockKey,
       PurgeAndCount, ClearLoginAttempts, CommitFull, CommitFailure, Fail, Tick
  <1>6. ASSUME NEW r \in Requests
        PROVE  excused'[r] \subseteq cleared'
    <2>1. CASE excused'[r] \in {excused[r], {}}
      BY <1>5, <2>1 DEF ClearedGone
    <2>2. CASE Arrive(r)
      BY <1>5, <2>2 DEF Arrive, TypeOK
    <2> QED
      BY <2>1, <2>2 DEF Next, Progress, vars, table, arrival, Arrive, IsLoginRateLimited,
         Verify, LockKey, PurgeAndCount, ClearLoginAttempts, CommitFull, CommitFailure, Fail,
         Tick, Answer, TypeOK
  <1> QED
    BY <1>4, <1>6 DEF ClearedGone

\* What is counted has not been cleared, so it is held against the request.
LEMMA CountedHeld ==
  ASSUME TypeOK, ClearedGone, NEW r \in Requests, Cardinality(Counted(now[r])) >= LoginLimit
  PROVE  Cardinality(Held(r)) >= LoginLimit
  <1> USE ThrottleAssumption
  <1>1. serial \in Nat
    BY DEF TypeOK
  <1>2. Counted(now[r]) \subseteq Held(r) /\ Held(r) \subseteq 1 .. serial
    BY DEF Counted, Held, ClearedGone, TypeOK
  <1>3. /\ Cardinality(Counted(now[r])) <= Cardinality(Held(r))
        /\ Cardinality(Counted(now[r])) \in Nat
        /\ Cardinality(Held(r)) \in Nat
    BY <1>1, <1>2, CardinalityMonotone
  <1> QED
    BY <1>3

\* Rows that are held against a request are kept, with their times.
LEMMA CauseStep ==
  TypeOK /\ RowsReserved /\ ClearedGone /\ RefusedForCause /\ [Next]_vars => RefusedForCause'
  <1> SUFFICES ASSUME TypeOK, RowsReserved, ClearedGone, RefusedForCause, [Next]_vars,
                      NEW r \in Requests, pc'[r] = "full"
               PROVE  Cardinality(Held(r)') >= LoginLimit
    BY DEF RefusedForCause
  <1> USE ThrottleAssumption
  <1>1. now'[r] = now[r] /\ excused'[r] = excused[r] /\ now[r] \in Nat
    BY NowStep DEF TypeOK, Answers
  <1>2. /\ serial \in Nat /\ serial' \in Nat
        /\ \A i \in 1 .. serial : i \in 1 .. serial' /\ at'[i] = at[i]
    BY RowsKept
  <1>3. /\ Cardinality(Held(r)) \in Nat
        /\ Cardinality(Held(r)') \in Nat
        /\ Cardinality(Held(r)) <= Cardinality(Held(r)')
    <2>1. Held(r) \subseteq Held(r)' /\ Held(r)' \subseteq 1 .. serial'
      BY <1>1, <1>2 DEF Held
    <2> QED
      BY <1>2, <2>1, CardinalityMonotone
  <1>4. Cardinality(Held(r)) >= LoginLimit
    <2>1. CASE pc[r] = "full"
      BY <2>1 DEF RefusedForCause
    <2>2. CASE PurgeAndCount(r)
      <3>1. Cardinality(Counted(now[r])) >= LoginLimit
        BY <2>2 DEF PurgeAndCount, Step, TypeOK
      <3> QED
        BY <3>1, CountedHeld
    <2> QED
      BY <2>1, <2>2 DEF Next, Progress, vars, table, arrival, Arrive, IsLoginRateLimited, Verify, LockKey,
         PurgeAndCount, ClearLoginAttempts, CommitFull, CommitFailure, Fail, Tick, Answer, Step,
         TypeOK, Answers, Told
  <1> QED
    BY <1>3, <1>4

\* The first check counts, or the count under the lock has counted, enough rows
\* that are held against whoever is refused.
LEMMA RefusalStep ==
  ASSUME IInv, [Next]_vars, NEW r \in Requests, pc[r] # "limited", pc'[r] = "limited"
  PROVE  Cardinality(Held(r)) >= LoginLimit
  <1> USE ThrottleAssumption DEF IInv
  <1>1. CASE pc[r] = "full"
    BY <1>1 DEF RefusedForCause
  <1>2. CASE IsLoginRateLimited(r)
    <2>1. Cardinality(Counted(now[r])) >= LoginLimit
      BY <1>2 DEF IsLoginRateLimited, Answer, Step, TypeOK
    <2> QED
      BY <2>1, CountedHeld
  <1> QED
    BY <1>1, <1>2 DEF Next, Progress, vars, table, arrival, Arrive, IsLoginRateLimited, Verify, LockKey,
       PurgeAndCount, ClearLoginAttempts, CommitFull, CommitFailure, Fail, Tick, Answer, Step,
       TypeOK, Answers, Told

\* A row enters a window only when the request that writes it counted fewer
\* than the limit from its own window's start on, which covers that window.
LEMMA WindowStep ==
  TypeOK /\ RowsReserved /\ RoomForRow /\ EveryWindow /\ [Next]_vars => EveryWindow'
  <1> SUFFICES ASSUME TypeOK, RowsReserved, RoomForRow, EveryWindow, [Next]_vars,
                      NEW w \in Nat
               PROVE  Cardinality(InWindow(attempts, w)') <= LoginLimit
    BY DEF EveryWindow, InWindow
  <1> USE ThrottleAssumption
  <1>1. serial \in Nat /\ serial' \in Nat /\ attempts' \subseteq 1 .. serial'
        /\ attempts \subseteq 1 .. serial
    BY TypeStep DEF TypeOK
  <1>2. Cardinality(InWindow(attempts, w)) <= LoginLimit
    BY DEF EveryWindow
  <1>3. CASE at' = at /\ attempts' \subseteq attempts
    <2>1. /\ InWindow(attempts, w)' \subseteq InWindow(attempts, w)
          /\ InWindow(attempts, w) \subseteq 1 .. serial
      BY <1>1, <1>3 DEF InWindow
    <2> QED
      BY <1>1, <1>2, <2>1, CardinalityMonotone
  <1>4. ASSUME NEW r \in Requests, NEW answer \in Answers, CommitFailure(r, answer)
        PROVE  Cardinality(InWindow(attempts, w)') <= LoginLimit
    <2> DEFINE id == serial + 1
               W  == InWindow(attempts, w)'
    <2>1. /\ pc[r] = "inserted" /\ id \notin attempts /\ attempts' \subseteq attempts \cup {id}
          /\ at'[id] = now[r] /\ now[r] \in Nat
          /\ \A j \in attempts : at'[j] = at[j] /\ at[j] \in Nat
      BY <1>4, CommitStep
    <2>2. Cardinality(Counted(now[r])) < LoginLimit
      BY <2>1 DEF RoomForRow
    <2>3. CASE id \in W
      <3>1. W \ {id} \subseteq Counted(now[r]) /\ Counted(now[r]) \subseteq 1 .. serial
        <4>1. now[r] < w + LoginWindow
          BY <2>1, <2>3 DEF InWindow
        <4>2. SUFFICES ASSUME NEW j \in W, j # id
                       PROVE  j \in Counted(now[r])
          BY <1>1 DEF Counted
        <4>3. j \in attempts /\ w <= at'[j]
          BY <2>1, <4>2 DEF InWindow
        <4> QED
          BY <2>1, <4>1, <4>3 DEF Counted
      <3>2. /\ Cardinality(W \ {id}) <= Cardinality(Counted(now[r]))
            /\ Cardinality(W \ {id}) \in Nat /\ Cardinality(Counted(now[r])) \in Nat
        BY <1>1, <3>1, CardinalityMonotone
      <3>3. W \subseteq 1 .. serial' /\ IsFiniteSet(W) /\ Cardinality(W) \in Nat
        BY <1>1, CardinalityMonotone DEF InWindow
      <3>4. Cardinality(W \ {id}) = Cardinality(W) - 1
        BY <2>3, <3>3, FS_RemoveElement
      <3> QED
        BY <2>2, <3>2, <3>3, <3>4
    <2>4. CASE id \notin W
      <3>1. W \subseteq InWindow(attempts, w) /\ InWindow(attempts, w) \subseteq 1 .. serial
        BY <1>1, <2>1, <2>4 DEF InWindow
      <3> QED
        BY <1>1, <1>2, <3>1, CardinalityMonotone
    <2> QED
      BY <2>3, <2>4
  <1> QED
    BY <1>3, <1>4, TableStep

\* Time does not run backwards, and requests arrive now.
LEMMA ArrivalStep ==
  TypeOK /\ ArrivedBefore /\ [Next]_vars => ArrivedBefore' /\ clock <= clock'
  BY ThrottleAssumption DEF ArrivedBefore, Readings, arrival, TypeOK, Next, Progress, vars, table, arrival, Arrive, IsLoginRateLimited, Verify,
         LockKey, PurgeAndCount, ClearLoginAttempts, CommitFull, CommitFailure, Fail, Tick,
         Answer, Step

\* What a DELETE has found does not change until its transaction ends.
LEMMA PurgesStep ==
  TypeOK /\ RowsReserved /\ PurgesExpired /\ [Next]_vars => PurgesExpired'
  <1> SUFFICES ASSUME TypeOK, RowsReserved, PurgesExpired, [Next]_vars,
                      NEW r \in Requests, pc'[r] \in {"full", "inserted"},
                      NEW i \in seen'[r]
               PROVE  at'[i] + LoginWindow <= now'[r]
    BY DEF PurgesExpired
  <1> USE ThrottleAssumption
  <1>1. now'[r] = now[r] /\ now[r] \in Nat
    BY NowStep DEF TypeOK, Answers
  <1>2. i \in 1 .. serial /\ at[i] + LoginWindow <= now[r]
    <2>1. CASE PurgeAndCount(r)
      <3>1. i \in Expired(now[r])
        BY <2>1 DEF PurgeAndCount, TypeOK
      <3>2. i \in attempts /\ at[i] <= now[r] - LoginWindow
        BY <3>1 DEF Expired
      <3>3. i \in 1 .. serial /\ i \in Rows
        <4>1. attempts \subseteq 1 .. serial /\ serial \in 0 .. MaxRows
          BY DEF TypeOK
        <4> QED
          BY <3>2, <4>1 DEF Rows
      <3>4. at[i] \in Nat
        BY <3>3 DEF TypeOK
      <3> QED
        BY <1>1, <3>2, <3>3, <3>4
    <2>2. CASE pc[r] \in {"full", "inserted"} /\ seen'[r] = seen[r]
      BY <2>2 DEF PurgesExpired, TypeOK
    <2> QED
      BY <2>1, <2>2 DEF Next, Progress, vars, table, arrival, Arrive, IsLoginRateLimited, Verify, LockKey,
         PurgeAndCount, ClearLoginAttempts, CommitFull, CommitFailure, Fail, Tick, Answer, Step,
         TypeOK, Answers, Told
  <1>3. at'[i] = at[i]
    <2>1. CASE at' = at
      BY <2>1
    <2>2. ASSUME NEW s \in Requests, NEW answer \in Answers, CommitFailure(s, answer)
          PROVE  at'[i] = at[i]
      <3>1. at' = [at EXCEPT ![serial + 1] = now[s]] /\ i # serial + 1
        BY <1>2, <2>2 DEF CommitFailure, TypeOK
      <3> QED
        BY <1>2, <3>1 DEF TypeOK, Rows
    <2> QED
      BY <2>1, <2>2, TableStep
  <1> QED
    BY <1>1, <1>2, <1>3

\* Whoever purges rows has counted, and is about to answer.
LEMMA PurgedStep ==
  ASSUME TypeOK, [Next]_vars
  PROVE  \/ purged' = purged
         \/ \E r \in Requests, answer \in Answers :
              CommitFull(r, answer) \/ CommitFailure(r, answer)
  BY DEF Next, Progress, vars, table, arrival, Arrive, IsLoginRateLimited, Verify, LockKey,
         PurgeAndCount, ClearLoginAttempts, Fail, Tick

\* After a shortened window nobody arrives in it: there are only fewer who may add a row.
LEMMA LateStep ==
  ASSUME TypeOK, NEW w \in Nat, w + LoginWindow - MaxSkew <= clock, [Next]_vars
  PROVE  Late(w)' \subseteq Late(w)
  <1> USE ThrottleAssumption
  <1> SUFFICES ASSUME NEW r \in Late(w)'
               PROVE  r \in Late(w)
    OBVIOUS
  <1>1. /\ r \in Requests
        /\ pc'[r] \in {"arrived", "verifying", "failed", "purging", "inserted"}
        /\ w <= now'[r] /\ now'[r] < w + LoginWindow - MaxSkew
    BY DEF Late
  <1>2. ~ Arrive(r)
    <2>1. SUFFICES ASSUME Arrive(r)
                   PROVE  FALSE
      OBVIOUS
    <2>2. PICK n \in Readings : now' = [now EXCEPT ![r] = n]
      BY <2>1 DEF Arrive
    <2>3. now'[r] = n /\ clock <= n /\ clock \in Nat /\ n \in Nat
      BY <1>1, <2>2 DEF Readings, TypeOK
    <2> QED
      BY <1>1, <2>3
  <1>3. /\ pc[r] \in {"arrived", "verifying", "failed", "purging", "inserted"}
        /\ now'[r] = now[r]
    BY <1>1, <1>2 DEF Next, Progress, vars, table, arrival, Arrive, IsLoginRateLimited, Verify, LockKey,
         PurgeAndCount, ClearLoginAttempts, CommitFull, CommitFailure, Fail, Tick, Answer, Step,
         TypeOK, Answers, Told
  <1> QED
    BY <1>1, <1>3 DEF Late

\* The requests that may add to a window are finitely many.
LEMMA LateFinite ==
  ASSUME NEW w
  PROVE  /\ IsFiniteSet(Late(w)) /\ Cardinality(Late(w)) \in Nat
         /\ Late(w) \subseteq Requests /\ Cardinality(Requests) \in Nat
  <1>1. Late(w) \subseteq Requests /\ IsFiniteSet(Requests)
    BY ThrottleAssumption DEF Late
  <1> QED
    BY <1>1, FS_Subset, FS_CardinalityType

\* A row that is purged from a window is purged by a request that arrived after
\* the window; the limit of rows and all other requests may be in it.
LEMMA FirstPurge ==
  ASSUME IInv, [Next]_vars, NEW w \in Nat, NEW r \in Requests, NEW answer \in Answers,
         CommitFull(r, answer) \/ CommitFailure(r, answer),
         NEW i \in attempts \cap seen[r], w <= at[i]
  PROVE  /\ w + LoginWindow <= now[r] /\ w + LoginWindow - MaxSkew <= clock'
         /\ Cardinality(Late(w)') \in Nat /\ Cardinality(Late(w)') < Cardinality(Requests)
  <1> USE ThrottleAssumption
  <1>1. pc[r] \in {"full", "inserted"} /\ pc'[r] \in Answers
    BY DEF CommitFull, CommitFailure, Answer, Step, IInv, TypeOK
  <1>2. at[i] + LoginWindow <= now[r] /\ at[i] \in Nat /\ now[r] \in Nat
    <2>1. i \in Rows
      BY DEF IInv, TypeOK, Rows
    <2> QED
      BY <1>1, <2>1 DEF IInv, PurgesExpired, TypeOK
  <1>3. w + LoginWindow <= now[r]
    BY <1>2
  <1>4. now[r] <= clock + MaxSkew /\ clock <= clock' /\ clock \in Nat /\ clock' \in Nat
    BY ArrivalStep, TypeStep DEF IInv, ArrivedBefore, TypeOK
  <1>5. Late(w)' \subseteq Requests \ {r}
    BY <1>1 DEF Late, Answers
  <1>6. /\ IsFiniteSet(Requests \ {r})
        /\ Cardinality(Requests \ {r}) = Cardinality(Requests) - 1
    BY FS_RemoveElement
  <1>7. /\ Cardinality(Late(w)') <= Cardinality(Requests \ {r})
        /\ Cardinality(Late(w)') \in Nat /\ Cardinality(Requests) \in Nat
    BY <1>5, <1>6, FS_Subset, FS_CardinalityType
  <1> QED
    BY <1>2, <1>3, <1>4, <1>6, <1>7

\* Every step keeps the reserve.
LEMMA ExcessStep == IInv /\ [Next]_vars => ExcessReserved'
  <1> SUFFICES ASSUME IInv, [Next]_vars, NEW w \in Nat, InSpan(purged, w)' # {}
               PROVE  /\ w + LoginWindow - MaxSkew <= clock'
                      /\ Cardinality(InSpan(attempts \cup purged, w)') + Cardinality(Late(w)')
                           < LoginLimit + Cardinality(Requests)
    BY DEF ExcessReserved, InSpan, Late
  <1> USE ThrottleAssumption
  <1> DEFINE U == InSpan(attempts \cup purged, w)
  <1>1. /\ serial \in Nat /\ serial' \in Nat
        /\ attempts \cup purged \subseteq 1 .. serial
        /\ attempts' \cup purged' \subseteq 1 .. serial'
        /\ clock \in Nat /\ clock' \in Nat /\ clock <= clock'
    BY TypeStep, ArrivalStep DEF IInv, TypeOK
  <1>2. /\ IsFiniteSet(U) /\ Cardinality(U) \in Nat
        /\ IsFiniteSet(U') /\ Cardinality(U') \in Nat
    BY <1>1, CardinalityMonotone DEF InSpan
  <1>3. /\ IsFiniteSet(Late(w)) /\ Cardinality(Late(w)) \in Nat
        /\ IsFiniteSet(Late(w)') /\ Cardinality(Late(w)') \in Nat
        /\ Cardinality(Requests) \in Nat
    <2>1. Late(w)' \subseteq Requests /\ IsFiniteSet(Requests)
      BY DEF Late
    <2> QED
      BY <2>1, LateFinite, FS_Subset, FS_CardinalityType
  <1>4. CASE InSpan(purged, w) # {}
    <2>1. /\ w + LoginWindow - MaxSkew <= clock
          /\ Cardinality(U) + Cardinality(Late(w)) < LoginLimit + Cardinality(Requests)
      BY <1>4 DEF IInv, ExcessReserved
    <2>2. Late(w)' \subseteq Late(w) /\ Cardinality(Late(w)') <= Cardinality(Late(w))
      BY <2>1, <1>3, LateStep, FS_Subset DEF IInv
    <2>3. ASSUME U' \subseteq U
          PROVE  Cardinality(U') + Cardinality(Late(w)') < LoginLimit + Cardinality(Requests)
      <3>1. Cardinality(U') <= Cardinality(U)
        BY <2>3, <1>2, FS_Subset
      <3> QED
        BY <1>1, <1>2, <1>3, <2>1, <2>2, <3>1
    <2>4. ASSUME NEW r \in Requests, NEW answer \in Answers, CommitFailure(r, answer),
                 ~ (U' \subseteq U)
          PROVE  Cardinality(U') + Cardinality(Late(w)') < LoginLimit + Cardinality(Requests)
      <3>1. U' \subseteq U \cup {serial + 1} /\ w <= now[r] /\ now[r] < w + LoginWindow - MaxSkew
        BY <2>4, CommitStep DEF IInv, InSpan
      <3>2. Cardinality(U') <= Cardinality(U) + 1
        <4>1. /\ IsFiniteSet(U \cup {serial + 1})
              /\ \/ Cardinality(U \cup {serial + 1}) = Cardinality(U)
                 \/ Cardinality(U \cup {serial + 1}) = Cardinality(U) + 1
          BY <1>2, FS_AddElement, Zenon
        <4>2. Cardinality(U \cup {serial + 1}) \in Nat
          BY <4>1, FS_CardinalityType
        <4>3. Cardinality(U') <= Cardinality(U \cup {serial + 1})
          BY <3>1, <4>1, FS_Subset
        <4> QED
          BY <1>2, <4>1, <4>2, <4>3
      <3>3. r \in Late(w) /\ r \notin Late(w)'
        BY <2>4, <3>1 DEF Late, CommitFailure, Answer, Step, IInv, TypeOK, Answers
      <3>4. Late(w)' \subseteq Late(w) \ {r}
        BY <2>2, <3>3
      <3>5. /\ IsFiniteSet(Late(w) \ {r})
            /\ Cardinality(Late(w) \ {r}) = Cardinality(Late(w)) - 1
        BY <1>3, <3>3, FS_RemoveElement
      <3>6. Cardinality(Late(w)') <= Cardinality(Late(w)) - 1
        BY <3>4, <3>5, FS_Subset
      <3> QED
        BY <1>2, <1>3, <2>1, <3>2, <3>6
    <2>5. ASSUME at' = at, serial' = serial, attempts' \subseteq attempts,
                 \A r \in Requests, answer \in Answers : ~ CommitFailure(r, answer)
          PROVE  U' \subseteq U
      <3>1. purged' \subseteq attempts \cup purged
        BY <2>5, PurgedStep DEF CommitFull, CommitPurge, IInv
      <3> QED
        BY <2>5, <3>1 DEF InSpan
    <2>6. w + LoginWindow - MaxSkew <= clock'
      BY <1>1, <2>1
    <2> QED
      BY <2>3, <2>4, <2>5, <2>6, TableStep DEF IInv
  <1>5. ASSUME InSpan(purged, w) = {}, NEW r \in Requests, NEW answer \in Answers,
               CommitFull(r, answer) \/ CommitFailure(r, answer)
        PROVE  /\ w + LoginWindow - MaxSkew <= clock'
               /\ Cardinality(U') + Cardinality(Late(w)') < LoginLimit + Cardinality(Requests)
    <2>1. /\ attempts' \subseteq attempts \cup {serial + 1}
          /\ serial + 1 \in attempts' => at'[serial + 1] = now[r]
          /\ purged' = purged \cup (attempts \cap seen[r])
          /\ \A j \in attempts \cup purged : at'[j] = at[j] /\ at[j] \in Nat
          /\ now[r] \in Nat
      <3>1. CASE CommitFailure(r, answer)
        BY <3>1, CommitStep DEF IInv
      <3>2. CASE CommitFull(r, answer)
        <4>1. \A j \in attempts \cup purged : j \in Rows /\ j # serial + 1
          BY <1>1 DEF IInv, TypeOK, Rows
        <4> QED
          BY <3>2, <4>1 DEF CommitFull, CommitPurge, IInv, TypeOK
      <3> QED
        BY <1>5, <3>1, <3>2
    <2>2. PICK i \in attempts \cap seen[r] : w <= at[i]
      <3>1. PICK i \in purged' : w <= at'[i] /\ at'[i] < w + LoginWindow - MaxSkew
        BY DEF InSpan
      <3>2. i \notin purged
        BY <1>5, <2>1, <3>1 DEF InSpan
      <3> QED
        BY <2>1, <3>1, <3>2
    <2>3. /\ w + LoginWindow <= now[r] /\ w + LoginWindow - MaxSkew <= clock'
          /\ Cardinality(Late(w)') < Cardinality(Requests)
      BY <1>5, <2>2, FirstPurge
    <2>4. U' \subseteq InWindow(attempts, w)
      <3>1. SUFFICES ASSUME NEW j \in U'
                     PROVE  j \in InWindow(attempts, w)
        OBVIOUS
      <3>2. j \in attempts' \cup purged' /\ w <= at'[j] /\ at'[j] < w + LoginWindow - MaxSkew
        BY <3>1 DEF InSpan
      <3>3. j \in attempts \cup purged
        BY <2>1, <2>3, <3>2
      <3> QED
        BY <1>5, <2>1, <3>2, <3>3 DEF InSpan, InWindow
    <2>5. /\ Cardinality(InWindow(attempts, w)) <= LoginLimit
          /\ InWindow(attempts, w) \subseteq 1 .. serial
      BY <1>1 DEF IInv, EveryWindow, InWindow
    <2>6. /\ Cardinality(U') <= Cardinality(InWindow(attempts, w))
          /\ Cardinality(InWindow(attempts, w)) \in Nat
      BY <1>1, <2>4, <2>5, CardinalityMonotone
    <2> QED
      BY <1>2, <1>3, <2>3, <2>5, <2>6
  <1>6. ASSUME InSpan(purged, w) = {}
        PROVE  \E r \in Requests, answer \in Answers : CommitFull(r, answer) \/ CommitFailure(r, answer)
    <2>1. ASSUME purged' = purged, at' = at
          PROVE  FALSE
      BY <1>6, <2>1 DEF InSpan
    <2> QED
      BY <2>1, PurgedStep, TableStep DEF IInv
  <1> QED
    BY <1>4, <1>5, <1>6

\* Only requests insert rows.
LEMMA RowsStep == TypeOK /\ RowsFromRequests /\ [Next]_vars => RowsFromRequests'
  <1> SUFFICES ASSUME Requests = {}, RowsFromRequests, [Next]_vars
               PROVE  attempts' \cup purged' = {}
    BY DEF RowsFromRequests
  <1> QED
    BY DEF RowsFromRequests, Next, Tick, vars, table

\* The empty table satisfies the invariant.
LEMMA InitEstablishes == Init => IInv
  <1> SUFFICES ASSUME Init
               PROVE  IInv
    OBVIOUS
  <1> USE ThrottleAssumption
  <1>1. TypeOK
    BY DEF Init, TypeOK, Answers, Rows
  <1>2. Pending = {}
    BY DEF Init, Pending
  <1>3. RowsReserved
    BY <1>2, FS_EmptySet DEF Init, RowsReserved
  <1>4. LockHeld /\ RoomForRow /\ ClearedGone /\ RefusedForCause
    BY DEF Init, LockHeld, RoomForRow, ClearedGone, RefusedForCause
  <1>5. InWindow(attempts, 0) = {} /\ \A w \in Nat : InWindow(attempts, w) = {}
    BY DEF Init, InWindow
  <1>6. EveryWindow
    BY <1>5, FS_EmptySet DEF EveryWindow
  <1>7. ArrivedBefore /\ PurgesExpired /\ ExcessReserved /\ RowsFromRequests
    BY DEF Init, ArrivedBefore, PurgesExpired, ExcessReserved, InSpan, RowsFromRequests
  <1> QED
    BY <1>1, <1>3, <1>4, <1>6, <1>7 DEF IInv

\* Every step of Service.Login, of any request, preserves the invariant.
LEMMA StepPreserves == IInv /\ [Next]_vars => IInv'
  BY TypeStep, ReserveStep, LockStep, RoomStep, ClearedStep, CauseStep, WindowStep, ArrivalStep, PurgesStep,
     ExcessStep, RowsStep DEF IInv

\* The invariant holds in every state of every behaviour.
THEOREM InductiveInvariant == Spec => []IInv
  BY InitEstablishes, StepPreserves, PTL DEF Spec

\* Type correctness: row ids are given out once, and never past the bound.
THEOREM TypeCorrect == Spec => []TypeOK
  <1>1. IInv => TypeOK
    BY DEF IInv
  <1> QED
    BY <1>1, InductiveInvariant, PTL

\* However many logins fail at once, the table of failed logins never holds
\* more than the limit in any window.
THEOREM WindowNeverExceeded == Spec => []WindowBound
  <1>1. IInv => WindowBound
    <2>1. SUFFICES ASSUME IInv, NEW i \in attempts
                   PROVE  Cardinality(Window(attempts, i)) <= LoginLimit
      BY DEF WindowBound
    <2>2. at[i] \in Nat /\ Window(attempts, i) = InWindow(attempts, at[i])
      BY <2>1, ThrottleAssumption DEF IInv, TypeOK, Rows, Window, InWindow
    <2> QED
      BY <2>1, <2>2 DEF IInv, EveryWindow
  <1> QED
    BY <1>1, InductiveInvariant, PTL

\* Of all failures ever recorded in a window shortened by what the clocks differ,
\* also those purged since, there are fewer than the limit plus the number of
\* requests that run at the same time.
THEOREM ExcessBounded == Spec => []FailureExcessBounded
  <1>1. IInv => FailureExcessBounded
    <2> SUFFICES ASSUME IInv, NEW i \in attempts \cup purged
                 PROVE  Cardinality(Span(attempts \cup purged, i))
                          < LoginLimit + Cardinality(Requests)
      BY DEF FailureExcessBounded
    <2> DEFINE U == InSpan(attempts \cup purged, at[i])
    <2>1. at[i] \in Nat /\ Span(attempts \cup purged, i) = U
      <3>1. i \in Rows /\ attempts \cup purged \subseteq Rows /\ at \in [Rows -> Nat]
        BY ThrottleAssumption DEF IInv, TypeOK, Rows
      <3> QED
        BY <3>1, ThrottleAssumption DEF Span, Window, InSpan
    <2>2. U \subseteq 1 .. serial /\ serial \in Nat
      <3>1. serial \in Nat /\ attempts \cup purged \subseteq 1 .. serial
        BY ThrottleAssumption DEF IInv, TypeOK
      <3>2. U \subseteq attempts \cup purged
        BY DEF InSpan
      <3> QED
        BY <3>1, <3>2
    <2>3. Cardinality(U) \in Nat
      BY <2>2, CardinalityMonotone
    <2>4. Cardinality(Late(at[i])) \in Nat /\ Cardinality(Requests) \in Nat
      BY LateFinite
    <2>5. CASE InSpan(purged, at[i]) = {}
      <3>1. U \subseteq InWindow(attempts, at[i]) /\ InWindow(attempts, at[i]) \subseteq 1 .. serial
        <4>1. attempts \subseteq Rows /\ at \in [Rows -> Nat] /\ attempts \subseteq 1 .. serial
          BY ThrottleAssumption DEF IInv, TypeOK, Rows
        <4>2. ASSUME NEW j \in U PROVE j \in InWindow(attempts, at[i])
          <5>1. /\ j \in attempts \cup purged /\ at[i] <= at[j]
                /\ at[j] < at[i] + LoginWindow - MaxSkew
            BY <4>2 DEF InSpan
          <5>2. j \in attempts
            BY <2>5, <5>1 DEF InSpan
          <5>3. at[j] \in Nat
            BY <4>1, <5>2
          <5> QED
            BY <2>1, <5>1, <5>2, <5>3, ThrottleAssumption DEF InWindow
        <4> QED
          BY <4>1, <4>2 DEF InWindow
      <3>2. /\ Cardinality(U) <= Cardinality(InWindow(attempts, at[i]))
            /\ Cardinality(InWindow(attempts, at[i])) \in Nat
        BY <2>2, <3>1, CardinalityMonotone
      <3>3. Cardinality(InWindow(attempts, at[i])) <= LoginLimit
        BY <2>1 DEF IInv, EveryWindow
      <3>4. Cardinality(Requests) # 0
        BY ThrottleAssumption, FS_EmptySet DEF IInv, RowsFromRequests
      <3> QED
        BY <2>1, <2>3, <2>4, <3>2, <3>3, <3>4, ThrottleAssumption
    <2>6. CASE InSpan(purged, at[i]) # {}
      <3>1. Cardinality(U) + Cardinality(Late(at[i])) < LoginLimit + Cardinality(Requests)
        BY <2>1, <2>6 DEF IInv, ExcessReserved
      <3> QED
        BY <2>1, <2>3, <2>4, <3>1, ThrottleAssumption
    <2> QED
      BY <2>5, <2>6
  <1> QED
    BY <1>1, InductiveInvariant, PTL

\* Whoever is answered 429, the limit of failures in its window, or later, had
\* not been cleared by any login before it arrived.
THEOREM SuccessResets == Spec => SuccessResetsLimit
  <1> DEFINE Caused ==
        \A r \in Requests :
          pc[r] # "limited" /\ pc'[r] = "limited" => Cardinality(Held(r)) >= LoginLimit
  <1>1. IInv /\ [Next]_vars => [Caused]_vars
    BY RefusalStep
  <1> QED
    BY <1>1, InductiveInvariant, PTL DEF Spec, SuccessResetsLimit
=============================================================================
