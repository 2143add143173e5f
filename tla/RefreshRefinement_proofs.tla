---------------------- MODULE RefreshRefinement_proofs ----------------------
(***************************************************************************)
(* RefreshSessions implements TokenFamilies, and a refresh shortens a      *)
(* session by no more than the clocks differ: both from the inductive      *)
(* invariant of RefreshSessions_proofs.                                    *)
(***************************************************************************)
EXTENDS RefreshSessions_proofs

-----------------------------------------------------------------------------
(***************************************************************************)
(* Sessions as TokenFamilies sees them.                                    *)
(***************************************************************************)

Sessions == [f \in Tokens |-> SessionOf(f)]

\* An open session is its family's one live token.
LEMMA SessionIsLiveToken ==
  ASSUME TypeOK, AtMostOneLive, NEW f \in Tokens, NEW t \in LiveIn(f)
  PROVE  SessionOf(f) = t
<1>1. t \in FamilyRows(f)
  BY DEF LiveIn, Live, FamilyRows
<1>2. \A s \in LiveIn(f) : s = t
  BY DEF LiveIn, AtMostOneLive
<1> QED BY <1>1, <1>2 DEF SessionOf

\* A family none of whose rows changes keeps its session.
LEMMA SessionUnchanged ==
  ASSUME NEW f \in Tokens, FamilyRows(f)' = FamilyRows(f), LiveIn(f)' = LiveIn(f)
  PROVE  SessionOf(f)' = SessionOf(f)
  BY DEF SessionOf

\* A login opens a family.
LEMMA LoginOpens ==
  ASSUME IInv, NEW r \in Requests, NEW c \in Tokens, NEW o \in Outcomes,
         CreateRefreshToken(r, c, o), IInv'
  PROVE  Families!Open(c)
<1> USE DEF IInv
<1>1. /\ c \notin stored /\ stored' = stored \cup {c} /\ Live' = Live \cup {c}
      /\ family' = [family EXCEPT ![c] = c]
  BY DEF CreateRefreshToken, FreshTokens, Live, TypeOK
<1>2. FamilyRows(c) = {}
  BY <1>1 DEF FamilyRows, RowsConsistent
<1>3. ASSUME NEW f \in Tokens \ {c} PROVE SessionOf(f)' = SessionOf(f)
  <2>1. FamilyRows(f)' = FamilyRows(f)
    BY <1>1, <1>3 DEF FamilyRows, TypeOK
  <2>2. LiveIn(f)' = LiveIn(f)
    BY <1>1, <1>3 DEF LiveIn, Live, TypeOK
  <2> QED BY <2>1, <2>2, SessionUnchanged
<1>4. SessionOf(c)' = c
  <2>1. c \in LiveIn(c)'
    BY <1>1 DEF LiveIn, TypeOK
  <2>2. c \in FamilyRows(c)' /\ \A s \in LiveIn(c)' : s = c
    BY <1>1, <2>1 DEF FamilyRows, LiveIn, AtMostOneLive, TypeOK
  <2> QED BY <2>1, <2>2 DEF SessionOf
<1>5. Sessions' = [Sessions EXCEPT ![c] = c]
  BY <1>3, <1>4 DEF Sessions
<1> QED BY <1>1, <1>2, <1>5 DEF Families!Open, Sessions, SessionOf

\* A committed rotation exchanges the live token of its family.
LEMMA RotationExchanges ==
  ASSUME IInv, NEW r \in Requests, NEW c \in Tokens, NEW o \in Outcomes,
         CommitRotation(r, c, o), IInv', NEW g, g = family[arg[r]]
  PROVE  g \in Tokens /\ Families!Exchange(g, c)
<1> USE DEF IInv
<1>1. /\ c \notin stored /\ stored' = stored \cup {c} /\ arg[r] \in Live
      /\ Live' = (Live \ {arg[r]}) \cup {c}
      /\ family' = [family EXCEPT ![c] = g]
  BY DEF CommitRotation, FreshTokens, Live, TypeOK, RotationActsOnCurrentState
<1>2. g \in Tokens /\ arg[r] \in Tokens /\ arg[r] \in LiveIn(g)
  BY <1>1 DEF LiveIn, Live, RowsConsistent, TypeOK
<1>3. SessionOf(g) \in Tokens
  BY <1>2, SessionIsLiveToken
<1>4. ASSUME NEW f \in Tokens \ {g} PROVE SessionOf(f)' = SessionOf(f)
  <2>1. FamilyRows(f)' = FamilyRows(f)
    BY <1>1, <1>2, <1>4 DEF FamilyRows, TypeOK
  <2>2. LiveIn(f)' = LiveIn(f)
    BY <1>1, <1>2, <1>4 DEF LiveIn, Live, TypeOK
  <2> QED BY <2>1, <2>2, SessionUnchanged
<1>5. SessionOf(g)' = c
  <2>1. c \in LiveIn(g)'
    BY <1>1, <1>2 DEF LiveIn, TypeOK
  <2>2. c \in FamilyRows(g)' /\ \A s \in LiveIn(g)' : s = c
    BY <1>1, <1>2, <2>1 DEF FamilyRows, LiveIn, AtMostOneLive, TypeOK
  <2> QED BY <2>1, <2>2 DEF SessionOf
<1>6. Sessions' = [Sessions EXCEPT ![g] = c]
  BY <1>4, <1>5 DEF Sessions
<1> QED BY <1>1, <1>2, <1>3, <1>6 DEF Families!Exchange, Sessions

\* A family UPDATE closes its family or, when nothing in it was live or a
\* rotation slipped past a logout's snapshot, changes no session.
LEMMA RevocationCloses ==
  ASSUME IInv, NEW r \in Requests, Revoke(r), IInv'
  PROVE  \/ \E f \in Tokens : Families!Close(f)
         \/ UNCHANGED <<Sessions, stored>>
<1> USE DEF IInv
<1>1. stored' = stored /\ family' = family /\ Live' = Live \ batch[r]
  BY DEF Revoke, Live
<1>2. \A f \in Tokens : FamilyRows(f)' = FamilyRows(f)
  BY <1>1 DEF FamilyRows
<1>3. CASE Live \cap batch[r] = {}
  <2>1. Live' = Live
    BY <1>1, <1>3
  <2>2. \A f \in Tokens : LiveIn(f)' = LiveIn(f)
    BY <1>1, <2>1 DEF LiveIn
  <2> QED BY <1>1, <1>2, <2>2, SessionUnchanged DEF Sessions
<1>4. ASSUME NEW t \in Live \cap batch[r] PROVE \E f \in Tokens : Families!Close(f)
  <2>0. PICK g : g = family[arg[r]]
    OBVIOUS
  <2>1. g \in Tokens /\ family[t] = g /\ t \in LiveIn(g) /\ t \in Tokens
    BY <1>4, <2>0 DEF BatchesExact, RowsConsistent, LiveIn, Live, TypeOK
  <2>2. SessionOf(g) \in Tokens
    BY <2>1, SessionIsLiveToken
  <2>3. ASSUME NEW f \in Tokens \ {g} PROVE SessionOf(f)' = SessionOf(f)
    <3>1. LiveIn(f)' = LiveIn(f)
      BY <1>1, <2>0, <2>3 DEF LiveIn, BatchesExact
    <3> QED BY <1>2, <3>1, SessionUnchanged
  <2>4. SessionOf(g)' = Closed
    <3>1. \A s \in LiveIn(g) : s = t
      BY <2>1 DEF LiveIn, AtMostOneLive
    <3>2. LiveIn(g)' = {}
      BY <1>1, <1>4, <3>1 DEF LiveIn
    <3>3. FamilyRows(g)' # {}
      BY <1>2, <2>1 DEF FamilyRows, LiveIn, Live
    <3> QED BY <3>2, <3>3 DEF SessionOf
  <2>5. Sessions' = [Sessions EXCEPT ![g] = Closed]
    BY <2>3, <2>4 DEF Sessions
  <2>6. Families!Close(g)
    BY <1>1, <2>1, <2>2, <2>5 DEF Families!Close, Sessions
  <2> QED BY <2>1, <2>6
<1> QED BY <1>3, <1>4

\* Every step of the code maps to a step of TokenFamilies, or to none.
LEMMA StepRefines ==
  ASSUME IInv, [Next]_vars, IInv'
  PROVE  Families!Next \/ UNCHANGED <<Sessions, stored>>
<1>1. ASSUME UNCHANGED rows PROVE UNCHANGED <<Sessions, stored>>
  BY <1>1 DEF rows, Sessions, SessionOf, FamilyRows, LiveIn, Live
<1>2. ASSUME NEW r \in Requests, NEW c \in Tokens, NEW o \in Outcomes,
             CommitRotation(r, c, o)
      PROVE  Families!Next
  <2>1. PICK g : g = family[arg[r]]
    OBVIOUS
  <2> QED BY <1>2, <2>1, RotationExchanges DEF Families!Next
<1>3. ASSUME NEW r \in Requests, NEW c \in Tokens, NEW o \in Outcomes,
             CreateRefreshToken(r, c, o)
      PROVE  Families!Next
  BY <1>3, LoginOpens DEF Families!Next
<1>4. ASSUME NEW r \in Requests, Revoke(r)
      PROVE  Families!Next \/ UNCHANGED <<Sessions, stored>>
  BY <1>4, RevocationCloses DEF Families!Next
<1> QED
  BY <1>1, <1>2, <1>3, <1>4
  DEF Next, Begin, BeginLogin, BeginRefresh, BeginLogout, Arrive, Progress, NoSuchToken,
      LockToken, LockUser, DetectReuse, RejectToken, Rotate, LockFamilyRow,
      CommitReuseRevocation, CommitLogout, Fail, AbortDeadlocked, SetActive, Tick, vars

\* Every behaviour of the handlers and their transactions is one of
\* TokenFamilies: no spent token becomes current again, and no session without
\* a current token gets one.
THEOREM Refinement == Spec => ImplementsTokenFamilies
<1>1. Init => Families!Init
  BY DEF Init, Families!Init, SessionOf, FamilyRows
<1>2. IInv /\ [Next]_vars /\ IInv' => [Families!Next]_(Families!vars)
  BY StepRefines DEF Families!vars, Sessions
<1> QED
  BY <1>1, <1>2, InductiveInvariant, PTL DEF Spec, Families!Spec, ImplementsTokenFamilies
-----------------------------------------------------------------------------
(***************************************************************************)
(* Time.                                                                   *)
(***************************************************************************)

Presenting == {"presented"} \cup Transactional

\* No clock is ahead of the slowest by more than the skew, so no token was
\* issued for longer than the lifetime and the skew from now.  While a family's
\* live token is being presented nothing enters the family: what bounds the
\* expiries in it when a request presents that token bounds them until that
\* request, or another one that presented it, replaces it.
ExpiryBounds ==
  /\ \A r \in Requests : now[r] <= clock + MaxSkew
  /\ \A t \in stored : expires[t] <= clock + MaxSkew + RefreshTTL
  /\ \A r \in Requests, p \in stored :
       pc[r] \in Presenting /\ arg[r] \in Live /\ family[p] = family[arg[r]]
         => expires[p] <= now[r] + RefreshTTL + MaxSkew

\* An answer, and the token it may have stored, keep the bounds on expiries: the
\* token belongs to a family of which nobody else presents the live token.
LEMMA ExpiryFinish ==
  ASSUME IInv, ExpiryBounds, NEW r \in Requests, NEW o \in Outcomes, Finish(r, o),
         stored \subseteq stored',
         \A t \in stored : expires'[t] = expires[t] /\ family'[t] = family[t],
         \A t \in stored' \ stored : expires'[t] <= clock + MaxSkew + RefreshTTL,
         \A q \in Requests \ {r} :
           pc[q] \in Presenting /\ arg[q] \in Live' =>
             arg[q] \in Live /\ \A t \in stored' \ stored : family'[t] # family[arg[q]]
  PROVE  ExpiryBounds'
<1>1. /\ pc' = [pc EXCEPT ![r] = o] /\ now' = [now EXCEPT ![r] = 0] /\ clock' = clock
      /\ \A q \in Requests : q # r => arg'[q] = arg[q]
      /\ o \notin Presenting
  BY DEF IInv, Finish, Presenting, Transactional, Outcomes, TypeOK
<1>2. /\ now \in [Requests -> Nat] /\ pc \in [Requests -> Outcomes \cup Steps]
      /\ clock \in Nat /\ MaxSkew \in Nat
  BY ConstantsAssumption DEF IInv, TypeOK
<1>3. \A q \in Requests : now'[q] <= clock' + MaxSkew
  BY <1>1, <1>2 DEF ExpiryBounds
<1>4. \A t \in stored' : expires'[t] <= clock' + MaxSkew + RefreshTTL
  BY <1>1 DEF ExpiryBounds
<1>5. ASSUME NEW q \in Requests, NEW p \in stored',
             pc'[q] \in Presenting, arg'[q] \in Live', family'[p] = family'[arg'[q]]
      PROVE  expires'[p] <= now'[q] + RefreshTTL + MaxSkew
  <2>1. q # r /\ pc'[q] = pc[q] /\ now'[q] = now[q] /\ arg'[q] = arg[q]
    BY <1>1, <1>2, <1>5
  <2>2. arg[q] \in Live /\ arg[q] \in stored /\ family'[arg[q]] = family[arg[q]]
    BY <1>5, <2>1 DEF Live
  <2>3. p \in stored
    BY <1>5, <2>1, <2>2
  <2> QED BY <1>5, <2>1, <2>2, <2>3 DEF ExpiryBounds
<1> QED BY <1>3, <1>4, <1>5 DEF ExpiryBounds

\* No row expires later than one lifetime and the skew after the clock, and no
\* request that presents a live token has a time at which the family's tokens
\* would outlive its replacement by more than the skew.
LEMMA ExpiryStep ==
  ASSUME IInv, ExpiryBounds, [Next]_vars
  PROVE  ExpiryBounds'
<1> USE ConstantsAssumption DEF IInv
<1>0. /\ \A r \in Requests : pc[r] \in Presenting /\ arg[r] \in Tokens => arg[r] \in stored
      /\ Live \subseteq Tokens
  BY DEF LocksHeld, Presenting, Transactional, Live, TypeOK
<1>1. ASSUME NEW r \in Requests, NEW t, NEW u, NEW b, NEW step, Arrive(r, step, t, u, b)
      PROVE  ExpiryBounds'
  <2>1. PICK n \in Readings : now' = [now EXCEPT ![r] = n]
    BY <1>1 DEF Arrive
  <2>2. /\ n \in Nat /\ clock <= n /\ n <= clock + MaxSkew
        /\ now \in [Requests -> Nat] /\ clock \in Nat
    BY <2>1 DEF Readings, TypeOK
  <2>3. /\ UNCHANGED <<stored, used, revoked, family, expires, clock>> /\ Live' = Live
        /\ \A q \in Requests \ {r} : pc'[q] = pc[q] /\ arg'[q] = arg[q] /\ now'[q] = now[q]
        /\ now'[r] = n
    BY <1>1, <2>1, <2>2 DEF Arrive, rows, Live, TypeOK
  <2>4. \A q \in Requests : now'[q] <= clock' + MaxSkew
    BY <2>2, <2>3 DEF ExpiryBounds
  <2>5. \A p \in stored : expires[p] \in Nat /\ expires[p] <= clock + MaxSkew + RefreshTTL
    BY DEF ExpiryBounds, TypeOK
  <2>6. \A p \in stored : expires[p] <= n + RefreshTTL + MaxSkew
    BY <2>2, <2>5
  <2>7. \A q \in Requests, p \in stored' :
          pc'[q] \in Presenting /\ arg'[q] \in Live' /\ family'[p] = family'[arg'[q]]
            => expires'[p] <= now'[q] + RefreshTTL + MaxSkew
    BY <2>3, <2>6 DEF ExpiryBounds
  <2> QED BY <2>3, <2>4, <2>7 DEF ExpiryBounds
<1>2. ASSUME NEW r \in Requests, NEW c \in Tokens, NEW o \in Outcomes,
             CreateRefreshToken(r, c, o)
      PROVE  ExpiryBounds'
  <2>1. /\ c \notin stored /\ stored' = stored \cup {c} /\ Live' = Live \cup {c}
        /\ family' = [family EXCEPT ![c] = c] /\ Finish(r, o)
        /\ expires' = [expires EXCEPT ![c] = now[r] + RefreshTTL]
    BY <1>2 DEF CreateRefreshToken, FreshTokens, Live, TypeOK
  <2>2. /\ expires'[c] = now[r] + RefreshTTL /\ family'[c] = c
        /\ \A t \in stored : expires'[t] = expires[t] /\ family'[t] = family[t]
    BY <2>1 DEF TypeOK
  <2>3. expires'[c] <= clock + MaxSkew + RefreshTTL
    BY <2>2 DEF ExpiryBounds, TypeOK
  <2>4. ASSUME NEW q \in Requests \ {r}, pc[q] \in Presenting, arg[q] \in Live'
        PROVE  arg[q] \in Live /\ \A t \in stored' \ stored : family'[t] # family[arg[q]]
    <3>1. arg[q] \in stored
      BY <1>0, <2>1, <2>4
    <3> QED BY <2>1, <2>2, <2>4, <3>1 DEF RowsConsistent
  <2> QED BY <2>1, <2>2, <2>3, <2>4, ExpiryFinish
<1>3. ASSUME NEW r \in Requests, NEW c \in Tokens, NEW o \in Outcomes,
             CommitRotation(r, c, o)
      PROVE  ExpiryBounds'
  <2>1. /\ c \notin stored /\ stored' = stored \cup {c} /\ arg[r] \in Live
        /\ Live' = (Live \ {arg[r]}) \cup {c}
        /\ family' = [family EXCEPT ![c] = family[arg[r]]] /\ Finish(r, o)
        /\ expires' = [expires EXCEPT ![c] = now[r] + RefreshTTL]
    BY <1>3 DEF CommitRotation, FreshTokens, Live, TypeOK, RotationActsOnCurrentState
  <2>2. /\ expires'[c] = now[r] + RefreshTTL /\ family'[c] = family[arg[r]]
        /\ \A t \in stored : expires'[t] = expires[t] /\ family'[t] = family[t]
    BY <2>1 DEF TypeOK
  <2>3. expires'[c] <= clock + MaxSkew + RefreshTTL
    BY <2>2 DEF ExpiryBounds, TypeOK
  <2>4. ASSUME NEW q \in Requests \ {r}, pc[q] \in Presenting, arg[q] \in Live'
        PROVE  arg[q] \in Live /\ \A t \in stored' \ stored : family'[t] # family[arg[q]]
    <3>1. arg[q] \in stored
      BY <1>0, <2>1, <2>4
    <3>2. arg[q] \in Live \ {arg[r]}
      BY <2>1, <2>4, <3>1
    <3>3. family[arg[q]] # family[arg[r]]
      BY <2>1, <3>2 DEF AtMostOneLive
    <3> QED BY <2>1, <2>2, <3>2, <3>3
  <2> QED BY <2>1, <2>2, <2>3, <2>4, ExpiryFinish
<1>4. ASSUME NEW r \in Requests, NEW o \in Outcomes, Finish(r, o), Live' \subseteq Live,
             UNCHANGED <<stored, family, expires>>
      PROVE  ExpiryBounds'
  BY <1>4, ExpiryFinish
<1>5. ASSUME NEW r \in Requests, pc[r] \in Presenting, NEW step \in Steps,
             pc' = [pc EXCEPT ![r] = step], UNCHANGED <<rows, arg, now, clock>>
      PROVE  ExpiryBounds'
  BY <1>5 DEF rows, ExpiryBounds, Live, TypeOK
<1>6. ASSUME clock' \in {clock, clock + 1}, UNCHANGED <<rows, pc, arg, now>>
      PROVE  ExpiryBounds'
  <2>1. \A q \in Requests : now[q] \in Nat /\ now[q] <= clock' + MaxSkew
    BY <1>6 DEF ExpiryBounds, TypeOK
  <2>2. \A t \in stored : expires[t] \in Nat /\ expires[t] <= clock' + MaxSkew + RefreshTTL
    BY <1>6 DEF ExpiryBounds, TypeOK
  <2>3. Live' = Live
    BY <1>6 DEF rows, Live
  <2> QED BY <1>6, <2>1, <2>2, <2>3 DEF rows, ExpiryBounds
<1>7. ASSUME NEW r \in Requests, Revoke(r)
      PROVE  Live' \subseteq Live /\ UNCHANGED <<stored, family, expires>>
  BY <1>7 DEF Revoke, Live
<1>8. ASSUME UNCHANGED rows
      PROVE  Live' \subseteq Live /\ UNCHANGED <<stored, family, expires>>
  BY <1>8 DEF rows, Live
<1>9. Deadlocked \subseteq Requests /\ "invalid" \in Outcomes /\ "unavailable" \in Outcomes
  BY DEF Deadlocked, Outcomes
<1>10. ASSUME NEW r \in Requests, Begin(r) PROVE ExpiryBounds'
  BY <1>1, <1>10 DEF Begin, BeginLogin, BeginRefresh, BeginLogout
<1>11. ASSUME NEW r \in Requests, LockToken(r) \/ LockUser(r) \/ DetectReuse(r) \/ Rotate(r)
       PROVE  ExpiryBounds'
  BY <1>5, <1>11 DEF LockToken, LockUser, DetectReuse, Rotate, Presenting, Transactional,
                     Steps, locals
<1>12. ASSUME NEW r \in Requests, Progress(r) PROVE ExpiryBounds'
  BY <1>2, <1>3, <1>4, <1>6, <1>7, <1>8, <1>9, <1>11, <1>12
  DEF Progress, NoSuchToken, RejectToken, LockFamilyRow, CommitReuseRevocation, CommitLogout,
      locals
<1> QED
  BY <1>4, <1>6, <1>8, <1>9, <1>10, <1>12
  DEF Next, Fail, AbortDeadlocked, SetActive, Tick, vars, locals

\* However stale the time a handler works with and whichever instance it ran on,
\* a token that enters a family expires at most the skew earlier than any token
\* the family ever had.
THEOREM ShortensByAtMostSkew == Spec => RefreshShortensByAtMostSkew
<1> DEFINE WithinSkew == \A c \in stored' \ stored : \A p \in stored :
                           family[p] = family'[c] => expires'[c] >= expires[p] - MaxSkew
<1>1. Init => ExpiryBounds
  BY ConstantsAssumption DEF Init, ExpiryBounds, Presenting, Transactional, Live
<1>2. IInv /\ ExpiryBounds /\ [Next]_vars => ExpiryBounds'
  BY ExpiryStep
<1>3. IInv /\ ExpiryBounds /\ [Next]_vars => [WithinSkew]_vars
  <2> SUFFICES ASSUME IInv, ExpiryBounds, [Next]_vars,
                      NEW c \in stored' \ stored, NEW p \in stored, family[p] = family'[c]
               PROVE  expires'[c] >= expires[p] - MaxSkew
    OBVIOUS
  <2> USE DEF IInv
  <2>1. ASSUME NEW r \in Requests, NEW d \in Tokens, NEW o \in Outcomes,
               CreateRefreshToken(r, d, o)
        PROVE  FALSE
    BY <2>1 DEF CreateRefreshToken, FreshTokens, RowsConsistent, TypeOK
  <2>2. ASSUME NEW r \in Requests, NEW d \in Tokens, NEW o \in Outcomes,
               CommitRotation(r, d, o)
        PROVE  expires'[c] >= expires[p] - MaxSkew
    <3>1. arg[r] \in Live /\ family[p] = family[arg[r]] /\ expires'[c] = now[r] + RefreshTTL
      BY <2>2 DEF CommitRotation, FreshTokens, TypeOK, RotationActsOnCurrentState
    <3>2. expires[p] <= now[r] + RefreshTTL + MaxSkew
      BY <2>2, <3>1 DEF CommitRotation, ExpiryBounds, Presenting, Transactional
    <3>3. expires[p] \in Nat /\ now[r] \in Nat /\ RefreshTTL \in Nat /\ MaxSkew \in Nat
      BY ConstantsAssumption DEF TypeOK
    <3> QED BY <3>1, <3>2, <3>3
  <2>3. CASE stored' = stored
    BY <2>3
  <2> QED
    BY <2>1, <2>2, <2>3
    DEF Next, Begin, BeginLogin, BeginRefresh, BeginLogout, Arrive, Progress, NoSuchToken,
        LockToken, LockUser, DetectReuse, RejectToken, Rotate, LockFamilyRow,
        CommitReuseRevocation, CommitLogout, Revoke, Fail, AbortDeadlocked, SetActive, Tick,
        vars, rows
<1> QED
  BY <1>1, <1>2, <1>3, InductiveInvariant, PTL DEF Spec, RefreshShortensByAtMostSkew
=============================================================================
