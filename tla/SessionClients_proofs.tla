------------------------ MODULE SessionClients_proofs ------------------------
(***************************************************************************)
(* What SessionClients promises whatever the number of requests, tokens,   *)
(* roles and permissions, however long tokens live and clocks disagree.    *)
(***************************************************************************)
EXTENDS SessionClients, TLAPS

-----------------------------------------------------------------------------
(* The inductive invariant.                                                *)

\* A handler that works on a session knows one of its tokens.
Holding ==
  /\ \A t \in seen : family[t] \in Tokens
  /\ \A r \in Requests :
       stage[r] \in {"presenting", "rotating", "signing", "session",
                     "leaving", "revoking"} => token[r] # NoToken

\* Nobody has read a time that no clock may show.
TimesPassed ==
  /\ \A r \in Requests : now[r] <= clock + MaxSkew
  /\ access.issued <= clock + MaxSkew

\* What was true when claims gs were read, for a request that came at time n,
\* is true still or has changed since the request came.
SinceChanged(n, gs) ==
  /\ ~ active => n <= changedAt.user + MaxSkew
  /\ \A g \in Grants : ~ (g \in gs <=> g \in granted) => n <= changedAt.grant[g] + MaxSkew

ClaimsTrue ==
  /\ \A r \in Requests :
       stage[r] \in {"inserting", "rotating", "signing"} => SinceChanged(now[r], claims[r])
  /\ access # NoAccess => SinceChanged(access.issued, access.grants)

\* A session that has ended had not when the request came.
SinceClosed(n, f) == f \in Tokens /\ (live[f] = Closed => n <= closedAt[f] + MaxSkew)

SessionsOpen ==
  /\ \A r \in Requests : stage[r] = "signing" => SinceClosed(now[r], Family(r))
  /\ access # NoAccess => SinceClosed(access.issued, access.family)

\* The one session of a serial client.
NoneOpen == \A f \in Tokens : live[f] \notin Tokens

OnlyOpen(t) ==
  /\ t \in Tokens /\ family[t] \in Tokens /\ live[family[t]] = t
  /\ \A f \in Tokens : live[f] \in Tokens => live[f] = t

JarOpen == IF jar = NoToken THEN NoneOpen ELSE OnlyOpen(jar)

\* Where the only request of a serial client leaves the session.
OneSession ==
  /\ \A q, r \in Requests : stage[q] # "idle" /\ stage[r] # "idle" => q = r
  /\ AllIdle => JarOpen
  /\ \A r \in Requests :
       /\ stage[r] \in {"verifying", "inserting"} => jar = NoToken /\ NoneOpen
       /\ stage[r] \in {"presenting", "rotating", "leaving", "revoking"}
            => jar # NoToken /\ token[r] = jar /\ OnlyOpen(jar)
       /\ stage[r] \in {"signing", "session"} => OnlyOpen(token[r])
       /\ stage[r] = "cleared" => NoneOpen
       /\ stage[r] = "refused" => JarOpen

Serial == serial => OneSession

IInv == TypeOK /\ Holding /\ TimesPassed /\ ClaimsTrue /\ SessionsOpen /\ Serial

\* Initially it holds.
LEMMA InitIInv == Init => IInv
BY ClientAssumption
DEF Init, Sessions!Init, NoAccess, IInv, TypeOK, Stages, Replies, Holding, TimesPassed,
  ClaimsTrue, SessionsOpen, Serial, OneSession, AllIdle, JarOpen, NoneOpen

-----------------------------------------------------------------------------
(* Every step preserves it, conjunct by conjunct.                          *)

\* TypeOK: what a handler holds has been handed out, by its own family.
LEMMA TypeStep ==
  ASSUME TypeOK, Holding, [Next]_vars
  PROVE  TypeOK'
<1> USE ClientAssumption
<1> USE DEF Stages, Replies, TypeOK, Holding, store, user, locals, Family
<1>1. ASSUME NEW r \in Requests, BeginLogin(r) PROVE TypeOK'
  BY <1>1 DEF BeginLogin, Move, ReadClock, Readings, AllIdle
<1>2. ASSUME NEW r \in Requests, BeginRefresh(r) PROVE TypeOK'
  BY <1>2 DEF BeginRefresh, Move, Present, ReadClock, Readings, AllIdle
<1>3. ASSUME NEW r \in Requests, BeginLogout(r) PROVE TypeOK'
  BY <1>3 DEF BeginLogout, Move, Present, AllIdle
<1>4. ASSUME NEW r \in Requests, FindUser(r) PROVE TypeOK'
  BY <1>4 DEF FindUser, Move, ReadClaims
<1>5. ASSUME NEW r \in Requests, RefuseLogin(r) PROVE TypeOK'
  BY <1>5 DEF RefuseLogin, Move, Answer, Forget
<1>6. ASSUME NEW r \in Requests, CreateRefreshToken(r) PROVE TypeOK'
  BY <1>6 DEF CreateRefreshToken, Move, NoneRotates, Sessions!Open
<1>7. ASSUME NEW r \in Requests, CheckToken(r) PROVE TypeOK'
  BY <1>7 DEF CheckToken, Move, ReadClaims, NoneRotates
<1>8. ASSUME NEW r \in Requests, CommitRotation(r) PROVE TypeOK'
  BY <1>8 DEF CommitRotation, Move, Sessions!Exchange
<1>9. ASSUME NEW r \in Requests, DetectReuse(r) PROVE TypeOK'
  BY <1>9 DEF DetectReuse, Move, Answer, Forget, Revoke, Sessions!Close
<1>10. ASSUME NEW r \in Requests, RejectToken(r) PROVE TypeOK'
  BY <1>10 DEF RejectToken, Move, Answer, Forget
<1>11. ASSUME NEW r \in Requests, Sign(r) PROVE TypeOK'
  BY <1>11 DEF Sign, Move, Issue, Forget
<1>12. ASSUME NEW r \in Requests, ReadFamily(r) PROVE TypeOK'
  BY <1>12 DEF ReadFamily, Move
<1>13. ASSUME NEW r \in Requests, CommitLogout(r) PROVE TypeOK'
  BY <1>13 DEF CommitLogout, Move, Answer, Forget, Revoke, Sessions!Close
<1>14. ASSUME NEW r \in Requests, Fail(r) PROVE TypeOK'
  <2>1. PICK reply \in Stages : stage' = [stage EXCEPT ![r] = reply]
    BY <1>14 DEF Fail, Answer, Move
  <2>2. serial' \in BOOLEAN
    BY <1>14 DEF Fail
  <2> QED
    BY <1>14, <2>1, <2>2 DEF Fail, Answer, Forget
<1>15. ASSUME NEW r \in Requests, Deliver(r) PROVE TypeOK'
  BY <1>15 DEF Deliver, Move, Answer, Forget
<1>16. ASSUME NEW r \in Requests, Lose(r) PROVE TypeOK'
  <2>1. PICK reply \in Stages : stage' = [stage EXCEPT ![r] = reply]
    BY <1>16 DEF Lose, Answer, Move
  <2>2. serial' \in BOOLEAN
    BY <1>16 DEF Lose
  <2> QED
    BY <1>16, <2>1, <2>2 DEF Lose, Answer, Forget
<1>17. ASSUME NEW g \in Grants, ChangeGrant(g) PROVE TypeOK'
  BY <1>17 DEF ChangeGrant
<1>18. CASE SetActive
  BY <1>18 DEF SetActive, NoneRotates
<1>19. CASE Tick
  BY <1>19 DEF Tick
<1>20. CASE UNCHANGED vars
  BY <1>20 DEF vars
<1> QED
  BY <1>1, <1>2, <1>3, <1>4, <1>5, <1>6, <1>7, <1>8, <1>9, <1>10, <1>11,
    <1>12, <1>13, <1>14, <1>15, <1>16, <1>17, <1>18, <1>19, <1>20 DEF Next

\* Holding: an idle client presents the token of its cookie.
LEMMA HoldingStep ==
  ASSUME TypeOK, Holding, [Next]_vars
  PROVE  Holding'
<1> USE ClientAssumption
<1> USE DEF Stages, Replies, TypeOK, Holding, store, user, locals, Family
<1>1. ASSUME NEW r \in Requests, BeginLogin(r) PROVE Holding'
  BY <1>1 DEF BeginLogin, Move, ReadClock, Readings, AllIdle
<1>2. ASSUME NEW r \in Requests, BeginRefresh(r) PROVE Holding'
  BY <1>2 DEF BeginRefresh, Move, Present, ReadClock, Readings, AllIdle
<1>3. ASSUME NEW r \in Requests, BeginLogout(r) PROVE Holding'
  BY <1>3 DEF BeginLogout, Move, Present, AllIdle
<1>4. ASSUME NEW r \in Requests, FindUser(r) PROVE Holding'
  BY <1>4 DEF FindUser, Move, ReadClaims
<1>5. ASSUME NEW r \in Requests, RefuseLogin(r) PROVE Holding'
  BY <1>5 DEF RefuseLogin, Move, Answer, Forget
<1>6. ASSUME NEW r \in Requests, CreateRefreshToken(r) PROVE Holding'
  BY <1>6 DEF CreateRefreshToken, Move, NoneRotates, Sessions!Open
<1>7. ASSUME NEW r \in Requests, CheckToken(r) PROVE Holding'
  BY <1>7 DEF CheckToken, Move, ReadClaims, NoneRotates
<1>8. ASSUME NEW r \in Requests, CommitRotation(r) PROVE Holding'
  BY <1>8 DEF CommitRotation, Move, Sessions!Exchange
<1>9. ASSUME NEW r \in Requests, DetectReuse(r) PROVE Holding'
  BY <1>9 DEF DetectReuse, Move, Answer, Forget, Revoke, Sessions!Close
<1>10. ASSUME NEW r \in Requests, RejectToken(r) PROVE Holding'
  BY <1>10 DEF RejectToken, Move, Answer, Forget
<1>11. ASSUME NEW r \in Requests, Sign(r) PROVE Holding'
  BY <1>11 DEF Sign, Move, Issue, Forget
<1>12. ASSUME NEW r \in Requests, ReadFamily(r) PROVE Holding'
  BY <1>12 DEF ReadFamily, Move
<1>13. ASSUME NEW r \in Requests, CommitLogout(r) PROVE Holding'
  BY <1>13 DEF CommitLogout, Move, Answer, Forget, Revoke, Sessions!Close
<1>14. ASSUME NEW r \in Requests, Fail(r) PROVE Holding'
  BY <1>14 DEF Fail, Move, Answer, Forget
<1>15. ASSUME NEW r \in Requests, Deliver(r) PROVE Holding'
  BY <1>15 DEF Deliver, Move, Answer, Forget
<1>16. ASSUME NEW r \in Requests, Lose(r) PROVE Holding'
  BY <1>16 DEF Lose, Move, Answer, Forget
<1>17. ASSUME NEW g \in Grants, ChangeGrant(g) PROVE Holding'
  BY <1>17 DEF ChangeGrant
<1>18. CASE SetActive
  BY <1>18 DEF SetActive, NoneRotates
<1>19. CASE Tick
  BY <1>19 DEF Tick
<1>20. CASE UNCHANGED vars
  BY <1>20 DEF vars
<1> QED
  BY <1>1, <1>2, <1>3, <1>4, <1>5, <1>6, <1>7, <1>8, <1>9, <1>10, <1>11,
    <1>12, <1>13, <1>14, <1>15, <1>16, <1>17, <1>18, <1>19, <1>20 DEF Next

\* TimesPassed: the clock only moves on.
LEMMA TimesStep ==
  ASSUME TypeOK, TimesPassed, [Next]_vars
  PROVE  TimesPassed'
<1> USE ClientAssumption
<1> USE DEF Stages, Replies, TypeOK, TimesPassed, NoAccess, store, user,
    locals, Family
<1>1. ASSUME NEW r \in Requests, BeginLogin(r) PROVE TimesPassed'
  BY <1>1 DEF BeginLogin, Move, ReadClock, Readings, AllIdle
<1>2. ASSUME NEW r \in Requests, BeginRefresh(r) PROVE TimesPassed'
  BY <1>2 DEF BeginRefresh, Move, Present, ReadClock, Readings, AllIdle
<1>3. ASSUME NEW r \in Requests, BeginLogout(r) PROVE TimesPassed'
  BY <1>3 DEF BeginLogout, Move, Present, AllIdle
<1>4. ASSUME NEW r \in Requests, FindUser(r) PROVE TimesPassed'
  BY <1>4 DEF FindUser, Move, ReadClaims
<1>5. ASSUME NEW r \in Requests, RefuseLogin(r) PROVE TimesPassed'
  BY <1>5 DEF RefuseLogin, Move, Answer, Forget
<1>6. ASSUME NEW r \in Requests, CreateRefreshToken(r) PROVE TimesPassed'
  BY <1>6 DEF CreateRefreshToken, Move, NoneRotates, Sessions!Open
<1>7. ASSUME NEW r \in Requests, CheckToken(r) PROVE TimesPassed'
  BY <1>7 DEF CheckToken, Move, ReadClaims, NoneRotates
<1>8. ASSUME NEW r \in Requests, CommitRotation(r) PROVE TimesPassed'
  BY <1>8 DEF CommitRotation, Move, Sessions!Exchange
<1>9. ASSUME NEW r \in Requests, DetectReuse(r) PROVE TimesPassed'
  BY <1>9 DEF DetectReuse, Move, Answer, Forget, Revoke, Sessions!Close
<1>10. ASSUME NEW r \in Requests, RejectToken(r) PROVE TimesPassed'
  BY <1>10 DEF RejectToken, Move, Answer, Forget
<1>11. ASSUME NEW r \in Requests, Sign(r) PROVE TimesPassed'
  BY <1>11 DEF Sign, Move, Issue, Forget
<1>12. ASSUME NEW r \in Requests, ReadFamily(r) PROVE TimesPassed'
  BY <1>12 DEF ReadFamily, Move
<1>13. ASSUME NEW r \in Requests, CommitLogout(r) PROVE TimesPassed'
  BY <1>13 DEF CommitLogout, Move, Answer, Forget, Revoke, Sessions!Close
<1>14. ASSUME NEW r \in Requests, Fail(r) PROVE TimesPassed'
  BY <1>14 DEF Fail, Move, Answer, Forget
<1>15. ASSUME NEW r \in Requests, Deliver(r) PROVE TimesPassed'
  BY <1>15 DEF Deliver, Move, Answer, Forget
<1>16. ASSUME NEW r \in Requests, Lose(r) PROVE TimesPassed'
  BY <1>16 DEF Lose, Move, Answer, Forget
<1>17. ASSUME NEW g \in Grants, ChangeGrant(g) PROVE TimesPassed'
  BY <1>17 DEF ChangeGrant
<1>18. CASE SetActive
  BY <1>18 DEF SetActive, NoneRotates
<1>19. CASE Tick
  BY <1>19 DEF Tick
<1>20. CASE UNCHANGED vars
  BY <1>20 DEF vars
<1> QED
  BY <1>1, <1>2, <1>3, <1>4, <1>5, <1>6, <1>7, <1>8, <1>9, <1>10, <1>11,
    <1>12, <1>13, <1>14, <1>15, <1>16, <1>17, <1>18, <1>19, <1>20 DEF Next

\* ClaimsTrue: claims are read after the request came, and changes are dated.
LEMMA ClaimsStep ==
  ASSUME TypeOK, TimesPassed, ClaimsTrue, [Next]_vars
  PROVE  ClaimsTrue'
<1> USE ClientAssumption
<1> USE DEF Stages, Replies, TypeOK, TimesPassed, ClaimsTrue, SinceChanged,
    NoAccess, store, user, locals, Family
<1>1. ASSUME NEW r \in Requests, BeginLogin(r) PROVE ClaimsTrue'
  BY <1>1 DEF BeginLogin, Move, ReadClock, Readings, AllIdle
<1>2. ASSUME NEW r \in Requests, BeginRefresh(r) PROVE ClaimsTrue'
  BY <1>2 DEF BeginRefresh, Move, Present, ReadClock, Readings, AllIdle
<1>3. ASSUME NEW r \in Requests, BeginLogout(r) PROVE ClaimsTrue'
  BY <1>3 DEF BeginLogout, Move, Present, AllIdle
<1>4. ASSUME NEW r \in Requests, FindUser(r) PROVE ClaimsTrue'
  BY <1>4 DEF FindUser, Move, ReadClaims
<1>5. ASSUME NEW r \in Requests, RefuseLogin(r) PROVE ClaimsTrue'
  BY <1>5 DEF RefuseLogin, Move, Answer, Forget
<1>6. ASSUME NEW r \in Requests, CreateRefreshToken(r) PROVE ClaimsTrue'
  BY <1>6 DEF CreateRefreshToken, Move, NoneRotates, Sessions!Open
<1>7. ASSUME NEW r \in Requests, CheckToken(r) PROVE ClaimsTrue'
  BY <1>7 DEF CheckToken, Move, ReadClaims, NoneRotates
<1>8. ASSUME NEW r \in Requests, CommitRotation(r) PROVE ClaimsTrue'
  BY <1>8 DEF CommitRotation, Move, Sessions!Exchange
<1>9. ASSUME NEW r \in Requests, DetectReuse(r) PROVE ClaimsTrue'
  BY <1>9 DEF DetectReuse, Move, Answer, Forget, Revoke, Sessions!Close
<1>10. ASSUME NEW r \in Requests, RejectToken(r) PROVE ClaimsTrue'
  BY <1>10 DEF RejectToken, Move, Answer, Forget
<1>11. ASSUME NEW r \in Requests, Sign(r) PROVE ClaimsTrue'
  BY <1>11 DEF Sign, Move, Issue, Forget
<1>12. ASSUME NEW r \in Requests, ReadFamily(r) PROVE ClaimsTrue'
  BY <1>12 DEF ReadFamily, Move
<1>13. ASSUME NEW r \in Requests, CommitLogout(r) PROVE ClaimsTrue'
  BY <1>13 DEF CommitLogout, Move, Answer, Forget, Revoke, Sessions!Close
<1>14. ASSUME NEW r \in Requests, Fail(r) PROVE ClaimsTrue'
  BY <1>14 DEF Fail, Move, Answer, Forget
<1>15. ASSUME NEW r \in Requests, Deliver(r) PROVE ClaimsTrue'
  BY <1>15 DEF Deliver, Move, Answer, Forget
<1>16. ASSUME NEW r \in Requests, Lose(r) PROVE ClaimsTrue'
  BY <1>16 DEF Lose, Move, Answer, Forget
<1>17. ASSUME NEW g \in Grants, ChangeGrant(g) PROVE ClaimsTrue'
  BY <1>17 DEF ChangeGrant
<1>18. CASE SetActive
  BY <1>18 DEF SetActive, NoneRotates
<1>19. CASE Tick
  BY <1>19 DEF Tick
<1>20. CASE UNCHANGED vars
  BY <1>20 DEF vars
<1> QED
  BY <1>1, <1>2, <1>3, <1>4, <1>5, <1>6, <1>7, <1>8, <1>9, <1>10, <1>11,
    <1>12, <1>13, <1>14, <1>15, <1>16, <1>17, <1>18, <1>19, <1>20 DEF Next

\* SessionsOpen: a commit finds the session open, and its end is dated.
LEMMA SessionsStep ==
  ASSUME TypeOK, Holding, TimesPassed, SessionsOpen, [Next]_vars
  PROVE  SessionsOpen'
<1> USE ClientAssumption
<1> USE DEF Stages, Replies, TypeOK, Holding, TimesPassed, SessionsOpen,
    SinceClosed, NoAccess, store, user, locals, Family
<1>1. ASSUME NEW r \in Requests, BeginLogin(r) PROVE SessionsOpen'
  BY <1>1 DEF BeginLogin, Move, ReadClock, Readings, AllIdle
<1>2. ASSUME NEW r \in Requests, BeginRefresh(r) PROVE SessionsOpen'
  BY <1>2 DEF BeginRefresh, Move, Present, ReadClock, Readings, AllIdle
<1>3. ASSUME NEW r \in Requests, BeginLogout(r) PROVE SessionsOpen'
  BY <1>3 DEF BeginLogout, Move, Present, AllIdle
<1>4. ASSUME NEW r \in Requests, FindUser(r) PROVE SessionsOpen'
  BY <1>4 DEF FindUser, Move, ReadClaims
<1>5. ASSUME NEW r \in Requests, RefuseLogin(r) PROVE SessionsOpen'
  BY <1>5 DEF RefuseLogin, Move, Answer, Forget
<1>6. ASSUME NEW r \in Requests, CreateRefreshToken(r) PROVE SessionsOpen'
  BY <1>6 DEF CreateRefreshToken, Move, NoneRotates, Sessions!Open
<1>7. ASSUME NEW r \in Requests, CheckToken(r) PROVE SessionsOpen'
  BY <1>7 DEF CheckToken, Move, ReadClaims, NoneRotates
<1>8. ASSUME NEW r \in Requests, CommitRotation(r) PROVE SessionsOpen'
  BY <1>8 DEF CommitRotation, Move, Sessions!Exchange
<1>9. ASSUME NEW r \in Requests, DetectReuse(r) PROVE SessionsOpen'
  BY <1>9 DEF DetectReuse, Move, Answer, Forget, Revoke, Sessions!Close
<1>10. ASSUME NEW r \in Requests, RejectToken(r) PROVE SessionsOpen'
  BY <1>10 DEF RejectToken, Move, Answer, Forget
<1>11. ASSUME NEW r \in Requests, Sign(r) PROVE SessionsOpen'
  BY <1>11 DEF Sign, Move, Issue, Forget
<1>12. ASSUME NEW r \in Requests, ReadFamily(r) PROVE SessionsOpen'
  BY <1>12 DEF ReadFamily, Move
<1>13. ASSUME NEW r \in Requests, CommitLogout(r) PROVE SessionsOpen'
  BY <1>13 DEF CommitLogout, Move, Answer, Forget, Revoke, Sessions!Close
<1>14. ASSUME NEW r \in Requests, Fail(r) PROVE SessionsOpen'
  BY <1>14 DEF Fail, Move, Answer, Forget
<1>15. ASSUME NEW r \in Requests, Deliver(r) PROVE SessionsOpen'
  BY <1>15 DEF Deliver, Move, Answer, Forget
<1>16. ASSUME NEW r \in Requests, Lose(r) PROVE SessionsOpen'
  BY <1>16 DEF Lose, Move, Answer, Forget
<1>17. ASSUME NEW g \in Grants, ChangeGrant(g) PROVE SessionsOpen'
  BY <1>17 DEF ChangeGrant
<1>18. CASE SetActive
  BY <1>18 DEF SetActive, NoneRotates
<1>19. CASE Tick
  BY <1>19 DEF Tick
<1>20. CASE UNCHANGED vars
  BY <1>20 DEF vars
<1> QED
  BY <1>1, <1>2, <1>3, <1>4, <1>5, <1>6, <1>7, <1>8, <1>9, <1>10, <1>11,
    <1>12, <1>13, <1>14, <1>15, <1>16, <1>17, <1>18, <1>19, <1>20 DEF Next

\* Serial: the only request finds its cookie's token live.
LEMMA SerialStep ==
  ASSUME TypeOK, Holding, Serial, [Next]_vars
  PROVE  Serial'
<1> USE ClientAssumption
<1> USE DEF Stages, Replies, TypeOK, Holding, Serial, OneSession, AllIdle,
    JarOpen, NoneOpen, OnlyOpen, store, user, locals, Family
<1>1. ASSUME NEW r \in Requests, BeginLogin(r) PROVE Serial'
  <2>1. SUFFICES ASSUME serial' PROVE OneSession'
    BY DEF Serial
  <2>2. serial /\ AllIdle /\ jar = NoToken
    BY <1>1, <2>1 DEF BeginLogin
  <2>3. \A q \in Requests : stage'[q] # "idle" => q = r
    BY <1>1, <2>2 DEF BeginLogin, Move
  <2> QED
    BY <1>1, <2>2, <2>3 DEF BeginLogin, Move
<1>2. ASSUME NEW r \in Requests, BeginRefresh(r) PROVE Serial'
  <2>1. SUFFICES ASSUME serial' PROVE OneSession'
    BY DEF Serial
  <2>2. serial /\ AllIdle /\ jar # NoToken
    BY <1>2, <2>1 DEF BeginRefresh, Present
  <2>3. \A q \in Requests : stage'[q] # "idle" => q = r
    BY <1>2, <2>2 DEF BeginRefresh, Move, Present
  <2> QED
    BY <1>2, <2>2, <2>3 DEF BeginRefresh, Move, Present
<1>3. ASSUME NEW r \in Requests, BeginLogout(r) PROVE Serial'
  <2>1. SUFFICES ASSUME serial' PROVE OneSession'
    BY DEF Serial
  <2>2. serial /\ AllIdle /\ jar # NoToken
    BY <1>3, <2>1 DEF BeginLogout, Present
  <2>3. \A q \in Requests : stage'[q] # "idle" => q = r
    BY <1>3, <2>2 DEF BeginLogout, Move, Present
  <2> QED
    BY <1>3, <2>2, <2>3 DEF BeginLogout, Move, Present
<1>4. ASSUME NEW r \in Requests, FindUser(r) PROVE Serial'
  BY <1>4 DEF FindUser, Move, ReadClaims
<1>5. ASSUME NEW r \in Requests, RefuseLogin(r) PROVE Serial'
  BY <1>5 DEF RefuseLogin, Move, Answer, Forget
<1>6. ASSUME NEW r \in Requests, CreateRefreshToken(r) PROVE Serial'
  BY <1>6 DEF CreateRefreshToken, Move, NoneRotates, Sessions!Open
<1>7. ASSUME NEW r \in Requests, CheckToken(r) PROVE Serial'
  BY <1>7 DEF CheckToken, Move, ReadClaims, NoneRotates
<1>8. ASSUME NEW r \in Requests, CommitRotation(r) PROVE Serial'
  BY <1>8 DEF CommitRotation, Move, Sessions!Exchange
<1>9. ASSUME NEW r \in Requests, DetectReuse(r) PROVE Serial'
  BY <1>9 DEF DetectReuse, Move, Answer, Forget, Revoke, Sessions!Close
<1>10. ASSUME NEW r \in Requests, RejectToken(r) PROVE Serial'
  BY <1>10 DEF RejectToken, Move, Answer, Forget
<1>11. ASSUME NEW r \in Requests, Sign(r) PROVE Serial'
  BY <1>11 DEF Sign, Move, Issue, Forget
<1>12. ASSUME NEW r \in Requests, ReadFamily(r) PROVE Serial'
  <2>1. SUFFICES ASSUME serial' PROVE OneSession'
    BY DEF Serial
  <2>2. stage[r] = "leaving" /\ serial
    BY <1>12, <2>1 DEF ReadFamily, Move
  <2>3. token[r] = jar /\ OnlyOpen(jar)
    BY <2>2
  <2>4. token' = token
    BY <1>12, <2>3 DEF ReadFamily
  <2>5. /\ stage' = [stage EXCEPT ![r] = "revoking"]
        /\ UNCHANGED <<live, seen, family, jar>>
    BY <1>12 DEF ReadFamily, Move
  <2> QED
    BY <2>2, <2>3, <2>4, <2>5
<1>13. ASSUME NEW r \in Requests, CommitLogout(r) PROVE Serial'
  BY <1>13 DEF CommitLogout, Move, Answer, Forget, Revoke, Sessions!Close
<1>14. ASSUME NEW r \in Requests, Fail(r) PROVE Serial'
  BY <1>14 DEF Fail, Move, Answer, Forget
<1>15. ASSUME NEW r \in Requests, Deliver(r) PROVE Serial'
  BY <1>15 DEF Deliver, Move, Answer, Forget
<1>16. ASSUME NEW r \in Requests, Lose(r) PROVE Serial'
  BY <1>16 DEF Lose, Move, Answer, Forget
<1>17. ASSUME NEW g \in Grants, ChangeGrant(g) PROVE Serial'
  BY <1>17 DEF ChangeGrant
<1>18. CASE SetActive
  BY <1>18 DEF SetActive, NoneRotates
<1>19. CASE Tick
  BY <1>19 DEF Tick
<1>20. CASE UNCHANGED vars
  BY <1>20 DEF vars
<1> QED
  BY <1>1, <1>2, <1>3, <1>4, <1>5, <1>6, <1>7, <1>8, <1>9, <1>10, <1>11,
    <1>12, <1>13, <1>14, <1>15, <1>16, <1>17, <1>18, <1>19, <1>20 DEF Next

-----------------------------------------------------------------------------
(* Theorems.                                                               *)

\* IInv is inductive.
THEOREM IInvHolds == Spec => []IInv
<1>1. IInv /\ [Next]_vars => IInv'
  BY TypeStep, HoldingStep, TimesStep, ClaimsStep, SessionsStep, SerialStep DEF IInv
<1> QED
  BY InitIInv, <1>1, PTL DEF Spec

\* Every value has its type, and every token the family it was stored with.
THEOREM TypeCorrect == Spec => []TypeOK
<1>1. IInv => TypeOK
  BY DEF IInv
<1> QED
  BY IInvHolds, <1>1, PTL

\* Logout and reuse detection end access within the lifetime of a token, as
\* seen by every instance.
THEOREM SessionEndsAccess == Spec => []AccessEndsWithSession
<1>1. IInv => AccessEndsWithSession
  BY ClientAssumption DEF IInv, TypeOK, SessionsOpen, SinceClosed, AccessEndsWithSession,
    Authenticates, Settled, Readings
<1> QED
  BY IInvHolds, <1>1, PTL

\* So does deactivation, whatever login overlooked it.
THEOREM DeactivationEndsAccess == Spec => []AccessEndsWithUser
<1>1. IInv => AccessEndsWithUser
  BY ClientAssumption DEF IInv, TypeOK, ClaimsTrue, SinceChanged, AccessEndsWithUser,
    Authenticates, Settled, Readings
<1> QED
  BY IInvHolds, <1>1, PTL

\* No decision is older than the lifetime of a token.
THEOREM RecentDecisions == Spec => []DecisionsAreRecent
<1>1. IInv => DecisionsAreRecent
  BY ClientAssumption DEF IInv, TypeOK, ClaimsTrue, SinceChanged, DecisionsAreRecent,
    Authorizes, Authenticates, Settled, Readings
<1> QED
  BY IInvHolds, <1>1, PTL

\* One request at a time, every answer received: the cookie holds the live
\* token of the only open session.
THEOREM SerialClientSafe == Spec => []SerialClientKeepsSession
<1>1. IInv => SerialClientKeepsSession
  BY ClientAssumption DEF IInv, TypeOK, Serial, OneSession, JarOpen, NoneOpen, OnlyOpen, AllIdle,
    SerialClientKeepsSession
<1> QED
  BY IInvHolds, <1>1, PTL
=============================================================================
