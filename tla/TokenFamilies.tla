--------------------------- MODULE TokenFamilies ---------------------------
(***************************************************************************)
(* What the refresh-token store promises, with no transactions, locks or   *)
(* requests in sight: a session is one token family; a family is opened by *)
(* a login, holds exactly one live token while it is open, exchanges that  *)
(* token for one never seen before at each refresh, and once closed (by a  *)
(* detected reuse or a logout) stays closed.                               *)
(*                                                                         *)
(* A family is named by the token its login issued.  The service draws the *)
(* family id and the first token together, both fresh, so the two name     *)
(* the same thing.                                                         *)
(***************************************************************************)

CONSTANTS
  Tokens,      \* refresh tokens (their hashes)
  Unopened,    \* a family no login has opened
  Closed       \* a family without a live token

VARIABLES
  live,        \* live[f]: the one token family f accepts, Unopened or Closed
  seen         \* tokens ever handed out

vars == <<live, seen>>

Init ==
  /\ live = [f \in Tokens |-> Unopened]
  /\ seen = {}

\* A login opens a family with its first token.
Open(f) ==
  /\ live[f] = Unopened
  /\ f \notin seen
  /\ live' = [live EXCEPT ![f] = f]
  /\ seen' = seen \cup {f}

\* A refresh spends the live token of f and hands out t in its place.
Exchange(f, t) ==
  /\ live[f] \in Tokens
  /\ t \notin seen
  /\ live' = [live EXCEPT ![f] = t]
  /\ seen' = seen \cup {t}

\* A reused token or a logout ends the session.
Close(f) ==
  /\ live[f] \in Tokens
  /\ live' = [live EXCEPT ![f] = Closed]
  /\ UNCHANGED seen

Next ==
  \E f \in Tokens :
    \/ Open(f)
    \/ \E t \in Tokens : Exchange(f, t)
    \/ Close(f)

Spec == Init /\ [][Next]_vars
=============================================================================
