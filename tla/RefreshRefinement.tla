-------------------------- MODULE RefreshRefinement --------------------------
(***************************************************************************)
(* RefreshSessions, with its transactions, locks and failures, implements  *)
(* TokenFamilies.  Only committed rows count: a family is unopened until   *)
(* it has a row, closed when none of its rows is current.                  *)
(***************************************************************************)
EXTENDS RefreshSessions

CONSTANTS Unopened, Closed

ASSUME SessionValuesAssumption ==
  /\ Unopened \notin Tokens
  /\ Closed \notin Tokens
  /\ Unopened # Closed

SessionOf(f) ==
  IF FamilyRows(f) = {} THEN Unopened
  ELSE IF LiveIn(f) = {} THEN Closed
  ELSE CHOOSE t \in LiveIn(f) : TRUE

Families == INSTANCE TokenFamilies
              WITH live <- [f \in Tokens |-> SessionOf(f)], seen <- stored

\* The store keeps the promise of TokenFamilies through every interleaving,
\* rollback and lost reply: a spent token never becomes current again, and a
\* session without a current token never gets one.
ImplementsTokenFamilies == Families!Spec
=============================================================================
