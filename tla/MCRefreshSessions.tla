-------------------------- MODULE MCRefreshSessions --------------------------
(* Model values and symmetry for the runs of RefreshSessions.               *)
EXTENDS RefreshRefinement, TLC

\* Users, requests and tokens are interchangeable: no definition names one.
Symmetry == Permutations(Users) \cup Permutations(Requests) \cup Permutations(Tokens)

\* Symmetry is unsound for liveness.  With tokens that are numbers, storing
\* the least fresh one instead of any leaves out only renamings.
StoreInOrder ==
  \A c \in stored' \ stored : \A d \in FreshTokens : c <= d
=============================================================================
