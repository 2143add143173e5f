--------------------------- MODULE MCSessionClients ---------------------------
(* Symmetry and the initial states of the run of SessionClients.             *)
EXTENDS SessionClients, TLC

\* Requests and refresh tokens are interchangeable.
Symmetry == Permutations(Requests) \cup Permutations(Tokens)

\* The user starts with every grant; a change then takes one away.
MCInit == Init /\ granted = Grants
MCSpec == MCInit /\ [][Next]_vars
=============================================================================
