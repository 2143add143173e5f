----------------------------- MODULE MCDeployment -----------------------------
(* The environments of the run of Deployment.                                *)
EXTENDS Deployment

Development ==
  [ appEnv |-> Unset, timeout |-> Unset, database |-> FALSE, url |-> Unset,
    maxConns |-> Unset, minConns |-> Unset, migrate |-> Unset, origins |-> Unset,
    refreshTTL |-> Unset, identity |-> Unset, secret |-> 0, keys |-> "unreadable" ]

Compose ==
  [ Development EXCEPT !.database = TRUE, !.url = "postgres", !.migrate = TRUE,
      !.identity = "plain", !.secret = 32, !.keys = "pair" ]

InProduction ==
  [ Compose EXCEPT !.appEnv = "PRODUCTION", !.migrate = FALSE, !.origins = "listed" ]

Settings ==
  [ appEnv |-> {Unset, "test", "staging", "PRODUCTION"}, timeout |-> {Unset, Junk, 0, 1},
    database |-> {Unset, Junk, TRUE, FALSE}, url |-> {Unset, "postgres"},
    maxConns |-> {Unset, Junk, 0, 1}, minConns |-> {Unset, Junk, -1, 0, 2, 11},
    migrate |-> {Unset, Junk, TRUE, FALSE}, origins |-> {Unset, Junk, "listed"},
    refreshTTL |-> {Unset, Junk, 0, 6, 7, 30, 31},
    identity |-> {Unset, "plain", "with spaces"}, secret |-> {0, 31, 32},
    keys |-> {"unreadable", "mismatch", "pair"} ]

\* Three typical environments and all that differ from one in a setting.
MCEnvs ==
  UNION { { [b EXCEPT ![k] = v] : v \in Settings[k] } :
          b \in {Development, Compose, InProduction}, k \in DOMAIN Settings }
=============================================================================
