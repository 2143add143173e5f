---------------------------- MODULE Configuration ----------------------------
(***************************************************************************)
(* What the programs make of their environment: which settings Load        *)
(* accepts, what further ones the API insists on, and whether the          *)
(* authentication service that comes out of them is available.             *)
(*                                                                         *)
(* An environment is a record of settings.  Unset stands for a variable    *)
(* that is absent or blank, Junk for text the setting's parser rejects.    *)
(* Settings that are treated alike are one field: timeout is every         *)
(* duration but the refresh token's, which is in days; identity is the     *)
(* paths of the keys, their id, the issuer and the audience; secret is a   *)
(* length in bytes; keys is what the key files hold.                       *)
(***************************************************************************)
EXTENDS Integers

CONSTANTS Unset, Junk

Defaults ==
  [ appEnv |-> "development", timeout |-> 5, database |-> TRUE, url |-> Unset,
    maxConns |-> 10, minConns |-> 1, migrate |-> FALSE, origins |-> "none",
    refreshTTL |-> 30, identity |-> Unset, secret |-> 0, keys |-> "unreadable" ]

\* The settings whose parsers are stricter than Validate.
ParsesDurations(e) ==
  /\ e.timeout # Unset => e.timeout > 0
  /\ e.refreshTTL # Unset => e.refreshTTL > 0

\* envOrDefault, boolEnv, int32Env, durationEnv, originsEnv.
Parses(e) == (\A k \in DOMAIN e : e[k] # Junk) /\ ParsesDurations(e)

Lower(name) == IF name = "PRODUCTION" THEN "production" ELSE name

Config(e) ==
  [ [k \in DOMAIN Defaults |-> IF e[k] = Unset THEN Defaults[k] ELSE e[k]]
    EXCEPT !.appEnv = Lower(@) ]

\* Names with a default cannot be blank here, which Validate checks as well.
Validate(c) ==
  /\ c.appEnv \in {"development", "test", "production"}
  /\ c.timeout > 0
  /\ c.maxConns > 0
  /\ 0 <= c.minConns /\ c.minConns <= c.maxConns
  /\ c.database => c.url # Unset
  /\ c.migrate => c.database /\ c.appEnv # "production"
  /\ 7 <= c.refreshTTL /\ c.refreshTTL <= 30

Loads(e) == Parses(e) /\ Validate(Config(e))

\* Mutant of ValidateAuthRuntime: one byte less will do.
ValidateShortSecret(c) ==
  c.database => /\ c.identity \notin {Unset, "with spaces"}
                /\ c.secret >= 31

ValidateAuthRuntime(c) ==
  c.database => /\ c.identity \notin {Unset, "with spaces"}
                /\ c.secret >= 32

\* Only with a database: the private key is an Ed25519 key, and the public key
\* its own.
LoadsTokenManager(c) == c.database => c.keys = "pair"

MigrationURLRequired(c) == c.url # Unset

\* Service.Available, of the service run() builds: it has a repository and a
\* token manager if there is a database.
Available(c) == c.database /\ c.secret >= 32

CookieSecure(c) == c.appEnv = "production"
=============================================================================
