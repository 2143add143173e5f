----------------------------- MODULE SchemaLevels -----------------------------
(***************************************************************************)
(* What anybody may rely on who looks at a database that is migrated, from *)
(* Go or with psql.  It has the first so many migrations, without a gap.   *)
(* A version that is not dirty says how many.  One that is dirty is off by *)
(* at most the one migration that was under way, up or down, which is done *)
(* as a whole or not at all; unless somebody is at work, it stays so until *)
(* an operator has looked at the schema.                                   *)
(***************************************************************************)
EXTENDS Integers

CONSTANT Last   \* the migrations are 1 .. Last

VARIABLES
  present,   \* the migrations the schema has
  recorded,  \* the version in schema_migrations
  dirty,     \* and its flag
  working    \* somebody is migrating

vars == <<present, recorded, dirty, working>>

Init == present = {} /\ recorded = 0 /\ dirty = FALSE /\ working = FALSE

Begin ==
  /\ ~ working /\ ~ dirty
  /\ working' = TRUE
  /\ UNCHANGED <<present, recorded, dirty>>

\* The next migration up or down is announced before it is executed.
Announce ==
  /\ working /\ ~ dirty
  /\ recorded' \in {recorded - 1, recorded + 1} \cap 0 .. Last
  /\ dirty' = TRUE
  /\ UNCHANGED <<present, working>>

\* The one announced, once, and no other.
Execute ==
  /\ working /\ dirty
  /\ present # 1 .. recorded
  /\ present' = 1 .. recorded
  /\ UNCHANGED <<recorded, dirty, working>>

Complete ==
  /\ working /\ dirty
  /\ present = 1 .. recorded
  /\ dirty' = FALSE
  /\ UNCHANGED <<present, recorded, working>>

\* Done, failed or killed, at any point.
End ==
  /\ working
  /\ working' = FALSE
  /\ UNCHANGED <<present, recorded, dirty>>

\* The operator records what is there.
Resolve ==
  /\ ~ working /\ dirty
  /\ recorded' \in 0 .. Last
  /\ present = 1 .. recorded'
  /\ dirty' = FALSE
  /\ UNCHANGED <<present, working>>

Next == Begin \/ Announce \/ Execute \/ Complete \/ End \/ Resolve

Spec == Init /\ [][Next]_vars
===============================================================================
