--------------------------- MODULE MCTemplateUpdate ---------------------------
(* Model values and symmetry for the runs of TemplateUpdate.                *)
EXTENDS TemplateUpdate, TLC

CONSTANTS core, routes

\* A commit changes both files.
MCEdits == {{core, routes}}

\* Runs of the workflow are interchangeable.
Symmetry == Permutations(Workflows)
=============================================================================
