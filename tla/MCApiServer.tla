----------------------------- MODULE MCApiServer -----------------------------
(* The run of ApiServer.  Its liveness properties rule symmetry out.        *)
EXTENDS ApiServer, TLC
=============================================================================
