---------------------------- MODULE MCTaskScopes ----------------------------
(* Model checking of TaskScopes; the constants are set in the cfg files.    *)
EXTENDS TaskScopes
=============================================================================
