------------------------------ MODULE MCClient ------------------------------
(* The connection manager of one client, model-checked on its own. *)
EXTENDS Client
=============================================================================
