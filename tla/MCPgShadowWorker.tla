-------------------------- MODULE MCPgShadowWorker --------------------------
(***************************************************************************)
(* Instances of PgShadowWorker for TLC; the .cfg files give the bounds.    *)
(***************************************************************************)
EXTENDS PgShadowWorker
=============================================================================
