---------------------------- MODULE MCPgSession -----------------------------
(***************************************************************************)
(* Instances of PgSession for TLC; the .cfg files choose the frames.       *)
(***************************************************************************)
EXTENDS PgSession
=============================================================================
