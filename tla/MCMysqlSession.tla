--------------------------- MODULE MCMysqlSession ---------------------------
(***************************************************************************)
(* Instances of MysqlSession for TLC; the .cfg files choose the commands.  *)
(***************************************************************************)
EXTENDS MysqlSession
=============================================================================
