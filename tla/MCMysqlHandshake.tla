-------------------------- MODULE MCMysqlHandshake --------------------------
(***************************************************************************)
(* MysqlHandshake has no constants: TLC checks all of it, for every choice *)
(* of TLS on either side and of the client's capabilities.                 *)
(***************************************************************************)
EXTENDS MysqlHandshake
=============================================================================
