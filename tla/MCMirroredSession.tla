-------------------------- MODULE MCMirroredSession -------------------------
(***************************************************************************)
(* MirroredSession for TLC: two databases, one statement text and a queue  *)
(* of one request.                                                         *)
(***************************************************************************)
EXTENDS MirroredSession
=============================================================================
