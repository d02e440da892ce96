--------------------------- MODULE MCQueryLogger ----------------------------
(***************************************************************************)
(* Instances of QueryLogger for TLC.  A buffer and a batch of two with     *)
(* five entries let the buffer overflow, batches fill and entries arrive   *)
(* during every step of the shutdown.                                      *)
(***************************************************************************)
EXTENDS QueryLogger
=============================================================================
