--------------------------- MODULE MCShadowWorker ---------------------------
(***************************************************************************)
(* Instances of ShadowWorker for TLC; the .cfg files give the two bounds.  *)
(* A queue of two and three requests let the queue fill before the worker  *)
(* takes the first, drop the third, and be drained with two requests       *)
(* behind the one in flight; a request can leave a rest to two others.     *)
(***************************************************************************)
EXTENDS ShadowWorker
=============================================================================
