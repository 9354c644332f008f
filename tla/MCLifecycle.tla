---------------------------- MODULE MCLifecycle -----------------------------
(***************************************************************************)
(* Lifecycle with two requests, a Redis cache and a rules folder; the two  *)
(* requests are alike.                                                     *)
(***************************************************************************)
EXTENDS Lifecycle, TLC
=============================================================================
