---------------------------- MODULE MCLifecycle -----------------------------
(***************************************************************************)
(* Two runs in one directory, with plans of up to two states.              *)
(***************************************************************************)
EXTENDS Lifecycle
=============================================================================
