-------------------------- MODULE MCServerLifecycle --------------------------
(***************************************************************************)
(* Two servers after the same port, and one browser connection each.       *)
(***************************************************************************)
EXTENDS ServerLifecycle
=============================================================================
