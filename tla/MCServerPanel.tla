---------------------------- MODULE MCServerPanel ----------------------------
(***************************************************************************)
(* The panel with two starts, so that what is left of the first server     *)
(* meets the second one, and one browser connection to each.               *)
(***************************************************************************)
EXTENDS ServerPanel
=============================================================================
