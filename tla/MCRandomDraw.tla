----------------------------- MODULE MCRandomDraw -----------------------------
(***************************************************************************)
(* Up to three galleries and files, with gaps between their ids, and two   *)
(* filters.                                                                *)
(***************************************************************************)
EXTENDS RandomDraw

MCFilters == {NoFilter, [NoFilter EXCEPT !.min = 1, !.unrated = "exclude"]}
=============================================================================
