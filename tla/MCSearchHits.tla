---------------------------- MODULE MCSearchHits ----------------------------
(***************************************************************************)
(* SearchHits for two callers, a well-formed and a malformed query in both *)
(* tables, and a clock that runs long enough for a row to be counted, to   *)
(* wait for its insertion, to expire and to be asked for once more.        *)
(***************************************************************************)
EXTENDS SearchHits
=============================================================================
