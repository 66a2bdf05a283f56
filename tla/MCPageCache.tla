----------------------------- MODULE MCPageCache -----------------------------
(***************************************************************************)
(* The pages visited in the runs of PageCache: a gallery whose link names  *)
(* a file type, and a file page that goes by the cookies; for the rail, a  *)
(* gallery whose link names a sort order.  The exchanges are symmetric.    *)
(***************************************************************************)
EXTENDS PageCache, TLC

FilterUrls ==
  {[path |-> "gallery", sort |-> None, type |-> "image"],
   [path |-> "file", sort |-> None, type |-> None]}

SortUrls ==
  {[path |-> "gallery", sort |-> "bytes", type |-> None],
   [path |-> "file", sort |-> None, type |-> None]}

Symmetry == Permutations(Exchanges)
=============================================================================
