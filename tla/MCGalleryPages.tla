--------------------------- MODULE MCGalleryPages ---------------------------
(***************************************************************************)
(* Three files, the last of which is a video.  The sort keys may be 0.     *)
(***************************************************************************)
EXTENDS GalleryPages

MCTypeOf == [f \in Files |-> IF f = 3 THEN "video" ELSE "image"]

MCFilters == {NoFilter, [NoFilter EXCEPT !.unrated = "only"]}

MCKeyValues == {Null, 0, 1}
=============================================================================
