----------------------------- MODULE MCListings -----------------------------
(***************************************************************************)
(* Three galleries on pages of one, and a choice of filters with one whose *)
(* bounds are the wrong way round.                                         *)
(***************************************************************************)
EXTENDS Listings

Form(min, max, unrated) ==
  [p \in Parameters |->
     CASE p = "min" -> min [] p = "max" -> max [] p = "unrated" -> unrated]

MCQueries == {Form(0, 0, "only"), Form(2, 1, "exclude"), Form(0, 1, "include")}

MCHoldings == {{}, {Unavailable}, {"image"}}
=============================================================================
