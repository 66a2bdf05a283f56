---------------------------- MODULE RatingFilter ----------------------------
(***************************************************************************)
(* The rating filter of galleries and of files: internal/server/           *)
(* filtering.go and types.RatingFilter.  A filter has a lower and an upper *)
(* bound, of which 0 is none, and says what becomes of what has no rating. *)
(* Three cookies keep the bounds and the choice for the pages whose URL    *)
(* does not mention them.                                                  *)
(*                                                                         *)
(* The filter becomes a clause of a WHERE, where a comparison with NULL is *)
(* neither true nor false.                                                 *)
(***************************************************************************)
EXTENDS Integers

CONSTANT Best   \* the highest rating: 5

ASSUME BestAssumption == Best \in Nat

Ratings == 1..Best
\* A local_rating that is NULL.
Unrated == 0

\* What becomes of what has no rating: the first is "" in the code.
Choices == {"include", "exclude", "only"}
RatingFilters == [min : 0..Best, max : 0..Best, unrated : Choices]
NoFilter == [min |-> 0, max |-> 0, unrated |-> "include"]

\* The query of a URL: of the parameters that are in it, the rating or the choice
\* they name; one that does not parse is cleared, to 0 or "include".
Parameters == {"min", "max", "unrated"}
IsQuery(q) ==
  /\ DOMAIN q \subseteq Parameters
  /\ \A p \in DOMAIN q : q[p] \in IF p = "unrated" THEN Choices ELSE 0..Best
NoParameters == [p \in {} |-> 0]

-----------------------------------------------------------------------------
(***************************************************************************)
(* What a request is filtered by, and the cookies its response leaves.     *)
(***************************************************************************)
WrongWayRound(rf) == rf.min > 0 /\ rf.max > 0 /\ rf.min > rf.max

Ordered(rf) ==
  IF WrongWayRound(rf) THEN [rf EXCEPT !.min = rf.max, !.max = rf.min] ELSE rf

getRatingFilterWithPrefix(q, cookies) ==
  Ordered([p \in Parameters |-> IF p \in DOMAIN q THEN q[p] ELSE cookies[p]])

\* Mutant: a parameter that is cleared leaves its cookie.
CookiesAfterIfSet(q, cookies) ==
  [p \in Parameters |->
     IF p \in DOMAIN q /\ q[p] # NoFilter[p] THEN q[p] ELSE cookies[p]]

\* The cookies of the bounds are set as they were given, the wrong way round if
\* need be; a parameter that says nothing removes its cookie.
CookiesAfter(q, cookies) ==
  [p \in Parameters |->
     CASE p \notin DOMAIN q                         -> cookies[p]
       [] p \in DOMAIN q /\ q[p] # NoFilter[p]      -> q[p]
       [] p \in DOMAIN q /\ q[p] = NoFilter[p]      -> NoFilter[p]]

Active(rf) == rf.min > 0 \/ rf.max > 0 \/ rf.unrated # "include"

-----------------------------------------------------------------------------
(***************************************************************************)
(* The clause, as SQL evaluates it.                                        *)
(***************************************************************************)
Truth(b) == IF b THEN "true" ELSE "false"
AtLeast(rating, n) == IF rating = Unrated THEN "null" ELSE Truth(rating >= n)
AtMost(rating, n) == IF rating = Unrated THEN "null" ELSE Truth(rating <= n)

SqlAnd(a, b) ==
  IF "false" \in {a, b} THEN "false" ELSE IF "null" \in {a, b} THEN "null" ELSE "true"

SqlOr(a, b) ==
  IF "true" \in {a, b} THEN "true" ELSE IF "null" \in {a, b} THEN "null" ELSE "false"

RangeClause(rf, rating) ==
  CASE rf.min > 0 /\ rf.max > 0 -> SqlAnd(AtLeast(rating, rf.min), AtMost(rating, rf.max))
    [] rf.min > 0 /\ rf.max = 0 -> AtLeast(rating, rf.min)
    [] OTHER                    -> AtMost(rating, rf.max)

\* Mutant: the bounds apply to what is rated and to what is not.
ratingFilterSQLStrict(rf, rating) ==
  CASE rf.unrated = "only"  -> Truth(rating = Unrated)
    [] rf.unrated # "only" /\ rf.min = 0 /\ rf.max = 0 -> "true"
    [] OTHER                -> RangeClause(rf, rating)

ratingFilterSQL(rf, rating) ==
  CASE rf.unrated = "only" -> Truth(rating = Unrated)
    [] rf.unrated # "only" /\ rf.min = 0 /\ rf.max = 0 ->
         IF rf.unrated = "exclude" THEN Truth(rating # Unrated) ELSE "true"
    [] OTHER ->
         IF rf.unrated = "exclude"
         THEN RangeClause(rf, rating)
         ELSE SqlOr(RangeClause(rf, rating), Truth(rating = Unrated))

\* A row is kept when the clause is true: not when it is NULL.
Passes(rf, rating) == ratingFilterSQL(rf, rating) = "true"

-----------------------------------------------------------------------------
\* What the filter's form offers: a range, either end of which may be open,
\* and of what has no rating to include it, to exclude it, or nothing else.
Wanted(rf, rating) ==
  IF rating = Unrated
  THEN rf.unrated # "exclude"
  ELSE /\ rf.unrated # "only"
       /\ rf.min = 0 \/ rating >= rf.min
       /\ rf.max = 0 \/ rating <= rf.max
=============================================================================
