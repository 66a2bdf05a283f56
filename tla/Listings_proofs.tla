--------------------------- MODULE Listings_proofs ---------------------------
(***************************************************************************)
(* What holds of the rating filter and of the lists of galleries for any   *)
(* ratings, galleries, queries and page size.                              *)
(***************************************************************************)
EXTENDS Listings, Paging_proofs

\* The SQL clause, evaluated with NULL, keeps what the filter's form asks for.
THEOREM ClauseKeepsTheWanted ==
  ASSUME NEW rf \in RatingFilters, NEW r \in {Unrated} \union Ratings
  PROVE  Passes(rf, r) <=> Wanted(rf, r)
<1> DEFINE InRange == (rf.min = 0 \/ r >= rf.min) /\ (rf.max = 0 \/ r <= rf.max)
<1>1. /\ rf.min \in Nat /\ rf.max \in Nat
      /\ r \in Nat
      /\ rf.unrated \in Choices
  <2>1. rf.min \in 0..Best /\ rf.max \in 0..Best /\ rf.unrated \in Choices
    BY DEF RatingFilters, Choices
  <2>2. r \in {0} \union 1..Best
    BY DEF Ratings, Unrated
  <2> QED BY <2>1, <2>2, BestAssumption
<1> HIDE DEF InRange
<1>2. CASE rf.unrated = "only"
  BY <1>2 DEF Passes, Wanted, ratingFilterSQL, Truth
<1>3. CASE rf.unrated # "only" /\ rf.min = 0 /\ rf.max = 0
  <2>1. InRange
    BY <1>3 DEF InRange
  <2> QED BY <1>1, <1>3, <2>1 DEF Passes, Wanted, ratingFilterSQL, Truth, InRange
<1>4. CASE rf.unrated # "only" /\ ~(rf.min = 0 /\ rf.max = 0)
  <2>1. ratingFilterSQL(rf, r) =
          IF rf.unrated = "exclude" THEN RangeClause(rf, r)
          ELSE SqlOr(RangeClause(rf, r), Truth(r = Unrated))
    BY <1>4 DEF ratingFilterSQL
  <2>2. CASE r = Unrated
    <3>1. RangeClause(rf, r) = "null"
      BY <2>2 DEF RangeClause, AtLeast, AtMost, SqlAnd
    <3>2. SqlOr("null", "true") = "true"
      BY DEF SqlOr
    <3>3. Truth(r = Unrated) = "true"
      BY <2>2 DEF Truth
    <3>4. ratingFilterSQL(rf, r) = IF rf.unrated = "exclude" THEN "null" ELSE "true"
      BY <2>1, <3>1, <3>2, <3>3
    <3> QED BY <2>2, <3>4 DEF Passes, Wanted
  <2>3. CASE r # Unrated
    <3>1. RangeClause(rf, r) = Truth(InRange)
      <4>1. CASE rf.min > 0 /\ rf.max > 0
        <5>1. RangeClause(rf, r) = SqlAnd(Truth(r >= rf.min), Truth(r <= rf.max))
          BY <4>1, <2>3 DEF RangeClause, AtLeast, AtMost
        <5>2. InRange <=> r >= rf.min /\ r <= rf.max
          BY <1>1, <4>1 DEF InRange
        <5> QED BY <5>1, <5>2 DEF SqlAnd, Truth
      <4>2. CASE rf.min > 0 /\ rf.max = 0
        <5>1. RangeClause(rf, r) = Truth(r >= rf.min)
          BY <1>1, <4>2, <2>3 DEF RangeClause, AtLeast
        <5>2. InRange <=> r >= rf.min
          BY <1>1, <4>2 DEF InRange
        <5> QED BY <5>1, <5>2 DEF Truth
      <4>3. CASE rf.min = 0 /\ rf.max > 0
        <5>1. RangeClause(rf, r) = Truth(r <= rf.max)
          BY <1>1, <4>3, <2>3 DEF RangeClause, AtMost
        <5>2. InRange <=> r <= rf.max
          BY <1>1, <4>3 DEF InRange
        <5> QED BY <5>1, <5>2 DEF Truth
      <4> QED BY <1>1, <1>4, <4>1, <4>2, <4>3
    <3>2. Truth(r = Unrated) = "false"
      BY <2>3 DEF Truth
    <3>3. SqlOr(Truth(InRange), "false") = Truth(InRange)
      BY DEF SqlOr, Truth
    <3>4. ratingFilterSQL(rf, r) = Truth(InRange)
      BY <2>1, <3>1, <3>2, <3>3
    <3>5. Truth(InRange) = "true" <=> InRange
      BY DEF Truth
    <3> QED BY <1>4, <2>3, <3>4, <3>5 DEF Passes, Wanted, InRange
  <2> QED BY <2>2, <2>3
<1> QED BY <1>1, <1>2, <1>3, <1>4

-----------------------------------------------------------------------------
LEMMA FiltersAreFunctions ==
  ASSUME NEW f, f = [p \in Parameters |-> f[p]],
         f["min"] \in 0..Best, f["max"] \in 0..Best,
         f["unrated"] \in Choices
  PROVE  f \in RatingFilters
BY DEF Parameters, RatingFilters

\* The filter of a request is one, and so are the cookies it leaves.
LEMMA FilterTypes ==
  ASSUME NEW q, IsQuery(q), NEW c \in RatingFilters
  PROVE  /\ getRatingFilterWithPrefix(q, c) \in RatingFilters
         /\ CookiesAfter(q, c) \in RatingFilters
BY FiltersAreFunctions DEF IsQuery, getRatingFilterWithPrefix, Ordered, WrongWayRound,
   CookiesAfter, NoFilter, Parameters, RatingFilters

\* A URL that says nothing of the filter gets the filter of the request before it.
LEMMA DefaultIsTheLast ==
  ASSUME NEW q, IsQuery(q), NEW c \in RatingFilters
  PROVE  getRatingFilterWithPrefix(NoParameters, CookiesAfter(q, c))
           = getRatingFilterWithPrefix(q, c)
<1> DEFINE asked == [p \in Parameters |-> IF p \in DOMAIN q THEN q[p] ELSE c[p]]
<1>1. \A p \in Parameters : CookiesAfter(q, c)[p] = asked[p]
  BY DEF CookiesAfter
<1>2. [p \in Parameters |->
         IF p \in DOMAIN NoParameters THEN NoParameters[p] ELSE CookiesAfter(q, c)[p]]
        = asked
  BY <1>1 DEF NoParameters
<1> QED BY <1>2 DEF getRatingFilterWithPrefix

-----------------------------------------------------------------------------
\* A filter that a response shows has its bounds the right way round.
LEMMA FiltersAreOrdered ==
  ASSUME NEW q, IsQuery(q), NEW c \in RatingFilters
  PROVE  ~WrongWayRound(getRatingFilterWithPrefix(q, c))
<1> DEFINE asked == [p \in Parameters |-> IF p \in DOMAIN q THEN q[p] ELSE c[p]]
<1>1. asked \in RatingFilters
  <2>1. \A p \in Parameters :
          asked[p] \in IF p = "unrated" THEN Choices ELSE 0..Best
    BY DEF IsQuery, Parameters, RatingFilters
  <2> QED BY <2>1, FiltersAreFunctions DEF Parameters
<1>2. asked.min \in Nat /\ asked.max \in Nat
  BY <1>1, BestAssumption DEF RatingFilters
<1>3. getRatingFilterWithPrefix(q, c) = Ordered(asked)
  BY DEF getRatingFilterWithPrefix
<1> HIDE DEF asked
<1>4. CASE WrongWayRound(asked)
  <2>1. Ordered(asked).min = asked.max /\ Ordered(asked).max = asked.min
    BY <1>1, <1>4 DEF Ordered, RatingFilters
  <2> QED BY <1>2, <1>3, <1>4, <2>1 DEF WrongWayRound
<1>5. CASE ~WrongWayRound(asked)
  BY <1>3, <1>5 DEF Ordered
<1> QED BY <1>4, <1>5

\* The links of a page with a filter name its bounds.
LEMMA SpelledIsQuery ==
  ASSUME NEW rf \in RatingFilters
  PROVE  IsQuery(Spelled(rf))
<1>1. DOMAIN Spelled(rf) \subseteq Parameters
  BY DEF Spelled
<1>2. \A p \in DOMAIN Spelled(rf) : Spelled(rf)[p] = rf[p]
  BY DEF Spelled
<1>3. \A p \in Parameters : rf[p] \in IF p = "unrated" THEN Choices ELSE 0..Best
  BY DEF Parameters, RatingFilters
<1> QED BY <1>1, <1>2, <1>3 DEF IsQuery

LEMMA NoParametersIsQuery == IsQuery(NoParameters)
BY DEF IsQuery, NoParameters

-----------------------------------------------------------------------------
(***************************************************************************)
(* The invariant: the types, the default of the cookies, and that the page *)
(* shown has a filter its own links can name.                              *)
(***************************************************************************)
ShownFilterIsOrdered ==
  /\ ~WrongWayRound(view.rf)
  /\ list = "tag" => view.rf = NoFilter

IInv == TypeOK /\ DefaultIsLastFilter /\ ShownFilterIsOrdered

\* A total is a number, whichever list it is of.
LEMMA TotalType ==
  ASSUME list \in Lists, NEW rf
  PROVE  Total(rf) \in Nat
<1>1. \A S \in SUBSET Albums : Cardinality(S) \in Nat
  BY ListingsAssumption, FS_Subset, FS_CardinalityType
<1>2. \A S : Filtered(rf, S) \subseteq S
  BY DEF Filtered
<1>3. CASE list = "browse"
  BY <1>1, <1>2, <1>3 DEF Total, getTotalAlbumCount
<1>4. CASE list = "user"
  BY <1>1, <1>2, <1>4 DEF Total, getUserAlbumHits
<1>5. CASE list = "search"
  BY <1>1, <1>2, <1>5 DEF Total, getSearchAlbumHits, SearchRows
<1>6. CASE list = "tag"
  BY <1>1, <1>6 DEF Total, TagTotal
<1>7. CASE list = "userFiles"
  BY <1>1, <1>2, <1>7 DEF Total, getUserFileHits, UserFileRows
<1>8. CASE list = "searchFiles"
  BY <1>1, <1>2, <1>8 DEF Total, getSearchFileHits, SearchFileRows
<1> QED BY <1>3, <1>4, <1>5, <1>6, <1>7, <1>8 DEF Lists, FileLists

\* The rows of a list are of the galleries or files there are.
LEMMA RowsType ==
  ASSUME list \in Lists, NEW rf
  PROVE  Rows(rf) \subseteq Albums
BY DEF Lists, FileLists, Rows, Filtered, BrowseRows, UserRows, SearchRows, TagRows,
       UserFileRows, SearchFileRows

FilterOf(q) ==
  IF list = "tag" THEN NoFilter ELSE getRatingFilterWithPrefix(q, cookies)

\* What the handlers have in common.
LEMMA ShowIs ==
  ASSUME NEW p, NEW q, NEW typed \in BOOLEAN, Show(p, q, typed)
  PROVE  /\ \E t \in BOOLEAN :
              view' = [page |-> p, albums |-> PageRows(FilterOf(q), p),
                       hasNext |-> HasNext(FilterOf(q), p, PageRows(FilterOf(q), p)),
                       rf |-> FilterOf(q), typed |-> t]
         /\ UNCHANGED <<database, changes>>
         /\ \/ list # "tag" /\ UseFilter(q)
            \/ UNCHANGED <<cookies, last, expired>>
<1>1. CASE list = "tag"
  <2>1. handleTagDetail(p)
    BY <1>1 DEF Show, handleBrowse, handleUserGalleries, handleSearchGalleries,
               handleUserFiles, handleSearchFiles
  <2> QED BY <1>1, <2>1 DEF handleTagDetail, Answer, FilterOf
<1>2. CASE list # "tag"
  <2>1. \E t \in BOOLEAN : FilteredPage(p, q, t) \/ SearchPage(p, q, t)
    BY <1>2 DEF Show, handleTagDetail, handleBrowse, handleUserGalleries,
               handleSearchGalleries, handleUserFiles, handleSearchFiles
  <2> QED BY <1>2, <2>1 DEF FilteredPage, SearchPage, NotModified, Answer, FilterOf
<1> QED BY <1>1, <1>2

\* The page that was asked for is shown, with the filter of the request.
LEMMA ShowsFilter ==
  ASSUME NEW p, NEW q, NEW typed \in BOOLEAN, Show(p, q, typed)
  PROVE  view'.page = p /\ view'.rf = FilterOf(q)
<1>1. PICK t \in BOOLEAN :
        view' = [page |-> p, albums |-> PageRows(FilterOf(q), p),
                 hasNext |-> HasNext(FilterOf(q), p, PageRows(FilterOf(q), p)),
                 rf |-> FilterOf(q), typed |-> t]
  BY ShowIs
<1> QED BY <1>1

\* A handler leaves the cookies and a page as the invariant has them.
LEMMA ShowKeeps ==
  ASSUME IInv, NEW p \in Nat \ {0}, NEW q, IsQuery(q),
         NEW typed \in BOOLEAN, Show(p, q, typed)
  PROVE  /\ view' \in [page : Nat \ {0}, albums : SUBSET Albums, hasNext : BOOLEAN,
                       rf : RatingFilters, typed : BOOLEAN]
         /\ cookies' \in RatingFilters /\ last' \in RatingFilters
         /\ expired' \in BOOLEAN
         /\ DefaultIsLastFilter'
         /\ ShownFilterIsOrdered'
<1> DEFINE rf == FilterOf(q)
<1>0. cookies \in RatingFilters /\ last \in RatingFilters /\ expired \in BOOLEAN
  BY DEF IInv, TypeOK
<1>1. NoFilter \in RatingFilters /\ ~WrongWayRound(NoFilter)
  BY BestAssumption DEF NoFilter, RatingFilters, Choices, WrongWayRound
<1>2. rf \in RatingFilters /\ ~WrongWayRound(rf)
  BY <1>0, <1>1, FilterTypes, FiltersAreOrdered DEF FilterOf
<1>3. PICK t \in BOOLEAN :
        view' = [page |-> p, albums |-> PageRows(rf, p),
                 hasNext |-> HasNext(rf, p, PageRows(rf, p)), rf |-> rf, typed |-> t]
  BY ShowIs
<1>4. PageRows(rf, p) \in SUBSET Albums
  BY RowsType DEF IInv, TypeOK, PageRows
<1>5. HasNext(rf, p, PageRows(rf, p)) \in BOOLEAN
  <2>1. \A S \in SUBSET Albums : Cardinality(S) \in Nat
    BY ListingsAssumption, FS_Subset, FS_CardinalityType
  <2>3. Total(rf) \in Nat
    BY TotalType DEF IInv, TypeOK
  <2>4. /\ getPageCount(Total(rf), Size) \in Int
        /\ p - 1 \in Int /\ Size \in Int
    BY <2>3, ListingsAssumption DEF getPageCount
  <2>5. (p - 1) * Size \in Int
    BY <2>4
  <2>6. (getPageCount(Total(rf), Size) > p) \in BOOLEAN
    BY <2>4
  <2>7. ((p - 1) * Size + Cardinality(PageRows(rf, p)) < Total(rf)) \in BOOLEAN
    BY <1>4, <2>1, <2>3, <2>5
  <2> QED BY <2>6, <2>7 DEF HasNext
<1>6. /\ view'.rf = rf
      /\ view' \in [page : Nat \ {0}, albums : SUBSET Albums, hasNext : BOOLEAN,
                    rf : RatingFilters, typed : BOOLEAN]
  BY <1>2, <1>3, <1>4, <1>5
<1>7. list' = list /\ (list = "tag" => rf = NoFilter)
  BY ShowIs DEF database, FilterOf
<1>8. ShownFilterIsOrdered'
  BY <1>2, <1>6, <1>7 DEF ShownFilterIsOrdered
<1>9. CASE UNCHANGED <<cookies, last, expired>>
  BY <1>0, <1>6, <1>8, <1>9 DEF IInv, DefaultIsLastFilter
<1>10. CASE list # "tag" /\ UseFilter(q)
  <2>1. /\ cookies' = CookiesAfter(q, cookies) /\ last' = rf /\ expired' = FALSE
        /\ rf = getRatingFilterWithPrefix(q, cookies)
    BY <1>10 DEF UseFilter, FilterOf
  <2>2. cookies' \in RatingFilters
    BY <1>0, <2>1, FilterTypes
  <2>3. getRatingFilterWithPrefix(NoParameters, cookies') = last'
    BY <1>0, <2>1, DefaultIsTheLast
  <2> QED BY <1>2, <1>6, <1>8, <2>1, <2>2, <2>3 DEF DefaultIsLastFilter
<1> QED BY <1>9, <1>10, ShowIs

LEMMA Initially == Init => IInv
<1> SUFFICES ASSUME Init PROVE IInv
  OBVIOUS
<1>1. NoFilter \in RatingFilters /\ ~WrongWayRound(NoFilter)
  BY BestAssumption DEF NoFilter, RatingFilters, Choices, WrongWayRound
<1>2. TypeOK
  <2>1. 0 \in 0..MaxChanges
    BY ListingsAssumption
  <2>2. cookies \in RatingFilters /\ last \in RatingFilters
    BY <1>1 DEF Init, NoCookies
  <2>3. whole \in BOOLEAN /\ expired \in BOOLEAN /\ seen \in SUBSET Albums
    BY DEF Init
  <2> QED BY <2>1, <2>2, <2>3 DEF Init, TypeOK
<1>3. getRatingFilterWithPrefix(NoParameters, NoFilter) = NoFilter
  <2>1. [p \in Parameters |->
           IF p \in DOMAIN NoParameters THEN NoParameters[p] ELSE NoFilter[p]] = NoFilter
    BY DEF NoParameters, NoFilter, Parameters
  <2> QED BY <1>1, <2>1 DEF getRatingFilterWithPrefix, Ordered
<1>4. DefaultIsLastFilter
  BY <1>3 DEF Init, DefaultIsLastFilter, NoCookies
<1>5. ShownFilterIsOrdered
  BY <1>1 DEF Init, Blank, ShownFilterIsOrdered
<1> QED BY <1>2, <1>4, <1>5 DEF IInv

LEMMA Inductive == IInv /\ [Next]_vars => IInv'
<1> SUFFICES ASSUME IInv, [Next]_vars PROVE IInv'
  OBVIOUS
<1> USE DEF IInv
<1>1. ASSUME NEW p \in Nat \ {0}, NEW q, IsQuery(q),
             NEW typed \in BOOLEAN, Show(p, q, typed),
             seen' \in SUBSET Albums, whole' \in BOOLEAN
      PROVE  IInv'
  <2>1. UNCHANGED <<has, rating, list, ftf, changes>>
    BY <1>1, ShowIs DEF database
  <2> QED BY <1>1, <2>1, ShowKeeps DEF TypeOK
<1>2. \A p \in Nat \ {0}, typed \in BOOLEAN : \A q :
        IsQuery(q) /\ Show(p, q, typed) =>
          view'.albums \in SUBSET Albums /\ view'.rf \in RatingFilters
  BY ShowKeeps
<1>3. IsQuery(NoParameters) /\ \A q \in Queries : IsQuery(q)
  BY NoParametersIsQuery, ListingsAssumption
<1>4. ASSUME view.page > 0 \/ view.hasNext
      PROVE  view.page \in Nat \ {0} /\ view.rf \in RatingFilters
  BY <1>4 DEF TypeOK, Blank
<1>5. CASE Arrive
  <2>1. PICK q \in Queries \union {NoParameters}, typed \in BOOLEAN : Show(1, q, typed)
    BY <1>5 DEF Arrive
  <2> QED BY <1>1, <1>2, <1>3, <1>5, <2>1 DEF Arrive
<1>6. CASE NextPage
  <2>0. view.page \in Nat \ {0} /\ view.rf \in RatingFilters
    BY <1>4, <1>6 DEF NextPage
  <2>1. /\ view.page + 1 \in Nat \ {0} /\ IsQuery(Spelled(view.rf))
        /\ Show(view.page + 1, Spelled(view.rf), TRUE)
    <3>1. view.page + 1 \in Nat \ {0}
      BY <2>0
    <3>2. IsQuery(Spelled(view.rf))
      BY <2>0, SpelledIsQuery
    <3>3. Show(view.page + 1, Spelled(view.rf), TRUE)
      BY <1>6, Zenon DEF NextPage
    <3> QED BY <3>1, <3>2, <3>3
  <2>2. seen' \in SUBSET Albums /\ whole' \in BOOLEAN
    BY <1>2, <1>6, <2>1 DEF NextPage, TypeOK
  <2> QED BY <1>1, <2>1, <2>2
<1>7. CASE PrevPage
  <2>1. view.page \in Nat
    BY DEF TypeOK, Blank
  <2>2. /\ view.page - 1 \in Nat \ {0} /\ IsQuery(Spelled(view.rf))
        /\ Show(view.page - 1, Spelled(view.rf), TRUE)
    <3>1. view.page > 1
      BY <1>7, Zenon DEF PrevPage
    <3>2. view.page - 1 \in Nat \ {0} /\ view.rf \in RatingFilters
      BY <1>4, <2>1, <3>1
    <3>3. IsQuery(Spelled(view.rf))
      BY <3>2, SpelledIsQuery
    <3>4. Show(view.page - 1, Spelled(view.rf), TRUE)
      BY <1>7, Zenon DEF PrevPage
    <3> QED BY <3>2, <3>3, <3>4
  <2>3. seen' \in SUBSET Albums /\ whole' \in BOOLEAN
    BY <1>2, <1>7, <2>2 DEF PrevPage, TypeOK
  <2> QED BY <1>1, <2>2, <2>3
<1>8. CASE RandomPage
  <2>1. view.page \in Nat
    BY DEF TypeOK, Blank
  <2>2. PICK p \in OtherPages(view.page, getPageCount(RandomTotal, Size)) :
          Show(p, NoParameters, FALSE)
    BY <1>8 DEF RandomPage
  <2>3. p \in Nat \ {0}
    BY <2>1, <2>2, PagesArePositive
  <2> QED BY <1>1, <1>2, <1>3, <1>8, <2>2, <2>3 DEF RandomPage
<1>9. CASE OtherTab
  <2>1. PICK q \in Queries :
          /\ cookies' = CookiesAfter(q, cookies)
          /\ last' = getRatingFilterWithPrefix(q, cookies)
          /\ expired' = FALSE
    BY <1>9 DEF OtherTab, UseFilter
  <2>2. /\ expired' = FALSE
        /\ UNCHANGED <<has, rating, list, ftf, view, seen, whole>>
        /\ changes' \in 0..MaxChanges
    BY <1>9, <2>1, ListingsAssumption DEF OtherTab, database, TypeOK
  <2>3. cookies' \in RatingFilters /\ last' \in RatingFilters
    BY <1>3, <2>1, FilterTypes DEF TypeOK
  <2>4. DefaultIsLastFilter'
    BY <1>3, <2>1, DefaultIsTheLast DEF DefaultIsLastFilter, TypeOK
  <2> QED BY <2>2, <2>3, <2>4 DEF TypeOK, ShownFilterIsOrdered
<1>10. CASE Expire
  <2>1. PICK p \in Parameters : cookies' = [cookies EXCEPT ![p] = NoCookies[p]]
    BY <1>10 DEF Expire
  <2>2. /\ expired' = TRUE
        /\ UNCHANGED <<has, rating, list, ftf, view, seen, whole, last>>
        /\ changes' \in 0..MaxChanges
    BY <1>10, ListingsAssumption DEF Expire, database, TypeOK
  <2>3. cookies' \in RatingFilters
    BY <2>1, BestAssumption
       DEF TypeOK, Parameters, NoCookies, NoFilter, RatingFilters, Choices
  <2> QED BY <2>2, <2>3 DEF TypeOK, DefaultIsLastFilter, ShownFilterIsOrdered
<1>11. CASE UNCHANGED vars
  BY <1>11 DEF vars, TypeOK, DefaultIsLastFilter, ShownFilterIsOrdered
<1> QED BY <1>5, <1>6, <1>7, <1>8, <1>9, <1>10, <1>11 DEF Next

THEOREM Invariance == Spec => []IInv
BY Initially, Inductive, PTL DEF Spec

\* Every variable keeps its type: the pages that are asked for exist, and every
\* filter that is in force or kept is one.
THEOREM TypeCorrect == Spec => []TypeOK
<1>1. IInv => TypeOK
  BY DEF IInv
<1> QED BY <1>1, Invariance, PTL

\* What the cookies stand for is the filter that was used last, in whatever order
\* its bounds were given and whichever tab used it.
THEOREM DefaultFilter == Spec => []DefaultIsLastFilter
<1>1. IInv => DefaultIsLastFilter
  BY DEF IInv
<1> QED BY <1>1, Invariance, PTL

\* The links of the pager carry the filter of their page through whatever happens
\* to the cookies.  The bounds of a page are in order, or the next page would
\* swap them.
THEOREM FilterIsCarried == Spec => PagerKeepsFilter
<1> DEFINE Kept ==
      (NextPage \/ PrevPage) /\ Active(view.rf) =>
        /\ view'.rf.min = view.rf.min /\ view'.rf.max = view.rf.max
        /\ view.rf.unrated # "include" => view'.rf.unrated = view.rf.unrated
<1>1. IInv /\ [Next]_vars => [Kept]_vars
  <2> SUFFICES ASSUME IInv, NextPage \/ PrevPage, Active(view.rf)
               PROVE  /\ view'.rf.min = view.rf.min /\ view'.rf.max = view.rf.max
                      /\ view.rf.unrated # "include" =>
                           view'.rf.unrated = view.rf.unrated
    OBVIOUS
  <2> DEFINE q == Spelled(view.rf)
             asked == [p \in Parameters |-> IF p \in DOMAIN q THEN q[p] ELSE cookies[p]]
  <2>1. PICK p : Show(p, q, TRUE)
    BY DEF NextPage, PrevPage
  <2>2. list # "tag"
    BY DEF IInv, ShownFilterIsOrdered, NoFilter, Active
  <2>3. view'.rf = Ordered(asked)
    <3>1. view'.rf = FilterOf(q)
      BY <2>1, ShowsFilter
    <3> QED BY <2>2, <3>1 DEF FilterOf, getRatingFilterWithPrefix
  <2>4. /\ asked["min"] = view.rf["min"] /\ asked["max"] = view.rf["max"]
        /\ view.rf.unrated # "include" => asked["unrated"] = view.rf["unrated"]
    BY DEF Spelled, Parameters
  <2>5. ~WrongWayRound(asked)
    BY <2>4 DEF IInv, ShownFilterIsOrdered, WrongWayRound
  <2>6. view'.rf = asked
    BY <2>3, <2>5 DEF Ordered
  <2> QED BY <2>4, <2>6
<1> QED BY <1>1, Invariance, PTL DEF Spec, PagerKeepsFilter

\* Random page goes to another page of those the pager counts, if there is
\* another: for the filter the cookies name, whatever page the user is on.
THEOREM RandomPageMoves == Spec => RandomPageIsAnother
<1> DEFINE SameType == list = "searchFiles" => view.typed \/ ftf = AllTypes
           pages == getPageCount(Total(view'.rf), Size)
           Another == RandomPage /\ SameType =>
             /\ view'.page = 1 \/ view'.page \in 1..pages
             /\ pages > 1 => view'.page # view.page
<1>1. IInv /\ [Next]_vars => [Another]_vars
  <2> SUFFICES ASSUME IInv, RandomPage, SameType
               PROVE  /\ view'.page = 1 \/ view'.page \in 1..pages
                      /\ pages > 1 => view'.page # view.page
    OBVIOUS
  <2> DEFINE rf == FilterOf(NoParameters)
  <2>1. PICK p \in OtherPages(view.page, getPageCount(RandomTotal, Size)) :
          Show(p, NoParameters, FALSE)
    BY DEF RandomPage
  <2>2. view'.page = p /\ view'.rf = rf
    BY <2>1, ShowsFilter
  <2>3. view.page \in Nat
    BY DEF IInv, TypeOK, Blank
  <2>4. RandomTotal = Total(rf)
    <3>1. CASE list = "browse"
      BY <3>1 DEF RandomTotal, Total, FilterOf
    <3>2. CASE list = "search"
      BY <3>2 DEF RandomTotal, Total, FilterOf
    <3>3. CASE list = "searchFiles"
      BY <3>3 DEF RandomTotal, Total, FilterOf
    <3> QED BY <3>1, <3>2, <3>3 DEF RandomPage
  <2>5. getPageCount(Total(rf), Size) \in Nat
    BY TotalType, PageCount, ListingsAssumption DEF IInv, TypeOK
  <2> QED BY <2>1, <2>2, <2>3, <2>4, <2>5, DrawIsAnotherPage
<1> QED BY <1>1, Invariance, PTL DEF Spec, RandomPageIsAnother

-----------------------------------------------------------------------------
(***************************************************************************)
(* Turning the pages of a list.  That all has been seen at the end is not  *)
(* inductive.  ReachInv adds that what has been seen are the rows before   *)
(* some page's end, no page back or forth having left a gap, and that the  *)
(* link to the next page is not missing before the last row.               *)
(***************************************************************************)
AlbumOrder == {p \in Albums \X Albums : p[1] < p[2]}

RowsBefore(rf, n) ==
  {a \in Rows(rf) : Place(AlbumOrder, Rows(rf), a) < n * Size}

Reached ==
  /\ view.page \in Nat \ {0}
  /\ \E n \in Nat : view.page <= n /\ seen = RowsBefore(view.rf, n)
  /\ ~view.hasNext => Cardinality(Rows(view.rf)) <= view.page * Size

\* Only a user's galleries may have rows that a page leaves out.
NoRowIsHidden == list = "user" => \A a \in Albums : Available(a, AllTypes)

ReachInv ==
  /\ IInv
  /\ list \in TypedLists \/ ftf = AllTypes
  /\ NoRowIsHidden /\ whole => Reached

LEMMA RowsAreAList ==
  ASSUME list \in Lists, NEW rf
  PROVE  IsList(AlbumOrder, Rows(rf))
<1>1. Rows(rf) \in SUBSET Albums /\ Albums \in SUBSET Nat
  BY RowsType, ListingsAssumption
<1>2. IsFiniteSet(Rows(rf))
  BY <1>1, ListingsAssumption, FS_Subset
<1>3. \A a, b \in Rows(rf) : <<a, b>> \in AlbumOrder <=> a < b
  BY <1>1 DEF AlbumOrder
<1>4. /\ \A a \in Rows(rf) : ~(a < a)
      /\ \A a, b \in Rows(rf) : a = b \/ a < b \/ b < a
      /\ \A a, b, c \in Rows(rf) : a < b /\ b < c => a < c
  <2>1. \A a \in Rows(rf) : a \in Nat
    BY <1>1
  <2> QED BY <2>1
<1>5. IsOrder(AlbumOrder, Rows(rf))
  BY <1>3, <1>4, Zenon DEF IsOrder
<1> QED BY <1>2, <1>5 DEF IsList

\* A page is of all the rows that LIMIT keeps, if they all have a thumbnail.
LEMMA PagesAreOfRows ==
  ASSUME list \in Lists, NoRowIsHidden, NEW rf, NEW p
  PROVE  PageRows(rf, p) = RowsOfPage(AlbumOrder, Rows(rf), p, Size)
<1>1. Rows(rf) \in SUBSET Albums
  BY RowsType
<1>2. \A a \in Rows(rf) : Available(a, AllTypes)
  <2>1. \A a : Available(a, ftf) => Available(a, AllTypes)
    BY DEF Available
  <2>2. CASE list = "user"
    BY <1>1, <2>2 DEF NoRowIsHidden
  <2>3. CASE list \in Lists \ {"user"}
    BY <2>1, <2>3 DEF Lists, FileLists, Rows, Filtered, BrowseRows, SearchRows, TagRows,
                      UserFileRows, SearchFileRows
  <2> QED BY <2>2, <2>3
<1>3. \A a \in Rows(rf) :
        {b \in Rows(rf) : b < a} = {b \in Rows(rf) : <<b, a>> \in AlbumOrder}
  BY <1>1 DEF AlbumOrder
<1> QED BY <1>2, <1>3 DEF PageRows, RowsOfPage, Place

\* Whatever a list counts, it counts no less than it shows.
LEMMA TotalIsEnough ==
  ASSUME list \in Lists, NoRowIsHidden, NEW rf
  PROVE  /\ Cardinality(Rows(rf)) \in Nat /\ Total(rf) \in Nat
         /\ Cardinality(Rows(rf)) <= Total(rf)
<1> DEFINE counted == Filtered(rf, {a \in Albums : Counted(a)})
<1>1. \A S \in SUBSET Albums : IsFiniteSet(S) /\ Cardinality(S) \in Nat
  BY ListingsAssumption, FS_Subset, FS_CardinalityType
<1>2. Cardinality(Rows(rf)) \in Nat /\ Total(rf) \in Nat
  BY <1>1, RowsType, TotalType
<1>3. CASE list = "browse"
  <2>1. counted \in SUBSET Albums
    BY DEF Filtered
  <2>2. Rows(rf) \subseteq counted
    BY <1>3 DEF Rows, BrowseRows, Filtered, Available, Counted
  <2>3. Total(rf) = Cardinality(counted)
    BY <1>3 DEF Total, getTotalAlbumCount
  <2> QED BY <1>1, <1>2, <2>1, <2>2, <2>3, FS_Subset
<1>4. CASE list = "tag"
  <2>1. Total(rf) = Cardinality(Albums) /\ Rows(rf) \subseteq Albums
    BY <1>4, RowsType DEF Total, TagTotal
  <2> QED BY <1>2, <2>1, FS_Subset, ListingsAssumption
<1>5. CASE list \in {"search", "userFiles", "searchFiles"}
  <2>1. Total(rf) = Cardinality(Rows(rf))
    BY <1>5 DEF Total, Rows, getSearchAlbumHits, getUserFileHits, getSearchFileHits
  <2> QED BY <1>2, <2>1
<1>6. CASE list = "user"
  <2>1. \A a \in Albums : Counted(a)
    BY <1>6 DEF NoRowIsHidden, Available, Counted
  <2>2. Total(rf) = Cardinality(counted) /\ Rows(rf) = Filtered(rf, Albums)
    BY <1>6 DEF Total, getUserAlbumHits, Rows, UserRows
  <2>3. counted = Filtered(rf, Albums)
    BY <2>1 DEF Filtered
  <2> QED BY <1>2, <2>2, <2>3
<1> QED BY <1>3, <1>4, <1>5, <1>6 DEF Lists, FileLists

\* The link to the next page is there if there are rows after this one.
LEMMA NextIsNeverMissing ==
  ASSUME list \in Lists, NoRowIsHidden, NEW rf, NEW p \in Nat \ {0},
         ~HasNext(rf, p, PageRows(rf, p))
  PROVE  Cardinality(Rows(rf)) <= p * Size
<1> DEFINE m == Cardinality(Rows(rf))
           shown == Cardinality(PageRows(rf, p))
           count == getPageCount(Total(rf), Size)
           a == (p - 1) * Size
           b == p * Size
<1>1. m \in Nat /\ Total(rf) \in Nat /\ m <= Total(rf)
  BY TotalIsEnough
<1>2. Size \in Nat \ {0}
  BY ListingsAssumption
<1>3. a \in Nat /\ b \in Nat
  BY <1>2, OffsetType
<1>4. CASE list = "browse"
  <2>1. count \in Nat /\ Total(rf) <= count * Size
    BY <1>1, <1>2, PageCount
  <2>2. ~(count > p)
    BY <1>4 DEF HasNext
  <2> HIDE DEF count
  <2>3. count * Size <= p * Size /\ count * Size \in Nat
    BY <1>2, <2>1, <2>2
  <2> QED BY <1>1, <1>3, <2>1, <2>3
<1>5. CASE list # "browse"
  <2>1. ~(a + shown < Total(rf))
    BY <1>5 DEF HasNext
  <2>2. a + shown < m <=> b < m
    BY <1>2, RowsAreAList, PagesAreOfRows, PageBegins
  <2>3. shown \in Nat
    <3>1. PageRows(rf, p) \in SUBSET Albums
      BY RowsType DEF PageRows
    <3> QED BY <3>1, ListingsAssumption, FS_Subset, FS_CardinalityType
  <2> HIDE DEF a, b, m, shown
  <2> QED BY <1>1, <1>3, <2>1, <2>2, <2>3 DEF b, m
<1> QED BY <1>4, <1>5

\* With the rows before the end of a page, the page after them or any page of them
\* makes the rows before the end of a page.
LEMMA PageIsAdded ==
  ASSUME list \in Lists, NoRowIsHidden, NEW rf, NEW n \in Nat, NEW p \in Nat \ {0}, p <= n + 1
  PROVE  \E k \in Nat : /\ p <= k /\ n <= k
                        /\ RowsBefore(rf, n) \union PageRows(rf, p) = RowsBefore(rf, k)
<1> DEFINE place(r) == Place(AlbumOrder, Rows(rf), r)
           a == (p - 1) * Size
           b == p * Size
<1>1. Size \in Nat \ {0}
  BY ListingsAssumption
<1>2. a \in Nat /\ b \in Nat /\ b = a + Size
  BY <1>1, OffsetType
<1>3. \A r \in Rows(rf) : place(r) \in Nat
  BY RowsAreAList, PlacesFollowTheOrder
<1>4. /\ PageRows(rf, p) = {r \in Rows(rf) : place(r) \in a..b - 1}
      /\ \A k : RowsBefore(rf, k) = {r \in Rows(rf) : place(r) < k * Size}
  BY PagesAreOfRows DEF RowsOfPage, Places, RowsBefore
<1>5. CASE p <= n
  <2>1. b <= n * Size /\ n * Size \in Nat
    BY <1>1, <1>5
  <2> HIDE DEF place, a, b
  <2>2. \A r \in Rows(rf) : place(r) \in a..b - 1 => place(r) < n * Size
    BY <1>2, <1>3, <2>1
  <2>3. PageRows(rf, p) \subseteq RowsBefore(rf, n)
    BY <1>4, <2>2
  <2> QED BY <1>5, <2>3
<1>6. CASE p = n + 1
  <2>1. n * Size = a
    BY <1>6
  <2> HIDE DEF place, a, b
  <2>2. \A r \in Rows(rf) : place(r) < a \/ place(r) \in a..b - 1 <=> place(r) < b
    BY <1>1, <1>2, <1>3
  <2>3. RowsBefore(rf, n) \union PageRows(rf, p) = {r \in Rows(rf) : place(r) < b}
    BY <1>4, <2>1, <2>2
  <2>4. RowsBefore(rf, n) \union PageRows(rf, p) = RowsBefore(rf, p)
    BY <1>4, <2>3 DEF b
  <2> QED BY <1>6, <2>4
<1> QED BY <1>5, <1>6

\* A page that is shown next to those that were seen.
LEMMA PageIsReached ==
  ASSUME IInv, NoRowIsHidden, NEW p \in Nat \ {0}, NEW q, NEW typed \in BOOLEAN,
         Show(p, q, typed), NEW n \in Nat, p <= n + 1,
         seen' = RowsBefore(view'.rf, n) \union view'.albums
  PROVE  Reached'
<1> DEFINE rf == FilterOf(q)
<1>1. list \in Lists /\ UNCHANGED <<has, rating, list, ftf>>
  BY ShowIs DEF IInv, TypeOK, database
<1>2. PICK t \in BOOLEAN :
        view' = [page |-> p, albums |-> PageRows(rf, p),
                 hasNext |-> HasNext(rf, p, PageRows(rf, p)), rf |-> rf, typed |-> t]
  BY ShowIs
<1>3. /\ view'.page = p /\ view'.rf = rf /\ view'.albums = PageRows(rf, p)
      /\ view'.hasNext = HasNext(rf, p, PageRows(rf, p))
  BY <1>2
<1> HIDE DEF rf
<1>4. /\ \A g : Rows(g)' = Rows(g)
      /\ \A g, k : RowsBefore(g, k)' = RowsBefore(g, k)
  BY <1>1 DEF Rows, RowsBefore, BrowseRows, UserRows, SearchRows, TagRows, UserFileRows,
              SearchFileRows, Filtered, Available
<1>5. PICK k \in Nat : /\ p <= k
                       /\ RowsBefore(rf, n) \union PageRows(rf, p) = RowsBefore(rf, k)
  BY <1>1, PageIsAdded
<1>6. ~view'.hasNext => Cardinality(Rows(rf)) <= p * Size
  BY <1>1, <1>3, NextIsNeverMissing
<1> QED BY <1>3, <1>4, <1>5, <1>6 DEF Reached

LEMMA ReachInitially == Init => ReachInv
<1>1. Init => IInv
  BY Initially
<1> QED BY <1>1 DEF Init, ReachInv

LEMMA ReachInductive == ReachInv /\ [Next]_vars => ReachInv'
<1> SUFFICES ASSUME ReachInv, [Next]_vars PROVE ReachInv'
  OBVIOUS
<1>1. IInv /\ IInv'
  BY Inductive DEF ReachInv
<1>2. ASSUME UNCHANGED database, NoRowIsHidden /\ whole' => Reached'
      PROVE  ReachInv'
  BY <1>1, <1>2 DEF ReachInv, NoRowIsHidden, Available, database
<1>3. \A p, q : \A typed \in BOOLEAN : Show(p, q, typed) => UNCHANGED database
  BY ShowIs
<1>4. CASE Arrive
  <2>1. PICK q \in Queries \union {NoParameters}, typed \in BOOLEAN : Show(1, q, typed)
    BY <1>4 DEF Arrive
  <2>2. RowsBefore(view'.rf, 0) = {}
    <3>1. \A a \in Rows(view'.rf) : Place(AlbumOrder, Rows(view'.rf), a) \in Nat
      BY <1>1, RowsAreAList, PlacesFollowTheOrder DEF IInv, TypeOK
    <3>2. 0 * Size = 0
      BY ListingsAssumption
    <3> QED BY <3>1, <3>2 DEF RowsBefore
  <2>3. seen' = RowsBefore(view'.rf, 0) \union view'.albums
    BY <1>4, <2>2 DEF Arrive
  <2>4. NoRowIsHidden => Reached'
    BY <1>1, <2>1, <2>3, PageIsReached
  <2> QED BY <1>2, <1>3, <2>1, <2>4
<1>5. ASSUME NEW p \in Nat \ {0}, NEW q, Show(p, q, TRUE), p <= view.page + 1,
             seen' = seen \union view'.albums,
             whole' = (whole /\ view'.rf = view.rf)
      PROVE  ReachInv'
  <2>1. ASSUME NoRowIsHidden, whole' PROVE Reached'
    <3>1. Reached /\ view'.rf = view.rf
      BY <1>5, <2>1 DEF ReachInv
    <3>2. PICK n \in Nat : view.page <= n /\ seen = RowsBefore(view.rf, n)
      BY <3>1 DEF Reached
    <3>3. p <= n + 1
      BY <1>5, <3>1, <3>2 DEF Reached
    <3>4. seen' = RowsBefore(view'.rf, n) \union view'.albums
      BY <1>5, <3>1, <3>2
    <3> QED BY <1>1, <1>5, <2>1, <3>3, <3>4, PageIsReached
  <2> QED BY <1>2, <1>3, <1>5, <2>1
<1>6. CASE NextPage
  <2>1. view.page \in Nat
    BY <1>1 DEF IInv, TypeOK, Blank
  <2>2. view.page + 1 \in Nat \ {0} /\ view.page + 1 <= view.page + 1
    BY <2>1
  <2>3. /\ Show(view.page + 1, Spelled(view.rf), TRUE)
        /\ seen' = seen \union view'.albums
        /\ whole' = (whole /\ view'.rf = view.rf)
    BY <1>6, Zenon DEF NextPage
  <2> QED BY <1>5, <2>2, <2>3
<1>7. CASE PrevPage
  <2>1. view.page \in Nat /\ view.page > 1
    BY <1>1, <1>7 DEF IInv, TypeOK, Blank, PrevPage
  <2>2. view.page - 1 \in Nat \ {0} /\ view.page - 1 <= view.page + 1
    BY <2>1
  <2>3. /\ Show(view.page - 1, Spelled(view.rf), TRUE)
        /\ seen' = seen \union view'.albums
        /\ whole' = (whole /\ view'.rf = view.rf)
    BY <1>7, Zenon DEF PrevPage
  <2> QED BY <1>5, <2>2, <2>3
<1>8. CASE RandomPage
  <2>1. whole' = FALSE /\ UNCHANGED database
    BY <1>3, <1>8 DEF RandomPage
  <2> QED BY <1>2, <2>1
<1>9. CASE OtherTab \/ Expire \/ UNCHANGED vars
  <2>1. UNCHANGED <<database, view, seen, whole>>
    BY <1>9 DEF OtherTab, Expire, vars, database
  <2>2. Reached => Reached'
    <3>1. \A g : Rows(g)' = Rows(g)
      BY <2>1 DEF database, Rows, BrowseRows, UserRows, SearchRows, TagRows, UserFileRows,
                  SearchFileRows, Filtered, Available
    <3>2. \A g, k : RowsBefore(g, k)' = RowsBefore(g, k)
      BY <3>1 DEF RowsBefore
    <3> QED BY <2>1, <3>1, <3>2 DEF Reached
  <2> QED BY <1>2, <2>1, <2>2 DEF ReachInv
<1> QED BY <1>4, <1>6, <1>7, <1>8, <1>9 DEF Next

\* What a list shows is what it is of.
LEMMA RowsArePromised ==
  ASSUME ReachInv, NoRowIsHidden, NEW rf \in RatingFilters
  PROVE  Rows(rf) = Promised(rf)
<1>1. \A a \in Albums : rating[a] \in {Unrated} \union Ratings
  BY DEF ReachInv, IInv, TypeOK
<1>2. \A a \in Albums : Passes(rf, rating[a]) <=> Wanted(rf, rating[a])
  BY <1>1, ClauseKeepsTheWanted
<1>3. /\ list \in Lists
      /\ list \in {"user", "search", "tag"} => ftf = AllTypes
  BY DEF ReachInv, IInv, TypeOK, TypedLists, FileLists
<1>4. CASE list = "tag"
  BY <1>3, <1>4 DEF Rows, TagRows, Promised
<1>5. CASE list = "search"
  BY <1>2, <1>3, <1>5 DEF Rows, SearchRows, Filtered, Promised
<1>6. CASE list \in TypedLists
  BY <1>2, <1>6 DEF TypedLists, FileLists, Rows, BrowseRows, UserFileRows, SearchFileRows,
                    Filtered, Promised
<1>7. CASE list = "user"
  <2>1. \A a \in Albums : Available(a, ftf)
    BY <1>3, <1>7 DEF NoRowIsHidden
  <2> QED BY <1>2, <1>7, <2>1 DEF Rows, UserRows, Filtered, Promised
<1> QED BY <1>3, <1>4, <1>5, <1>6, <1>7 DEF Lists, TypedLists, FileLists

\* At the end of a list that hides no row, all of it has been seen.
LEMMA AllIsSeen ==
  ASSUME ReachInv, NoRowIsHidden
  PROVE  ShowsAll
<1> SUFFICES ASSUME whole, ~view.hasNext PROVE seen = Promised(view.rf)
  BY DEF ShowsAll
<1> DEFINE rows == Rows(view.rf)
<1>1. Reached /\ list \in Lists
  BY DEF ReachInv, IInv, TypeOK
<1>2. PICK n \in Nat : view.page <= n /\ seen = RowsBefore(view.rf, n)
  BY <1>1 DEF Reached
<1>3. Size \in Nat /\ view.page \in Nat /\ Cardinality(rows) <= view.page * Size
  BY <1>1, ListingsAssumption DEF Reached
<1>4. view.page * Size <= n * Size /\ view.page * Size \in Nat /\ n * Size \in Nat
  BY <1>2, <1>3
<1>5. /\ Cardinality(rows) \in Nat
      /\ \A a \in rows : Place(AlbumOrder, rows, a) \in 0..Cardinality(rows) - 1
  BY <1>1, RowsAreAList, EveryPlaceIsTaken
<1> HIDE DEF rows
<1>6. \A a \in rows : Place(AlbumOrder, rows, a) < n * Size
  BY <1>3, <1>4, <1>5
<1>7. seen = rows
  BY <1>2, <1>6 DEF RowsBefore, rows
<1>8. view.rf \in RatingFilters
  BY BestAssumption
     DEF ReachInv, IInv, TypeOK, Blank, NoFilter, RatingFilters, Choices
<1> QED BY <1>7, <1>8, RowsArePromised DEF rows

\* Turning the pages from the first to the last, with steps back, one sees all of a
\* list and nothing else, for any galleries, ratings, filter and page size.
THEOREM ListsAreReached == Spec => []EveryAlbumIsReached
<1>1. ReachInv => EveryAlbumIsReached
  BY AllIsSeen DEF EveryAlbumIsReached, NoRowIsHidden
<1> QED BY <1>1, ReachInitially, ReachInductive, PTL DEF Spec

\* The galleries of a user too, if each has a file that is fetched and not ignored:
\* it is the galleries without one, which a page leaves out of its rows, that
\* stop the pages too early.
THEOREM UserGalleriesAreReachedIfShown == Spec => [](NoRowIsHidden => ShowsAll)
<1>1. ReachInv => (NoRowIsHidden => ShowsAll)
  BY AllIsSeen
<1> QED BY <1>1, ReachInitially, ReachInductive, PTL DEF Spec

-----------------------------------------------------------------------------
(***************************************************************************)
(* A list that hides rows ends too early, but shows nothing it is not of.  *)
(***************************************************************************)
NothingElseIsSeen == whole => seen \subseteq Promised(view.rf)

SeenInv == ReachInv /\ NothingElseIsSeen

LEMMA PagesShowWhatIsPromised ==
  ASSUME ReachInv, NEW rf \in RatingFilters, NEW p
  PROVE  PageRows(rf, p) \subseteq Promised(rf)
<1>1. \A a \in Albums : Passes(rf, rating[a]) <=> Wanted(rf, rating[a])
  <2>1. \A a \in Albums : rating[a] \in {Unrated} \union Ratings
    BY DEF ReachInv, IInv, TypeOK
  <2> QED BY <2>1, ClauseKeepsTheWanted
<1>2. /\ list \in Lists
      /\ list \notin TypedLists => ftf = AllTypes
  BY DEF ReachInv, IInv, TypeOK
<1>3. \A a \in PageRows(rf, p) : a \in Rows(rf) /\ Available(a, AllTypes)
  BY DEF PageRows
<1>4. ASSUME NEW a \in PageRows(rf, p), list # "tag"
      PROVE  a \in Albums /\ Passes(rf, rating[a])
  BY <1>2, <1>3, <1>4 DEF Lists, FileLists, Rows, Filtered, BrowseRows, UserRows, SearchRows,
                          UserFileRows, SearchFileRows
<1>5. ASSUME NEW a \in PageRows(rf, p), list \in TypedLists
      PROVE  Available(a, ftf)
  BY <1>3, <1>5 DEF TypedLists, FileLists, Rows, Filtered, BrowseRows, UserFileRows,
                    SearchFileRows
<1>6. \A a \in PageRows(rf, p) : a \in Albums
  BY <1>3, RowsType, <1>2
<1> QED BY <1>1, <1>2, <1>3, <1>4, <1>5, <1>6 DEF Promised

LEMMA ShownIsPromised ==
  ASSUME ReachInv, NEW p \in Nat \ {0}, NEW q, NEW typed \in BOOLEAN, Show(p, q, typed),
         view'.rf \in RatingFilters
  PROVE  view'.albums \subseteq Promised(view.rf)'
<1> DEFINE rf == FilterOf(q)
<1>1. view'.albums = PageRows(rf, p) /\ view'.rf = rf
  BY ShowIs
<1>2. UNCHANGED <<has, rating, list, ftf>>
  BY ShowIs DEF database
<1>3. rf \in RatingFilters
  BY <1>1
<1> HIDE DEF rf
<1>4. Promised(view.rf)' = Promised(rf)
  BY <1>1, <1>2 DEF Promised, Available
<1> QED BY <1>1, <1>3, <1>4, PagesShowWhatIsPromised

\* Whoever turns the pages from the first sees only what the list is of, on every
\* list, also among the galleries of a user that have nothing to show.
THEOREM OnlyThePromisedIsSeen == Spec => []NothingElseIsSeen
<1>1. Init => SeenInv
  BY ReachInitially DEF Init, SeenInv, NothingElseIsSeen
<1>2. SeenInv /\ [Next]_vars => SeenInv'
  <2> SUFFICES ASSUME SeenInv, [Next]_vars PROVE NothingElseIsSeen'
    BY ReachInductive DEF SeenInv
  <2>1. ReachInv /\ view.page \in Nat
    BY DEF SeenInv, ReachInv, IInv, TypeOK, Blank
  <2>2. view'.rf \in RatingFilters
    <3>1. TypeOK'
      BY ReachInductive DEF SeenInv, ReachInv, IInv
    <3> QED BY <3>1, BestAssumption DEF TypeOK, Blank, NoFilter, RatingFilters, Choices
  <2>3. CASE Arrive
    <3>1. PICK q \in Queries \union {NoParameters}, typed \in BOOLEAN : Show(1, q, typed)
      BY <2>3 DEF Arrive
    <3>2. view'.albums \subseteq Promised(view.rf)'
      BY <2>1, <2>2, <3>1, ShownIsPromised
    <3> QED BY <2>3, <3>2 DEF Arrive, NothingElseIsSeen
  <2>4. ASSUME NEW p \in Nat \ {0}, NEW q, Show(p, q, TRUE),
               seen' = seen \union view'.albums,
               whole' = (whole /\ view'.rf = view.rf)
        PROVE  NothingElseIsSeen'
    <3>1. view'.albums \subseteq Promised(view.rf)'
      BY <2>1, <2>2, <2>4, ShownIsPromised
    <3>2. UNCHANGED database
      BY <2>4, ShowIs
    <3>3. whole' => whole /\ Promised(view.rf)' = Promised(view.rf)
      BY <2>4, <3>2 DEF database, Promised, Available
    <3> QED BY <2>4, <3>1, <3>3 DEF SeenInv, NothingElseIsSeen
  <2>5. CASE NextPage
    <3>1. view.page + 1 \in Nat \ {0}
      BY <2>1
    <3>2. /\ Show(view.page + 1, Spelled(view.rf), TRUE)
          /\ seen' = seen \union view'.albums
          /\ whole' = (whole /\ view'.rf = view.rf)
      BY <2>5, Zenon DEF NextPage
    <3> QED BY <2>4, <3>1, <3>2
  <2>6. CASE PrevPage
    <3>1. view.page - 1 \in Nat \ {0}
      BY <2>1, <2>6 DEF PrevPage
    <3>2. /\ Show(view.page - 1, Spelled(view.rf), TRUE)
          /\ seen' = seen \union view'.albums
          /\ whole' = (whole /\ view'.rf = view.rf)
      BY <2>6, Zenon DEF PrevPage
    <3> QED BY <2>4, <3>1, <3>2
  <2>7. CASE RandomPage
    BY <2>7 DEF RandomPage, NothingElseIsSeen
  <2>8. CASE OtherTab \/ Expire \/ UNCHANGED vars
    BY <2>8 DEF OtherTab, Expire, vars, database, SeenInv, NothingElseIsSeen, Promised,
                Available
  <2> QED BY <2>3, <2>5, <2>6, <2>7, <2>8 DEF Next
<1> QED BY <1>1, <1>2, PTL DEF Spec, SeenInv
=============================================================================
