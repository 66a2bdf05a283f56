------------------------------ MODULE Listings ------------------------------
(***************************************************************************)
(* The lists: browse (handleBrowse), the galleries and the files of a user *)
(* (handleUserGalleries, handleUserFiles, queries.go) and of a search      *)
(* (handleSearchGalleries, handleSearchFiles, searching.go), and the       *)
(* galleries of a tag (handleTagDetail).  Each makes a page of two         *)
(* queries, the total and the rows of the page, whose conditions differ    *)
(* from list to list, and each finds in its own way whether there is a     *)
(* next page.                                                              *)
(*                                                                         *)
(* A user turns the pages of one list while the cookies of the rating      *)
(* filter, which another tab shares, change and expire.  The database does *)
(* not change: it is any one that can be.                                  *)
(*                                                                         *)
(* The browser keeps pages, from this visit and from earlier ones, and any *)
(* page of a search may be answered 304 before its handler, which would    *)
(* set the cookies, is called (PageCache says when the entity tags are the *)
(* same).  The other lists send a 304 when the handler has done its work.  *)
(***************************************************************************)
EXTENDS RatingFilter, Paging, FiniteSets

CONSTANTS
  Albums,     \* the galleries, or the files, numbered in the order of the list
  Holdings,   \* what a gallery may hold: a set of sorts of files
  Queries,    \* what the filter's form may be sent with
  Size,       \* galleries per page
  MaxChanges  \* bound on the cookies that other tabs set or that expire

\* A file of a gallery is an image or a video, or not available: not fetched, or
\* ignored.
Types == {"image", "video"}
Unavailable == "unavailable"
AllTypes == "all"
FileLists == {"userFiles", "searchFiles"}
Lists == {"browse", "user", "search", "tag"} \union FileLists
\* The lists that have a filter of the type of files.
TypedLists == {"browse"} \union FileLists

ASSUME ListingsAssumption ==
  /\ Albums \subseteq Nat
  /\ IsFiniteSet(Albums)
  /\ Holdings \subseteq SUBSET (Types \union {Unavailable})
  /\ \A q \in Queries : IsQuery(q) /\ DOMAIN q = Parameters
  /\ Size \in Nat \ {0}
  /\ MaxChanges \in Nat

VARIABLES
  has,       \* the sorts of files of a gallery, or of a file its own
  rating,    \* local_rating
  list,      \* the list that is looked at
  ftf,       \* the file type filter
  cookies,   \* defaultGalRatingMin, defaultGalRatingMax, defaultGalUnrated;
             \* for a list of files, those of the file filter
  view,      \* the page that is shown
  seen,      \* history: the galleries shown since page 1, turning page by page
  whole,     \* history: every one of those pages had the same filter
  last,      \* history: the filter of the last page that a handler has made, in
             \* this tab or another
  expired,   \* history: a cookie has expired since
  changes    \* how often another tab or the time changed the cookies

database == <<has, rating, list, ftf>>
vars == <<has, rating, list, ftf, cookies, view, seen, whole, last, expired,
          changes>>

-----------------------------------------------------------------------------
(***************************************************************************)
(* The two queries of each list.                                           *)
(***************************************************************************)
\* EXISTS (a file with fetched = 1 AND ignored = 0 of that type)
Available(a, type) ==
  \E t \in has[a] \intersect Types : type \in {AllTypes, t}

\* cnt_rf > 0: what is not available counts.
Counted(a) == has[a] # {}

Filtered(rf, S) == {a \in S : Passes(rf, rating[a])}

BrowseRows(rf) == Filtered(rf, {a \in Albums : Available(a, ftf)})
UserRows(rf) == Filtered(rf, Albums)
SearchRows(rf) == Filtered(rf, {a \in Albums : Available(a, AllTypes)})
TagRows == {a \in Albums : Available(a, AllTypes)}
UserFileRows(rf) == Filtered(rf, {f \in Albums : Available(f, ftf)})
SearchFileRows(rf, type) == Filtered(rf, {f \in Albums : Available(f, type)})

Rows(rf) ==
  CASE list = "browse"      -> BrowseRows(rf)
    [] list = "user"        -> UserRows(rf)
    [] list = "search"      -> SearchRows(rf)
    [] list = "tag"         -> TagRows
    [] list = "userFiles"   -> UserFileRows(rf)
    [] list = "searchFiles" -> SearchFileRows(rf, ftf)

\* The page: of the rows LIMIT and OFFSET keep, those with a thumbnail.
PageRows(rf, p) ==
  LET rows == Rows(rf)
  IN  {a \in rows : /\ Cardinality({b \in rows : b < a}) \in Places(p, Size)
                    /\ Available(a, AllTypes)}

getTotalAlbumCount(rf) == Cardinality(Filtered(rf, {a \in Albums : Counted(a)}))
getUserAlbumHits(rf) == Cardinality(Filtered(rf, {a \in Albums : Counted(a)}))
getSearchAlbumHits(rf) == Cardinality(SearchRows(rf))
TagTotal == Cardinality(Albums)
getUserFileHits(rf) == Cardinality(UserFileRows(rf))
getSearchFileHits(rf, type) == Cardinality(SearchFileRows(rf, type))

Total(rf) ==
  CASE list = "browse"      -> getTotalAlbumCount(rf)
    [] list = "user"        -> getUserAlbumHits(rf)
    [] list = "search"      -> getSearchAlbumHits(rf)
    [] list = "tag"         -> TagTotal
    [] list = "userFiles"   -> getUserFileHits(rf)
    [] list = "searchFiles" -> getSearchFileHits(rf, ftf)

HasNext(rf, p, shown) ==
  IF list = "browse"
  THEN getPageCount(Total(rf), Size) > p
  ELSE (p - 1) * Size + Cardinality(shown) < Total(rf)

-----------------------------------------------------------------------------
NoCookies == NoFilter

Blank ==
  [page |-> 0, albums |-> {}, hasNext |-> FALSE, rf |-> NoFilter, typed |-> FALSE]

Init ==
  /\ has \in [Albums -> Holdings]
  /\ rating \in [Albums -> {Unrated} \union Ratings]
  /\ list \in Lists
  /\ ftf \in {AllTypes} \union Types
  /\ list \in TypedLists \/ ftf = AllTypes
  /\ list \in FileLists => \A f \in Albums : \E sort \in has[f] : has[f] = {sort}
  /\ cookies = NoCookies
  /\ view = Blank
  /\ seen = {}
  /\ whole = FALSE
  /\ last = NoFilter
  /\ expired = FALSE
  /\ changes = 0

-----------------------------------------------------------------------------
(***************************************************************************)
(* The handlers: page p, with what the query says of the filter, and       *)
(* whether the URL names the file type in force, for which only            *)
(* handleRandomPage looks again.                                           *)
(***************************************************************************)
Answer(p, rf, typed) ==
  /\ LET shown == PageRows(rf, p)
     IN  view' = [page |-> p, albums |-> shown, hasNext |-> HasNext(rf, p, shown),
                  rf |-> rf, typed |-> typed]
  /\ UNCHANGED <<database, changes>>

UseFilter(q) ==
  /\ cookies' = CookiesAfter(q, cookies)
  /\ last' = getRatingFilterWithPrefix(q, cookies)
  /\ expired' = FALSE

FilteredPage(p, q, typed) ==
  /\ Answer(p, getRatingFilterWithPrefix(q, cookies), typed)
  /\ UseFilter(q)

\* withETag: 304 for a page the browser has.  Its tag covers the URL and, where
\* that names no filter, the cookies, so it is the page the handler would make;
\* but no handler sets a cookie.
NotModified == UNCHANGED <<cookies, last, expired>>

SearchPage(p, q, typed) ==
  /\ Answer(p, getRatingFilterWithPrefix(q, cookies), typed)
  /\ UseFilter(q) \/ NotModified

handleBrowse(p, q) == list = "browse" /\ FilteredPage(p, q, FALSE)
handleUserGalleries(p, q) == list = "user" /\ FilteredPage(p, q, FALSE)
handleSearchGalleries(p, q) == list = "search" /\ SearchPage(p, q, FALSE)
handleUserFiles(p, q) == list = "userFiles" /\ FilteredPage(p, q, FALSE)
handleSearchFiles(p, q, typed) == list = "searchFiles" /\ SearchPage(p, q, typed)

\* The page of a tag has no filter, and leaves the cookies.
handleTagDetail(p) ==
  /\ list = "tag"
  /\ Answer(p, NoFilter, FALSE)
  /\ UNCHANGED <<cookies, last, expired>>

Show(p, q, typed) ==
  \/ handleBrowse(p, q) \/ handleUserGalleries(p, q) \/ handleSearchGalleries(p, q)
  \/ handleUserFiles(p, q) \/ handleSearchFiles(p, q, typed)
  \/ handleTagDetail(p)

\* What the links of the pager say of the filter of their page: both bounds when
\* it has one or the other or a choice, and the choice when it has one.
\* Mutant: only what is set.
SpelledIfSet(rf) ==
  [p \in {d \in Parameters : rf[d] # NoFilter[d]} |-> rf[p]]

Spelled(rf) ==
  [p \in {d \in Parameters : IF d = "unrated" THEN rf.unrated # "include" ELSE Active(rf)} |-> rf[p]]

-----------------------------------------------------------------------------
(***************************************************************************)
(* The user.                                                               *)
(***************************************************************************)
\* Page 1, by a link or the filter's form.
Arrive ==
  /\ Show(1, NoParameters, FALSE) \/ \E q \in Queries : Show(1, q, TRUE)
  /\ seen' = view'.albums
  /\ whole' = TRUE

NextPage ==
  /\ view.hasNext
  /\ Show(view.page + 1, Spelled(view.rf), TRUE)
  /\ seen' = seen \union view'.albums
  /\ whole' = (whole /\ view'.rf = view.rf)

PrevPage ==
  /\ view.page > 1
  /\ Show(view.page - 1, Spelled(view.rf), TRUE)
  /\ seen' = seen \union view'.albums
  /\ whole' = (whole /\ view'.rf = view.rf)

\* handleRandomPage: from the browse page and from a search; from the list of a user
\* or a tag it goes back where it came from.  The filter is that of the cookies,
\* the type of the files of a search is looked for in the URL alone.
RandomTotal ==
  LET rf == getRatingFilterWithPrefix(NoParameters, cookies) IN
  CASE list = "browse"      -> getTotalAlbumCount(rf)
    [] list = "search"      -> getSearchAlbumHits(rf)
    [] list = "searchFiles" -> getSearchFileHits(rf, IF view.typed THEN ftf ELSE AllTypes)

RandomPage ==
  /\ list \in {"browse", "search", "searchFiles"}
  /\ view.page > 0
  /\ \E p \in OtherPages(view.page, getPageCount(RandomTotal, Size)) :
       Show(p, NoParameters, FALSE)
  /\ seen' = view'.albums
  /\ whole' = FALSE

\* Another tab of the browser shows a page of any list with the filter's form.
OtherTab ==
  /\ changes < MaxChanges /\ changes' = changes + 1
  /\ \E q \in Queries : UseFilter(q)
  /\ UNCHANGED <<database, view, seen, whole>>

\* Each cookie ends six hours after it was last set to another value.
Expire ==
  /\ changes < MaxChanges /\ changes' = changes + 1
  /\ \E p \in Parameters :
       /\ cookies[p] # NoCookies[p]
       /\ cookies' = [cookies EXCEPT ![p] = NoCookies[p]]
  /\ expired' = TRUE
  /\ UNCHANGED <<database, view, seen, whole, last>>

Next == Arrive \/ NextPage \/ PrevPage \/ RandomPage \/ OtherTab \/ Expire

Spec == Init /\ [][Next]_vars

-----------------------------------------------------------------------------
TypeOK ==
  /\ has \in [Albums -> Holdings]
  /\ rating \in [Albums -> {Unrated} \union Ratings]
  /\ list \in Lists
  /\ ftf \in {AllTypes} \union Types
  /\ cookies \in RatingFilters
  /\ \/ view = Blank
     \/ view \in [page : Nat \ {0}, albums : SUBSET Albums, hasNext : BOOLEAN,
                  rf : RatingFilters, typed : BOOLEAN]
  /\ seen \in SUBSET Albums
  /\ whole \in BOOLEAN
  /\ last \in RatingFilters
  /\ expired \in BOOLEAN
  /\ changes \in 0..MaxChanges

\* What the list is of: files, or galleries with files, to show that the filter
\* wants.
Promised(rf) ==
  {a \in Albums : /\ Available(a, ftf)
                  /\ list = "tag" \/ Wanted(rf, rating[a])}

ShowsAll == whole /\ ~view.hasNext => seen = Promised(view.rf)

\* Whoever turns the pages of a list from the first until there is no next one has
\* seen what the list is of, all of them and no other: the totals count
\* more than the lists show, but a page without a next one is never too early.
EveryAlbumIsReached == list # "user" => ShowsAll

\* docs/developing.md:35: "Pagination links work".
UserGalleriesAreReached == list = "user" => ShowsAll

\* A page's own links keep its bounds, and its choice if it has one, whatever
\* another tab has chosen and whichever cookies have expired since.
PagerKeepsFilter ==
  [][(NextPage \/ PrevPage) /\ Active(view.rf) =>
       /\ view'.rf.min = view.rf.min /\ view'.rf.max = view.rf.max
       /\ view.rf.unrated # "include" => view'.rf.unrated = view.rf.unrated]_vars

\* A page whose URL says nothing of the filter has the filter of the last page that
\* a handler has made, also when its bounds were given the wrong way round.  That is
\* not the last page shown when that came from the browser's cache with a 304: asked
\* for 3 stars, then 5, then 3 again, a search stays with 5 on its next page.
DefaultIsLastFilter ==
  ~expired => getRatingFilterWithPrefix(NoParameters, cookies) = last

\* Random page goes to a page the pager counts, another one if there are two; for
\* the files of a search, as long as it counts the type of files that is shown.
RandomPageIsAnother ==
  [][RandomPage /\ (list = "searchFiles" => view.typed \/ ftf = AllTypes) =>
       LET pages == getPageCount(Total(view'.rf), Size) IN
       /\ view'.page = 1 \/ view'.page \in 1..pages
       /\ pages > 1 => view'.page # view.page]_vars
=============================================================================
