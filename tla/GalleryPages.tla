---------------------------- MODULE GalleryPages ----------------------------
(***************************************************************************)
(* The files of a gallery as a user walks through them: handleGallery,     *)
(* handleGalleryFile and handleRandomPage (internal/server/handlers.go),   *)
(* with the keys and links of the pages they make (web/templates,          *)
(* web/static/app.js).                                                     *)
(*                                                                         *)
(* A gallery lists its files page by page in the order of a column that    *)
(* may be NULL; a file page has a rail with the three files before and the *)
(* three after it, and a link back to the page of the gallery it is on.    *)
(* Each handler runs several queries, and between two of them, as while a  *)
(* page is looked at, files are rated and files are downloaded: what a     *)
(* page links to is what one of its queries once found.                    *)
(*                                                                         *)
(* The browser keeps the pages it got, and their entity tags do not cover  *)
(* the database (PageCache says what they cover).  A page that is asked    *)
(* for again may be answered 304, and is shown as it was made then: the    *)
(* user may have other windows, so that there may be such a page of any    *)
(* earlier state of the database, and no rating from this browser since    *)
(* has changed its tag.                                                    *)
(***************************************************************************)
EXTENDS RatingFilter, Paging, FiniteSets, Sequences

CONSTANTS
  Files,       \* remote_file_id of the files of the gallery
  TypeOf,      \* TypeOf[f]: the type of file f
  KeyValues,   \* values of the column the gallery is sorted by
  Null,        \* what such a column holds when it is not known
  Filters,     \* the rating filters that may be in force
  Size,        \* files per page
  RailSize,    \* files on either side of a file page: 3
  MaxChanges   \* bound on the ratings and downloads

Types == {"image", "video"}
AllTypes == "all"

ASSUME GalleryAssumption ==
  /\ Files \subseteq Nat \ {0}
  /\ IsFiniteSet(Files)
  /\ TypeOf \in [Files -> Types]
  /\ KeyValues \subseteq Nat \union {Null}
  /\ Null \notin Nat
  /\ Filters \subseteq RatingFilters
  /\ Size \in Nat \ {0}
  /\ RailSize \in Nat \ {0}
  /\ MaxChanges \in Nat

NoFile == 0

VARIABLES
  key,        \* inserted_ts, uploaded_ts or bytes, whichever is sorted by
  available,  \* the files with fetched = 1 and ignored = 0
  rating,     \* local_rating
  frf, ftf,   \* the filters in force, which the cookies keep
  step,       \* the next query of the handler
  making,     \* the page being made
  view,       \* the page that is shown
  visited,    \* history: the files shown since the user last left a gallery
              \* page for a file, going to the next and the previous one
  from,       \* history: the version the oldest page of that walk goes back to
  versions    \* history: the database after every rating and download

database == <<available, rating, versions>>
session == <<key, frf, ftf>>
vars == <<key, available, rating, frf, ftf, step, making, view, visited,
          from, versions>>

\* What pages are made of: the files there are, and those that pass the filters.
Version == [available : SUBSET Files, matching : SUBSET Files]
Now == Len(versions)
Earlier(m, n) == IF m < n THEN m ELSE n

\* asof: the oldest version that the page, or the request for it, goes back to.
Page ==
  [is : {"blank", "gallery", "file"}, page : Nat,
   files : SUBSET Files, hasNext : BOOLEAN, file : Files \union {NoFile},
   prev : SUBSET Files, next : SUBSET Files, back : Nat, random : BOOLEAN,
   spelled : BOOLEAN, asof : Nat]

Blank ==
  [is |-> "blank", page |-> 0, files |-> {}, hasNext |-> FALSE,
   file |-> NoFile, prev |-> {}, next |-> {}, back |-> 0, random |-> FALSE,
   spelled |-> FALSE, asof |-> 0]

-----------------------------------------------------------------------------
(***************************************************************************)
(* The filters, the order and the queries.                                 *)
(***************************************************************************)
PassesType(type, f) == type = AllTypes \/ TypeOf[f] = type

FilesOf(type) ==
  {f \in available : Passes(frf, rating[f]) /\ PassesType(type, f)}

Matching == FilesOf(ftf)

\* ORDER BY (k IS NULL), k DESC, remote_file_id DESC: f comes before g.
Precedes(f, g) ==
  \/ key[f] # Null /\ key[g] = Null
  \/ key[f] = Null /\ key[g] = Null /\ f > g
  \/ /\ key[f] # Null /\ key[g] # Null
     /\ key[f] > key[g] \/ (key[f] = key[g] /\ f > g)

Coalesce(k) == IF k = Null THEN 0 ELSE k

\* (COALESCE(f.k,0), f.remote_file_id) > (COALESCE(g.k,0), g.remote_file_id)
RowGreater(f, g) ==
  \/ Coalesce(key[f]) > Coalesce(key[g])
  \/ Coalesce(key[f]) = Coalesce(key[g]) /\ f > g

\* The rows of S that LIMIT n keeps, in the order of the gallery or against it.
Limit(n, S) == {f \in S : Cardinality({g \in S : Precedes(g, f)}) < n}
LimitReversed(n, S) == {f \in S : Cardinality({g \in S : Precedes(f, g)}) < n}

\* The queries, when the files that match are the rows S.

\* Mutant: the inner query is in the gallery's own order.
PrevRailForward(f, S) == Limit(RailSize, {g \in S : RowGreater(g, f)})

PrevRail(f, S) == LimitReversed(RailSize, {g \in S : RowGreater(g, f)})

\* Mutant: the limit is off by one.
NextRailTooShort(f, S) == Limit(RailSize - 1, {g \in S : RowGreater(f, g)})

NextRail(f, S) == Limit(RailSize, {g \in S : RowGreater(f, g)})

\* Mutant: the file itself is counted.
RankFromOne(f, S) == Cardinality({g \in S : RowGreater(g, f)} \union {f})

FileRank(f, S) == Cardinality({g \in S : RowGreater(g, f)})

Before(f, S) == Cardinality({g \in S : Precedes(g, f)})
PageFiles(p, S) == {f \in S : Before(f, S) \in Places(p, Size)}

\* album.cnt_rf, which RipMe3 keeps: the files that are not available count, too.
cnt_rf == Cardinality(Files)

\* Mutant: the total is always the album's file count.
TotalUnfiltered(S) == cnt_rf

Total(S) ==
  IF Active(frf) \/ ftf # AllTypes THEN Cardinality(S) ELSE cnt_rf

\* What the templates make of the totals and of the rank.
HasNext(p, files, S) == (p - 1) * Size + Cardinality(files) < Total(S)
BackPage(f, S) == FileRank(f, S) \div Size + 1

\* The hotkeys and the arrows go to the last file before, the first after.
PrevFileOf(rail) == CHOOSE f \in rail : \A g \in rail : ~Precedes(f, g)
NextFileOf(rail) == CHOOSE f \in rail : \A g \in rail : ~Precedes(g, f)

Init ==
  /\ key \in [Files -> KeyValues]
  /\ available \in SUBSET Files
  /\ rating \in [Files -> {Unrated} \union Ratings]
  /\ frf \in Filters
  /\ ftf \in {AllTypes} \union Types
  /\ step = "idle"
  /\ making = Blank
  /\ view = Blank
  /\ visited = {}
  /\ from = 1
  /\ versions = <<[available |-> available, matching |-> Matching]>>

-----------------------------------------------------------------------------
(***************************************************************************)
(* handleGallery: the album with its file count, the files of the page,    *)
(* and the total, which is counted only when there is a filter.            *)
(***************************************************************************)
AskGallery(p, random, spelled) ==
  /\ step = "idle"
  /\ step' = "files"
  /\ making' = [Blank EXCEPT !.is = "gallery", !.page = p,
                             !.random = random, !.spelled = spelled,
                             !.asof = Now]
  /\ visited' = {} /\ from' = Now
  /\ UNCHANGED <<view, database, session>>

\* The page is in the browser.
Shown(page) ==
  /\ view' = page
  /\ making' = Blank
  /\ step' = "idle"
  /\ UNCHANGED <<visited, database, session>>

\* withETag: a 304 is sent before handleGallery sees the request, for a page
\* whose files were found in version v and counted in version w.
GalleryNotModified ==
  /\ step = "files"
  /\ \E v \in 1..Now : \E w \in v..Now :
       LET files == PageFiles(making.page, versions[v].matching)
       IN  Shown([making EXCEPT
                    !.files = files,
                    !.hasNext = HasNext(making.page, files, versions[w].matching),
                    !.asof = Earlier(v, making.asof)])
  /\ UNCHANGED from

QueryFiles ==
  /\ step = "files"
  /\ making' = [making EXCEPT !.files = PageFiles(making.page, Matching)]
  /\ step' = "total"
  /\ UNCHANGED <<view, visited, from, database, session>>

ShowGallery ==
  /\ step = "total"
  /\ Shown([making EXCEPT !.hasNext = HasNext(making.page, making.files, Matching)])
  /\ UNCHANGED from

-----------------------------------------------------------------------------
(***************************************************************************)
(* handleGalleryFile: the file, which need not pass the filters, the files *)
(* before it, the files after it, and its rank.                            *)
(***************************************************************************)
AskFile(f, random) ==
  /\ step = "idle"
  /\ step' = "prev"
  /\ making' = [Blank EXCEPT !.is = "file", !.file = f, !.random = random,
                             !.asof = Now]
  /\ UNCHANGED <<view, database, session>>

QueryPrev ==
  /\ step = "prev"
  /\ making' = [making EXCEPT !.prev = PrevRail(making.file, Matching)]
  /\ step' = "next"
  /\ UNCHANGED <<view, visited, from, database, session>>

QueryNext ==
  /\ step = "next"
  /\ making' = [making EXCEPT !.next = NextRail(making.file, Matching)]
  /\ step' = "rank"
  /\ UNCHANGED <<view, visited, from, database, session>>

ShowFile ==
  /\ step = "rank"
  /\ Shown([making EXCEPT !.back = BackPage(making.file, Matching)])
  /\ UNCHANGED from

\* render: the 304 is sent when the handler has done all of this, and the page
\* that is shown has a rail found in the versions u and v and a rank of w.
FileNotModified ==
  /\ step = "rank"
  /\ \E u \in 1..Now : \E v \in u..Now : \E w \in v..Now :
       /\ making.file \in versions[u].available
       /\ Shown([making EXCEPT
                    !.prev = PrevRail(making.file, versions[u].matching),
                    !.next = NextRail(making.file, versions[v].matching),
                    !.back = BackPage(making.file, versions[w].matching),
                    !.asof = Earlier(u, making.asof)])
       /\ from' = Earlier(from, u)

-----------------------------------------------------------------------------
(***************************************************************************)
(* The user.  A link from outside names no filter; the links of the pager  *)
(* and the link back spell the filters out.                                *)
(***************************************************************************)
Arrive == AskGallery(1, FALSE, FALSE)

NextPage ==
  /\ view.is = "gallery" /\ view.hasNext
  /\ AskGallery(view.page + 1, FALSE, TRUE)

PrevPage ==
  /\ view.is = "gallery" /\ view.page > 1
  /\ AskGallery(view.page - 1, FALSE, TRUE)

BackToGallery ==
  /\ view.is = "file"
  /\ AskGallery(view.back, FALSE, TRUE)

\* From a page of the gallery to a file on it: a walk begins.
OpenFile ==
  /\ view.is = "gallery"
  /\ \E f \in view.files : AskFile(f, FALSE) /\ visited' = {f}
  /\ from' = Now

NextFile ==
  /\ view.is = "file" /\ view.next # {}
  /\ AskFile(NextFileOf(view.next), FALSE)
  /\ visited' = visited \union {NextFileOf(view.next)}
  /\ UNCHANGED from

PrevFile ==
  /\ view.is = "file" /\ view.prev # {}
  /\ AskFile(PrevFileOf(view.prev), FALSE)
  /\ visited' = visited \union {PrevFileOf(view.prev)}
  /\ UNCHANGED from

-----------------------------------------------------------------------------
(***************************************************************************)
(* handleRandomPage: the rating filter comes from the cookies, the file    *)
(* type from the URL of the page the user was on, if it is there.  The     *)
(* count and the page it redirects to are one step.                        *)
(***************************************************************************)
RandomPage ==
  /\ view.is = "gallery"
  /\ LET items == Cardinality(FilesOf(IF view.spelled THEN ftf ELSE AllTypes))
     IN  \E p \in OtherPages(view.page, getPageCount(items, Size)) :
           AskGallery(p, TRUE, FALSE)

\* Mutant: the query that finds no row is not an error.
OtherFilesOrNone(f) ==
  LET others == FilesOf(AllTypes) \ {f}
  IN  IF others # {} THEN others ELSE {NoFile}

\* getRandomGalleryFilePage: another file if there is one, or the same; when
\* there is none at all it is an error, and the user goes back.
OtherFiles(f) ==
  LET others == FilesOf(AllTypes) \ {f}
  IN  IF others # {} THEN others ELSE FilesOf(AllTypes)

RandomFilePage ==
  /\ view.is = "file"
  /\ \E f \in OtherFiles(view.file) :
       AskFile(f, TRUE) /\ visited' = {f}
  /\ from' = Now

-----------------------------------------------------------------------------
(***************************************************************************)
(* Ratings, by this user or another, and downloads.                        *)
(***************************************************************************)
Changed ==
  /\ Now <= MaxChanges
  /\ UNCHANGED <<step, making, view, visited, from, session>>
  /\ versions' = Append(versions, [available |-> available', matching |-> Matching'])

Rate ==
  /\ \E f \in available, r \in {Unrated} \union Ratings :
       rating' = [rating EXCEPT ![f] = r]
  /\ UNCHANGED available
  /\ Changed

Download ==
  /\ \E f \in Files \ available : available' = available \union {f}
  /\ UNCHANGED rating
  /\ Changed

-----------------------------------------------------------------------------
Handler ==
  \/ GalleryNotModified \/ QueryFiles \/ ShowGallery
  \/ QueryPrev \/ QueryNext \/ ShowFile \/ FileNotModified

User ==
  \/ Arrive \/ NextPage \/ PrevPage \/ BackToGallery
  \/ OpenFile \/ NextFile \/ PrevFile
  \/ RandomPage \/ RandomFilePage

Next == Handler \/ User \/ Rate \/ Download

Spec == Init /\ [][Next]_vars

-----------------------------------------------------------------------------
TypeOK ==
  /\ key \in [Files -> KeyValues]
  /\ available \in SUBSET Files
  /\ rating \in [Files -> {Unrated} \union Ratings]
  /\ frf \in Filters
  /\ ftf \in {AllTypes} \union Types
  /\ step \in {"idle", "files", "total", "prev", "next", "rank"}
  /\ making \in Page
  /\ view \in Page
  /\ visited \in SUBSET Files
  /\ from \in Nat
  /\ versions \in Seq(Version)

\* The page that is shown was asked for and made in the state the database is in.
Steady == step = "idle" /\ view.asof = Now

\* The rail finds its files with a comparison that takes NULL for 0.  It is the
\* gallery's order as long as no file without a key has a larger id than one whose
\* key is 0.
KeysAreClear ==
  \A f, g \in Files : key[f] = 0 /\ key[g] = Null => g < f

\* The files that have passed the filters ever since the oldest page of the walk.
Always == {f \in Files : \A n \in from..Now : f \in versions[n].matching}

\* Nobody who walks through a gallery with the next and previous keys passes
\* over a file that the pages could have known of: between any two files of the
\* walk, all files that have passed the filters since the oldest of its pages
\* was made were shown, whatever was rated or downloaded meanwhile, between the
\* queries of a page or while it was looked at, though the pages of the walk may
\* not pass the filters any more themselves, and some come from the browser's
\* cache, each of another state of the database.
RailWalkIsComplete ==
  KeysAreClear =>
    \A f, g \in visited : \A h \in Always :
      Precedes(f, h) /\ Precedes(h, g) => h \in visited

\* The rail of a file shows its neighbours in the gallery, though it finds
\* them with another comparison than the gallery's ORDER BY.
RailMatchesGallery ==
  KeysAreClear /\ view.is = "file" /\ Steady /\ view.file \in Matching =>
    LET at == Before(view.file, Matching)
        FilesAt(places) == {f \in Matching : Before(f, Matching) \in places}
    IN  /\ view.prev = FilesAt(at - RailSize .. at - 1)
        /\ view.next = FilesAt(at + 1 .. at + RailSize)

\* "Back to Gallery" goes to the page the file is on.
BackLinkFindsTheFile ==
  KeysAreClear /\ view.is = "file" /\ Steady /\ view.file \in Matching =>
    view.file \in PageFiles(view.back, Matching)

\* When there are more files, a page has a link to the next one; with a filter,
\* only then.  Without one the link is made of cnt_rf.
NextPageHasFiles ==
  view.is = "gallery" /\ Steady =>
    /\ PageFiles(view.page + 1, Matching) # {} => view.hasNext
    /\ view.hasNext /\ (Active(frf) \/ ftf # AllTypes) =>
         PageFiles(view.page + 1, Matching) # {}

\* Random page shows a page with files, or a file that passes the filter,
\* where there is any.
ShowsTheSet ==
  view.random /\ Steady /\ Matching # {} =>
    /\ view.is = "gallery" => view.files # {}
    /\ view.is = "file" => view.file \in Matching

\* With a rating filter, random page stays within it.
RandomPageKeepsRatings == ftf = AllTypes => ShowsTheSet

\* base.gohtml:86: "Go to a random page within the current page set".
RandomPageStaysInTheSet == ShowsTheSet
=============================================================================
