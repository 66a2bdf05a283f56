------------------------- MODULE GalleryPages_proofs -------------------------
(***************************************************************************)
(* What holds of a walk through any gallery, whatever its files, its sort  *)
(* keys, its filters and the length of the rail.                           *)
(***************************************************************************)
EXTENDS GalleryPages, Paging_proofs

KeysAreKnown == key \in [Files -> KeyValues]

-----------------------------------------------------------------------------
(***************************************************************************)
(* The order of the gallery.                                               *)
(***************************************************************************)
\* The ORDER BY of the gallery puts any two files one before the other.
LEMMA OrderIsTotal ==
  ASSUME KeysAreKnown
  PROVE  /\ \A f \in Files : ~Precedes(f, f)
         /\ \A f, g \in Files : f = g \/ Precedes(f, g) \/ Precedes(g, f)
         /\ \A f, g, h \in Files : Precedes(f, g) /\ Precedes(g, h) => Precedes(f, h)
<1>1. \A f \in Files : f \in Nat /\ (key[f] = Null \/ key[f] \in Nat)
  BY GalleryAssumption DEF KeysAreKnown
<1>2. \A f \in Files : ~Precedes(f, f)
  BY <1>1 DEF Precedes
<1>3. \A f, g \in Files : f = g \/ Precedes(f, g) \/ Precedes(g, f)
  BY <1>1 DEF Precedes
<1>4. \A f, g, h \in Files : Precedes(f, g) /\ Precedes(g, h) => Precedes(f, h)
  BY <1>1 DEF Precedes
<1> QED BY <1>2, <1>3, <1>4

\* The rail's comparison, in which NULL is 0, is the gallery's order just when the
\* keys are clear.
LEMMA ComparisonsAgree ==
  ASSUME KeysAreKnown
  PROVE  KeysAreClear <=> \A f, g \in Files : RowGreater(f, g) <=> Precedes(f, g)
<1>1. \A f \in Files : f \in Nat /\ (key[f] = Null \/ key[f] \in Nat)
  BY GalleryAssumption DEF KeysAreKnown
<1>2. Null \notin Nat
  BY GalleryAssumption
<1>3. ASSUME KeysAreClear, NEW f \in Files, NEW g \in Files
      PROVE  RowGreater(f, g) <=> Precedes(f, g)
  BY <1>1, <1>2, <1>3 DEF KeysAreClear, RowGreater, Precedes, Coalesce
<1>4. ASSUME \A f, g \in Files : RowGreater(f, g) <=> Precedes(f, g),
             NEW f \in Files, NEW g \in Files, key[f] = 0, key[g] = Null
      PROVE  g < f
  <2>1. Precedes(f, g)
    BY <1>2, <1>4 DEF Precedes
  <2>2. RowGreater(f, g)
    BY <1>4, <2>1
  <2> QED BY <1>1, <1>2, <1>4, <2>2 DEF RowGreater, Coalesce
<1> QED BY <1>3, <1>4 DEF KeysAreClear

\* The order of the gallery as a set of pairs, with and against which any files are
\* a list.
GalleryOrder == {p \in Files \X Files : Precedes(p[1], p[2])}
OrderReversed == {p \in Files \X Files : Precedes(p[2], p[1])}

LEMMA FilesAreLists ==
  ASSUME KeysAreKnown, NEW S \in SUBSET Files
  PROVE  IsList(GalleryOrder, S) /\ IsList(OrderReversed, S)
<1>1. IsFiniteSet(S)
  BY GalleryAssumption, FS_Subset
<1>2. \A f, g \in S : /\ <<f, g>> \in GalleryOrder <=> Precedes(f, g)
                      /\ <<f, g>> \in OrderReversed <=> Precedes(g, f)
  BY DEF GalleryOrder, OrderReversed
<1>3. /\ \A f \in S : ~Precedes(f, f)
      /\ \A f, g \in S : f = g \/ Precedes(f, g) \/ Precedes(g, f)
      /\ \A f, g, h \in S : Precedes(f, g) /\ Precedes(g, h) => Precedes(f, h)
  BY OrderIsTotal
<1>4. IsOrder(GalleryOrder, S)
  BY <1>2, <1>3 DEF IsOrder
<1>5. IsOrder(OrderReversed, S)
  BY <1>2, <1>3 DEF IsOrder
<1> QED BY <1>1, <1>4, <1>5 DEF IsList

\* The keys go to a file of the rail, with no file of the rail before it.
LEMMA NextFileIsFirst ==
  ASSUME KeysAreKnown, NEW S \in SUBSET Files, S # {}
  PROVE  NextFileOf(S) \in S /\ \A g \in S : ~Precedes(g, NextFileOf(S))
<1>1. \E f \in S : \A g \in S : <<g, f>> \notin GalleryOrder
  BY FilesAreLists, FirstExists
<1>2. \E f \in S : \A g \in S : ~Precedes(g, f)
  BY <1>1 DEF GalleryOrder
<1> QED BY <1>2 DEF NextFileOf

LEMMA PrevFileIsLast ==
  ASSUME KeysAreKnown, NEW S \in SUBSET Files, S # {}
  PROVE  PrevFileOf(S) \in S /\ \A g \in S : ~Precedes(PrevFileOf(S), g)
<1>1. \E f \in S : \A g \in S : <<g, f>> \notin OrderReversed
  BY FilesAreLists, FirstExists
<1>2. \E f \in S : \A g \in S : ~Precedes(f, g)
  BY <1>1 DEF OrderReversed
<1> QED BY <1>2 DEF PrevFileOf
-----------------------------------------------------------------------------
(***************************************************************************)
(* The rail.                                                               *)
(***************************************************************************)
LEMMA FilesAreFinite ==
  \A S \in SUBSET Files : IsFiniteSet(S) /\ Cardinality(S) \in Nat
BY GalleryAssumption, FS_Subset, FS_CardinalityType

\* LIMIT keeps, with a row, every row before it.
LEMMA LimitIsClosed ==
  ASSUME KeysAreKnown, NEW S \in SUBSET Files,
         NEW n \in Limit(RailSize, S), NEW h \in S, Precedes(h, n)
  PROVE  h \in Limit(RailSize, S)
<1> DEFINE before(f) == {g \in S : Precedes(g, f)}
<1>1. before(h) \subseteq before(n)
  BY OrderIsTotal DEF Limit
<1>2. before(n) \in SUBSET Files
  OBVIOUS
<1> HIDE DEF before
<1>3. /\ Cardinality(before(h)) <= Cardinality(before(n))
      /\ Cardinality(before(h)) \in Nat /\ Cardinality(before(n)) \in Nat
  BY <1>1, <1>2, FilesAreFinite, FS_Subset
<1>4. Cardinality(before(n)) < RailSize
  BY DEF Limit, before
<1>5. Cardinality(before(h)) < RailSize
  BY <1>3, <1>4, GalleryAssumption
<1> QED BY <1>5 DEF Limit, before

LEMMA LimitReversedIsClosed ==
  ASSUME KeysAreKnown, NEW S \in SUBSET Files,
         NEW n \in LimitReversed(RailSize, S), NEW h \in S, Precedes(n, h)
  PROVE  h \in LimitReversed(RailSize, S)
<1> DEFINE after(f) == {g \in S : Precedes(f, g)}
<1>1. after(h) \subseteq after(n)
  BY OrderIsTotal DEF LimitReversed
<1>2. after(n) \in SUBSET Files
  OBVIOUS
<1> HIDE DEF after
<1>3. /\ Cardinality(after(h)) <= Cardinality(after(n))
      /\ Cardinality(after(h)) \in Nat /\ Cardinality(after(n)) \in Nat
  BY <1>1, <1>2, FilesAreFinite, FS_Subset
<1>4. Cardinality(after(n)) < RailSize
  BY DEF LimitReversed, after
<1>5. Cardinality(after(h)) < RailSize
  BY <1>3, <1>4, GalleryAssumption
<1> QED BY <1>5 DEF LimitReversed, after

LEMMA MatchingIsOfFiles ==
  ASSUME available \in SUBSET Files
  PROVE  Matching \in SUBSET Files
BY DEF Matching, FilesOf

LEMMA QueriesAreOfFiles ==
  ASSUME NEW S \in SUBSET Files
  PROVE  /\ \A f : PrevRail(f, S) \in SUBSET Files /\ NextRail(f, S) \in SUBSET Files
         /\ \A f : FileRank(f, S) \in Nat /\ BackPage(f, S) \in Nat \ {0}
         /\ \A p : PageFiles(p, S) \in SUBSET Files
<1>1. \A f : PrevRail(f, S) \in SUBSET Files /\ NextRail(f, S) \in SUBSET Files
  BY DEF PrevRail, NextRail, Limit, LimitReversed
<1>2. \A f : {g \in S : RowGreater(g, f)} \in SUBSET Files
  OBVIOUS
<1>3. \A f : FileRank(f, S) \in Nat
  BY <1>2, FilesAreFinite DEF FileRank
<1>4. \A f : BackPage(f, S) \in Nat \ {0}
  BY <1>3, GalleryAssumption DEF BackPage
<1> QED BY <1>1, <1>3, <1>4 DEF PageFiles

\* The rail after a file is of files after it, and has with a file all that match
\* between the two; so has the rail before it.
LEMMA NextRailIsClosed ==
  ASSUME KeysAreKnown, KeysAreClear, NEW R \in SUBSET Files,
         NEW f \in Files, NEW n \in NextRail(f, R)
  PROVE  /\ Precedes(f, n)
         /\ \A h \in R : Precedes(f, h) /\ Precedes(h, n) => h \in NextRail(f, R)
<1> DEFINE S == {g \in R : RowGreater(f, g)}
<1>1. S \in SUBSET Files /\ NextRail(f, R) = Limit(RailSize, S)
  BY DEF NextRail
<1>2. \A g \in Files : g \in S <=> g \in R /\ Precedes(f, g)
  BY ComparisonsAgree
<1> HIDE DEF S
<1>3. n \in S
  BY <1>1 DEF Limit
<1> QED BY <1>1, <1>2, <1>3, LimitIsClosed, MatchingIsOfFiles

LEMMA PrevRailIsClosed ==
  ASSUME KeysAreKnown, KeysAreClear, NEW R \in SUBSET Files,
         NEW f \in Files, NEW n \in PrevRail(f, R)
  PROVE  /\ Precedes(n, f)
         /\ \A h \in R : Precedes(n, h) /\ Precedes(h, f) => h \in PrevRail(f, R)
<1> DEFINE S == {g \in R : RowGreater(g, f)}
<1>1. S \in SUBSET Files /\ PrevRail(f, R) = LimitReversed(RailSize, S)
  BY DEF PrevRail
<1>2. \A g \in Files : g \in S <=> g \in R /\ Precedes(g, f)
  BY ComparisonsAgree
<1> HIDE DEF S
<1>3. n \in S
  BY <1>1 DEF LimitReversed
<1> QED BY <1>1, <1>2, <1>3, LimitReversedIsClosed, MatchingIsOfFiles
-----------------------------------------------------------------------------
(***************************************************************************)
(* Types.                                                                  *)
(***************************************************************************)
\* A page with a field replaced is a page.
LEMMA PageFields ==
  ASSUME NEW r \in Page
  PROVE  /\ \A S \in SUBSET Files : /\ [r EXCEPT !.files = S] \in Page
                                    /\ [r EXCEPT !.prev = S] \in Page
                                    /\ [r EXCEPT !.next = S] \in Page
         /\ \A b \in BOOLEAN : [r EXCEPT !.hasNext = b] \in Page
         /\ \A n \in Nat : /\ [r EXCEPT !.back = n] \in Page
                           /\ [r EXCEPT !.asof = n] \in Page
BY DEF Page

LEMMA NewPages ==
  ASSUME Now \in Nat
  PROVE  /\ Blank \in Page
         /\ \A p \in Nat, random \in BOOLEAN, spelled \in BOOLEAN :
              [Blank EXCEPT !.is = "gallery", !.page = p, !.random = random,
                            !.spelled = spelled, !.asof = Now] \in Page
         /\ \A f \in Files, random \in BOOLEAN :
              [Blank EXCEPT !.is = "file", !.file = f, !.random = random,
                            !.asof = Now] \in Page
BY DEF Blank, Page

LEMMA VersionsType ==
  ASSUME TypeOK
  PROVE  /\ Now \in Nat
         /\ \A n \in 1..Now : /\ n \in Nat
                              /\ versions[n].matching \in SUBSET Files
<1>1. Now \in Nat /\ \A n \in 1..Now : n \in Nat /\ versions[n] \in Version
  BY DEF TypeOK, Now
<1>2. \A version \in Version : version.matching \in SUBSET Files
  BY DEF Version
<1> QED BY <1>1, <1>2

LEMMA VersionsGrow ==
  ASSUME TypeOK, NEW version, versions' = Append(versions, version)
  PROVE  /\ Now' = Now + 1 /\ versions'[Now + 1] = version
         /\ \A n \in 1..Now : versions'[n] = versions[n]
<1>1. versions \in Seq(Version)
  BY DEF TypeOK
<1> QED BY <1>1 DEF Now

\* A 304 brings back a page of the same URL, with what was found for it then.
LEMMA OldGalleryIsShown ==
  ASSUME making \in Page, GalleryNotModified
  PROVE  /\ UNCHANGED from
         /\ \E v \in 1..Now : \E w \in v..Now : \E page :
              /\ Shown(page)
              /\ page.is = making.is /\ page.page = making.page
              /\ page.file = making.file /\ page.random = making.random
              /\ page.prev = making.prev /\ page.next = making.next
              /\ page.asof = Earlier(v, making.asof)
              /\ page.files = PageFiles(making.page, versions[v].matching)
              /\ page.hasNext = HasNext(making.page, page.files, versions[w].matching)
<1>1. PICK v, w :
        v \in 1..Now /\ w \in v..Now /\
        Shown([making EXCEPT
                 !.files = PageFiles(making.page, versions[v].matching),
                 !.hasNext = HasNext(making.page,
                                     PageFiles(making.page, versions[v].matching),
                                     versions[w].matching),
                 !.asof = Earlier(v, making.asof)])
  BY DEF GalleryNotModified
<1>2. ASSUME NEW files, NEW hasNext, NEW asof
      PROVE  LET page == [making EXCEPT !.files = files, !.hasNext = hasNext, !.asof = asof]
             IN  /\ page.is = making.is /\ page.page = making.page
                 /\ page.file = making.file /\ page.random = making.random
                 /\ page.prev = making.prev /\ page.next = making.next
                 /\ page.asof = asof /\ page.files = files /\ page.hasNext = hasNext
  BY DEF Page
<1>3. UNCHANGED from
  BY DEF GalleryNotModified
<1> DEFINE old == PageFiles(making.page, versions[v].matching)
           more == HasNext(making.page, old, versions[w].matching)
           asof == Earlier(v, making.asof)
           page == [making EXCEPT !.files = old, !.hasNext = more, !.asof = asof]
<1>4. /\ page.is = making.is /\ page.page = making.page
      /\ page.file = making.file /\ page.random = making.random
      /\ page.prev = making.prev /\ page.next = making.next
      /\ page.asof = asof /\ page.files = old /\ page.hasNext = more
  <2> HIDE DEF old, more, asof
  <2> QED BY <1>2
<1>5. Shown(page)
  BY <1>1
<1>6. page.hasNext = HasNext(making.page, page.files, versions[w].matching)
  BY <1>4
<1> HIDE DEF page
<1> QED BY <1>1, <1>3, <1>4, <1>5, <1>6

LEMMA OldFileIsShown ==
  ASSUME making \in Page, FileNotModified
  PROVE  \E u \in 1..Now : \E v \in u..Now : \E w \in v..Now : \E page :
           /\ Shown(page) /\ from' = Earlier(from, u)
           /\ page.is = making.is /\ page.page = making.page
           /\ page.file = making.file /\ page.random = making.random
           /\ page.asof = Earlier(u, making.asof)
           /\ page.prev = PrevRail(making.file, versions[u].matching)
           /\ page.next = NextRail(making.file, versions[v].matching)
           /\ page.back = BackPage(making.file, versions[w].matching)
<1>1. PICK u, v, w :
        /\ u \in 1..Now /\ v \in u..Now /\ w \in v..Now
        /\ Shown([making EXCEPT
                    !.prev = PrevRail(making.file, versions[u].matching),
                    !.next = NextRail(making.file, versions[v].matching),
                    !.back = BackPage(making.file, versions[w].matching),
                    !.asof = Earlier(u, making.asof)])
        /\ from' = Earlier(from, u)
  BY DEF FileNotModified
<1>2. ASSUME NEW prev, NEW next, NEW back, NEW asof
      PROVE  LET page == [making EXCEPT !.prev = prev, !.next = next,
                                        !.back = back, !.asof = asof]
             IN  /\ page.is = making.is /\ page.page = making.page
                 /\ page.file = making.file /\ page.random = making.random
                 /\ page.prev = prev /\ page.next = next
                 /\ page.back = back /\ page.asof = asof
  BY DEF Page
<1> DEFINE prev == PrevRail(making.file, versions[u].matching)
           next == NextRail(making.file, versions[v].matching)
           back == BackPage(making.file, versions[w].matching)
           asof == Earlier(u, making.asof)
           page == [making EXCEPT !.prev = prev, !.next = next,
                                  !.back = back, !.asof = asof]
<1>3. /\ page.is = making.is /\ page.page = making.page
      /\ page.file = making.file /\ page.random = making.random
      /\ page.prev = prev /\ page.next = next
      /\ page.back = back /\ page.asof = asof
  <2> HIDE DEF prev, next, back, asof
  <2> QED BY <1>2
<1>4. Shown(page)
  BY <1>1
<1> HIDE DEF page
<1> QED BY <1>1, <1>3, <1>4

LEMMA AskGalleryType ==
  ASSUME TypeOK, NEW p \in Nat, NEW random \in BOOLEAN, NEW spelled \in BOOLEAN,
         AskGallery(p, random, spelled)
  PROVE  TypeOK'
<1>1. making' \in Page /\ from' \in Nat
  BY NewPages, VersionsType DEF AskGallery
<1> QED BY <1>1 DEF TypeOK, AskGallery, database, session

LEMMA AskFileType ==
  ASSUME TypeOK, NEW f \in Files, NEW random \in BOOLEAN, AskFile(f, random),
         visited' \in SUBSET Files, from' \in Nat
  PROVE  TypeOK'
<1>1. making' \in Page
  BY NewPages, VersionsType DEF AskFile
<1> QED BY <1>1 DEF TypeOK, AskFile, database, session

LEMMA ShownType ==
  ASSUME TypeOK, NEW page \in Page, Shown(page), from' \in Nat
  PROVE  TypeOK'
<1>1. making' \in Page
  BY NewPages, VersionsType DEF Shown
<1> QED BY <1>1 DEF TypeOK, Shown, database, session

\* What a 304 brings back.
LEMMA OldGalleryIsAPage ==
  ASSUME TypeOK, NEW v \in 1..Now, NEW w \in v..Now, NEW S \in SUBSET Files
  PROVE  [making EXCEPT !.files = S,
                        !.hasNext = HasNext(making.page, S, versions[w].matching),
                        !.asof = Earlier(v, making.asof)] \in Page
<1>1. making \in Page /\ making.asof \in Nat
  BY DEF TypeOK, Page
<1>2. Earlier(v, making.asof) \in Nat
  BY <1>1, VersionsType DEF Earlier
<1>3. HasNext(making.page, S, versions[w].matching) \in BOOLEAN
  BY DEF HasNext
<1> QED BY <1>1, <1>2, <1>3 DEF Page

LEMMA OldFileIsAPage ==
  ASSUME TypeOK, NEW u \in 1..Now, NEW v \in u..Now, NEW w \in v..Now
  PROVE  [making EXCEPT !.prev = PrevRail(making.file, versions[u].matching),
                        !.next = NextRail(making.file, versions[v].matching),
                        !.back = BackPage(making.file, versions[w].matching),
                        !.asof = Earlier(u, making.asof)] \in Page
<1>1. making \in Page /\ making.asof \in Nat
  BY DEF TypeOK, Page
<1>2. Earlier(u, making.asof) \in Nat
  BY <1>1, VersionsType DEF Earlier
<1>3. /\ versions[u].matching \in SUBSET Files
      /\ versions[v].matching \in SUBSET Files
      /\ versions[w].matching \in SUBSET Files
  BY VersionsType
<1>4. /\ PrevRail(making.file, versions[u].matching) \in SUBSET Files
      /\ NextRail(making.file, versions[v].matching) \in SUBSET Files
      /\ BackPage(making.file, versions[w].matching) \in Nat
  BY <1>3, QueriesAreOfFiles
<1> QED BY <1>1, <1>2, <1>4 DEF Page

LEMMA TypeInitially == Init => TypeOK
<1> SUFFICES ASSUME Init PROVE TypeOK
  OBVIOUS
<1>1. available \in SUBSET Files /\ Matching \in SUBSET Files
  BY MatchingIsOfFiles DEF Init
<1>2. versions \in Seq(Version)
  BY <1>1 DEF Init, Version
<1>3. making \in Page /\ view \in Page
  BY DEF Init, Blank, Page
<1> QED BY <1>2, <1>3 DEF Init, TypeOK

LEMMA TypeInductive == TypeOK /\ [Next]_vars => TypeOK'
<1> SUFFICES ASSUME TypeOK, [Next]_vars PROVE TypeOK'
  OBVIOUS
<1>1. /\ available \in SUBSET Files /\ making \in Page /\ view \in Page
      /\ KeysAreKnown /\ Matching \in SUBSET Files /\ Now \in Nat /\ from \in Nat
  BY MatchingIsOfFiles, VersionsType DEF TypeOK, KeysAreKnown
<1>2. /\ view.page \in Nat /\ view.back \in Nat /\ view.files \in SUBSET Files
      /\ view.prev \in SUBSET Files /\ view.next \in SUBSET Files
      /\ view.spelled \in BOOLEAN
  BY <1>1 DEF Page
<1>3. CASE QueryFiles
  <2>1. making' \in Page
    BY <1>1, <1>3, QueriesAreOfFiles, PageFields DEF QueryFiles
  <2> QED BY <1>3, <2>1 DEF QueryFiles, TypeOK, database, session
<1>4. CASE ShowGallery
  <2>1. \A b \in BOOLEAN : [making EXCEPT !.hasNext = b] \in Page
    BY <1>1, PageFields
  <2>2. HasNext(making.page, making.files, Matching) \in BOOLEAN
    BY DEF HasNext
  <2> QED BY <1>1, <1>4, <2>1, <2>2, ShownType DEF ShowGallery
<1>5. CASE GalleryNotModified
  <2>1. PICK v \in 1..Now : \E w \in v..Now :
          LET files == PageFiles(making.page, versions[v].matching) IN
          Shown([making EXCEPT
                   !.files = files,
                   !.hasNext = HasNext(making.page, files, versions[w].matching),
                   !.asof = Earlier(v, making.asof)])
    BY <1>5 DEF GalleryNotModified
  <2>2. PageFiles(making.page, versions[v].matching) \in SUBSET Files
    BY VersionsType, QueriesAreOfFiles
  <2>3. \E page \in Page : Shown(page)
    BY <2>1, <2>2, OldGalleryIsAPage
  <2> QED BY <1>1, <1>5, <2>3, ShownType DEF GalleryNotModified
<1>6. CASE QueryPrev
  <2>1. making' \in Page
    BY <1>1, <1>6, QueriesAreOfFiles, PageFields DEF QueryPrev
  <2> QED BY <1>6, <2>1 DEF QueryPrev, TypeOK, database, session
<1>7. CASE QueryNext
  <2>1. making' \in Page
    BY <1>1, <1>7, QueriesAreOfFiles, PageFields DEF QueryNext
  <2> QED BY <1>7, <2>1 DEF QueryNext, TypeOK, database, session
<1>8. CASE ShowFile
  <2>1. BackPage(making.file, Matching) \in Nat
    BY <1>1, QueriesAreOfFiles
  <2>2. [making EXCEPT !.back = BackPage(making.file, Matching)] \in Page
    BY <1>1, <2>1, PageFields
  <2> QED BY <1>1, <1>8, <2>2, ShownType DEF ShowFile
<1>9. CASE FileNotModified
  <2>1. PICK u \in 1..Now : \E v \in u..Now : \E w \in v..Now :
          /\ Shown([making EXCEPT
                      !.prev = PrevRail(making.file, versions[u].matching),
                      !.next = NextRail(making.file, versions[v].matching),
                      !.back = BackPage(making.file, versions[w].matching),
                      !.asof = Earlier(u, making.asof)])
          /\ from' = Earlier(from, u)
    BY <1>9 DEF FileNotModified
  <2>2. \E page \in Page : Shown(page)
    BY <2>1, OldFileIsAPage
  <2>3. from' \in Nat
    BY <1>1, <2>1 DEF Earlier
  <2> QED BY <2>2, <2>3, ShownType
<1>10. CASE Arrive
  BY <1>10, AskGalleryType DEF Arrive
<1>11. CASE NextPage
  <2>1. view.page + 1 \in Nat
    BY <1>2
  <2> QED BY <1>11, <2>1, AskGalleryType DEF NextPage
<1>12. CASE PrevPage
  <2>1. view.page - 1 \in Nat
    BY <1>2, <1>12 DEF PrevPage
  <2> QED BY <1>12, <2>1, AskGalleryType DEF PrevPage
<1>13. CASE BackToGallery
  BY <1>2, <1>13, AskGalleryType DEF BackToGallery
<1>14. CASE OpenFile
  BY <1>1, <1>2, <1>14, AskFileType DEF OpenFile
<1>15. CASE NextFile
  <2>1. NextFileOf(view.next) \in Files
    BY <1>1, <1>2, <1>15, NextFileIsFirst DEF NextFile
  <2> QED BY <1>15, <2>1, AskFileType DEF NextFile, TypeOK
<1>16. CASE PrevFile
  <2>1. PrevFileOf(view.prev) \in Files
    BY <1>1, <1>2, <1>16, PrevFileIsLast DEF PrevFile
  <2> QED BY <1>16, <2>1, AskFileType DEF PrevFile, TypeOK
<1>17. CASE RandomPage
  <2>1. PICK count : \E p \in OtherPages(view.page, count) : AskGallery(p, TRUE, FALSE)
    BY <1>17 DEF RandomPage
  <2>2. PICK p \in OtherPages(view.page, count) : AskGallery(p, TRUE, FALSE)
    BY <2>1
  <2>3. p \in Nat
    BY <1>2, PagesArePositive
  <2> QED BY <2>2, <2>3, AskGalleryType
<1>18. CASE RandomFilePage
  <2>1. \A f : OtherFiles(f) \subseteq Files
    BY <1>1 DEF OtherFiles, FilesOf
  <2> QED BY <1>1, <1>18, <2>1, AskFileType DEF RandomFilePage
<1>19. ASSUME Changed, available' \in SUBSET Files,
              rating' \in [Files -> {Unrated} \union Ratings]
       PROVE  TypeOK'
  <2>1. Matching' \in SUBSET Files
    BY <1>19 DEF Matching, FilesOf
  <2>2. [available |-> available', matching |-> Matching'] \in Version
    BY <1>19, <2>1 DEF Version
  <2>3. versions' \in Seq(Version)
    BY <1>19, <2>2 DEF Changed, TypeOK
  <2>4. UNCHANGED <<step, making, view, visited, from, key, frf, ftf>>
    BY <1>19 DEF Changed, session
  <2> QED BY <1>19, <2>3, <2>4 DEF TypeOK
<1>20. CASE Rate
  BY <1>19, <1>20 DEF Rate, TypeOK
<1>21. CASE Download
  BY <1>19, <1>21 DEF Download, TypeOK
<1>22. CASE UNCHANGED vars
  BY <1>22 DEF vars, TypeOK
<1> QED BY <1>3, <1>4, <1>5, <1>6, <1>7, <1>8, <1>9, <1>10, <1>11, <1>12, <1>13,
           <1>14, <1>15, <1>16, <1>17, <1>18, <1>20, <1>21, <1>22
        DEF Next, Handler, User

\* Every variable keeps its type: whatever is asked for, rated and downloaded, the
\* pages are pages of this gallery and its files, and the keys name one of them.
THEOREM TypeCorrect == Spec => []TypeOK
BY TypeInitially, TypeInductive, PTL DEF Spec
-----------------------------------------------------------------------------
(***************************************************************************)
(* The history.  The last version is what the database is now, and no page *)
(* and no walk goes back to another.                                       *)
(***************************************************************************)
VersionsFit ==
  /\ Now > 0 /\ versions[Now].matching = Matching
  /\ from \in 1..Now
  /\ making.asof <= Now /\ view.asof <= Now

LEMMA VersionsFitInitially == Init => VersionsFit
BY DEF Init, VersionsFit, Now, Blank

\* What leaves the database alone must keep the marks within the history.
LEMMA MarksFit ==
  ASSUME VersionsFit, UNCHANGED <<database, session>>, from' \in 1..Now,
         making'.asof <= Now, view'.asof <= Now
  PROVE  VersionsFit'
<1>1. Now' = Now /\ versions' = versions /\ Matching' = Matching
  BY DEF database, session, Now, Matching, FilesOf
<1> QED BY <1>1 DEF VersionsFit

LEMMA VersionsFitInductive ==
  ASSUME TypeOK, VersionsFit, [Next]_vars
  PROVE  VersionsFit'
<1>1. /\ making \in Page /\ making.asof \in Nat /\ making.asof <= Now
      /\ view.asof <= Now /\ from \in 1..Now /\ Now \in Nat /\ Blank.asof <= Now
  BY VersionsType DEF TypeOK, VersionsFit, Page, Blank
<1>2. CASE QueryFiles \/ QueryPrev \/ QueryNext
  <2>1. making'.asof = making.asof
    BY <1>1, <1>2 DEF QueryFiles, QueryPrev, QueryNext, Page
  <2>2. UNCHANGED <<view, from, database, session>>
    BY <1>2 DEF QueryFiles, QueryPrev, QueryNext
  <2> QED BY <1>1, <2>1, <2>2, MarksFit
<1>3. ASSUME NEW page, Shown(page), page.asof <= Now, from' \in 1..Now
      PROVE  VersionsFit'
  BY <1>1, <1>3, MarksFit DEF Shown
<1>4. CASE ShowGallery
  <2>1. [making EXCEPT !.hasNext = HasNext(making.page, making.files, Matching)].asof
          = making.asof
    BY <1>1 DEF Page
  <2> QED BY <1>1, <1>3, <1>4, <2>1 DEF ShowGallery
<1>5. CASE ShowFile
  <2>1. [making EXCEPT !.back = BackPage(making.file, Matching)].asof = making.asof
    BY <1>1 DEF Page
  <2> QED BY <1>1, <1>3, <1>5, <2>1 DEF ShowFile
<1>6. \A v \in 1..Now : Earlier(v, making.asof) <= Now
  BY <1>1 DEF Earlier
<1>7. CASE GalleryNotModified
  <2>1. from' = from /\ \E v \in 1..Now : \E page :
          Shown(page) /\ page.asof = Earlier(v, making.asof)
    BY <1>1, <1>7, OldGalleryIsShown
  <2> QED BY <1>1, <1>3, <1>6, <2>1
<1>8. CASE FileNotModified
  <2>1. PICK u \in 1..Now : \E page :
          Shown(page) /\ page.asof = Earlier(u, making.asof) /\ from' = Earlier(from, u)
    BY <1>1, <1>8, OldFileIsShown
  <2>2. from' \in 1..Now
    BY <1>1, <2>1 DEF Earlier
  <2> QED BY <1>3, <1>6, <2>1, <2>2
<1>9. ASSUME NEW p, NEW random, NEW spelled, AskGallery(p, random, spelled)
      PROVE  VersionsFit'
  <2>1. making'.asof = Now /\ from' = Now /\ UNCHANGED <<view, database, session>>
    BY <1>9 DEF AskGallery, Blank
  <2> QED BY <1>1, <2>1, MarksFit DEF VersionsFit
<1>10. ASSUME NEW f, NEW random, AskFile(f, random), from' \in {from, Now}
       PROVE  VersionsFit'
  <2>1. making'.asof = Now /\ UNCHANGED <<view, database, session>>
    BY <1>10 DEF AskFile, Blank
  <2> QED BY <1>1, <1>10, <2>1, MarksFit DEF VersionsFit
<1>11. CASE Arrive \/ NextPage \/ PrevPage \/ BackToGallery \/ RandomPage
  <2>1. \E p, random, spelled : AskGallery(p, random, spelled)
    BY <1>11 DEF Arrive, NextPage, PrevPage, BackToGallery, RandomPage
  <2> QED BY <1>9, <2>1
<1>12. CASE OpenFile \/ NextFile \/ PrevFile \/ RandomFilePage
  <2>1. from' \in {from, Now} /\ \E f, random : AskFile(f, random)
    BY <1>12 DEF OpenFile, NextFile, PrevFile, RandomFilePage
  <2> QED BY <1>10, <2>1
<1>13. CASE Rate \/ Download
  <2>1. /\ versions' = Append(versions, [available |-> available', matching |-> Matching'])
        /\ UNCHANGED <<making, view, from>>
    BY <1>13 DEF Rate, Download, Changed
  <2>2. /\ Now' = Now + 1
        /\ versions'[Now + 1] = [available |-> available', matching |-> Matching']
    BY <2>1, VersionsGrow
  <2>3. view.asof \in Nat
    BY DEF TypeOK, Page
  <2>4. versions'[Now'].matching = Matching'
    BY <1>1, <2>2
  <2>5. Now' \in Nat /\ Now' > Now
    BY <1>1, <2>2
  <2>6. making'.asof <= Now' /\ view'.asof <= Now' /\ from' \in 1..Now' /\ Now' > 0
    BY <1>1, <2>1, <2>3, <2>5
  <2> HIDE DEF Now
  <2> QED BY <2>4, <2>6 DEF VersionsFit
<1>14. CASE UNCHANGED vars
  BY <1>1, <1>14, MarksFit DEF vars, database, session
<1> QED BY <1>2, <1>4, <1>5, <1>7, <1>8, <1>11, <1>12, <1>13, <1>14
        DEF Next, Handler, User

\* Files leave Always and never join it during a walk.
LEMMA AlwaysMatches ==
  ASSUME TypeOK, VersionsFit
  PROVE  Always \subseteq Matching
BY VersionsType DEF VersionsFit, Always

LEMMA AlwaysShrinks ==
  ASSUME TypeOK, VersionsFit, from' = from,
         \/ versions' = versions
         \/ \E version : versions' = Append(versions, version)
  PROVE  Always' \subseteq Always
<1>1. Now' >= Now /\ Now' \in Nat /\ \A n \in 1..Now : versions'[n] = versions[n]
  <2>1. CASE versions' = versions
    BY <2>1, VersionsType DEF Now
  <2>2. CASE \E version : versions' = Append(versions, version)
    <3>1. Now' = Now + 1 /\ \A n \in 1..Now : versions'[n] = versions[n]
      BY <2>2, VersionsGrow
    <3> QED BY <3>1, VersionsType
  <2> QED BY <2>1, <2>2
<1> QED BY <1>1, VersionsType DEF VersionsFit, Always

LEMMA AlwaysGoesBack ==
  ASSUME TypeOK, VersionsFit, versions' = versions, NEW u \in 1..Now,
         from' = Earlier(from, u)
  PROVE  /\ Always' \subseteq Always
         /\ \A v \in u..Now : Always' \subseteq versions[v].matching
<1>1. /\ Now' = Now /\ from \in 1..Now /\ from' \in 1..Now /\ from' <= from
      /\ from' <= u /\ Now \in Nat
  BY VersionsType DEF Now, Earlier, VersionsFit
<1> QED BY <1>1 DEF Always

-----------------------------------------------------------------------------
(***************************************************************************)
(* A walk through the rail.  That it is complete is not inductive: the     *)
(* file the keys go to next must not have passed over any.  WalkInv adds   *)
(* that a page, while it is made and when it is shown, is of a file of the *)
(* walk, and that its rail has, with a file, all of Always between the two.*)
(***************************************************************************)
ClosedAhead(f, rail) ==
  \A n \in rail : /\ Precedes(f, n)
                  /\ \A h \in Always : Precedes(f, h) /\ Precedes(h, n) => h \in rail

ClosedBehind(f, rail) ==
  \A n \in rail : /\ Precedes(n, f)
                  /\ \A h \in Always : Precedes(n, h) /\ Precedes(h, f) => h \in rail

OnTheWay(page) ==
  page.is = "file" =>
    /\ page.file \in visited
    /\ ClosedAhead(page.file, page.next)
    /\ ClosedBehind(page.file, page.prev)

WalkIsWhole ==
  \A f, g \in visited : \A h \in Always :
    Precedes(f, h) /\ Precedes(h, g) => h \in visited

WalkInv ==
  /\ TypeOK
  /\ VersionsFit
  /\ WalkIsWhole
  /\ OnTheWay(making)
  /\ step = "idle" => OnTheWay(view)

\* The sort key of a file does not change while the user is in the gallery.
LEMMA OrderStays ==
  ASSUME key' = key
  PROVE  \A f, g : Precedes(f, g)' <=> Precedes(f, g)
BY DEF Precedes

\* What a step leaves alone it does not spoil.
LEMMA WalkStays ==
  ASSUME WalkInv, UNCHANGED <<key, visited>>, Always' \subseteq Always
  PROVE  /\ WalkIsWhole'
         /\ \A f, rail : ClosedAhead(f, rail) => ClosedAhead(f, rail)'
         /\ \A f, rail : ClosedBehind(f, rail) => ClosedBehind(f, rail)'
<1>1. WalkIsWhole'
  BY OrderStays DEF WalkInv, WalkIsWhole
<1>2. \A f, rail : ClosedAhead(f, rail) => ClosedAhead(f, rail)'
  BY OrderStays DEF ClosedAhead
<1>3. \A f, rail : ClosedBehind(f, rail) => ClosedBehind(f, rail)'
  BY OrderStays DEF ClosedBehind
<1> QED BY <1>1, <1>2, <1>3

\* The next file has nothing of Always between it and the file shown, so that
\* nothing is missing before or after it; the same for the previous one.
LEMMA StepAhead ==
  ASSUME WalkInv, step = "idle", view.is = "file", view.next # {},
         NEW n, n = NextFileOf(view.next)
  PROVE  \A f, g \in visited \union {n} : \A h \in Always :
           Precedes(f, h) /\ Precedes(h, g) => h \in visited \union {n}
<1> DEFINE c == view.file
<1>1. /\ KeysAreKnown /\ view.next \in SUBSET Files
      /\ visited \in SUBSET Files /\ Always \in SUBSET Files
  BY DEF WalkInv, TypeOK, KeysAreKnown, Page, Always
<1>2. c \in visited /\ ClosedAhead(c, view.next)
  BY DEF WalkInv, OnTheWay
<1>3. n \in view.next /\ \A g \in view.next : ~Precedes(g, n)
  BY <1>1, NextFileIsFirst
<1>4. n \in Files /\ c \in Files /\ Precedes(c, n)
  BY <1>1, <1>2, <1>3 DEF ClosedAhead
<1>5. \A h \in Always : ~(Precedes(c, h) /\ Precedes(h, n))
  BY <1>2, <1>3 DEF ClosedAhead
<1>6. \A f, g \in visited : \A h \in Always :
        Precedes(f, h) /\ Precedes(h, g) => h \in visited
  BY DEF WalkInv, WalkIsWhole
<1>7. ASSUME NEW f \in visited, NEW h \in Always, Precedes(f, h), Precedes(h, n)
      PROVE  h \in visited
  <2>1. h = c \/ Precedes(h, c)
    BY <1>1, <1>4, <1>5, <1>7, OrderIsTotal
  <2> QED BY <1>2, <1>6, <1>7, <2>1
<1>8. ASSUME NEW g \in visited, NEW h \in Always, Precedes(n, h), Precedes(h, g)
      PROVE  h \in visited
  <2>1. Precedes(c, h)
    BY <1>1, <1>4, <1>8, OrderIsTotal
  <2> QED BY <1>2, <1>6, <1>8, <2>1
<1>9. \A h \in Always : ~(Precedes(n, h) /\ Precedes(h, n))
  BY <1>1, <1>4, OrderIsTotal
<1> HIDE DEF c
<1> QED BY <1>6, <1>7, <1>8, <1>9

LEMMA StepBehind ==
  ASSUME WalkInv, step = "idle", view.is = "file", view.prev # {},
         NEW n, n = PrevFileOf(view.prev)
  PROVE  \A f, g \in visited \union {n} : \A h \in Always :
           Precedes(f, h) /\ Precedes(h, g) => h \in visited \union {n}
<1> DEFINE c == view.file
<1>1. /\ KeysAreKnown /\ view.prev \in SUBSET Files
      /\ visited \in SUBSET Files /\ Always \in SUBSET Files
  BY DEF WalkInv, TypeOK, KeysAreKnown, Page, Always
<1>2. c \in visited /\ ClosedBehind(c, view.prev)
  BY DEF WalkInv, OnTheWay
<1>3. n \in view.prev /\ \A g \in view.prev : ~Precedes(n, g)
  BY <1>1, PrevFileIsLast
<1>4. n \in Files /\ c \in Files /\ Precedes(n, c)
  BY <1>1, <1>2, <1>3 DEF ClosedBehind
<1>5. \A h \in Always : ~(Precedes(n, h) /\ Precedes(h, c))
  BY <1>2, <1>3 DEF ClosedBehind
<1>6. \A f, g \in visited : \A h \in Always :
        Precedes(f, h) /\ Precedes(h, g) => h \in visited
  BY DEF WalkInv, WalkIsWhole
<1>7. ASSUME NEW g \in visited, NEW h \in Always, Precedes(n, h), Precedes(h, g)
      PROVE  h \in visited
  <2>1. h = c \/ Precedes(c, h)
    BY <1>1, <1>4, <1>5, <1>7, OrderIsTotal
  <2> QED BY <1>2, <1>6, <1>7, <2>1
<1>8. ASSUME NEW f \in visited, NEW h \in Always, Precedes(f, h), Precedes(h, n)
      PROVE  h \in visited
  <2>1. Precedes(h, c)
    BY <1>1, <1>4, <1>8, OrderIsTotal
  <2> QED BY <1>2, <1>6, <1>8, <2>1
<1>9. \A h \in Always : ~(Precedes(n, h) /\ Precedes(h, n))
  BY <1>1, <1>4, OrderIsTotal
<1> HIDE DEF c
<1> QED BY <1>6, <1>7, <1>8, <1>9

LEMMA WalkInitially == Init => WalkInv
<1> SUFFICES ASSUME Init PROVE WalkInv
  OBVIOUS
<1>1. TypeOK /\ VersionsFit
  BY TypeInitially, VersionsFitInitially
<1>2. OnTheWay(making) /\ OnTheWay(view)
  BY DEF Init, Blank, OnTheWay
<1> QED BY <1>1, <1>2 DEF Init, WalkInv, WalkIsWhole

\* Asking for a page of the gallery ends the walk.
LEMMA WalkEnds ==
  ASSUME WalkInv, TypeOK', VersionsFit', NEW p, NEW random, NEW spelled,
         AskGallery(p, random, spelled)
  PROVE  WalkInv'
<1>1. visited' = {} /\ step' # "idle"
  BY DEF AskGallery
<1>2. making'.is = "gallery"
  BY DEF AskGallery, Blank
<1>3. OnTheWay(making)'
  BY <1>2 DEF OnTheWay
<1> QED BY <1>1, <1>3 DEF WalkInv, WalkIsWhole

\* The page of a file begins without a rail.
LEMMA RailIsEmpty ==
  ASSUME NEW f, NEW random, AskFile(f, random), f \in visited'
  PROVE  OnTheWay(making)' /\ step' # "idle"
<1>1. making'.file = f /\ making'.next = {} /\ making'.prev = {}
  BY DEF AskFile, Blank
<1>2. step' # "idle"
  BY DEF AskFile
<1> QED BY <1>1, <1>2 DEF OnTheWay, ClosedAhead, ClosedBehind

\* A file chosen from the gallery, or at random, begins another walk.
LEMMA WalkBegins ==
  ASSUME WalkInv, TypeOK', VersionsFit', NEW f, NEW random, AskFile(f, random),
         visited' = {f}
  PROVE  WalkInv'
<1>1. OnTheWay(making)' /\ step' # "idle"
  BY RailIsEmpty
<1>2. key' = key
  BY DEF AskFile, session
<1>3. f \in Files /\ Always' \in SUBSET Files /\ KeysAreKnown
  BY DEF TypeOK, WalkInv, KeysAreKnown, Always
<1>4. \A h \in Always' : ~(Precedes(f, h) /\ Precedes(h, f))
  BY <1>3, OrderIsTotal
<1>5. WalkIsWhole'
  BY <1>2, <1>4, OrderStays DEF WalkIsWhole
<1> QED BY <1>1, <1>5 DEF WalkInv

\* The keys go on with it.
LEMMA WalkGoesOn ==
  ASSUME WalkInv, TypeOK', VersionsFit', NEW n, AskFile(n, FALSE),
         visited' = visited \union {n}, from' = from,
         \A f, g \in visited \union {n} : \A h \in Always :
           Precedes(f, h) /\ Precedes(h, g) => h \in visited \union {n}
  PROVE  WalkInv'
<1>1. OnTheWay(making)' /\ step' # "idle"
  BY RailIsEmpty
<1>2. key' = key /\ versions' = versions
  BY DEF AskFile, database, session
<1>3. Always' \subseteq Always
  BY <1>2, AlwaysShrinks DEF WalkInv
<1>4. WalkIsWhole'
  BY <1>2, <1>3, OrderStays DEF WalkIsWhole
<1> QED BY <1>1, <1>4 DEF WalkInv

\* A page is shown, with the rail it had while it was made, or another.
LEMMA WalkIsShown ==
  ASSUME WalkInv, TypeOK', VersionsFit', Always' \subseteq Always,
         NEW page, Shown(page), page.is = making.is, page.file = making.file,
         page.is = "file" => /\ ClosedAhead(page.file, page.next)'
                             /\ ClosedBehind(page.file, page.prev)'
  PROVE  WalkInv'
<1>1. /\ UNCHANGED <<key, visited>> /\ view' = page /\ making' = Blank
  BY DEF Shown, session
<1>2. WalkIsWhole'
  BY <1>1, WalkStays
<1>3. OnTheWay(view)'
  BY <1>1 DEF WalkInv, OnTheWay, ClosedAhead, ClosedBehind
<1>4. OnTheWay(making)'
  BY <1>1 DEF OnTheWay, Blank
<1> QED BY <1>2, <1>3, <1>4 DEF WalkInv

\* A rail of a version that has all of Always is closed under it.
LEMMA RailIsClosed ==
  ASSUME TypeOK, KeysAreClear, NEW R \in SUBSET Files, NEW f \in Files,
         Always \subseteq R
  PROVE  ClosedAhead(f, NextRail(f, R)) /\ ClosedBehind(f, PrevRail(f, R))
<1>1. KeysAreKnown
  BY DEF TypeOK, KeysAreKnown
<1> QED BY <1>1, NextRailIsClosed, PrevRailIsClosed DEF ClosedAhead, ClosedBehind

\* The same of a rail that is found in an older version, when the walk goes back to it.
LEMMA OldRailIsClosed ==
  ASSUME TypeOK, KeysAreClear, NEW R \in SUBSET Files, NEW f \in Files,
         NEW next, next = NextRail(f, R), NEW prev, prev = PrevRail(f, R),
         key' = key
  PROVE  /\ Always' \subseteq R => \A n \in next :
              /\ Precedes(f, n)'
              /\ \A h \in Always' : Precedes(f, h)' /\ Precedes(h, n)' => h \in next
         /\ Always' \subseteq R => \A n \in prev :
              /\ Precedes(n, f)'
              /\ \A h \in Always' : Precedes(n, h)' /\ Precedes(h, f)' => h \in prev
<1>1. KeysAreKnown
  BY DEF TypeOK, KeysAreKnown
<1>2. \A n \in next :
        /\ Precedes(f, n)
        /\ \A h \in R : Precedes(f, h) /\ Precedes(h, n) => h \in next
  BY <1>1, NextRailIsClosed
<1>3. \A n \in prev :
        /\ Precedes(n, f)
        /\ \A h \in R : Precedes(n, h) /\ Precedes(h, f) => h \in prev
  BY <1>1, PrevRailIsClosed
<1> QED BY <1>2, <1>3, OrderStays

LEMMA WalkInductive ==
  ASSUME KeysAreClear
  PROVE  WalkInv /\ [Next]_vars => WalkInv'
<1> SUFFICES ASSUME WalkInv, [Next]_vars PROVE WalkInv'
  OBVIOUS
<1>1. TypeOK /\ TypeOK' /\ VersionsFit /\ VersionsFit'
  BY TypeInductive, VersionsFitInductive DEF WalkInv
<1>2. /\ KeysAreKnown /\ Matching \in SUBSET Files /\ Always \subseteq Matching
      /\ visited \in SUBSET Files /\ making \in Page
  BY <1>1, MatchingIsOfFiles, AlwaysMatches DEF TypeOK, KeysAreKnown
<1>3. making.is = "file" => making.file \in Files
  BY <1>2 DEF WalkInv, OnTheWay
\* A query of a handler, or the page it has made.
<1>4. ASSUME UNCHANGED <<visited, from, database, session>>
      PROVE  /\ WalkIsWhole' /\ Always' \subseteq Always
             /\ \A f, rail : ClosedAhead(f, rail) => ClosedAhead(f, rail)'
             /\ \A f, rail : ClosedBehind(f, rail) => ClosedBehind(f, rail)'
  <2>1. Always' \subseteq Always
    BY <1>1, <1>4, AlwaysShrinks DEF database
  <2>2. UNCHANGED <<key, visited>>
    BY <1>4 DEF session
  <2> QED BY <2>1, <2>2, WalkStays
<1>5. CASE QueryFiles
  <2>1. making'.is = making.is /\ making'.file = making.file
        /\ making'.next = making.next /\ making'.prev = making.prev
    BY <1>2, <1>5 DEF QueryFiles, Page
  <2>2. OnTheWay(making)' /\ step' # "idle"
    BY <1>4, <1>5, <2>1 DEF QueryFiles, WalkInv, OnTheWay
  <2> QED BY <1>1, <1>4, <1>5, <2>2 DEF QueryFiles, WalkInv
<1>6. CASE QueryPrev
  <2>1. making'.is = making.is /\ making'.file = making.file
        /\ making'.next = making.next /\ making'.prev = PrevRail(making.file, Matching)
    BY <1>2, <1>6 DEF QueryPrev, Page
  <2>2. making.is = "file" => ClosedBehind(making.file, PrevRail(making.file, Matching))
    BY <1>1, <1>2, <1>3, RailIsClosed
  <2>3. OnTheWay(making)' /\ step' # "idle"
    BY <1>4, <1>6, <2>1, <2>2 DEF QueryPrev, WalkInv, OnTheWay
  <2> QED BY <1>1, <1>4, <1>6, <2>3 DEF QueryPrev, WalkInv
<1>7. CASE QueryNext
  <2>1. making'.is = making.is /\ making'.file = making.file
        /\ making'.prev = making.prev /\ making'.next = NextRail(making.file, Matching)
    BY <1>2, <1>7 DEF QueryNext, Page
  <2>2. making.is = "file" => ClosedAhead(making.file, NextRail(making.file, Matching))
    BY <1>1, <1>2, <1>3, RailIsClosed
  <2>3. OnTheWay(making)' /\ step' # "idle"
    BY <1>4, <1>7, <2>1, <2>2 DEF QueryNext, WalkInv, OnTheWay
  <2> QED BY <1>1, <1>4, <1>7, <2>3 DEF QueryNext, WalkInv
\* The page that was made, with the rail that it had.
<1>8. ASSUME UNCHANGED from, NEW page, Shown(page),
             page.is = making.is, page.file = making.file,
             page.is = "file" => page.next = making.next /\ page.prev = making.prev
      PROVE  WalkInv'
  <2>1. UNCHANGED <<visited, from, database, session>>
    BY <1>8 DEF Shown
  <2>2. page.is = "file" => /\ ClosedAhead(page.file, page.next)'
                            /\ ClosedBehind(page.file, page.prev)'
    BY <1>4, <1>8, <2>1 DEF WalkInv, OnTheWay
  <2> QED BY <1>1, <1>4, <1>8, <2>1, <2>2, WalkIsShown
<1>9. CASE ShowGallery
  <2> DEFINE page == [making EXCEPT !.hasNext = HasNext(making.page, making.files, Matching)]
  <2>1. /\ page.is = making.is /\ page.file = making.file
        /\ page.next = making.next /\ page.prev = making.prev
    BY <1>2 DEF Page
  <2> QED BY <1>8, <1>9, <2>1 DEF ShowGallery
<1>10. CASE ShowFile
  <2> DEFINE page == [making EXCEPT !.back = BackPage(making.file, Matching)]
  <2>1. /\ page.is = making.is /\ page.file = making.file
        /\ page.next = making.next /\ page.prev = making.prev
    BY <1>2 DEF Page
  <2> QED BY <1>8, <1>10, <2>1 DEF ShowFile
<1>11. CASE GalleryNotModified
  <2>1. from' = from /\ \E page :
          /\ Shown(page) /\ page.is = making.is /\ page.file = making.file
          /\ page.next = making.next /\ page.prev = making.prev
    BY <1>2, <1>11, OldGalleryIsShown
  <2> QED BY <1>8, <2>1
<1>12. CASE FileNotModified
  <2>1. PICK u, v : u \in 1..Now /\ v \in u..Now /\ \E page :
          /\ Shown(page) /\ from' = Earlier(from, u)
          /\ page.is = making.is /\ page.file = making.file
          /\ page.prev = PrevRail(making.file, versions[u].matching)
          /\ page.next = NextRail(making.file, versions[v].matching)
    BY <1>2, <1>12, OldFileIsShown
  <2>2. PICK page :
          /\ Shown(page) /\ page.is = making.is /\ page.file = making.file
          /\ page.prev = PrevRail(making.file, versions[u].matching)
          /\ page.next = NextRail(making.file, versions[v].matching)
    BY <2>1
  <2>3. from' = Earlier(from, u)
    BY <2>1
  <2>4. /\ UNCHANGED <<key, versions>>
        /\ u \in 1..Now /\ u \in u..Now /\ v \in u..Now /\ v \in 1..Now
    BY <1>1, <2>1, <2>2, VersionsType DEF Shown, database, session
  <2>5. /\ Always' \subseteq Always /\ Always' \subseteq versions[u].matching
        /\ Always' \subseteq versions[v].matching
    BY <1>1, <2>3, <2>4, AlwaysGoesBack
  <2>6. versions[u].matching \in SUBSET Files /\ versions[v].matching \in SUBSET Files
    BY <1>1, <2>4, VersionsType
  <2>7. page.is = "file" => /\ ClosedAhead(page.file, page.next)'
                            /\ ClosedBehind(page.file, page.prev)'
    <3> SUFFICES ASSUME page.is = "file"
                 PROVE  /\ ClosedAhead(page.file, page.next)'
                        /\ ClosedBehind(page.file, page.prev)'
      OBVIOUS
    <3>1. page.file \in Files /\ making.file = page.file
      BY <1>3, <2>2
    <3>2. /\ page.next = NextRail(page.file, versions[v].matching)
          /\ page.prev = PrevRail(page.file, versions[u].matching)
      BY <2>2, <3>1
    <3>3. PICK f, next, prev : f = page.file /\ next = page.next /\ prev = page.prev
      OBVIOUS
    <3>4. PICK R, S : R = versions[v].matching /\ S = versions[u].matching
      OBVIOUS
    <3>5. /\ f \in Files /\ next = NextRail(f, R) /\ prev = PrevRail(f, S)
          /\ R \in SUBSET Files /\ S \in SUBSET Files
          /\ Always' \subseteq R /\ Always' \subseteq S
      BY <2>5, <2>6, <3>1, <3>2, <3>3, <3>4
    <3>6. ClosedAhead(f, next)'
      BY <1>1, <2>4, <3>5, OldRailIsClosed DEF ClosedAhead
    <3>7. ClosedBehind(f, prev)'
      BY <1>1, <2>4, <3>5, OldRailIsClosed DEF ClosedBehind
    <3> QED BY <3>3, <3>6, <3>7 DEF ClosedAhead, ClosedBehind
  <2> QED BY <1>1, <2>2, <2>5, <2>7, WalkIsShown
<1>13. CASE Arrive \/ NextPage \/ PrevPage \/ BackToGallery \/ RandomPage
  <2>1. \E p, random, spelled : AskGallery(p, random, spelled)
    BY <1>13 DEF Arrive, NextPage, PrevPage, BackToGallery, RandomPage
  <2> QED BY <1>1, <2>1, WalkEnds
<1>14. CASE OpenFile \/ RandomFilePage
  <2>1. \E f, random : AskFile(f, random) /\ visited' = {f}
    BY <1>14 DEF OpenFile, RandomFilePage
  <2> QED BY <1>1, <2>1, WalkBegins
<1>15. CASE NextFile
  <2>1. step = "idle" /\ from' = from
    BY <1>15 DEF NextFile, AskFile
  <2> QED BY <1>1, <1>15, <2>1, StepAhead, WalkGoesOn DEF NextFile
<1>16. CASE PrevFile
  <2>1. step = "idle" /\ from' = from
    BY <1>16 DEF PrevFile, AskFile
  <2> QED BY <1>1, <1>16, <2>1, StepBehind, WalkGoesOn DEF PrevFile
<1>17. CASE Rate \/ Download
  <2>1. /\ UNCHANGED <<key, visited, step, making, view, from>>
        /\ \E version : versions' = Append(versions, version)
    BY <1>17 DEF Rate, Download, Changed, session
  <2>2. Always' \subseteq Always
    BY <1>1, <2>1, AlwaysShrinks
  <2>3. OnTheWay(making)' /\ (step' = "idle" => OnTheWay(view)')
    BY <2>1, <2>2, WalkStays DEF WalkInv, OnTheWay
  <2> QED BY <1>1, <2>1, <2>2, <2>3, WalkStays DEF WalkInv
<1>18. CASE UNCHANGED vars
  <2>1. /\ UNCHANGED <<visited, from, database, session, step, making, view>>
    BY <1>18 DEF vars, database, session
  <2>2. OnTheWay(making)' /\ (step' = "idle" => OnTheWay(view)')
    BY <1>4, <2>1 DEF WalkInv, OnTheWay
  <2> QED BY <1>1, <1>4, <2>1, <2>2 DEF WalkInv
<1> QED BY <1>5, <1>6, <1>7, <1>9, <1>10, <1>11, <1>12, <1>13, <1>14, <1>15, <1>16,
           <1>17, <1>18 DEF Next, Handler, User

\* Nobody who walks through the rail with the keys passes over a file that all
\* the pages of the walk could have known of, for any gallery with clear keys, any
\* length of the rail, any ratings and downloads meanwhile, and any pages of the
\* walk that come from the browser's cache.
THEOREM WalkIsComplete == Spec => []RailWalkIsComplete
<1> DEFINE Inv == TypeOK /\ (KeysAreClear => WalkInv)
<1>1. Init => Inv
  BY WalkInitially, TypeInitially
<1>2. Inv /\ [Next]_vars => Inv'
  <2> SUFFICES ASSUME Inv, [Next]_vars PROVE Inv'
    OBVIOUS
  <2>1. key' = key
    BY DEF Next, Handler, User, Arrive, NextPage, PrevPage, BackToGallery, OpenFile,
           NextFile, PrevFile, RandomPage, RandomFilePage, AskGallery, AskFile, Shown,
           GalleryNotModified, QueryFiles, ShowGallery, QueryPrev, QueryNext, ShowFile,
           FileNotModified, Rate, Download, Changed, session, vars
  <2>2. KeysAreClear' => KeysAreClear
    BY <2>1 DEF KeysAreClear
  <2> QED BY <2>2, TypeInductive, WalkInductive
<1>3. Inv => RailWalkIsComplete
  BY DEF WalkInv, WalkIsWhole, RailWalkIsComplete
<1> QED BY <1>1, <1>2, <1>3, PTL DEF Spec

-----------------------------------------------------------------------------
(***************************************************************************)
(* Places.  The files that match are a list of the gallery's order.        *)
(***************************************************************************)
DatabaseIsKnown == KeysAreKnown /\ available \in SUBSET Files

FilesBetween(f, g) == {h \in Matching : Precedes(f, h) /\ Precedes(h, g)}

LEMMA GalleryIsAList ==
  ASSUME DatabaseIsKnown
  PROVE  /\ IsList(GalleryOrder, Matching)
         /\ \A f, g \in Matching : <<f, g>> \in GalleryOrder <=> Precedes(f, g)
         /\ \A f \in Matching : Before(f, Matching) = Place(GalleryOrder, Matching, f)
         /\ \A f, g \in Matching :
              FilesBetween(f, g) = Between(GalleryOrder, Matching, f, g)
         /\ \A p : PageFiles(p, Matching) = RowsOfPage(GalleryOrder, Matching, p, Size)
<1>1. Matching \in SUBSET Files
  BY MatchingIsOfFiles DEF DatabaseIsKnown
<1>2. \A f, g \in Matching : <<f, g>> \in GalleryOrder <=> Precedes(f, g)
  BY <1>1 DEF GalleryOrder
<1>3. \A f \in Matching : Before(f, Matching) = Place(GalleryOrder, Matching, f)
  <2> TAKE f \in Matching
  <2>1. {h \in Matching : Precedes(h, f)} = {h \in Matching : <<h, f>> \in GalleryOrder}
    BY <1>2
  <2> QED BY <2>1 DEF Before, Place
<1>4. \A f, g \in Matching : FilesBetween(f, g) = Between(GalleryOrder, Matching, f, g)
  BY <1>2 DEF FilesBetween, Between
<1>5. \A p : PageFiles(p, Matching) = RowsOfPage(GalleryOrder, Matching, p, Size)
  BY <1>3 DEF PageFiles, RowsOfPage
<1> QED BY <1>1, <1>2, <1>3, <1>4, <1>5, FilesAreLists DEF DatabaseIsKnown

LEMMA PlacesInTheGallery ==
  ASSUME DatabaseIsKnown, NEW f \in Matching, NEW g \in Matching
  PROVE  /\ Before(f, Matching) \in Nat /\ Before(g, Matching) \in Nat
         /\ Precedes(f, g) <=> Before(f, Matching) < Before(g, Matching)
         /\ Precedes(f, g) => Before(g, Matching) = Before(f, Matching) + 1 + Cardinality(FilesBetween(f, g))
<1>1. /\ Before(f, Matching) \in Nat /\ Before(g, Matching) \in Nat
      /\ <<f, g>> \in GalleryOrder <=> Before(f, Matching) < Before(g, Matching)
  <2> DEFINE place(h) == Place(GalleryOrder, Matching, h)
  <2>1. IsList(GalleryOrder, Matching) /\ Before(f, Matching) = place(f) /\ Before(g, Matching) = place(g)
    BY GalleryIsAList
  <2>2. /\ place(f) \in Nat /\ place(g) \in Nat
        /\ <<f, g>> \in GalleryOrder <=> place(f) < place(g)
    BY <2>1, PlacesFollowTheOrder
  <2> HIDE DEF place
  <2> QED BY <2>1, <2>2
<1>2. <<f, g>> \in GalleryOrder =>
        Before(g, Matching) = Before(f, Matching) + 1 + Cardinality(FilesBetween(f, g))
  BY GalleryIsAList, PlaceDifference
<1> QED BY <1>1, <1>2, GalleryIsAList

\* The rail of a file that matches is of the places before and after its own.
LEMMA RailIsTheNeighbours ==
  ASSUME DatabaseIsKnown, KeysAreClear, NEW f \in Matching
  PROVE  LET at == Before(f, Matching) IN
         /\ PrevRail(f, Matching) = {g \in Matching : Before(g, Matching) \in at - RailSize .. at - 1}
         /\ NextRail(f, Matching) = {g \in Matching : Before(g, Matching) \in at + 1 .. at + RailSize}
<1> DEFINE at == Before(f, Matching)
<1>1. Matching \in SUBSET Files /\ RailSize \in Nat
  BY MatchingIsOfFiles, GalleryAssumption DEF DatabaseIsKnown
<1>2. \A g, h \in Matching : RowGreater(g, h) <=> Precedes(g, h)
  BY <1>1, ComparisonsAgree DEF DatabaseIsKnown
<1>3. \A g, h : Cardinality(FilesBetween(g, h)) \in Nat
  <2>1. \A g, h : FilesBetween(g, h) \in SUBSET Files
    BY <1>1 DEF FilesBetween
  <2> QED BY <2>1, FilesAreFinite
<1>4. ASSUME NEW g \in Matching
      PROVE  g \in PrevRail(f, Matching) <=> Before(g, Matching) \in at - RailSize .. at - 1
  <2>1. g \in PrevRail(f, Matching) <=>
          Precedes(g, f) /\ Cardinality(FilesBetween(g, f)) < RailSize
    <3>1. {h \in {k \in Matching : RowGreater(k, f)} : Precedes(g, h)} = FilesBetween(g, f)
      BY <1>2 DEF FilesBetween
    <3> QED BY <1>2, <3>1 DEF PrevRail, LimitReversed
  <2>2. Before(g, Matching) \in Nat /\ at \in Nat /\ (Precedes(g, f) <=> Before(g, Matching) < at)
    BY PlacesInTheGallery
  <2>3. Precedes(g, f) => at = Before(g, Matching) + 1 + Cardinality(FilesBetween(g, f))
    BY PlacesInTheGallery
  <2> HIDE DEF at
  <2> QED BY <1>1, <1>3, <2>1, <2>2, <2>3
<1>5. ASSUME NEW g \in Matching
      PROVE  g \in NextRail(f, Matching) <=> Before(g, Matching) \in at + 1 .. at + RailSize
  <2>1. g \in NextRail(f, Matching) <=>
          Precedes(f, g) /\ Cardinality(FilesBetween(f, g)) < RailSize
    <3>1. {h \in {k \in Matching : RowGreater(f, k)} : Precedes(h, g)} = FilesBetween(f, g)
      BY <1>2 DEF FilesBetween
    <3> QED BY <1>2, <3>1 DEF NextRail, Limit
  <2>2. Before(g, Matching) \in Nat /\ at \in Nat /\ (Precedes(f, g) <=> at < Before(g, Matching))
    BY PlacesInTheGallery
  <2>3. Precedes(f, g) => Before(g, Matching) = at + 1 + Cardinality(FilesBetween(f, g))
    BY PlacesInTheGallery
  <2> HIDE DEF at
  <2> QED BY <1>1, <1>3, <2>1, <2>2, <2>3
<1>6. PrevRail(f, Matching) \subseteq Matching /\ NextRail(f, Matching) \subseteq Matching
  BY DEF PrevRail, NextRail, Limit, LimitReversed
<1> QED BY <1>4, <1>5, <1>6

\* The page that the link back names, by division of the rank, has the file.
LEMMA BackIsThePage ==
  ASSUME DatabaseIsKnown, KeysAreClear, NEW f \in Matching
  PROVE  f \in PageFiles(BackPage(f, Matching), Matching)
<1>1. f \in Files /\ Matching \in SUBSET Files
  BY MatchingIsOfFiles DEF DatabaseIsKnown
<1>2. FileRank(f, Matching) = Before(f, Matching)
  <2>1. {g \in Matching : RowGreater(g, f)} = {g \in Matching : Precedes(g, f)}
    BY <1>1, ComparisonsAgree DEF DatabaseIsKnown
  <2> QED BY <2>1 DEF FileRank, Before
<1>3. Before(f, Matching) \in Nat /\ Size \in Nat \ {0}
  BY PlacesInTheGallery, GalleryAssumption
<1>4. Before(f, Matching) \in Places(Before(f, Matching) \div Size + 1, Size)
  BY <1>3, PageOfPlace
<1> QED BY <1>2, <1>4 DEF PageFiles, BackPage
-----------------------------------------------------------------------------
(***************************************************************************)
(* A page that goes back to no older state of the database than the present *)
(* agrees with it.  SteadyInv follows the queries of a handler: what each   *)
(* has found is what it would find again, until something changes.          *)
(***************************************************************************)
\* What the queries up to this step have put into the page.
Found ==
  /\ step \in {"next", "rank"} => making.prev = PrevRail(making.file, Matching)
  /\ step = "rank" => making.next = NextRail(making.file, Matching)
  /\ step = "total" => making.files = PageFiles(making.page, Matching)

ShowsTheDatabase(page) ==
  /\ page.is = "gallery" =>
       /\ page.files = PageFiles(page.page, Matching)
       /\ page.hasNext = HasNext(page.page, page.files, Matching)
  /\ page.is = "file" =>
       /\ page.prev = PrevRail(page.file, Matching)
       /\ page.next = NextRail(page.file, Matching)
       /\ page.back = BackPage(page.file, Matching)

\* A page that random page went to: it begins before the last file, or is of one.
DrawnFromTheSet(page) ==
  page.random /\ ftf = AllTypes /\ Matching # {} =>
    /\ page.is = "gallery" => (page.page - 1) * Size < Cardinality(Matching)
    /\ page.is = "file" => page.file \in Matching

\* Handlers and pages fit together, and every page of the gallery has a number.
HandlersFit ==
  /\ step \in {"prev", "next", "rank"} => making.is = "file"
  /\ step \in {"files", "total"} => making.is = "gallery"
  /\ making.is = "gallery" => making.page > 0
  /\ view.is = "gallery" => view.page > 0
  /\ view.is = "file" => view.back > 0

SteadyInv ==
  /\ TypeOK
  /\ VersionsFit
  /\ HandlersFit
  /\ making.asof = Now => Found /\ DrawnFromTheSet(making)
  /\ step = "idle" /\ view.asof = Now =>
       ShowsTheDatabase(view) /\ DrawnFromTheSet(view)

\* The queries depend on nothing but the database and the filters.
LEMMA QueriesStay ==
  ASSUME UNCHANGED <<database, session>>
  PROVE  /\ Matching' = Matching /\ ftf' = ftf /\ Now' = Now
         /\ \A f, S : /\ PrevRail(f, S)' = PrevRail(f, S)
                      /\ NextRail(f, S)' = NextRail(f, S)
                      /\ BackPage(f, S)' = BackPage(f, S)
         /\ \A p, S : PageFiles(p, S)' = PageFiles(p, S)
         /\ \A p, files, S : HasNext(p, files, S)' = HasNext(p, files, S)
<1>1. UNCHANGED <<key, available, rating, frf, ftf, versions>>
  BY DEF database, session
<1>2. Matching' = Matching /\ ftf' = ftf /\ Now' = Now
  BY <1>1 DEF Matching, FilesOf, Now
<1>3. \A f, S : /\ PrevRail(f, S)' = PrevRail(f, S)
               /\ NextRail(f, S)' = NextRail(f, S)
  BY <1>1 DEF PrevRail, NextRail, Limit, LimitReversed, RowGreater, Precedes
<1>4. \A f, S : BackPage(f, S)' = BackPage(f, S)
  BY <1>1 DEF BackPage, FileRank, RowGreater
<1>5. \A p, S : PageFiles(p, S)' = PageFiles(p, S)
  BY <1>1 DEF PageFiles, Before, Precedes
<1>6. \A p, files, S : HasNext(p, files, S)' = HasNext(p, files, S)
  BY <1>1 DEF HasNext, Total, cnt_rf
<1> QED BY <1>2, <1>3, <1>4, <1>5, <1>6

LEMMA SteadyInitially == Init => SteadyInv
<1> SUFFICES ASSUME Init PROVE SteadyInv
  OBVIOUS
<1>1. TypeOK /\ VersionsFit
  BY TypeInitially, VersionsFitInitially
<1>2. HandlersFit /\ Found /\ ShowsTheDatabase(view)
  BY DEF Init, Blank, HandlersFit, Found, ShowsTheDatabase
<1>3. DrawnFromTheSet(making) /\ DrawnFromTheSet(view)
  BY DEF Init, Blank, DrawnFromTheSet
<1> QED BY <1>1, <1>2, <1>3 DEF SteadyInv

\* A request for a page of the gallery that is there.
LEMMA GalleryIsAsked ==
  ASSUME SteadyInv, TypeOK', VersionsFit', NEW p \in Nat \ {0}, NEW random, NEW spelled,
         AskGallery(p, random, spelled),
         random /\ ftf = AllTypes /\ Matching # {} => (p - 1) * Size < Cardinality(Matching)
  PROVE  SteadyInv'
<1>1. /\ making'.is = "gallery" /\ making'.page = p /\ making'.random = random
      /\ step' = "files" /\ view' = view
  BY DEF AskGallery, Blank
<1>2. Matching' = Matching /\ ftf' = ftf
  BY QueriesStay DEF AskGallery
<1>3. HandlersFit'
  BY <1>1 DEF SteadyInv, HandlersFit
<1>4. Found'
  BY <1>1 DEF Found
<1>5. DrawnFromTheSet(making)'
  BY <1>1, <1>2 DEF DrawnFromTheSet
<1> QED BY <1>1, <1>3, <1>4, <1>5 DEF SteadyInv

LEMMA FileIsAsked ==
  ASSUME SteadyInv, TypeOK', VersionsFit', NEW f, NEW random, AskFile(f, random),
         random /\ ftf = AllTypes /\ Matching # {} => f \in Matching
  PROVE  SteadyInv'
<1>1. /\ making'.is = "file" /\ making'.file = f /\ making'.random = random
      /\ step' = "prev" /\ view' = view
  BY DEF AskFile, Blank
<1>2. Matching' = Matching /\ ftf' = ftf
  BY QueriesStay DEF AskFile
<1>3. HandlersFit'
  BY <1>1 DEF SteadyInv, HandlersFit
<1>4. Found'
  BY <1>1 DEF Found
<1>5. DrawnFromTheSet(making)'
  BY <1>1, <1>2 DEF DrawnFromTheSet
<1> QED BY <1>1, <1>3, <1>4, <1>5 DEF SteadyInv

\* A page is shown: the one that was made, or another of the same URL.
LEMMA SteadyIsShown ==
  ASSUME SteadyInv, TypeOK', VersionsFit', NEW page, Shown(page),
         page.is = making.is, page.page = making.page, page.file = making.file,
         page.random = making.random, page.is = "file" => page.back > 0,
         page.asof = Now => making.asof = Now /\ ShowsTheDatabase(page)
  PROVE  SteadyInv'
<1>1. /\ view' = page /\ making' = Blank /\ step' = "idle"
      /\ UNCHANGED <<database, session>>
  BY DEF Shown
<1>2. HandlersFit'
  BY <1>1 DEF SteadyInv, HandlersFit, Blank
<1>3. Found' /\ DrawnFromTheSet(making)'
  BY <1>1 DEF Found, DrawnFromTheSet, Blank
<1>4. ASSUME page.asof = Now
      PROVE  ShowsTheDatabase(view)' /\ DrawnFromTheSet(view)'
  <2>1. DrawnFromTheSet(view)'
    BY <1>1, <1>4, QueriesStay DEF SteadyInv, DrawnFromTheSet
  <2>2. ShowsTheDatabase(view)'
    BY <1>1, <1>4, QueriesStay DEF ShowsTheDatabase
  <2> QED BY <2>1, <2>2
<1>5. Now' = Now
  BY <1>1, QueriesStay
<1> QED BY <1>1, <1>2, <1>3, <1>4, <1>5 DEF SteadyInv

LEMMA SteadyInductive == SteadyInv /\ [Next]_vars => SteadyInv'
<1> SUFFICES ASSUME SteadyInv, [Next]_vars PROVE SteadyInv'
  OBVIOUS
<1>1. /\ TypeOK /\ TypeOK' /\ VersionsFit /\ VersionsFit' /\ DatabaseIsKnown
      /\ Matching \in SUBSET Files
  BY TypeInductive, VersionsFitInductive, MatchingIsOfFiles
     DEF SteadyInv, TypeOK, DatabaseIsKnown, KeysAreKnown
<1>2. /\ making \in Page /\ view \in Page /\ view.page \in Nat /\ view.back \in Nat
      /\ making.asof \in Nat /\ making.asof <= Now /\ Now \in Nat
  BY <1>1, VersionsType DEF TypeOK, Page, VersionsFit
<1>3. CASE QueryFiles
  <2>1. /\ making'.is = making.is /\ making'.file = making.file
        /\ making'.page = making.page /\ making'.random = making.random
        /\ making'.files = PageFiles(making.page, Matching) /\ making'.asof = making.asof
        /\ step = "files" /\ step' = "total" /\ UNCHANGED <<view, database, session>>
    BY <1>2, <1>3 DEF QueryFiles, Page
  <2>2. HandlersFit'
    BY <2>1 DEF SteadyInv, HandlersFit
  <2>3. Found' /\ (making.asof = Now => DrawnFromTheSet(making)')
    BY <2>1, QueriesStay DEF SteadyInv, Found, DrawnFromTheSet
  <2> QED BY <1>1, <2>1, <2>2, <2>3, QueriesStay DEF SteadyInv
<1>4. CASE QueryPrev
  <2>1. /\ making'.is = making.is /\ making'.file = making.file
        /\ making'.page = making.page /\ making'.random = making.random
        /\ making'.prev = PrevRail(making.file, Matching) /\ making'.asof = making.asof
        /\ step = "prev" /\ step' = "next" /\ UNCHANGED <<view, database, session>>
    BY <1>2, <1>4 DEF QueryPrev, Page
  <2>2. HandlersFit'
    BY <2>1 DEF SteadyInv, HandlersFit
  <2>3. Found' /\ (making.asof = Now => DrawnFromTheSet(making)')
    BY <2>1, QueriesStay DEF SteadyInv, Found, DrawnFromTheSet
  <2> QED BY <1>1, <2>1, <2>2, <2>3, QueriesStay DEF SteadyInv
<1>5. CASE QueryNext
  <2>1. /\ making'.is = making.is /\ making'.file = making.file
        /\ making'.page = making.page /\ making'.random = making.random
        /\ making'.prev = making.prev /\ making'.next = NextRail(making.file, Matching)
        /\ making'.asof = making.asof
        /\ step = "next" /\ step' = "rank" /\ UNCHANGED <<view, database, session>>
    BY <1>2, <1>5 DEF QueryNext, Page
  <2>2. HandlersFit'
    BY <2>1 DEF SteadyInv, HandlersFit
  <2>3. making.asof = Now => Found' /\ DrawnFromTheSet(making)'
    BY <2>1, QueriesStay DEF SteadyInv, Found, DrawnFromTheSet
  <2> QED BY <1>1, <2>1, <2>2, <2>3, QueriesStay DEF SteadyInv
<1>6. CASE ShowGallery
  <2> DEFINE page == [making EXCEPT !.hasNext = HasNext(making.page, making.files, Matching)]
  <2>1. /\ page.is = making.is /\ page.page = making.page /\ page.file = making.file
        /\ page.random = making.random /\ page.asof = making.asof
        /\ page.files = making.files
        /\ page.hasNext = HasNext(making.page, making.files, Matching)
    BY <1>2 DEF Page
  <2>2. page.is = "gallery" /\ step = "total" /\ Shown(page)
    BY <1>6, <2>1 DEF ShowGallery, SteadyInv, HandlersFit
  <2> HIDE DEF page
  <2>3. page.asof = Now => making.asof = Now /\ ShowsTheDatabase(page)
    BY <2>1, <2>2 DEF SteadyInv, Found, ShowsTheDatabase
  <2> QED BY <1>1, <2>1, <2>2, <2>3, SteadyIsShown
<1>7. CASE ShowFile
  <2> DEFINE page == [making EXCEPT !.back = BackPage(making.file, Matching)]
  <2>1. /\ page.is = making.is /\ page.page = making.page /\ page.file = making.file
        /\ page.random = making.random /\ page.asof = making.asof
        /\ page.prev = making.prev /\ page.next = making.next
        /\ page.back = BackPage(making.file, Matching)
    BY <1>2 DEF Page
  <2>2. page.is = "file" /\ step = "rank" /\ Shown(page)
    BY <1>7, <2>1 DEF ShowFile, SteadyInv, HandlersFit
  <2>3. page.back > 0
    BY <1>1, <2>1, QueriesAreOfFiles
  <2> HIDE DEF page
  <2>4. page.asof = Now => making.asof = Now /\ ShowsTheDatabase(page)
    BY <2>1, <2>2 DEF SteadyInv, Found, ShowsTheDatabase
  <2> QED BY <1>1, <2>1, <2>2, <2>3, <2>4, SteadyIsShown
\* A page of the browser's that agrees with the present is of the last version.
<1>14. \A v \in 1..Now : Earlier(v, making.asof) = Now => v = Now /\ making.asof = Now
  BY <1>2 DEF Earlier
<1>15. CASE GalleryNotModified
  <2>1. PICK v, w : v \in 1..Now /\ w \in v..Now /\ \E page :
          /\ Shown(page)
          /\ page.is = making.is /\ page.page = making.page /\ page.file = making.file
          /\ page.random = making.random /\ page.asof = Earlier(v, making.asof)
          /\ page.files = PageFiles(making.page, versions[v].matching)
          /\ page.hasNext = HasNext(making.page, page.files, versions[w].matching)
    BY <1>2, <1>15, OldGalleryIsShown
  <2>2. PICK page :
          /\ Shown(page)
          /\ page.is = making.is /\ page.page = making.page /\ page.file = making.file
          /\ page.random = making.random /\ page.asof = Earlier(v, making.asof)
          /\ page.files = PageFiles(making.page, versions[v].matching)
          /\ page.hasNext = HasNext(making.page, page.files, versions[w].matching)
    BY <2>1
  <2>3. page.is = "gallery"
    BY <1>15, <2>2 DEF GalleryNotModified, SteadyInv, HandlersFit
  <2>4. ASSUME page.asof = Now PROVE making.asof = Now /\ ShowsTheDatabase(page)
    <3>1. v = Now /\ making.asof = Now
      BY <1>14, <2>1, <2>2, <2>4
    <3>2. w = Now
      BY <1>2, <2>1, <3>1
    <3>3. versions[v].matching = Matching /\ versions[w].matching = Matching
      BY <1>1, <3>1, <3>2 DEF VersionsFit
    <3> QED BY <2>2, <2>3, <3>1, <3>3 DEF ShowsTheDatabase
  <2> QED BY <1>1, <2>2, <2>3, <2>4, SteadyIsShown
<1>16. CASE FileNotModified
  <2>1. PICK u, v, w : u \in 1..Now /\ v \in u..Now /\ w \in v..Now /\ \E page :
          /\ Shown(page)
          /\ page.is = making.is /\ page.page = making.page /\ page.file = making.file
          /\ page.random = making.random /\ page.asof = Earlier(u, making.asof)
          /\ page.prev = PrevRail(making.file, versions[u].matching)
          /\ page.next = NextRail(making.file, versions[v].matching)
          /\ page.back = BackPage(making.file, versions[w].matching)
    BY <1>2, <1>16, OldFileIsShown
  <2>2. PICK page :
          /\ Shown(page)
          /\ page.is = making.is /\ page.page = making.page /\ page.file = making.file
          /\ page.random = making.random /\ page.asof = Earlier(u, making.asof)
          /\ page.prev = PrevRail(making.file, versions[u].matching)
          /\ page.next = NextRail(making.file, versions[v].matching)
          /\ page.back = BackPage(making.file, versions[w].matching)
    BY <2>1
  <2>3. page.is = "file"
    BY <1>16, <2>2 DEF FileNotModified, SteadyInv, HandlersFit
  <2>4. page.back > 0
    <3>1. w \in 1..Now
      BY <1>2, <2>1
    <3>2. versions[w].matching \in SUBSET Files
      BY <1>1, <3>1, VersionsType
    <3>3. page.back \in Nat \ {0}
      BY <2>2, <3>2, QueriesAreOfFiles
    <3> QED BY <3>3
  <2>5. ASSUME page.asof = Now PROVE making.asof = Now /\ ShowsTheDatabase(page)
    <3>1. u = Now /\ making.asof = Now
      BY <1>14, <2>1, <2>2, <2>5
    <3>2. v = Now /\ w = Now
      BY <1>2, <2>1, <3>1
    <3>3. /\ versions[u].matching = Matching /\ versions[v].matching = Matching
          /\ versions[w].matching = Matching
      BY <1>1, <3>1, <3>2 DEF VersionsFit
    <3> QED BY <2>2, <2>3, <3>1, <3>3 DEF ShowsTheDatabase
  <2> QED BY <1>1, <2>2, <2>3, <2>4, <2>5, SteadyIsShown
<1>8. CASE Arrive \/ NextPage \/ PrevPage \/ BackToGallery
  <2>1. \E p \in Nat \ {0} : \E spelled : AskGallery(p, FALSE, spelled)
    <3>1. CASE Arrive
      <4>1. AskGallery(1, FALSE, FALSE)
        BY <3>1, Zenon DEF Arrive
      <4>2. 1 \in Nat \ {0}
        OBVIOUS
      <4> QED BY <4>1, <4>2, Zenon
    <3>2. CASE NextPage
      <4>1. view.page + 1 \in Nat \ {0}
        BY <1>2
      <4> QED BY <3>2, <4>1 DEF NextPage
    <3>3. CASE PrevPage
      <4>1. view.page - 1 \in Nat \ {0}
        BY <1>2, <3>3 DEF PrevPage
      <4> QED BY <3>3, <4>1 DEF PrevPage
    <3>4. CASE BackToGallery
      <4>1. view.back \in Nat \ {0}
        BY <1>2, <3>4 DEF BackToGallery, SteadyInv, HandlersFit
      <4> QED BY <3>4, <4>1 DEF BackToGallery
    <3> QED BY <1>8, <3>1, <3>2, <3>3, <3>4
  <2> QED BY <1>1, <2>1, GalleryIsAsked
<1>9. CASE RandomPage
  <2> DEFINE type == IF view.spelled THEN ftf ELSE AllTypes
  <2>1. PICK p \in OtherPages(view.page, getPageCount(Cardinality(FilesOf(type)), Size)) :
          AskGallery(p, TRUE, FALSE)
    BY <1>9 DEF RandomPage
  <2>2. p \in Nat \ {0}
    BY <1>2, <2>1, PagesArePositive
  <2>3. ftf = AllTypes => FilesOf(type) = Matching
    BY DEF Matching
  <2>4. ftf = AllTypes /\ Matching # {} => (p - 1) * Size < Cardinality(Matching)
    <3> SUFFICES ASSUME ftf = AllTypes, Matching # {}
                 PROVE  (p - 1) * Size < Cardinality(Matching)
      OBVIOUS
    <3>1. Cardinality(Matching) \in Nat \ {0} /\ Size \in Nat \ {0}
      BY <1>1, GalleryAssumption, FilesAreFinite, FS_EmptySet
    <3>2. p \in OtherPages(view.page, getPageCount(Cardinality(Matching), Size))
      BY <2>1, <2>3
    <3> QED BY <1>2, <3>1, <3>2, DrawBegins
  <2> QED BY <1>1, <2>1, <2>2, <2>4, GalleryIsAsked
<1>10. CASE OpenFile \/ NextFile \/ PrevFile
  <2>1. \E f : AskFile(f, FALSE)
    BY <1>10 DEF OpenFile, NextFile, PrevFile
  <2> QED BY <1>1, <2>1, FileIsAsked
<1>11. CASE RandomFilePage
  <2>1. PICK f \in OtherFiles(view.file) : AskFile(f, TRUE)
    BY <1>11 DEF RandomFilePage
  <2>2. ftf = AllTypes => f \in Matching
    BY <2>1 DEF OtherFiles, Matching
  <2> QED BY <1>1, <2>1, <2>2, FileIsAsked
<1>12. CASE Rate \/ Download
  <2>1. /\ UNCHANGED <<step, making, view>>
        /\ \E version : versions' = Append(versions, version)
    BY <1>12 DEF Rate, Download, Changed
  <2>2. Now' = Now + 1
    BY <1>1, <2>1 DEF TypeOK, Now
  <2>3. making'.asof # Now' /\ view'.asof # Now'
    BY <1>1, <1>2, <2>1, <2>2 DEF VersionsFit, Page
  <2> QED BY <1>1, <2>1, <2>3 DEF SteadyInv, HandlersFit
<1>13. CASE UNCHANGED vars
  <2>1. UNCHANGED <<step, making, view, database, session>>
    BY <1>13 DEF vars, database, session
  <2>2. HandlersFit'
    BY <2>1 DEF SteadyInv, HandlersFit
  <2>3. Found => Found'
    BY <2>1, QueriesStay DEF Found
  <2>4. /\ DrawnFromTheSet(making) => DrawnFromTheSet(making)'
        /\ DrawnFromTheSet(view) => DrawnFromTheSet(view)'
    BY <2>1, QueriesStay DEF DrawnFromTheSet
  <2>5. ShowsTheDatabase(view) => ShowsTheDatabase(view)'
    BY <2>1, QueriesStay DEF ShowsTheDatabase
  <2> QED BY <1>1, <2>1, <2>2, <2>3, <2>4, <2>5, QueriesStay DEF SteadyInv
<1> QED BY <1>3, <1>4, <1>5, <1>6, <1>7, <1>8, <1>9, <1>10, <1>11, <1>12, <1>13,
           <1>15, <1>16 DEF Next, Handler, User

THEOREM Steadiness == Spec => []SteadyInv
BY SteadyInitially, SteadyInductive, PTL DEF Spec

\* The rail shows the nearest files before and after, though it finds them with
\* another comparison than the gallery orders by, in any gallery with clear keys.
THEOREM RailShowsTheNeighbours == Spec => []RailMatchesGallery
<1>1. SteadyInv => RailMatchesGallery
  <2> SUFFICES ASSUME SteadyInv, KeysAreClear, view.is = "file", Steady, view.file \in Matching
               PROVE  LET at == Before(view.file, Matching) IN
                      /\ view.prev = {f \in Matching : Before(f, Matching) \in at - RailSize .. at - 1}
                      /\ view.next = {f \in Matching : Before(f, Matching) \in at + 1 .. at + RailSize}
    BY DEF RailMatchesGallery
  <2>1. DatabaseIsKnown
    BY DEF SteadyInv, TypeOK, DatabaseIsKnown, KeysAreKnown
  <2>2. view.prev = PrevRail(view.file, Matching) /\ view.next = NextRail(view.file, Matching)
    BY DEF SteadyInv, Steady, ShowsTheDatabase
  <2> QED BY <2>1, <2>2, RailIsTheNeighbours
<1> QED BY <1>1, Steadiness, PTL

\* "Back to Gallery" leads to the page that has the file, for any page size.
THEOREM BackLinkIsRight == Spec => []BackLinkFindsTheFile
<1>1. SteadyInv => BackLinkFindsTheFile
  <2> SUFFICES ASSUME SteadyInv, KeysAreClear, view.is = "file", Steady, view.file \in Matching
               PROVE  view.file \in PageFiles(view.back, Matching)
    BY DEF BackLinkFindsTheFile
  <2>1. DatabaseIsKnown
    BY DEF SteadyInv, TypeOK, DatabaseIsKnown, KeysAreKnown
  <2>2. view.back = BackPage(view.file, Matching)
    BY DEF SteadyInv, Steady, ShowsTheDatabase
  <2> QED BY <2>1, <2>2, BackIsThePage
<1> QED BY <1>1, Steadiness, PTL

\* The link to the next page is there whenever that page has files, and with a filter
\* only then: the rows of this page and the total of another query agree.
THEOREM NextLinkIsRight == Spec => []NextPageHasFiles
<1>1. SteadyInv => NextPageHasFiles
  <2> SUFFICES ASSUME SteadyInv, view.is = "gallery", Steady
               PROVE  /\ PageFiles(view.page + 1, Matching) # {} => view.hasNext
                      /\ view.hasNext /\ (Active(frf) \/ ftf # AllTypes) =>
                           PageFiles(view.page + 1, Matching) # {}
    BY DEF NextPageHasFiles
  <2> DEFINE m == Cardinality(Matching)
             p == view.page
             shown == Cardinality(PageFiles(p, Matching))
  <2>1. DatabaseIsKnown /\ available \in SUBSET Files
    BY DEF SteadyInv, TypeOK, DatabaseIsKnown, KeysAreKnown
  <2>2. p \in Nat \ {0} /\ p + 1 \in Nat \ {0} /\ (p + 1) - 1 = p
    BY DEF SteadyInv, TypeOK, HandlersFit, Page
  <2>3. view.hasNext = ((p - 1) * Size + shown < Total(Matching))
    BY DEF SteadyInv, Steady, ShowsTheDatabase, HasNext
  <2>4. PageFiles(p + 1, Matching) # {} <=> p * Size < m
    BY <2>1, <2>2, GalleryIsAList, PageBegins, GalleryAssumption
  <2>5. (p - 1) * Size + shown < m <=> p * Size < m
    BY <2>1, <2>2, GalleryIsAList, PageBegins, GalleryAssumption
  <2>6. m \in Nat /\ (p - 1) * Size \in Nat /\ shown \in Nat
    <3>1. Matching \in SUBSET Files
      BY <2>1, MatchingIsOfFiles
    <3>2. PageFiles(p, Matching) \in SUBSET Files
      BY <3>1, QueriesAreOfFiles
    <3> QED BY <2>2, <3>1, <3>2, FilesAreFinite, OffsetType, GalleryAssumption
  <2>7. Total(Matching) = m \/ (Total(Matching) = cnt_rf /\ ~(Active(frf) \/ ftf # AllTypes))
    BY DEF Total
  <2>8. cnt_rf \in Nat /\ m <= cnt_rf
    <3>1. IsFiniteSet(Files) /\ Matching \in SUBSET Files
      BY <2>1, MatchingIsOfFiles, GalleryAssumption
    <3> QED BY <3>1, FS_Subset, FS_CardinalityType DEF cnt_rf
  <2> HIDE DEF m, shown
  <2>9. (p - 1) * Size + shown < m => (p - 1) * Size + shown < cnt_rf
    BY <2>6, <2>8
  <2> QED BY <2>3, <2>4, <2>5, <2>7, <2>9
<1> QED BY <1>1, Steadiness, PTL

\* With the rating filters alone a random page has files, and a random file passes
\* the filter, whenever there is one.
THEOREM RandomPageIsRight == Spec => []RandomPageKeepsRatings
<1>1. SteadyInv => RandomPageKeepsRatings
  <2> SUFFICES ASSUME SteadyInv, ftf = AllTypes, view.random, Steady, Matching # {}
               PROVE  /\ view.is = "gallery" => view.files # {}
                      /\ view.is = "file" => view.file \in Matching
    BY DEF RandomPageKeepsRatings, ShowsTheSet
  <2>1. DatabaseIsKnown
    BY DEF SteadyInv, TypeOK, DatabaseIsKnown, KeysAreKnown
  <2>2. /\ view.is = "gallery" => (view.page - 1) * Size < Cardinality(Matching)
        /\ view.is = "file" => view.file \in Matching
    BY DEF SteadyInv, Steady, DrawnFromTheSet
  <2>3. ASSUME view.is = "gallery" PROVE view.files # {}
    <3>1. view.files = PageFiles(view.page, Matching) /\ view.page \in Nat \ {0}
      BY <2>3 DEF SteadyInv, Steady, ShowsTheDatabase, TypeOK, HandlersFit, Page
    <3> QED BY <2>1, <2>2, <2>3, <3>1, GalleryIsAList, PageBegins, GalleryAssumption
  <2> QED BY <2>2, <2>3
<1> QED BY <1>1, Steadiness, PTL

\* With a file type chosen too, if the URL of the page the user is on names it, as the
\* links of the pager do: random page asks for a page that has files, when there are
\* any.  What leads out of the set is a URL that does not say what the cookie says.
RandomPageKeepsTheType ==
  [][RandomPage /\ (view.spelled \/ ftf = AllTypes) /\ Matching # {} =>
       PageFiles(making'.page, Matching) # {}]_vars

THEOREM RandomPageOfTheType == Spec => RandomPageKeepsTheType
<1> DEFINE Keeps == RandomPage /\ (view.spelled \/ ftf = AllTypes) /\ Matching # {} =>
                      PageFiles(making'.page, Matching) # {}
<1>1. SteadyInv /\ [Next]_vars => [Keeps]_vars
  <2> SUFFICES ASSUME SteadyInv, RandomPage, view.spelled \/ ftf = AllTypes, Matching # {}
               PROVE  PageFiles(making'.page, Matching) # {}
    OBVIOUS
  <2> DEFINE items == Cardinality(Matching)
  <2>1. DatabaseIsKnown /\ view \in Page
    BY DEF SteadyInv, TypeOK, DatabaseIsKnown, KeysAreKnown
  <2>2. view.page \in Nat
    BY <2>1 DEF Page
  <2>3. items \in Nat \ {0} /\ Size \in Nat \ {0}
    BY <2>1, GalleryAssumption, MatchingIsOfFiles, FilesAreFinite, FS_EmptySet
       DEF DatabaseIsKnown
  <2>4. FilesOf(IF view.spelled THEN ftf ELSE AllTypes) = Matching
    BY DEF Matching
  <2> HIDE DEF items
  <2>5. PICK p \in OtherPages(view.page, getPageCount(items, Size)) : AskGallery(p, TRUE, FALSE)
    BY <2>4 DEF RandomPage, items
  <2>6. making'.page = p
    BY <2>5 DEF AskGallery, Blank
  <2>7. p \in Nat \ {0} /\ (p - 1) * Size < items
    BY <2>2, <2>3, <2>5, PagesArePositive, DrawBegins
  <2>8. PageFiles(p, Matching) # {} <=> (p - 1) * Size < Cardinality(Matching)
    BY <2>1, <2>3, <2>7, GalleryIsAList, PageBegins
  <2> QED BY <2>6, <2>7, <2>8 DEF items
<1> QED BY <1>1, Steadiness, PTL DEF Spec, RandomPageKeepsTheType
=============================================================================
