---------------------------- MODULE Paging_proofs ----------------------------
(***************************************************************************)
(* What holds of the pages of any list, and of the page that a random page *)
(* draws.  A list is a finite set S of rows in the order R, a set of pairs.*)
(***************************************************************************)
EXTENDS Paging, FiniteSetTheorems, TLAPS

IsOrder(R, S) ==
  /\ \A f \in S : <<f, f>> \notin R
  /\ \A f, g \in S : f = g \/ <<f, g>> \in R \/ <<g, f>> \in R
  /\ \A f, g, h \in S : <<f, g>> \in R /\ <<g, h>> \in R => <<f, h>> \in R

IsList(R, S) == IsFiniteSet(S) /\ IsOrder(R, S)

Place(R, S, f) == Cardinality({h \in S : <<h, f>> \in R})
Between(R, S, f, g) == {h \in S : <<f, h>> \in R /\ <<h, g>> \in R}
RowsOfPage(R, S, p, size) == {f \in S : Place(R, S, f) \in Places(p, size)}

\* A part of a list is a list.
LEMMA PartOfList ==
  ASSUME NEW R, NEW S, IsList(R, S), NEW T \in SUBSET S
  PROVE  IsList(R, T)
<1>1. IsFiniteSet(T)
  BY FS_Subset DEF IsList
<1>2. IsOrder(R, T)
  BY DEF IsList, IsOrder
<1> QED BY <1>1, <1>2 DEF IsList

LEMMA ListsAreFinite ==
  ASSUME NEW R, NEW S, IsList(R, S)
  PROVE  \A T \in SUBSET S : IsFiniteSet(T) /\ Cardinality(T) \in Nat
BY FS_Subset, FS_CardinalityType DEF IsList

\* A list has a first row.
LEMMA FirstExists ==
  ASSUME NEW R, NEW S, IsList(R, S), S # {}
  PROVE  \E f \in S : \A g \in S : <<g, f>> \notin R
<1> DEFINE below(f) == {g \in S : <<g, f>> \in R}
           T == {below(f) : f \in S}
<1>1. T \subseteq FiniteSubsetsOf(S) /\ T # {}
  <2>1. \A f \in S : below(f) \in SUBSET S
    OBVIOUS
  <2> HIDE DEF below
  <2>2. \A B \in SUBSET S : IsFiniteSet(B)
    BY ListsAreFinite
  <2> QED BY <2>1, <2>2 DEF FiniteSubsetsOf
<1>2. PICK x \in T : \A y \in T : <<y, x>> \notin StrictSubsetOrdering(S)
  <2> HIDE DEF T
  <2> QED BY <1>1, FS_StrictSubsetOrderingWellFounded, WFMin
<1>3. PICK f \in S : x = below(f)
  BY <1>2
<1>4. ASSUME NEW g \in S, <<g, f>> \in R PROVE FALSE
  <2>1. below(g) \subseteq below(f)
    BY <1>4 DEF IsList, IsOrder
  <2>2. g \in below(f) /\ g \notin below(g)
    BY <1>4 DEF IsList, IsOrder
  <2>3. <<below(g), below(f)>> \in StrictSubsetOrdering(S)
    BY <2>1, <2>2 DEF StrictSubsetOrdering
  <2> QED BY <1>2, <1>3, <2>3
<1> QED BY <1>4

-----------------------------------------------------------------------------
(***************************************************************************)
(* The rows have the places 0 to their number less one, each another.      *)
(***************************************************************************)
LEMMA PlaceDifference ==
  ASSUME NEW R, NEW S, IsList(R, S), NEW f \in S, NEW g \in S, <<f, g>> \in R
  PROVE  Place(R, S, g) = Place(R, S, f) + 1 + Cardinality(Between(R, S, f, g))
<1> DEFINE A == {h \in S : <<h, f>> \in R}
           B == Between(R, S, f, g)
<1>1. A \in SUBSET S /\ B \in SUBSET S
  BY DEF Between
<1>2. {h \in S : <<h, g>> \in R} = (A \union {f}) \union B
  BY DEF IsList, IsOrder, Between
<1>3. f \notin A /\ (A \union {f}) \intersect B = {}
  BY DEF IsList, IsOrder, Between
<1>4. /\ Place(R, S, f) = Cardinality(A)
      /\ Place(R, S, g) = Cardinality((A \union {f}) \union B)
  BY <1>2 DEF Place
<1> HIDE DEF A, B
<1>5. /\ IsFiniteSet(A) /\ IsFiniteSet(B)
      /\ Cardinality(A) \in Nat /\ Cardinality(B) \in Nat
  BY <1>1, ListsAreFinite
<1>6. IsFiniteSet(A \union {f}) /\ Cardinality(A \union {f}) = Cardinality(A) + 1
  BY <1>3, <1>5, FS_AddElement
<1>7. Cardinality((A \union {f}) \union B) = Cardinality(A) + 1 + Cardinality(B) - 0
  BY <1>3, <1>5, <1>6, FS_Union, FS_EmptySet
<1> QED BY <1>4, <1>5, <1>7 DEF B

LEMMA PlacesFollowTheOrder ==
  ASSUME NEW R, NEW S, IsList(R, S), NEW f \in S, NEW g \in S
  PROVE  /\ Place(R, S, f) \in Nat
         /\ <<f, g>> \in R <=> Place(R, S, f) < Place(R, S, g)
         /\ Place(R, S, f) = Place(R, S, g) => f = g
<1>1. \A h : Place(R, S, h) \in Nat
  <2>1. \A h : {k \in S : <<k, h>> \in R} \in SUBSET S
    OBVIOUS
  <2> QED BY <2>1, ListsAreFinite DEF Place
<1>2. \A h, k : Cardinality(Between(R, S, h, k)) \in Nat
  <2>1. \A h, k : Between(R, S, h, k) \in SUBSET S
    BY DEF Between
  <2> QED BY <2>1, ListsAreFinite
<1>3. <<f, g>> \in R => Place(R, S, f) < Place(R, S, g)
  BY <1>1, <1>2, PlaceDifference
<1>4. <<g, f>> \in R => Place(R, S, g) < Place(R, S, f)
  BY <1>1, <1>2, PlaceDifference
<1>5. f = g \/ <<f, g>> \in R \/ <<g, f>> \in R
  BY DEF IsList, IsOrder
<1> QED BY <1>1, <1>3, <1>4, <1>5

LEMMA EveryPlaceIsTaken ==
  ASSUME NEW R, NEW S, IsList(R, S)
  PROVE  /\ Cardinality(S) \in Nat
         /\ \A f \in S : Place(R, S, f) \in 0..Cardinality(S) - 1
         /\ \A n \in 0..Cardinality(S) - 1 : \E f \in S : Place(R, S, f) = n
<1> DEFINE m == Cardinality(S)
           place == [f \in S |-> Place(R, S, f)]
<1>1. IsFiniteSet(S) /\ m \in Nat
  BY ListsAreFinite
<1>2. ASSUME NEW f \in S PROVE Place(R, S, f) \in 0..m - 1
  <2> DEFINE A == {h \in S : <<h, f>> \in R}
  <2>1. A \in SUBSET S /\ f \notin A /\ A \union {f} \in SUBSET S
    BY DEF IsList, IsOrder
  <2>2. Place(R, S, f) = Cardinality(A)
    BY DEF Place
  <2> HIDE DEF A, m
  <2>3. IsFiniteSet(A) /\ Cardinality(A) \in Nat
    BY <2>1, ListsAreFinite
  <2>4. Cardinality(A \union {f}) = Cardinality(A) + 1
    BY <2>1, <2>3, FS_AddElement
  <2>5. Cardinality(A \union {f}) <= m
    BY <1>1, <2>1, FS_Subset DEF m
  <2> QED BY <1>1, <2>2, <2>3, <2>4, <2>5
<1>3. place \in Injection(S, 0..m - 1)
  <2>1. place \in [S -> 0..m - 1]
    BY <1>2
  <2>2. \A f, g \in S : place[f] = place[g] => f = g
    BY PlacesFollowTheOrder
  <2> HIDE DEF place, m
  <2> QED BY <2>1, <2>2 DEF Injection, IsInjective
<1>4. IsFiniteSet(0..m - 1) /\ Cardinality(0..m - 1) = m
  <2> HIDE DEF m
  <2> QED BY <1>1, FS_Interval
<1>5. place \in Surjection(S, 0..m - 1)
  <2> HIDE DEF place
  <2> QED BY <1>3, <1>4, FS_Injection
<1>6. \A n \in 0..m - 1 : \E f \in S : place[f] = n
  <2> HIDE DEF place, m
  <2> QED BY <1>5 DEF Surjection
<1> QED BY <1>1, <1>2, <1>6

-----------------------------------------------------------------------------
(***************************************************************************)
(* LIMIT size OFFSET (p - 1) * size.                                       *)
(***************************************************************************)
\* The places of a page that a list of m rows has.
PlacesTaken(p, size, m) == Places(p, size) \intersect (0..m - 1)

\* The number of rows on a page.
LEMMA PageHolds ==
  ASSUME NEW R, NEW S, IsList(R, S), NEW p, NEW size
  PROVE  Cardinality(RowsOfPage(R, S, p, size))
           = Cardinality(PlacesTaken(p, size, Cardinality(S)))
<1> DEFINE P == RowsOfPage(R, S, p, size)
           T == PlacesTaken(p, size, Cardinality(S))
           place == [f \in P |-> Place(R, S, f)]
<1>1. P \in SUBSET S
  BY DEF RowsOfPage
<1>2. place \in [P -> T]
  BY EveryPlaceIsTaken DEF RowsOfPage, PlacesTaken
<1>3. \A f, g \in P : place[f] = place[g] => f = g
  BY <1>1, PlacesFollowTheOrder
<1>4. \A n \in T : \E f \in P : place[f] = n
  BY EveryPlaceIsTaken DEF RowsOfPage, PlacesTaken
<1> HIDE DEF P, place, T
<1>5. place \in Bijection(P, T)
  BY <1>2, <1>3, <1>4 DEF Bijection, Injection, IsInjective, Surjection
<1>6. IsFiniteSet(P) /\ ExistsBijection(P, T)
  BY <1>1, <1>5, ListsAreFinite DEF ExistsBijection
<1> QED BY <1>6, FS_Bijection DEF P, T

LEMMA OffsetType ==
  ASSUME NEW p \in Nat \ {0}, NEW size \in Nat \ {0}
  PROVE  /\ p * size \in Nat /\ (p - 1) * size \in Nat
         /\ p * size = (p - 1) * size + size
<1>1. p - 1 \in Nat /\ size \in Nat
  OBVIOUS
<1>2. (p - 1) * size \in Nat
  BY <1>1
<1>3. p * size = (p - 1) * size + size
  OBVIOUS
<1> QED BY <1>1, <1>2, <1>3

\* A page has rows when it begins before the last row, and the rows of a page,
\* compared with the number of all rows, tell whether the next page does.
THEOREM PageBegins ==
  ASSUME NEW R, NEW S, IsList(R, S), NEW p \in Nat \ {0}, NEW size \in Nat \ {0}
  PROVE  /\ RowsOfPage(R, S, p, size) # {} <=> (p - 1) * size < Cardinality(S)
         /\ (p - 1) * size + Cardinality(RowsOfPage(R, S, p, size)) < Cardinality(S)
              <=> p * size < Cardinality(S)
<1> DEFINE P == RowsOfPage(R, S, p, size)
           m == Cardinality(S)
           a == (p - 1) * size
           b == p * size
<1>1. m \in Nat
  BY EveryPlaceIsTaken
<1>2. a \in Nat /\ b \in Nat /\ b = a + size
  BY OffsetType
<1>3. Places(p, size) = a..b - 1
  BY DEF Places
<1>4. Cardinality(P) = Cardinality((a..b - 1) \intersect (0..m - 1))
  <2>1. Cardinality(P) = Cardinality(PlacesTaken(p, size, m))
    BY PageHolds
  <2> HIDE DEF P, a, b, m
  <2> QED BY <1>3, <2>1 DEF PlacesTaken
<1>5. P # {} <=> a < m
  <2>1. ASSUME NEW f \in P PROVE a < m
    <3>1. Place(R, S, f) \in a..b - 1 /\ Place(R, S, f) \in 0..m - 1
      BY <1>3, EveryPlaceIsTaken DEF RowsOfPage
    <3> HIDE DEF a, b, m
    <3> QED BY <1>1, <1>2, <3>1
  <2>2. ASSUME a < m PROVE P # {}
    <3>1. a \in 0..m - 1 /\ a \in a..b - 1
      <4> HIDE DEF a, b, m
      <4> QED BY <1>1, <1>2, <2>2
    <3>2. PICK f \in S : Place(R, S, f) = a
      BY <3>1, EveryPlaceIsTaken
    <3> QED BY <1>3, <3>1, <3>2 DEF RowsOfPage
  <2> QED BY <2>1, <2>2
<1> HIDE DEF P, a, b, m
<1>6. a + Cardinality(P) < m <=> b < m
  <2>1. CASE b <= m
    <3>1. (a..b - 1) \intersect (0..m - 1) = a..b - 1
      BY <1>1, <1>2, <2>1
    <3>2. Cardinality(a..b - 1) = size
      BY <1>2, FS_Interval
    <3> QED BY <1>1, <1>2, <1>4, <3>1, <3>2
  <2>2. CASE a <= m /\ m < b
    <3>1. (a..b - 1) \intersect (0..m - 1) = a..m - 1
      BY <1>1, <1>2, <2>2
    <3>2. Cardinality(a..m - 1) = m - a
      <4>1. Cardinality(a..m - 1) = IF a > m - 1 THEN 0 ELSE m - 1 - a + 1
        BY <1>1, <1>2, FS_Interval
      <4> QED BY <1>1, <1>2, <2>2, <4>1
    <3>3. Cardinality(P) = m - a
      BY <1>4, <3>1, <3>2
    <3> QED BY <1>1, <1>2, <2>2, <3>3
  <2>3. CASE m < a
    <3>1. (a..b - 1) \intersect (0..m - 1) = {}
      BY <1>1, <1>2, <2>3
    <3>2. Cardinality({}) = 0
      BY FS_EmptySet
    <3> QED BY <1>1, <1>2, <1>4, <2>3, <3>1, <3>2
  <2> QED BY <1>1, <1>2, <2>1, <2>2, <2>3
<1> QED BY <1>5, <1>6 DEF P, a, b, m

\* The page that has the row of a place.
LEMMA PageOfPlace ==
  ASSUME NEW n \in Nat, NEW size \in Nat \ {0}
  PROVE  n \in Places(n \div size + 1, size)
<1> DEFINE k == n \div size
<1>1. /\ n = size * k + (n % size)
      /\ n % size \in 0..size - 1 /\ k \in Nat
  OBVIOUS
<1> HIDE DEF k
<1>2. size * k = k * size /\ k * size \in Nat
  BY <1>1
<1>3. n \in k * size .. k * size + size - 1
  BY <1>1, <1>2
<1>4. (k + 1) - 1 = k /\ (k + 1) * size = k * size + size
  BY <1>1
<1>5. Places(k + 1, size) = k * size .. k * size + size - 1
  <2>1. Places(k + 1, size) = ((k + 1) - 1) * size .. (k + 1) * size - 1
    BY DEF Places
  <2> QED BY <1>1, <1>2, <1>4, <2>1
<1> QED BY <1>3, <1>5 DEF k

-----------------------------------------------------------------------------
(***************************************************************************)
(* The pages that are counted, and the one that is drawn.                  *)
(***************************************************************************)
\* A total of items makes a number of pages: enough, and the last one begins before
\* the last item.
LEMMA PageCount ==
  ASSUME NEW items \in Nat, NEW size \in Nat \ {0}
  PROVE  /\ getPageCount(items, size) \in Nat
         /\ items <= getPageCount(items, size) * size
         /\ getPageCount(items, size) * size <= items + size - 1
<1> DEFINE n == items + size - 1
           k == n \div size
<1>1. n \in Nat
  OBVIOUS
<1> HIDE DEF n
<1>2. k \in Nat /\ n = size * k + (n % size) /\ n % size \in 0..size - 1
  BY <1>1
<1> HIDE DEF k
<1>3. size * k = k * size /\ k * size \in Nat
  BY <1>2
<1>4. k * size <= n /\ n <= k * size + size - 1
  BY <1>2, <1>3
<1>5. items <= k * size /\ k * size <= items + size - 1
  BY <1>3, <1>4 DEF n
<1> QED BY <1>2, <1>5 DEF getPageCount, k, n

\* Any page there is can be the next one, and none else.
LEMMA PagesArePositive ==
  ASSUME NEW page \in Nat, NEW count, NEW p \in OtherPages(page, count)
  PROVE  p \in Nat \ {0}
<1>1. CASE count <= 1
  BY <1>1 DEF OtherPages
<1>2. CASE ~(count <= 1)
  <2>1. PICK n \in 0..count - 2 : p = IF n + 1 >= page THEN n + 2 ELSE n + 1
    BY <1>2 DEF OtherPages
  <2>2. n \in Nat
    BY <2>1
  <2> QED BY <2>1, <2>2
<1> QED BY <1>1, <1>2

\* The draw of getRandomGalleryPage and its sisters: when there are two pages
\* or more it is one of them, and never the page the user is on; otherwise it
\* is the first page.
THEOREM DrawIsAnotherPage ==
  ASSUME NEW page \in Nat, NEW count \in Nat, NEW p \in OtherPages(page, count)
  PROVE  /\ count <= 1 => p = 1
         /\ count > 1 => p \in 1..count \ {page}
<1>1. CASE count <= 1
  BY <1>1 DEF OtherPages
<1>2. CASE count > 1
  <2>1. PICK n \in 0..count - 2 : p = IF n + 1 >= page THEN n + 2 ELSE n + 1
    BY <1>2 DEF OtherPages
  <2> QED BY <1>2, <2>1
<1> QED BY <1>1, <1>2

\* If there is anything, the page that is drawn begins before the last item.
LEMMA DrawBegins ==
  ASSUME NEW page \in Nat, NEW items \in Nat \ {0}, NEW size \in Nat \ {0},
         NEW p \in OtherPages(page, getPageCount(items, size))
  PROVE  (p - 1) * size < items
<1> DEFINE count == getPageCount(items, size)
<1>1. count \in Nat /\ count * size <= items + size - 1
  BY PageCount
<1> HIDE DEF count
<1>2. p = 1 \/ p \in 1..count
  BY <1>1, DrawIsAnotherPage DEF count
<1>3. CASE p = 1
  BY <1>3
<1>4. CASE p \in 1..count
  <2>1. p \in Nat \ {0} /\ p <= count
    BY <1>1, <1>4
  <2>2. p * size <= count * size
    BY <1>1, <2>1
  <2>3. /\ (p - 1) * size = p * size - size
        /\ p * size \in Int /\ count * size \in Int
    BY <1>1, <2>1
  <2> QED BY <1>1, <2>2, <2>3
<1> QED BY <1>2, <1>3, <1>4

-----------------------------------------------------------------------------
(***************************************************************************)
(* The pages that are counted are the list, each row of it once.           *)
(***************************************************************************)
\* LIMIT and OFFSET put a place on one page only.
LEMMA PlaceIsOnOnePage ==
  ASSUME NEW size \in Nat \ {0}, NEW p \in Nat \ {0}, NEW q \in Nat \ {0},
         NEW n \in Places(p, size), n \in Places(q, size)
  PROVE  p = q
<1>1. /\ (p - 1) * size <= n /\ n <= p * size - 1
      /\ (q - 1) * size <= n /\ n <= q * size - 1
      /\ n \in Int
  <2>1. /\ (p - 1) * size \in Int /\ p * size \in Int
        /\ (q - 1) * size \in Int /\ q * size \in Int
    BY OffsetType
  <2> QED BY <2>1 DEF Places
<1>2. ASSUME NEW a \in Nat \ {0}, NEW b \in Nat \ {0}, a < b,
             (b - 1) * size <= n, n <= a * size - 1
      PROVE  FALSE
  <2>1. a \in Nat /\ b - 1 \in Nat /\ a <= b - 1 /\ size \in Nat
    BY <1>2
  <2>2. a * size <= (b - 1) * size /\ a * size \in Nat /\ (b - 1) * size \in Nat
    BY <2>1
  <2> QED BY <1>1, <1>2, <2>2
<1>3. ~(p < q) /\ ~(q < p)
  BY <1>1, <1>2
<1> QED BY <1>3

\* A row is on one of the pages that getPageCount counts, and on no other: the pages
\* of a list leave out nothing and repeat nothing.
THEOREM EveryRowHasItsPage ==
  ASSUME NEW R, NEW S, IsList(R, S), NEW f \in S, NEW size \in Nat \ {0}
  PROVE  \E p \in 1..getPageCount(Cardinality(S), size) :
           \A q \in Nat \ {0} : f \in RowsOfPage(R, S, q, size) <=> q = p
<1> DEFINE m == Cardinality(S)
           n == Place(R, S, f)
           p == n \div size + 1
           count == getPageCount(m, size)
<1>1. m \in Nat /\ n \in 0..m - 1
  BY EveryPlaceIsTaken
<1> HIDE DEF m, n
<1>2. n \in Nat /\ n < m
  BY <1>1
<1>3. n \div size \in Nat
  BY <1>2
<1>4. p \in Nat \ {0} /\ n \in Places(p, size)
  <2>1. p \in Nat \ {0}
    BY <1>3
  <2>2. n \in Places(n \div size + 1, size)
    BY <1>2, PageOfPlace
  <2> QED BY <2>1, <2>2
<1> HIDE DEF p
<1>5. p <= count
  <2>1. count \in Nat /\ m <= count * size
    BY <1>1, PageCount
  <2> HIDE DEF count
  <2>2. (p - 1) * size <= n /\ (p - 1) * size \in Nat
    BY <1>2, <1>4, OffsetType DEF Places
  <2>3. ASSUME count <= p - 1 PROVE FALSE
    <3>1. count * size <= (p - 1) * size /\ count * size \in Nat
      BY <1>4, <2>1, <2>3
    <3> QED BY <1>1, <1>2, <2>1, <2>2, <3>1
  <2> QED BY <1>4, <2>1, <2>3
<1>6. p \in 1..count
  <2>1. count \in Nat
    BY <1>1, PageCount
  <2> HIDE DEF count
  <2> QED BY <1>4, <1>5, <2>1
<1>7. \A q \in Nat \ {0} : f \in RowsOfPage(R, S, q, size) <=> q = p
  <2>1. \A q \in Nat \ {0} : n \in Places(q, size) => q = p
    BY <1>4, PlaceIsOnOnePage
  <2> QED BY <1>4, <2>1 DEF RowsOfPage, n
<1> QED BY <1>6, <1>7 DEF m

\* From a page of a list of two or more, the draw is among all the others, neither
\* the first nor the last left out.
THEOREM EveryOtherPageIsDrawn ==
  ASSUME NEW count \in Nat, NEW page \in 1..count, count > 1
  PROVE  OtherPages(page, count) = 1..count \ {page}
<1>1. page \in Nat
  OBVIOUS
<1>2. OtherPages(page, count) \subseteq 1..count \ {page}
  BY <1>1, DrawIsAnotherPage
<1>3. ASSUME NEW p \in 1..count, p # page
      PROVE  p \in OtherPages(page, count)
  <2>1. CASE p < page
    <3>1. p - 1 \in 0..count - 2 /\ (p - 1) + 1 = p /\ ~((p - 1) + 1 >= page)
      BY <2>1
    <3> QED BY <3>1 DEF OtherPages
  <2>2. CASE p > page
    <3>1. p - 2 \in 0..count - 2 /\ (p - 2) + 1 >= page /\ (p - 2) + 2 = p
      BY <2>2
    <3> QED BY <3>1 DEF OtherPages
  <2> QED BY <1>3, <2>1, <2>2
<1> QED BY <1>2, <1>3

-----------------------------------------------------------------------------
(***************************************************************************)
(* The draw of a row: the first one from a number below the newest id.     *)
(***************************************************************************)
LEMMA LeastId ==
  ASSUME NEW T, T \subseteq Nat, T # {}
  PROVE  \E x \in T : \A y \in T : x <= y
<1> DEFINE R == OpToRel(<, Nat)
<1>1. IsWellFoundedOn(R, Nat)
  BY NatLessThanWellFounded
<1>2. \A x, y \in Nat : <<y, x>> \in R <=> y < x
  BY DEF OpToRel
<1> HIDE DEF R
<1>3. PICK x \in T : \A y \in T : ~(<<y, x>> \in R)
  BY <1>1, WFMin
<1>4. ASSUME NEW y \in T PROVE x <= y
  <2>1. x \in Nat /\ y \in Nat
    OBVIOUS
  <2>2. ~(<<y, x>> \in R)
    BY <1>3
  <2> QED BY <1>2, <2>1, <2>2
<1> QED BY <1>4

\* A draw finds nothing only if all rows are below it.
LEMMA DrawFinds ==
  ASSUME NEW rows \in SUBSET Nat, NEW draw \in Nat
  PROVE  FirstFrom(draw, rows) = {} <=> \A row \in rows : row < draw
<1>1. ASSUME NEW row \in rows, row >= draw PROVE FirstFrom(draw, rows) # {}
  <2> DEFINE T == {r \in rows : r >= draw}
  <2>1. PICK x \in T : \A y \in T : x <= y
    <3>1. T \subseteq Nat /\ T # {}
      BY <1>1
    <3> HIDE DEF T
    <3> QED BY <3>1, LeastId
  <2> QED BY <2>1 DEF FirstFrom
<1>2. ASSUME NEW row \in FirstFrom(draw, rows) PROVE row \in rows /\ row >= draw
  BY DEF FirstFrom
<1>3. \A row \in rows : row \in Nat /\ (~(row < draw) <=> row >= draw)
  OBVIOUS
<1> QED BY <1>1, <1>2, <1>3

\* Random Gallery and Random File, among the rows that match, whose ids are no
\* larger than the newest id: a draw may find any of them but the newest, which it
\* never finds if the id before it matches too; and it may find nothing just when
\* neither of the two does.  The rule is about ids, not about how many rows match.
THEOREM DrawMissesTheNewest ==
  ASSUME NEW newest \in Nat \ {0}, NEW rows \in SUBSET (0..newest)
  PROVE  LET found == UNION {FirstFrom(draw, rows) : draw \in DrawsBelow(newest)} IN
         /\ found = IF newest - 1 \in rows THEN rows \ {newest} ELSE rows
         /\ (\E draw \in DrawsBelow(newest) : FirstFrom(draw, rows) = {})
              <=> newest \notin rows /\ newest - 1 \notin rows
<1> DEFINE found == UNION {FirstFrom(draw, rows) : draw \in DrawsBelow(newest)}
<1>1. rows \in SUBSET Nat /\ newest - 1 \in Nat
  OBVIOUS
<1>2. ASSUME NEW row \in rows, row # newest PROVE row \in found
  <2>1. row \in DrawsBelow(newest) /\ row \in FirstFrom(row, rows)
    BY <1>2 DEF DrawsBelow, FirstFrom
  <2> QED BY <2>1
<1>3. ASSUME newest \in rows, newest - 1 \notin rows PROVE newest \in found
  <2>1. newest - 1 \in DrawsBelow(newest) /\ newest \in FirstFrom(newest - 1, rows)
    BY <1>3 DEF DrawsBelow, FirstFrom
  <2> QED BY <2>1
<1>4. ASSUME newest - 1 \in rows, NEW draw \in DrawsBelow(newest)
      PROVE  newest \notin FirstFrom(draw, rows)
  <2>1. newest - 1 >= draw /\ ~(newest <= newest - 1)
    BY DEF DrawsBelow
  <2> QED BY <1>4, <2>1 DEF FirstFrom
<1>5. found \subseteq rows
  BY DEF FirstFrom
<1>6. found = IF newest - 1 \in rows THEN rows \ {newest} ELSE rows
  <2> HIDE DEF found
  <2>1. CASE newest - 1 \in rows
    <3>1. newest \notin found
      BY <1>4, <2>1 DEF found
    <3> QED BY <1>2, <1>5, <2>1, <3>1
  <2>2. CASE newest - 1 \notin rows
    <3>1. rows \subseteq found
      BY <1>2, <1>3, <2>2
    <3> QED BY <1>5, <2>2, <3>1
  <2> QED BY <2>1, <2>2
<1>7. ASSUME NEW draw \in DrawsBelow(newest), FirstFrom(draw, rows) = {}
      PROVE  newest \notin rows /\ newest - 1 \notin rows
  <2>1. draw \in Nat /\ draw <= newest - 1 /\ draw <= newest
    BY DEF DrawsBelow
  <2>2. \A row \in rows : row < draw
    BY <1>1, <1>7, <2>1, DrawFinds
  <2> QED BY <1>1, <2>1, <2>2
<1>8. ASSUME newest \notin rows, newest - 1 \notin rows
      PROVE  \E draw \in DrawsBelow(newest) : FirstFrom(draw, rows) = {}
  <2>1. \A row \in rows : row < newest - 1
    BY <1>1, <1>8
  <2>2. newest - 1 \in DrawsBelow(newest)
    BY DEF DrawsBelow
  <2> QED BY <1>1, <2>1, <2>2, DrawFinds
<1> QED BY <1>6, <1>7, <1>8
=============================================================================
