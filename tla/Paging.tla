------------------------------- MODULE Paging -------------------------------
(***************************************************************************)
(* What the handlers share about pages: LIMIT and OFFSET, the number of    *)
(* pages a total makes (internal/server/utils.go), the page that the       *)
(* getRandom...Page functions (internal/server/handlers.go) draw, and the  *)
(* draw of a row that Random Gallery and Random File have in common.       *)
(***************************************************************************)
EXTENDS Integers

\* LIMIT size OFFSET (p - 1) * size keeps the rows with these places.
Places(p, size) == (p - 1) * size .. p * size - 1

getPageCount(items, size) == (items + size - 1) \div size

\* Mutant: the result of rand.Int64N is taken for a page.
OtherPagesFromZero(page, count) ==
  IF count <= 1 THEN {1}
  ELSE {IF n >= page THEN n + 1 ELSE n : n \in 0..count - 2}

\* The results of n + 1, n \in 0..count - 2, and one more from the page itself on.
\* Mutant: rand.Int64N(count) for rand.Int64N(count - 1).
OtherPagesPastTheEnd(page, count) ==
  IF count <= 1 THEN {1}
  ELSE {IF n + 1 >= page THEN n + 2 ELSE n + 1 : n \in 0..count - 1}

\* Mutant: rand.Int64N(count), and the page itself is not passed over.
OtherPagesOrSame(page, count) ==
  IF count <= 1 THEN {1} ELSE {n + 1 : n \in 0..count - 1}

OtherPages(page, count) ==
  IF count <= 1 THEN {1}
  ELSE {IF n + 1 >= page THEN n + 2 ELSE n + 1 : n \in 0..count - 2}

\* ABS(RANDOM()) % newest
DrawsBelow(newest) == 0..newest - 1

\* WHERE id >= draw ORDER BY id LIMIT 1
FirstFrom(draw, rows) ==
  {row \in rows : row >= draw /\ \A other \in rows : other >= draw => row <= other}
=============================================================================
