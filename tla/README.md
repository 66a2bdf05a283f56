# A specification of golocalgal

golocalgal is a Go program that serves a gallery database, which the ripper
RipMe3 fills, as web pages. It is one process: an optional window with
Start, Stop and Optimize buttons (`internal/gui`), an HTTP server
(`internal/server`) over a SQLite database it mostly reads, a second SQLite
database in memory for the totals of searches, and pages (`web/`) whose state is
kept in cookies and URLs.

This directory holds TLA+ modules that model the parts of it where steps
interleave or where several queries must agree, the TLC runs that check them on
small instances, and TLAPS proofs of the most important properties for every
value of the constants. `PROJECT.json` names, for each definition, the lines of
the source it translates; for each property, a mutation of the model (a bug the
code could have had) under which TLC finds it violated.

## 1. The system

| Component | State it keeps | Operations | Hard because | Modules |
|---|---|---|---|---|
| Search totals cache (`searching.go`, `db.go`) | table `search_hits`: key, total, time | evict, look up, count, insert, per request | four statements of concurrent requests interleave over two databases, expiry, primary key, errors of the database, cancelled requests | `HitCount`, `SearchHits` |
| Server life cycle (`server.go`, `main.go`) | context, `ready` channel, listener, `http.Server`, handles, known files | `StartServer` and its goroutine, `Stop`, connections | Stop at any moment of the start, `Shutdown` racing `Serve`, a two-second timeout, restarts on one port | `ServerLifecycle` |
| Control panel (`gui_gio.go`) | `running`, `optimizing`, `ctrl`, `status`, no lock | Start, Stop, Optimize, close; a watcher per server | goroutines write the event loop's fields; late watchers | `ServerPanel` |
| Pages, cookies, entity tags (`etag.go`, `server.go`, `sorting.go`) | cookies, HTTP cache of the browser, versions of the database | GET with and without 304, rating POST | a tag that does not depend on the database; lost and overtaken answers; sessions | `PageCache` |
| Rating filters (`filtering.go`) | three cookies per kind of filter | parse, swap, set cookies, SQL clause | three-valued logic; tabs share cookies that expire one by one | `RatingFilter`, `Listings` |
| Gallery pages and file rail (`handlers.go`, `app.js`) | none: pages of a changing database | gallery page, file page, next/previous keys, link back, random page | comparison, order and rank are three expressions; several queries per page; pages of an older database shown again on a 304 | `GalleryPages`, `Paging` |
| Lists of galleries and files (`handlers.go`, `queries.go`, `searching.go`) | none | browse; galleries and files of a user and of a search; galleries of a tag; pager; random page | totals and rows have different conditions | `Listings`, `Paging` |
| Media and known files (`handlers_media.go`, `db.go`, `server.go`) | map of known files; the browser's copies | read RipMe's log at the start; per request try one place after the other, send or 304 | files move between two looks, and between os.Stat and os.Open; a log that grows or breaks off while it is read; dates that go back | `KnownFiles`, `GuiServer` |
| GUI log (`logbuf.go`, `gui_gio.go`) | bounded slice under a mutex; the view and its caret | append, snapshot, frame | snapshots share the buffer's array and are read without the mutex | `LogTail`, `LogBuffer`, `GuiServer` |
| Configuration (`config.go`, `db.go`, `gui_gio.go`) | environment, text fields | defaults, precedence, through the fields and back; parameters of connection strings | defaults are applied twice; parameters are added to and taken from one string for three handles | `Config`, `GuiServer` |
| Random gallery and file (`handlers.go`) | none | draw twice, fall back, redirect | a number below the largest id must find any row that passes filters of its own | `RandomDraw` |
| Rating buttons (`app.js`) | classes of buttons | click, answer | answers out of order | section 6 |

They interact as follows. The panel calls `StartServer` and `Controller.Stop`
and watches two channels; `ServerPanel` extends `ServerLifecycle`, so each of
its steps is a step of the server, of the panel, or both. `GuiServer` looks at the
same process from its other side: what the panel's fields make of the
configuration, what the start goroutine does with the configuration and the log of
known files, how requests for pictures use both, and how all of it is seen in the log
view. The handlers meet
`ServerLifecycle` only as connections that are being handled. Pages meet each
other through the browser: cookies, URLs and HTTP cache (`PageCache`,
`Listings`), the filter form (`RatingFilter`), and the links of one page that
become the request of the next (`GalleryPages`, `Listings`). `SearchHits` gives
search pages, and their random page, their totals; seen from outside it is
`HitCount`.

What is hard to test, line by line, is the list of hazards in `PROJECT.json`.

## 2. Modules, state and actions

**HitCount** is what a search total promises: a caller asks, and is answered
with a total of its own key that is not too old; or collides, which only happens to
a caller that another one of the same key overlapped; or fails, of a bad query, of the
database, or because nobody waits any more. There is no cache in it.

**SearchHits** is the code. `rows` is the table, `pc[r]` the statement request
`r` is about to run, `total[r]` its local variable. Each action is one SQL
statement, atomic because the in-memory database has one connection:
`Evict`, `LookupHit`/`LookupMiss`, `Count`/`CountFails`, `Store`/`StoreConflict`;
`Fault` is a statement that fails for the database's own reasons (busy, closed by Stop
under a request in progress, I/O), `Cancel` a request that is dropped before or while
a statement runs. Any of the four statements can meet either, so a good query may
fail although it is alone; the outcomes `malformed`, `taken` and `faulted` tell the
errors apart. A number of hits is represented by the key it was counted for and the
time of the count.
`KeepsThePromise` is `HitCount`'s specification under the mapping that forgets
`rows` and the statements.

**ServerLifecycle** has one instance per call of `StartServer` (an instance is
what a `Controller` and its `http.Server` are), all of them after one port.
`boot[i]` is the start goroutine's program counter, `stop[i]` that of
`Controller.Stop`, `cause[i]` the context, `shut[i]` the `inShutdown` flag of
`net/http`, `conn[i][c]` its connection states. `Serve`, `ServeAfterShutdown`,
`ShutdownBegins`, `ShutdownPolls`, `CloseIdle` and the connections' steps model
the parts of `net/http` the code leans on: they are marked external.

**ServerPanel** adds the event loop, its five fields and one watcher per server.
`StopClick`..`StopReturns` keep the event loop for as long as `Stop` takes.

**PageCache** is one browser against one server: `jar` its cookies, `store` its
HTTP cache, `net` its outstanding requests and answers, `writes` the version of
the database. A gallery's tag is compared before the handler runs (`withETag`),
a file page's after it (`render`), and the model keeps that order, since only
the second sets cookies on a 304. `current`, `recent` and `saved` are history.

**RatingFilter** has no variables: the filter of a request from its query and
its cookies, the cookies its answer leaves, and the SQL clause, evaluated in
SQL's three-valued logic. `Wanted` states what the filter's form offers,
independently of the clause. "" is written "include", its alias in the code.

**Paging** has LIMIT/OFFSET, `getPageCount`, the draw of a random page and the
draw of a random row, which the handlers share.

**GalleryPages** is a user in one gallery. A page is made query by query
(`step`, `making`), then shown (`view`); between any two steps a file may be
rated (`Rate`) or downloaded (`Download`). `key` is the column the gallery is
sorted by, NULL or a number. `Precedes` is the gallery's ORDER BY,
`RowGreater` the rail's row comparison, `FileRank` the count for the link back.
Tags do not cover the database, so a page that is asked for again may be answered
304: `GalleryNotModified` before the handler ran (`withETag`), `FileNotModified` after
all its queries (`render`). What is shown then is the page as it was made in earlier
versions of the database, which `versions` keeps; `asof` is the oldest version a page
goes back to. `visited` and `from` are the history of one walk through the rail: the
files shown, and the oldest version any of its pages goes back to.

**Listings** is a user who turns the pages of one of six lists, four of
galleries and two of files, over any database, while another tab sets the
filter's cookies and they expire. `BrowseRows`..`SearchFileRows` are the
conditions of the lists, `getTotalAlbumCount`..`getSearchFileHits` those of
their totals; they differ, and that is what the module is about. `Rows` and
`Total` pick those of the list looked at, `PageRows` takes a page of them,
`HasNext` is the next link. Each handler is an action of its own; what they
share is `FilteredPage`; the two of a search are wrapped in `withETag`, which may send a
304 before they run (`SearchPage`): the page is the one the handler would make, but no
cookie is set. `last` is the filter of the last page a handler made. The rows of
a search have one order here, whichever of
the sorts is chosen. `view.typed` says whether the URL of a page names the file
type in force, which only the random page asks.

**Config** has no variables: `GetServerConfig` and what it calls, over a *setup*
(variables, flag, `rip.properties`), `newMainWindow`, which fills the fields of
the panel from a configuration, and the parameters of the connection strings.
`CanWrite` is what SQLite and its driver make of such a string (external): a mode
only narrows those before it, of several `_query_only` the first counts.

**KnownFiles** is the start goroutine again, now with its data: `pos` lines of
`entries` (DFLOG, which RipMe goes on writing) have been read into `found`, which
`Publish` makes `known`. A request holds the places it will try (`req.tries`), in
the order of `handleMedia`, and `QueryOldest` puts those of the oldest downloaded
gallery behind the others. `sendFile` looks at a place with `os.Stat` (`Stat`,
`StatFails`), puts what it found into the response's `header`, sends a 304 for it
(`StatNotModified`) or opens the file that is there then (`Open`, `OpenFails`; the
headers stay for the next place). Between any two of these steps `Write`, `Remove` and
`Move` change `disk`. The headers have whole seconds (`Second`); of two times in one
second the comparison may go either way, as sizes and fractions are not modelled.
`Under` is the string prefix `cleanJoin` tests, by which the neighbour `rips2` of `rips`
passes. `copy` is what the browser keeps: the date of the latest headers it was sent
(`modified`), and as history those its body came with (`found`) and the time of the file
the body was read from (`content`). `req.stayed` is history too: the files that were
there all the time.

**LogBuffer** has Go's slices: `arrays` are the arrays allocated so far, a slice
is a part of one of them, and `append` writes into the array while it has room
(`StoreInPlace`) and takes a new one otherwise (`StoreAndGrow`). `seen` is the slice
the panel keeps from one frame to the next; `RefreshLog` is the frame that compares
it with the buffer, replaces it and moves the caret. **LogTail** is the same with
copies in place of slices, which a comment at `logbuf.go:60` still has;
`KeepsTheTail` is its specification, under the mapping that reads the slices.

**GuiServer** composes the three: `StartClick` takes the fields into the
environment and the environment into the server's configuration, `LoaderStep` is
the goroutine with the lines it logs, `WatcherInvalidates` the watcher that asks
for a frame, `Frame` and `UpdateLogView` the frame that shows the log. It has one
start; Stop, Optimize and restarts are in `ServerPanel`.

**RandomDraw** is Random Gallery and Random File over a database that RipMe and
the user change between the statements: `DrawHits` and `DrawMisses` are a draw, of
which a request with a filter has two, `Fallback` the uniform choice after them.
`Draws` are the numbers `ABS(RANDOM()) % MAX(id)` can be (`DrawsBelow` of `Paging`),
`Hits` the rows they lead to (`FirstFrom`).

**MC...** modules give constants to TLC, **..._proofs** modules hold proofs.

## 3. Runs

| Run | Question | Bounds |
|---|---|---|
| `search_hits` | do four unprotected statements, each of which may fail, keep `HitCount`'s promise, and does every call end? | 2 callers, 2 queries (one malformed) by 2 tables, age and lag 1, clock to 3 |
| `server_lifecycle` | does Stop, at any moment, leave nothing served, no handler on a closed database, and the port free? | 2 starts on one port, 1 connection each |
| `server_panel` | can goroutines that write the panel's fields confuse two servers? Does it hear of every end? | 2 starts, 1 connection |
| `page_cache` | does a page asked for after a rating was acknowledged show it, and is a page, from the handler or the cache, filtered as its request says? | 2 exchanges (symmetric), 2 writes, a gallery page that names a type and a file page that goes by the cookies |
| `gallery_walk` | do rail, pager, link back and random page agree with the gallery while it changes and old pages are shown again? | 3 files, one a video, keys NULL, 0, 1, pages of 2, rail of 1, ratings NULL and 1, 2 rating filters, 1 change |
| `listings` | does turning all pages of a list show exactly what the filter wants, and keep the filter, with and without 304s? | 6 lists of 3 galleries or files, each empty, with unavailable files or with an image; pages of 1; ratings NULL, 1, 2; 3 filters, one with its bounds swapped; 1 cookie change |
| `gui_server` | does the panel show and start what it says, and are pictures found, while log and files change? | 1 start, 5 setups and an edited DFLOG; buffer of 3, view of 2, arrays of 3 and 5, 7 lines; 3 places, 2 lines of DFLOG, times 0 (no file) to 3, of which 2 and 3 are in one second, 1 picture under a path of 3 parts or 1 |
| `page_rail`, `random_draw`, `random_page`, `user_galleries`, `known_files` | documented statements the code contradicts: section 4 | as above; `random_draw` with 3 ids, 2 filters, 4 changes from an empty database |

*Why the bounds are enough.* Rows collide pairwise, so two callers meet every
conflict, and the clock runs past one expiry and into a second row. A restart
concerns two servers and one port. Tags, cookies and versions differ pairwise;
two exchanges can overtake one another. Three files with a rail of 1 are the least
in which the rail can pass over a file, with a page of 2 the least in which a
rank is off a page boundary; a NULL, a 0 and one more key are the cases the rail's
comparison tells apart; with one change in the middle of a walk each query
may see either database. In a list, pages of 1 make each gallery a page
boundary and three galleries allow an empty one before, between and after the
others. A buffer of 3 whose array has room for 5 is written in place, outgrows its
array and is written in place again within 7 lines, while a view of 2 is held over
any of these steps. Three places of one picture are its own, its own as RipMe
spells it, and one both of another gallery and of the log; of the three times of files
the first is a second before the others, which are in one, so that a file is newer, older
and of the same second as a copy. In the gallery one change makes two versions of the
database, one to be shown again and the present one. `MaxNow`, `MaxWrites`, `MaxChanges`,
`MaxLines`, `MaxOthers`, `MaxEntries`, `MaxTime`, `Servers` and the sizes of the sets
are the only bounds; none of them is in the proofs' way, which hold for all
values.

*The constraint of `gui_server`.* The log view and the requests for pictures share
only the start of the server, and their product is too large. `OneSideAtATime`
explores each with the other at rest: the log view with all its interleavings in
the first setup with an empty DFLOG, the requests in the two setups that differ in where
the log lies, the start in all five. In the part with requests at most one line of DFLOG is
there and none is left unread when they begin, and files are written in the first setup
only: one write without or with a known file, a second one without, for a picture at its own
two places. Liveness (`LoadFailureIsShown`) is checked within the
constraint, which never stops the log view in its first setup, the part the
property is about. The proofs of section 5 know no such constraint: they cover
the interleavings it leaves out for every property of the run but
`LoadFailureIsShown`, of which they cover the safety core.

*Fairness.* `SearchHits`: a goroutine whose next statement can run runs it
(weak fairness of `Statement`); callers, cancellations and the clock owe
nothing. `ServerLifecycle`: goroutines that can run do, and the two seconds of
Stop pass (weak fairness of `StopSteps`, of which the timeout is one); `Accept`
on an open listener is not made to fail, and browsers owe nothing.
`ServerPanel`: the same, and the event loop inside a Stop, an Optimize and the
watchers go on. `GuiServer`: the start goroutine and the watcher go on, a frame that
was asked for comes (weak fairness of `repaint /\ Frame`: the toolkit answers
`Invalidate`; nobody else owes a frame), and a frame that has begun ends.
All of it is what the Go scheduler gives a runnable goroutine.
`PageCache`, `GalleryPages` and `Listings` state safety only and assume none.

*Deadlock* is not checked where the system may really stop: when the clock has
reached its bound (`SearchHits`) or all starts are used up or the window is
closed (life cycle, panel), or when all lines are written, files may not change
any more and nobody asks for a picture (`gui_server`).

## 4. What the runs found

Each finding has a counterpart that is proved for every value of the constants and
says what remains of the promise, where possible exactly.

1. `page_rail`. The entity tag hashes the `sort` parameter but not the cookie
   that stands in for it, so a file page seen before is answered 304 with the
   rail of the old sort order (`docs/developing.md:37`). What remains: a page
   whose URL names a sort order is in that order (`NamedSortsAreKept`).
2. `random_draw`. Random Gallery and Random File are to go to "a random album" and "a
   random available file" (`handlers.go:2407`, `2513`). The draw is at most one less than the
   largest id and the first row from there is taken, so where the two largest ids
   follow each other the newest gallery or file never comes up; with a filter
   neither, if both pass it. The comment at `handlers.go:2608` expects a bad
   distribution from deleted rows only. Exactly (`DrawMissesTheNewest`): a draw may find any
   row that matches but the newest, which it never finds if the id before it matches.
3. `random_page`. The random page takes the type filter from the referer only,
   the gallery takes it from the cookie too, and a random file of a gallery
   ignores it: it leaves "the current page set" (`base.gohtml:86`). With rating
   filters alone it stays within it (`RandomPageKeepsRatings`), and with a type whenever
   the URL names the type in force (`RandomPageOfTheType`). The files of a
   search share this: `RandomPageIsAnother` holds of them only for a page whose
   URL names the type, or without one.
4. `user_galleries`. A user's list has LIMIT and OFFSET over albums without
   files, which are dropped afterwards and are not in the total; the next link
   can be missing with galleries still to come. The other lists are exact or err
   on the other side only: `EveryAlbumIsReached`. What remains: without such albums the
   user's galleries are all reached (`UserGalleriesAreReachedIfShown`), and with them
   still nothing else is seen (`OnlyThePromisedIsSeen`).

5. `known_files`. `db.go:235` says that a line of DFLOG is "a relative or absolute
   path", `src/README.md:103` that DFLOG_ROOT is what relative ones are resolved
   from. Every line is joined to the directory of the log instead: an absolute line
   ends up below that directory, DFLOG_ROOT has no effect when DFLOG is absolute, and
   with a relative DFLOG in a subdirectory that subdirectory is in the path
   twice. `KnownFilesAreTheLogs` is about the logs whose relative lines are
   all right (`PlainLog`). Exactly (`LinesThatNameTheirFiles`): a line is looked for where
   it is meant if and only if the one directory all lines are looked for in is the root
   of the file system, for an absolute line, or DFLOG_ROOT, for a relative one.

Consequences the models have that no document denies, and so no run checks: the
pages at the end of browse, tag and unfiltered galleries can be empty, since
unavailable files count (the comment at `handlers.go:298` says so); the choice
"include" is not spelled in the links of a pager, so another tab's choice may
replace it (`PagerKeepsFilter` says precisely what is kept); a search list that is shown
again on a 304 sets no cookie, so after a search asked for with at least 3 stars, then
with 5, then with 3 again, the next page without parameters has 5 (`DefaultIsLastFilter`
is about the last page a handler made); a file page that is shown again on a 304 has its
old rail, which leads past what was downloaded since (`RailWalkIsComplete` is about
the files that passed the filters ever since the oldest page of the walk was made, and
says that none of those is passed over); a rail compares
NULL as 0, so a gallery may skip files where a file with NULL in the column it is
sorted by has a larger id than one with 0 (the properties of the rail are about the
others, whose `KeysAreClear`, and `ComparisonsAgree` proves that comparison and
order agree for those only); a link
back is made for a file that does not pass the filter too, and may then lead
past the last page; the read-write handle is never closed; `cacheBust` ends with the
browser's session and the browser's HTTP cache does not, so the first visit after
a restart is called current with the page from before the user's last rating
(`ReadYourRatings` is stated for a session); a request that
outlives the two seconds of Stop may meet Optimize, which README.md asks the
user to avoid and the panel does not prevent (`OptimizeMeetsOnlyStragglers` says
that no other request meets it but one of a server whose `Serve` failed by itself; it is
about requests, and handles may be open without one, since a start that fails after
opening its own, or finds the port taken, closes none, `server.go:108`, `212-217`); a
search fails for a good query when the database fails one of its statements
(`ConflictNeedsARival` says that no call collides with its own row for it); a 304 may
hide a picture newer than the browser's copy, if it was written in the same second, if the
file was replaced by an earlier one or taken away between `os.Stat` and `os.Open`, so that
the copy has headers of a later file than its body (with a file taken away the body may
be that of a 404; `NotModifiedIsNoNewer` says that it hides no other);
a directory next to the media root whose name begins with the root's passes
`cleanJoin`; CORS_ORIGINS of the environment is lost when a
server is started from the panel, whose field for it is never filled
(`gui_gio.go:134`; `UntouchedPanelKeepsTheConfig` says that nothing else is lost); a
connection string of the user's that is read-only in a spelling the code does not
know (`_query_only=true`) keeps the read-write handle and Optimize from writing
(`HandlesWriteAsMeant` says that no other string does, and that no string lets the
read-only handle write); a line that is logged after the last thing that asks
for a frame, as "Serving on ..." and the error of the listener
are (`server.go:213-219`), is shown in the next frame, whenever that is.

## 5. Proofs

All proofs hold for every value of the constants that satisfies the module's
`ASSUME`.

* **SearchHits_proofs.** `TypeCorrect`, `Fresh`, `ConflictsHaveRivals`, and
  `Refinement`: `Spec => Abstract!Spec`. Freshness is not inductive, since the
  lookup does not test a row's age. `IInv` adds `RowsSound` (a row holds a
  total of its key, at most `Lag` older than the row), `CallsSound` (past its
  eviction a call finds no row that was too old when it began),
  `RivalsKnown` (overlapping calls of a key know of each other) and
  `MissedRowsAreRivals` (a row that appears after a miss was put there by a
  rival). The refinement follows step by step from `IInv`.
* **ServerLifecycle_proofs.** `TypeCorrect`, `HandlersAreDrained`,
  `ReadyIsTrue`, `NoServiceAfterStop`, `KnownFilesPublishedFirst`. `IInv` adds
  `ListenerHandedOver` (who holds the port at which step, and that an accepting
  server holds it exactly while it is not shut down), `StopCancelsFirst` (the
  order inside Stop) and `DrainedBeforeClose` (once the databases may be closed,
  only connections Stop gave up on are left). The heart is that `Serve` and
  `Shutdown` race for the listener and whichever is second sees the other's
  mark. `PortIsAccountedFor`, from `PortInv`: who holds the port can be read off the
  goroutine and the flag at every step, so no goroutine ends with it and `Serve` and
  `Shutdown` never wait for each other.
* **Listings_proofs.** `ClauseKeepsTheWanted`: for every filter whose bounds
  are in order, and every rating or none, the SQL clause is true exactly for
  what the form offers. `TypeCorrect`, `DefaultFilter` (of pages a handler made) and
  `FilterIsCarried`:
  `IInv` adds `ShownFilterIsOrdered`, that the filter of a page shown has its
  bounds in order; without it a swap could change what a link spells out.
  `RandomPageMoves` rests on `DrawIsAnotherPage`. `ListsAreReached`: `ReachInv`
  adds that what has been seen is a prefix of the list up to the end of some page
  (steps back included), and that a page without a next link ends the list; the
  totals, which have other conditions than the rows, must not be smaller
  (`TotalIsEnough`). `ReachInv` knows no list but by whether it hides rows
  (`NoRowIsHidden`), which gives `UserGalleriesAreReachedIfShown` for the list that may;
  `OnlyThePromisedIsSeen` is from `SeenInv`, for all lists.
* **Paging_proofs.** A list is a finite set with a strict total order. Its rows
  have the places 0 to n - 1, each another (`EveryPlaceIsTaken`: the map from rows
  to places is an injection between sets of one size), and so a page of LIMIT and
  OFFSET has rows exactly if it begins before the end (`PageBegins`).
  `PageCount` bounds `getPageCount`; so each row is on exactly one of the pages it
  counts (`EveryRowHasItsPage`). `DrawIsAnotherPage` and `EveryOtherPageIsDrawn` are the
  random page: never the same, and any of the others. `DrawMissesTheNewest` is the draw
  of a random row, exactly. The galleries and the lists both use it, each with its own order.
* **GalleryPages_proofs.** `TypeCorrect`; `WalkIsComplete`, whose invariant
  `WalkInv` adds that a page is of a file of the walk and that each half of its
  rail has, with a file, every file of `Always` between the two, while the page is
  still being made of several queries and the database changes. `Always`, the files that
  passed the filters in every version since the oldest page of the walk, only shrinks
  when a page of an older version joins the walk; and, from
  `SteadyInv`, which follows what each query has found through the steps of a
  handler, `RailShowsTheNeighbours`, `BackLinkIsRight`, `NextLinkIsRight` and
  `RandomPageIsRight` and `RandomPageOfTheType`. The properties of the rail and of the
  rank are about galleries whose `KeysAreClear`. That is not a convenience: the row
  comparison takes NULL for 0, the ORDER BY does not, and `ComparisonsAgree` proves that
  the two are one order if and only if no file without a key has a larger id than one
  whose key is 0. Nothing is assumed of the keys themselves.
* **ServerPanel_proofs.** `PanelDrivesTheServers`: `PanelSpec => Spec`, so all that is
  proved of `ServerLifecycle` holds of the servers the panel starts.
  `PanelTypeCorrect`, `LateWatchersAreGone`, `StatusIsAboutTheController`,
  `OnlyStragglersMeetOptimize`. `PInv` adds to the server's `IInv` that every server but the
  one of `ctrl` is cancelled and its watcher gone (`WatchersFollow`), that only
  `ctrl` is being stopped, and only while the event loop is in that Stop
  (`OneStopAtATime`), how a context came to be cancelled (`CausesAreKnown`), and that
  during an Optimize no connection is open that Stop did not give up on
  (`OptimizeAmongStragglers`). What a step of a server means to all of this is
  proved once (`ServerGoesOn`). `RunningIsWatched`, from `FlagInv`: `running` is true exactly
  while the watcher that will turn it off is there.
* **PageCache_proofs.** `TypeCorrect`, `RatingsAreRead`, `FiltersAreCurrent`. `IInv`
  adds that what carries the present `cacheBust` has the last acknowledged rating,
  page by page, request by request and copy by copy (`StoreIsCurrent`,
  `VisitsAreCurrent`, `CopiesAreCurrent`, `PagesAreCurrent`), that a `cacheBust` on its
  way to the browser is one nothing else carries (`OldBusts`, `NewBusts`), which is why
  an answer that is overtaken cannot make an old page current, and that a page has
  the filter its tag stands for (`TagsKnowTheFilter`). `NamedSortsAreKept`, from `SortInv`: what
  is stored or sent under a URL that names a sort order is in that order.
* **GuiServer_proofs.** `LogIsATail` (the refinement of `LogTail`) and
  `CaretFollowsItsLine` from `LogInv`: the view's array holds, up to the end of the
  view, lines in the order they were written, and the buffer never writes before
  its own end. `UntouchedPanel` from `ConfigInv`: applying the defaults to what came
  from the defaults changes nothing, path by path. `KnownFilesAreLoaded` from
  `FoundInv`: `found` has exactly the lines before `pos`; both the place a line is looked for
  and the one it is meant to be at are its names behind those of a directory
  (`PlacesOfAnEntry`), so the places are one if and only if the directories are
  (`LinesThatNameTheirFiles`). `HandlesDiffer`: what each step does to a connection string
  of any length, whose recursive `Without` is reasoned about through a least index at
  which a claim fails. `StayingFilesAreServed`,
  `OwnFileIsPreferred` and `CopiesAreCurrent` from `RequestInv`: what has been passed
  over was gone at some moment, what is still to be tried contains the rest, and
  the date of a copy never gets into a later second than the headers its body came with
  (`TimesOk`; nothing relates those headers to the body, which is why the theorem says
  of which copies it speaks).
  `PaintedFailureIsSeen`, from `FailureInv`: until the frame that the watcher asked for is
  painted, the line of a failed load is still owed to the view. `TypeCorrect` with
  `GuiInv`. They assume `LiteralAssumption` ("dflog" is a string), which the provers
  do not know of a literal and TLC evaluates.

Model-checked only: the four liveness properties, since fairness and ENABLED are
out of the prover's reach. Of three of them the safety core is proved, that is, the
invariant by which only steps that fairness grants are left to happen:
`StopReleasesThePort` (`PortIsAccountedFor`), `PanelNoticesTheEnd` (`RunningIsWatched`) and
`LoadFailureIsShown` (`PaintedFailureIsSeen`). `EveryCallEnds` has none worth stating: a call
is a fixed sequence of statements, each of which ends.

## 6. Not modelled

Text: what a query says, file names, escaping (a link of a random search page is
not escaped, `handlers.go:2735`), an empty `rips.directory`.
Presentation: templates, CSS, scripts but for the keys named above, placeholders of
the development build, the layout of the GUI's widgets, calls of the platform. Read-only
pages without state: stats, about, tags, the file page outside a gallery, the
summaries of a search and of a user. The second toolkit (`gui_giu.go`) is the same logic as the
first. Page sizes from the cookie are fixed per run. The rating buttons show the answer
that comes last, the database has the UPDATE that ran last; no document says what
they show meanwhile, and the next page shows the database (`ReadYourRatings`).

Of what is modelled: a file that is there can be opened; of the size of a file only that it
may or may not have changed is known; the second answer of a handler that has already
redirected (`handlers.go:2678`) is dropped; equal scores of a search have one order
here, whichever SQLite gives them; known files are looked up by the name as it is
asked for, so the names of a log are those of the pictures.

## 7. Plan

Done: search totals, life cycle, panel, page cache, gallery pages, lists, known
files and pictures, log buffer, configuration, random draws; proofs of every safety
property of the passing runs, of the safety core of three of the four liveness
properties, and of what each finding leaves of the promise it breaks.

Left: the second toolkit where it differs from the first, page sizes from the cookie,
and a run of its own for `RandomDraw`'s other promise, that a request ends in an
error only if nothing passed its filters all the time.
