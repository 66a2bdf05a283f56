----------------------------- MODULE SearchHits -----------------------------
(***************************************************************************)
(* The cache of search totals: getSearchAlbumHits and getSearchFileHits of *)
(* internal/server/searching.go, run by the goroutines of concurrent       *)
(* requests over one in-memory SQLite table, search_hits.                  *)
(*                                                                         *)
(* A call is four SQL statements with nothing that holds them together:    *)
(* delete the expired rows, look the key up, count in the database, insert *)
(* the count.  CacheDb has one connection (SetMaxOpenConns(1)), so each    *)
(* statement is atomic; between two of them every other request may run.   *)
(* The table has the primary key (query_hash, table_name): the second of   *)
(* two requests that both miss gets a constraint error at its insert, and  *)
(* the caller shows it as a search error.  Every statement may fail for    *)
(* reasons of the database's own as well (busy, closed by Stop, I/O): then *)
(* the call returns that error at once.                                    *)
(*                                                                         *)
(* A number of hits is represented by the key it was counted for and the   *)
(* moment of the count: what matters of it is whose it is and how old.     *)
(***************************************************************************)
EXTENDS Integers

CONSTANTS
  Callers,     \* goroutines serving search pages, one call at a time each
  Queries,     \* a query text with its filters: what queryHash is taken of
  BadQueries,  \* those whose text is not valid FTS5 syntax
  MaxAge,      \* maxCacheAgeMs
  Lag,         \* how long a counted total may wait to be inserted
  MaxNow       \* bound on the clock

ASSUME SearchHitsAssumption ==
  /\ BadQueries \subseteq Queries
  /\ MaxAge \in Nat
  /\ Lag \in Nat
  /\ MaxNow \in Nat

VARIABLES
  now,       \* UNIXEPOCH('subsec') * 1000
  rows,      \* the table search_hits
  pc,        \* pc[r]: the statement r is about to run, or how its call ended
  key,       \* key[r]: query_hash and table_name of r's latest call
  begun,     \* history: when the call began
  total,     \* albumsTotal / filesTotal
  rivals     \* history: callers whose call for the same key overlapped

vars == <<now, rows, pc, key, begun, total, rivals>>
call == <<key, begun, total, rivals>>

Keys == Queries \X {"album", "remote_file"}
BadKeys == BadQueries \X {"album", "remote_file"}
Hits == [of : Keys, at : Nat]
NoHits(k) == [of |-> k, at |-> -1]
Row == [key : Keys, hits : Hits, inserted : Nat]

Phases == {"evict", "lookup", "count", "store"}
\* The last three are an error: the MATCH is malformed, the primary key is
\* taken, or the database failed.
Outcomes == {"answered", "malformed", "taken", "faulted"}
InCall(r) == pc[r] \in Phases

Window == MaxAge + Lag

\* Mutant: the SELECT forgets table_name.
RowsForQueryText(k) == {row \in rows : row.key[1] = k[1]}

RowsFor(k) == {row \in rows : row.key = k}

\* Mutant: the expiry is off by one.
UnexpiredByOne == {row \in rows : now - row.inserted <= MaxAge + 1}

Unexpired == {row \in rows : now - row.inserted <= MaxAge}

\* Mutant: the INSERT uses the total before it is scanned.
RowOfUnscanned(r) ==
  [key |-> key[r], hits |-> NoHits(key[r]), inserted |-> now]

RowOf(r) == [key |-> key[r], hits |-> total[r], inserted |-> now]

Init ==
  /\ now = 0
  /\ rows = {}
  /\ pc = [r \in Callers |-> "idle"]
  /\ key \in [Callers -> Keys]
  /\ begun = [r \in Callers |-> 0]
  /\ total = [r \in Callers |-> NoHits(key[r])]
  /\ rivals = [r \in Callers |-> {}]

-----------------------------------------------------------------------------
Begin(r, k) ==
  LET others == {s \in Callers : InCall(s) /\ key[s] = k}
  IN  /\ ~InCall(r)
      /\ pc' = [pc EXCEPT ![r] = "evict"]
      /\ key' = [key EXCEPT ![r] = k]
      /\ begun' = [begun EXCEPT ![r] = now]
      /\ total' = [total EXCEPT ![r] = NoHits(k)]
      /\ rivals' = [s \in Callers |->
                      IF s = r THEN others
                      ELSE IF s \in others THEN rivals[s] \union {r}
                      ELSE rivals[s]]
      /\ UNCHANGED <<now, rows>>

getSearchAlbumHits(r, q) == Begin(r, <<q, "album">>)

\* The same four statements with the other table name and the file filters.
getSearchFileHits(r, q) == Begin(r, <<q, "remote_file">>)

\* 1: the DELETE.  It removes the expired rows of every key.  (The second
\* half of its WHERE clause never holds: every caller passes evictCache =
\* false.)
Evict(r) ==
  /\ pc[r] = "evict"
  /\ rows' = Unexpired
  /\ pc' = [pc EXCEPT ![r] = "lookup"]
  /\ UNCHANGED <<now, call>>

\* 2: the SELECT, which does not look at the age of the row it finds.
LookupHit(r) ==
  /\ pc[r] = "lookup"
  /\ \E row \in RowsFor(key[r]) :
       /\ \A other \in RowsFor(key[r]) : other.inserted <= row.inserted
       /\ total' = [total EXCEPT ![r] = row.hits]
  /\ pc' = [pc EXCEPT ![r] = "answered"]
  /\ UNCHANGED <<now, rows, key, begun, rivals>>

\* Mutant: the age is tested again by the SELECT, with the other boundary.
LookupMissAtMaxAge(r) ==
  /\ pc[r] = "lookup"
  /\ \A row \in RowsFor(key[r]) : now - row.inserted >= MaxAge
  /\ pc' = [pc EXCEPT ![r] = "count"]
  /\ UNCHANGED <<now, rows, call>>

LookupMiss(r) ==
  /\ pc[r] = "lookup"
  /\ RowsFor(key[r]) = {}
  /\ pc' = [pc EXCEPT ![r] = "count"]
  /\ UNCHANGED <<now, rows, call>>

\* The call ends without a total, and its history is of no further use.
Forget(r, outcome) ==
  /\ pc' = [pc EXCEPT ![r] = outcome]
  /\ begun' = [begun EXCEPT ![r] = 0]
  /\ total' = [total EXCEPT ![r] = NoHits(key[r])]
  /\ rivals' = [rivals EXCEPT ![r] = {}]

\* 3: the COUNT(*) on the gallery database, which rejects a malformed query.
Count(r) ==
  /\ pc[r] = "count"
  /\ key[r] \notin BadKeys
  /\ total' = [total EXCEPT ![r] = [of |-> key[r], at |-> now]]
  /\ pc' = [pc EXCEPT ![r] = "store"]
  /\ UNCHANGED <<now, rows, key, begun, rivals>>

CountFails(r) ==
  /\ pc[r] = "count"
  /\ key[r] \in BadKeys
  /\ Forget(r, "malformed")
  /\ UNCHANGED <<now, rows, key>>

\* 4: the INSERT, and the error it raises when the primary key is taken.
Store(r) ==
  /\ pc[r] = "store"
  /\ RowsFor(key[r]) = {}
  /\ rows' = rows \union {RowOf(r)}
  /\ pc' = [pc EXCEPT ![r] = "answered"]
  /\ UNCHANGED <<now, call>>

\* Mutant: a constraint error is retried for as long as the row is there.
StoreRetried(r) ==
  /\ pc[r] = "store"
  /\ RowsFor(key[r]) # {}
  /\ UNCHANGED vars

StoreConflict(r) ==
  /\ pc[r] = "store"
  /\ RowsFor(key[r]) # {}
  /\ pc' = [pc EXCEPT ![r] = "taken"]
  /\ UNCHANGED <<now, rows, call>>

\* Any of the four statements fails for a reason that lies in the database:
\* it is busy, Stop has closed it, the disk does not answer.  SQLite rolls
\* the statement back.
Fault(r) ==
  /\ InCall(r)
  /\ Forget(r, "faulted")
  /\ UNCHANGED <<now, rows, key>>

\* withSQL finds the request's context cancelled, or the driver does while it
\* runs the statement: then the statement may or may not have taken effect.
\* Nobody is left to see how the call ended.
Cancel(r) ==
  /\ InCall(r)
  /\ \/ rows' = rows
     \/ pc[r] = "evict" /\ rows' = Unexpired
     \/ /\ pc[r] = "store"
        /\ RowsFor(key[r]) = {}
        /\ rows' = rows \union {RowOf(r)}
  /\ Forget(r, "idle")
  /\ UNCHANGED <<now, key>>

-----------------------------------------------------------------------------
Tick ==
  /\ now < MaxNow
  /\ \A r \in Callers : pc[r] = "store" => now - total[r].at < Lag
  /\ now' = now + 1
  /\ UNCHANGED <<rows, pc, call>>

Statement(r) ==
  \/ Evict(r) \/ LookupHit(r) \/ LookupMiss(r)
  \/ Count(r) \/ CountFails(r) \/ Store(r) \/ StoreConflict(r)

Next ==
  \/ \E r \in Callers :
       \/ \E q \in Queries : getSearchAlbumHits(r, q) \/ getSearchFileHits(r, q)
       \/ Statement(r)
       \/ Fault(r)
       \/ Cancel(r)
  \/ Tick

Spec == Init /\ [][Next]_vars

\* A goroutine that can run its next statement eventually does.
FairSpec == Spec /\ \A r \in Callers : WF_vars(Statement(r))

-----------------------------------------------------------------------------
TypeOK ==
  /\ now \in Nat
  /\ rows \subseteq Row
  /\ pc \in [Callers -> Phases \union Outcomes \union {"idle"}]
  /\ key \in [Callers -> Keys]
  /\ begun \in [Callers -> Nat]
  /\ total \in [Callers -> [of : Keys, at : Nat \union {-1}]]
  /\ rivals \in [Callers -> SUBSET Callers]

\* A total that is answered was counted for the query, the filters and the
\* table that were asked for, at most MaxAge + Lag before the call began,
\* however the statements of the callers and the expiry of rows interleave.
FreshEnough ==
  \A r \in Callers :
    pc[r] = "answered" =>
      /\ total[r].of = key[r]
      /\ total[r].at \in 0..now
      /\ total[r].at >= begun[r] - Window

\* A search whose total is counted and then refused by the primary key, and
\* which is shown as a search error for it, overlapped another call for the
\* same key: a query repeated by itself, at any age of its cached row, after
\* any error of the database, never collides with that row.
ConflictNeedsARival ==
  \A r \in Callers : pc[r] = "taken" => rivals[r] # {}

\* Every call of a search total ends, whatever the other calls do to the cache.
EveryCallEnds == \A r \in Callers : InCall(r) ~> ~InCall(r)

\* The cache keeps the promise of HitCount: from outside, a call is asking
\* while it runs its statements, and its total counts once it is answered.
StatusOf == [r \in Callers |-> IF InCall(r) THEN "asking" ELSE pc[r]]
AnswerOf == [r \in Callers |->
               IF pc[r] = "answered" THEN total[r] ELSE NoHits(key[r])]
Abstract == INSTANCE HitCount WITH status <- StatusOf, answer <- AnswerOf

KeepsThePromise == Abstract!Spec

-----------------------------------------------------------------------------
(***************************************************************************)
(* The inductive invariant behind FreshEnough and ConflictNeedsARival.     *)
(***************************************************************************)
RowsSound ==
  \A row \in rows :
    /\ row.hits.of = row.key
    /\ row.hits.at <= row.inserted
    /\ row.inserted <= row.hits.at + Lag
    /\ row.inserted <= now

CallsSound ==
  \A r \in Callers :
    /\ InCall(r) => begun[r] <= now
    /\ pc[r] = "lookup" => \A row \in rows : row.inserted >= begun[r] - MaxAge
    /\ pc[r] = "store" => /\ total[r].of = key[r]
                          /\ total[r].at \in 0..now
                          /\ now <= total[r].at + Lag

RivalsKnown ==
  \A r, s \in Callers :
    r # s /\ InCall(r) /\ InCall(s) /\ key[r] = key[s] => s \in rivals[r]

\* A row that appeared after a call missed it was put there by a rival.
MissedRowsAreRivals ==
  \A r \in Callers :
    pc[r] \in {"count", "store"} /\ RowsFor(key[r]) # {} => rivals[r] # {}

IInv ==
  /\ TypeOK
  /\ RowsSound /\ CallsSound /\ RivalsKnown /\ MissedRowsAreRivals
  /\ FreshEnough /\ ConflictNeedsARival
=============================================================================
