-------------------------- MODULE SearchHits_proofs --------------------------
(***************************************************************************)
(* Proofs about SearchHits for every set of callers and queries and every  *)
(* MaxAge, Lag and MaxNow: the inductive invariant, the two safety         *)
(* properties, and the refinement of HitCount.                             *)
(***************************************************************************)
EXTENDS SearchHits, TLAPS

\* The invariant holds when the server has just created its empty cache.
LEMMA IInvInit == Init => IInv
BY SearchHitsAssumption
DEF Init, IInv, TypeOK, RowsSound, CallsSound, RivalsKnown,
    MissedRowsAreRivals, FreshEnough, ConflictNeedsARival, NoHits, Keys,
    Phases, Outcomes, InCall

\* Asking for a total: the call and its rivals learn of each other.
LEMMA BeginStep ==
  ASSUME IInv, NEW r \in Callers, NEW k \in Keys, Begin(r, k)
  PROVE  IInv'
<1> DEFINE others == {s \in Callers : InCall(s) /\ key[s] = k}
<1> USE DEF IInv
<1>1. TypeOK'
  BY DEF TypeOK, Begin, NoHits, Phases, Outcomes
<1>2. /\ InCall(r)' /\ ~InCall(r)
      /\ \A s \in Callers : s # r => /\ pc'[s] = pc[s]
                                     /\ key'[s] = key[s]
                                     /\ begun'[s] = begun[s]
                                     /\ total'[s] = total[s]
      /\ pc'[r] = "evict" /\ key'[r] = k /\ begun'[r] = now
      /\ rows' = rows /\ now' = now
  BY DEF Begin, TypeOK, InCall, Phases
<1>3. RowsSound'
  BY <1>2 DEF RowsSound
<1>4. CallsSound'
  BY <1>2 DEF CallsSound, InCall, TypeOK
<1>5. RivalsKnown'
  <2> SUFFICES ASSUME NEW a \in Callers, NEW b \in Callers, a # b,
                      InCall(a)', InCall(b)', key'[a] = key'[b]
               PROVE  b \in rivals'[a]
    BY DEF RivalsKnown
  <2>1. CASE a = r
    BY <2>1, <1>2 DEF Begin, InCall
  <2>2. CASE b = r
    BY <2>2, <1>2 DEF Begin, InCall
  <2>3. CASE a # r /\ b # r
    BY <2>3, <1>2 DEF Begin, InCall, RivalsKnown
  <2> QED BY <2>1, <2>2, <2>3
<1>6. \A s \in Callers : s # r => rivals[s] \subseteq rivals'[s]
  BY DEF Begin, TypeOK
<1>7. MissedRowsAreRivals'
  BY <1>2, <1>6 DEF MissedRowsAreRivals, RowsFor
<1>8. FreshEnough'
  BY <1>2 DEF FreshEnough
<1>9. ConflictNeedsARival'
  BY <1>2, <1>6 DEF ConflictNeedsARival
<1> QED BY <1>1, <1>3, <1>4, <1>5, <1>7, <1>8, <1>9

\* A statement that changes no row and starts no call only moves its caller on.
LEMMA EvictStep ==
  ASSUME IInv, NEW r \in Callers, Evict(r)
  PROVE  IInv'
<1> USE SearchHitsAssumption DEF IInv
<1>1. /\ rows' \subseteq rows
      /\ \A row \in rows' : row.inserted >= now - MaxAge
      /\ pc' = [pc EXCEPT ![r] = "lookup"] /\ pc[r] = "evict"
      /\ now' = now /\ key' = key /\ begun' = begun
      /\ total' = total /\ rivals' = rivals
  BY DEF Evict, Unexpired, call, TypeOK, Row, Hits
<1>2. TypeOK'
  BY <1>1 DEF TypeOK, Phases, Outcomes
<1>3. RowsSound'
  BY <1>1 DEF RowsSound
<1>4. CallsSound'
  BY <1>1 DEF CallsSound, InCall, TypeOK, Row, Phases
<1>5. RivalsKnown'
  BY <1>1 DEF RivalsKnown, InCall, TypeOK, Phases
<1>6. MissedRowsAreRivals'
  BY <1>1 DEF MissedRowsAreRivals, RowsFor, TypeOK
<1>7. FreshEnough' /\ ConflictNeedsARival'
  BY <1>1 DEF FreshEnough, ConflictNeedsARival, TypeOK
<1> QED BY <1>2, <1>3, <1>4, <1>5, <1>6, <1>7

LEMMA LookupHitStep ==
  ASSUME IInv, NEW r \in Callers, LookupHit(r)
  PROVE  IInv'
<1> USE SearchHitsAssumption DEF IInv
<1>1. PICK row \in RowsFor(key[r]) : total' = [total EXCEPT ![r] = row.hits]
  BY DEF LookupHit
<1>2. /\ pc' = [pc EXCEPT ![r] = "answered"] /\ pc[r] = "lookup"
      /\ now' = now /\ rows' = rows /\ key' = key /\ begun' = begun
      /\ rivals' = rivals
  BY DEF LookupHit
<1>3. row \in rows /\ row.key = key[r] /\ row \in Row
  BY DEF RowsFor, TypeOK
<1>4. TypeOK'
  BY <1>1, <1>2, <1>3 DEF TypeOK, Row, Hits, Phases, Outcomes
<1>5. RowsSound' /\ MissedRowsAreRivals'
  BY <1>2 DEF RowsSound, MissedRowsAreRivals, RowsFor, TypeOK
<1>6. CallsSound'
  BY <1>1, <1>2 DEF CallsSound, InCall, TypeOK, Phases
<1>7. RivalsKnown'
  BY <1>2 DEF RivalsKnown, InCall, TypeOK, Phases
<1>8. FreshEnough'
  <2>1. /\ row.hits.of = key[r]
        /\ row.hits.at \in 0..now
        /\ row.hits.at >= begun[r] - Window
    <3>1. row.inserted >= begun[r] - MaxAge
      BY <1>2, <1>3 DEF CallsSound
    <3> QED BY <3>1, <1>3 DEF RowsSound, Row, Hits, Window, TypeOK
  <2> QED BY <2>1, <1>1, <1>2 DEF FreshEnough, TypeOK
<1>9. ConflictNeedsARival'
  BY <1>2 DEF ConflictNeedsARival, TypeOK
<1> QED BY <1>4, <1>5, <1>6, <1>7, <1>8, <1>9

LEMMA LookupMissStep ==
  ASSUME IInv, NEW r \in Callers, LookupMiss(r)
  PROVE  IInv'
<1> USE SearchHitsAssumption DEF IInv
<1>1. /\ pc' = [pc EXCEPT ![r] = "count"] /\ pc[r] = "lookup"
      /\ RowsFor(key[r]) = {}
      /\ now' = now /\ rows' = rows /\ key' = key /\ begun' = begun
      /\ total' = total /\ rivals' = rivals
  BY DEF LookupMiss, call
<1>2. TypeOK'
  BY <1>1 DEF TypeOK, Phases, Outcomes
<1>3. RowsSound' /\ MissedRowsAreRivals'
  BY <1>1 DEF RowsSound, MissedRowsAreRivals, RowsFor, TypeOK
<1>4. CallsSound' /\ RivalsKnown'
  BY <1>1 DEF CallsSound, RivalsKnown, InCall, TypeOK, Phases
<1>5. FreshEnough' /\ ConflictNeedsARival'
  BY <1>1 DEF FreshEnough, ConflictNeedsARival, TypeOK
<1> QED BY <1>2, <1>3, <1>4, <1>5

LEMMA CountStep ==
  ASSUME IInv, NEW r \in Callers, Count(r)
  PROVE  IInv'
<1> USE SearchHitsAssumption DEF IInv
<1>1. /\ pc' = [pc EXCEPT ![r] = "store"] /\ pc[r] = "count"
      /\ total' = [total EXCEPT ![r] = [of |-> key[r], at |-> now]]
      /\ now' = now /\ rows' = rows /\ key' = key /\ begun' = begun
      /\ rivals' = rivals
  BY DEF Count
<1>2. TypeOK'
  BY <1>1 DEF TypeOK, Phases, Outcomes
<1>3. RowsSound' /\ MissedRowsAreRivals'
  BY <1>1 DEF RowsSound, MissedRowsAreRivals, RowsFor, TypeOK
<1>4. CallsSound'
  BY <1>1 DEF CallsSound, InCall, TypeOK, Phases
<1>5. RivalsKnown'
  BY <1>1 DEF RivalsKnown, InCall, TypeOK, Phases
<1>6. FreshEnough' /\ ConflictNeedsARival'
  BY <1>1 DEF FreshEnough, ConflictNeedsARival, TypeOK
<1> QED BY <1>2, <1>3, <1>4, <1>5, <1>6

\* A call whose insert finds its row taken has a rival.
LEMMA ConflictStep ==
  ASSUME IInv, NEW r \in Callers, StoreConflict(r)
  PROVE  IInv'
<1> USE SearchHitsAssumption DEF IInv
<1>1. /\ pc' = [pc EXCEPT ![r] = "taken"] /\ pc[r] = "store"
      /\ rivals[r] # {}
      /\ now' = now /\ rows' = rows /\ key' = key /\ begun' = begun
      /\ total' = total /\ rivals' = rivals
  BY DEF StoreConflict, call, MissedRowsAreRivals
<1>2. TypeOK'
  BY <1>1 DEF TypeOK, Phases, Outcomes
<1>3. RowsSound' /\ MissedRowsAreRivals'
  BY <1>1 DEF RowsSound, MissedRowsAreRivals, RowsFor, TypeOK
<1>4. CallsSound' /\ RivalsKnown'
  BY <1>1 DEF CallsSound, RivalsKnown, InCall, TypeOK, Phases
<1>5. FreshEnough' /\ ConflictNeedsARival'
  BY <1>1 DEF FreshEnough, ConflictNeedsARival, TypeOK
<1> QED BY <1>2, <1>3, <1>4, <1>5

\* The ways a call ends without a total and without touching the rows it
\* leaves: a malformed query, a failing database, and a cancelled request.
LEMMA ForgetStep ==
  ASSUME IInv, NEW r \in Callers,
         NEW outcome \in {"malformed", "faulted", "idle"},
         Forget(r, outcome), rows' \subseteq rows, UNCHANGED <<now, key>>
  PROVE  IInv'
<1> USE SearchHitsAssumption DEF IInv
<1>1. /\ \A s \in Callers : s # r => /\ pc'[s] = pc[s]
                                     /\ begun'[s] = begun[s]
                                     /\ total'[s] = total[s]
                                     /\ rivals'[s] = rivals[s]
      /\ pc'[r] = outcome /\ UNCHANGED <<now, key>>
  BY DEF Forget, TypeOK
<1>2. TypeOK'
  BY DEF TypeOK, Forget, NoHits, Phases, Outcomes
<1>3. RowsSound'
  BY <1>1 DEF RowsSound
<1>4. MissedRowsAreRivals'
  BY <1>1 DEF MissedRowsAreRivals, RowsFor
<1>5. CallsSound'
  BY <1>1 DEF CallsSound, InCall, Phases
<1>6. RivalsKnown'
  BY <1>1 DEF RivalsKnown, InCall, Phases
<1>7. FreshEnough' /\ ConflictNeedsARival'
  BY <1>1 DEF FreshEnough, ConflictNeedsARival
<1> QED BY <1>2, <1>3, <1>4, <1>5, <1>6, <1>7

\* The row a call inserts: the calls that missed it before are its rivals.
LEMMA InsertStep ==
  ASSUME IInv, NEW r \in Callers, pc[r] = "store",
         rows' = rows \union {RowOf(r)},
         UNCHANGED <<now, key>>,
         \/ /\ pc' = [pc EXCEPT ![r] = "answered"]
            /\ UNCHANGED <<begun, total, rivals>>
         \/ Forget(r, "idle")
  PROVE  IInv'
<1> USE SearchHitsAssumption DEF IInv
<1>1. /\ InCall(r)
      /\ total[r].of = key[r] /\ total[r].at \in 0..now
      /\ now <= total[r].at + Lag /\ begun[r] <= now
  BY DEF CallsSound, InCall, Phases
<1>2. RowOf(r) \in Row /\ RowOf(r).key = key[r] /\ RowOf(r).hits = total[r]
      /\ RowOf(r).inserted = now
  BY <1>1 DEF RowOf, Row, Hits, TypeOK
<1>3. /\ \A s \in Callers : s # r => /\ pc'[s] = pc[s]
                                     /\ begun'[s] = begun[s]
                                     /\ total'[s] = total[s]
                                     /\ rivals'[s] = rivals[s]
      /\ \/ pc'[r] = "answered" /\ UNCHANGED <<begun, total, rivals>>
         \/ pc'[r] = "idle"
      /\ ~InCall(r)'
  BY DEF Forget, TypeOK, InCall, Phases
<1>4. TypeOK'
  <2>1. rows' \subseteq Row /\ now' \in Nat /\ key' \in [Callers -> Keys]
    BY <1>2 DEF TypeOK
  <2>2. CASE pc' = [pc EXCEPT ![r] = "answered"] /\ UNCHANGED <<begun, total, rivals>>
    BY <2>1, <2>2 DEF TypeOK, Outcomes
  <2>3. CASE Forget(r, "idle")
    BY <2>1, <2>3 DEF TypeOK, Forget, NoHits
  <2> QED BY <2>2, <2>3
<1>5. RowsSound'
  BY <1>1, <1>2 DEF RowsSound, TypeOK
<1>6. CallsSound'
  <2>1. \A s \in Callers : InCall(s) => RowOf(r).inserted >= begun[s] - MaxAge
    BY <1>2 DEF CallsSound, TypeOK
  <2> QED BY <2>1, <1>3 DEF CallsSound, InCall, Phases
<1>7. RivalsKnown'
  BY <1>3 DEF RivalsKnown, InCall
<1>8. MissedRowsAreRivals'
  <2> SUFFICES ASSUME NEW s \in Callers, pc'[s] \in {"count", "store"},
                      RowsFor(key[s])' # {}
               PROVE  rivals'[s] # {}
    BY DEF MissedRowsAreRivals
  <2>1. s # r /\ pc[s] = pc'[s] /\ InCall(s) /\ rivals'[s] = rivals[s]
    BY <1>3 DEF InCall, Phases
  <2>2. CASE RowsFor(key[s]) # {}
    BY <2>1, <2>2 DEF MissedRowsAreRivals
  <2>3. CASE RowsFor(key[s]) = {}
    <3>1. key[s] = key[r]
      BY <2>3, <1>2 DEF RowsFor
    <3> QED BY <3>1, <2>1, <1>1 DEF RivalsKnown
  <2> QED BY <2>2, <2>3
<1>9. FreshEnough'
  BY <1>1, <1>3 DEF FreshEnough, TypeOK, Window
<1>10. ConflictNeedsARival'
  BY <1>3 DEF ConflictNeedsARival
<1> QED BY <1>4, <1>5, <1>6, <1>7, <1>8, <1>9, <1>10

LEMMA FailStep ==
  ASSUME IInv, NEW r \in Callers, CountFails(r) \/ Fault(r)
  PROVE  IInv'
BY ForgetStep DEF CountFails, Fault

LEMMA CancelStep ==
  ASSUME IInv, NEW r \in Callers, Cancel(r)
  PROVE  IInv'
<1>1. CASE rows' \subseteq rows
  BY <1>1, ForgetStep DEF Cancel
<1>2. CASE pc[r] = "store" /\ rows' = rows \union {RowOf(r)}
  BY <1>2, InsertStep DEF Cancel
<1>3. \/ rows' \subseteq rows
      \/ pc[r] = "store" /\ rows' = rows \union {RowOf(r)}
  BY DEF Cancel, Unexpired
<1> QED BY <1>1, <1>2, <1>3

\* Time passes; no total waits longer than Lag to be inserted.
LEMMA TickStep == IInv /\ Tick => IInv'
<1> SUFFICES ASSUME IInv, Tick PROVE IInv'
  OBVIOUS
<1> USE SearchHitsAssumption DEF IInv
<1>1. /\ now' = now + 1 /\ rows' = rows /\ pc' = pc /\ key' = key
      /\ begun' = begun /\ total' = total /\ rivals' = rivals
      /\ \A r \in Callers : pc[r] = "store" => now - total[r].at < Lag
  BY DEF Tick, call
<1>2. TypeOK'
  BY <1>1 DEF TypeOK
<1>3. RowsSound'
  BY <1>1 DEF RowsSound, TypeOK, Row
<1>4. CallsSound'
  BY <1>1 DEF CallsSound, InCall, TypeOK
<1>5. RivalsKnown' /\ MissedRowsAreRivals' /\ ConflictNeedsARival'
  BY <1>1 DEF RivalsKnown, MissedRowsAreRivals, ConflictNeedsARival, InCall, RowsFor
<1>6. FreshEnough'
  BY <1>1 DEF FreshEnough, TypeOK
<1> QED BY <1>2, <1>3, <1>4, <1>5, <1>6

LEMMA IInvNext == IInv /\ [Next]_vars => IInv'
<1> SUFFICES ASSUME IInv, [Next]_vars PROVE IInv'
  OBVIOUS
<1>1. ASSUME NEW r \in Callers, NEW q \in Queries,
             getSearchAlbumHits(r, q) \/ getSearchFileHits(r, q)
      PROVE  IInv'
  <2>1. <<q, "album">> \in Keys /\ <<q, "remote_file">> \in Keys
    BY DEF Keys
  <2> QED BY <1>1, <2>1, BeginStep DEF getSearchAlbumHits, getSearchFileHits
<1>2. ASSUME NEW r \in Callers, Statement(r) PROVE IInv'
  <2>1. CASE Evict(r) \/ LookupHit(r) \/ LookupMiss(r) \/ Count(r)
    BY <2>1, EvictStep, LookupHitStep, LookupMissStep, CountStep
  <2>2. CASE CountFails(r) \/ StoreConflict(r)
    BY <2>2, FailStep, ConflictStep
  <2>3. CASE Store(r)
    BY <2>3, InsertStep DEF Store, call
  <2> QED BY <1>2, <2>1, <2>2, <2>3 DEF Statement
<1>3. ASSUME NEW r \in Callers, Fault(r) \/ Cancel(r) PROVE IInv'
  BY <1>3, FailStep, CancelStep
<1>4. CASE Tick
  BY <1>4, TickStep
<1>5. CASE UNCHANGED vars
  BY <1>5 DEF vars, IInv, TypeOK, RowsSound, CallsSound, RivalsKnown,
     MissedRowsAreRivals, FreshEnough, ConflictNeedsARival, InCall, RowsFor
<1> QED BY <1>1, <1>2, <1>3, <1>4, <1>5 DEF Next

LEMMA Invariance == Spec => []IInv
BY IInvInit, IInvNext, PTL DEF Spec

\* For every set of callers and queries the variables keep their types.
THEOREM TypeCorrect == Spec => []TypeOK
BY Invariance, PTL DEF IInv

\* For every MaxAge and Lag, a total that getSearchAlbumHits or
\* getSearchFileHits answers with is its own query's and at most MaxAge + Lag
\* older than the call.
THEOREM Fresh == Spec => []FreshEnough
BY Invariance, PTL DEF IInv

\* A call's insert is refused by the primary key only when another call for its
\* key overlapped it: expiry, lookup and database errors of one caller alone
\* never lead to a constraint error.
THEOREM ConflictsHaveRivals == Spec => []ConflictNeedsARival
BY Invariance, PTL DEF IInv

-----------------------------------------------------------------------------
(***************************************************************************)
(* Refinement.                                                             *)
(***************************************************************************)
LEMMA AbstractInit == Init => Abstract!Init
BY DEF Init, StatusOf, AnswerOf, Abstract!Init, Abstract!Unanswered, NoHits, InCall, Phases

\* The statements between the first and the last leave the promise alone.
LEMMA SilentStep ==
  ASSUME IInv, NEW r \in Callers, Evict(r) \/ LookupMiss(r) \/ Count(r)
  PROVE  UNCHANGED Abstract!vars
<1>1. /\ \A s \in Callers : s # r => pc'[s] = pc[s] /\ total'[s] = total[s]
      /\ InCall(r) /\ InCall(r)' /\ pc[r] # "answered" /\ pc'[r] # "answered"
      /\ UNCHANGED <<now, key, begun, rivals>>
  BY DEF IInv, TypeOK, Evict, LookupMiss, Count, call, InCall, Phases
<1> QED BY <1>1 DEF Abstract!vars, StatusOf, AnswerOf, InCall

LEMMA AskingIsInCall ==
  ASSUME TypeOK, NEW r \in Callers
  PROVE  Abstract!Asking(r) <=> InCall(r)
BY DEF Abstract!Asking, StatusOf, TypeOK, Phases, Outcomes, InCall

LEMMA BeginRefines ==
  ASSUME IInv, NEW r \in Callers, NEW k \in Keys, Begin(r, k)
  PROVE  Abstract!Ask(r, k)
<1>1. /\ ~InCall(r) /\ InCall(r)' /\ pc'[r] # "answered"
      /\ \A s \in Callers : s # r => pc'[s] = pc[s] /\ total'[s] = total[s]
      /\ key' = [key EXCEPT ![r] = k]
      /\ \A s \in Callers : Abstract!Asking(s) <=> InCall(s)
  BY AskingIsInCall DEF IInv, TypeOK, Begin, InCall, Phases
<1>2. StatusOf' = [StatusOf EXCEPT ![r] = "asking"]
  BY <1>1 DEF StatusOf, InCall
<1>3. AnswerOf' = [AnswerOf EXCEPT ![r] = Abstract!Unanswered(k)]
  BY <1>1 DEF AnswerOf, Abstract!Unanswered, NoHits, IInv, TypeOK
<1>4. {s \in Callers : Abstract!Asking(s) /\ key[s] = k}
        = {s \in Callers : InCall(s) /\ key[s] = k}
  BY <1>1
<1> QED BY <1>1, <1>2, <1>3, <1>4
           DEF Begin, Abstract!Ask, StatusOf, AnswerOf

LEMMA AnswerRefines ==
  ASSUME IInv, IInv', NEW r \in Callers, LookupHit(r) \/ Store(r)
  PROVE  Abstract!Answer(r)
<1>1. /\ InCall(r) /\ pc' = [pc EXCEPT ![r] = "answered"]
      /\ \A s \in Callers : s # r => pc'[s] = pc[s] /\ total'[s] = total[s]
      /\ UNCHANGED <<now, key, begun, rivals>>
  BY DEF IInv, TypeOK, LookupHit, Store, call, InCall, Phases
<1>2. pc'[r] = "answered" /\ ~InCall(r)'
  BY <1>1 DEF IInv, TypeOK, InCall, Phases
<1>3. /\ total'[r] = [of |-> key[r], at |-> total'[r].at]
      /\ total'[r].at \in 0..now
      /\ total'[r].at >= begun[r] - Window
  BY <1>1, <1>2 DEF IInv, FreshEnough, TypeOK
<1>4. StatusOf' = [StatusOf EXCEPT ![r] = "answered"]
  BY <1>1, <1>2 DEF StatusOf, InCall, IInv, TypeOK
<1>5. AnswerOf' = [AnswerOf EXCEPT ![r] = [of |-> key[r], at |-> total'[r].at]]
  BY <1>1, <1>2, <1>3 DEF AnswerOf, IInv, TypeOK
<1>6. Abstract!Asking(r)
  BY <1>1, AskingIsInCall DEF IInv
<1> QED BY <1>1, <1>3, <1>4, <1>5, <1>6 DEF Abstract!Answer, StatusOf, AnswerOf

LEMMA ConflictRefines ==
  ASSUME IInv, NEW r \in Callers, StoreConflict(r)
  PROVE  Abstract!Collide(r)
<1>1. /\ InCall(r) /\ pc' = [pc EXCEPT ![r] = "taken"]
      /\ pc[r] # "answered" /\ rivals[r] # {}
      /\ UNCHANGED <<now, key, begun, rivals, total>>
  BY DEF IInv, StoreConflict, call, InCall, Phases, MissedRowsAreRivals
<1> QED BY <1>1 DEF IInv, TypeOK, Abstract!Collide, Abstract!Asking, InCall,
           Phases, StatusOf, AnswerOf

LEMMA FailRefines ==
  ASSUME IInv, NEW r \in Callers, CountFails(r) \/ Fault(r) \/ Cancel(r)
  PROVE  Abstract!Fail(r)
<1>1. PICK outcome \in {"malformed", "faulted", "idle"} :
        /\ Forget(r, outcome)
        /\ outcome = "malformed" => key[r] \in BadKeys
  BY DEF CountFails, Fault, Cancel
<1>2. /\ InCall(r) /\ pc'[r] = outcome /\ pc[r] # "answered"
      /\ \A s \in Callers : s # r => pc'[s] = pc[s] /\ total'[s] = total[s]
      /\ UNCHANGED <<now, key>>
  BY <1>1 DEF IInv, TypeOK, CountFails, Fault, Cancel, Forget, InCall, Phases
<1>3. StatusOf' = [StatusOf EXCEPT ![r] = outcome]
  BY <1>2 DEF StatusOf, InCall, Phases
<1>4. AnswerOf' = AnswerOf
  BY <1>2 DEF AnswerOf
<1>5. Abstract!Asking(r)
  BY <1>2, AskingIsInCall DEF IInv
<1> QED BY <1>1, <1>2, <1>3, <1>4, <1>5
        DEF Forget, Abstract!Fail, StatusOf, AnswerOf

LEMMA AbstractNext ==
  ASSUME IInv, IInv', [Next]_vars
  PROVE  [Abstract!Next]_Abstract!vars
<1>1. ASSUME NEW r \in Callers, NEW q \in Queries,
             getSearchAlbumHits(r, q) \/ getSearchFileHits(r, q)
      PROVE  Abstract!Next
  <2>1. <<q, "album">> \in Keys /\ <<q, "remote_file">> \in Keys
    BY DEF Keys
  <2> QED BY <1>1, <2>1, BeginRefines
          DEF getSearchAlbumHits, getSearchFileHits, Abstract!Next
<1>2. ASSUME NEW r \in Callers, Statement(r)
      PROVE  [Abstract!Next]_Abstract!vars
  BY <1>2, SilentStep, AnswerRefines, ConflictRefines, FailRefines
  DEF Statement, Abstract!Next
<1>3. ASSUME NEW r \in Callers, Fault(r) \/ Cancel(r) PROVE Abstract!Next
  BY <1>3, FailRefines DEF Abstract!Next
<1>4. CASE Tick
  BY <1>4 DEF Tick, call, Abstract!Tick, Abstract!Next, StatusOf, AnswerOf,
     InCall
<1>5. CASE UNCHANGED vars
  BY <1>5 DEF vars, Abstract!vars, StatusOf, AnswerOf, InCall
<1> QED BY <1>1, <1>2, <1>3, <1>4, <1>5 DEF Next

\* The cache implements HitCount for every instance: whatever the callers,
\* the cache as a whole behaves like one that answers recent totals of the
\* right key, and whose errors are those of the query, of a collision or of
\* the database.
THEOREM Refinement == Spec => KeepsThePromise
BY Invariance, AbstractInit, AbstractNext, PTL
DEF Spec, Abstract!Spec, KeepsThePromise
=============================================================================
