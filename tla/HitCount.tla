------------------------------ MODULE HitCount ------------------------------
(***************************************************************************)
(* What a caller of getSearchAlbumHits / getSearchFileHits may rely on,    *)
(* without saying that there is a cache: a call that is answered gets the  *)
(* number of hits of its own key, counted at most Window time units before *)
(* the call began; a call that fails does so because its query is not      *)
(* valid, because it collided with another call for the same key, or       *)
(* because the database failed it.  A number of hits is represented by     *)
(* what was counted and when.                                              *)
(***************************************************************************)
EXTENDS Integers

CONSTANTS
  Callers,     \* goroutines serving search pages, one call at a time each
  Keys,        \* what is counted: a query with its filters, in one table
  BadKeys,     \* keys whose query text is not valid FTS5 syntax
  Window,      \* how stale an answer may be
  MaxNow       \* bound on the clock

VARIABLES
  now,       \* the clock
  status,    \* status[r]: what has become of the caller's latest call
  key,       \* key[r]: the key of the latest call
  begun,     \* begun[r]: when the latest call began
  answer,    \* answer[r]: the hits it returned: of which key, counted when
  rivals     \* rivals[r]: callers whose call for the same key overlapped

vars == <<now, status, key, begun, answer, rivals>>

\* No answer yet.
Unanswered(k) == [of |-> k, at |-> -1]

Asking(r) == status[r] = "asking"

Init ==
  /\ now = 0
  /\ status = [r \in Callers |-> "idle"]
  /\ key \in [Callers -> Keys]
  /\ begun = [r \in Callers |-> 0]
  /\ answer = [r \in Callers |-> Unanswered(key[r])]
  /\ rivals = [r \in Callers |-> {}]

Ask(r, k) ==
  LET others == {s \in Callers : Asking(s) /\ key[s] = k}
  IN  /\ ~Asking(r)
      /\ status' = [status EXCEPT ![r] = "asking"]
      /\ key' = [key EXCEPT ![r] = k]
      /\ begun' = [begun EXCEPT ![r] = now]
      /\ answer' = [answer EXCEPT ![r] = Unanswered(k)]
      /\ rivals' = [s \in Callers |->
                      IF s = r THEN others
                      ELSE IF s \in others THEN rivals[s] \union {r}
                      ELSE rivals[s]]
      /\ UNCHANGED now

Answer(r) ==
  /\ Asking(r)
  /\ \E t \in 0..now :
       /\ t >= begun[r] - Window
       /\ answer' = [answer EXCEPT ![r] = [of |-> key[r], at |-> t]]
  /\ status' = [status EXCEPT ![r] = "answered"]
  /\ UNCHANGED <<now, key, begun, rivals>>

\* A call that collides with one of its rivals.
Collide(r) ==
  /\ Asking(r)
  /\ rivals[r] # {}
  /\ status' = [status EXCEPT ![r] = "taken"]
  /\ UNCHANGED <<now, key, begun, answer, rivals>>

\* A call ends without an answer for a reason that no other call gave: its
\* query is malformed, the database fails it, or the browser went away, its
\* request's context is cancelled and nobody is left to see how it ends.
Fail(r) ==
  /\ Asking(r)
  /\ \E outcome \in {"malformed", "faulted", "idle"} :
       /\ outcome = "malformed" => key[r] \in BadKeys
       /\ status' = [status EXCEPT ![r] = outcome]
  /\ begun' = [begun EXCEPT ![r] = 0]
  /\ rivals' = [rivals EXCEPT ![r] = {}]
  /\ UNCHANGED <<now, key, answer>>

Tick ==
  /\ now < MaxNow
  /\ now' = now + 1
  /\ UNCHANGED <<status, key, begun, answer, rivals>>

Next ==
  \/ \E r \in Callers :
       \/ \E k \in Keys : Ask(r, k)
       \/ Answer(r) \/ Collide(r) \/ Fail(r)
  \/ Tick

Spec == Init /\ [][Next]_vars
=============================================================================
