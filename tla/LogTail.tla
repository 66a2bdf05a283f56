------------------------------- MODULE LogTail -------------------------------
(***************************************************************************)
(* What the log of the panel promises, seen from outside: the last lines   *)
(* that were written, and a view that is a copy of the end of them.  This  *)
(* is logBuffer with the copying last that internal/gui/logbuf.go:60 still *)
(* has as a comment.                                                       *)
(***************************************************************************)
EXTENDS Naturals, Sequences

CONSTANTS
  Cap,   \* lines that are kept
  View,  \* lines that are looked at
  Lines  \* the lines there are to write

VARIABLES
  tail,  \* the lines kept
  view   \* the lines looked at last

\* The last n of s, or all of them.
Latest(s, n) == IF Len(s) <= n THEN s ELSE SubSeq(s, Len(s) - n + 1, Len(s))

Init == tail = <<>> /\ view = <<>>

Write(line) ==
  /\ tail' = Latest(Append(tail, line), Cap)
  /\ UNCHANGED view

Look ==
  /\ view' = Latest(tail, View)
  /\ UNCHANGED tail

Next == Look \/ \E line \in Lines : Write(line)

Spec == Init /\ [][Next]_<<tail, view>>
=============================================================================
