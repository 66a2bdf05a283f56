------------------------------ MODULE LogBuffer ------------------------------
(***************************************************************************)
(* The log buffer of the panel (internal/gui/logbuf.go) and the log view   *)
(* that reads it in every frame (handleEvent of gui_gio.go).               *)
(*                                                                         *)
(* The buffer is a Go slice that is appended to and cut from the front.    *)
(* last does not copy: it returns a slice of the same array, and the panel *)
(* keeps it from one frame to the next and reads it without the lock,      *)
(* while every goroutine of the server logs.  What an append writes, and   *)
(* to which array, is therefore part of the model.                         *)
(*                                                                         *)
(* A line is the number under which it was written; log has its text.      *)
(***************************************************************************)
EXTENDS Integers, Sequences

CONSTANTS
  Cap,      \* logBuffer.cap
  View,     \* how many lines the panel asks for
  Rooms,    \* sizes the run-time may give an array that has to grow
  Texts,    \* what a line may say
  MaxLines  \* bound on the lines written

ASSUME LogBufferAssumption ==
  /\ Cap \in Nat \ {0}
  /\ View \in 1..Cap
  /\ Rooms \subseteq {room \in Nat : room > Cap} /\ Rooms # {}
  /\ MaxLines \in Nat

VARIABLES
  log,     \* history: the texts of all lines written
  arrays,  \* the arrays allocated so far: the line in each place, or Unused
  lines,   \* logBuffer.lines
  seen,    \* mw.lastLogLines, a slice of one of the arrays
  caret    \* how many lines of the view are before the one with the caret

logVars == <<log, arrays, lines, seen, caret>>

Unused == 0

\* A slice: len places of an array, after the first from of them.
Slice == [array : Nat, from : Nat, len : Nat]
Contents(s) == [i \in 1..s.len |-> arrays[s.array][s.from + i]]
Room(s) == Len(arrays[s.array]) - s.from
LastOf(s, n) ==
  IF n > s.len THEN s ELSE [s EXCEPT !.from = @ + s.len - n, !.len = n]

LogInit ==
  /\ log = <<>>
  /\ arrays = <<[i \in 1..Cap |-> Unused]>>
  /\ lines = [array |-> 1, from |-> 0, len |-> 0]
  /\ seen = [array |-> 1, from |-> 0, len |-> 0]
  /\ caret = 0

-----------------------------------------------------------------------------
(***************************************************************************)
(* append, for one line that is not empty; the buffer's mutex makes it one *)
(* step.  Write of teeWriter calls it for each line of a chunk.            *)
(***************************************************************************)
NextLine == Len(log) + 1

\* b.lines = b.lines[len(b.lines)-b.cap:]
Dropped(s) == IF s.len > Cap THEN LastOf(s, Cap) ELSE s

\* The array has room: the place behind the slice is written.
StoreInPlace ==
  /\ lines.len < Room(lines)
  /\ arrays' = [arrays EXCEPT ![lines.array] =
                  [@ EXCEPT ![lines.from + lines.len + 1] = NextLine]]
  /\ lines' = Dropped([lines EXCEPT !.len = @ + 1])

\* Mutant: the array is full, and the other lines are moved down in it.
StoreMovesDown ==
  /\ lines.len = Room(lines)
  /\ arrays' = [arrays EXCEPT ![lines.array] =
                  [i \in DOMAIN @ |->
                     IF i \in (lines.from + 1)..(lines.from + lines.len - 1) THEN @[i + 1]
                     ELSE IF i = lines.from + lines.len THEN NextLine ELSE @[i]]]
  /\ UNCHANGED lines

\* The array is full: the lines are copied to a larger one.
StoreAndGrow ==
  /\ lines.len = Room(lines)
  /\ \E room \in Rooms :
       arrays' = Append(arrays, [i \in 1..room |->
                   IF i <= lines.len THEN arrays[lines.array][lines.from + i]
                   ELSE IF i = lines.len + 1 THEN NextLine ELSE Unused])
  /\ lines' = Dropped([array |-> Len(arrays) + 1, from |-> 0, len |-> lines.len + 1])

append(text) ==
  /\ Len(log) < MaxLines
  /\ log' = Append(log, text)
  /\ StoreInPlace \/ StoreAndGrow
  /\ UNCHANGED <<seen, caret>>

last(n) == LastOf(lines, n)

-----------------------------------------------------------------------------
(***************************************************************************)
(* The log view.                                                           *)
(***************************************************************************)
Reading(s) == [i \in 1..s.len |-> log[Contents(s)[i]]]

\* Mutant: the lines that are gone are taken from the lengths of the views.
GoneByLength(old, new) == IF Len(new) < Len(old) THEN Len(old) - Len(new) ELSE 0

\* How many lines of the old view come before the first that reads like the
\* beginning of the new one.
Gone(old, new) ==
  IF \E i \in 1..Len(old) : old[i] = new[1]
  THEN CHOOSE k \in 0..(Len(old) - 1) :
         /\ old[k + 1] = new[1]
         /\ \A i \in 1..k : old[i] # new[1]
  ELSE Len(old)

\* Mutant: a line before the view is not moved to its beginning.
clampAbove(low, x, high) == IF x > high THEN high ELSE x

clamp(low, x, high) == IF x < low THEN low ELSE IF x > high THEN high ELSE x

\* A frame compares the texts, and replaces the view if they differ.
RefreshLog ==
  LET new == last(View)
  IN  /\ IF Reading(new) = Reading(seen)
         THEN UNCHANGED <<seen, caret>>
         ELSE /\ seen' = new
              /\ caret' = clamp(0, caret - Gone(Reading(seen), Reading(new)), new.len)
      /\ UNCHANGED <<log, arrays, lines>>

\* The user puts the caret into another line.
MoveCaret ==
  /\ seen.len > 0
  /\ caret' \in 0..(seen.len - 1)
  /\ UNCHANGED <<log, arrays, lines, seen>>

LogNext == RefreshLog \/ MoveCaret \/ \E text \in Texts : append(text)

LogSpec == LogInit /\ [][LogNext]_logVars

-----------------------------------------------------------------------------
LogTypeOK ==
  /\ log \in Seq(Texts)
  /\ arrays \in Seq(Seq(0..MaxLines))
  /\ {lines, seen} \subseteq Slice
  /\ caret \in 0..seen.len

\* The buffer holds the last Cap lines, in the order they were written: the
\* one written last at its end.
HoldsTheLastLines ==
  /\ lines.len = IF Len(log) < Cap THEN Len(log) ELSE Cap
  /\ \A i \in 1..lines.len : Contents(lines)[i] = Len(log) - lines.len + i

\* From outside, the slices that share an array are the copies the comment in
\* last would make: nothing that is logged later shows in a view.
Copies == INSTANCE LogTail WITH
          Lines <- 1..MaxLines, tail <- Contents(lines), view <- Contents(seen)
KeepsTheTail == Copies!Spec

\* gui_gio.go:239, "Preserve as much of the selection/caret as possible": the
\* line with the caret keeps it as long as it is shown, unless another line of
\* the view read like the one the new view begins with.
CaretStaysOnItsLine ==
  [][ LET new == Contents(seen)'
      IN  /\ seen' # seen /\ seen.len > 0
          /\ \A i, k \in 1..seen.len :
               Reading(seen)[i] = Reading(seen)'[1] /\ Reading(seen)[k] = Reading(seen)'[1]
                 => i = k
          /\ \E i \in DOMAIN new : new[i] = Contents(seen)[caret + 1]
          => new[caret' + 1] = Contents(seen)[caret + 1] ]_logVars
=============================================================================
