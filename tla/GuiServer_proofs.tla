--------------------------- MODULE GuiServer_proofs ---------------------------
(***************************************************************************)
(* Proofs about GuiServer: the log view, the known files, the answers to   *)
(* requests for pictures and the round trip of the configuration, for      *)
(* every size of the buffer, every setup, and any number of files.         *)
(***************************************************************************)
EXTENDS GuiServer, SequenceTheorems, WellFoundedInduction, TLAPS

-----------------------------------------------------------------------------
(***************************************************************************)
(* The log buffer.                                                         *)
(***************************************************************************)
\* The slice s lies in its array.
Lies(s) ==
  /\ s \in Slice
  /\ s.array \in 1..Len(arrays)
  /\ s.from + s.len <= Len(arrays[s.array])

\* The last line of s.
End(s) == IF s.len = 0 THEN 0 ELSE arrays[s.array][s.from + s.len]

\* The line written next goes behind the view, if it goes to the same array.
ViewIsBehind ==
  seen.array = lines.array => seen.from + seen.len <= lines.from + lines.len

\* The view shows what the buffer ended with when its last line was written.
ViewIsATail ==
  /\ End(seen) \in 0..Len(log)
  /\ seen.len = IF End(seen) < View THEN End(seen) ELSE View
  /\ \A i \in 1..seen.len : arrays[seen.array][seen.from + i] = End(seen) - seen.len + i

LogTypes ==
  /\ log \in Seq(Texts) /\ Len(log) <= MaxLines
  /\ arrays \in Seq(Seq(0..MaxLines))
  /\ Lies(lines) /\ Lies(seen)
  /\ caret \in Nat
  /\ IF seen.len = 0 THEN caret = 0 ELSE caret < seen.len

LogInv == LogTypes /\ HoldsTheLastLines /\ ViewIsBehind /\ ViewIsATail

LEMMA LogInvInit == LogInit => LogInv
<1> SUFFICES ASSUME LogInit PROVE LogInv
  OBVIOUS
<1>1. Cap \in Nat /\ View \in Nat /\ View > 0 /\ MaxLines \in Nat
  BY LogBufferAssumption
<1> DEFINE first == [i \in 1..Cap |-> 0]
<1>2. first \in Seq(0..MaxLines) /\ Len(first) = Cap
  BY <1>1, IsASeq
<1>3. arrays = <<first>> /\ Len(arrays) = 1 /\ arrays[1] = first
  BY DEF LogInit, Unused
<1> HIDE DEF first
<1>4. arrays \in Seq(Seq(0..MaxLines))
  BY <1>2, <1>3
<1>5. Lies(lines) /\ Lies(seen)
  BY <1>1, <1>2, <1>3 DEF LogInit, Lies, Slice
<1>6. LogTypes
  BY <1>1, <1>4, <1>5 DEF LogInit, LogTypes
<1>7. HoldsTheLastLines /\ ViewIsBehind /\ ViewIsATail
  BY <1>1 DEF LogInit, HoldsTheLastLines, ViewIsBehind, ViewIsATail, End, Contents
<1> QED BY <1>6, <1>7 DEF LogInv

\* What the buffer does with a slice that is one line longer.
LEMMA DroppedKeepsTheEnd ==
  ASSUME NEW s \in Slice
  PROVE  /\ Dropped(s) \in Slice /\ Dropped(s).array = s.array
         /\ Dropped(s).from >= s.from
         /\ Dropped(s).from + Dropped(s).len = s.from + s.len
         /\ Dropped(s).len = IF s.len > Cap THEN Cap ELSE s.len
<1>1. /\ s.array \in Nat /\ s.from \in Nat /\ s.len \in Nat
      /\ s = [array |-> s.array, from |-> s.from, len |-> s.len]
      /\ Cap \in Nat
  BY LogBufferAssumption DEF Slice
<1>2. CASE s.len > Cap
  <2>1. Dropped(s) = [array |-> s.array, from |-> s.from + s.len - Cap, len |-> Cap]
    <3>1. Dropped(s) = [s EXCEPT !.from = @ + s.len - Cap, !.len = Cap]
      BY <1>1, <1>2 DEF Dropped, LastOf
    <3> QED BY <1>1, <3>1
  <2>2. s.from + s.len - Cap \in Nat
    BY <1>1, <1>2
  <2>3. Dropped(s) \in Slice
    BY <2>1, <2>2, <1>1 DEF Slice
  <2> QED BY <1>1, <1>2, <2>1, <2>3
<1>3. CASE ~(s.len > Cap)
  BY <1>1, <1>3 DEF Dropped
<1> QED BY <1>2, <1>3

LEMMA AppendStep ==
  ASSUME LogInv, NEW text \in Texts, append(text)
  PROVE  /\ LogInv'
         /\ UNCHANGED <<seen, caret>>
         /\ Contents(seen)' = Contents(seen)
         /\ \A i \in 1..lines'.len : Contents(lines)'[i] = NextLine - lines'.len + i
<1>1. Cap \in Nat /\ Cap > 0 /\ View \in 1..Cap /\ MaxLines \in Nat
      /\ \A room \in Rooms : room \in Nat /\ room > Cap
  BY LogBufferAssumption
<1>2. /\ log' = Append(log, text) /\ Len(log) < MaxLines
      /\ UNCHANGED <<seen, caret>>
  BY DEF append
<1>3. log' \in Seq(Texts) /\ Len(log') = NextLine /\ NextLine \in 1..MaxLines
      /\ Len(log) \in Nat /\ NextLine = Len(log) + 1
  BY <1>1, <1>2 DEF LogInv, LogTypes, NextLine
<1>4. /\ lines \in Slice /\ lines.array \in 1..Len(arrays)
      /\ lines.from + lines.len <= Len(arrays[lines.array])
      /\ lines.len \in 0..Cap
      /\ lines.len = IF Len(log) < Cap THEN Len(log) ELSE Cap
      /\ lines.array \in Nat /\ lines.from \in Nat /\ lines.len \in Nat
      /\ seen.array \in 1..Len(arrays) /\ seen.from \in Nat /\ seen.len \in Nat
  BY <1>1, <1>3 DEF LogInv, LogTypes, Lies, HoldsTheLastLines, Slice
<1>14. \A i \in 1..lines.len :
          arrays[lines.array][lines.from + i] = Len(log) - lines.len + i
  BY DEF LogInv, HoldsTheLastLines, Contents
<1>16. Len(log) \in Nat /\ NextLine = Len(log) + 1 /\ lines.from \in Nat /\ lines.len \in Nat /\ Cap \in Nat
       /\ lines.len <= Cap
  BY <1>1, <1>3, <1>4
<1> DEFINE longer == lines.len + 1
\* What the two ways to store a line have in common.
<1>5. /\ arrays' \in Seq(Seq(0..MaxLines))
      /\ Lies(lines)'
      /\ lines'.len = IF longer > Cap THEN Cap ELSE longer
      /\ \A i \in 1..lines'.len : arrays'[lines'.array][lines'.from + i] = NextLine - lines'.len + i
      /\ Len(arrays') >= Len(arrays)
      /\ Len(arrays'[seen.array]) = Len(arrays[seen.array])
      /\ \A i \in 1..seen.len :
           arrays'[seen.array][seen.from + i] = arrays[seen.array][seen.from + i]
      /\ lines'.array = seen.array => seen.from + seen.len <= lines'.from + lines'.len
  <2>1. CASE StoreInPlace
    <3> DEFINE a == arrays[lines.array]
               at == lines.from + lines.len + 1
               b == [a EXCEPT ![at] = NextLine]
               s == [lines EXCEPT !.len = @ + 1]
    <3>1. a \in Seq(0..MaxLines) /\ at \in 1..Len(a)
      <4>1. a \in Seq(0..MaxLines)
        BY <1>4 DEF LogInv, LogTypes
      <4>2. lines.len < Len(a) - lines.from
        BY <2>1 DEF StoreInPlace, Room
      <4>3. Len(a) \in Nat
        BY <4>1
      <4> QED BY <4>1, <4>2, <4>3, <1>4
    <3>2. b \in Seq(0..MaxLines) /\ Len(b) = Len(a) /\ b[at] = NextLine
          /\ \A i \in 1..Len(a) : i # at => b[i] = a[i]
      BY <3>1, <1>3
    <3>3. arrays' = [arrays EXCEPT ![lines.array] = b] /\ lines' = Dropped(s)
      BY <2>1 DEF StoreInPlace
    <3> HIDE DEF b
    <3>4. /\ arrays' \in Seq(Seq(0..MaxLines)) /\ Len(arrays') = Len(arrays)
          /\ arrays'[lines.array] = b
          /\ \A k \in 1..Len(arrays) : k # lines.array => arrays'[k] = arrays[k]
      BY <3>2, <3>3, <1>4 DEF LogInv, LogTypes
    <3>5. s \in Slice /\ s.array = lines.array /\ s.from = lines.from /\ s.len = longer
      BY <1>4 DEF Slice
    <3> HIDE DEF s
    <3>6. /\ lines' \in Slice /\ lines'.array = lines.array
          /\ lines'.from >= lines.from
          /\ lines'.from + lines'.len = at
          /\ lines'.len = IF longer > Cap THEN Cap ELSE longer
          /\ lines'.from \in Nat /\ lines'.len \in Nat
      <4>1. /\ Dropped(s) \in Slice /\ Dropped(s).array = lines.array
            /\ Dropped(s).from >= lines.from
            /\ Dropped(s).from + Dropped(s).len = lines.from + longer
            /\ Dropped(s).len = IF longer > Cap THEN Cap ELSE longer
        BY <3>5, DroppedKeepsTheEnd
      <4>2. lines.from + longer = at
        BY <1>4
      <4>3. Dropped(s).from \in Nat /\ Dropped(s).len \in Nat
        BY <4>1 DEF Slice
      <4> QED BY <3>3, <4>1, <4>2, <4>3
    <3>7. Lies(lines)'
      BY <3>1, <3>2, <3>4, <3>6, <1>4 DEF Lies
    <3>8. \A i \in 1..lines'.len : b[lines'.from + i] = NextLine - lines'.len + i
      <4> SUFFICES ASSUME NEW i \in 1..lines'.len
                   PROVE  b[lines'.from + i] = NextLine - lines'.len + i
        OBVIOUS
      <4>2. CASE i = lines'.len
        BY <4>2, <3>2, <3>6, <1>3
      <4>3. CASE i < lines'.len
        <5>1. PICK f \in Nat, m \in Nat, g \in Nat, h \in Nat :
                lines.from = f /\ lines.len = m /\ lines'.from = g /\ lines'.len = h
          BY <3>6, <1>16
        <5>2. g + h = f + m + 1 /\ g >= f
          BY <5>1, <3>6
        <5>3. i \in 1..h /\ i < h
          BY <5>1, <4>3
        <5>4. /\ g + i - f \in 1..m /\ f + (g + i - f) = g + i
              /\ g + i \in 1..(f + m + 1) /\ g + i # f + m + 1
          BY <5>2, <5>3
        <5>5. g + i \in 1..Len(a) /\ g + i # at
          BY <5>1, <5>4, <3>1
        <5>6. b[g + i] = a[g + i]
          BY <5>5, <3>2
        <5>7. a[f + (g + i - f)] = Len(log) - m + (g + i - f)
          BY <5>1, <5>4, <1>14
        <5>8. Len(log) - m + (g + i - f) = NextLine - h + i
          BY <5>2, <5>3, <1>16
        <5> QED BY <5>1, <5>4, <5>6, <5>7, <5>8
      <4> QED BY <4>2, <4>3, <3>6
    <3>9. \A i \in 1..seen.len :
             arrays'[seen.array][seen.from + i] = arrays[seen.array][seen.from + i]
      <4> SUFFICES ASSUME NEW i \in 1..seen.len, seen.array = lines.array
                   PROVE  b[seen.from + i] = a[seen.from + i]
        BY <3>4 DEF LogInv, LogTypes, Lies
      <4>1. seen.from + i \in 1..Len(a) /\ seen.from + i < at
        BY <1>4 DEF LogInv, LogTypes, Lies, ViewIsBehind, Slice
      <4> QED BY <4>1, <3>2
    <3>10. Len(arrays'[seen.array]) = Len(arrays[seen.array])
      BY <3>2, <3>4 DEF LogInv, LogTypes, Lies
    <3>11. lines'.array = seen.array => seen.from + seen.len <= lines'.from + lines'.len
      BY <3>6, <1>4 DEF LogInv, LogTypes, Lies, ViewIsBehind, Slice
    <3>12. \A i \in 1..lines'.len :
             arrays'[lines'.array][lines'.from + i] = NextLine - lines'.len + i
      BY <3>4, <3>6, <3>8
    <3>13. Len(arrays) \in Nat
      BY DEF LogInv, LogTypes
    <3>14. Len(arrays') >= Len(arrays)
      BY <3>4, <3>13
    <3> QED BY <3>4, <3>6, <3>7, <3>9, <3>10, <3>11, <3>12, <3>14
  <2>2. CASE StoreAndGrow
    <3>1. PICK room \in Rooms :
            arrays' = Append(arrays, [i \in 1..room |->
                   IF i <= lines.len THEN arrays[lines.array][lines.from + i]
                   ELSE IF i = lines.len + 1 THEN NextLine ELSE 0])
      BY <2>2 DEF StoreAndGrow, Unused
    <3> DEFINE b == [i \in 1..room |->
                   IF i <= lines.len THEN arrays[lines.array][lines.from + i]
                   ELSE IF i = lines.len + 1 THEN NextLine ELSE 0]
               s == [array |-> Len(arrays) + 1, from |-> 0, len |-> lines.len + 1]
    <3>2. room \in Nat /\ longer \in 1..room
      BY <1>1, <1>4
    <3>3. \A i \in 1..room : b[i] \in 0..MaxLines
      <4> SUFFICES ASSUME NEW i \in 1..room PROVE b[i] \in 0..MaxLines
        OBVIOUS
      <4>1. CASE i <= lines.len
        <5>1. b[i] = Len(log) - lines.len + i
          BY <4>1, <1>4, <1>14
        <5>2. Len(log) \in Nat /\ lines.len \in Nat /\ lines.len <= Len(log)
              /\ Len(log) < MaxLines
          BY <1>1, <1>2, <1>4 DEF LogInv, LogTypes
        <5> QED BY <4>1, <5>1, <5>2, <1>1
      <4>2. CASE ~(i <= lines.len)
        BY <4>2, <1>1, <1>3
      <4> QED BY <4>1, <4>2
    <3>4. b \in Seq(0..MaxLines) /\ Len(b) = room
      BY <3>2, <3>3, IsASeq
    <3>5. \A i \in 1..longer : b[i] = NextLine - longer + i
      <4> SUFFICES ASSUME NEW i \in 1..longer PROVE b[i] = NextLine - longer + i
        OBVIOUS
      <4>1. i \in 1..room
        BY <3>2, <1>4
      <4>2. CASE i = longer
        BY <4>1, <4>2, <1>3, <1>4
      <4>3. CASE i # longer
        <5>1. i \in 1..lines.len
          BY <4>3, <1>4
        <5>2. b[i] = Len(log) - lines.len + i
          BY <4>1, <5>1, <1>14, <1>4
        <5>3. Len(log) - lines.len + i = NextLine - longer + i
          BY <1>16
        <5> QED BY <5>2, <5>3
      <4> QED BY <4>2, <4>3
    <3>6. arrays' = Append(arrays, b)
      BY <3>1
    <3> HIDE DEF b
    <3>7. /\ arrays' \in Seq(Seq(0..MaxLines)) /\ Len(arrays') = Len(arrays) + 1
          /\ arrays'[Len(arrays) + 1] = b
          /\ \A k \in 1..Len(arrays) : arrays'[k] = arrays[k]
      BY <3>4, <3>6 DEF LogInv, LogTypes
    <3>8. lines' = Dropped(s)
      BY <2>2 DEF StoreAndGrow
    <3>9. s \in Slice /\ s.array = Len(arrays) + 1 /\ s.from = 0 /\ s.len = longer
      BY <1>4 DEF Slice, LogInv, LogTypes
    <3> HIDE DEF s
    <3>10. /\ lines' \in Slice /\ lines'.array = Len(arrays) + 1
           /\ lines'.from + lines'.len = longer
           /\ lines'.len = IF longer > Cap THEN Cap ELSE longer
           /\ lines'.from \in Nat /\ lines'.len \in Nat
      <4>1. /\ Dropped(s) \in Slice /\ Dropped(s).array = Len(arrays) + 1
            /\ Dropped(s).from + Dropped(s).len = 0 + longer
            /\ Dropped(s).len = IF longer > Cap THEN Cap ELSE longer
        BY <3>9, DroppedKeepsTheEnd
      <4>2. Dropped(s).from \in Nat /\ Dropped(s).len \in Nat
        BY <4>1 DEF Slice
      <4> QED BY <3>8, <4>1, <4>2, <1>4
    <3>11. Lies(lines)'
      BY <3>2, <3>4, <3>7, <3>10 DEF Lies, LogInv, LogTypes
    <3>12. \A i \in 1..lines'.len : b[lines'.from + i] = NextLine - lines'.len + i
      <4> SUFFICES ASSUME NEW i \in 1..lines'.len
                   PROVE  b[lines'.from + i] = NextLine - lines'.len + i
        OBVIOUS
      <4>1. lines'.from + i \in 1..longer
        BY <3>10, <1>4
      <4>2. b[lines'.from + i] = NextLine - longer + (lines'.from + i)
        BY <4>1, <3>5
      <4> QED BY <4>1, <4>2, <3>10, <1>3, <1>4
    <3>13. seen.array \in 1..Len(arrays) /\ seen.array # lines'.array
      BY <3>10 DEF LogInv, LogTypes, Lies
    <3>14. \A i \in 1..lines'.len : arrays'[lines'.array][lines'.from + i] = NextLine - lines'.len + i
      BY <3>7, <3>10, <3>12
    <3>15. arrays'[seen.array] = arrays[seen.array]
      BY <3>7, <3>13
    <3>16. Len(arrays) \in Nat
      BY DEF LogInv, LogTypes
    <3>17. Len(arrays') >= Len(arrays)
      BY <3>7, <3>16
    <3> QED BY <3>7, <3>10, <3>11, <3>13, <3>14, <3>15, <3>17
  <2> QED BY <2>1, <2>2 DEF append
<1>6. Contents(seen)' = Contents(seen)
  BY <1>2, <1>5 DEF Contents
<1>7. Lies(seen)'
  BY <1>2, <1>5 DEF LogInv, LogTypes, Lies
<1>8. \A i \in 1..lines'.len : Contents(lines)'[i] = NextLine - lines'.len + i
  BY <1>5 DEF Contents
<1>9. LogTypes'
  BY <1>2, <1>3, <1>5, <1>7 DEF LogInv, LogTypes
<1>10. HoldsTheLastLines'
  <2>1. lines'.len = IF Len(log') < Cap THEN Len(log') ELSE Cap
    BY <1>1, <1>3, <1>4, <1>5
  <2> QED BY <1>3, <1>8, <2>1 DEF HoldsTheLastLines
<1>11. ViewIsBehind'
  BY <1>2, <1>5 DEF ViewIsBehind
<1>12. End(seen)' = End(seen)
  <2>1. CASE seen.len = 0
    BY <1>2, <2>1 DEF End
  <2>2. CASE seen.len # 0
    <3>1. seen.len \in 1..seen.len
      BY <1>4, <2>2
    <3> QED BY <1>2, <1>5, <2>2, <3>1 DEF End
  <2> QED BY <2>1, <2>2
<1>13. ViewIsATail'
  BY <1>2, <1>3, <1>5, <1>12 DEF LogInv, LogTypes, ViewIsATail
<1>15. LogInv'
  BY <1>9, <1>10, <1>11, <1>13 DEF LogInv
<1>17. UNCHANGED <<seen, caret>>
  BY <1>2
<1>18. \A i \in 1..lines'.len : Contents(lines)'[i] = NextLine - lines'.len + i
  BY <1>8
<1> QED BY <1>6, <1>15, <1>17, <1>18

\* The end of the buffer, which a frame reads.
LEMMA LastIsATail ==
  ASSUME LogInv
  PROVE  /\ Lies(last(View))
         /\ last(View).array = lines.array
         /\ last(View).from + last(View).len = lines.from + lines.len
         /\ last(View).len = IF Len(log) < View THEN Len(log) ELSE View
         /\ \A i \in 1..last(View).len :
              arrays[last(View).array][last(View).from + i] = Len(log) - last(View).len + i
<1>1. PICK a \in Nat, f \in Nat, m \in Nat : lines = [array |-> a, from |-> f, len |-> m]
  BY DEF LogInv, LogTypes, Lies, Slice
<1>2. lines.array = a /\ lines.from = f /\ lines.len = m
  BY <1>1
<1>3. /\ Cap \in Nat /\ View \in Nat /\ 0 < View /\ View <= Cap /\ Len(log) \in Nat
      /\ m = IF Len(log) < Cap THEN Len(log) ELSE Cap
  BY <1>2, LogBufferAssumption DEF LogInv, LogTypes, HoldsTheLastLines
<1>6. a \in 1..Len(arrays) /\ f + m <= Len(arrays[a])
  BY <1>2 DEF LogInv, LogTypes, Lies
<1>7. \A i \in 1..m : arrays[a][f + i] = Len(log) - m + i
  BY <1>2 DEF LogInv, HoldsTheLastLines, Contents
<1>4. CASE View > m
  <2>1. last(View) = lines
    BY <1>2, <1>4 DEF last, LastOf
  <2>2. m = IF Len(log) < View THEN Len(log) ELSE View
    BY <1>3, <1>4
  <2> QED BY <1>2, <1>7, <2>1, <2>2 DEF LogInv, LogTypes
<1>5. CASE ~(View > m)
  <2>1. last(View) = [lines EXCEPT !.from = @ + m - View, !.len = View]
    BY <1>2, <1>5 DEF last, LastOf
  <2>2. last(View) = [array |-> a, from |-> f + m - View, len |-> View]
    BY <1>1, <2>1
  <2>3. f + m - View \in Nat /\ f + m - View + View = f + m
    BY <1>3, <1>5
  <2>4. Lies(last(View))
    <3>1. last(View) \in Slice
      BY <1>3, <2>2, <2>3 DEF Slice
    <3> QED BY <1>6, <2>2, <2>3, <3>1 DEF Lies
  <2>5. ASSUME NEW i \in 1..View
        PROVE  arrays[a][f + m - View + i] = Len(log) - View + i
    <3>1. /\ m - View + i \in 1..m /\ f + (m - View + i) = f + m - View + i
          /\ Len(log) - m + (m - View + i) = Len(log) - View + i
      <4>1. PICK v \in Nat, l \in Nat : View = v /\ Len(log) = l
        BY <1>3
      <4>2. v <= m /\ i \in 1..v
        BY <1>5, <4>1
      <4> QED BY <4>1, <4>2
    <3>2. arrays[a][f + (m - View + i)] = Len(log) - m + (m - View + i)
      BY <1>7, <3>1
    <3> QED BY <3>1, <3>2
  <2>6. View = IF Len(log) < View THEN Len(log) ELSE View
    BY <1>3, <1>5
  <2> QED BY <1>2, <2>2, <2>3, <2>4, <2>5, <2>6
<1> QED BY <1>4, <1>5

LEMMA LeastNatural ==
  ASSUME NEW T, T \subseteq Nat, T # {}
  PROVE  \E x \in T : \A y \in T : x <= y
<1> DEFINE R == OpToRel(<, Nat)
<1>1. IsWellFoundedOn(R, Nat)
  BY NatLessThanWellFounded
<1>2. \A x, y \in Nat : <<y, x>> \in R <=> y < x
  BY DEF OpToRel
<1> HIDE DEF R
<1>3. PICK x \in T : \A y \in T : ~(<<y, x>> \in R)
  BY <1>1, WFMin
<1>4. ASSUME NEW y \in T PROVE x <= y
  <2>1. x \in Nat /\ y \in Nat
    OBVIOUS
  <2>2. ~(<<y, x>> \in R)
    BY <1>3
  <2>3. ~(y < x)
    BY <1>2, <2>1, <2>2
  <2> QED BY <2>1, <2>3
<1> QED BY <1>3, <1>4

\* Gone is what its comment says: the lines before the first that reads like the
\* beginning of the new view.
LEMMA GoneIsFirst ==
  ASSUME NEW old, NEW new, Len(old) \in Nat,
         \E i \in 1..Len(old) : old[i] = new[1]
  PROVE  /\ Gone(old, new) \in 0..(Len(old) - 1)
         /\ old[Gone(old, new) + 1] = new[1]
<1> DEFINE T == {i \in 1..Len(old) : old[i] = new[1]}
           First(k) == old[k + 1] = new[1] /\ \A i \in 1..k : old[i] # new[1]
<1>1. T \subseteq Nat /\ T # {}
  OBVIOUS
<1>2. PICK x \in T : \A y \in T : x <= y
  BY <1>1, LeastNatural
<1>3. x - 1 \in 0..(Len(old) - 1) /\ First(x - 1)
  BY <1>2
<1>4. Gone(old, new) = CHOOSE k \in 0..(Len(old) - 1) : First(k)
  BY DEF Gone
<1>5. Gone(old, new) \in 0..(Len(old) - 1) /\ First(Gone(old, new))
  BY <1>3, <1>4
<1> QED BY <1>5

LEMMA GoneIsNatural ==
  ASSUME NEW old, NEW new, Len(old) \in Nat
  PROVE  Gone(old, new) \in 0..Len(old)
<1>1. CASE \E i \in 1..Len(old) : old[i] = new[1]
  BY <1>1, GoneIsFirst
<1>2. CASE ~\E i \in 1..Len(old) : old[i] = new[1]
  BY <1>2 DEF Gone
<1> QED BY <1>1, <1>2

LEMMA ReadingLength ==
  ASSUME NEW s \in Slice
  PROVE  Len(Reading(s)) = s.len /\ s.len \in Nat
BY DEF Reading, Slice

LEMMA RefreshStep ==
  ASSUME LogInv, RefreshLog
  PROVE  /\ LogInv'
         /\ UNCHANGED <<log, arrays, lines>>
         /\ seen' \in {seen, last(View)}
<1>1. UNCHANGED <<log, arrays, lines>>
  BY DEF RefreshLog
<1>2. CASE UNCHANGED <<seen, caret>>
  BY <1>1, <1>2 DEF LogInv, LogTypes, Lies, HoldsTheLastLines, Contents, ViewIsBehind,
                    ViewIsATail, End
<1>3. CASE ~UNCHANGED <<seen, caret>>
  <2> DEFINE new == last(View)
             gone == Gone(Reading(seen), Reading(new))
  <2>1. seen' = new /\ caret' = clamp(0, caret - gone, new.len)
    BY <1>3 DEF RefreshLog
  <2>2. seen \in Slice /\ new \in Slice
    BY LastIsATail DEF LogInv, LogTypes, Lies
  <2>3. gone \in 0..seen.len
    BY <2>2, ReadingLength, GoneIsNatural
  <2>4. PICK m \in Nat, n \in Nat, g \in Nat : seen.len = m /\ new.len = n /\ gone = g /\ g <= m
    BY <2>2, <2>3, ReadingLength
  <2> HIDE DEF gone
  <2>5. /\ View \in Nat /\ Len(log) \in Nat /\ caret \in Nat
        /\ n = IF Len(log) < View THEN Len(log) ELSE View
        /\ IF m = 0 THEN caret = 0 ELSE caret < m
        /\ m <= n
    <3>1. n = IF Len(log) < View THEN Len(log) ELSE View
      BY <2>4, LastIsATail
    <3>2. View \in Nat /\ Len(log) \in Nat /\ caret \in Nat
      BY LogBufferAssumption DEF LogInv, LogTypes
    <3>3. IF m = 0 THEN caret = 0 ELSE caret < m
      BY <2>4 DEF LogInv, LogTypes
    <3>4. End(seen) \in 0..Len(log) /\ m = IF End(seen) < View THEN End(seen) ELSE View
      BY <2>4 DEF LogInv, ViewIsATail
    <3>5. m <= n
      BY <3>1, <3>2, <3>4
    <3> QED BY <3>1, <3>2, <3>3, <3>5
  <2>6. caret' \in Nat /\ IF n = 0 THEN caret' = 0 ELSE caret' < n
    BY <2>1, <2>4, <2>5 DEF clamp
  <2>7. Lies(seen)' /\ Lies(lines)'
    BY <1>1, <2>1, LastIsATail DEF LogInv, LogTypes, Lies
  <2>8. LogTypes'
    BY <1>1, <2>1, <2>4, <2>6, <2>7 DEF LogInv, LogTypes
  <2>9. HoldsTheLastLines'
    BY <1>1 DEF LogInv, HoldsTheLastLines, Contents
  <2>10. ViewIsBehind'
    <3>1. PICK f \in Nat : new.from = f
      BY <2>2 DEF Slice
    <3>2. seen'.from + seen'.len = lines'.from + lines'.len
      BY <1>1, <2>1, LastIsATail
    <3>3. seen'.from + seen'.len = f + n
      BY <2>1, <2>4, <3>1
    <3> QED BY <3>2, <3>3 DEF ViewIsBehind
  <2>11. End(seen)' = Len(log)
    <3>1. CASE n = 0
      BY <1>1, <2>1, <2>4, <2>5, <3>1, LogBufferAssumption DEF End
    <3>2. CASE n # 0
      <4>1. n \in 1..n
        BY <3>2
      <4>2. arrays[new.array][new.from + n] = Len(log) - n + n
        BY <2>4, <4>1, LastIsATail
      <4>3. arrays[new.array][new.from + n] = Len(log)
        BY <2>5, <4>2
      <4> QED BY <1>1, <2>1, <2>4, <3>2, <4>3 DEF End
    <3> QED BY <3>1, <3>2
  <2>12. ViewIsATail'
    <3>1. \A i \in 1..seen'.len : arrays'[seen'.array][seen'.from + i] = Len(log) - seen'.len + i
      BY <1>1, <2>1, LastIsATail
    <3>2. seen'.len = IF Len(log) < View THEN Len(log) ELSE View
      BY <2>1, <2>4, <2>5
    <3>3. log' = log /\ Len(log) \in 0..Len(log)
      BY <1>1, <2>5
    <3> QED BY <2>11, <3>1, <3>2, <3>3 DEF ViewIsATail
  <2>13. LogInv'
    BY <2>8, <2>9, <2>10, <2>12 DEF LogInv
  <2> QED BY <1>1, <2>1, <2>13
<1> QED BY <1>1, <1>2, <1>3

LEMMA MoveCaretStep ==
  ASSUME LogInv, MoveCaret
  PROVE  LogInv' /\ UNCHANGED <<log, arrays, lines, seen>>
<1>1. PICK m \in Nat : seen.len = m
  BY DEF LogInv, LogTypes, Lies, Slice
<1>2. UNCHANGED <<log, arrays, lines, seen>> /\ m > 0 /\ caret' \in 0..(m - 1)
  BY <1>1 DEF MoveCaret
<1>3. LogTypes'
  BY <1>1, <1>2 DEF LogInv, LogTypes, Lies
<1> QED
  BY <1>2, <1>3 DEF LogInv, HoldsTheLastLines, Contents, ViewIsBehind, ViewIsATail, End

LEMMA LogInvNext == LogInv /\ [LogNext]_logVars => LogInv'
<1> SUFFICES ASSUME LogInv, [LogNext]_logVars PROVE LogInv'
  OBVIOUS
<1>1. CASE UNCHANGED logVars
  BY <1>1 DEF logVars, LogInv, LogTypes, Lies, HoldsTheLastLines, Contents, ViewIsBehind,
              ViewIsATail, End
<1>2. CASE LogNext
  BY <1>2, AppendStep, RefreshStep, MoveCaretStep DEF LogNext
<1> QED BY <1>1, <1>2

-----------------------------------------------------------------------------
(***************************************************************************)
(* What the slices show, seen as sequences of numbers that are counted up. *)
(***************************************************************************)
\* The n numbers up to k.
Counting(k, n) == [i \in 1..n |-> k - n + i]

LEMMA CountingSeq ==
  ASSUME NEW k \in Nat, NEW n \in Nat
  PROVE  /\ Counting(k, n) \in Seq(Int) /\ Len(Counting(k, n)) = n
         /\ \A i \in 1..n : Counting(k, n)[i] = k - n + i
<1>1. \A i \in 1..n : k - n + i \in Int
  OBVIOUS
<1> QED BY <1>1, IsASeq DEF Counting

LEMMA AppendCounting ==
  ASSUME NEW k \in Nat, NEW n \in Nat
  PROVE  Append(Counting(k, n), k + 1) = Counting(k + 1, n + 1)
<1> DEFINE s == Append(Counting(k, n), k + 1)
           t == Counting(k + 1, n + 1)
<1>1. /\ s \in Seq(Int) /\ Len(s) = n + 1 /\ s[n + 1] = k + 1
      /\ \A i \in 1..n : s[i] = k - n + i
  <2>1. /\ Counting(k, n) \in Seq(Int) /\ Len(Counting(k, n)) = n
        /\ \A i \in 1..n : Counting(k, n)[i] = k - n + i
    BY CountingSeq
  <2>2. k + 1 \in Int
    OBVIOUS
  <2>3. /\ s \in Seq(Int) /\ Len(s) = Len(Counting(k, n)) + 1
        /\ \A i \in 1..Len(Counting(k, n)) : s[i] = Counting(k, n)[i]
        /\ s[Len(Counting(k, n)) + 1] = k + 1
    BY <2>1, <2>2, AppendProperties
  <2> QED BY <2>1, <2>3
<1>2. /\ t \in Seq(Int) /\ Len(t) = n + 1
      /\ \A i \in 1..(n + 1) : t[i] = k + 1 - (n + 1) + i
  BY CountingSeq
<1>3. ASSUME NEW i \in 1..Len(s) PROVE s[i] = t[i]
  <2>1. i \in 1..(n + 1)
    BY <1>1
  <2>2. t[i] = k - n + i
    BY <1>2, <2>1
  <2>3. i = n + 1 \/ i \in 1..n
    BY <2>1
  <2> QED BY <1>1, <2>2, <2>3
<1> HIDE DEF s, t
<1>4. s = t
  BY <1>1, <1>2, <1>3, SeqEqual
<1> QED BY <1>4 DEF s, t

LEMMA LatestCounting ==
  ASSUME NEW k \in Nat, NEW n \in Nat, NEW c \in Nat
  PROVE  Copies!Latest(Counting(k, n), c) = Counting(k, IF n > c THEN c ELSE n)
<1>1. /\ Counting(k, n) \in Seq(Int) /\ Len(Counting(k, n)) = n
      /\ \A i \in 1..n : Counting(k, n)[i] = k - n + i
  BY CountingSeq
<1>2. CASE n <= c
  BY <1>1, <1>2 DEF Copies!Latest
<1>3. CASE ~(n <= c)
  <2> DEFINE s == SubSeq(Counting(k, n), n - c + 1, n)
             t == Counting(k, c)
  <2>1. Copies!Latest(Counting(k, n), c) = s
    BY <1>1, <1>3 DEF Copies!Latest
  <2>2. \A i \in (n - c + 1)..n : Counting(k, n)[i] \in Int
    BY <1>1, <1>3
  <2>3. n - c + 1 \in Int
    OBVIOUS
  <2>4. /\ s \in Seq(Int) /\ Len(s) = IF n - c + 1 <= n THEN n - (n - c + 1) + 1 ELSE 0
        /\ \A i \in 1..(n - (n - c + 1) + 1) : s[i] = Counting(k, n)[n - c + 1 + i - 1]
    BY <2>2, <2>3, SubSeqProperties
  <2>5. /\ t \in Seq(Int) /\ Len(t) = c
        /\ \A i \in 1..c : t[i] = k - c + i
    BY CountingSeq
  <2>6. Len(s) = c
    BY <2>4
  <2>7. ASSUME NEW i \in 1..Len(s) PROVE s[i] = t[i]
    <3>1. i \in 1..c /\ i \in 1..(n - (n - c + 1) + 1) /\ n - c + 1 + i - 1 = n - c + i
      BY <2>6
    <3>2. s[i] = Counting(k, n)[n - c + i]
      BY <2>4, <3>1
    <3>3. n - c + i \in 1..n
      BY <1>3, <3>1
    <3>4. Counting(k, n)[n - c + i] = k - n + (n - c + i)
      BY <1>1, <3>3
    <3>5. k - n + (n - c + i) = k - c + i
      OBVIOUS
    <3>6. t[i] = k - c + i
      BY <2>5, <3>1
    <3> QED BY <3>2, <3>4, <3>5, <3>6
  <2> HIDE DEF s, t
  <2>8. s = t
    BY <2>4, <2>5, <2>6, <2>7, SeqEqual
  <2>9. n > c
    BY <1>3
  <2> QED BY <2>1, <2>8, <2>9 DEF t
<1>4. n <= c => ~(n > c)
  OBVIOUS
<1> QED BY <1>2, <1>3, <1>4

LEMMA LinesCount ==
  ASSUME LogInv
  PROVE  /\ Contents(lines) = Counting(Len(log), lines.len)
         /\ lines.len \in Nat /\ Len(log) \in Nat
<1>1. lines.len \in Nat /\ Len(log) \in Nat
  BY DEF LogInv, LogTypes, Lies, Slice
<1> QED BY <1>1 DEF LogInv, HoldsTheLastLines, Contents, Counting

LEMMA AppendWrites ==
  ASSUME LogInv, NEW text \in Texts, append(text)
  PROVE  Copies!Next
<1>1. PICK m \in Nat, l \in Nat : lines.len = m /\ Len(log) = l
  BY LinesCount
<1>2. Contents(lines) = Counting(l, m)
  BY <1>1, LinesCount
<1>3. LogInv' /\ Contents(seen)' = Contents(seen)
  BY AppendStep
<1>4. PICK n \in Nat : lines'.len = n
  BY <1>3 DEF LogInv, LogTypes, Lies, Slice
<1>5. log' = Append(log, text) /\ l < MaxLines /\ MaxLines \in Nat /\ Cap \in Nat
  BY <1>1, LogBufferAssumption DEF append
<1>6. Len(log') = l + 1
  BY <1>1, <1>5 DEF LogInv, LogTypes
<1>7. Contents(lines)' = Counting(l + 1, n)
  <2>1. \A i \in 1..n : Contents(lines)'[i] = l + 1 - n + i
    BY <1>3, <1>4, <1>6 DEF LogInv, HoldsTheLastLines
  <2>2. Contents(lines)' = [i \in 1..n |-> arrays'[lines'.array][lines'.from + i]]
    BY <1>4 DEF Contents
  <2>3. \A i \in 1..n : arrays'[lines'.array][lines'.from + i] = l + 1 - n + i
    BY <2>1, <2>2
  <2> QED BY <2>2, <2>3 DEF Counting
<1>8. n = IF m + 1 > Cap THEN Cap ELSE m + 1
  <2>1. m = IF l < Cap THEN l ELSE Cap
    BY <1>1 DEF LogInv, HoldsTheLastLines
  <2>2. n = IF l + 1 < Cap THEN l + 1 ELSE Cap
    BY <1>3, <1>4, <1>6 DEF LogInv, HoldsTheLastLines
  <2> QED BY <1>5, <2>1, <2>2
<1>9. Copies!Latest(Append(Contents(lines), l + 1), Cap) = Counting(l + 1, n)
  <2>1. Append(Contents(lines), l + 1) = Counting(l + 1, m + 1)
    BY <1>2, AppendCounting
  <2>2. l + 1 \in Nat /\ m + 1 \in Nat
    OBVIOUS
  <2>3. Copies!Latest(Counting(l + 1, m + 1), Cap) =
          Counting(l + 1, IF m + 1 > Cap THEN Cap ELSE m + 1)
    BY <1>5, <2>2, LatestCounting
  <2> QED BY <1>8, <2>1, <2>3
<1>10. l + 1 \in 1..MaxLines
  BY <1>5
<1> QED BY <1>3, <1>7, <1>9, <1>10 DEF Copies!Next, Copies!Write

LEMMA RefreshLooks ==
  ASSUME LogInv, RefreshLog
  PROVE  Copies!Next \/ UNCHANGED <<Contents(lines), Contents(seen)>>
<1>1. UNCHANGED <<log, arrays, lines>> /\ seen' \in {seen, last(View)}
  BY RefreshStep
<1>2. Contents(lines)' = Contents(lines)
  BY <1>1 DEF Contents
<1>3. CASE seen' = seen
  BY <1>1, <1>2, <1>3 DEF Contents
<1>4. CASE seen' = last(View)
  <2>1. PICK m \in Nat, l \in Nat : lines.len = m /\ Len(log) = l
    BY LinesCount
  <2>2. View \in Nat /\ View <= Cap /\ Cap \in Nat /\ m = IF l < Cap THEN l ELSE Cap
    BY <2>1, LogBufferAssumption DEF LogInv, HoldsTheLastLines
  <2>3. PICK n \in Nat : last(View).len = n
    BY LastIsATail DEF Lies, Slice
  <2>4. n = IF m > View THEN View ELSE m
    <3>1. n = IF l < View THEN l ELSE View
      BY <2>1, <2>3, LastIsATail
    <3> QED BY <2>2, <3>1
  <2>5. Contents(seen)' = Counting(l, n)
    <3>1. \A i \in 1..n : arrays[last(View).array][last(View).from + i] = l - n + i
      BY <2>1, <2>3, LastIsATail
    <3>2. Contents(seen)' = [i \in 1..n |-> arrays[last(View).array][last(View).from + i]]
      BY <1>1, <1>4, <2>3 DEF Contents
    <3> QED BY <3>1, <3>2 DEF Counting
  <2>6. Copies!Latest(Contents(lines), View) = Counting(l, n)
    BY <2>1, <2>2, <2>4, LinesCount, LatestCounting
  <2> QED BY <1>2, <2>5, <2>6 DEF Copies!Next, Copies!Look
<1> QED BY <1>1, <1>3, <1>4

LEMMA LogImplementsCopies ==
  LogInv /\ [LogNext]_logVars => [Copies!Next]_<<Contents(lines), Contents(seen)>>
<1> SUFFICES ASSUME LogInv, [LogNext]_logVars
             PROVE  [Copies!Next]_<<Contents(lines), Contents(seen)>>
  OBVIOUS
<1>1. CASE UNCHANGED logVars \/ MoveCaret
  <2>1. UNCHANGED <<arrays, lines, seen>>
    BY <1>1 DEF logVars, MoveCaret
  <2> QED BY <2>1 DEF Contents
<1>2. CASE RefreshLog
  BY <1>2, RefreshLooks
<1>3. CASE \E text \in Texts : append(text)
  BY <1>3, AppendWrites
<1> QED BY <1>1, <1>2, <1>3 DEF LogNext

-----------------------------------------------------------------------------
(***************************************************************************)
(* The caret.                                                              *)
(***************************************************************************)
\* What CaretStaysOnItsLine says of a step.
CaretStays ==
  LET new == Contents(seen)'
  IN  (/\ seen' # seen /\ seen.len > 0
       /\ \A i, k \in 1..seen.len :
            Reading(seen)[i] = Reading(seen)'[1] /\ Reading(seen)[k] = Reading(seen)'[1]
              => i = k
       /\ \E i \in DOMAIN new : new[i] = Contents(seen)[caret + 1])
      => new[caret' + 1] = Contents(seen)[caret + 1]

LEMMA RefreshKeepsTheCaret ==
  ASSUME LogInv, RefreshLog
  PROVE  CaretStays
<1> DEFINE view == last(View)
           old == Reading(seen)
           new == Reading(view)
<1>1. UNCHANGED <<log, arrays, lines>>
  BY DEF RefreshLog
<1> SUFFICES ASSUME seen' # seen, seen.len > 0,
                    \A i, k \in 1..seen.len :
                      old[i] = Reading(seen)'[1] /\ old[k] = Reading(seen)'[1] => i = k,
                    NEW i \in DOMAIN Contents(seen)',
                    Contents(seen)'[i] = Contents(seen)[caret + 1]
             PROVE  Contents(seen)'[caret' + 1] = Contents(seen)[caret + 1]
  BY DEF CaretStays
<1>2. seen' = view /\ caret' = clamp(0, caret - Gone(old, new), view.len)
  BY DEF RefreshLog
<1>3. PICK m \in Nat, n \in Nat, l \in Nat, e \in Nat, c \in Nat, v \in Nat :
        /\ seen.len = m /\ view.len = n /\ Len(log) = l /\ End(seen) = e /\ caret = c
        /\ View = v
  <2>1. seen.len \in Nat /\ caret \in Nat
    BY DEF LogInv, LogTypes, Lies, Slice
  <2>2. view.len \in Nat
    BY LastIsATail DEF Lies, Slice
  <2>3. Len(log) \in Nat
    BY LinesCount
  <2>4. End(seen) \in Nat
    BY <2>3 DEF LogInv, ViewIsATail
  <2>5. View \in Nat
    BY LogBufferAssumption
  <2> QED BY <2>1, <2>2, <2>3, <2>4, <2>5
<1>4. /\ m > 0 /\ c < m /\ e <= l
      /\ m = (IF e < v THEN e ELSE v) /\ n = (IF l < v THEN l ELSE v)
  <2>1. m > 0 /\ c < m
    BY <1>3 DEF LogInv, LogTypes
  <2>2. e <= l /\ m = IF e < v THEN e ELSE v
    BY <1>3 DEF LogInv, ViewIsATail
  <2>3. n = IF l < v THEN l ELSE v
    BY <1>3, LastIsATail
  <2> QED BY <2>1, <2>2, <2>3
<1>5. \A j \in 1..m : Contents(seen)[j] = e - m + j
  BY <1>3 DEF LogInv, ViewIsATail, Contents
<1>6. \A j \in 1..n : Contents(view)[j] = l - n + j
  BY <1>3, LastIsATail DEF Contents
<1>7. Contents(seen)' = Contents(view) /\ Reading(seen)' = new
  BY <1>1, <1>2 DEF Contents, Reading
<1>8. i \in 1..n /\ l - n + i = e - m + (c + 1)
  <2>1. DOMAIN Contents(view) = 1..n
    BY <1>3 DEF Contents
  <2>2. i \in 1..n
    BY <1>7, <2>1
  <2>3. c + 1 \in 1..m
    BY <1>4
  <2>4. Contents(view)[i] = l - n + i /\ Contents(seen)[c + 1] = e - m + (c + 1)
    BY <1>5, <1>6, <2>2, <2>3
  <2> QED BY <1>3, <1>7, <2>2, <2>4
\* The place in the old view of the line the new view begins with.
<1> DEFINE p == l - n + 1 - e + m
<1>9. p \in 1..(c + 1) /\ p \in 1..m /\ e - m + p = l - n + 1 /\ 1 \in 1..n
  BY <1>4, <1>8
<1> HIDE DEF p
<1>10. old[p] = new[1]
  <2>1. old[p] = log[Contents(seen)[p]]
    BY <1>3, <1>9 DEF Reading
  <2>2. new[1] = log[Contents(view)[1]]
    BY <1>3, <1>9 DEF Reading
  <2>3. Contents(seen)[p] = Contents(view)[1]
    BY <1>5, <1>6, <1>9
  <2> QED BY <2>1, <2>2, <2>3
<1>11. Gone(old, new) = p - 1
  <2>1. Len(old) = m
    BY <1>3, ReadingLength DEF LogInv, LogTypes, Lies
  <2>2. Gone(old, new) \in 0..(m - 1) /\ old[Gone(old, new) + 1] = new[1]
    BY <1>9, <1>10, <2>1, GoneIsFirst
  <2>3. PICK g \in 0..(m - 1) : Gone(old, new) = g
    BY <2>2
  <2>4. old[g + 1] = new[1] /\ g + 1 \in 1..m
    BY <2>2, <2>3
  <2>5. g + 1 = p
    BY <1>3, <1>7, <1>9, <1>10, <2>4
  <2> QED BY <2>3, <2>5, <1>9
<1>12. c - (p - 1) = i - 1
  BY <1>8, <1>9
<1>13. caret' = i - 1
  <2>1. caret' = clamp(0, i - 1, n)
    BY <1>2, <1>3, <1>11, <1>12
  <2> QED BY <1>8, <2>1 DEF clamp
<1>14. caret' + 1 = i
  BY <1>8, <1>13
<1> QED BY <1>14

LEMMA LogNextKeepsTheCaret == LogInv /\ [LogNext]_logVars => [CaretStays]_logVars
<1> SUFFICES ASSUME LogInv, LogNext PROVE CaretStays
  OBVIOUS
<1>1. CASE RefreshLog
  BY <1>1, RefreshKeepsTheCaret
<1>2. CASE MoveCaret \/ \E text \in Texts : append(text)
  BY <1>2 DEF MoveCaret, append, CaretStays
<1> QED BY <1>1, <1>2 DEF LogNext
-----------------------------------------------------------------------------
(***************************************************************************)
(* The log view as a part of the process.                                  *)
(***************************************************************************)
LEMMA NextIsLogNext == [Next]_vars => [LogNext]_logVars
<1> SUFFICES ASSUME [Next]_vars PROVE [LogNext]_logVars
  OBVIOUS
<1>1. LoaderTexts \subseteq Texts /\ "starting" \in Texts /\ "other" \in Texts
  BY GuiServerAssumption DEF LoaderTexts
<1>2. CASE GuiNext
  BY <1>1, <1>2
  DEF GuiNext, StartClick, Frame, UpdateLogView, TouchLogView, LogNext, logVars
<1>3. CASE WatcherInvalidates
  BY <1>3 DEF WatcherInvalidates
<1>4. CASE LoaderStep
  <2>1. (\E text \in LoaderTexts : append(text)) \/ UNCHANGED logVars
    BY <1>4 DEF LoaderStep, Logging, Quietly, LoaderTexts
  <2> QED BY <1>1, <2>1 DEF LogNext
<1>5. CASE OtherLine
  BY <1>1, <1>5 DEF OtherLine, LogNext
<1>6. CASE Quietly(MediaNext) \/ Quietly(DiskNext) \/ UNCHANGED vars
  BY <1>6 DEF Quietly, vars
<1> QED BY <1>2, <1>3, <1>4, <1>5, <1>6 DEF Next

LEMMA LogInvariant == Spec => []LogInv
<1>1. Init => LogInv
  BY LogInvInit DEF Init
<1>2. LogInv /\ [Next]_vars => LogInv'
  BY NextIsLogNext, LogInvNext
<1> QED BY <1>1, <1>2, PTL DEF Spec

\* Whatever is logged while the window is open, and to which array, the buffer
\* and the view behave like copies of the log's end (gui/logbuf.go:57, last).
THEOREM LogIsATail == Spec => KeepsTheTail
<1>1. Init => Copies!Init
  BY DEF Init, LogInit, Copies!Init, Contents
<1>2. LogInv /\ [Next]_vars => [Copies!Next]_<<Contents(lines), Contents(seen)>>
  BY NextIsLogNext, LogImplementsCopies
<1> QED BY <1>1, <1>2, LogInvariant, PTL DEF Spec, KeepsTheTail, Copies!Spec

\* The caret of the log view stays on its line while the line is shown and what
\* the new view begins with was read only once (gui_gio.go:239).
THEOREM CaretFollowsItsLine == Spec => CaretStaysOnItsLine
<1>1. LogInv /\ [Next]_vars => [CaretStays]_logVars
  BY NextIsLogNext, LogNextKeepsTheCaret
<1> QED BY <1>1, LogInvariant, PTL DEF Spec, CaretStaysOnItsLine, CaretStays
-----------------------------------------------------------------------------
(***************************************************************************)
(* The configuration.                                                      *)
(***************************************************************************)
LEMMA FieldsOfEnvironment ==
  ASSUME NEW e, NEW bind, NEW dsn, NEW media, NEW log1, NEW root, NEW ro, NEW slow, NEW cors,
         e = [BIND |-> bind, SQLITE_DSN |-> dsn, MEDIA_ROOT |-> media, DFLOG |-> log1,
              DFLOG_ROOT |-> root, RO |-> ro, SLOW_SQL_MS |-> slow, CORS_ORIGINS |-> cors]
  PROVE  /\ e.SLOW_SQL_MS = slow /\ e.CORS_ORIGINS = cors /\ e.BIND = bind
         /\ e.SQLITE_DSN = dsn /\ e.MEDIA_ROOT = media /\ e.DFLOG = log1
         /\ e.DFLOG_ROOT = root /\ e.RO = ro
  OBVIOUS

LEMMA OtherOrigins ==
  ASSUME NEW bind, NEW dsn, NEW media, NEW log1, NEW root, NEW ro, NEW slow, NEW cors, NEW new
  PROVE  [[Bind |-> bind, Dsn |-> dsn, MediaRoot |-> media, DfLog |-> log1, DfLogRoot |-> root,
           ReadOnly |-> ro, SlowSqlMs |-> slow, CorsOrigins |-> cors]
             EXCEPT !.CorsOrigins = new] =
           [Bind |-> bind, Dsn |-> dsn, MediaRoot |-> media, DfLog |-> log1,
            DfLogRoot |-> root, ReadOnly |-> ro, SlowSqlMs |-> slow, CorsOrigins |-> new]
  OBVIOUS

\* A value that is the default once more is the same: what newMainWindow reads
\* out of the environment comes back from it.
LEMMA FieldsKeepTheConfig ==
  ASSUME NEW s \in Setup
  PROVE  GetServerConfig([s EXCEPT !.env = newMainWindow(s)]) =
           [GetServerConfig(s) EXCEPT !.CorsOrigins = ""]
<1> DEFINE c == GetServerConfig(s)
           t == [s EXCEPT !.env = newMainWindow(s)]
           n == c.SlowSqlMs
<1>1. /\ t.flag = s.flag /\ t.properties = s.properties /\ t.rips = s.rips
      /\ t.env = newMainWindow(s)
  BY DEF Setup
<1>2. Dirs(t) = Dirs(s) /\ RipsDir(t) = RipsDir(s)
  BY <1>1 DEF Dirs, RipsDir
<1>3. n \in Int /\ n >= -1
  <2>1. s.env.SLOW_SQL_MS \subseteq Int
    BY DEF Setup, Environment
  <2>2. n = IF \E k \in s.env.SLOW_SQL_MS : k >= -1
            THEN CHOOSE k \in s.env.SLOW_SQL_MS : k >= -1 ELSE 100
    BY DEF GetServerConfig
  <2> QED BY <2>1, <2>2
<1>4. t.env.SLOW_SQL_MS = {n} /\ t.env.CORS_ORIGINS = "" /\ t.env.BIND = c.Bind
      /\ t.env.SQLITE_DSN = c.Dsn /\ t.env.MEDIA_ROOT = c.MediaRoot
      /\ t.env.DFLOG = c.DfLog /\ t.env.DFLOG_ROOT = c.DfLogRoot
      /\ t.env.RO = IF c.ReadOnly THEN "1" ELSE "0"
  <2>1. t.env = [BIND |-> c.Bind, SQLITE_DSN |-> c.Dsn, MEDIA_ROOT |-> c.MediaRoot,
                 DFLOG |-> c.DfLog, DFLOG_ROOT |-> c.DfLogRoot,
                 RO |-> IF c.ReadOnly THEN "1" ELSE "0",
                 SLOW_SQL_MS |-> {c.SlowSqlMs}, CORS_ORIGINS |-> ""]
    BY <1>1, Zenon DEF newMainWindow
  <2> DEFINE e == t.env
             ro == IF c.ReadOnly THEN "1" ELSE "0"
  <2>2. e = [BIND |-> c.Bind, SQLITE_DSN |-> c.Dsn, MEDIA_ROOT |-> c.MediaRoot,
             DFLOG |-> c.DfLog, DFLOG_ROOT |-> c.DfLogRoot, RO |-> ro,
             SLOW_SQL_MS |-> {c.SlowSqlMs}, CORS_ORIGINS |-> ""]
    BY <2>1
  <2> HIDE DEF e, c, ro
  <2>3. /\ e.SLOW_SQL_MS = {c.SlowSqlMs} /\ e.CORS_ORIGINS = "" /\ e.BIND = c.Bind
        /\ e.SQLITE_DSN = c.Dsn /\ e.MEDIA_ROOT = c.MediaRoot /\ e.DFLOG = c.DfLog
        /\ e.DFLOG_ROOT = c.DfLogRoot /\ e.RO = ro
    BY <2>2, FieldsOfEnvironment
  <2> QED BY <2>3 DEF e, ro
<1>5. GetServerConfig(t).SlowSqlMs = n
  <2>1. GetServerConfig(t).SlowSqlMs =
          IF \E k \in {n} : k >= -1 THEN CHOOSE k \in {n} : k >= -1 ELSE 100
    BY <1>4 DEF GetServerConfig
  <2> HIDE DEF n
  <2>2. (CHOOSE k \in {n} : k >= -1) = n
    BY <1>3
  <2> QED BY <1>3, <2>1, <2>2
<1>6. GetServerConfig(t).ReadOnly = c.ReadOnly
  <2>1. shouldRunReadOnly(s) \in BOOLEAN /\ shouldRunReadOnly(t) \in BOOLEAN
    BY DEF shouldRunReadOnly
  <2>2. c.ReadOnly = shouldRunReadOnly(s)
        /\ GetServerConfig(t).ReadOnly = shouldRunReadOnly(t)
    BY DEF GetServerConfig
  <2>3. shouldRunReadOnly(t) <=> shouldRunReadOnly(s)
    <3>1. t.env.RO = IF shouldRunReadOnly(s) THEN "1" ELSE "0"
      BY <1>4, <2>2
    <3> QED BY <1>1, <3>1 DEF shouldRunReadOnly
  <2> QED BY <2>1, <2>2, <2>3
<1>7. GetServerConfig(t).Bind = c.Bind
  BY <1>4 DEF GetServerConfig, ValueOr
<1>8. GetServerConfig(t).Dsn = c.Dsn
  BY <1>2, <1>4 DEF GetServerConfig, ValueOr
<1>9. GetServerConfig(t).MediaRoot = c.MediaRoot
  BY <1>2, <1>4 DEF GetServerConfig, ValueOr
<1>10. GetServerConfig(t).DfLog = c.DfLog
  BY <1>2, <1>4 DEF GetServerConfig, ValueOr
<1>11. GetServerConfig(t).DfLogRoot = c.DfLogRoot
  <2>1. GetServerConfig(t).DfLogRoot =
          ValueOr(c.DfLogRoot, Unset, getDefaultDfLogRoot(GetServerConfig(t).DfLog))
    <3> HIDE DEF c
    <3>1. GetServerConfig(t).DfLogRoot =
            ValueOr(t.env.DFLOG_ROOT, Unset, getDefaultDfLogRoot(GetServerConfig(t).DfLog))
      BY DEF GetServerConfig
    <3> QED BY <1>4, <3>1
  <2>2. c.DfLogRoot = ValueOr(s.env.DFLOG_ROOT, Unset, getDefaultDfLogRoot(c.DfLog))
    BY DEF GetServerConfig
  <2> QED BY <1>10, <2>1, <2>2 DEF ValueOr
<1>12. GetServerConfig(t).CorsOrigins = ""
  BY <1>4 DEF GetServerConfig
<1> DEFINE Made(r) == [Bind |-> r.Bind, Dsn |-> r.Dsn, MediaRoot |-> r.MediaRoot,
                       DfLog |-> r.DfLog, DfLogRoot |-> r.DfLogRoot,
                       ReadOnly |-> r.ReadOnly, SlowSqlMs |-> r.SlowSqlMs,
                       CorsOrigins |-> r.CorsOrigins]
<1>13. c = Made(c) /\ GetServerConfig(t) = Made(GetServerConfig(t))
  BY DEF GetServerConfig
<1> QED
  <2> HIDE DEF c, t, n
  <2>1. [c EXCEPT !.CorsOrigins = ""] =
          [Bind |-> c.Bind, Dsn |-> c.Dsn, MediaRoot |-> c.MediaRoot, DfLog |-> c.DfLog,
           DfLogRoot |-> c.DfLogRoot, ReadOnly |-> c.ReadOnly, SlowSqlMs |-> c.SlowSqlMs,
           CorsOrigins |-> ""]
    <3> DEFINE new == ""
    <3> HIDE DEF new
    <3>1. [Made(c) EXCEPT !.CorsOrigins = new] =
            [Bind |-> c.Bind, Dsn |-> c.Dsn, MediaRoot |-> c.MediaRoot, DfLog |-> c.DfLog,
             DfLogRoot |-> c.DfLogRoot, ReadOnly |-> c.ReadOnly, SlowSqlMs |-> c.SlowSqlMs,
             CorsOrigins |-> new]
      BY OtherOrigins
    <3> HIDE DEF Made
    <3> QED BY <1>13, <3>1 DEF new
  <2>2. GetServerConfig(t) = [c EXCEPT !.CorsOrigins = ""]
    BY <1>5, <1>6, <1>7, <1>8, <1>9, <1>10, <1>11, <1>12, <1>13, <2>1 DEF n
  <2> QED BY <2>2 DEF c, t

\* The configuration of the server is made of the environment as it is.
ConfigInv ==
  /\ given \in Setups
  /\ load # "off" => cfg = GetServerConfig([given EXCEPT !.env = env])

\* A request changes neither what the server has loaded nor the files.
LEMMA MediaLeaves == MediaNext => UNCHANGED <<loadVars, diskVars>>
BY DEF MediaNext, handleMedia, sendFile, StatFails, StatNotModified, Stat, Open, OpenFails,
       SkipFile, QueryOldest, QueryOldestFails, NotFound, Answered, Proceed

\* Only a click on Start gives a configuration, and only while there is none.
LEMMA ConfigSteps ==
  ASSUME [Next]_vars
  PROVE  /\ given' = given
         /\ \/ StartClick
            \/ UNCHANGED <<cfg, env>> /\ (load' = "off" <=> load = "off")
<1>1. CASE GuiNext
  BY <1>1
  DEF GuiNext, StartClick, Frame, UpdateLogView, TouchLogView, guiVars, filesVars, loadVars
<1>2. CASE WatcherInvalidates \/ OtherLine \/ UNCHANGED vars
  BY <1>2 DEF WatcherInvalidates, OtherLine, guiVars, vars, filesVars, loadVars
<1>3. CASE LoaderStep
  BY <1>3
  DEF LoaderStep, Logging, Quietly, BeginLoad, OpenLog, OpenLogFails, ScanLine, ScanEnds,
      ScanBreaks, Publish, Listen, Announce, ListenFails, Complain, Continue, Goto, guiVars
<1>4. CASE Quietly(MediaNext)
  BY <1>4, MediaLeaves DEF Quietly, guiVars, loadVars
<1>5. CASE Quietly(DiskNext)
  BY <1>5 DEF Quietly, DiskNext, RipMeLogs, Write, Remove, Move, Changed, guiVars, loadVars
<1> QED BY <1>1, <1>2, <1>3, <1>4, <1>5 DEF Next

LEMMA ConfigInvariant == Spec => []ConfigInv
<1>1. Init => ConfigInv
  BY DEF Init, FilesInit, ConfigInv
<1>2. ConfigInv /\ [Next]_vars => ConfigInv'
  <2> SUFFICES ASSUME ConfigInv, [Next]_vars PROVE ConfigInv'
    OBVIOUS
  <2>1. CASE StartClick
    BY <2>1 DEF StartClick, StartServer, ConfigInv
  <2>2. CASE UNCHANGED <<given, cfg, env>> /\ (load' = "off" <=> load = "off")
    BY <2>2 DEF ConfigInv
  <2> QED BY <2>1, <2>2, ConfigSteps
<1> QED BY <1>1, <1>2, PTL DEF Spec

\* Pressing Start without touching a field gives the server the configuration
\* the process would have without the panel, whatever the setup, but for the
\* origins of CORS (gui_gio.go:132-171).
THEOREM UntouchedPanel == Spec => []UntouchedPanelKeepsTheConfig
<1>1. ConfigInv => UntouchedPanelKeepsTheConfig
  BY FieldsKeepTheConfig, GuiServerAssumption DEF ConfigInv, UntouchedPanelKeepsTheConfig
<1> QED BY <1>1, ConfigInvariant, PTL
-----------------------------------------------------------------------------
(***************************************************************************)
(* The known files.                                                        *)
(***************************************************************************)
LoadNext ==
  \/ BeginLoad \/ OpenLog \/ OpenLogFails \/ ScanLine \/ ScanEnds \/ ScanBreaks \/ Publish
  \/ Listen \/ Announce \/ ListenFails \/ Complain

LEMMA FilesSteps ==
  ASSUME [Next]_vars
  PROVE  \/ StartServer(GetServerConfig([given EXCEPT !.env = env'])) /\ env' \in Fields
         \/ LoadNext
         \/ MediaNext
         \/ DiskNext
         \/ UNCHANGED filesVars
<1>1. CASE GuiNext
  BY <1>1 DEF GuiNext, StartClick, Frame, UpdateLogView, TouchLogView
<1>2. CASE WatcherInvalidates \/ OtherLine \/ UNCHANGED vars
  BY <1>2 DEF WatcherInvalidates, OtherLine, vars
<1>3. CASE LoaderStep
  BY <1>3 DEF LoaderStep, Logging, Quietly, LoadNext
<1>4. CASE Quietly(MediaNext) \/ Quietly(DiskNext)
  BY <1>4 DEF Quietly
<1> QED BY <1>1, <1>2, <1>3, <1>4 DEF Next

LEMMA WithAt ==
  ASSUME NEW B, NEW S, NEW p \in [abs : B, at : S], NEW x \in S
  PROVE  /\ [p EXCEPT !.at = x] \in [abs : B, at : S]
         /\ [p EXCEPT !.at = x].abs = p.abs
         /\ [p EXCEPT !.at = x].at = x
  OBVIOUS

LEMMA SamePath ==
  ASSUME NEW B, NEW S, NEW p \in [abs : B, at : S], NEW q \in [abs : B, at : S],
         p.abs = q.abs, p.at = q.at
  PROVE  p = q
  OBVIOUS

LEMMA JoinIsPath ==
  ASSUME NEW p \in Path, NEW q \in Path
  PROVE  Join(p, q) \in Path /\ Join(p, q).abs = p.abs /\ Join(p, q).at = p.at \o q.at
<1>1. p.at \in Seq(STRING) /\ q.at \in Seq(STRING)
  BY DEF Path
<1> DEFINE at == p.at \o q.at
<1>2. at \in Seq(STRING)
  BY <1>1
<1>3. Join(p, q) = [p EXCEPT !.at = at]
  BY DEF Join
<1> HIDE DEF at
<1>4. Join(p, q) \in Path /\ Join(p, q).abs = p.abs /\ Join(p, q).at = at
  BY <1>2, <1>3, WithAt DEF Path
<1> QED BY <1>4 DEF at

LEMMA DirIsPath ==
  ASSUME NEW p \in Path
  PROVE  Dir(p) \in Path /\ Dir(p).abs = p.abs
<1>1. p.at \in Seq(STRING)
  BY DEF Path
<1>2. SubSeq(p.at, 1, Len(p.at) - 1) \in Seq(STRING)
  <2>1. PICK d \in Seq(STRING) : p.at = d
    BY <1>1
  <2>2. SubSeq(d, 1, Len(d) - 1) \in Seq(STRING)
    BY SubSeqProperties
  <2> QED BY <2>1, <2>2
<1>3. Dir(p) = [p EXCEPT !.at = SubSeq(p.at, 1, Len(p.at) - 1)]
  BY DEF Dir
<1> QED BY <1>2, <1>3, WithAt DEF Path

\* The first n lines of a log in the directory dir have the name, and keep is
\* what is kept of them.
Lines(name, es, n) == {i \in 1..n : es[i] # Comment /\ Base(es[i]) = name}

Keeps(keep, dir, es, n) ==
  \A name \in Names :
    /\ \A k \in 1..Len(keep[name]) : \E i \in Lines(name, es, n) : keep[name][k] = Join(dir, es[i])
    /\ \A i \in Lines(name, es, n) : \E k \in 1..Len(keep[name]) : keep[name][k] = Join(dir, es[i])

LEMMA KeepsNothing ==
  ASSUME NEW dir, NEW es
  PROVE  Keeps(NoList, dir, es, 0)
BY DEF Keeps, Lines, NoList

LEMMA KeepsComment ==
  ASSUME NEW keep, NEW dir, NEW es, NEW n \in Nat, Keeps(keep, dir, es, n), es[n + 1] = Comment
  PROVE  Keeps(keep, dir, es, n + 1)
<1>1. \A name \in Names : Lines(name, es, n + 1) = Lines(name, es, n)
  BY DEF Lines
<1> QED BY <1>1 DEF Keeps

LEMMA KeepsLonger ==
  ASSUME NEW keep, NEW dir, NEW es, NEW fs, NEW n \in Nat, Keeps(keep, dir, es, n),
         \A i \in 1..n : fs[i] = es[i]
  PROVE  Keeps(keep, dir, fs, n)
<1>1. \A name \in Names : Lines(name, fs, n) = Lines(name, es, n)
  BY DEF Lines
<1>2. \A name \in Names : \A i \in Lines(name, es, n) : fs[i] = es[i]
  BY DEF Lines
<1> QED BY <1>1, <1>2 DEF Keeps

LEMMA KeepsEntry ==
  ASSUME NEW keep \in [Names -> Seq(Path)], NEW dir, NEW es, NEW n \in Nat,
         Keeps(keep, dir, es, n),
         es[n + 1] # Comment, Base(es[n + 1]) \in Names, Join(dir, es[n + 1]) \in Path
  PROVE  LET new == [keep EXCEPT ![Base(es[n + 1])] = Append(@, Join(dir, es[n + 1]))]
         IN  new \in [Names -> Seq(Path)] /\ Keeps(new, dir, es, n + 1)
<1> DEFINE base == Base(es[n + 1])
           target == Join(dir, es[n + 1])
           new == [keep EXCEPT ![base] = Append(@, target)]
<1>1. base \in Names /\ target \in Path /\ es[n + 1] # Comment
  OBVIOUS
<1>2. Lines(base, es, n + 1) = Lines(base, es, n) \union {n + 1}
  BY <1>1 DEF Lines
<1>3. \A name \in Names : name # base => Lines(name, es, n + 1) = Lines(name, es, n)
  BY DEF Lines
<1> DEFINE mine == keep[base]
<1>4. mine \in Seq(Path)
  BY <1>1
<1>5. new[base] = Append(mine, target) /\ \A name \in Names : name # base => new[name] = keep[name]
  BY <1>1
<1>6. new \in [Names -> Seq(Path)]
  <2>1. Append(mine, target) \in Seq(Path)
    BY <1>1, <1>4
  <2> HIDE DEF target, base
  <2> QED BY <1>1, <2>1
<1>7. PICK m \in Nat : Len(mine) = m
  BY <1>4
<1>8. Len(new[base]) = m + 1 /\ new[base][m + 1] = target
      /\ \A k \in 1..m : new[base][k] = mine[k]
  BY <1>1, <1>4, <1>5, <1>7
<1>9. (\A k \in 1..m : \E i \in Lines(base, es, n) : mine[k] = Join(dir, es[i]))
      /\ \A i \in Lines(base, es, n) : \E k \in 1..m : mine[k] = Join(dir, es[i])
  BY <1>1, <1>7 DEF Keeps
<1> HIDE DEF new, mine
<1>10. ASSUME NEW k \in 1..(m + 1)
       PROVE  \E i \in Lines(base, es, n + 1) : new[base][k] = Join(dir, es[i])
  <2>1. CASE k = m + 1
    BY <1>2, <1>8, <2>1
  <2>2. CASE k # m + 1
    <3>1. k \in 1..m
      BY <1>7, <2>2
    <3> QED BY <1>2, <1>8, <1>9, <3>1
  <2> QED BY <2>1, <2>2
<1>11. ASSUME NEW i \in Lines(base, es, n + 1)
       PROVE  \E k \in 1..(m + 1) : new[base][k] = Join(dir, es[i])
  <2>1. CASE i = n + 1
    <3>1. m + 1 \in 1..(m + 1)
      BY <1>7
    <3> QED BY <1>8, <2>1, <3>1
  <2>2. CASE i \in Lines(base, es, n)
    <3>1. PICK k \in 1..m : mine[k] = Join(dir, es[i])
      BY <1>9, <2>2
    <3>2. k \in 1..(m + 1)
      BY <1>7
    <3> QED BY <1>8, <3>1, <3>2
  <2> QED BY <1>2, <2>1, <2>2
<1>12. Keeps(new, dir, es, n + 1)
  <2> SUFFICES ASSUME NEW name \in Names
               PROVE  /\ \A k \in 1..Len(new[name]) :
                           \E i \in Lines(name, es, n + 1) : new[name][k] = Join(dir, es[i])
                      /\ \A i \in Lines(name, es, n + 1) :
                           \E k \in 1..Len(new[name]) : new[name][k] = Join(dir, es[i])
    BY DEF Keeps
  <2>1. CASE name = base
    BY <1>8, <1>10, <1>11, <2>1
  <2>2. CASE name # base
    <3>1. new[name] = keep[name] /\ Lines(name, es, n + 1) = Lines(name, es, n)
      BY <1>3, <1>5, <2>2
    <3>2. /\ \A k \in 1..Len(keep[name]) :
               \E i \in Lines(name, es, n) : keep[name][k] = Join(dir, es[i])
          /\ \A i \in Lines(name, es, n) :
               \E k \in 1..Len(keep[name]) : keep[name][k] = Join(dir, es[i])
      BY DEF Keeps
    <3> QED BY <3>1, <3>2
  <2> QED BY <2>1, <2>2
<1> QED BY <1>6, <1>12 DEF new

FoundTypes ==
  /\ load \in LoadPCs
  /\ entries \in Seq(Entries) /\ pos \in 0..Len(entries)
  /\ found \in [Names -> Seq(Path)] /\ known \in [Names -> Seq(Path)]
  /\ load # "off" => cfg.DfLog \in Path /\ cfg.DfLogRoot \in Path

FoundInv ==
  /\ FoundTypes
  /\ Keeps(found, Dir(cfg.DfLog), entries, pos)
  /\ load \in {"off", "begin", "open"} => pos = 0 /\ found = NoList /\ known = NoList
  /\ load \in {"listen", "announce", "serving", "complain", "failed"} => known = found

LEMMA ScanStep == FoundInv /\ ScanLine => FoundInv'
<1> SUFFICES ASSUME FoundInv, ScanLine PROVE FoundInv'
  OBVIOUS
<1>1. /\ load = "scan" /\ load' = "scan" /\ pos' = pos + 1 /\ pos < Len(entries)
      /\ UNCHANGED <<cfg, entries, known>>
  BY DEF ScanLine, diskVars
<1> DEFINE entry == entries[pos + 1]
<1>2. entries \in Seq(Entries) /\ pos \in Nat /\ pos + 1 \in 1..Len(entries)
  BY <1>1 DEF FoundInv, FoundTypes
<1>3. entry \in Entries /\ entry \in Path
  BY <1>2, KnownFilesAssumption
<1>4. Join(Dir(cfg.DfLog), entry) \in Path
  BY <1>1, <1>3, DirIsPath, JoinIsPath DEF FoundInv, FoundTypes
<1>5. found' \in [Names -> Seq(Path)] /\ Keeps(found', Dir(cfg.DfLog), entries, pos + 1)
  <2>1. CASE entry = Comment
    BY <1>2, <2>1, KeepsComment DEF ScanLine, FoundInv, FoundTypes
  <2>2. CASE entry # Comment
    <3>1. Base(entry) \in Names
      BY <1>3, <2>2, KnownFilesAssumption
    <3>2. found' = [found EXCEPT ![Base(entry)] = Append(@, Join(Dir(cfg.DfLog), entry))]
      BY <2>2 DEF ScanLine, Noted, Target
    <3> QED BY <1>2, <1>4, <2>2, <3>1, <3>2, KeepsEntry DEF FoundInv, FoundTypes
  <2> QED BY <2>1, <2>2
<1>6. FoundTypes'
  BY <1>1, <1>2, <1>5 DEF FoundInv, FoundTypes
<1> QED BY <1>1, <1>5, <1>6 DEF FoundInv

\* What RipMe adds to the log is behind what is read.
LEMMA LogGrows ==
  ASSUME FoundInv, NEW entry \in Entries, RipMeLogs(entry)
  PROVE  FoundInv'
<1>1. entries' = Append(entries, entry) /\ UNCHANGED <<load, cfg, pos, found, known>>
  BY DEF RipMeLogs, loadVars
<1>2. entries \in Seq(Entries) /\ pos \in 0..Len(entries) /\ Len(entries) \in Nat
  BY DEF FoundInv, FoundTypes
<1>3. entries' \in Seq(Entries) /\ Len(entries') = Len(entries) + 1
      /\ \A i \in 1..pos : entries'[i] = entries[i]
  BY <1>1, <1>2
<1>4. Keeps(found, Dir(cfg.DfLog), entries', pos)
  BY <1>2, <1>3, KeepsLonger DEF FoundInv
<1>5. FoundTypes'
  <2>1. pos' \in 0..Len(entries')
    BY <1>1, <1>2, <1>3
  <2> QED BY <1>1, <1>3, <2>1 DEF FoundInv, FoundTypes
<1> QED BY <1>1, <1>4, <1>5 DEF FoundInv
LEMMA LoadStep == FoundInv /\ LoadNext => FoundInv'
<1> SUFFICES ASSUME FoundInv, LoadNext PROVE FoundInv'
  OBVIOUS
<1>1. CASE ScanLine
  BY <1>1, ScanStep
<1>2. CASE Publish
  BY <1>2 DEF Publish, Goto, FoundInv, FoundTypes, diskVars, LoadPCs
<1>3. CASE OpenLogFails
  BY <1>3 DEF OpenLogFails, Continue, Goto, FoundInv, FoundTypes, diskVars, LoadPCs
<1>4. CASE \/ BeginLoad \/ OpenLog \/ ScanEnds \/ ScanBreaks \/ Listen \/ Announce
           \/ ListenFails \/ Complain
  <2>1. UNCHANGED <<cfg, entries, pos, found, known>>
    BY <1>4 DEF BeginLoad, OpenLog, ScanEnds, ScanBreaks, Listen, Announce, ListenFails,
         Complain, Continue, diskVars
  <2>2. /\ load # "off" /\ load' \in LoadPCs
        /\ load' \in {"off", "begin", "open"} => load \in {"off", "begin", "open"}
        /\ load' \in {"listen", "announce", "serving", "complain", "failed"} =>
             load \in {"listen", "announce", "serving", "complain", "failed"}
    BY <1>4 DEF BeginLoad, OpenLog, ScanEnds, ScanBreaks, Listen, Announce, ListenFails,
         Complain, Continue, Goto, LoadPCs
  <2> QED BY <2>1, <2>2 DEF FoundInv, FoundTypes
<1> QED BY <1>1, <1>2, <1>3, <1>4 DEF LoadNext

LEMMA MadePath ==
  ASSUME NEW B, NEW S, NEW b \in B, NEW x \in S
  PROVE  [abs |-> b, at |-> x] \in [abs : B, at : S]
  OBVIOUS

LEMMA ResolvedIsPath ==
  ASSUME NEW p \in Path
  PROVE  Resolved(p) \in Path /\ Resolved(p).abs = TRUE
<1>1. Absolute(Cwd) \in Path /\ Absolute(Cwd).abs = TRUE
  BY ConfigAssumption, MadePath DEF Path, Absolute
<1>2. p.abs \in BOOLEAN
  BY DEF Path
<1> QED BY <1>1, <1>2, JoinIsPath DEF Resolved

LEMMA JoinTwice ==
  ASSUME NEW p \in Path, NEW q \in Path, NEW r \in Path
  PROVE  Join(p, Join(q, r)) = Join(Join(p, q), r)
<1> DEFINE inner == Join(q, r)
           outer == Join(p, q)
<1>1. inner \in Path /\ inner.at = q.at \o r.at /\ outer \in Path
      /\ outer.abs = p.abs /\ outer.at = p.at \o q.at
  BY JoinIsPath
<1> HIDE DEF inner, outer
<1>2. /\ Join(p, inner) \in Path /\ Join(p, inner).abs = p.abs
      /\ Join(p, inner).at = p.at \o inner.at
      /\ Join(outer, r) \in Path /\ Join(outer, r).abs = outer.abs
      /\ Join(outer, r).at = outer.at \o r.at
  BY <1>1, JoinIsPath
<1>3. p.at \o (q.at \o r.at) = (p.at \o q.at) \o r.at
  <2>1. PICK a \in Seq(STRING), b \in Seq(STRING), c \in Seq(STRING) :
          p.at = a /\ q.at = b /\ r.at = c
    BY DEF Path
  <2>2. (a \o b) \o c = a \o (b \o c)
    BY ConcatAssociative
  <2> QED BY <2>1, <2>2
<1>4. Join(p, inner).at = Join(outer, r).at /\ Join(p, inner).abs = Join(outer, r).abs
  BY <1>1, <1>2, <1>3
<1>5. Join(p, inner) = Join(outer, r)
  BY <1>2, <1>4, SamePath DEF Path
<1> QED BY <1>5 DEF inner, outer

LEMMA ResolvedJoin ==
  ASSUME NEW p \in Path, NEW q \in Path
  PROVE  Resolved(Join(p, q)) = Join(Resolved(p), q)
<1>1. Join(p, q).abs = p.abs /\ p.abs \in BOOLEAN
  BY JoinIsPath DEF Path
<1>2. Absolute(Cwd) \in Path
  BY ConfigAssumption, MadePath DEF Path, Absolute
<1>3. Join(Absolute(Cwd), Join(p, q)) = Join(Join(Absolute(Cwd), p), q)
  BY <1>2, JoinTwice
<1> QED BY <1>1, <1>3 DEF Resolved

\* The log's path is one, whether it is the default, given, or edited.
LEMMA DfLogIsPath ==
  ASSUME NEW s \in Setup, NEW e, e.DFLOG \in Path
  PROVE  GetServerConfig([s EXCEPT !.env = e]).DfLog \in Path
<1> DEFINE t == [s EXCEPT !.env = e]
<1>1. t.env = e /\ t.properties = s.properties
  BY DEF Setup
<1>2. /\ [abs |-> TRUE, at |-> Cwd] \in Path /\ [abs |-> TRUE, at |-> RipMeDir] \in Path
      /\ [abs |-> FALSE, at |-> <<>>] \in Path /\ [abs |-> FALSE, at |-> <<"dflog">>] \in Path
  <2>1. Cwd \in Seq(STRING) /\ RipMeDir \in Seq(STRING) /\ <<>> \in Seq(STRING)
    BY ConfigAssumption
  <2> DEFINE name == "dflog"
             names == <<name>>
  <2>2. names \in Seq(STRING)
    <3>1. name \in STRING
      BY LiteralAssumption
    <3> HIDE DEF name
    <3> QED BY <3>1
  <2> HIDE DEF names
  <2>3. [abs |-> FALSE, at |-> names] \in Path
    BY <2>2, MadePath DEF Path
  <2> QED BY <2>1, <2>3, MadePath DEF Path, names
<1>3. Dirs(t) \in Path /\ Relative(<<"dflog">>) \in Path
  BY <1>2 DEF Dirs, Absolute, Relative
<1>4. Join(Dirs(t), Relative(<<"dflog">>)) \in Path
  BY <1>3, JoinIsPath
<1>5. GetServerConfig(t).DfLog = ValueOr(e.DFLOG, Unset, Join(Dirs(t), Relative(<<"dflog">>)))
  BY <1>1 DEF GetServerConfig
<1> QED BY <1>4, <1>5 DEF ValueOr

LEMMA RootIsPath ==
  ASSUME NEW s \in Setup, NEW e, e.DFLOG \in Path, e.DFLOG_ROOT \in Path
  PROVE  GetServerConfig([s EXCEPT !.env = e]).DfLogRoot \in Path
<1> DEFINE t == [s EXCEPT !.env = e]
           c == GetServerConfig(t)
<1>1. t.env = e
  BY DEF Setup
<1>2. c.DfLog \in Path
  BY DfLogIsPath
<1>3. getDefaultDfLogRoot(c.DfLog) \in Path
  BY <1>2, ResolvedIsPath, DirIsPath DEF getDefaultDfLogRoot
<1>4. c.DfLogRoot = ValueOr(e.DFLOG_ROOT, Unset, getDefaultDfLogRoot(c.DfLog))
  BY <1>1 DEF GetServerConfig
<1> QED BY <1>3, <1>4 DEF ValueOr

LEMMA FieldsHaveAPath ==
  ASSUME NEW s \in Setup, NEW e, given = s,
         e \in Fields
  PROVE  e.DFLOG \in Path /\ e.DFLOG_ROOT \in Path
<1> DEFINE w == newMainWindow(given)
<1>1. s.env.DFLOG \in Path /\ s.env.DFLOG_ROOT \in Path /\ [s EXCEPT !.env = s.env] = s
  BY DEF Setup, Environment
<1>2. GetServerConfig(s).DfLog \in Path /\ GetServerConfig(s).DfLogRoot \in Path
  <2>1. GetServerConfig([s EXCEPT !.env = s.env]).DfLog \in Path
    BY <1>1, DfLogIsPath
  <2>2. GetServerConfig([s EXCEPT !.env = s.env]).DfLogRoot \in Path
    BY <1>1, RootIsPath
  <2> QED BY <1>1, <2>1, <2>2
<1>3. w.DFLOG \in Path /\ w.DFLOG_ROOT \in Path
  BY <1>2 DEF newMainWindow
<1>4. CASE e = w
  BY <1>3, <1>4
<1>5. CASE \E path \in Edits : e = [w EXCEPT !.DFLOG = path]
  <2>1. PICK path \in Edits : e = [w EXCEPT !.DFLOG = path]
    BY <1>5
  <2>2. e.DFLOG = path /\ e.DFLOG_ROOT = w.DFLOG_ROOT
    BY <2>1 DEF newMainWindow
  <2> QED BY <1>3, <2>2, GuiServerAssumption
<1> QED BY <1>4, <1>5 DEF Fields

LEMMA FoundStep ==
  FoundInv /\ ConfigInv /\ [Next]_vars => FoundInv'
<1> SUFFICES ASSUME FoundInv, ConfigInv, [Next]_vars PROVE FoundInv'
  OBVIOUS
<1>1. CASE StartServer(GetServerConfig([given EXCEPT !.env = env'])) /\ env' \in Fields
  <2>1. /\ load = "off" /\ load' = "begin" /\ UNCHANGED <<entries, pos, found, known>>
        /\ cfg' = GetServerConfig([given EXCEPT !.env = env'])
    BY <1>1 DEF StartServer, Goto, diskVars
  <2>2. cfg'.DfLog \in Path /\ cfg'.DfLogRoot \in Path
    <3>1. given \in Setup
      BY GuiServerAssumption DEF ConfigInv
    <3>2. env'.DFLOG \in Path /\ env'.DFLOG_ROOT \in Path
      BY <1>1, <3>1, FieldsHaveAPath
    <3> QED BY <2>1, <3>1, <3>2, DfLogIsPath, RootIsPath
  <2>3. Keeps(found', Dir(cfg'.DfLog), entries', pos')
    BY <2>1, KeepsNothing DEF FoundInv
  <2> QED BY <2>1, <2>2, <2>3 DEF FoundInv, FoundTypes, LoadPCs
<1>2. CASE LoadNext
  BY <1>2, LoadStep
<1>3. CASE MediaNext \/ UNCHANGED filesVars
  <2>1. UNCHANGED <<loadVars, diskVars>>
    BY <1>3, MediaLeaves DEF filesVars
  <2> QED BY <2>1 DEF loadVars, diskVars, FoundInv, FoundTypes
<1>4. CASE DiskNext
  <2>1. CASE \E entry \in Entries : RipMeLogs(entry)
    BY <2>1, LogGrows
  <2>2. CASE \E p \in Places : Write(p) \/ Remove(p) \/ \E q \in Places : Move(p, q)
    <3>1. UNCHANGED <<loadVars, entries>>
      BY <2>2 DEF Write, Remove, Move, Changed
    <3> QED BY <3>1 DEF loadVars, FoundInv, FoundTypes
  <2> QED BY <1>4, <2>1, <2>2 DEF DiskNext
<1> QED BY <1>1, <1>2, <1>3, <1>4, FilesSteps

LEMMA FoundInvariant == Spec => []FoundInv
<1>1. Init => FoundInv
  BY KeepsNothing DEF Init, FilesInit, FoundInv, FoundTypes, LoadPCs, NoList
<1> QED BY <1>1, FoundStep, ConfigInvariant, PTL DEF Spec

LEMMA SameBeginnings ==
  ASSUME NEW S, NEW a \in Seq(S), NEW b \in Seq(S), NEW c \in Seq(S), a \o c = b \o c
  PROVE  a = b
<1>1. PICK m \in Nat, n \in Nat, l \in Nat : Len(a) = m /\ Len(b) = n /\ Len(c) = l
  OBVIOUS
<1>2. Len(a \o c) = m + l /\ Len(b \o c) = n + l
  BY <1>1
<1>3. m = n
  BY <1>2
<1>4. \A i \in 1..m : (a \o c)[i] = a[i] /\ (b \o c)[i] = b[i]
  BY <1>1, <1>3
<1>5. \A i \in 1..m : a[i] = b[i]
  BY <1>4
<1> QED BY <1>1, <1>3, <1>5, SeqEqual

\* Both the place an entry is looked for and the one it is meant to be at are its
\* names behind those of a directory; that of the former is the same for all.
LEMMA PlacesOfAnEntry ==
  ASSUME FoundInv, load = "serving", NEW entry \in Path
  PROVE  /\ LogPlace \in Path /\ LogPlace.abs = TRUE
         /\ LookedFor(Target(entry)) = Join(LogPlace, entry)
         /\ ~entry.abs => Meant(entry) = Join(Resolved(cfg.DfLogRoot), entry)
<1> DEFINE dir == Dir(cfg.DfLog)
           root == cfg.DfLogRoot
<1>1. dir \in Path /\ root \in Path
  BY DirIsPath DEF FoundInv, FoundTypes
<1> HIDE DEF dir, root
<1>2. LogPlace = Resolved(IF dir.abs THEN dir ELSE Join(root, dir))
  BY DEF LogPlace, LookedFor, dir, root
<1>3. LookedFor(Target(entry)) =
        Resolved(IF Join(dir, entry).abs THEN Join(dir, entry) ELSE Join(root, Join(dir, entry)))
  BY DEF LookedFor, Target, dir, root
<1>4. LogPlace \in Path /\ LogPlace.abs = TRUE
  <2>1. dir.abs \in BOOLEAN
    BY <1>1 DEF Path
  <2> QED BY <1>1, <1>2, <2>1, JoinIsPath, ResolvedIsPath
<1>5. LookedFor(Target(entry)) = Join(LogPlace, entry)
  <2>1. Join(dir, entry).abs = dir.abs /\ dir.abs \in BOOLEAN
    BY <1>1, JoinIsPath DEF Path
  <2>2. CASE dir.abs
    BY <1>1, <1>2, <1>3, <2>1, <2>2 DEF Resolved
  <2>3. CASE ~dir.abs
    <3>1. Join(root, Join(dir, entry)) = Join(Join(root, dir), entry)
      BY <1>1, JoinTwice
    <3>2. Resolved(Join(Join(root, dir), entry)) = Join(Resolved(Join(root, dir)), entry)
      BY <1>1, JoinIsPath, ResolvedJoin
    <3> QED BY <1>2, <1>3, <2>1, <2>3, <3>1, <3>2
  <2> QED BY <2>1, <2>2, <2>3
<1>6. ~entry.abs => Meant(entry) = Join(Resolved(root), entry)
  BY <1>1, ResolvedJoin DEF Meant, root
<1> QED BY <1>4, <1>5, <1>6 DEF root

\* An entry is looked for where it is meant exactly if its directory is right: that
\* of all entries for an absolute one, DFLOG_ROOT for a relative one.
LEMMA NamedExactlyIf ==
  ASSUME FoundInv, load = "serving", NEW entry \in Path
  PROVE  LookedFor(Target(entry)) = Meant(entry) <=>
           LogPlace = (IF entry.abs THEN Absolute(<<>>) ELSE Resolved(cfg.DfLogRoot))
<1> DEFINE base == IF entry.abs THEN Absolute(<<>>) ELSE Resolved(cfg.DfLogRoot)
<1>1. entry.abs \in BOOLEAN /\ entry.at \in Seq(STRING)
  BY DEF Path
<1>2. base \in Path /\ base.abs = TRUE
  <2>1. <<>> \in Seq(STRING)
    OBVIOUS
  <2>2. Absolute(<<>>) \in Path /\ Absolute(<<>>).abs = TRUE
    BY <2>1, MadePath DEF Path, Absolute
  <2>3. cfg.DfLogRoot \in Path
    BY DEF FoundInv, FoundTypes
  <2> QED BY <2>2, <2>3, ResolvedIsPath
<1>3. Meant(entry) = Join(base, entry)
  <2>1. CASE ~entry.abs
    BY <2>1, PlacesOfAnEntry
  <2>2. CASE entry.abs
    <3>1. Join(base, entry) \in Path /\ Join(base, entry).abs = TRUE
          /\ Join(base, entry).at = base.at \o entry.at
      BY <1>2, JoinIsPath
    <3>2. base.at = <<>>
      BY <2>2 DEF Absolute
    <3>3. Join(base, entry).at = entry.at
      <4>1. PICK e \in Seq(STRING) : entry.at = e
        BY <1>1
      <4>2. <<>> \o e = e
        BY ConcatEmptySeq
      <4> QED BY <3>1, <3>2, <4>1, <4>2
    <3>4. entry.abs = TRUE
      BY <1>1, <2>2
    <3>5. Join(base, entry) = entry
      BY <3>1, <3>3, <3>4, SamePath DEF Path
    <3> QED BY <2>2, <3>5 DEF Meant, Resolved
  <2> QED BY <1>1, <2>1, <2>2
<1> HIDE DEF base
<1>4. LogPlace \in Path /\ LogPlace.abs = TRUE /\ LookedFor(Target(entry)) = Join(LogPlace, entry)
  BY PlacesOfAnEntry
<1>5. ASSUME Join(LogPlace, entry) = Join(base, entry) PROVE LogPlace = base
  <2>1. LogPlace.at \o entry.at = base.at \o entry.at
    <3>1. Join(LogPlace, entry).at = LogPlace.at \o entry.at
      BY <1>4, JoinIsPath
    <3>2. Join(base, entry).at = base.at \o entry.at
      BY <1>2, JoinIsPath
    <3> QED BY <1>5, <3>1, <3>2
  <2>2. LogPlace.at \in Seq(STRING) /\ base.at \in Seq(STRING)
    BY <1>2, <1>4 DEF Path
  <2>3. LogPlace.at = base.at
    BY <1>1, <2>1, <2>2, SameBeginnings
  <2> QED BY <1>2, <1>4, <2>3, SamePath DEF Path
<1>6. LogPlace = base <=> LookedFor(Target(entry)) = Meant(entry)
  BY <1>3, <1>4, <1>5
<1> QED BY <1>6 DEF base

\* Whatever RipMe writes to its log, and whenever, a server that serves looks for
\* the known files where the lines it has read say (db.go:235-280).
THEOREM KnownFilesAreLoaded == Spec => []KnownFilesAreTheLogs
<1>1. FoundInv => KnownFilesAreTheLogs
  <2> SUFFICES ASSUME FoundInv, load = "serving", PlainLog, \A i \in 1..pos : ~entries[i].abs,
                      NEW name \in Names
               PROVE  {LookedFor(known[name][k]) : k \in 1..Len(known[name])} =
                        {Meant(entries[i]) : i \in Lines(name, entries, pos)}
    BY DEF KnownFilesAreTheLogs, Lines
  <2>1. /\ \A k \in 1..Len(known[name]) : \E i \in Lines(name, entries, pos) :
               known[name][k] = Join(Dir(cfg.DfLog), entries[i])
        /\ \A i \in Lines(name, entries, pos) : \E k \in 1..Len(known[name]) :
               known[name][k] = Join(Dir(cfg.DfLog), entries[i])
    BY DEF FoundInv, Keeps
  <2>2. \A i \in Lines(name, entries, pos) :
          LookedFor(Join(Dir(cfg.DfLog), entries[i])) = Meant(entries[i])
    <3> TAKE i \in Lines(name, entries, pos)
    <3>1. i \in 1..pos /\ i \in 1..Len(entries) /\ entries \in Seq(Entries)
      BY DEF Lines, FoundInv, FoundTypes
    <3>2. entries[i] \in Path /\ ~entries[i].abs
      BY <3>1, KnownFilesAssumption
    <3> QED BY <3>2, NamedExactlyIf DEF PlainLog, Target
  <2> QED BY <2>1, <2>2
<1> QED BY <1>1, FoundInvariant, PTL

\* What the finding known_files leaves of the promise, exactly: every line that was
\* read is known, and is looked for where it is meant if and only if the directory
\* all lines are looked for in is the one it is meant to be resolved from, the root
\* of the file system for an absolute line (db.go:258, handlers_media.go:49-79).
LinesAreNamedExactlyIf ==
  load = "serving" =>
    \A i \in 1..pos :
      LET entry == entries[i]
          name == Base(entry)
      IN  entry # Comment =>
            /\ \E k \in 1..Len(known[name]) : known[name][k] = Target(entry)
            /\ LookedFor(Target(entry)) = Meant(entry) <=>
                 LogPlace = IF entry.abs THEN Absolute(<<>>) ELSE Resolved(cfg.DfLogRoot)

\* It holds of a server that serves with any configuration and log, and however the
\* log grows meanwhile (db.go:235-280).
THEOREM LinesThatNameTheirFiles == Spec => []LinesAreNamedExactlyIf
<1>1. FoundInv => LinesAreNamedExactlyIf
  <2> DEFINE entry(i) == entries[i]
             name(i) == Base(entry(i))
  <2> SUFFICES ASSUME FoundInv, load = "serving", NEW i \in 1..pos, entry(i) # Comment
               PROVE  /\ \E k \in 1..Len(known[name(i)]) : known[name(i)][k] = Target(entry(i))
                      /\ LookedFor(Target(entry(i))) = Meant(entry(i)) <=>
                           LogPlace = IF entry(i).abs THEN Absolute(<<>>)
                                      ELSE Resolved(cfg.DfLogRoot)
    BY DEF LinesAreNamedExactlyIf
  <2>1. i \in 1..Len(entries) /\ entry(i) \in Entries
    <3>1. entries \in Seq(Entries) /\ pos \in 0..Len(entries)
      BY DEF FoundInv, FoundTypes
    <3> QED BY <3>1
  <2>2. entry(i) \in Path /\ name(i) \in Names
    BY <2>1, KnownFilesAssumption
  <2>3. i \in Lines(name(i), entries, pos)
    BY DEF Lines
  <2>4. \E k \in 1..Len(known[name(i)]) : known[name(i)][k] = Target(entry(i))
    BY <2>2, <2>3 DEF FoundInv, Keeps, Target
  <2>5. LookedFor(Target(entry(i))) = Meant(entry(i)) <=>
          LogPlace = IF entry(i).abs THEN Absolute(<<>>) ELSE Resolved(cfg.DfLogRoot)
    BY <2>2, NamedExactlyIf
  <2> QED BY <2>4, <2>5
<1> QED BY <1>1, FoundInvariant, PTL
-----------------------------------------------------------------------------
(***************************************************************************)
(* The places a request tries.                                             *)
(***************************************************************************)
Among(p, s) == \E i \in 1..Len(s) : s[i] = p
Elements(s) == {s[i] : i \in 1..Len(s)}

LEMMA OfItsElements ==
  ASSUME NEW S, NEW s \in Seq(S), NEW T
  PROVE  s \in Seq(Elements(s) \union T) /\ s \in Seq(T \union Elements(s))
BY DEF Elements

LEMMA RestOfTries ==
  ASSUME NEW S, NEW s \in Seq(S), s # <<>>
  PROVE  /\ SubSeq(s, 2, Len(s)) \in Seq(S)
         /\ \A p : Among(p, s) /\ p # Head(s) => Among(p, SubSeq(s, 2, Len(s)))
<1>1. PICK n \in Nat : Len(s) = n /\ n >= 1
  BY EmptySeq
<1> DEFINE r == SubSeq(s, 2, n)
<1>2. r \in Seq(S) /\ Len(r) = n - 1 /\ \A i \in 1..(n - 1) : r[i] = s[i + 1]
  BY <1>1, SubSeqProperties
<1> HIDE DEF r
<1>3. ASSUME NEW p, Among(p, s), p # Head(s)
      PROVE  Among(p, r)
  <2>1. PICK i \in 1..n : s[i] = p
    BY <1>1, <1>3 DEF Among
  <2>2. i # 1
    BY <1>1, <1>3, <2>1
  <2>3. i - 1 \in 1..(n - 1) /\ r[i - 1] = s[(i - 1) + 1] /\ (i - 1) + 1 = i
    BY <1>1, <1>2, <2>2
  <2> QED BY <1>2, <2>1, <2>3 DEF Among
<1> QED BY <1>1, <1>2, <1>3 DEF r

LEMMA AmongBoth ==
  ASSUME NEW S, NEW T, NEW s \in Seq(S), NEW t \in Seq(T)
  PROVE  /\ s \o t \in Seq(S \union T)
         /\ s # <<>> => s \o t # <<>> /\ Head(s \o t) = Head(s)
         /\ \A p : Among(p, s) \/ Among(p, t) => Among(p, s \o t)
<1>1. PICK m \in Nat, n \in Nat : Len(s) = m /\ Len(t) = n
  OBVIOUS
<1>2. s \in Seq(S \union T) /\ t \in Seq(S \union T)
  OBVIOUS
<1>3. /\ s \o t \in Seq(S \union T) /\ Len(s \o t) = m + n
      /\ \A i \in 1..m : (s \o t)[i] = s[i]
      /\ \A i \in 1..n : (s \o t)[i + m] = t[i]
  <2> DEFINE U == S \union T
  <2>1. s \in Seq(U) /\ t \in Seq(U)
    BY <1>2
  <2> HIDE DEF U
  <2>2. /\ s \o t \in Seq(U) /\ Len(s \o t) = m + n
        /\ \A i \in 1..(m + n) : (s \o t)[i] = IF i <= m THEN s[i] ELSE t[i - m]
    BY <1>1, <2>1
  <2>3. \A i \in 1..m : i \in 1..(m + n) /\ i <= m
    BY <1>1
  <2>4. \A i \in 1..n : i + m \in 1..(m + n) /\ ~(i + m <= m) /\ (i + m) - m = i
    BY <1>1
  <2> QED BY <2>2, <2>3, <2>4 DEF U
<1>4. ASSUME s # <<>> PROVE s \o t # <<>> /\ Head(s \o t) = Head(s)
  <2>1. m >= 1 /\ 1 \in 1..m
    BY <1>1, <1>4, EmptySeq
  <2>2. (s \o t)[1] = s[1] /\ m + n # 0
    BY <1>1, <1>3, <2>1
  <2> QED BY <1>3, <2>2
<1>5. ASSUME NEW p, Among(p, s) PROVE Among(p, s \o t)
  <2>1. PICK i \in 1..m : s[i] = p
    BY <1>1, <1>5 DEF Among
  <2>2. i \in 1..(m + n)
    BY <1>1
  <2> QED BY <1>3, <2>1, <2>2 DEF Among
<1>6. ASSUME NEW p, Among(p, t) PROVE Among(p, s \o t)
  <2>1. PICK i \in 1..n : t[i] = p
    BY <1>1, <1>6 DEF Among
  <2>2. i + m \in 1..(m + n)
    BY <1>1
  <2> QED BY <1>3, <2>1, <2>2 DEF Among
<1> QED BY <1>3, <1>4, <1>5, <1>6

LEMMA SpellingsAre ==
  ASSUME NEW f, NEW g, NEW n
  PROVE  LET one == InMediaRoot(f, n)
             other == InMediaRoot(g, sanitizedFilename(n))
         IN  /\ Spellings(f, g, n) \in Seq({one, other})
             /\ Spellings(f, g, n) # <<>> /\ Head(Spellings(f, g, n)) = one
             /\ Among(one, Spellings(f, g, n)) /\ Among(other, Spellings(f, g, n))
<1> DEFINE one == InMediaRoot(f, n)
           other == InMediaRoot(g, sanitizedFilename(n))
<1>1. CASE g # f \/ sanitizedFilename(n) # n
  <2>1. Spellings(f, g, n) = <<one, other>>
    BY <1>1 DEF Spellings
  <2> HIDE DEF one, other
  <2>2. <<one, other>> \in Seq({one, other}) /\ Len(<<one, other>>) = 2
        /\ <<one, other>>[1] = one /\ <<one, other>>[2] = other
    OBVIOUS
  <2>3. Among(one, <<one, other>>) /\ Among(other, <<one, other>>)
    BY <2>2 DEF Among
  <2>4. <<one, other>> # <<>> /\ Head(<<one, other>>) = one
    OBVIOUS
  <2> QED BY <2>1, <2>2, <2>3, <2>4 DEF one, other
<1>2. CASE g = f /\ sanitizedFilename(n) = n
  <2>1. Spellings(f, g, n) = <<one>> /\ other = one
    BY <1>2 DEF Spellings
  <2> HIDE DEF one, other
  <2>2. <<one>> \in Seq({one, other}) /\ Len(<<one>>) = 1 /\ <<one>>[1] = one
    OBVIOUS
  <2>3. Among(one, <<one>>)
    BY <2>2 DEF Among
  <2>4. <<one>> # <<>> /\ Head(<<one>>) = one
    OBVIOUS
  <2> QED BY <2>1, <2>2, <2>3, <2>4 DEF one, other
<1> QED BY <1>1, <1>2

UrlTypes == url \in Urls /\ oldest \in Gids \union {NoGid}

LEMMA UrlFacts ==
  ASSUME UrlTypes
  PROVE  /\ url.name \in Names /\ url.parts \in 1..3
         /\ url.gid \in Gids => url.parts = 3
         /\ url.parts = 3 => url.gid \in Gids
         /\ url.gid \notin Gids => url.gid = NoGid
         /\ NoGid \notin Gids
BY KnownFilesAssumption DEF UrlTypes

LEMMA KnownPlacesAre ==
  ASSUME FoundInv, NEW name \in Names
  PROVE  /\ KnownPlaces(name) \in Seq(Elements(KnownPlaces(name)))
         /\ \A k \in 1..Len(known[name]) :
              Among(cleanJoin(cfg.DfLogRoot, known[name][k]), KnownPlaces(name))
<1>1. PICK n \in Nat : Len(known[name]) = n
  BY DEF FoundInv, FoundTypes
<1>2. KnownPlaces(name) = [i \in 1..n |-> cleanJoin(cfg.DfLogRoot, known[name][i])]
  BY <1>1 DEF KnownPlaces
<1>3. /\ Len(KnownPlaces(name)) = n /\ KnownPlaces(name) \in Seq(Elements(KnownPlaces(name)))
      /\ \A k \in 1..n : KnownPlaces(name)[k] = cleanJoin(cfg.DfLogRoot, known[name][k])
  <2> DEFINE F(i) == cleanJoin(cfg.DfLogRoot, known[name][i])
             s == [i \in 1..n |-> F(i)]
  <2> HIDE DEF F
  <2>1. Len(s) = n /\ s \in Seq(Elements(s)) /\ \A k \in 1..n : s[k] = F(k)
    BY DEF Elements
  <2> QED BY <1>2, <2>1 DEF F
<1> QED BY <1>1, <1>3 DEF Among
Own == InMediaRoot(FolderOf(url), url.name)
Tried == Elements(tryFiles(url)) \union Elements(tryFilesOfOldest(url))

LEMMA FirstTries ==
  ASSUME FoundInv, UrlTypes
  PROVE  /\ tryFiles(url) \in Seq(Tried)
         /\ url.parts # 1 =>
              /\ tryFiles(url) # <<>> /\ Head(tryFiles(url)) = Own
              /\ Among(Own, tryFiles(url))
              /\ Among(InMediaRoot(SafeFolderOf(url), sanitizedFilename(url.name)), tryFiles(url))
         /\ \A k \in 1..Len(known[url.name]) :
              Among(cleanJoin(cfg.DfLogRoot, known[url.name][k]), tryFiles(url))
<1> DEFINE lies == KnownPlaces(url.name)
           K == Elements(lies)
           one == InMediaRoot(FolderOf(url), url.name)
           other == InMediaRoot(SafeFolderOf(url), sanitizedFilename(url.name))
           two == {one, other}
           spelt == Spellings(FolderOf(url), SafeFolderOf(url), url.name)
<1>1. lies \in Seq(K) /\ \A k \in 1..Len(known[url.name]) :
        Among(cleanJoin(cfg.DfLogRoot, known[url.name][k]), lies)
  BY UrlFacts, KnownPlacesAre
<1>2. /\ spelt \in Seq(two) /\ spelt # <<>> /\ Head(spelt) = one
      /\ Among(one, spelt) /\ Among(other, spelt)
  BY SpellingsAre
<1>3. tryFiles(url) = (IF url.parts = 1 THEN <<>> ELSE spelt) \o lies
  BY DEF tryFiles
<1> HIDE DEF lies, K, spelt, one, other, two
<1>4. \E S : tryFiles(url) \in Seq(S)
  <2>1. CASE url.parts = 1
    <3>1. <<>> \in Seq(K)
      OBVIOUS
    <3> QED BY <1>1, <1>3, <2>1, <3>1, AmongBoth
  <2>2. CASE url.parts # 1
    <3>1. tryFiles(url) = spelt \o lies
      BY <1>3, <2>2
    <3>2. spelt \o lies \in Seq(two \union K)
      BY <1>1, <1>2, AmongBoth
    <3> QED BY <3>1, <3>2
  <2> QED BY <2>1, <2>2
<1>5. tryFiles(url) \in Seq(Tried)
  BY <1>4, OfItsElements DEF Tried
<1>6. CASE url.parts = 1
  <2>1. <<>> \in Seq(K)
    OBVIOUS
  <2>2. tryFiles(url) = <<>> \o lies
    BY <1>3, <1>6
  <2>3. \A p : Among(p, lies) => Among(p, tryFiles(url))
    BY <1>1, <2>1, <2>2, AmongBoth
  <2> QED BY <1>1, <1>5, <1>6, <2>3
<1>7. CASE url.parts # 1
  <2>1. tryFiles(url) = spelt \o lies
    BY <1>3, <1>7
  <2>2. /\ tryFiles(url) # <<>> /\ Head(tryFiles(url)) = one
        /\ \A p : Among(p, spelt) \/ Among(p, lies) => Among(p, tryFiles(url))
    <3>1. spelt # <<>> => spelt \o lies # <<>> /\ Head(spelt \o lies) = Head(spelt)
      BY <1>1, <1>2, AmongBoth
    <3>2. \A p : Among(p, spelt) \/ Among(p, lies) => Among(p, spelt \o lies)
      BY <1>1, <1>2, AmongBoth, Zenon
    <3> QED BY <1>2, <2>1, <3>1, <3>2
  <2> QED BY <1>1, <1>2, <1>5, <2>2 DEF Own, one, other
<1> QED BY <1>6, <1>7

LEMMA OldestTries ==
  ASSUME UrlTypes
  PROVE  /\ tryFilesOfOldest(url) \in Seq(Tried)
         /\ url.parts # 1 /\ oldest # NoGid /\ oldest # url.gid =>
              /\ Among(InMediaRoot(Folder(oldest), url.name), tryFilesOfOldest(url))
              /\ Among(InMediaRoot(Folder(filesystemSafe(oldest)), sanitizedFilename(url.name)),
                       tryFilesOfOldest(url))
<1>1. CASE url.parts = 1 \/ oldest \in {NoGid, url.gid}
  <2>1. tryFilesOfOldest(url) = <<>>
    BY <1>1 DEF tryFilesOfOldest
  <2> QED BY <1>1, <2>1
<1>2. CASE ~(url.parts = 1 \/ oldest \in {NoGid, url.gid})
  <2>1. tryFilesOfOldest(url) =
          Spellings(Folder(oldest), Folder(filesystemSafe(oldest)), url.name)
    BY <1>2 DEF tryFilesOfOldest
  <2>2. \E S : tryFilesOfOldest(url) \in Seq(S)
    BY <2>1, SpellingsAre
  <2>3. tryFilesOfOldest(url) \in Seq(Tried)
    BY <2>2, OfItsElements DEF Tried
  <2> QED BY <2>1, <2>3, SpellingsAre
<1> QED BY <1>1, <1>2

\* Every place where RipMe may have put the picture is among those tried.
LEMMA RipMePlacesAreTried ==
  ASSUME FoundInv, UrlTypes, url.parts # 1, NEW old \in {NoGid, oldest},
         NEW p \in RipMePlaces(old)
  PROVE  Among(p, tryFiles(url)) \/ (old # NoGid /\ Among(p, tryFilesOfOldest(url)))
<1> DEFINE san == sanitizedFilename(url.name)
<1>1. \/ p = InMediaRoot(FolderOf(url), url.name)
      \/ p = InMediaRoot(SafeFolderOf(url), san)
      \/ old # NoGid /\ p = InMediaRoot(Folder(old), url.name)
      \/ old # NoGid /\ p = InMediaRoot(Folder(filesystemSafe(old)), san)
  BY DEF RipMePlaces
<1>2. CASE p = InMediaRoot(FolderOf(url), url.name) \/ p = InMediaRoot(SafeFolderOf(url), san)
  BY <1>2, FirstTries DEF Own
<1>3. CASE old # NoGid /\ old # url.gid /\ (\/ p = InMediaRoot(Folder(old), url.name)
                                          \/ p = InMediaRoot(Folder(filesystemSafe(old)), san))
  BY <1>3, OldestTries
<1>4. CASE old # NoGid /\ old = url.gid
  <2>1. url.parts = 3
    BY <1>4, UrlFacts DEF UrlTypes
  <2>2. FolderOf(url) = Folder(old) /\ SafeFolderOf(url) = Folder(filesystemSafe(old))
    BY <1>4, <2>1 DEF FolderOf, SafeFolderOf
  <2> QED BY <1>1, <1>2, <2>2
<1> QED BY <1>1, <1>2, <1>3, <1>4

\* So is every known file that lies under the media root.
LEMMA KnownAreTried ==
  ASSUME FoundInv, UrlTypes, NEW k \in 1..Len(known[url.name]),
         UnderMediaRoot(LookedFor(known[url.name][k]))
  PROVE  Among(LookedFor(known[url.name][k]), tryFiles(url))
<1>1. cleanJoin(cfg.DfLogRoot, known[url.name][k]) = LookedFor(known[url.name][k])
  BY DEF cleanJoin, LookedFor, UnderMediaRoot
<1> QED BY <1>1, FirstTries
-----------------------------------------------------------------------------
(***************************************************************************)
(* Requests, and the files they find.                                      *)
(***************************************************************************)
Olds == Gids \union {NoGid}
Searches == [at : {"first", "oldest"}, tries : Seq(Tried), stayed : SUBSET Places, oldest : Olds]
Sents == [at : {"sent"}, place : Places, opened : Times, stayed : SUBSET Places,
          notModified : BOOLEAN]
Misses == [at : {"404"}, stayed : SUBSET Places, oldest : Olds]

\* A place the request has tried is one of those where no file stayed; while the
\* own place is still to be tried it is the next.
FirstOk(r) ==
  /\ r \in Searches /\ r.at = "first" /\ r.oldest = NoGid
  /\ \A p \in r.stayed : Among(p, tryFiles(url)) => Among(p, r.tries)
  /\ url.parts # 1 /\ Own \in r.stayed => r.tries # <<>> /\ Head(r.tries) = Own

OldestOk(r) ==
  /\ r \in Searches /\ r.at = "oldest" /\ r.oldest \in {NoGid, oldest}
  /\ \A p \in r.stayed :
       /\ ~Among(p, tryFiles(url))
       /\ r.oldest # NoGid /\ Among(p, tryFilesOfOldest(url)) => Among(p, r.tries)

MissedOk(r) ==
  /\ r \in Misses /\ r.oldest \in {NoGid, oldest}
  /\ \A p \in r.stayed :
       /\ ~Among(p, tryFiles(url))
       /\ ~(r.oldest # NoGid /\ Among(p, tryFilesOfOldest(url)))

SentOk(r) ==
  /\ r \in Sents
  /\ url.parts # 1 /\ Own \in r.stayed => r.place = Own

RequestOk(r) ==
  /\ \A p \in r.stayed : disk[p] > 0
  /\ FirstOk(r) \/ OldestOk(r) \/ MissedOk(r) \/ SentOk(r)

\* The headers of the copy never get later than those its body came with.
TimesOk ==
  /\ disk \in [Places -> Times] /\ time \in Times /\ header \in Times
  /\ copy \in [modified : Times, found : Times, content : Times]
  /\ Second(copy.modified) <= Second(copy.found)
  /\ req.at = "sent" /\ req.notModified => Second(header) <= Second(copy.modified)

OpenOk == opening \in BOOLEAN /\ (opening => Trying)

RequestInv ==
  /\ UrlTypes /\ TimesOk /\ OpenOk
  /\ req = NoRequest \/ (load = "serving" /\ RequestOk(req))

LEMMA SearchRecord ==
  ASSUME NEW A, NEW T, NEW S, NEW O, NEW r \in [at : A, tries : T, stayed : S, oldest : O],
         NEW a \in A, NEW t \in T, NEW u \in S, NEW o \in O
  PROVE  /\ [r EXCEPT !.tries = t] \in [at : A, tries : T, stayed : S, oldest : O]
         /\ [r EXCEPT !.tries = t].at = r.at /\ [r EXCEPT !.tries = t].tries = t
         /\ [r EXCEPT !.tries = t].stayed = r.stayed /\ [r EXCEPT !.tries = t].oldest = r.oldest
         /\ [r EXCEPT !.stayed = u] \in [at : A, tries : T, stayed : S, oldest : O]
         /\ [r EXCEPT !.stayed = u].at = r.at /\ [r EXCEPT !.stayed = u].tries = r.tries
         /\ [r EXCEPT !.stayed = u].stayed = u /\ [r EXCEPT !.stayed = u].oldest = r.oldest
         /\ [r EXCEPT !.at = a] \in [at : A, tries : T, stayed : S, oldest : O]
         /\ [r EXCEPT !.at = a].at = a /\ [r EXCEPT !.at = a].tries = r.tries
         /\ [r EXCEPT !.at = a].stayed = r.stayed /\ [r EXCEPT !.at = a].oldest = r.oldest
  OBVIOUS

LEMMA OldestRecord ==
  ASSUME NEW A, NEW T, NEW S, NEW O, NEW r \in [at : A, tries : T, stayed : S, oldest : O],
         NEW a \in A, NEW t \in T, NEW o \in O
  PROVE  LET q == [r EXCEPT !.at = a, !.tries = t, !.oldest = o]
         IN  /\ q \in [at : A, tries : T, stayed : S, oldest : O]
             /\ q.at = a /\ q.tries = t /\ q.stayed = r.stayed /\ q.oldest = o
  OBVIOUS

LEMMA MissRecord ==
  ASSUME NEW A, NEW S, NEW O, NEW r \in [at : A, stayed : S, oldest : O], NEW u \in S
  PROVE  LET q == [r EXCEPT !.stayed = u]
         IN  q \in [at : A, stayed : S, oldest : O] /\ q.stayed = u /\ q.oldest = r.oldest
  OBVIOUS

LEMMA SentRecord ==
  ASSUME NEW A, NEW P, NEW T, NEW S, NEW B, NEW u \in S,
         NEW r \in [at : A, place : P, opened : T, stayed : S, notModified : B]
  PROVE  LET q == [r EXCEPT !.stayed = u]
         IN  /\ q \in [at : A, place : P, opened : T, stayed : S, notModified : B]
             /\ q.stayed = u /\ q.place = r.place /\ q.opened = r.opened
             /\ q.notModified = r.notModified
  OBVIOUS

LEMMA AtOf ==
  /\ NoRequest.at = "none"
  /\ \A r \in Searches : r.at \in {"first", "oldest"}
  /\ \A r \in Sents : r.at = "sent"
  /\ \A r \in Misses : r.at = "404"
BY DEF NoRequest, Searches, Sents, Misses

LEMMA SamePlaces ==
  ASSUME UNCHANGED <<cfg, known, url, oldest>>
  PROVE  /\ UNCHANGED <<tryFiles(url), tryFilesOfOldest(url), Own, Tried>>
         /\ Searches' = Searches
<1>1. \A f, n : InMediaRoot(f, n)' = InMediaRoot(f, n)
  BY DEF InMediaRoot, cleanJoin, Under, Resolved, Join
<1>2. Own' = Own
  BY <1>1 DEF Own, FolderOf
<1>3. \A f, g, n : Spellings(f, g, n)' = Spellings(f, g, n)
  BY <1>1 DEF Spellings
<1>4. KnownPlaces(url.name)' = KnownPlaces(url.name)
  BY DEF KnownPlaces, cleanJoin, Under, Resolved, Join
<1>5. tryFiles(url)' = tryFiles(url)
  BY <1>3, <1>4 DEF tryFiles, FolderOf, SafeFolderOf
<1>6. tryFilesOfOldest(url)' = tryFilesOfOldest(url)
  BY <1>3 DEF tryFilesOfOldest
<1>7. Tried' = Tried
  BY <1>5, <1>6 DEF Tried, Elements
<1> QED BY <1>2, <1>5, <1>6, <1>7 DEF Searches
\* A step of the request itself, which leaves everything else alone.
LEMMA Proceeds ==
  ASSUME RequestInv, NEW r, Proceed(r), load = "serving", RequestOk(r), TimesOk', OpenOk'
  PROVE  RequestInv'
<1>1. req' = r /\ UNCHANGED <<load, cfg, known, url, oldest, disk, time, copy>>
  BY DEF Proceed, loadVars, diskVars
<1>2. /\ UNCHANGED <<tryFiles(url), tryFilesOfOldest(url), Own>> /\ Searches' = Searches
  BY <1>1, SamePlaces
<1>3. RequestOk(r)'
  BY <1>1, <1>2
  DEF RequestOk, FirstOk, OldestOk, MissedOk, SentOk, Sents, Misses, Olds
<1>4. UrlTypes'
  BY <1>1 DEF RequestInv, UrlTypes
<1> QED BY <1>1, <1>3, <1>4 DEF RequestInv, RequestOk, FirstOk, OldestOk, MissedOk, SentOk

\* A step after which the request still looks for its file, or gives up.
LEMMA LooksOn ==
  ASSUME RequestInv, NEW r, Proceed(r), r.at # "sent", header' \in Times, opening' = FALSE
  PROVE  TimesOk' /\ OpenOk'
<1>1. req' = r /\ UNCHANGED <<disk, time, copy>>
  BY DEF Proceed, diskVars
<1> QED BY <1>1 DEF RequestInv, TimesOk, OpenOk

LEMMA HandleStep == FoundInv /\ RequestInv /\ handleMedia => RequestInv'
<1> SUFFICES ASSUME FoundInv, RequestInv, handleMedia PROVE RequestInv'
  OBVIOUS
<1> DEFINE r == [at |-> "first", tries |-> tryFiles(url), stayed |-> Staying, oldest |-> NoGid]
<1>1. load = "serving" /\ Proceed(r)
  BY DEF handleMedia
<1>2. tryFiles(url) \in Seq(Tried) /\ Staying \in SUBSET Places /\ NoGid \in Olds
  BY FirstTries DEF RequestInv, Staying, Olds
<1>3. r \in Searches /\ r.at = "first" /\ r.tries = tryFiles(url) /\ r.stayed = Staying
      /\ r.oldest = NoGid
  BY <1>2 DEF Searches
<1> HIDE DEF r
<1>4. FirstOk(r)
  BY <1>3, FirstTries DEF FirstOk, RequestInv
<1>5. RequestOk(r)
  BY <1>3, <1>4 DEF RequestOk, Staying
<1>6. header' \in Times /\ opening' = FALSE
  <2>1. ~Trying
    BY AtOf DEF handleMedia, Trying
  <2> QED BY <2>1 DEF handleMedia, RequestInv, TimesOk, OpenOk
<1>7. TimesOk' /\ OpenOk'
  BY <1>1, <1>3, <1>6, LooksOn
<1> QED BY <1>1, <1>5, <1>7, Proceeds

\* A place that is tried in vain is none where a file stayed.
LEMMA Trials ==
  ASSUME RequestInv, Trying
  PROVE  /\ load = "serving" /\ req \in Searches /\ req.tries \in Seq(Tried) /\ req.tries # <<>>
         /\ FirstOk(req) \/ OldestOk(req)
         /\ req.stayed \subseteq Places /\ \A p \in req.stayed : Exists(p)
<1>1. req.at \in {"first", "oldest"} /\ req.tries # <<>>
  BY DEF Trying
<1>2. load = "serving" /\ (FirstOk(req) \/ OldestOk(req)) /\ \A p \in req.stayed : disk[p] > 0
  BY <1>1, AtOf DEF RequestInv, RequestOk, MissedOk, SentOk
<1>3. req \in Searches
  BY <1>2 DEF FirstOk, OldestOk
<1>4. req.tries \in Seq(Tried) /\ req.stayed \subseteq Places
  BY <1>3 DEF Searches
<1> QED BY <1>1, <1>2, <1>3, <1>4 DEF Exists

\* The two ways not to send a file: it is not there, or not any more.
LEMMA NextFileStep == RequestInv /\ (StatFails \/ OpenFails) => RequestInv'
<1> SUFFICES ASSUME RequestInv, StatFails \/ OpenFails PROVE RequestInv'
  OBVIOUS
<1> DEFINE rest == SubSeq(req.tries, 2, Len(req.tries))
           r == [req EXCEPT !.tries = rest]
<1>1. /\ Trying /\ ~Exists(Head(req.tries)) /\ Proceed(r)
      /\ header' \in Times /\ opening' = FALSE
  BY DEF StatFails, OpenFails, SkipFile, Next1, RequestInv, TimesOk, OpenOk
<1>2. rest \in Seq(Tried)
      /\ \A p : Among(p, req.tries) /\ p # Head(req.tries) => Among(p, rest)
  BY <1>1, Trials, RestOfTries
<1>3. Head(req.tries) \notin req.stayed
  BY <1>1, Trials
<1>4. r \in Searches /\ r.at = req.at /\ r.tries = rest /\ r.stayed = req.stayed
      /\ r.oldest = req.oldest
  <2> HIDE DEF rest
  <2> QED BY <1>1, <1>2, Trials, SearchRecord DEF Searches
<1> HIDE DEF r, rest
<1>5. FirstOk(req) => FirstOk(r)
  BY <1>2, <1>3, <1>4 DEF FirstOk
<1>6. OldestOk(req) => OldestOk(r)
  BY <1>2, <1>3, <1>4 DEF OldestOk
<1>7. RequestOk(r)
  BY <1>1, <1>4, <1>5, <1>6, Trials DEF RequestOk, Exists
<1>8. r.at # "sent"
  BY <1>1, <1>4 DEF Trying
<1>9. TimesOk' /\ OpenOk'
  BY <1>1, <1>8, LooksOn
<1> QED BY <1>1, <1>7, <1>9, Trials, Proceeds

\* The file that is there is found, and its place kept for os.Open.
LEMMA StatStep == RequestInv /\ Stat => RequestInv'
<1> SUFFICES ASSUME RequestInv, Stat PROVE RequestInv'
  OBVIOUS
<1>1. /\ Trying /\ Exists(Next1) /\ Proceed(req)
      /\ header' = disk[Next1] /\ opening' = TRUE
  BY DEF Stat
<1>2. header' \in Times
  BY <1>1 DEF Exists, RequestInv, TimesOk
<1>3. req' = req /\ UNCHANGED <<disk, time, copy>>
  BY <1>1 DEF Proceed, diskVars
<1>4. TimesOk' /\ OpenOk'
  BY <1>1, <1>2, <1>3 DEF RequestInv, TimesOk, OpenOk, Trying
<1>5. load = "serving" /\ RequestOk(req)
  BY <1>1, AtOf DEF RequestInv, Trying
<1> QED BY <1>1, <1>4, <1>5, Proceeds

\* The two ways to send it, with or without its body.
LEMMA SendStep == FoundInv /\ RequestInv /\ (StatNotModified \/ Open) => RequestInv'
<1> SUFFICES ASSUME FoundInv, RequestInv, StatNotModified \/ Open PROVE RequestInv'
  OBVIOUS
<1> DEFINE p == Next1
           Sent(opened, told) == [at |-> "sent", place |-> p, opened |-> opened,
                                  stayed |-> req.stayed, notModified |-> told]
<1>1. /\ Trying /\ Exists(p) /\ opening' = FALSE
      /\ p \in Places /\ disk[p] \in Times /\ 0 \in Times /\ req.stayed \in SUBSET Places
  <2>1. Trying /\ Exists(p) /\ opening' = FALSE
    BY DEF StatNotModified, Open, RequestInv, OpenOk
  <2> QED BY <2>1, Trials, KnownFilesAssumption DEF Exists, RequestInv, TimesOk, Times
<1>2. PICK opened \in Times, told \in BOOLEAN :
        /\ Proceed(Sent(opened, told))
        /\ told => header' = disk[p] /\ Second(disk[p]) <= Second(copy.modified)
        /\ ~told => header' = header
  <2>1. CASE StatNotModified
    <3>1. Proceed(Sent(0, TRUE)) /\ header' = disk[p] /\ Second(disk[p]) <= Second(copy.modified)
      BY <2>1 DEF StatNotModified, NotModified
    <3> QED BY <1>1, <3>1
  <2>2. CASE Open
    <3>1. Proceed(Sent(disk[p], FALSE)) /\ header' = header
      BY <2>2 DEF Open
    <3> QED BY <1>1, <3>1
  <2> QED BY <2>1, <2>2
<1> DEFINE r == Sent(opened, told)
<1> HIDE DEF p
<1>3. r \in Sents /\ r.at = "sent" /\ r.place = p /\ r.stayed = req.stayed
      /\ r.notModified = told
  BY <1>1 DEF Sents
<1> HIDE DEF r, Sent
<1>4. TimesOk' /\ OpenOk'
  <2>1. req' = r /\ UNCHANGED <<disk, time, copy>>
    BY <1>2 DEF Proceed, diskVars, r
  <2>2. header' \in Times
    BY <1>1, <1>2 DEF RequestInv, TimesOk
  <2> QED BY <1>1, <1>2, <1>3, <2>1, <2>2 DEF RequestInv, TimesOk, OpenOk
<1>5. ASSUME url.parts # 1, Own \in req.stayed PROVE p = Own
  <2>1. CASE FirstOk(req)
    BY <1>5, <2>1 DEF FirstOk, p, Next1
  <2>2. CASE OldestOk(req)
    <3>1. Among(Own, tryFiles(url))
      BY <1>5, FirstTries DEF RequestInv
    <3> QED BY <1>5, <2>2, <3>1 DEF OldestOk
  <2> QED BY <1>1, <2>1, <2>2, Trials
<1>6. SentOk(r)
  BY <1>3, <1>5 DEF SentOk
<1>7. RequestOk(r)
  BY <1>1, <1>3, <1>6, Trials DEF RequestOk, Exists
<1> QED BY <1>1, <1>2, <1>4, <1>7, Trials, Proceeds DEF r

\* A request whose places are all tried in vain.
LEMMA TriedInVain ==
  ASSUME RequestInv, req.at \in {"first", "oldest"}, req.tries = <<>>
  PROVE  /\ load = "serving" /\ req \in Searches
         /\ req.at = "first" => FirstOk(req)
         /\ req.at = "oldest" => OldestOk(req)
         /\ \A p \in req.stayed : disk[p] > 0 /\ ~Among(p, tryFiles(url))
<1>1. load = "serving" /\ (FirstOk(req) \/ OldestOk(req)) /\ \A p \in req.stayed : disk[p] > 0
  BY AtOf DEF RequestInv, RequestOk, MissedOk, SentOk
<1>2. \A p : ~Among(p, req.tries)
  BY DEF Among
<1> QED BY <1>1, <1>2 DEF FirstOk, OldestOk

LEMMA OldestStep == RequestInv /\ (QueryOldest \/ QueryOldestFails) => RequestInv'
<1> SUFFICES ASSUME RequestInv, QueryOldest \/ QueryOldestFails PROVE RequestInv'
  OBVIOUS
<1>1. req.at = "first" /\ req.tries = <<>> /\ header' \in Times /\ opening' = FALSE
  BY DEF QueryOldest, QueryOldestFails, RequestInv, TimesOk, OpenOk, Trying
<1>2. /\ load = "serving" /\ req \in Searches /\ FirstOk(req)
      /\ \A p \in req.stayed : disk[p] > 0 /\ ~Among(p, tryFiles(url))
  BY <1>1, TriedInVain
<1> DEFINE at == "oldest"
           places == tryFilesOfOldest(url)
           old == IF url.parts = 1 THEN NoGid ELSE oldest
           q == [req EXCEPT !.at = at, !.tries = places, !.oldest = old]
           f == [req EXCEPT !.at = at]
<1>3. at \in {"first", "oldest"} /\ places \in Seq(Tried) /\ old \in Olds
      /\ old \in {NoGid, oldest}
  BY OldestTries DEF RequestInv, UrlTypes, Olds
<1>4. CASE QueryOldest
  <2>1. Proceed(q)
    BY <1>4 DEF QueryOldest
  <2>2. q \in Searches /\ q.at = at /\ q.tries = places /\ q.stayed = req.stayed
        /\ q.oldest = old
    <3> HIDE DEF at, places, old
    <3> QED BY <1>2, <1>3, OldestRecord DEF Searches
  <2> HIDE DEF q, places, old
  <2>3. OldestOk(q)
    BY <1>2, <1>3, <2>2 DEF OldestOk, places
  <2>4. RequestOk(q)
    BY <1>2, <2>2, <2>3 DEF RequestOk
  <2>5. TimesOk' /\ OpenOk'
    BY <1>1, <2>1, <2>2, LooksOn
  <2> QED BY <1>2, <2>1, <2>4, <2>5, Proceeds
<1>5. CASE QueryOldestFails
  <2>1. Proceed(f)
    BY <1>5 DEF QueryOldestFails
  <2>2. f \in Searches /\ f.at = at /\ f.tries = <<>> /\ f.stayed = req.stayed
        /\ f.oldest = NoGid
    <3>1. req.oldest = NoGid
      BY <1>2 DEF FirstOk
    <3> HIDE DEF at
    <3> QED BY <1>1, <1>2, <1>3, <3>1, SearchRecord DEF Searches
  <2> HIDE DEF f
  <2>3. OldestOk(f)
    BY <1>2, <2>2 DEF OldestOk
  <2>4. RequestOk(f)
    BY <1>2, <2>2, <2>3 DEF RequestOk
  <2>5. TimesOk' /\ OpenOk'
    BY <1>1, <2>1, <2>2, LooksOn
  <2> QED BY <1>2, <2>1, <2>4, <2>5, Proceeds
<1> QED BY <1>4, <1>5

LEMMA NotFoundStep == RequestInv /\ NotFound => RequestInv'
<1> SUFFICES ASSUME RequestInv, NotFound PROVE RequestInv'
  OBVIOUS
<1> DEFINE r == [at |-> "404", stayed |-> req.stayed, oldest |-> req.oldest]
<1>1. /\ req.at = "oldest" /\ req.tries = <<>> /\ Proceed(r)
      /\ header' \in Times /\ opening' = FALSE
  BY DEF NotFound, RequestInv, TimesOk, OpenOk, Trying
<1>2. /\ load = "serving" /\ req \in Searches /\ OldestOk(req)
      /\ \A p \in req.stayed : disk[p] > 0
  BY <1>1, TriedInVain
<1>3. r \in Misses /\ r.at = "404" /\ r.stayed = req.stayed /\ r.oldest = req.oldest
  BY <1>2 DEF Misses, Searches
<1> HIDE DEF r
<1>4. \A p : ~Among(p, req.tries)
  BY <1>1 DEF Among
<1>5. MissedOk(r)
  BY <1>2, <1>3, <1>4 DEF MissedOk, OldestOk
<1>6. RequestOk(r)
  BY <1>2, <1>3, <1>5 DEF RequestOk
<1>7. TimesOk' /\ OpenOk'
  BY <1>1, <1>3, LooksOn
<1> QED BY <1>1, <1>2, <1>6, <1>7, Proceeds

LEMMA AnsweredStep == RequestInv /\ Answered => RequestInv'
<1> SUFFICES ASSUME RequestInv, Answered PROVE RequestInv'
  OBVIOUS
<1>1. /\ req' = NoRequest /\ header' = 0 /\ copy' \in Stored
      /\ UNCHANGED <<url, oldest, disk, time, opening>>
  BY DEF Answered, diskVars
<1>2. /\ copy \in [modified : Times, found : Times, content : Times]
      /\ header \in Times /\ 0 \in Times
      /\ Second(copy.modified) <= Second(copy.found)
      /\ req.at = "sent" /\ req.notModified => Second(header) <= Second(copy.modified)
      /\ \A t \in Times : Second(t) \in Nat
  BY KnownFilesAssumption DEF RequestInv, TimesOk, Times
<1> DEFINE CopyOk(c) == /\ c \in [modified : Times, found : Times, content : Times]
                        /\ Second(c.modified) <= Second(c.found)
<1>3. ASSUME NEW m \in Times, NEW o \in Times
      PROVE  CopyOk([modified |-> m, found |-> m, content |-> o])
  <2>1. Second(m) <= Second(m)
    BY <1>2
  <2> QED BY <2>1
<1>4. ASSUME req.at = "404" PROVE CopyOk(copy')
  <2>1. CopyOk(NoCopy) /\ CopyOk([modified |-> header, found |-> header, content |-> 0])
    BY <1>2, <1>3 DEF NoCopy
  <2> QED BY <1>1, <1>4, <2>1 DEF Stored
<1>5. ASSUME req.at = "sent" PROVE CopyOk(copy')
  <2>1. req.opened \in Times
    BY <1>5, AtOf DEF RequestInv, RequestOk, FirstOk, OldestOk, MissedOk, SentOk, Sents
  <2>2. CASE req.notModified
    <3>1. copy' = [copy EXCEPT !.modified = header]
      BY <1>1, <1>5, <2>2 DEF Stored
    <3>2. /\ copy' \in [modified : Times, found : Times, content : Times]
          /\ copy'.modified = header /\ copy'.found = copy.found
      BY <1>2, <3>1
    <3>3. Second(header) <= Second(copy.modified)
      BY <1>2, <1>5, <2>2
    <3>4. Second(header) <= Second(copy.found)
      <4>1. /\ copy.modified \in Times /\ copy.found \in Times
        BY <1>2
      <4> QED BY <1>2, <3>3, <4>1
    <3> QED BY <3>2, <3>4
  <2>3. CASE ~req.notModified
    <3>1. copy' = [modified |-> header, found |-> header, content |-> req.opened]
      BY <1>1, <1>5, <2>3 DEF Stored
    <3> QED BY <1>2, <1>3, <2>1, <3>1
  <2> QED BY <2>2, <2>3
<1>6. CopyOk(copy')
  BY <1>4, <1>5 DEF Answered
<1>7. TimesOk'
  BY <1>1, <1>2, <1>6, AtOf DEF RequestInv, TimesOk
<1>8. OpenOk'
  <2>1. ~Trying
    BY DEF Answered, Trying
  <2> QED BY <1>1, <2>1 DEF RequestInv, OpenOk
<1> QED BY <1>1, <1>7, <1>8 DEF RequestInv, UrlTypes
\* Files are moved and written while a request is worked on: fewer have stayed.
LEMMA FewerStay ==
  ASSUME RequestInv, NEW places, Changed(places),
         disk' \in [Places -> Times], time' \in Times,
         \A p \in Places : disk[p] > 0 /\ p \notin places => disk'[p] > 0
  PROVE  RequestInv'
<1>1. UNCHANGED <<load, cfg, known, url, oldest, header, opening, copy>>
  BY DEF Changed, loadVars
<1>2. /\ UNCHANGED <<tryFiles(url), tryFilesOfOldest(url), Own>> /\ Searches' = Searches
  BY <1>1, SamePlaces
<1>3. UrlTypes'
  BY <1>1 DEF RequestInv, UrlTypes
<1>4. ASSUME req'.at = req.at,
             req.at \in {"first", "oldest"} => req'.tries = req.tries,
             req.at = "sent" => req'.notModified = req.notModified
      PROVE  TimesOk' /\ OpenOk'
  BY <1>1, <1>4 DEF RequestInv, TimesOk, OpenOk, Trying
<1>5. CASE req = NoRequest
  <2>1. req' = req
    BY <1>5 DEF Changed
  <2> QED BY <1>1, <1>3, <1>5, <1>4, <2>1 DEF RequestInv
<1>6. CASE req # NoRequest
  <2> DEFINE left == req.stayed \ places
             r == [req EXCEPT !.stayed = left]
  <2>1. req' = r
    BY <1>6 DEF Changed
  <2>2. load = "serving" /\ RequestOk(req)
    BY <1>6 DEF RequestInv
  <2>3. req.stayed \subseteq Places
    BY <2>2 DEF RequestOk, FirstOk, OldestOk, MissedOk, SentOk, Searches, Sents, Misses
  <2>4. left \in SUBSET Places /\ left \subseteq req.stayed /\ \A p \in left : disk'[p] > 0
    BY <2>2, <2>3 DEF RequestOk
  <2> HIDE DEF left
  <2>5. CASE FirstOk(req) \/ OldestOk(req)
    <3>1. req \in Searches
      BY <2>5 DEF FirstOk, OldestOk
    <3>2. r \in Searches /\ r.at = req.at /\ r.tries = req.tries /\ r.stayed = left
          /\ r.oldest = req.oldest
      BY <2>4, <3>1, SearchRecord DEF Searches
    <3> HIDE DEF r
    <3>3. FirstOk(req) => FirstOk(req)'
      BY <1>1, <1>2, <2>1, <2>4, <3>2 DEF FirstOk
    <3>4. OldestOk(req) => OldestOk(req)'
      BY <1>1, <1>2, <2>1, <2>4, <3>2 DEF OldestOk
    <3>5. TimesOk' /\ OpenOk'
      BY <1>4, <2>1, <3>1, <3>2, AtOf
    <3> QED BY <1>1, <1>3, <2>1, <2>2, <2>4, <2>5, <3>2, <3>3, <3>4, <3>5
            DEF RequestInv, RequestOk
  <2>6. CASE MissedOk(req)
    <3>1. r \in Misses /\ r.stayed = left /\ r.oldest = req.oldest
      BY <2>4, <2>6, MissRecord DEF MissedOk, Misses
    <3> HIDE DEF r
    <3>2. MissedOk(req)'
      BY <1>1, <1>2, <2>1, <2>4, <2>6, <3>1 DEF MissedOk, Misses, Olds
    <3>3. req.at = "404" /\ r.at = "404"
      BY <2>6, <3>1, AtOf DEF MissedOk
    <3>4. TimesOk' /\ OpenOk'
      BY <1>4, <2>1, <3>3
    <3> QED BY <1>1, <1>3, <2>1, <2>2, <2>4, <3>1, <3>2, <3>4 DEF RequestInv, RequestOk
  <2>7. CASE SentOk(req)
    <3>1. r \in Sents /\ r.stayed = left /\ r.place = req.place
          /\ r.notModified = req.notModified
      BY <2>4, <2>7, SentRecord DEF SentOk, Sents
    <3> HIDE DEF r
    <3>2. SentOk(req)'
      BY <1>1, <1>2, <2>1, <2>4, <2>7, <3>1 DEF SentOk, Sents
    <3>3. req.at = "sent" /\ r.at = "sent"
      BY <2>7, <3>1, AtOf DEF SentOk
    <3>4. TimesOk' /\ OpenOk'
      BY <1>4, <2>1, <3>1, <3>3
    <3> QED BY <1>1, <1>3, <2>1, <2>2, <2>4, <3>1, <3>2, <3>4 DEF RequestInv, RequestOk
  <2> QED BY <2>2, <2>5, <2>6, <2>7 DEF RequestOk
<1> QED BY <1>5, <1>6

LEMMA DiskStep == RequestInv /\ DiskNext => RequestInv'
<1> SUFFICES ASSUME RequestInv, DiskNext PROVE RequestInv'
  OBVIOUS
<1>1. disk \in [Places -> Times] /\ time \in Times /\ 0 \in Times /\ Times \subseteq Nat
  BY KnownFilesAssumption DEF RequestInv, TimesOk, Times
<1>2. ASSUME NEW entry \in Entries, RipMeLogs(entry) PROVE RequestInv'
  <2>1. UNCHANGED <<load, cfg, known, disk, time, url, oldest, req, header, opening, copy>>
    BY <1>2 DEF RipMeLogs, loadVars, mediaVars
  <2>2. /\ UNCHANGED <<tryFiles(url), tryFilesOfOldest(url), Own>> /\ Searches' = Searches
    BY <2>1, SamePlaces
  <2>3. RequestOk(req) => RequestOk(req)'
    BY <2>1, <2>2 DEF RequestOk, FirstOk, OldestOk, MissedOk, SentOk, Sents, Misses, Olds
  <2> QED BY <2>1, <2>3 DEF RequestInv, UrlTypes, TimesOk, OpenOk, Trying
<1>3. ASSUME NEW p \in Places, Write(p) PROVE RequestInv'
  <2>1. disk' = [disk EXCEPT ![p] = time + 1] /\ time' = time + 1 /\ Changed({})
    BY <1>3 DEF Write
  <2>2. time + 1 \in Times /\ time + 1 > 0
    BY <1>1, <1>3, KnownFilesAssumption DEF Write, Times
  <2>3. disk' \in [Places -> Times] /\ time' \in Times
        /\ \A q \in Places : disk[q] > 0 /\ q \notin {} => disk'[q] > 0
    BY <1>1, <2>1, <2>2
  <2> QED BY <2>1, <2>3, FewerStay
<1>4. ASSUME NEW p \in Places, Remove(p) PROVE RequestInv'
  <2>1. disk' = [disk EXCEPT ![p] = 0] /\ time' = time /\ Changed({p})
    BY <1>4 DEF Remove
  <2>2. disk' \in [Places -> Times] /\ time' \in Times
        /\ \A q \in Places : disk[q] > 0 /\ q \notin {p} => disk'[q] > 0
    BY <1>1, <2>1
  <2> QED BY <2>1, <2>2, FewerStay
<1>5. ASSUME NEW p \in Places, NEW q \in Places, Move(p, q) PROVE RequestInv'
  <2>1. /\ disk' = [disk EXCEPT ![q] = disk[p], ![p] = 0] /\ time' = time /\ Changed({p})
        /\ disk[p] > 0 /\ q # p
    BY <1>5 DEF Move
  <2>2. disk' \in [Places -> Times] /\ time' \in Times
        /\ \A o \in Places : disk[o] > 0 /\ o \notin {p} => disk'[o] > 0
    BY <1>1, <2>1
  <2> QED BY <2>1, <2>2, FewerStay
<1> QED BY <1>2, <1>3, <1>4, <1>5 DEF DiskNext

LEMMA RequestStep == FoundInv /\ RequestInv /\ [Next]_vars => RequestInv'
<1> SUFFICES ASSUME FoundInv, RequestInv, [Next]_vars PROVE RequestInv'
  OBVIOUS
<1>1. CASE StartServer(GetServerConfig([given EXCEPT !.env = env'])) \/ LoadNext
  <2>1. load # "serving" /\ UNCHANGED <<diskVars, mediaVars>>
    BY <1>1
    DEF StartServer, Goto, LoadNext, BeginLoad, OpenLog, OpenLogFails, ScanLine, ScanEnds,
        ScanBreaks, Publish, Listen, Announce, ListenFails, Complain, Continue
  <2> QED BY <2>1 DEF diskVars, mediaVars, RequestInv, UrlTypes, TimesOk, OpenOk, Trying
<1>2. CASE MediaNext
  BY <1>2, HandleStep, NextFileStep, StatStep, SendStep, OldestStep, NotFoundStep, AnsweredStep
  DEF MediaNext, sendFile
<1>3. CASE DiskNext
  BY <1>3, DiskStep
<1>4. CASE UNCHANGED filesVars
  <2>1. UNCHANGED <<load, cfg, known, disk, time, url, oldest, req, header, opening, copy>>
    BY <1>4 DEF filesVars, loadVars, diskVars, mediaVars
  <2>2. /\ UNCHANGED <<tryFiles(url), tryFilesOfOldest(url), Own>> /\ Searches' = Searches
    BY <2>1, SamePlaces
  <2>3. RequestOk(req) => RequestOk(req)'
    BY <2>1, <2>2 DEF RequestOk, FirstOk, OldestOk, MissedOk, SentOk, Sents, Misses, Olds
  <2> QED BY <2>1, <2>3 DEF RequestInv, UrlTypes, TimesOk, OpenOk, Trying
<1> QED BY <1>1, <1>2, <1>3, <1>4, FilesSteps

LEMMA RequestInvariant == Spec => []RequestInv
<1>1. Init => RequestInv
  <2> SUFFICES ASSUME Init PROVE RequestInv
    OBVIOUS
  <2>1. /\ UrlTypes /\ req = NoRequest /\ time = 1 /\ header = 0 /\ opening = FALSE
        /\ copy = NoCopy
    BY DEF Init, FilesInit, UrlTypes
  <2>2. {0, 1} \subseteq Times /\ Second(0) \in Nat
    BY KnownFilesAssumption DEF Times
  <2>3. disk \in [Places -> Times]
    BY <2>2 DEF Init, FilesInit
  <2>4. copy \in [modified : Times, found : Times, content : Times]
        /\ Second(copy.modified) <= Second(copy.found)
    BY <2>1, <2>2 DEF NoCopy
  <2>5. TimesOk /\ OpenOk
    BY <2>1, <2>2, <2>3, <2>4, AtOf DEF TimesOk, OpenOk
  <2> QED BY <2>1, <2>5 DEF RequestInv
<1> QED BY <1>1, RequestStep, FoundInvariant, PTL DEF Spec

\* However files are moved while the places are tried one after the other, a file
\* that stays where RipMe or its log has it is found (handlers_media.go:14-137).
THEOREM StayingFilesAreServed == Spec => []StayingFilesAreFound
<1>1. FoundInv /\ RequestInv => StayingFilesAreFound
  <2> SUFFICES ASSUME FoundInv, RequestInv, req.at = "404"
               PROVE  /\ url.parts # 1 => req.stayed \intersect RipMePlaces(req.oldest) = {}
                      /\ \A k \in 1..Len(known[url.name]) :
                           UnderMediaRoot(LookedFor(known[url.name][k])) =>
                             LookedFor(known[url.name][k]) \notin req.stayed
    BY DEF StayingFilesAreFound
  <2>1. UrlTypes /\ MissedOk(req)
    BY AtOf DEF RequestInv, RequestOk, FirstOk, OldestOk, SentOk
  <2>2. ASSUME url.parts # 1, NEW p \in req.stayed, p \in RipMePlaces(req.oldest) PROVE FALSE
    <3>1. req.oldest \in {NoGid, oldest}
      BY <2>1 DEF MissedOk
    <3>2. Among(p, tryFiles(url)) \/ (req.oldest # NoGid /\ Among(p, tryFilesOfOldest(url)))
      BY <2>1, <2>2, <3>1, RipMePlacesAreTried
    <3> QED BY <2>1, <2>2, <3>2 DEF MissedOk
  <2>3. ASSUME NEW k \in 1..Len(known[url.name]),
               UnderMediaRoot(LookedFor(known[url.name][k]))
        PROVE  LookedFor(known[url.name][k]) \notin req.stayed
    BY <2>1, <2>3, KnownAreTried DEF MissedOk
  <2> QED BY <2>2, <2>3
<1> QED BY <1>1, FoundInvariant, RequestInvariant, PTL

\* A file of another gallery, or from the log, is sent only if the own one was
\* not there all the time (handlers_media.go:22-94).
THEOREM OwnFileIsPreferred == Spec => []OwnFileComesFirst
<1>1. RequestInv => OwnFileComesFirst
  BY AtOf
  DEF RequestInv, RequestOk, FirstOk, OldestOk, MissedOk, SentOk, OwnFileComesFirst, Own
<1> QED BY <1>1, RequestInvariant, PTL

\* A 304 never hides a file of a later second than what the browser's copy was
\* made of, unless that was an earlier file than the one its headers are of
\* (server.go:629-660).
THEOREM CopiesAreCurrent == Spec => []NotModifiedIsNoNewer
<1>1. RequestInv => NotModifiedIsNoNewer
  <2> SUFFICES ASSUME RequestInv, req.at = "sent", req.notModified, copy.found <= copy.content
               PROVE  Second(header) <= Second(copy.content)
    BY DEF NotModifiedIsNoNewer
  <2>1. /\ header \in Times
        /\ copy.modified \in Times /\ copy.found \in Times /\ copy.content \in Times
        /\ Second(header) <= Second(copy.modified)
        /\ Second(copy.modified) <= Second(copy.found)
    BY DEF RequestInv, TimesOk
  <2>2. Second(copy.found) <= Second(copy.content)
    BY <2>1, KnownFilesAssumption
  <2>3. /\ Second(header) \in Nat /\ Second(copy.modified) \in Nat
        /\ Second(copy.found) \in Nat /\ Second(copy.content) \in Nat
    BY <2>1, KnownFilesAssumption
  <2> QED BY <2>1, <2>2, <2>3
<1> QED BY <1>1, RequestInvariant, PTL
-----------------------------------------------------------------------------
(***************************************************************************)
(* Types.                                                                  *)
(***************************************************************************)
GuiInv ==
  /\ given \in Setups
  /\ env \in {given.env} \union Fields
  /\ gui \in {"event", "frame"}
  /\ repaint \in BOOLEAN
  /\ watch \in {"none", "waiting", "told"}

LEMMA GuiStep == GuiInv /\ [Next]_vars => GuiInv'
<1> SUFFICES ASSUME GuiInv, [Next]_vars PROVE GuiInv'
  OBVIOUS
<1>1. given' = given => Fields' = Fields
  BY DEF Fields, newMainWindow, GetServerConfig, Dirs, RipsDir, shouldRunReadOnly
<1>2. CASE GuiNext
  BY <1>1, <1>2 DEF GuiInv, GuiNext, StartClick, Frame, UpdateLogView, TouchLogView, guiVars
<1>3. CASE WatcherInvalidates
  BY <1>1, <1>3 DEF GuiInv, WatcherInvalidates
<1>4. CASE \/ LoaderStep \/ OtherLine \/ Quietly(MediaNext) \/ Quietly(DiskNext)
           \/ UNCHANGED vars
  <2>1. UNCHANGED guiVars
    BY <1>4 DEF LoaderStep, Logging, Quietly, OtherLine, vars
  <2> QED BY <1>1, <2>1 DEF GuiInv, guiVars
<1> QED BY <1>2, <1>3, <1>4 DEF Next

LEMMA GuiInvariant == Spec => []GuiInv
<1>1. Init => GuiInv
  BY DEF Init, GuiInv
<1> QED BY <1>1, GuiStep, PTL DEF Spec

LEMMA LogInvTypes == LogInv => LogTypeOK
<1> SUFFICES ASSUME LogInv PROVE LogTypeOK
  OBVIOUS
<1>1. caret \in 0..seen.len
  BY DEF LogInv, LogTypes, Lies, Slice
<1> QED BY <1>1 DEF LogInv, LogTypes, Lies, LogTypeOK

LEMMA FilesInvTypes == FoundInv /\ RequestInv => FilesTypeOK
<1> SUFFICES ASSUME FoundInv, RequestInv PROVE FilesTypeOK
  OBVIOUS
<1>1. /\ load \in LoadPCs /\ entries \in Seq(Entries) /\ pos \in 0..Len(entries)
      /\ {found, known} \subseteq [Names -> Seq(Path)]
  BY DEF FoundInv, FoundTypes
<1>2. req = NoRequest \/ req \in Searches \/ req \in Misses \/ req \in Sents
  BY DEF RequestInv, RequestOk, FirstOk, OldestOk, MissedOk, SentOk
<1>3. req.at \in {"none", "first", "oldest", "sent", "404"}
  BY <1>2, AtOf
<1>4. req # NoRequest => req.stayed \subseteq Places
  BY <1>2 DEF Searches, Misses, Sents
<1>5. url \in Urls /\ oldest \in Gids \union {NoGid} /\ disk \in [Places -> Times]
      /\ time \in Times /\ header \in Times /\ opening \in BOOLEAN
      /\ copy \in [modified : Times, found : Times, content : Times]
  BY DEF RequestInv, UrlTypes, TimesOk, OpenOk
<1> QED BY <1>1, <1>3, <1>4, <1>5 DEF FilesTypeOK

\* Every variable has its type: the slices lie in arrays, the log of RipMe is read
\* in order, and a request has places to try.
THEOREM TypeCorrect == Spec => []TypeOK
<1>1. LogInv /\ FoundInv /\ RequestInv /\ GuiInv => TypeOK
  BY LogInvTypes, FilesInvTypes DEF GuiInv, TypeOK
<1> QED BY <1>1, LogInvariant, FoundInvariant, RequestInvariant, GuiInvariant, PTL

-----------------------------------------------------------------------------
(***************************************************************************)
(* Connection strings.                                                     *)
(***************************************************************************)
\* The loop of DsnWithReadWrite: what is kept of the first i parameters.
KeepsStep(f, query, params, n) ==
  f = [i \in 0..n |->
        IF i = 0 THEN <<>>
        ELSE IF query[i] \in params THEN f[i - 1]
        ELSE Append(f[i - 1], query[i])]

LEMMA KeptExists ==
  ASSUME NEW S, NEW query \in Seq(S), NEW params, NEW n \in Nat
  PROVE  \E f : KeepsStep(f, query, params, n)
<1> DEFINE Bad == {m \in Nat : ~\E f : KeepsStep(f, query, params, m)}
<1> SUFFICES ASSUME Bad # {} PROVE FALSE
  OBVIOUS
<1>1. PICK m \in Bad : \A k \in Bad : m <= k
  <2>1. Bad \subseteq Nat
    OBVIOUS
  <2> QED BY <2>1, LeastNatural
<1>2. m \in Nat
  OBVIOUS
<1>3. CASE m = 0
  <2> DEFINE g == [i \in 0..0 |-> <<>>]
  <2>1. KeepsStep(g, query, params, 0)
    BY DEF KeepsStep
  <2> QED BY <1>3, <2>1
<1>4. CASE m > 0
  <2>1. PICK f : KeepsStep(f, query, params, m - 1)
    <3>1. m - 1 \in Nat /\ m - 1 < m
      BY <1>2, <1>4
    <3>2. m - 1 \notin Bad
      BY <1>1, <3>1
    <3> QED BY <3>1, <3>2
  <2> DEFINE ending == IF query[m] \in params THEN f[m - 1] ELSE Append(f[m - 1], query[m])
             g == [i \in 0..m |-> IF i = m THEN ending ELSE f[i]]
  <2>2. ASSUME NEW i \in 0..m, i # 0
        PROVE  g[i] = IF query[i] \in params THEN g[i - 1] ELSE Append(g[i - 1], query[i])
    <3>1. g[i - 1] = f[i - 1] /\ i - 1 \in 0..(m - 1)
      BY <1>2, <2>2
    <3>2. CASE i = m
      BY <1>2, <2>2, <3>1, <3>2
    <3>3. CASE i # m
      <4>1. i \in 0..(m - 1)
        BY <1>2, <2>2, <3>3
      <4>2. f[i] = IF query[i] \in params THEN f[i - 1] ELSE Append(f[i - 1], query[i])
        BY <2>1, <2>2, <4>1 DEF KeepsStep
      <4>3. g[i] = f[i]
        BY <3>3
      <4> QED BY <3>1, <4>2, <4>3
    <3> QED BY <3>2, <3>3
  <2>3. g[0] = <<>>
    BY <1>2, <1>4, <2>1 DEF KeepsStep
  <2> HIDE DEF ending
  <2>4. KeepsStep(g, query, params, m)
    <3>1. g = [i \in 0..m |-> g[i]]
      OBVIOUS
    <3> HIDE DEF g
    <3> DEFINE h == [i \in 0..m |->
                      IF i = 0 THEN <<>>
                      ELSE IF query[i] \in params THEN g[i - 1]
                      ELSE Append(g[i - 1], query[i])]
    <3>2. \A i \in 0..m : g[i] = h[i]
      BY <2>2, <2>3
    <3>3. h = [i \in 0..m |-> h[i]]
      OBVIOUS
    <3> HIDE DEF h
    <3>4. g = h
      BY <3>1, <3>2, <3>3
    <3> QED BY <3>4 DEF KeepsStep, h
  <2> QED BY <1>2, <2>4
<1> QED BY <1>2, <1>3, <1>4

LEMMA WithoutKeeps ==
  ASSUME NEW S, NEW query \in Seq(S), NEW params
  PROVE  \E f : /\ KeepsStep(f, query, params, Len(query))
                /\ Without(query, params) = f[Len(query)]
<1> DEFINE f == CHOOSE g : KeepsStep(g, query, params, Len(query))
<1>1. KeepsStep(f, query, params, Len(query))
  BY KeptExists, LenProperties
<1>2. Without(query, params) = f[Len(query)]
  BY DEF Without, KeepsStep
<1> QED BY <1>1, <1>2

\* What is left has none of the parameters, and no others than before.
LEMMA WithoutLeaves ==
  ASSUME NEW S, NEW query \in Seq(S), NEW params
  PROVE  /\ Without(query, params) \in Seq(S)
         /\ \A i \in DOMAIN Without(query, params) :
              /\ Without(query, params)[i] \notin params
              /\ \E j \in DOMAIN query : query[j] = Without(query, params)[i]
<1>1. PICK f : /\ KeepsStep(f, query, params, Len(query))
               /\ Without(query, params) = f[Len(query)]
  BY WithoutKeeps
<1> DEFINE Good(s) == /\ s \in Seq(S)
                      /\ \A i \in DOMAIN s :
                           s[i] \notin params /\ \E j \in DOMAIN query : query[j] = s[i]
           Bad == {m \in 0..Len(query) : ~Good(f[m])}
<1>2. Len(query) \in Nat
  OBVIOUS
<1>3. Bad = {}
  <2> SUFFICES ASSUME Bad # {} PROVE FALSE
    OBVIOUS
  <2>1. PICK m \in Bad : \A k \in Bad : m <= k
    <3>1. Bad \subseteq Nat
      BY <1>2
    <3> QED BY <3>1, LeastNatural
  <2>2. m \in 0..Len(query) /\ ~Good(f[m])
    OBVIOUS
  <2>3. m # 0
    <3>1. m = 0 => f[m] = <<>>
      BY <1>1, <1>2 DEF KeepsStep
    <3>2. Good(<<>>)
      OBVIOUS
    <3> QED BY <2>2, <3>1, <3>2
  <2>4. m - 1 \in 0..Len(query) /\ Good(f[m - 1])
    BY <1>2, <2>1, <2>2, <2>3
  <2>5. f[m] = IF query[m] \in params THEN f[m - 1] ELSE Append(f[m - 1], query[m])
    BY <1>1, <2>2, <2>3 DEF KeepsStep
  <2>6. query[m] \notin params /\ f[m] = Append(f[m - 1], query[m])
    BY <2>2, <2>4, <2>5
  <2>7. m \in DOMAIN query /\ query[m] \in S
    BY <1>2, <2>2, <2>3
  <2>8. ASSUME NEW s \in Seq(S), NEW x \in S, Good(s), x \notin params,
               \E j \in DOMAIN query : query[j] = x
        PROVE  Good(Append(s, x))
    <3>1. /\ Append(s, x) \in Seq(S) /\ DOMAIN Append(s, x) = 1..(Len(s) + 1)
          /\ Append(s, x)[Len(s) + 1] = x
          /\ \A i \in 1..Len(s) : Append(s, x)[i] = s[i]
      BY <2>8
    <3>2. DOMAIN s = 1..Len(s) /\ Len(s) \in Nat
      BY <2>8
    <3>3. \A i \in DOMAIN Append(s, x) : i \in DOMAIN s \/ i = Len(s) + 1
      BY <3>1, <3>2
    <3> QED BY <2>8, <3>1, <3>2, <3>3
  <2> QED BY <2>2, <2>4, <2>6, <2>7, <2>8
<1>4. Good(f[Len(query)])
  BY <1>2, <1>3
<1> QED BY <1>1, <1>4

\* A parameter of Append(query, param) is one of query's, or param.
LEMMA HasAppended ==
  ASSUME NEW S, NEW query \in Seq(S), NEW param, NEW params
  PROVE  Has(Append(query, param), params) <=> Has(query, params) \/ param \in params
<1>1. /\ DOMAIN Append(query, param) = 1..(Len(query) + 1)
      /\ Append(query, param)[Len(query) + 1] = param
      /\ \A i \in 1..Len(query) : Append(query, param)[i] = query[i]
  <2>1. query \in Seq(S \union {param}) /\ param \in S \union {param}
    OBVIOUS
  <2> QED BY <2>1
<1>2. DOMAIN query = 1..Len(query) /\ Len(query) \in Nat
  OBVIOUS
<1>3. DOMAIN Append(query, param) = DOMAIN query \union {Len(query) + 1}
  BY <1>1, <1>2
<1> QED BY <1>1, <1>2, <1>3 DEF Has

\* With puts the parameter in, takes none away and adds no other.
LEMMA HasWith ==
  ASSUME NEW S, NEW query \in Seq(S), NEW param
  PROVE  /\ With(query, param) \in Seq(S \union {param})
         /\ \A params : Has(With(query, param), params)
                          <=> Has(query, params) \/ param \in params
<1>1. With(query, param) \in Seq(S \union {param})
  BY DEF With
<1>2. ASSUME NEW params
      PROVE  Has(With(query, param), params) <=> Has(query, params) \/ param \in params
  <2>1. CASE Has(query, {param})
    BY <2>1 DEF With, Has
  <2>2. CASE ~Has(query, {param})
    BY <2>2, HasAppended DEF With
  <2> QED BY <2>1, <2>2
<1> QED BY <1>1, <1>2

\* What has no parameter against it can write.
LEMMA NothingForbidsWriting ==
  ASSUME NEW query, ~Has(query, {"mode=ro", "_query_only=1", "_query_only=true"})
  PROVE  CanWrite(query)
BY DEF CanWrite, Has

\* The timeout and the foreign keys have no say in what a handle may write.
LEMMA HasSettings ==
  ASSUME NEW S, NEW query \in Seq(S), NEW params,
         params \subseteq {"mode=ro", "_query_only=1", "_query_only=true"}
  PROVE  LET settled == DsnWithForeignKeys(DsnWithDefaultTimeout(query))
         IN  /\ settled \in Seq(S \union {"_busy_timeout=10000", "_foreign_keys=ON"})
             /\ Has(settled, params) <=> Has(query, params)
<1> DEFINE T == S \union {"_busy_timeout=10000"}
           timed == DsnWithDefaultTimeout(query)
<1>1. timed \in Seq(T)
  BY DEF DsnWithDefaultTimeout
<1>2. Has(timed, params) <=> Has(query, params)
  <2>1. "_busy_timeout=10000" \notin params
    OBVIOUS
  <2> QED BY <2>1, HasAppended DEF DsnWithDefaultTimeout
<1>3. "_foreign_keys=ON" \notin params
  OBVIOUS
<1> HIDE DEF timed, T
<1>4. /\ DsnWithForeignKeys(timed) \in Seq(T \union {"_foreign_keys=ON"})
      /\ Has(DsnWithForeignKeys(timed), params) <=> Has(timed, params)
  BY <1>1, <1>3, HasWith DEF DsnWithForeignKeys
<1>5. T \union {"_foreign_keys=ON"} = S \union {"_busy_timeout=10000", "_foreign_keys=ON"}
  BY DEF T
<1> QED BY <1>2, <1>4, <1>5 DEF timed

\* Of the connection string of c, whatever it says.
LEMMA HandlesOfConfig ==
  ASSUME NEW c, c.Dsn.query \in Seq(STRING)
  PROVE  /\ ~CanWrite(DbQuery(c))
         /\ ~Has(c.Dsn.query, {"_query_only=true"}) =>
              CanWrite(DbRwQuery(c)) /\ CanWrite(OptimizeQuery(c))
<1> DEFINE q == c.Dsn.query
           only == DsnWithReadOnly(q)
           S == STRING \union {"mode=ro", "_query_only=1"}
           Asks == {"mode=ro", "_query_only=1"}
<1>1. /\ only \in Seq(S)
      /\ Has(only, {"mode=ro"})
      /\ Has(only, {"_query_only=true"}) <=> Has(q, {"_query_only=true"})
  <2> DEFINE once == With(q, "mode=ro")
  <2>1. /\ once \in Seq(STRING \union {"mode=ro"})
        /\ Has(once, {"mode=ro"})
        /\ Has(once, {"_query_only=true"}) <=> Has(q, {"_query_only=true"})
    BY HasWith
  <2> HIDE DEF once
  <2>2. /\ With(once, "_query_only=1") \in Seq((STRING \union {"mode=ro"}) \union {"_query_only=1"})
        /\ Has(With(once, "_query_only=1"), {"mode=ro"})
        /\ Has(With(once, "_query_only=1"), {"_query_only=true"}) <=> Has(q, {"_query_only=true"})
    <3>1. /\ With(once, "_query_only=1") \in Seq((STRING \union {"mode=ro"}) \union {"_query_only=1"})
          /\ \A params : Has(With(once, "_query_only=1"), params)
                           <=> Has(once, params) \/ "_query_only=1" \in params
      BY <2>1, HasWith
    <3>2. "_query_only=1" \notin {"_query_only=true"}
      OBVIOUS
    <3> QED BY <2>1, <3>1, <3>2
  <2>3. (STRING \union {"mode=ro"}) \union {"_query_only=1"} = S
    OBVIOUS
  <2> QED BY <2>2, <2>3 DEF once, DsnWithReadOnly
<1> HIDE DEF only, S
<1> DEFINE db == DsnWithForeignKeys(DsnWithDefaultTimeout(only))
           U == S \union {"_busy_timeout=10000", "_foreign_keys=ON"}
<1>2. /\ db \in Seq(U)
      /\ Has(db, {"mode=ro"})
      /\ Has(db, {"_query_only=true"}) <=> Has(q, {"_query_only=true"})
  BY <1>1, HasSettings
<1>3. DbQuery(c) = db
  BY DEF DbQuery, only
<1> HIDE DEF db, U
<1>4. ~CanWrite(DbQuery(c))
  BY <1>2, <1>3 DEF CanWrite
<1>5. ASSUME NEW T, NEW query \in Seq(T), ~Has(query, {"_query_only=true"})
      PROVE  /\ Without(query, Asks) \in Seq(T)
             /\ ~Has(Without(query, Asks), {"mode=ro", "_query_only=1", "_query_only=true"})
  <2>1. Without(query, Asks) \in Seq(T)
    BY <1>5, WithoutLeaves
  <2>2. ASSUME NEW i \in DOMAIN Without(query, Asks)
        PROVE  Without(query, Asks)[i] \notin {"mode=ro", "_query_only=1", "_query_only=true"}
    <3>1. /\ Without(query, Asks)[i] \notin Asks
          /\ \E j \in DOMAIN query : query[j] = Without(query, Asks)[i]
      BY <1>5, WithoutLeaves
    <3> QED BY <1>5, <3>1 DEF Has
  <2> QED BY <2>1, <2>2 DEF Has
<1>6. ASSUME ~Has(q, {"_query_only=true"})
      PROVE  CanWrite(DbRwQuery(c)) /\ CanWrite(OptimizeQuery(c))
  <2>1. CanWrite(DbRwQuery(c))
    <3>1. DbRwQuery(c) = Without(db, Asks)
      BY <1>3 DEF DbRwQuery, DsnWithReadWrite
    <3>2. ~Has(db, {"_query_only=true"})
      BY <1>2, <1>6
    <3> QED BY <1>2, <1>5, <3>1, <3>2, NothingForbidsWriting
  <2>2. CanWrite(OptimizeQuery(c))
    <3> DEFINE free == Without(q, Asks)
    <3>1. /\ free \in Seq(STRING)
          /\ ~Has(free, {"mode=ro", "_query_only=1", "_query_only=true"})
      BY <1>5, <1>6
    <3>2. OptimizeQuery(c) = DsnWithForeignKeys(DsnWithDefaultTimeout(free))
      BY DEF OptimizeQuery, DsnWithReadWrite
    <3> HIDE DEF free
    <3>3. ~Has(OptimizeQuery(c), {"mode=ro", "_query_only=1", "_query_only=true"})
      BY <3>1, <3>2, HasSettings
    <3> QED BY <3>3, NothingForbidsWriting
  <2> QED BY <2>1, <2>2
<1> QED BY <1>4, <1>6

\* A setup has a connection string, and so has what the window makes of it.
LEMMA DsnIsConnection ==
  ASSUME GuiInv, ConfigInv, load # "off"
  PROVE  cfg.Dsn.query \in Seq(STRING)
<1> DEFINE t == [given EXCEPT !.env = env]
<1>1. given \in Setup /\ given.env \in Environment
  BY GuiServerAssumption DEF GuiInv, Setup
<1>2. given.env.SQLITE_DSN \in Connection
  BY <1>1 DEF Environment
<1>3. GetServerConfig(given).Dsn.query \in Seq(STRING)
  BY <1>2, EmptySeq DEF GetServerConfig, ValueOr, Connection
<1>4. env.SQLITE_DSN.query \in Seq(STRING)
  <2>1. CASE env = given.env
    BY <1>2, <2>1 DEF Connection
  <2>2. CASE env \in Fields
    <3>1. newMainWindow(given).SQLITE_DSN = GetServerConfig(given).Dsn
      BY DEF newMainWindow
    <3>2. env.SQLITE_DSN = newMainWindow(given).SQLITE_DSN
      <4> DEFINE w == newMainWindow(given)
      <4>1. w = [BIND |-> w.BIND, SQLITE_DSN |-> w.SQLITE_DSN, MEDIA_ROOT |-> w.MEDIA_ROOT,
                 DFLOG |-> w.DFLOG, DFLOG_ROOT |-> w.DFLOG_ROOT, RO |-> w.RO,
                 SLOW_SQL_MS |-> w.SLOW_SQL_MS, CORS_ORIGINS |-> w.CORS_ORIGINS]
        BY DEF newMainWindow
      <4> HIDE DEF w
      <4>2. \A path : [w EXCEPT !.DFLOG = path].SQLITE_DSN = w.SQLITE_DSN
        BY <4>1
      <4> QED BY <2>2, <4>2 DEF Fields, w
    <3> QED BY <1>3, <3>1, <3>2
  <2> QED BY <2>1, <2>2 DEF GuiInv
<1>5. t.env = env
  BY <1>1 DEF Setup
<1>6. cfg = GetServerConfig(t)
  BY DEF ConfigInv
<1>7. GetServerConfig(t).Dsn.query \in Seq(STRING)
  BY <1>4, <1>5, EmptySeq DEF GetServerConfig, ValueOr
<1> QED BY <1>6, <1>7

\* For every connection string: the handle of the pages cannot write, the two that
\* must write can, unless the string forbids it in a spelling that the code does
\* not know (db.go:137-213).
THEOREM HandlesDiffer == Spec => []HandlesWriteAsMeant
<1>1. GuiInv /\ ConfigInv => HandlesWriteAsMeant
  BY DsnIsConnection, HandlesOfConfig DEF HandlesWriteAsMeant
<1> QED BY <1>1, GuiInvariant, ConfigInvariant, PTL

-----------------------------------------------------------------------------
(***************************************************************************)
(* The error a start goes on after.                                        *)
(***************************************************************************)
FailureLines == {n \in 1..Len(log) : log[n] = "loadError"}

\* Line n is in the view, or View newer lines push it out.
ShownOrGone(n) == (\E i \in 1..seen.len : Contents(seen)[i] = n) \/ Len(log) >= n + View

\* It is logged once, before the end of the start the window is told about, and
\* the frame the window is then asked for shows it.
FailureInv ==
  /\ \A n, k \in FailureLines : n = k
  /\ FailureLines # {} => load \notin {"off", "begin", "open", "scan"}
  /\ watch = "told" => load \in {"announce", "serving", "complain", "failed"}
  /\ watch = "told" /\ ~repaint /\ gui = "event" => \A n \in FailureLines : ShownOrGone(n)

LEMMA FailuresAfterAppend ==
  ASSUME LogInv, NEW text \in Texts, append(text)
  PROVE  /\ FailureLines' = IF text = "loadError" THEN FailureLines \union {Len(log) + 1}
                            ELSE FailureLines
         /\ \A n \in FailureLines : ShownOrGone(n) => ShownOrGone(n)'
<1>1. log \in Seq(Texts) /\ Len(log) \in Nat /\ log' = Append(log, text)
  BY DEF LogInv, LogTypes, append
<1>2. /\ Len(log') = Len(log) + 1 /\ log'[Len(log) + 1] = text
      /\ \A n \in 1..Len(log) : log'[n] = log[n]
  BY <1>1
<1>3. 1..(Len(log) + 1) = (1..Len(log)) \union {Len(log) + 1}
  BY <1>1
<1>4. FailureLines' = IF text = "loadError" THEN FailureLines \union {Len(log) + 1}
                      ELSE FailureLines
  BY <1>1, <1>2, <1>3 DEF FailureLines
<1>5. ASSUME NEW n \in FailureLines, ShownOrGone(n) PROVE ShownOrGone(n)'
  <2>1. Contents(seen)' = Contents(seen) /\ seen' = seen
    BY AppendStep
  <2>2. n \in Nat /\ View \in Nat
    BY <1>1, LogBufferAssumption DEF FailureLines
  <2> QED BY <1>1, <1>2, <1>5, <2>1, <2>2 DEF ShownOrGone
<1> QED BY <1>4, <1>5

\* A frame reads the end of the buffer.  Where it keeps the old view the texts
\* are the same, and the failure is the only line with its text.
LEMMA RefreshShowsTheFailure ==
  ASSUME LogInv, RefreshLog, NEW n \in FailureLines, \A k \in FailureLines : k = n
  PROVE  ShownOrGone(n)'
<1> DEFINE new == last(View)
<1>1. /\ View \in Nat /\ Len(log) \in Nat /\ n \in 1..Len(log) /\ log[n] = "loadError"
  BY LogBufferAssumption DEF LogInv, LogTypes, FailureLines
<1>2. UNCHANGED <<log, arrays, lines>>
  BY DEF RefreshLog
<1>3. /\ new.len = IF Len(log) < View THEN Len(log) ELSE View
      /\ \A i \in 1..new.len : Contents(new)[i] = Len(log) - new.len + i
  BY LastIsATail DEF Contents
<1> HIDE DEF new
<1>4. CASE Len(log) >= n + View
  BY <1>2, <1>4 DEF ShownOrGone
<1>5. CASE ~(Len(log) >= n + View)
  <2> DEFINE p == n - (Len(log) - new.len)
  <2>1. p \in 1..new.len /\ Contents(new)[p] = n
    <3>1. PICK v \in Nat, l \in Nat, m \in Nat : View = v /\ Len(log) = l /\ new.len = m
      BY <1>1, <1>3
    <3>2. m = (IF l < v THEN l ELSE v) /\ n \in 1..l /\ ~(l >= n + v)
      BY <1>1, <1>3, <1>5, <3>1
    <3>3. n - (l - m) \in 1..m /\ l - m + (n - (l - m)) = n
      BY <3>2
    <3>4. p \in 1..m /\ p = n - (l - m)
      BY <3>1, <3>3
    <3>5. Contents(new)[p] = l - m + p
      BY <1>3, <3>1, <3>4
    <3> QED BY <3>1, <3>3, <3>4, <3>5
  <2> HIDE DEF p
  <2>2. CASE Reading(new) = Reading(seen)
    <3>1. seen' = seen
      BY <2>2 DEF RefreshLog, new
    <3>2. new.len \in Nat /\ seen.len \in Nat
      BY <1>1, <1>3 DEF LogInv, LogTypes, Lies, Slice
    <3>3. DOMAIN Reading(new) = 1..new.len /\ DOMAIN Reading(seen) = 1..seen.len
      BY DEF Reading
    <3>4. p \in 1..seen.len
      BY <2>1, <2>2, <3>3
    <3>5. Reading(new)[p] = "loadError" /\ Reading(seen)[p] = log[Contents(seen)[p]]
      BY <1>1, <2>1, <3>4 DEF Reading
    <3>6. Contents(seen)[p] \in 1..Len(log)
      <4>1. /\ End(seen) \in 0..Len(log)
            /\ seen.len = IF End(seen) < View THEN End(seen) ELSE View
            /\ Contents(seen)[p] = End(seen) - seen.len + p
        BY <3>4 DEF LogInv, ViewIsATail, Contents
      <4> QED BY <1>1, <3>2, <3>4, <4>1
    <3>7. Contents(seen)[p] \in FailureLines
      BY <2>2, <3>5, <3>6 DEF FailureLines
    <3>8. Contents(seen)'[p] = n
      BY <1>2, <3>1, <3>7 DEF Contents
    <3> QED BY <3>1, <3>4, <3>8 DEF ShownOrGone
  <2>3. CASE Reading(new) # Reading(seen)
    <3>1. seen' = new
      BY <2>3 DEF RefreshLog, new
    <3>2. Contents(seen)'[p] = n
      BY <1>2, <2>1, <3>1 DEF Contents
    <3> QED BY <2>1, <3>1, <3>2 DEF ShownOrGone
  <2> QED BY <2>2, <2>3
<1> QED BY <1>4, <1>5

LEMMA FailureStep == LogInv /\ FailureInv /\ [Next]_vars => FailureInv'
<1> SUFFICES ASSUME LogInv, FailureInv, [Next]_vars PROVE FailureInv'
  OBVIOUS
<1>1. LoaderTexts \subseteq Texts /\ "starting" \in Texts /\ "other" \in Texts
  BY GuiServerAssumption DEF LoaderTexts
\* What does not touch the lines or the view.
<1>2. ASSUME UNCHANGED logVars
      PROVE  /\ FailureLines' = FailureLines
             /\ \A n : ShownOrGone(n)' <=> ShownOrGone(n)
  BY <1>2 DEF logVars, FailureLines, ShownOrGone, Contents
<1>3. CASE StartClick
  <2>1. FailureLines = {} /\ append("starting") /\ gui' = "frame" /\ watch' = "waiting"
    BY <1>3 DEF StartClick, StartServer, Goto, FailureInv
  <2>2. FailureLines' = {}
    BY <1>1, <2>1, FailuresAfterAppend
  <2> QED BY <2>1, <2>2 DEF FailureInv
<1>4. CASE Frame
  BY <1>2, <1>4 DEF Frame, FailureInv, filesVars, loadVars
<1>5. CASE UpdateLogView
  <2>1. /\ RefreshLog /\ UNCHANGED <<load, watch, repaint>>
    BY <1>5 DEF UpdateLogView, filesVars, loadVars
  <2>2. FailureLines' = FailureLines
    BY <2>1 DEF RefreshLog, FailureLines
  <2>3. \A n \in FailureLines : ShownOrGone(n)'
    BY <2>1, RefreshShowsTheFailure DEF FailureInv
  <2> QED BY <2>1, <2>2, <2>3 DEF FailureInv
<1>6. CASE TouchLogView
  <2>1. MoveCaret /\ UNCHANGED <<load, watch, repaint, gui>>
    BY <1>6 DEF TouchLogView, filesVars, loadVars, guiVars
  <2>2. FailureLines' = FailureLines /\ \A n : ShownOrGone(n)' <=> ShownOrGone(n)
    BY <2>1 DEF MoveCaret, FailureLines, ShownOrGone, Contents
  <2> QED BY <2>1, <2>2 DEF FailureInv
<1>7. CASE WatcherInvalidates
  BY <1>2, <1>7 DEF WatcherInvalidates, FailureInv, filesVars, loadVars
<1>8. ASSUME NEW text \in Texts \ {"loadError"}, append(text),
             UNCHANGED <<watch, repaint, gui>>,
             load' \notin {"off", "begin", "open", "scan"}
               \/ load \in {"off", "begin", "open", "scan"},
             load \in {"announce", "serving", "complain", "failed"}
               => load' \in {"announce", "serving", "complain", "failed"}
      PROVE  FailureInv'
  BY <1>8, FailuresAfterAppend DEF FailureInv
<1>9. ASSUME append("loadError"), UNCHANGED <<watch, repaint, gui>>,
             load \in {"open", "scan"}, load' \notin {"off", "begin", "open", "scan"}
      PROVE  FailureInv'
  <2>1. FailureLines = {} /\ watch # "told"
    BY <1>9 DEF FailureInv
  <2>2. FailureLines' = {Len(log) + 1}
    BY <1>1, <1>9, <2>1, FailuresAfterAppend DEF LoaderTexts
  <2> QED BY <1>9, <2>1, <2>2 DEF FailureInv
<1>10. CASE LoaderStep
  <2>1. CASE Quietly(OpenLog) \/ Quietly(ScanLine) \/ Quietly(ScanEnds) \/ Quietly(Listen)
             \/ Quietly(ListenFails)
    <3>1. UNCHANGED logVars /\ UNCHANGED guiVars
      BY <2>1 DEF Quietly
    <3>2. /\ load' \notin {"off", "begin", "open", "scan"}
               \/ load \in {"off", "begin", "open", "scan"}
          /\ load \in {"announce", "serving", "complain", "failed"}
               => load' \in {"announce", "serving", "complain", "failed"}
      BY <2>1 DEF Quietly, OpenLog, ScanLine, ScanEnds, Listen, ListenFails, Continue, Goto
    <3> QED BY <1>2, <3>1, <3>2 DEF FailureInv, guiVars
  <2>2. CASE Logging(OpenLogFails, "loadError") \/ Logging(ScanBreaks, "loadError")
    BY <1>9, <2>2 DEF Logging, OpenLogFails, ScanBreaks, Continue, Goto, guiVars
  <2>3. CASE Logging(BeginLoad, "loading")
    BY <1>1, <1>8, <2>3 DEF Logging, BeginLoad, Continue, Goto, guiVars, LoaderTexts
  <2>4. CASE Logging(Publish, "loaded")
    BY <1>1, <1>8, <2>4 DEF Logging, Publish, Goto, guiVars, LoaderTexts
  <2>5. CASE Logging(Announce, "listening")
    BY <1>1, <1>8, <2>5 DEF Logging, Announce, Continue, Goto, guiVars, LoaderTexts
  <2>6. CASE Logging(Complain, "listenError")
    BY <1>1, <1>8, <2>6 DEF Logging, Complain, Continue, Goto, guiVars, LoaderTexts
  <2> QED BY <1>10, <2>1, <2>2, <2>3, <2>4, <2>5, <2>6 DEF LoaderStep
<1>11. CASE OtherLine
  BY <1>1, <1>8, <1>11 DEF OtherLine, guiVars, filesVars, loadVars
<1>12. CASE Quietly(MediaNext) \/ Quietly(DiskNext) \/ UNCHANGED vars
  <2>1. UNCHANGED logVars /\ UNCHANGED guiVars /\ UNCHANGED load
    <3>1. CASE Quietly(MediaNext)
      BY <3>1, MediaLeaves DEF Quietly, loadVars
    <3>2. CASE Quietly(DiskNext)
      BY <3>2 DEF Quietly, DiskNext, RipMeLogs, Write, Remove, Move, Changed, loadVars
    <3>3. CASE UNCHANGED vars
      BY <3>3 DEF vars, filesVars, loadVars
    <3> QED BY <1>12, <3>1, <3>2, <3>3
  <2> QED BY <1>2, <2>1 DEF FailureInv, guiVars
<1> QED
  BY <1>3, <1>4, <1>5, <1>6, <1>7, <1>10, <1>11, <1>12 DEF Next, GuiNext

\* Once the window was told how the start ended and has painted the frame it
\* asked for, the line that the known files could not be read has been in the view:
\* it still is, unless View newer lines are (server.go:199-206, gui_gio.go:150-170).
\* What is left of LoadFailureIsShown is that the frame is painted.
THEOREM PaintedFailureIsSeen ==
  Spec => [](watch = "told" /\ ~repaint /\ gui = "event" =>
               \A n \in FailureLines : ShownOrGone(n))
<1>1. Init => FailureInv
  BY DEF Init, LogInit, FilesInit, FailureInv, FailureLines
<1>2. FailureInv => (watch = "told" /\ ~repaint /\ gui = "event" =>
                       \A n \in FailureLines : ShownOrGone(n))
  BY DEF FailureInv
<1> QED BY <1>1, <1>2, FailureStep, LogInvariant, PTL DEF Spec
=============================================================================
