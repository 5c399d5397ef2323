--------------------------- MODULE CliEditor_proofs ---------------------------
(***************************************************************************)
(* Proofs about the line editor, for every length of line, of history and  *)
(* of escape sequence: the terminal shows the line that would be           *)
(* submitted, the line is edited as an editor's line is (CliLine), and the *)
(* parser is where the bytes of an unfinished sequence have brought it.    *)
(***************************************************************************)
EXTENDS CliEditor, SequenceTheorems, WellFoundedInduction, TLAPS

-----------------------------------------------------------------------------
(* The line and the row                                                    *)

Text == {s \in Seq(Int) : Len(s) <= Size - 1}

EdType ==
  {e \in [input : Text, cursor : Nat, nav : Nat, saved : Text,
          row : [Columns -> Int], col : Nat, printed : BOOLEAN] : e.cursor <= Len(e.input)}

(* What the terminal shows in a column behind a prompt, of the text s.     *)
Cell(s, i) == IF i <= Len(s) THEN s[i] ELSE SPACE

RowOf(q, s) == [i \in Columns |-> IF i = 0 THEN q ELSE Cell(s, i)]

OnScreen(e, q, s, pos) == ~e.printed => e.row = RowOf(q, s) /\ e.col = pos + 1

(* An edit touches nothing but the line, its draft and the screen.         *)
Edit(e, f) == f \in EdType /\ f.nav = e.nav /\ f.printed = e.printed

OnlyScreen(e, f) ==
  Edit(e, f) /\ f.input = e.input /\ f.cursor = e.cursor /\ f.saved = e.saved

LineOn(e, q) == OnScreen(e, q, e.input, e.cursor)

\* A text behind another.
LEMMA Joined ==
  ASSUME NEW a \in Seq(Int), NEW b \in Seq(Int)
  PROVE  /\ a \o b \in Seq(Int) /\ Len(a \o b) = Len(a) + Len(b)
         /\ \A i \in 1 .. Len(a) : (a \o b)[i] = a[i]
         /\ \A i \in 1 .. Len(b) : (a \o b)[Len(a) + i] = b[i]
<1>1. ASSUME NEW i \in 1 .. Len(b) PROVE (a \o b)[Len(a) + i] = b[i]
  <2>1. Len(a) + i \in 1 .. Len(a) + Len(b) /\ Len(a) + i - Len(a) = i /\ ~ (Len(a) + i <= Len(a))
    OBVIOUS
  <2> QED BY <2>1, ConcatProperties
<1> QED BY <1>1, ConcatProperties

\* A text whose middle is replaced.
LEMMA Spliced ==
  ASSUME NEW t \in Seq(Int), NEW m \in Seq(Int), NEW c \in 0 .. Len(t), NEW d \in c .. Len(t),
         NEW new, new = SubSeq(t, 1, c) \o m \o SubSeq(t, d + 1, Len(t))
  PROVE  /\ new \in Seq(Int) /\ Len(new) = c + Len(m) + Len(t) - d
         /\ \A i \in 1 .. c : new[i] = t[i]
         /\ \A i \in 1 .. Len(m) : new[c + i] = m[i]
         /\ \A i \in 1 .. Len(t) - d : new[c + Len(m) + i] = t[d + i]
<1> DEFINE a == SubSeq(t, 1, c)
           b == SubSeq(t, d + 1, Len(t))
           am == a \o m
<1>1. a \in Seq(Int) /\ Len(a) = c /\ \A i \in 1 .. c : a[i] = t[i]
  BY SubSeqProperties
<1>2. b \in Seq(Int) /\ Len(b) = Len(t) - d /\ \A i \in 1 .. Len(t) - d : b[i] = t[d + i]
  BY SMTT(30), SubSeqProperties
<1>3. new = am \o b
  OBVIOUS
<1> HIDE DEF a, b
<1>4. /\ am \in Seq(Int) /\ Len(am) = c + Len(m)
      /\ \A i \in 1 .. c : am[i] = a[i]
      /\ \A i \in 1 .. Len(m) : am[c + i] = m[i]
  BY <1>1, Joined
<1> HIDE DEF am
<1>5. /\ new \in Seq(Int) /\ Len(new) = Len(am) + Len(b)
      /\ \A i \in 1 .. Len(am) : new[i] = am[i]
      /\ \A i \in 1 .. Len(b) : new[Len(am) + i] = b[i]
  <2>1. am \in Seq(Int) /\ b \in Seq(Int)
    BY <1>2, <1>4
  <2>2. /\ am \o b \in Seq(Int) /\ Len(am \o b) = Len(am) + Len(b)
        /\ \A i \in 1 .. Len(am) : (am \o b)[i] = am[i]
        /\ \A i \in 1 .. Len(b) : (am \o b)[Len(am) + i] = b[i]
    BY <2>1, Joined
  <2> QED BY <1>3, <2>2
<1>8. Len(am) = c + Len(m) /\ c \in Nat /\ Len(m) \in Nat
  BY <1>4
<1>6. ASSUME NEW i \in 1 .. Len(m) PROVE new[c + i] = m[i]
  <2>1. c + i \in 1 .. Len(am)
    BY <1>8
  <2> QED BY <1>4, <1>5, <2>1
<1>7. ASSUME NEW i \in 1 .. c PROVE new[i] = t[i]
  <2>1. i \in 1 .. Len(am)
    BY <1>8
  <2> QED BY <1>1, <1>4, <1>5, <2>1
<1> QED BY <1>2, <1>4, <1>5, <1>6, <1>7

\* The end of a text.
LEMMA Suffix ==
  ASSUME NEW t \in Seq(Int), NEW c \in 0 .. Len(t)
  PROVE  /\ SubSeq(t, c + 1, Len(t)) \in Seq(Int) /\ Len(SubSeq(t, c + 1, Len(t))) = Len(t) - c
         /\ \A i \in 1 .. Len(t) - c : SubSeq(t, c + 1, Len(t))[i] = t[c + i]
BY SubSeqProperties

\* The beginning of a text.
LEMMA Prefix ==
  ASSUME NEW t \in Seq(Int), NEW c \in 0 .. Len(t)
  PROVE  /\ SubSeq(t, 1, c) \in Seq(Int) /\ Len(SubSeq(t, 1, c)) = c
         /\ \A i \in 1 .. c : SubSeq(t, 1, c)[i] = t[i]
BY SubSeqProperties

\* The spaces written over what was deleted.
LEMMA SpacesAre ==
  ASSUME NEW n \in Nat
  PROVE  Spaces(n) \in Seq(Int) /\ Len(Spaces(n)) = n /\ \A i \in 1 .. n : Spaces(n)[i] = SPACE
BY DEF Spaces, SPACE

\* Writing s behind the first pos characters turns the row of one text into another's.
LEMMA WrittenIs ==
  ASSUME NEW q, NEW t \in Seq(Int), NEW u \in Seq(Int), NEW s \in Seq(Int), NEW pos \in Nat,
         \A i \in 1 .. pos : Cell(u, i) = Cell(t, i),
         \A i \in 1 .. Len(s) : s[i] = Cell(u, pos + i),
         \A i \in Nat : i > pos + Len(s) => Cell(u, i) = Cell(t, i)
  PROVE  Written(RowOf(q, t), pos + 1, s) = RowOf(q, u)
<1>1. ASSUME NEW i \in Columns
      PROVE  (IF i \in pos + 1 .. pos + 1 + Len(s) - 1 THEN s[i - (pos + 1) + 1]
              ELSE RowOf(q, t)[i])
             = (IF i = 0 THEN q ELSE Cell(u, i))
  <2>0. i \in Nat /\ RowOf(q, t)[i] = IF i = 0 THEN q ELSE Cell(t, i)
    BY DEF Columns, RowOf
  <2>1. CASE i = 0
    BY <2>0, <2>1
  <2>2. CASE i \in 1 .. pos
    BY <2>0, <2>2
  <2>3. CASE i \in pos + 1 .. pos + Len(s)
    <3>1. i - pos \in 1 .. Len(s) /\ i - (pos + 1) + 1 = i - pos /\ pos + (i - pos) = i
      BY <2>3
    <3> QED BY <2>0, <2>3, <3>1
  <2>4. CASE i > pos + Len(s)
    BY <2>0, <2>4
  <2> QED BY <2>0, <2>1, <2>2, <2>3, <2>4
<1> QED BY <1>1 DEF Written, RowOf

\* What the editor's record holds.
LEMMA Fields ==
  ASSUME NEW e \in EdType
  PROVE  /\ e.input \in Text /\ e.input \in Seq(Int)
         /\ Len(e.input) \in Nat /\ Len(e.input) <= Size - 1
         /\ e.cursor \in Nat /\ e.cursor \in 0 .. Len(e.input) /\ e.nav \in Nat /\ e.saved \in Text
         /\ e.row \in [Columns -> Int] /\ e.col \in Nat /\ e.printed \in BOOLEAN
BY DEF EdType, Text

\* Characters and backspaces change the screen and nothing else.
LEMMA WriteIs ==
  ASSUME NEW e \in EdType, NEW s \in Seq(Int)
  PROVE  /\ OnlyScreen(e, Write(e, s))
         /\ ~e.printed => /\ Write(e, s).row = Written(e.row, e.col, s)
                          /\ Write(e, s).col = e.col + Len(s)
<1>1. Written(e.row, e.col, s) \in [Columns -> Int]
  <2>1. ASSUME NEW i \in Columns
        PROVE  (IF i \in e.col .. e.col + Len(s) - 1 THEN s[i - e.col + 1] ELSE e.row[i]) \in Int
    <3>1. e.col \in Nat /\ e.row[i] \in Int /\ i \in Int /\ Len(s) \in Nat
      BY EditorAssumption DEF EdType, Columns
    <3>2. CASE i \in e.col .. e.col + Len(s) - 1
      <4>1. i - e.col + 1 \in 1 .. Len(s)
        BY <3>1, <3>2
      <4> QED BY <3>2, <4>1
    <3> QED BY <3>1, <3>2
  <2> QED BY <2>1 DEF Written
<1> DEFINE f == [e EXCEPT !.row = Written(e.row, e.col, s), !.col = e.col + Len(s)]
<1>2. e.col + Len(s) \in Nat
  BY DEF EdType
<1>3. OnlyScreen(e, f) /\ f.row = Written(e.row, e.col, s) /\ f.col = e.col + Len(s)
  BY <1>1, <1>2 DEF EdType, OnlyScreen, Edit
<1>4. CASE e.printed
  BY <1>4 DEF Write, Edit, EdType, OnlyScreen
<1>5. CASE ~e.printed
  <2>1. Write(e, s) = f
    BY <1>5 DEF Write
  <2> QED BY <1>3, <1>5, <2>1
<1> QED BY <1>4, <1>5

\* Backspaces move the cursor and stop at the first column.
LEMMA BackIs ==
  ASSUME NEW e \in EdType, NEW n \in Nat
  PROVE  /\ OnlyScreen(e, Back(e, n)) /\ Back(e, n).row = e.row
         /\ Back(e, n).col = IF n > e.col THEN 0 ELSE e.col - n
<1> DEFINE c == IF n > e.col THEN 0 ELSE e.col - n
<1>1. c \in Nat
  BY Fields
<1>2. Back(e, n) = [e EXCEPT !.col = c]
  BY DEF Back
<1> HIDE DEF c
<1>3. OnlyScreen(e, Back(e, n)) /\ Back(e, n).col = c /\ Back(e, n).row = e.row
  BY <1>1, <1>2 DEF EdType, Edit, OnlyScreen
<1> QED BY <1>3 DEF c

\* The draft is saved, if anything changes.
LEMMA CaptureIs ==
  ASSUME NEW e \in EdType
  PROVE  /\ Edit(e, Capture(e)) /\ Capture(e).input = e.input /\ Capture(e).cursor = e.cursor
         /\ Capture(e).row = e.row /\ Capture(e).col = e.col
         /\ Capture(e).saved \in {e.saved, e.input}
BY DEF Capture, EdType, Edit

\* Assigning the line's text.
LEMMA JustInput ==
  ASSUME NEW e \in EdType, NEW t \in Text, e.cursor <= Len(t), NEW f, f = [e EXCEPT !.input = t]
  PROVE  /\ Edit(e, f) /\ f.input = t /\ f.cursor = e.cursor /\ f.saved = e.saved
         /\ f.row = e.row /\ f.col = e.col
BY DEF EdType, Edit

\* Assigning the line's cursor.
LEMMA JustCursor ==
  ASSUME NEW e \in EdType, NEW p \in 0 .. Len(e.input), NEW f, f = [e EXCEPT !.cursor = p]
  PROVE  /\ Edit(e, f) /\ f.input = e.input /\ f.cursor = p /\ f.saved = e.saved
         /\ f.row = e.row /\ f.col = e.col
BY DEF EdType, Edit

\* Where a row shows a text up to the cursor, writing shows the rest.
LEMMA WriteOn ==
  ASSUME NEW e \in EdType, NEW q, NEW t \in Seq(Int), NEW u \in Seq(Int), NEW s \in Seq(Int),
         NEW pos \in Nat, OnScreen(e, q, t, pos),
         \A i \in 1 .. pos : Cell(u, i) = Cell(t, i),
         \A i \in 1 .. Len(s) : s[i] = Cell(u, pos + i),
         \A i \in Nat : i > pos + Len(s) => Cell(u, i) = Cell(t, i)
  PROVE  OnScreen(Write(e, s), q, u, pos + Len(s))
<1>1. Write(e, s).printed = e.printed
  BY WriteIs DEF Edit, OnlyScreen
<1>2. ASSUME ~e.printed PROVE Write(e, s).row = RowOf(q, u) /\ Write(e, s).col = pos + Len(s) + 1
  <2>1. e.row = RowOf(q, t) /\ e.col = pos + 1
    BY <1>2 DEF OnScreen
  <2>2. Written(RowOf(q, t), pos + 1, s) = RowOf(q, u)
    BY WrittenIs
  <2>3. Write(e, s).row = Written(e.row, e.col, s) /\ Write(e, s).col = e.col + Len(s)
    BY <1>2, WriteIs
  <2>4. Len(s) \in Nat
    OBVIOUS
  <2> QED BY <2>1, <2>2, <2>3, <2>4
<1> QED BY <1>1, <1>2 DEF OnScreen

\* Backspaces stay in the row.
LEMMA BackOn ==
  ASSUME NEW e \in EdType, NEW q, NEW t, NEW pos \in Nat, NEW n \in 0 .. pos, OnScreen(e, q, t, pos)
  PROVE  OnScreen(Back(e, n), q, t, pos - n)
<1>1. n \in Nat
  OBVIOUS
<1>2. Back(e, n).printed = e.printed /\ Back(e, n).row = e.row
      /\ Back(e, n).col = IF n > e.col THEN 0 ELSE e.col - n
  BY <1>1, BackIs DEF Edit, OnlyScreen
<1>3. ASSUME ~e.printed PROVE Back(e, n).row = RowOf(q, t) /\ Back(e, n).col = (pos - n) + 1
  <2>1. e.row = RowOf(q, t) /\ e.col = pos + 1
    BY <1>3 DEF OnScreen
  <2> QED BY <1>1, <1>2, <2>1
<1> QED BY <1>2, <1>3 DEF OnScreen

-----------------------------------------------------------------------------
(* Inserting                                                               *)

\* A text from which a middle is removed.
LEMMA Removed ==
  ASSUME NEW t \in Seq(Int), NEW c \in 0 .. Len(t), NEW d \in c .. Len(t),
         NEW new, new = SubSeq(t, 1, c) \o SubSeq(t, d + 1, Len(t))
  PROVE  /\ new \in Seq(Int) /\ Len(new) = c + Len(t) - d
         /\ \A i \in 1 .. c : new[i] = t[i]
         /\ \A i \in 1 .. Len(t) - d : new[c + i] = t[d + i]
<1> DEFINE a == SubSeq(t, 1, c)
           b == SubSeq(t, d + 1, Len(t))
<1>1. a \in Seq(Int) /\ Len(a) = c /\ \A i \in 1 .. c : a[i] = t[i]
  BY Prefix
<1>2. b \in Seq(Int) /\ Len(b) = Len(t) - d /\ \A i \in 1 .. Len(t) - d : b[i] = t[d + i]
  BY Suffix
<1> HIDE DEF a, b
<1>3. /\ a \o b \in Seq(Int) /\ Len(a \o b) = Len(a) + Len(b)
      /\ \A i \in 1 .. Len(a) : (a \o b)[i] = a[i]
      /\ \A i \in 1 .. Len(b) : (a \o b)[Len(a) + i] = b[i]
  BY <1>1, <1>2, Joined
<1>4. new = a \o b
  BY DEF a, b
<1> QED BY <1>1, <1>2, <1>3, <1>4

(* A text that starts like another; what is typed behind p characters.      *)
Keeps(n, t, p) == \A i \in 1 .. p : n[i] = t[i]
Types(s, n, p) ==
  /\ s \in Seq(Int) /\ \A i \in 1 .. Len(s) : s[i] = Cell(n, p + i)
  /\ Len(n) <= p + Len(s)

\* An edit writes the line's new text from the cursor on and steps back.
LEMMA Retyped ==
  ASSUME NEW e \in EdType, NEW q, NEW n \in Text, NEW s, NEW k \in 0 .. Len(s), NEW new, NEW y,
         e.cursor <= Len(n), Keeps(n, e.input, e.cursor), Types(s, n, e.cursor),
         Len(e.input) <= e.cursor + Len(s),
         new = [e EXCEPT !.input = n], y = Back(Write(new, s), k)
  PROVE  /\ Edit(e, y) /\ y.input = n /\ y.cursor = e.cursor /\ y.saved = e.saved
         /\ LineOn(e, q) => OnScreen(y, q, n, (e.cursor + Len(s)) - k)
<1> DEFINE t == e.input
           p == e.cursor
           w == Write(new, s)
<1>0. s \in Seq(Int) /\ Len(n) <= e.cursor + Len(s)
      /\ (\A i \in 1 .. e.cursor : n[i] = e.input[i])
      /\ (\A i \in 1 .. Len(s) : s[i] = Cell(n, e.cursor + i))
  BY DEF Keeps, Types
<1>1. t \in Seq(Int) /\ p \in Nat /\ p <= Len(t) /\ Len(t) \in Nat
  BY Fields
<1>2. /\ Edit(e, new) /\ new.input = n /\ new.cursor = p /\ new.saved = e.saved
      /\ new.row = e.row /\ new.col = e.col
  BY JustInput
<1>3. y = Back(w, k)
  OBVIOUS
<1>4. n \in Seq(Int) /\ Len(n) \in Nat /\ Len(s) \in Nat /\ k \in Nat
  BY <1>0 DEF Text
<1> HIDE DEF t, p
<1>5. OnlyScreen(new, w)
  BY <1>0, <1>2, WriteIs DEF Edit
<1>6. OnlyScreen(w, y)
  BY <1>3, <1>4, <1>5, BackIs DEF OnlyScreen, Edit
<1>7. ASSUME LineOn(e, q) PROVE OnScreen(y, q, n, (p + Len(s)) - k)
  <2>1. OnScreen(new, q, t, p)
    BY <1>2, <1>7 DEF LineOn, OnScreen, Edit, t, p
  <2>2. /\ \A i \in 1 .. p : Cell(n, i) = Cell(t, i)
        /\ \A i \in Nat : i > p + Len(s) => Cell(n, i) = Cell(t, i)
    <3>1. ASSUME NEW i \in 1 .. p PROVE Cell(n, i) = Cell(t, i)
      BY <1>0, <1>1, <1>4 DEF Cell, t, p
    <3>2. ASSUME NEW i \in Nat, i > p + Len(s) PROVE Cell(n, i) = Cell(t, i)
      <4>1. ~ (i <= Len(n)) /\ ~ (i <= Len(t))
        BY <1>0, <1>1, <1>4, <3>2 DEF t, p
      <4> QED BY <4>1 DEF Cell
    <3> QED BY <3>1, <3>2
  <2>3. \A i \in 1 .. Len(s) : s[i] = Cell(n, p + i)
    BY <1>0 DEF p
  <2>4. new \in EdType /\ w \in EdType
    BY <1>2, <1>5 DEF Edit, OnlyScreen
  <2> HIDE DEF w
  <2>5. OnScreen(Write(new, s), q, n, p + Len(s))
    BY <1>0, <1>1, <1>4, <2>1, <2>2, <2>3, <2>4, WriteOn
  <2>6. p + Len(s) \in Nat /\ k \in 0 .. p + Len(s)
    BY <1>1, <1>4
  <2>7. OnScreen(w, q, n, p + Len(s))
    BY <2>5 DEF w
  <2>8. OnScreen(Back(w, k), q, n, (p + Len(s)) - k)
    BY <2>4, <2>6, <2>7, BackOn
  <2> QED BY <1>3, <2>8
<1> QED BY <1>2, <1>5, <1>6, <1>7 DEF Edit, OnlyScreen, t, p

\* Inserting a character: the line gets it at the cursor, or is full.
LEMMA InsertCharIs ==
  ASSUME NEW e \in EdType, NEW c \in Int, NEW q
  PROVE  /\ Edit(e, InsertChar(e, c))
         /\ Len(e.input) >= Size - 1 => InsertChar(e, c) = e
         /\ Len(e.input) < Size - 1 =>
              /\ InsertChar(e, c).input = InFront(e) \o <<c>> \o Behind(e)
              /\ InsertChar(e, c).cursor = e.cursor + 1
         /\ LineOn(e, q) => LineOn(InsertChar(e, c), q)
<1>0. Len(e.input) \in Nat /\ Size - 1 \in Nat
  BY Fields, EditorAssumption
<1>1. CASE Len(e.input) >= Size - 1
  <2>1. InsertChar(e, c) = e
    BY <1>1 DEF InsertChar
  <2>2. ~ (Len(e.input) < Size - 1)
    BY <1>0, <1>1
  <2> QED BY <2>1, <2>2 DEF Edit
<1>2. CASE Len(e.input) < Size - 1
  <2> DEFINE t == e.input
             p == e.cursor
             n == InFront(e) \o <<c>> \o Behind(e)
             new == [e EXCEPT !.input = n]
             b == Behind(new)
             y == Back(Write(new, b), Len(b) - 1)
             x == [y EXCEPT !.cursor = p + 1]
  <2>0. ~ (Len(e.input) >= Size - 1)
    BY <1>0, <1>2
  <2>1. InsertChar(e, c) = Capture(x)
    BY <2>0 DEF InsertChar
  <2>2. t \in Seq(Int) /\ p \in 0 .. Len(t) /\ p \in Nat /\ Len(t) \in Nat
    BY Fields
  <2>3. /\ n \in Seq(Int) /\ Len(n) = Len(t) + 1
        /\ \A i \in 1 .. p : n[i] = t[i]
    <3>1. <<c>> \in Seq(Int) /\ Len(<<c>>) = 1
      OBVIOUS
    <3>2. n = SubSeq(t, 1, p) \o <<c>> \o SubSeq(t, p + 1, Len(t))
      BY DEF InFront, Behind
    <3>3. Len(t) \in p .. Len(t)
      BY <2>2
    <3> HIDE DEF n, t, p
    <3>4. /\ n \in Seq(Int) /\ Len(n) = p + Len(<<c>>) + Len(t) - p
          /\ \A i \in 1 .. p : n[i] = t[i]
      BY <2>2, <3>1, <3>2, Spliced
    <3>5. Len(n) = Len(t) + 1
      BY <2>2, <3>1, <3>4
    <3> QED BY <3>4, <3>5
  <2>4. n \in Text
    BY <1>0, <1>2, <2>2, <2>3 DEF Text
  <2>5. b = SubSeq(n, p + 1, Len(n))
    <3> HIDE DEF n
    <3>1. e.cursor <= Len(n)
      BY <2>2, <2>3
    <3>2. new = [e EXCEPT !.input = n]
      OBVIOUS
    <3> HIDE DEF new
    <3>3. new.input = n /\ new.cursor = p
      BY <2>4, <3>1, <3>2, JustInput
    <3> QED BY <3>3 DEF Behind
  <2> HIDE DEF n, b, t, p
  <2>6. b \in Seq(Int) /\ Len(b) = Len(t) + 1 - p /\ \A i \in 1 .. Len(b) : b[i] = n[p + i]
    <3>1. p \in 0 .. Len(n)
      BY <2>2, <2>3
    <3>2. /\ b \in Seq(Int) /\ Len(b) = Len(n) - p
          /\ \A i \in 1 .. Len(n) - p : b[i] = n[p + i]
      BY <2>3, <2>5, <3>1, Suffix
    <3> QED BY <2>2, <2>3, <3>2
  <2>7. /\ Len(b) - 1 \in 0 .. Len(b) /\ p <= Len(n)
        /\ Len(t) <= p + Len(b) /\ Len(n) <= p + Len(b) /\ (p + Len(b)) - (Len(b) - 1) = p + 1
    BY <2>2, <2>3, <2>6
  <2>8. \A i \in 1 .. Len(b) : b[i] = Cell(n, p + i)
    BY <2>2, <2>3, <2>6 DEF Cell
  <2>9. /\ Edit(e, y) /\ y.input = n /\ y.cursor = p
        /\ LineOn(e, q) => OnScreen(y, q, n, (p + Len(b)) - (Len(b) - 1))
    <3>1. Keeps(n, e.input, e.cursor) /\ Types(b, n, e.cursor)
      BY <2>3, <2>6, <2>7, <2>8 DEF t, p, Keeps, Types
    <3>3. e.cursor <= Len(n) /\ Len(e.input) <= e.cursor + Len(b)
      BY <2>7 DEF t, p
    <3> DEFINE j == Len(b) - 1
    <3>4. new = [e EXCEPT !.input = n] /\ y = Back(Write(new, b), j)
      OBVIOUS
    <3> HIDE DEF y, new
    <3>5. j \in 0 .. Len(b)
      BY <2>7
    <3> HIDE DEF j
    <3>6. /\ Edit(e, y) /\ y.input = n /\ y.cursor = e.cursor
          /\ LineOn(e, q) => OnScreen(y, q, n, (e.cursor + Len(b)) - j)
      BY <2>4, <3>1, <3>3, <3>4, <3>5, Retyped
    <3> QED BY <3>6 DEF p, j
  <2> HIDE DEF y, x
  <2>10. /\ Edit(y, x) /\ x.input = n /\ x.cursor = p + 1 /\ x.row = y.row /\ x.col = y.col
    <3>1. p + 1 \in 0 .. Len(y.input) /\ y \in EdType
      BY <2>2, <2>3, <2>9 DEF Edit
    <3>2. x = [y EXCEPT !.cursor = p + 1]
      BY DEF x
    <3> QED BY <2>9, <3>1, <3>2, JustCursor
  <2>11. Edit(x, Capture(x)) /\ Capture(x).input = n /\ Capture(x).cursor = p + 1
         /\ Capture(x).row = x.row /\ Capture(x).col = x.col
    BY <2>10, CaptureIs DEF Edit
  <2>12. ASSUME LineOn(e, q) PROVE LineOn(Capture(x), q)
    <3>1. OnScreen(y, q, n, p + 1)
      BY <2>7, <2>9, <2>12
    <3> QED BY <2>10, <2>11, <3>1 DEF LineOn, OnScreen, Edit
  <2> QED BY <2>0, <2>1, <2>9, <2>10, <2>11, <2>12 DEF Edit, n, p
<1> QED BY <1>0, <1>1, <1>2

-----------------------------------------------------------------------------
(* Deleting                                                                *)

\* Deleting under the cursor.
LEMMA DeleteCharIs ==
  ASSUME NEW e \in EdType, NEW q
  PROVE  /\ Edit(e, DeleteChar(e))
         /\ e.cursor = Len(e.input) => DeleteChar(e) = e
         /\ e.cursor < Len(e.input) =>
              /\ DeleteChar(e).input = SubSeq(e.input, 1, e.cursor)
                                         \o SubSeq(e.input, (e.cursor + 1) + 1, Len(e.input))
              /\ DeleteChar(e).cursor = e.cursor
         /\ LineOn(e, q) => LineOn(DeleteChar(e), q)
<1>0. e.cursor \in 0 .. Len(e.input) /\ Len(e.input) \in Nat
  BY Fields
<1>1. CASE e.cursor = Len(e.input)
  <2>1. DeleteChar(e) = e
    BY <1>1 DEF DeleteChar
  <2>2. ~ (e.cursor < Len(e.input))
    BY <1>0, <1>1
  <2> QED BY <1>1, <2>1, <2>2 DEF Edit
<1>2. CASE e.cursor < Len(e.input)
  <2> DEFINE t == e.input
             p == e.cursor
             n == InFront(e) \o Tail(Behind(e))
             new == [e EXCEPT !.input = n]
             b == Behind(new)
             s == b \o <<SPACE>>
             k == Len(b) + 1
             y == Back(Write(new, s), k)
  <2>0. e.cursor # Len(e.input)
    BY <1>0, <1>2
  <2>1. DeleteChar(e) = Capture(y)
    BY <2>0 DEF DeleteChar
  <2>2. t \in Seq(Int) /\ p \in Nat /\ Len(t) \in Nat /\ p < Len(t) /\ Len(t) <= Size - 1
    BY <1>2, Fields
  <2>3. n = SubSeq(t, 1, p) \o SubSeq(t, (p + 1) + 1, Len(t))
    <3> DEFINE r == p + 1
    <3>1. r \in 1 .. Len(t) /\ Len(t) \in r .. Len(t)
      BY <2>2
    <3> HIDE DEF t, r
    <3>2. Tail(SubSeq(t, r, Len(t))) = SubSeq(t, r + 1, Len(t))
      BY <2>2, <3>1, HeadTailOfSubSeq
    <3> QED BY <3>2 DEF InFront, Behind, t, r
  <2>4. /\ n \in Seq(Int) /\ Len(n) = Len(t) - 1
        /\ \A i \in 1 .. p : n[i] = t[i]
    <3> DEFINE r == p + 1
    <3>1. r \in p .. Len(t) /\ p \in 0 .. Len(t) /\ (p + Len(t)) - r = Len(t) - 1
      BY <2>2
    <3>2. n = SubSeq(t, 1, p) \o SubSeq(t, r + 1, Len(t))
      BY <2>3
    <3> HIDE DEF t, p, n, r
    <3>3. n \in Seq(Int) /\ Len(n) = p + Len(t) - r /\ \A i \in 1 .. p : n[i] = t[i]
      BY <2>2, <3>1, <3>2, Removed
    <3>4. Len(n) = (p + Len(t)) - r
      BY <2>2, <3>1, <3>3
    <3> QED BY <3>1, <3>3, <3>4
  <2>5. n \in Text
    <3> HIDE DEF n, t, p
    <3> QED BY <2>2, <2>4, EditorAssumption DEF Text
  <2>6. b = SubSeq(n, p + 1, Len(n))
    <3> HIDE DEF n
    <3>1. e.cursor <= Len(n)
      BY <2>2, <2>4
    <3>2. new = [e EXCEPT !.input = n]
      OBVIOUS
    <3> HIDE DEF new
    <3>3. new.input = n /\ new.cursor = p
      BY <2>5, <3>1, <3>2, JustInput
    <3> QED BY <3>3 DEF Behind
  <2>7. new = [e EXCEPT !.input = n]
    OBVIOUS
  <2> HIDE DEF n, b, t, p, new
  <2>8. b \in Seq(Int) /\ Len(b) = Len(t) - 1 - p /\ \A i \in 1 .. Len(b) : b[i] = n[p + i]
    <3>1. p \in 0 .. Len(n)
      BY <2>2, <2>4
    <3>2. /\ b \in Seq(Int) /\ Len(b) = Len(n) - p
          /\ \A i \in 1 .. Len(n) - p : b[i] = n[p + i]
      BY <2>4, <2>6, <3>1, Suffix
    <3> QED BY <2>2, <2>4, <3>2
  <2>9. /\ s \in Seq(Int) /\ Len(s) = Len(b) + 1 /\ \A i \in 1 .. Len(b) : s[i] = b[i]
        /\ s[Len(b) + 1] = SPACE
    <3>1. <<SPACE>> \in Seq(Int) /\ Len(<<SPACE>>) = 1 /\ <<SPACE>>[1] = SPACE
      BY DEF SPACE
    <3> QED BY <2>8, <3>1, Joined
  <2> HIDE DEF s
  <2>10. /\ k \in 0 .. Len(s) /\ p <= Len(n)
         /\ Len(t) <= p + Len(s) /\ Len(n) <= p + Len(s) /\ (p + Len(s)) - k = p
    BY <2>2, <2>4, <2>8, <2>9
  <2>11. \A i \in 1 .. Len(s) : s[i] = Cell(n, p + i)
    <3>1. ASSUME NEW i \in 1 .. Len(s) PROVE s[i] = Cell(n, p + i)
      <4>1. CASE i <= Len(b)
        BY <2>2, <2>4, <2>8, <2>9, <4>1 DEF Cell
      <4>2. CASE i = Len(b) + 1
        <5>1. ~ (p + i <= Len(n))
          BY <2>2, <2>4, <2>8, <4>2
        <5> QED BY <2>9, <4>2, <5>1 DEF Cell
      <4> QED BY <2>8, <2>9, <4>1, <4>2
    <3> QED BY <3>1
  <2>12. /\ Edit(e, y) /\ y.input = n /\ y.cursor = p
         /\ LineOn(e, q) => OnScreen(y, q, n, (p + Len(s)) - k)
    <3>1. Keeps(n, e.input, e.cursor) /\ Types(s, n, e.cursor)
      BY <2>4, <2>9, <2>10, <2>11 DEF t, p, Keeps, Types
    <3>3. e.cursor <= Len(n) /\ Len(e.input) <= e.cursor + Len(s)
      BY <2>10 DEF t, p
    <3>4. y = Back(Write(new, s), k)
      OBVIOUS
    <3>5. k \in 0 .. Len(s)
      BY <2>10
    <3> HIDE DEF y, k
    <3>6. /\ Edit(e, y) /\ y.input = n /\ y.cursor = e.cursor
          /\ LineOn(e, q) => OnScreen(y, q, n, (e.cursor + Len(s)) - k)
      BY <2>5, <2>7, <3>1, <3>3, <3>4, <3>5, Retyped
    <3> QED BY <3>6 DEF p
  <2> HIDE DEF y
  <2>13. Edit(y, Capture(y)) /\ Capture(y).input = n /\ Capture(y).cursor = p
         /\ Capture(y).row = y.row /\ Capture(y).col = y.col
    BY <2>12, CaptureIs DEF Edit
  <2>14. ASSUME LineOn(e, q) PROVE LineOn(Capture(y), q)
    <3>1. OnScreen(y, q, n, p)
      BY <2>10, <2>12, <2>14
    <3> QED BY <2>12, <2>13, <3>1 DEF LineOn, OnScreen, Edit
  <2> QED BY <2>0, <2>1, <2>3, <2>12, <2>13, <2>14 DEF Edit, n, t, p
<1>3. e.cursor = Len(e.input) \/ e.cursor < Len(e.input)
  BY <1>0
<1> QED BY <1>1, <1>2, <1>3

\* Deleting in front of the cursor.
LEMMA BackspaceIs ==
  ASSUME NEW e \in EdType, NEW q
  PROVE  /\ Edit(e, Backspace(e))
         /\ e.cursor = 0 => Backspace(e) = e
         /\ e.cursor > 0 =>
              /\ Backspace(e).input = SubSeq(e.input, 1, e.cursor - 1) \o Behind(e)
              /\ Backspace(e).cursor = e.cursor - 1
         /\ LineOn(e, q) => LineOn(Backspace(e), q)
<1>0. e.cursor \in 0 .. Len(e.input) /\ Len(e.input) \in Nat
  BY Fields
<1>1. CASE e.cursor = 0
  <2>1. Backspace(e) = e
    BY <1>1 DEF Backspace
  <2> QED BY <1>1, <2>1 DEF Edit
<1>2. CASE e.cursor > 0
  <2> DEFINE b == Back(e, 1)
             x == [b EXCEPT !.cursor = e.cursor - 1]
  <2>1. Backspace(e) = DeleteChar(x)
    BY <1>0, <1>2 DEF Backspace
  <2>2. OnlyScreen(e, b)
    BY BackIs
  <2>3. LineOn(e, q) => OnScreen(b, q, e.input, e.cursor - 1)
    <3>1. 1 \in 0 .. e.cursor /\ e.cursor \in Nat
      BY <1>0, <1>2
    <3> QED BY <3>1, BackOn DEF LineOn
  <2> HIDE DEF b
  <2>4. x = [b EXCEPT !.cursor = e.cursor - 1]
    OBVIOUS
  <2>5. e.cursor - 1 \in 0 .. Len(b.input)
    BY <1>0, <1>2, <2>2 DEF OnlyScreen
  <2> HIDE DEF x
  <2>6. Edit(b, x) /\ x.input = e.input /\ x.cursor = e.cursor - 1 /\ x.row = b.row /\ x.col = b.col
    BY <2>2, <2>4, <2>5, JustCursor DEF OnlyScreen, Edit
  <2>7. LineOn(e, q) => LineOn(x, q)
    BY <2>3, <2>6 DEF LineOn, OnScreen, Edit
  <2>8. (x.cursor + 1) + 1 = e.cursor + 1 /\ x.cursor < Len(x.input)
    BY <1>0, <2>6
  <2>9. SubSeq(x.input, 1, x.cursor) = SubSeq(e.input, 1, e.cursor - 1)
        /\ SubSeq(x.input, (x.cursor + 1) + 1, Len(x.input)) = Behind(e)
    BY <2>6, <2>8 DEF Behind
  <2>10. x \in EdType
    BY <2>6 DEF Edit
  <2>11. /\ Edit(x, DeleteChar(x)) /\ DeleteChar(x).cursor = x.cursor
         /\ DeleteChar(x).input = SubSeq(e.input, 1, e.cursor - 1) \o Behind(e)
         /\ LineOn(x, q) => LineOn(DeleteChar(x), q)
    BY <2>8, <2>9, <2>10, DeleteCharIs
  <2> QED BY <1>0, <1>2, <2>1, <2>2, <2>6, <2>7, <2>11 DEF Edit, OnlyScreen
<1> QED BY <1>0, <1>1, <1>2

\* Deleting up to the end of the line.
LEMMA KillLineIs ==
  ASSUME NEW e \in EdType, NEW q
  PROVE  /\ Edit(e, KillLine(e)) /\ KillLine(e).input = InFront(e) /\ KillLine(e).cursor = e.cursor
         /\ LineOn(e, q) => LineOn(KillLine(e), q)
<1> DEFINE t == e.input
           p == e.cursor
           n == Len(Behind(e))
           f == InFront(e)
           w == Write(e, Spaces(n))
           y == Back(w, n)
           x == [y EXCEPT !.input = f]
<1>1. KillLine(e) = Capture(x)
  BY DEF KillLine
<1>2. t \in Seq(Int) /\ p \in 0 .. Len(t) /\ p \in Nat /\ Len(t) \in Nat /\ Len(t) <= Size - 1
  BY Fields
<1>3. n = Len(t) - p
  <2> HIDE DEF t, p
  <2>1. Len(SubSeq(t, p + 1, Len(t))) = Len(t) - p
    BY <1>2, Suffix
  <2> QED BY <2>1 DEF Behind, t, p
<1>4. f \in Seq(Int) /\ Len(f) = p /\ \A i \in 1 .. p : f[i] = t[i]
  <2> HIDE DEF t, p
  <2>1. SubSeq(t, 1, p) \in Seq(Int) /\ Len(SubSeq(t, 1, p)) = p
        /\ \A i \in 1 .. p : SubSeq(t, 1, p)[i] = t[i]
    BY <1>2, Prefix
  <2> QED BY <2>1 DEF InFront, t, p
<1>5. n \in Nat
  BY <1>2, <1>3
<1> HIDE DEF n, f, t, p
<1>6. Spaces(n) \in Seq(Int) /\ Len(Spaces(n)) = n /\ \A i \in 1 .. n : Spaces(n)[i] = SPACE
  BY <1>5, SpacesAre
<1>7. OnlyScreen(e, w)
  BY <1>6, WriteIs
<1>8. OnlyScreen(w, y)
  BY <1>5, <1>7, BackIs DEF OnlyScreen, Edit
<1>9. ASSUME LineOn(e, q) PROVE OnScreen(y, q, f, p)
  <2>1. OnScreen(e, q, t, p)
    BY <1>9 DEF LineOn, t, p
  <2>2. \A i \in 1 .. p : Cell(f, i) = Cell(t, i)
    BY <1>2, <1>4 DEF Cell
  <2>3. \A i \in 1 .. n : Spaces(n)[i] = Cell(f, p + i)
    BY <1>2, <1>4, <1>5, <1>6 DEF Cell
  <2>4. \A i \in Nat : i > p + n => Cell(f, i) = Cell(t, i)
    BY <1>2, <1>3, <1>4 DEF Cell
  <2> DEFINE s == Spaces(n)
  <2>5. /\ s \in Seq(Int) /\ \A i \in 1 .. Len(s) : s[i] = Cell(f, p + i)
        /\ \A i \in Nat : i > p + Len(s) => Cell(f, i) = Cell(t, i)
    BY <1>6, <2>3, <2>4
  <2> HIDE DEF s
  <2>6. OnScreen(Write(e, s), q, f, p + Len(s))
    BY <1>2, <1>4, <2>1, <2>2, <2>5, WriteOn
  <2>7. OnScreen(w, q, f, p + n) /\ w \in EdType
    BY <1>6, <1>7, <2>6 DEF s, OnlyScreen, Edit
  <2>8. p + n \in Nat /\ n \in 0 .. p + n /\ (p + n) - n = p
    BY <1>2, <1>5
  <2> HIDE DEF w
  <2>9. OnScreen(Back(w, n), q, f, (p + n) - n)
    BY <2>7, <2>8, BackOn
  <2> QED BY <2>8, <2>9
<1> HIDE DEF y
<1>10. x = [y EXCEPT !.input = f]
  OBVIOUS
<1> HIDE DEF x
<1>11. f \in Text /\ y \in EdType /\ y.cursor <= Len(f)
  BY <1>2, <1>4, <1>7, <1>8, EditorAssumption DEF Text, OnlyScreen, Edit, p
<1>12. Edit(y, x) /\ x.input = f /\ x.cursor = y.cursor /\ x.row = y.row /\ x.col = y.col
  BY <1>10, <1>11, JustInput
<1>13. Edit(x, Capture(x)) /\ Capture(x).input = f /\ Capture(x).cursor = x.cursor
       /\ Capture(x).row = x.row /\ Capture(x).col = x.col
  BY <1>12, CaptureIs DEF Edit
<1>14. Edit(e, Capture(x)) /\ Capture(x).cursor = p
  BY <1>7, <1>8, <1>12, <1>13 DEF Edit, OnlyScreen, p
<1>15. LineOn(e, q) => LineOn(Capture(x), q)
  BY <1>9, <1>12, <1>13, <1>14 DEF Edit, LineOn, OnScreen
<1> QED BY <1>1, <1>13, <1>14, <1>15 DEF f, p

-----------------------------------------------------------------------------
(* Moving, and other lines                                                 *)

\* Moving the cursor, left with backspaces and right with characters.
LEMMA MoveToIs ==
  ASSUME NEW e \in EdType, NEW pos \in 0 .. Len(e.input), NEW q
  PROVE  /\ Edit(e, MoveTo(e, pos)) /\ MoveTo(e, pos).input = e.input /\ MoveTo(e, pos).cursor = pos
         /\ MoveTo(e, pos).saved = e.saved
         /\ LineOn(e, q) => LineOn(MoveTo(e, pos), q)
<1> DEFINE t == e.input
           p == e.cursor
<1>1. t \in Seq(Int) /\ p \in 0 .. Len(t) /\ p \in Nat /\ Len(t) \in Nat /\ Len(t) <= Size - 1
      /\ pos \in Nat /\ pos <= Len(t)
  BY Fields
<1>2. CASE pos >= p
  <2> DEFINE s == SubSeq(t, p + 1, pos)
             w == Write(e, s)
             x == [w EXCEPT !.cursor = pos]
  <2>1. MoveTo(e, pos) = x
    BY <1>2 DEF MoveTo
  <2> HIDE DEF t, p
  <2>2. s \in Seq(Int) /\ Len(s) = pos - p /\ \A i \in 1 .. Len(s) : s[i] = t[p + i]
    BY SMTT(30), <1>1, <1>2, SubSeqProperties
  <2> HIDE DEF s
  <2>3. OnlyScreen(e, w)
    BY <2>2, WriteIs
  <2>4. ASSUME LineOn(e, q) PROVE OnScreen(w, q, t, pos)
    <3>1. OnScreen(e, q, t, p)
      BY <2>4 DEF LineOn, t, p
    <3>2. \A i \in 1 .. Len(s) : s[i] = Cell(t, p + i)
      BY <1>1, <1>2, <2>2 DEF Cell
    <3>3. OnScreen(Write(e, s), q, t, p + Len(s))
      BY <1>1, <2>2, <3>1, <3>2, WriteOn
    <3>4. p + Len(s) = pos
      BY <1>1, <2>2
    <3> QED BY <3>3, <3>4
  <2> HIDE DEF w
  <2>5. x = [w EXCEPT !.cursor = pos] /\ pos \in 0 .. Len(w.input) /\ w \in EdType
    BY <2>3 DEF OnlyScreen, Edit
  <2> HIDE DEF x
  <2>6. /\ Edit(w, x) /\ x.input = w.input /\ x.cursor = pos /\ x.saved = w.saved
        /\ x.row = w.row /\ x.col = w.col
    BY <2>5, JustCursor
  <2> QED BY <2>1, <2>3, <2>4, <2>6 DEF OnlyScreen, Edit, OnScreen, LineOn, t
<1>3. CASE ~ (pos >= p)
  <2> DEFINE k == p - pos
             w == Back(e, k)
             x == [w EXCEPT !.cursor = pos]
  <2>1. MoveTo(e, pos) = x
    BY <1>3 DEF MoveTo
  <2>2. k \in Nat /\ k \in 0 .. p /\ p - k = pos
    BY <1>1, <1>3
  <2> HIDE DEF t, p, k
  <2>3. OnlyScreen(e, w)
    BY <2>2, BackIs
  <2>4. ASSUME LineOn(e, q) PROVE OnScreen(w, q, t, pos)
    <3>1. OnScreen(e, q, t, p)
      BY <2>4 DEF LineOn, t, p
    <3>2. OnScreen(Back(e, k), q, t, p - k)
      BY <1>1, <2>2, <3>1, BackOn
    <3> QED BY <2>2, <3>2
  <2> HIDE DEF w
  <2>5. x = [w EXCEPT !.cursor = pos] /\ pos \in 0 .. Len(w.input) /\ w \in EdType
    BY <2>3 DEF OnlyScreen, Edit
  <2> HIDE DEF x
  <2>6. /\ Edit(w, x) /\ x.input = w.input /\ x.cursor = pos /\ x.saved = w.saved
        /\ x.row = w.row /\ x.col = w.col
    BY <2>5, JustCursor
  <2> QED BY <2>1, <2>3, <2>4, <2>6 DEF OnlyScreen, Edit, OnScreen, LineOn, t
<1> QED BY <1>2, <1>3

\* An empty text.
LEMMA EmptyText == /\ <<>> \in Text /\ <<>> \in Seq(Int) /\ Len(<<>>) = 0
                   /\ \A i \in Nat : i > 0 => Cell(<<>>, i) = SPACE
BY EditorAssumption, EmptySeq DEF Text, Cell

\* A text loaded as the line, not yet written.
LEMMA LoadedIs ==
  ASSUME NEW e \in EdType, NEW t \in Text
  PROVE  /\ Edit(e, Loaded(e, t)) /\ Loaded(e, t).input = t /\ Loaded(e, t).cursor = Len(t)
         /\ Loaded(e, t).saved = e.saved /\ Loaded(e, t).row = e.row /\ Loaded(e, t).col = e.col
<1> DEFINE p == Len(t)
           f == Loaded(e, t)
<1>1. p \in Nat /\ p <= Len(t)
  BY DEF Text
<1>2. f = [e EXCEPT !.input = t, !.cursor = p]
  BY DEF Loaded
<1> HIDE DEF f, p
<1>3. /\ Edit(e, f) /\ f.input = t /\ f.cursor = p /\ f.saved = e.saved
      /\ f.row = e.row /\ f.col = e.col
  BY <1>1, <1>2 DEF EdType, Edit
<1> QED BY <1>3 DEF f, p

\* The line taken off the row.
LEMMA EraseInputIs ==
  ASSUME NEW e \in EdType, NEW q
  PROVE  /\ Edit(e, EraseInput(e)) /\ EraseInput(e).input = <<>> /\ EraseInput(e).cursor = 0
         /\ EraseInput(e).saved = e.saved
         /\ LineOn(e, q) => LineOn(EraseInput(e), q)
<1> DEFINE t == e.input
           p == e.cursor
           n == Len(t)
           s == Spaces(n)
           b == Back(e, p)
           w == Write(b, s)
           y == Back(w, n)
           x == [y EXCEPT !.input = <<>>, !.cursor = 0]
<1>1. EraseInput(e) = x
  BY DEF EraseInput
<1>2. t \in Seq(Int) /\ p \in 0 .. n /\ p \in Nat /\ n \in Nat
  BY Fields
<1> HIDE DEF p
<1>3. OnlyScreen(e, b)
  BY <1>2, BackIs
<1>4. LineOn(e, q) => OnScreen(b, q, t, 0)
  <2>1. p \in 0 .. p /\ p - p = 0
    BY <1>2
  <2>2. LineOn(e, q) => OnScreen(e, q, t, p)
    BY DEF LineOn, t, p
  <2>3. OnScreen(e, q, t, p) => OnScreen(Back(e, p), q, t, p - p)
    BY <1>2, <2>1, BackOn
  <2> QED BY <2>1, <2>2, <2>3
<1> HIDE DEF b, n, t
<1>5. s \in Seq(Int) /\ Len(s) = n /\ \A i \in 1 .. n : s[i] = SPACE
  BY <1>2, SpacesAre
<1> HIDE DEF s
<1>6. OnlyScreen(b, w)
  BY <1>3, <1>5, WriteIs DEF OnlyScreen, Edit
<1>7. OnlyScreen(w, y)
  BY <1>2, <1>6, BackIs DEF OnlyScreen, Edit
<1>8. ASSUME LineOn(e, q) PROVE OnScreen(y, q, <<>>, 0)
  <2>1. \A i \in 1 .. 0 : Cell(<<>>, i) = Cell(t, i)
    OBVIOUS
  <2>2. \A i \in 1 .. Len(s) : s[i] = Cell(<<>>, 0 + i)
    BY <1>2, <1>5, EmptyText
  <2>3. \A i \in Nat : i > 0 + Len(s) => Cell(<<>>, i) = Cell(t, i)
    BY <1>2, <1>5, EmptyText DEF Cell, n
  <2>4. OnScreen(Write(b, s), q, <<>>, 0 + Len(s))
    BY <1>2, <1>3, <1>4, <1>5, <1>8, <2>1, <2>2, <2>3, EmptyText, WriteOn DEF OnlyScreen, Edit
  <2>5. OnScreen(w, q, <<>>, n) /\ w \in EdType
    BY <1>2, <1>5, <1>6, <2>4 DEF OnlyScreen, Edit
  <2>6. n \in 0 .. n /\ n - n = 0
    BY <1>2
  <2> HIDE DEF w
  <2>7. OnScreen(Back(w, n), q, <<>>, n - n)
    BY <1>2, <2>5, <2>6, BackOn
  <2> QED BY <2>6, <2>7
<1> HIDE DEF y
<1> DEFINE z == <<>>
<1>9. x = [y EXCEPT !.input = z, !.cursor = 0] /\ y \in EdType /\ z \in Text /\ 0 <= Len(z)
  BY <1>7, EmptyText DEF OnlyScreen, Edit
<1> HIDE DEF x, z
<1>10. /\ Edit(y, x) /\ x.input = z /\ x.cursor = 0 /\ x.saved = y.saved
       /\ x.row = y.row /\ x.col = y.col
  BY <1>9 DEF EdType, Edit
<1> QED BY <1>1, <1>3, <1>6, <1>7, <1>8, <1>10 DEF OnlyScreen, Edit, OnScreen, LineOn, z

\* Another text in place of the line.
LEMMA ShowIs ==
  ASSUME NEW e \in EdType, NEW t \in Text, NEW q
  PROVE  /\ Edit(e, Show(e, t)) /\ Show(e, t).input = t /\ Show(e, t).cursor = Len(t)
         /\ Show(e, t).saved = e.saved
         /\ LineOn(e, q) => LineOn(Show(e, t), q)
<1> DEFINE x == EraseInput(e)
           f == Loaded(x, t)
<1>1. Show(e, t) = Write(f, t)
  BY DEF Show
<1>2. /\ Edit(e, x) /\ x.input = <<>> /\ x.cursor = 0 /\ x.saved = e.saved
      /\ LineOn(e, q) => LineOn(x, q)
  BY EraseInputIs
<1> HIDE DEF x
<1>3. /\ Edit(x, f) /\ f.input = t /\ f.cursor = Len(t) /\ f.saved = x.saved
      /\ f.row = x.row /\ f.col = x.col
  BY <1>2, LoadedIs DEF Edit
<1> HIDE DEF f
<1>4. t \in Seq(Int) /\ Len(t) \in Nat /\ f \in EdType
  BY <1>3 DEF Text, Edit
<1>5. OnlyScreen(f, Write(f, t))
  BY <1>4, WriteIs
<1>6. ASSUME LineOn(e, q) PROVE OnScreen(Write(f, t), q, t, Len(t))
  <2>1. OnScreen(f, q, <<>>, 0)
    BY <1>2, <1>3, <1>6 DEF LineOn, OnScreen, Edit
  <2>2. \A i \in 1 .. 0 : Cell(t, i) = Cell(<<>>, i)
    OBVIOUS
  <2>3. \A i \in 1 .. Len(t) : t[i] = Cell(t, 0 + i)
    BY <1>4 DEF Cell
  <2>4. \A i \in Nat : i > 0 + Len(t) => Cell(t, i) = Cell(<<>>, i)
    BY <1>4, EmptyText DEF Cell
  <2>5. OnScreen(Write(f, t), q, t, 0 + Len(t))
    BY <1>4, <2>1, <2>2, <2>3, <2>4, EmptyText, WriteOn
  <2> QED BY <1>4, <2>5
<1> QED BY <1>1, <1>2, <1>3, <1>5, <1>6 DEF OnlyScreen, Edit, LineOn

(* The lines history and draft hold; where browsing stands.                *)
Browsing(e, r) == e.nav <= Len(r)

\* An older line, if there is one.
LEMMA HistoryUpIs ==
  ASSUME NEW e \in EdType, recent \in Seq(Text), Browsing(e, recent), NEW q
  PROVE  /\ HistoryUp(e) \in EdType /\ Browsing(HistoryUp(e), recent)
         /\ HistoryUp(e).printed = e.printed
         /\ \/ HistoryUp(e).input = e.input /\ HistoryUp(e).cursor = e.cursor
            \/ /\ \E i \in DOMAIN recent : HistoryUp(e).input = recent[i]
               /\ HistoryUp(e).cursor = Len(HistoryUp(e).input)
         /\ LineOn(e, q) => LineOn(HistoryUp(e), q)
<1> DEFINE k == IF e.nav = 0 THEN [e EXCEPT !.saved = e.input] ELSE e
<1>1. /\ k \in EdType /\ k.nav = e.nav /\ k.printed = e.printed /\ k.input = e.input
      /\ k.cursor = e.cursor /\ k.row = e.row /\ k.col = e.col
  BY DEF EdType
<1>2. CASE e.nav >= Len(recent)
  <2>1. HistoryUp(e) = k
    BY <1>2 DEF HistoryUp
  <2> HIDE DEF k
  <2> QED BY <1>1, <2>1 DEF Browsing, LineOn, OnScreen
<1>3. CASE ~ (e.nav >= Len(recent))
  <2> DEFINE v == e.nav + 1
             i == Len(recent) - e.nav
             x == [k EXCEPT !.nav = v]
  <2>1. HistoryUp(e) = Show(x, recent[i])
    BY <1>3 DEF HistoryUp
  <2>2. e.nav \in Nat /\ Len(recent) \in Nat
    BY Fields
  <2>3. v \in Nat /\ v <= Len(recent) /\ i \in 1 .. Len(recent)
    BY <1>3, <2>2
  <2>4. recent[i] \in Text /\ i \in DOMAIN recent
    BY <2>3
  <2> HIDE DEF k, v, i
  <2>5. /\ x \in EdType /\ x.nav = v /\ x.printed = e.printed /\ x.input = e.input
        /\ x.cursor = e.cursor /\ x.row = e.row /\ x.col = e.col
    BY <1>1, <2>3 DEF EdType
  <2> HIDE DEF x
  <2> DEFINE t == recent[i]
             f == Show(x, t)
  <2>6. t \in Text
    BY <2>4
  <2> HIDE DEF t
  <2>7. /\ Edit(x, f) /\ f.input = t /\ f.cursor = Len(t)
        /\ LineOn(x, q) => LineOn(f, q)
    BY <2>5, <2>6, ShowIs
  <2> HIDE DEF f
  <2>8. HistoryUp(e) = f
    BY <2>1 DEF f, t
  <2>9. LineOn(e, q) => LineOn(x, q)
    BY <2>5 DEF LineOn, OnScreen
  <2> QED BY <2>3, <2>4, <2>5, <2>7, <2>8, <2>9 DEF Browsing, Edit, t
<1> QED BY <1>2, <1>3

\* A newer line, at last the draft.
LEMMA HistoryDownIs ==
  ASSUME NEW e \in EdType, recent \in Seq(Text), Browsing(e, recent), NEW q
  PROVE  /\ HistoryDown(e) \in EdType /\ Browsing(HistoryDown(e), recent)
         /\ HistoryDown(e).printed = e.printed
         /\ \/ HistoryDown(e).input = e.input /\ HistoryDown(e).cursor = e.cursor
            \/ /\ \/ HistoryDown(e).input = e.saved
                  \/ \E i \in DOMAIN recent : HistoryDown(e).input = recent[i]
               /\ HistoryDown(e).cursor = Len(HistoryDown(e).input)
         /\ LineOn(e, q) => LineOn(HistoryDown(e), q)
<1>1. CASE e.nav = 0
  <2>1. HistoryDown(e) = e
    BY <1>1 DEF HistoryDown
  <2> QED BY <2>1
<1>2. CASE e.nav # 0
  <2> DEFINE v == e.nav - 1
             i == Len(recent) - e.nav + 2
             t == IF e.nav = 1 THEN e.saved ELSE recent[i]
             x == [e EXCEPT !.nav = v]
             f == Show(x, t)
  <2>1. HistoryDown(e) = f
    BY <1>2 DEF HistoryDown
  <2>2. e.nav \in Nat /\ Len(recent) \in Nat /\ e.saved \in Text /\ e.nav <= Len(recent)
    BY Fields DEF Browsing
  <2>3. v \in Nat /\ v <= Len(recent) /\ (e.nav # 1 => i \in 1 .. Len(recent))
    BY <1>2, <2>2
  <2>4. t \in Text /\ (t = e.saved \/ \E j \in DOMAIN recent : t = recent[j])
    <3> HIDE DEF i
    <3>1. e.nav # 1 => recent[i] \in Text /\ i \in DOMAIN recent
      BY <2>3
    <3> QED BY <2>2, <3>1
  <2> HIDE DEF v, i, t
  <2>5. /\ x \in EdType /\ x.nav = v /\ x.printed = e.printed /\ x.input = e.input
        /\ x.cursor = e.cursor /\ x.row = e.row /\ x.col = e.col
    BY <2>3 DEF EdType
  <2> HIDE DEF x
  <2>6. /\ Edit(x, f) /\ f.input = t /\ f.cursor = Len(t)
        /\ LineOn(x, q) => LineOn(f, q)
    BY <2>4, <2>5, ShowIs
  <2> HIDE DEF f
  <2>7. LineOn(e, q) => LineOn(x, q)
    BY <2>5 DEF LineOn, OnScreen
  <2> QED BY <2>1, <2>3, <2>4, <2>5, <2>6, <2>7 DEF Browsing, Edit
<1> QED BY <1>1, <1>2

-----------------------------------------------------------------------------
(* Prompts                                                                 *)

(* Nothing is written yet where the cursor is.                             *)
Clear(e) == ~e.printed => e.row = Blank /\ e.col = 0

(* The line stays; the row may change.                                     *)
SameLine(e, f) ==
  /\ f \in EdType /\ f.input = e.input /\ f.cursor = e.cursor
  /\ f.nav = e.nav /\ f.saved = e.saved

\* An empty row.
LEMMA BlankIs == Blank \in [Columns -> Int] /\ \A i \in Columns : Blank[i] = SPACE
BY DEF Blank, SPACE

\* A new row is empty, whatever was printed before.
LEMMA NewRowIs ==
  ASSUME NEW e \in EdType
  PROVE  SameLine(e, NewRow(e)) /\ Clear(NewRow(e)) /\ ~NewRow(e).printed
<1> DEFINE f == NewRow(e)
           r == Blank
<1>1. f = [e EXCEPT !.row = r, !.col = 0, !.printed = FALSE]
  BY DEF NewRow
<1>2. r \in [Columns -> Int]
  BY BlankIs
<1> HIDE DEF f, r
<1>3. SameLine(e, f) /\ f.row = r /\ f.col = 0 /\ ~f.printed
  BY <1>1, <1>2 DEF EdType, SameLine
<1> QED BY <1>3 DEF f, r, Clear

\* On a blank row, writing a prompt and a text shows them.
LEMMA WriteClear ==
  ASSUME NEW e \in EdType, Clear(e), NEW q, NEW s \in Seq(Int), NEW v \in Seq(Int),
         Len(v) = Len(s) + 1, v[1] = q, \A i \in 1 .. Len(s) : v[i + 1] = s[i]
  PROVE  OnlyScreen(e, Write(e, v)) /\ OnScreen(Write(e, v), q, s, Len(s))
<1>1. OnlyScreen(e, Write(e, v))
  BY WriteIs
<1>2. ASSUME ~e.printed
      PROVE  Write(e, v).row = RowOf(q, s) /\ Write(e, v).col = Len(s) + 1
  <2>1. e.row = Blank /\ e.col = 0
    BY <1>2 DEF Clear
  <2>2. Write(e, v).row = Written(Blank, 0, v) /\ Write(e, v).col = 0 + Len(v)
    BY <1>2, <2>1, WriteIs
  <2>3. ASSUME NEW i \in Columns
        PROVE  (IF i \in 0 .. 0 + Len(v) - 1 THEN v[i - 0 + 1] ELSE Blank[i])
               = (IF i = 0 THEN q ELSE Cell(s, i))
    <3>1. i \in Nat /\ Blank[i] = SPACE /\ Len(s) \in Nat
      BY BlankIs DEF Columns
    <3>2. CASE i = 0
      BY <3>1, <3>2
    <3>3. CASE i \in 1 .. Len(s)
      <4>1. v[i + 1] = s[i] /\ i - 0 + 1 = i + 1
        BY <3>1, <3>3
      <4> QED BY <3>1, <3>3, <4>1 DEF Cell
    <3>4. CASE i > Len(s)
      BY <3>1, <3>4 DEF Cell
    <3> QED BY <3>1, <3>2, <3>3, <3>4
  <2>4. Written(Blank, 0, v) = RowOf(q, s)
    BY <2>3 DEF Written, RowOf
  <2> QED BY <2>2, <2>4
<1> QED BY <1>1, <1>2 DEF OnlyScreen, Edit, OnScreen

\* Erasing behind the text erases nothing of it.
LEMMA EraseToEndIs ==
  ASSUME NEW e \in EdType, NEW q \in Int, NEW s \in Seq(Int), OnScreen(e, q, s, Len(s))
  PROVE  OnlyScreen(e, EraseToEnd(e)) /\ OnScreen(EraseToEnd(e), q, s, Len(s))
<1> DEFINE r == [i \in Columns |-> IF i < e.col THEN e.row[i] ELSE SPACE]
           f == EraseToEnd(e)
<1>1. f = [e EXCEPT !.row = r]
  BY DEF EraseToEnd
<1>2. r \in [Columns -> Int]
  <2>1. \A i \in Columns : (IF i < e.col THEN e.row[i] ELSE SPACE) \in Int
    BY Fields DEF SPACE
  <2> QED BY <2>1
<1>3. ASSUME ~e.printed PROVE r = RowOf(q, s)
  <2>1. e.row = RowOf(q, s) /\ e.col = Len(s) + 1
    BY <1>3 DEF OnScreen
  <2>2. ASSUME NEW i \in Columns
        PROVE  (IF i < e.col THEN e.row[i] ELSE SPACE) = (IF i = 0 THEN q ELSE Cell(s, i))
    <3>1. i \in Nat /\ e.row[i] = (IF i = 0 THEN q ELSE Cell(s, i)) /\ Len(s) \in Nat
      BY <2>1 DEF RowOf, Columns
    <3>2. CASE i <= Len(s)
      BY <2>1, <3>1, <3>2
    <3>3. CASE i > Len(s)
      BY <2>1, <3>1, <3>3 DEF Cell
    <3> QED BY <3>1, <3>2, <3>3
  <2> QED BY <2>2 DEF RowOf
<1> HIDE DEF r, f
<1>4. OnlyScreen(e, f) /\ f.row = r /\ f.col = e.col
  BY <1>1, <1>2 DEF EdType, OnlyScreen, Edit
<1>5. OnScreen(f, q, s, Len(s))
  BY <1>3, <1>4 DEF OnScreen, OnlyScreen, Edit
<1> QED BY <1>4, <1>5 DEF f

\* A prompt and a text.
LEMMA PromptIs ==
  ASSUME NEW q \in Int, NEW s \in Seq(Int), NEW v, v = <<q>> \o s
  PROVE  /\ v \in Seq(Int) /\ Len(v) = Len(s) + 1 /\ v[1] = q
         /\ \A i \in 1 .. Len(s) : v[i + 1] = s[i]
<1>1. <<q>> \in Seq(Int) /\ Len(<<q>>) = 1 /\ <<q>>[1] = q
  OBVIOUS
<1> DEFINE a == <<q>>
<1> HIDE DEF a
<1>2. /\ a \o s \in Seq(Int) /\ Len(a \o s) = Len(a) + Len(s)
      /\ \A i \in 1 .. Len(a) : (a \o s)[i] = a[i]
      /\ \A i \in 1 .. Len(s) : (a \o s)[Len(a) + i] = s[i]
  BY <1>1, Joined DEF a
<1>3. Len(a) = 1 /\ a[1] = q /\ v = a \o s
  BY <1>1 DEF a
<1>4. ASSUME NEW i \in 1 .. Len(s) PROVE v[i + 1] = s[i]
  <2>1. i + 1 = Len(a) + i
    BY <1>3
  <2> QED BY <1>2, <1>3, <2>1
<1> QED BY <1>2, <1>3, <1>4

\* Prompt and line on an empty row.
LEMMA RedrawIs ==
  ASSUME NEW e \in EdType, Clear(e)
  PROVE  OnlyScreen(e, Redraw(e)) /\ LineOn(Redraw(e), 62)
<1> DEFINE t == e.input
           v == <<62>> \o t
           c == [e EXCEPT !.col = 0]
           w == Write(c, v)
           x == IF ansi THEN EraseToEnd(w) ELSE w
           k == Len(t) - e.cursor
<1>1. Redraw(e) = Back(x, k)
  BY DEF Redraw, PromptOf
<1>2. t \in Seq(Int) /\ Len(t) \in Nat /\ k \in 0 .. Len(t) /\ Len(t) - k = e.cursor /\ k \in Nat
  BY Fields
<1>3. c = [e EXCEPT !.col = 0]
  OBVIOUS
<1> HIDE DEF c
<1>4. OnlyScreen(e, c) /\ Clear(c)
  <2>1. OnlyScreen(e, c) /\ c.row = e.row /\ c.col = 0
    BY <1>3 DEF EdType, OnlyScreen, Edit
  <2> QED BY <2>1 DEF Clear, OnlyScreen, Edit
<1> HIDE DEF t, v, k
<1>5. /\ v \in Seq(Int) /\ Len(v) = Len(t) + 1 /\ v[1] = 62
      /\ \A i \in 1 .. Len(t) : v[i + 1] = t[i]
  BY <1>2, PromptIs DEF v
<1>6. OnlyScreen(c, w) /\ OnScreen(w, 62, t, Len(t))
  BY <1>2, <1>4, <1>5, WriteClear DEF OnlyScreen, Edit
<1> HIDE DEF w
<1>7. OnlyScreen(c, x) /\ OnScreen(x, 62, t, Len(t))
  <2>1. CASE ansi
    <3>1. w \in EdType
      BY <1>6 DEF OnlyScreen, Edit
    <3>2. OnlyScreen(w, EraseToEnd(w)) /\ OnScreen(EraseToEnd(w), 62, t, Len(t))
      BY <1>2, <1>6, <3>1, EraseToEndIs
    <3> QED BY <1>6, <2>1, <3>2 DEF OnlyScreen, Edit
  <2>2. CASE ~ansi
    BY <1>6, <2>2
  <2> QED BY <2>1, <2>2
<1> HIDE DEF x
<1>8. x \in EdType
  BY <1>7 DEF OnlyScreen, Edit
<1>9. OnlyScreen(x, Back(x, k))
  BY <1>2, <1>8, BackIs
<1>10. OnScreen(Back(x, k), 62, t, Len(t) - k)
  BY <1>2, <1>7, <1>8, BackOn
<1>11. OnScreen(Back(x, k), 62, t, e.cursor)
  BY <1>2, <1>10
<1> DEFINE f == Back(x, k)
<1> HIDE DEF f
<1>12. OnlyScreen(e, f)
  BY <1>4, <1>7, <1>9 DEF OnlyScreen, Edit, f
<1>13. LineOn(f, 62)
  BY <1>11, <1>12 DEF OnlyScreen, Edit, LineOn, t, f
<1> QED BY <1>1, <1>12, <1>13 DEF f

(* What the row shows under each prompt.                                   *)
Display(e, what) ==
  /\ what = "command" => LineOn(e, 62)
  /\ what = "username" => LineOn(e, 85)
  /\ what = "secret" => OnScreen(e, 80, <<>>, 0)
  /\ what = "lockout" => Clear(e)

\* What each prompt shows on an empty row.
LEMMA RedisplayIs ==
  ASSUME NEW e \in EdType, Clear(e), NEW what \in {"command", "username", "secret", "lockout"},
         what = "username" => e.cursor = Len(e.input)
  PROVE  OnlyScreen(e, Redisplay(e, what)) /\ Display(Redisplay(e, what), what)
<1>1. CASE what = "command" /\ e.input # <<>>
  <2>1. Redisplay(e, what) = Redraw(e)
    BY <1>1 DEF Redisplay
  <2> QED BY <1>1, <2>1, RedrawIs DEF Display
<1>2. CASE what = "command" /\ e.input = <<>>
  <2> DEFINE v == <<62>>
  <2>1. Redisplay(e, what) = Write(e, v)
    BY <1>2 DEF Redisplay, PromptOf
  <2>2. v \in Seq(Int) /\ Len(v) = Len(<<>>) + 1 /\ v[1] = 62
        /\ \A i \in 1 .. Len(<<>>) : v[i + 1] = <<>>[i]
    BY EmptyText
  <2> HIDE DEF v
  <2>3. OnlyScreen(e, Write(e, v)) /\ OnScreen(Write(e, v), 62, <<>>, Len(<<>>))
    BY <2>2, EmptyText, WriteClear
  <2>4. e.cursor = 0 /\ Len(<<>>) = 0
    BY <1>2, Fields, EmptyText
  <2>5. Write(e, v).input = <<>> /\ Write(e, v).cursor = Len(<<>>)
    BY <1>2, <2>3, <2>4 DEF OnlyScreen
  <2>6. LineOn(Write(e, v), 62)
    BY <2>3, <2>5 DEF LineOn
  <2> QED BY <1>2, <2>1, <2>3, <2>6 DEF Display
<1>3. CASE what = "username"
  <2> DEFINE t == e.input
             v == <<85>> \o t
  <2>1. Redisplay(e, what) = Write(e, v)
    BY <1>3 DEF Redisplay, PromptOf
  <2>2. t \in Seq(Int)
    BY Fields
  <2> HIDE DEF t, v
  <2>3. /\ v \in Seq(Int) /\ Len(v) = Len(t) + 1 /\ v[1] = 85
        /\ \A i \in 1 .. Len(t) : v[i + 1] = t[i]
    BY <2>2, PromptIs DEF v
  <2>4. OnlyScreen(e, Write(e, v)) /\ OnScreen(Write(e, v), 85, t, Len(t))
    BY ZenonT(30), <2>2, <2>3, WriteClear
  <2>5. Write(e, v).input = t /\ Write(e, v).cursor = Len(t)
    BY <1>3, <2>4 DEF OnlyScreen, t
  <2>6. LineOn(Write(e, v), 85)
    BY <2>4, <2>5 DEF LineOn
  <2> QED BY <1>3, <2>1, <2>4, <2>6 DEF Display
<1>4. CASE what = "secret"
  <2> DEFINE v == <<80>>
  <2>1. Redisplay(e, what) = Write(e, v)
    BY <1>4 DEF Redisplay, PromptOf
  <2>2. v \in Seq(Int) /\ Len(v) = Len(<<>>) + 1 /\ v[1] = 80
        /\ \A i \in 1 .. Len(<<>>) : v[i + 1] = <<>>[i]
    BY EmptyText
  <2> HIDE DEF v
  <2>3. OnlyScreen(e, Write(e, v)) /\ OnScreen(Write(e, v), 80, <<>>, Len(<<>>))
    BY <2>2, EmptyText, WriteClear
  <2>4. OnScreen(Write(e, v), 80, <<>>, 0)
    BY <2>3, EmptyText
  <2> QED BY <1>4, <2>1, <2>3, <2>4 DEF Display
<1>5. CASE what = "lockout"
  <2> DEFINE v == <<>>
             w == Write(e, v)
  <2>1. Redisplay(e, what) = Write(e, v)
    BY <1>5 DEF Redisplay, PromptOf
  <2>2. v \in Seq(Int) /\ Len(v) = 0
    BY EmptyText
  <2>3. /\ OnlyScreen(e, w)
        /\ ~e.printed => w.row = Written(e.row, e.col, v) /\ w.col = e.col + Len(v)
    BY <2>2, WriteIs
  <2> HIDE DEF v, w
  <2>4. ASSUME ~e.printed PROVE w.row = Blank /\ w.col = 0
    <3>1. e.row = Blank /\ e.col = 0
      BY <2>4 DEF Clear
    <3>2. Written(Blank, 0, v) = Blank
      <4>1. ASSUME NEW i \in Columns
            PROVE  (IF i \in 0 .. 0 + Len(v) - 1 THEN v[i - 0 + 1] ELSE Blank[i]) = SPACE
        BY <2>2, BlankIs DEF Columns
      <4> QED BY <4>1 DEF Written, Blank
    <3> QED BY <2>2, <2>3, <2>4, <3>1, <3>2
  <2>5. Clear(w)
    BY <2>3, <2>4 DEF Clear, OnlyScreen, Edit
  <2> QED BY <1>5, <2>1, <2>3, <2>5 DEF Display, w
<1> QED BY <1>1, <1>2, <1>3, <1>4, <1>5

-----------------------------------------------------------------------------
(* Induction, and several backspaces                                       *)

\* What holds of 0 and is handed on from n - 1 to n holds up to N.
LEMMA Induction ==
  ASSUME NEW N \in Nat, NEW S, 0 \in S, \A n \in 1 .. N : n - 1 \in S => n \in S
  PROVE  \A n \in 0 .. N : n \in S
<1> DEFINE T == (0 .. N) \ S
<1> SUFFICES ASSUME T # {} PROVE FALSE
  OBVIOUS
<1>1. T \subseteq Nat
  OBVIOUS
<1> HIDE DEF T
<1>2. PICK x \in T : \A y \in T : <<y, x>> \notin OpToRel(<, Nat)
  BY <1>1, WFMin, NatLessThanWellFounded
<1>3. \A y \in T : ~ (y < x)
  BY <1>1, <1>2 DEF OpToRel
<1> USE DEF T
<1>4. x \in 1 .. N /\ x - 1 \in 0 .. N
  OBVIOUS
<1>5. x - 1 \in S
  BY <1>3, <1>4
<1> QED BY <1>4, <1>5

\* A non-empty set of numbers has a least one.
LEMMA Least ==
  ASSUME NEW S, S \subseteq Nat, S # {}
  PROVE  \E x \in S : \A y \in S : x <= y
<1>1. PICK x \in S : \A y \in S : <<y, x>> \notin OpToRel(<, Nat)
  BY WFMin, NatLessThanWellFounded
<1>2. \A y \in S : ~ (y < x)
  BY <1>1 DEF OpToRel
<1> QED BY <1>2

\* And a greatest, if it is bounded.
LEMMA Greatest ==
  ASSUME NEW N \in Nat, NEW S, S \subseteq 0 .. N, S # {}
  PROVE  \E x \in S : \A y \in S : y <= x
<1> DEFINE T == {k \in 0 .. N : N - k \in S}
<1>1. PICK s \in S : TRUE
  OBVIOUS
<1>2. N - s \in T
  BY <1>1
<1>3. T \subseteq Nat /\ T # {}
  BY <1>2
<1>4. PICK x \in T : \A y \in T : x <= y
  <2> HIDE DEF T
  <2> QED BY <1>3, Least
<1>5. N - x \in S /\ x \in 0 .. N
  BY <1>4
<1>6. ASSUME NEW y \in S PROVE y <= N - x
  <2>1. N - y \in T /\ y \in 0 .. N
    OBVIOUS
  <2>2. x <= N - y
    BY <1>4, <2>1
  <2> QED BY <1>5, <2>1, <2>2
<1> QED BY <1>5, <1>6

\* A function that is given step by step exists.
Iterates(g, N, e, F) == g[0] = e /\ \A i \in 1 .. N : g[i] = F[i][g[i - 1]]

\* A function that is given step by step exists.
LEMMA Iterated ==
  ASSUME NEW N \in Nat, NEW D, NEW e \in D, NEW F \in [1 .. N -> [D -> D]]
  PROVE  \E g \in [0 .. N -> D] : Iterates(g, N, e, F)
<1> DEFINE UpTo(k, g) == g[0] = e /\ \A i \in 1 .. k : g[i] = F[i][g[i - 1]]
           S == {k \in 0 .. N : \E g \in [0 .. N -> D] : UpTo(k, g)}
<1>1. 0 \in S
  <2> DEFINE g == [i \in 0 .. N |-> e]
  <2>1. g \in [0 .. N -> D] /\ UpTo(0, g)
    OBVIOUS
  <2> HIDE DEF g, UpTo
  <2> QED BY <2>1
<1>2. ASSUME NEW k \in 1 .. N, k - 1 \in S PROVE k \in S
  <2>1. PICK g \in [0 .. N -> D] : UpTo(k - 1, g)
    BY <1>2
  <2> DEFINE h == [g EXCEPT ![k] = F[k][g[k - 1]]]
  <2>2. k - 1 \in 0 .. N /\ k \in 0 .. N /\ g[k - 1] \in D
    OBVIOUS
  <2>3. F[k][g[k - 1]] \in D
    BY <2>2
  <2>4. h \in [0 .. N -> D]
    BY <2>3
  <2>5. UpTo(k, h)
    <3>1. h[0] = e
      BY <2>1
    <3>2. ASSUME NEW i \in 1 .. k PROVE h[i] = F[i][h[i - 1]]
      <4>1. i - 1 # k /\ i - 1 \in 0 .. N /\ i \in 0 .. N /\ h[i - 1] = g[i - 1]
        OBVIOUS
      <4>2. CASE i = k
        BY <4>1, <4>2
      <4>3. CASE i # k
        <5>1. i \in 1 .. k - 1 /\ h[i] = g[i]
          BY <4>1, <4>3
        <5> QED BY <2>1, <4>1, <5>1
      <4> QED BY <4>2, <4>3
    <3> QED BY <3>1, <3>2
  <2> HIDE DEF h, UpTo
  <2> QED BY <2>2, <2>4, <2>5
<1>3. N \in S
  <2> HIDE DEF S
  <2>1. N \in 0 .. N
    OBVIOUS
  <2> QED BY <1>1, <1>2, <2>1, Induction
<1> QED BY <1>3 DEF Iterates

\* A text in two pieces.
LEMMA Halves ==
  ASSUME NEW a \in Seq(Int), NEW b \in Seq(Int), NEW c \in 0 .. Len(a)
  PROVE  /\ SubSeq(a \o b, 1, c) = SubSeq(a, 1, c)
         /\ SubSeq(a \o b, Len(a) + 1, Len(a \o b)) = b
         /\ SubSeq(a \o b, 1, Len(a)) = a
<1>1. /\ a \o b \in Seq(Int) /\ Len(a \o b) = Len(a) + Len(b)
      /\ \A i \in 1 .. Len(a) : (a \o b)[i] = a[i]
      /\ \A i \in 1 .. Len(b) : (a \o b)[Len(a) + i] = b[i]
  BY Joined
<1> DEFINE t == a \o b
<1>2. Len(a) \in 0 .. Len(t) /\ c \in 0 .. Len(t) /\ Len(t) - Len(a) = Len(b)
      /\ Len(a) \in 0 .. Len(a)
  BY <1>1
<1> HIDE DEF t
<1>3. t \in Seq(Int)
  BY <1>1 DEF t
<1>4. SubSeq(t, 1, c) = SubSeq(a, 1, c)
  <2>1. SubSeq(t, 1, c) \in Seq(Int) /\ Len(SubSeq(t, 1, c)) = c
        /\ \A i \in 1 .. c : SubSeq(t, 1, c)[i] = t[i]
    BY <1>2, <1>3, Prefix
  <2>2. SubSeq(a, 1, c) \in Seq(Int) /\ Len(SubSeq(a, 1, c)) = c
        /\ \A i \in 1 .. c : SubSeq(a, 1, c)[i] = a[i]
    BY Prefix
  <2>3. \A i \in 1 .. c : t[i] = a[i]
    BY <1>1 DEF t
  <2> QED BY <2>1, <2>2, <2>3, SeqEqual
<1>5. SubSeq(t, Len(a) + 1, Len(t)) = b
  <2> DEFINE r == SubSeq(t, Len(a) + 1, Len(t))
  <2>1. r \in Seq(Int) /\ Len(r) = Len(t) - Len(a)
        /\ \A i \in 1 .. Len(t) - Len(a) : r[i] = t[Len(a) + i]
    BY <1>2, <1>3, Suffix
  <2> HIDE DEF r
  <2>2. \A i \in 1 .. Len(b) : r[i] = b[i]
    BY <1>1, <1>2, <2>1 DEF t
  <2>3. r = b
    BY <1>2, <2>1, <2>2, SeqEqual
  <2> QED BY <2>3 DEF r
<1>6. SubSeq(t, 1, Len(a)) = a
  <2> DEFINE r == SubSeq(t, 1, Len(a))
  <2>1. r \in Seq(Int) /\ Len(r) = Len(a) /\ \A i \in 1 .. Len(a) : r[i] = t[i]
    BY <1>2, <1>3, Prefix
  <2> HIDE DEF r
  <2>2. r = a
    BY <1>1, <2>1, SeqEqual DEF t
  <2> QED BY <2>2 DEF r
<1> QED BY <1>4, <1>5, <1>6 DEF t

\* A text is its two parts.
LEMMA Whole ==
  ASSUME NEW t \in Seq(Int), NEW c \in 0 .. Len(t)
  PROVE  t = SubSeq(t, 1, c) \o SubSeq(t, c + 1, Len(t))
<1> DEFINE n == Len(t)
<1>1. 1 \in 1 .. Len(t) + 1 /\ c \in 1 - 1 .. Len(t) /\ n \in c .. Len(t)
  OBVIOUS
<1> HIDE DEF n
<1>2. SubSeq(t, 1, c) \o SubSeq(t, c + 1, n) = SubSeq(t, 1, n)
  BY <1>1, ConcatAdjacentSubSeq
<1> QED BY <1>2, SubSeqFull DEF n

\* The beginning of the beginning.
LEMMA PrefixOfPrefix ==
  ASSUME NEW t \in Seq(Int), NEW c \in 0 .. Len(t), NEW d \in 0 .. c
  PROVE  SubSeq(SubSeq(t, 1, c), 1, d) = SubSeq(t, 1, d)
<1> DEFINE a == SubSeq(t, 1, c)
           r == SubSeq(a, 1, d)
           u == SubSeq(t, 1, d)
<1>1. a \in Seq(Int) /\ Len(a) = c /\ \A i \in 1 .. c : a[i] = t[i]
  BY Prefix
<1>2. u \in Seq(Int) /\ Len(u) = d /\ \A i \in 1 .. d : u[i] = t[i]
  BY Prefix
<1> HIDE DEF a, u
<1>3. r \in Seq(Int) /\ Len(r) = d /\ \A i \in 1 .. d : r[i] = a[i]
  BY <1>1, Prefix
<1> HIDE DEF r
<1>4. ASSUME NEW i \in 1 .. d PROVE r[i] = u[i]
  <2>1. i \in 1 .. c
    OBVIOUS
  <2> QED BY <1>1, <1>2, <1>3, <2>1
<1>5. r = u
  BY <1>2, <1>3, <1>4, SeqEqual
<1> QED BY <1>5 DEF r, a, u

\* Several characters deleted in front of the cursor.
LEMMA BackspacesIs ==
  ASSUME NEW e \in EdType, NEW n \in 0 .. e.cursor, NEW q
  PROVE  /\ Edit(e, Backspaces(e, n)) /\ Backspaces(e, n).cursor = e.cursor - n
         /\ Backspaces(e, n).input = SubSeq(e.input, 1, e.cursor - n) \o Behind(e)
         /\ LineOn(e, q) => LineOn(Backspaces(e, n), q)
<1> DEFINE Eq(g) == g = [i \in 0 .. n |-> IF i = 0 THEN e ELSE Backspace(g[i - 1])]
           done == CHOOSE g : Eq(g)
           t == e.input
           p == e.cursor
           b == Behind(e)
           Reached(i) == /\ Edit(e, done[i]) /\ done[i].cursor = p - i
                         /\ done[i].input = SubSeq(t, 1, p - i) \o b
                         /\ LineOn(e, q) => LineOn(done[i], q)
           S == {i \in 0 .. n : Reached(i)}
<1>1. t \in Seq(Int) /\ p \in 0 .. Len(t) /\ p \in Nat /\ Len(t) \in Nat /\ n \in Nat
  BY Fields
<1>2. b \in Seq(Int) /\ t = SubSeq(t, 1, p) \o b
  <2>1. b = SubSeq(t, p + 1, Len(t))
    BY DEF Behind
  <2> HIDE DEF t, p, b
  <2> QED BY <1>1, <2>1, Suffix, Whole
<1> HIDE DEF t, p, b
<1>3. Eq(done)
  <2> DEFINE F == [i \in 1 .. n |-> [x \in EdType |-> Backspace(x)]]
  <2>1. \A x \in EdType : Backspace(x) \in EdType
    BY BackspaceIs DEF Edit
  <2>2. F \in [1 .. n -> [EdType -> EdType]]
    BY <2>1
  <2>3. PICK g \in [0 .. n -> EdType] : Iterates(g, n, e, F)
    <3> HIDE DEF F
    <3> QED BY <1>1, <2>2, Iterated
  <2>4. g[0] = e /\ \A i \in 1 .. n : g[i] = Backspace(g[i - 1])
    <3>1. ASSUME NEW i \in 1 .. n PROVE g[i] = Backspace(g[i - 1])
      <4>1. i - 1 \in 0 .. n
        BY <1>1
      <4>2. g[i - 1] \in EdType
        BY <4>1
      <4>3. F[i][g[i - 1]] = Backspace(g[i - 1])
        BY <4>2
      <4> QED BY <2>3, <4>3 DEF Iterates
    <3> QED BY <2>3, <3>1 DEF Iterates
  <2>5. Eq(g)
    BY <2>4
  <2> HIDE DEF Eq
  <2> QED BY <2>5
<1>4. Backspaces(e, n) = done[n]
  BY DEF Backspaces
<1> HIDE DEF done
<1>5. done[0] = e /\ \A i \in 1 .. n : done[i] = Backspace(done[i - 1])
  BY <1>1, <1>3
<1>6. 0 \in S
  <2>1. p - 0 = p
    BY <1>1
  <2>2. Reached(0)
    BY <1>1, <1>2, <1>5, <2>1 DEF Edit, t, p
  <2> HIDE DEF Reached
  <2> QED BY <1>1, <2>2
<1>7. ASSUME NEW i \in 1 .. n, i - 1 \in S PROVE i \in S
  <2> DEFINE x == done[i - 1]
             c == p - (i - 1)
             a == SubSeq(t, 1, c)
  <2>1. /\ Edit(e, x) /\ x.cursor = c /\ x.input = a \o b
        /\ LineOn(e, q) => LineOn(x, q)
    BY <1>7
  <2>2. done[i] = Backspace(x)
    BY <1>5
  <2>3. c \in 1 .. p /\ c \in 0 .. Len(t) /\ c - 1 = p - i /\ c - 1 \in 0 .. c /\ n <= p
    BY <1>1 DEF p
  <2> HIDE DEF x, c, a
  <2>4. a \in Seq(Int) /\ Len(a) = c
    BY <1>1, <2>3, Prefix DEF a
  <2>5. /\ SubSeq(a \o b, 1, c - 1) = SubSeq(a, 1, c - 1)
        /\ SubSeq(a \o b, Len(a) + 1, Len(a \o b)) = b
    BY <1>2, <2>3, <2>4, Halves
  <2>6. SubSeq(a, 1, c - 1) = SubSeq(t, 1, c - 1)
    BY <1>1, <2>3, PrefixOfPrefix DEF a
  <2>7. Behind(x) = b
    BY <2>1, <2>4, <2>5 DEF Behind
  <2>8. x \in EdType /\ x.cursor > 0
    BY <2>1, <2>3 DEF Edit
  <2>9. /\ Edit(x, Backspace(x))
        /\ Backspace(x).input = SubSeq(x.input, 1, x.cursor - 1) \o Behind(x)
        /\ Backspace(x).cursor = x.cursor - 1
        /\ LineOn(x, q) => LineOn(Backspace(x), q)
    BY <2>8, BackspaceIs
  <2>10. Backspace(x).input = SubSeq(t, 1, p - i) \o b /\ Backspace(x).cursor = p - i
    BY <2>1, <2>3, <2>5, <2>6, <2>7, <2>9
  <2>11. Reached(i)
    BY <2>1, <2>2, <2>9, <2>10 DEF Edit
  <2> HIDE DEF Reached
  <2> QED BY <1>1, <2>11
<1>8. n \in S
  <2> HIDE DEF S
  <2>1. n \in 0 .. n
    BY <1>1
  <2> QED BY <1>1, <1>6, <1>7, <2>1, Induction
<1> QED BY <1>4, <1>8 DEF t, p, b

-----------------------------------------------------------------------------
(* Several characters                                                      *)

\* The two halves of a line around its cursor.
LEMMA Around ==
  ASSUME NEW e \in EdType
  PROVE  /\ InFront(e) \in Seq(Int) /\ Len(InFront(e)) = e.cursor
         /\ Behind(e) \in Seq(Int) /\ Len(Behind(e)) = Len(e.input) - e.cursor
         /\ e.input = InFront(e) \o Behind(e)
         /\ \A i \in 1 .. e.cursor : InFront(e)[i] = e.input[i]
         /\ \A i \in 1 .. Len(e.input) - e.cursor : Behind(e)[i] = e.input[e.cursor + i]
<1> DEFINE t == e.input
           c == e.cursor
<1>1. t \in Seq(Int) /\ c \in 0 .. Len(t)
  BY Fields
<1>2. InFront(e) = SubSeq(t, 1, c) /\ Behind(e) = SubSeq(t, c + 1, Len(t))
  BY DEF InFront, Behind
<1> HIDE DEF t, c
<1>3. /\ InFront(e) \in Seq(Int) /\ Len(InFront(e)) = c
      /\ Behind(e) \in Seq(Int) /\ Len(Behind(e)) = Len(t) - c
      /\ \A i \in 1 .. c : InFront(e)[i] = t[i]
      /\ \A i \in 1 .. Len(t) - c : Behind(e)[i] = t[c + i]
  BY <1>1, <1>2, Prefix, Suffix
<1>4. t = InFront(e) \o Behind(e)
  BY <1>1, <1>2, Whole
<1> QED BY <1>3, <1>4 DEF t, c

\* The halves of a line given by them.
LEMMA AroundIs ==
  ASSUME NEW e, NEW a \in Seq(Int), NEW b \in Seq(Int), e.input = a \o b, e.cursor = Len(a)
  PROVE  InFront(e) = a /\ Behind(e) = b
<1>1. Len(a) \in 0 .. Len(a)
  OBVIOUS
<1> QED BY <1>1, Halves DEF InFront, Behind

\* Several characters inserted, when all fit.
LEMMA InsertIs ==
  ASSUME NEW e \in EdType, NEW s \in Seq(Int), Len(e.input) + Len(s) <= Size - 1, NEW q
  PROVE  /\ Edit(e, Insert(e, s))
         /\ InFront(Insert(e, s)) = InFront(e) \o s /\ Behind(Insert(e, s)) = Behind(e)
         /\ LineOn(e, q) => LineOn(Insert(e, s), q)
<1> DEFINE n == Len(s)
           Eq(g) == g = [i \in 0 .. n |-> IF i = 0 THEN e ELSE InsertChar(g[i - 1], s[i])]
           done == CHOOSE g : Eq(g)
           a == InFront(e)
           b == Behind(e)
           Reached(i) == /\ Edit(e, done[i]) /\ Len(done[i].input) = Len(e.input) + i
                         /\ InFront(done[i]) = a \o SubSeq(s, 1, i) /\ Behind(done[i]) = b
                         /\ LineOn(e, q) => LineOn(done[i], q)
           S == {i \in 0 .. n : Reached(i)}
<1>1. n \in Nat /\ Len(e.input) \in Nat /\ Size - 1 \in Nat
  BY Fields, EditorAssumption
<1>2. a \in Seq(Int) /\ b \in Seq(Int)
  BY Around
<1>3. Eq(done)
  <2> DEFINE F == [i \in 1 .. n |-> [x \in EdType |-> InsertChar(x, s[i])]]
  <2>1. ASSUME NEW i \in 1 .. n, NEW x \in EdType PROVE InsertChar(x, s[i]) \in EdType
    <3>1. s[i] \in Int
      OBVIOUS
    <3> QED BY <3>1, InsertCharIs DEF Edit
  <2>2. F \in [1 .. n -> [EdType -> EdType]]
    BY <2>1
  <2>3. PICK g \in [0 .. n -> EdType] : Iterates(g, n, e, F)
    <3> HIDE DEF F, n
    <3> QED BY <1>1, <2>2, Iterated
  <2>4. g[0] = e /\ \A i \in 1 .. n : g[i] = InsertChar(g[i - 1], s[i])
    <3>1. ASSUME NEW i \in 1 .. n PROVE g[i] = InsertChar(g[i - 1], s[i])
      <4>1. i - 1 \in 0 .. n
        BY <1>1
      <4>2. g[i - 1] \in EdType
        BY <4>1
      <4>3. F[i][g[i - 1]] = InsertChar(g[i - 1], s[i])
        BY <4>2
      <4> QED BY <2>3, <4>3 DEF Iterates
    <3> QED BY <2>3, <3>1 DEF Iterates
  <2>5. Eq(g)
    BY <2>4
  <2> HIDE DEF Eq
  <2> QED BY <2>5
<1>4. Insert(e, s) = done[n]
  BY DEF Insert
<1> HIDE DEF done, n
<1>5. done[0] = e /\ \A i \in 1 .. n : done[i] = InsertChar(done[i - 1], s[i])
  BY <1>1, <1>3
<1> HIDE DEF a, b
<1>6. 0 \in S
  <2>0. SubSeq(s, 1, 0) = <<>>
    BY SubSeqEmpty
  <2>1. a \o <<>> = a
    BY <1>2, ConcatEmptySeq
  <2>2. a \o SubSeq(s, 1, 0) = a /\ Len(e.input) + 0 = Len(e.input) /\ done[0] = e
    <3>1. a \o SubSeq(s, 1, 0) = a
      BY <2>0, <2>1, Zenon
    <3>2. Len(e.input) + 0 = Len(e.input)
      BY <1>1
    <3>3. done[0] = e
      BY <1>5
    <3> QED BY <3>1, <3>2, <3>3
  <2>3. InFront(e) = a /\ Behind(e) = b /\ Edit(e, e)
    BY DEF a, b, Edit
  <2>4. Reached(0)
    BY <2>2, <2>3
  <2> HIDE DEF Reached
  <2> QED BY <1>1, <2>4
<1>7. ASSUME NEW i \in 1 .. n, i - 1 \in S PROVE i \in S
  <2> DEFINE x == done[i - 1]
             c == s[i]
             f == InsertChar(x, c)
             u == SubSeq(s, 1, i - 1)
  <2>1. /\ Edit(e, x) /\ Len(x.input) = Len(e.input) + (i - 1)
        /\ InFront(x) = a \o u /\ Behind(x) = b
        /\ LineOn(e, q) => LineOn(x, q)
    BY <1>7
  <2>2. done[i] = f
    BY <1>5
  <2>3. c \in Int /\ i \in 1 .. Len(s) /\ i - 1 \in 0 .. Len(s)
    BY <1>1 DEF n
  <2>4. u \in Seq(Int)
    <3> DEFINE j == i - 1
    <3>1. j \in 0 .. Len(s)
      BY <2>3
    <3> HIDE DEF j
    <3>2. SubSeq(s, 1, j) \in Seq(Int)
      BY <3>1, Prefix
    <3> QED BY <3>2 DEF j
  <2>5. SubSeq(s, 1, i) = u \o <<c>>
    <3>1. 1 \in 1 .. Len(s) /\ i \in 1 .. Len(s)
      BY <2>3
    <3> QED BY <3>1, SubSeqRecursiveSecond
  <2> HIDE DEF x, c, u
  <2>6. x \in EdType /\ Len(x.input) < Size - 1
    BY <1>1, <2>1, <2>3 DEF Edit, n
  <2> HIDE DEF f
  <2>7. /\ Edit(x, f) /\ f.input = InFront(x) \o <<c>> \o Behind(x) /\ f.cursor = x.cursor + 1
        /\ LineOn(x, q) => LineOn(f, q)
    BY <2>3, <2>6, InsertCharIs DEF f
  <2> DEFINE v == (a \o u) \o <<c>>
  <2>8. v = a \o SubSeq(s, 1, i)
    <3>1. <<c>> \in Seq(Int)
      BY <2>3
    <3> DEFINE w == <<c>>
    <3> HIDE DEF w
    <3>2. (a \o u) \o w = a \o (u \o w)
      BY <1>2, <2>4, <3>1, ConcatAssociative DEF w
    <3> QED BY <2>5, <3>2 DEF w
  <2>9. v \in Seq(Int) /\ Len(v) = x.cursor + 1
    <3>1. <<c>> \in Seq(Int) /\ Len(<<c>>) = 1
      BY <2>3
    <3> DEFINE w == <<c>>
               z == a \o u
    <3> HIDE DEF w, z
    <3>2. z \in Seq(Int) /\ Len(z) = x.cursor
      BY <1>2, <2>1, <2>4, <2>6, Around DEF z
    <3>3. z \o w \in Seq(Int) /\ Len(z \o w) = Len(z) + Len(w)
      BY <3>1, <3>2, Joined DEF w
    <3> QED BY <3>1, <3>2, <3>3 DEF z, w
  <2>10. f.input = v \o b /\ f.cursor = Len(v)
    BY <2>1, <2>7, <2>9
  <2> HIDE DEF v
  <2>11. InFront(f) = v /\ Behind(f) = b
    BY <1>2, <2>9, <2>10, AroundIs
  <2>12. Len(f.input) = Len(e.input) + i
    <3>1. Len(v \o b) = Len(v) + Len(b)
      BY <1>2, <2>9, Joined
    <3>2. Len(b) = Len(x.input) - x.cursor /\ x.cursor \in Nat
      BY <2>1, <2>6, Around, Fields
    <3>3. Len(x.input) \in Nat /\ Len(x.input) = Len(e.input) + (i - 1) /\ i \in Nat
      BY <1>1, <2>1, <2>6, Fields
    <3>4. Len(f.input) = (x.cursor + 1) + (Len(x.input) - x.cursor)
      BY <2>9, <2>10, <3>1, <3>2
    <3> QED BY SMTT(30), <1>1, <3>2, <3>3, <3>4
  <2>13. Reached(i)
    BY <2>1, <2>2, <2>7, <2>8, <2>11, <2>12 DEF Edit
  <2> HIDE DEF Reached
  <2> QED BY <1>1, <2>13
<1>8. n \in S
  <2> HIDE DEF S
  <2>1. n \in 0 .. n
    BY <1>1
  <2> QED BY <1>1, <1>6, <1>7, <2>1, Induction
<1>9. SubSeq(s, 1, n) = s
  BY SubSeqFull DEF n
<1> QED BY <1>4, <1>8, <1>9 DEF a, b

-----------------------------------------------------------------------------
(* Words                                                                   *)

\* Backspace, space, backspace: the last character of what a row shows goes.
LEMMA RubOne ==
  ASSUME NEW e \in EdType, NEW q, NEW u \in Seq(Int), Len(u) > 0, NEW y,
         y = Back(Write(Back(e, 1), <<SPACE>>), 1)
  PROVE  /\ OnlyScreen(e, y)
         /\ OnScreen(e, q, u, Len(u)) => OnScreen(y, q, SubSeq(u, 1, Len(u) - 1), Len(u) - 1)
<1> DEFINE m == Len(u)
           r == SubSeq(u, 1, m - 1)
           s == <<SPACE>>
           b == Back(e, 1)
           w == Write(b, s)
<1>1. m \in Nat /\ m - 1 \in Nat /\ m - 1 \in 0 .. Len(u) /\ 1 \in 0 .. m /\ m = Len(u)
  OBVIOUS
<1>2. s \in Seq(Int) /\ Len(s) = 1 /\ s[1] = SPACE
  BY DEF SPACE
<1>3. r \in Seq(Int) /\ Len(r) = m - 1 /\ \A i \in 1 .. m - 1 : r[i] = u[i]
  <2> DEFINE k == m - 1
  <2>1. k \in 0 .. Len(u)
    BY <1>1
  <2> HIDE DEF k
  <2>2. SubSeq(u, 1, k) \in Seq(Int) /\ Len(SubSeq(u, 1, k)) = k
        /\ \A i \in 1 .. k : SubSeq(u, 1, k)[i] = u[i]
    BY <2>1, Prefix
  <2> QED BY <2>2 DEF k
<1>4. y = Back(w, 1)
  OBVIOUS
<1> HIDE DEF m, r, s
<1>5. OnlyScreen(e, b)
  BY BackIs
<1>6. OnlyScreen(b, w)
  BY <1>2, <1>5, WriteIs DEF OnlyScreen, Edit
<1>7. OnlyScreen(w, y)
  BY SMTT(30), <1>4, <1>6, BackIs DEF OnlyScreen, Edit
<1>8. ASSUME OnScreen(e, q, u, m) PROVE OnScreen(y, q, r, m - 1)
  <2>1. OnScreen(b, q, u, m - 1) /\ b \in EdType
    <3> DEFINE k == 1
    <3>1. m \in Nat /\ k \in 0 .. m
      BY <1>1
    <3> HIDE DEF k, b
    <3>2. OnScreen(Back(e, k), q, u, m - k)
      BY <1>8, <3>1, BackOn
    <3> QED BY <1>5, <3>2 DEF OnlyScreen, Edit, k, b
  <2> HIDE DEF b
  <2>2. ASSUME NEW i \in 1 .. m - 1 PROVE Cell(r, i) = Cell(u, i)
    <3>1. i <= Len(r) /\ i <= Len(u) /\ r[i] = u[i]
      BY <1>1, <1>3
    <3> QED BY <3>1 DEF Cell
  <2>3. \A i \in 1 .. Len(s) : s[i] = Cell(r, (m - 1) + i)
    BY <1>1, <1>2, <1>3 DEF Cell
  <2>4. \A i \in Nat : i > (m - 1) + Len(s) => Cell(r, i) = Cell(u, i)
    BY <1>1, <1>2, <1>3 DEF Cell
  <2> DEFINE k == m - 1
  <2>5. /\ k \in Nat /\ OnScreen(b, q, u, k) /\ \A i \in 1 .. k : Cell(r, i) = Cell(u, i)
        /\ \A i \in 1 .. Len(s) : s[i] = Cell(r, k + i)
        /\ \A i \in Nat : i > k + Len(s) => Cell(r, i) = Cell(u, i)
    BY <1>1, <2>1, <2>2, <2>3, <2>4
  <2> HIDE DEF k
  <2>6. OnScreen(Write(b, s), q, r, k + Len(s))
    BY <1>2, <1>3, <2>1, <2>5, WriteOn
  <2>7. k + Len(s) = m
    BY <1>1, <1>2 DEF k
  <2>8. OnScreen(w, q, r, m) /\ w \in EdType
    BY <1>6, <2>6, <2>7 DEF OnlyScreen, Edit
  <2> HIDE DEF w
  <2>9. OnScreen(Back(w, 1), q, r, m - 1)
    BY <1>1, <2>8, BackOn
  <2> QED BY <1>4, <2>9
<1>9. OnlyScreen(e, y)
  BY <1>5, <1>6, <1>7 DEF OnlyScreen, Edit
<1> QED BY <1>8, <1>9 DEF r, m

\* Characters rubbed out at the end of a row.
LEMMA RubbedIs ==
  ASSUME NEW e \in EdType, NEW q, NEW t \in Seq(Int), NEW n \in 0 .. Len(t)
  PROVE  /\ OnlyScreen(e, Rubbed(e, n))
         /\ OnScreen(e, q, t, Len(t))
              => OnScreen(Rubbed(e, n), q, SubSeq(t, 1, Len(t) - n), Len(t) - n)
<1> DEFINE Rub(x) == Back(Write(Back(x, 1), <<SPACE>>), 1)
           Eq(g) == g = [i \in 0 .. n |-> IF i = 0 THEN e ELSE Rub(g[i - 1])]
           done == CHOOSE g : Eq(g)
           m == Len(t)
           Reached(i) == /\ OnlyScreen(e, done[i])
                         /\ OnScreen(e, q, t, m) => OnScreen(done[i], q, SubSeq(t, 1, m - i), m - i)
           S == {i \in 0 .. n : Reached(i)}
<1>1. m \in Nat /\ n \in Nat
  OBVIOUS
<1>2. \A x \in EdType : Rub(x) \in EdType
  <2>1. ASSUME NEW x \in EdType PROVE Rub(x) \in EdType
    <3> DEFINE u == <<SPACE>>
               y == Rub(x)
    <3>1. u \in Seq(Int) /\ Len(u) > 0 /\ y = Back(Write(Back(x, 1), u), 1)
      BY DEF SPACE
    <3>2. y = Back(Write(Back(x, 1), <<SPACE>>), 1)
      OBVIOUS
    <3> HIDE DEF y, u
    <3>3. OnlyScreen(x, y)
      BY <3>1, <3>2, RubOne
    <3> QED BY <3>3 DEF OnlyScreen, Edit, y
  <2> HIDE DEF Rub
  <2> QED BY <2>1
<1>3. Eq(done)
  <2> DEFINE F == [i \in 1 .. n |-> [x \in EdType |-> Rub(x)]]
  <2> HIDE DEF Rub
  <2>1. F \in [1 .. n -> [EdType -> EdType]]
    BY <1>2
  <2>2. PICK g \in [0 .. n -> EdType] : Iterates(g, n, e, F)
    <3> HIDE DEF F
    <3> QED BY <1>1, <2>1, Iterated
  <2>3. g[0] = e /\ \A i \in 1 .. n : g[i] = Rub(g[i - 1])
    <3>1. ASSUME NEW i \in 1 .. n PROVE g[i] = Rub(g[i - 1])
      <4>1. i - 1 \in 0 .. n
        BY <1>1
      <4>2. g[i - 1] \in EdType
        BY <4>1
      <4>3. F[i][g[i - 1]] = Rub(g[i - 1])
        BY <4>2
      <4> QED BY <2>2, <4>3 DEF Iterates
    <3> QED BY <2>2, <3>1 DEF Iterates
  <2>4. Eq(g)
    BY <2>3
  <2> HIDE DEF Eq
  <2> QED BY <2>4
<1>4. Rubbed(e, n) = done[n]
  BY DEF Rubbed
<1> HIDE DEF done
<1>5. done[0] = e /\ \A i \in 1 .. n : done[i] = Rub(done[i - 1])
  <2> HIDE DEF Rub
  <2> QED BY <1>1, <1>3
<1>6. 0 \in S
  <2>1. SubSeq(t, 1, m) = t /\ m - 0 = m
    BY <1>1, SubSeqFull
  <2>2. Reached(0)
    BY <1>5, <2>1 DEF OnlyScreen, Edit
  <2> HIDE DEF Reached
  <2> QED BY <1>1, <2>2
<1>7. ASSUME NEW i \in 1 .. n, i - 1 \in S PROVE i \in S
  <2> DEFINE x == done[i - 1]
             c == m - (i - 1)
             u == SubSeq(t, 1, c)
             y == done[i]
  <2>1. OnlyScreen(e, x) /\ (OnScreen(e, q, t, m) => OnScreen(x, q, u, c))
    BY <1>7
  <2>2. y = Back(Write(Back(x, 1), <<SPACE>>), 1)
    BY <1>5
  <2>3. c \in 0 .. Len(t) /\ c > 0 /\ c - 1 = m - i /\ c - 1 \in 0 .. c
    BY <1>1
  <2> HIDE DEF x, c, y
  <2>4. u \in Seq(Int) /\ Len(u) = c
    BY <2>3, Prefix
  <2>5. SubSeq(u, 1, c - 1) = SubSeq(t, 1, c - 1)
    BY <2>3, PrefixOfPrefix
  <2> HIDE DEF u
  <2>6. /\ OnlyScreen(x, y)
        /\ OnScreen(x, q, u, Len(u)) => OnScreen(y, q, SubSeq(u, 1, Len(u) - 1), Len(u) - 1)
    BY <2>1, <2>2, <2>3, <2>4, RubOne DEF OnlyScreen, Edit
  <2>7. OnScreen(x, q, u, c) => OnScreen(y, q, SubSeq(t, 1, m - i), m - i)
    BY <2>3, <2>4, <2>5, <2>6
  <2>8. OnlyScreen(e, y)
    BY <2>1, <2>6 DEF OnlyScreen, Edit
  <2>9. Reached(i)
    BY <2>1, <2>7, <2>8 DEF y
  <2> HIDE DEF Reached
  <2> QED BY <1>1, <2>9
<1>8. n \in S
  <2> HIDE DEF S
  <2>1. n \in 0 .. n
    BY <1>1
  <2> QED BY <1>1, <1>6, <1>7, <2>1, Induction
<1> QED BY <1>4, <1>8

\* Where a run of spaces, or of other characters, begins.
LEMMA RunStartIs ==
  ASSUME NEW e \in EdType, NEW pos \in 0 .. Len(e.input), NEW spaces \in BOOLEAN
  PROVE  /\ RunStart(e, pos, spaces) \in 0 .. pos
         /\ \A j \in RunStart(e, pos, spaces) + 1 .. pos : (e.input[j] = SPACE) = spaces
         /\ RunStart(e, pos, spaces) > 0 => (e.input[RunStart(e, pos, spaces)] = SPACE) # spaces
<1> DEFINE Is(j) == (e.input[j] = SPACE) = spaces
           P(i) == /\ \A j \in i + 1 .. pos : (e.input[j] = SPACE) = spaces
                   /\ i > 0 => (e.input[i] = SPACE) # spaces
           S == {i \in 0 .. pos : i > 0 => ~Is(i)}
           r == CHOOSE i \in 0 .. pos : P(i)
<1>1. pos \in Nat
  BY Fields
<1>2. S \subseteq 0 .. pos /\ 0 \in S
  BY <1>1
<1>3. PICK i \in S : \A j \in S : j <= i
  <2> HIDE DEF S
  <2>1. S # {}
    BY <1>2
  <2> QED BY <1>1, <1>2, <2>1, Greatest
<1>4. i \in 0 .. pos
  BY <1>2
<1>5. ASSUME NEW j \in i + 1 .. pos PROVE Is(j)
  <2> SUFFICES ASSUME ~Is(j) PROVE FALSE
    OBVIOUS
  <2> HIDE DEF Is
  <2>1. j \in S
    BY <1>1, <1>4
  <2> HIDE DEF S
  <2>2. j <= i
    BY <1>3, <2>1
  <2> QED BY <1>1, <1>4, <2>2
<1>6. i > 0 => ~Is(i)
  OBVIOUS
<1>7. P(i)
  BY <1>5, <1>6
<1>8. r \in 0 .. pos /\ P(r)
  <2> HIDE DEF P
  <2> QED BY <1>4, <1>7
<1>9. RunStart(e, pos, spaces) = r
  BY DEF RunStart
<1> QED BY <1>8, <1>9

\* Where the word at the cursor ends.
LEMMA WordEndIs ==
  ASSUME NEW e \in EdType
  PROVE  /\ WordEnd(e) \in e.cursor .. Len(e.input)
         /\ \A j \in e.cursor + 1 .. WordEnd(e) : e.input[j] # SPACE
         /\ WordEnd(e) < Len(e.input) => e.input[WordEnd(e) + 1] = SPACE
<1> DEFINE c == e.cursor
           n == Len(e.input)
           P(i) == /\ \A j \in c + 1 .. i : InWord(e.input[j])
                   /\ i < n => ~InWord(e.input[i + 1])
           S == {i \in c .. n : i < n => ~InWord(e.input[i + 1])}
           r == CHOOSE i \in c .. n : P(i)
<1>1. c \in Nat /\ n \in Nat /\ c <= n
  BY Fields
<1>2. S \subseteq Nat /\ n \in S
  BY <1>1
<1>3. PICK i \in S : \A j \in S : i <= j
  <2> HIDE DEF S
  <2>1. S # {}
    BY <1>2
  <2> QED BY <1>2, <2>1, Least
<1>4. i \in c .. n /\ (i < n => ~InWord(e.input[i + 1]))
  OBVIOUS
<1>5. ASSUME NEW j \in c + 1 .. i PROVE InWord(e.input[j])
  <2> SUFFICES ASSUME ~InWord(e.input[j]) PROVE FALSE
    OBVIOUS
  <2>1. j - 1 \in c .. n /\ (j - 1) + 1 = j /\ ~ (i <= j - 1)
    BY <1>1, <1>4
  <2>2. j - 1 \in S
    BY <2>1
  <2> HIDE DEF S
  <2> QED BY <1>3, <2>1, <2>2
<1>6. P(i)
  BY <1>4, <1>5
<1>7. r \in c .. n /\ P(r)
  <2> HIDE DEF P
  <2> QED BY <1>4, <1>6
<1>8. WordEnd(e) = r
  BY DEF WordEnd
<1> QED BY <1>7, <1>8 DEF InWord

-----------------------------------------------------------------------------
(* Words deleted and completed                                             *)

KilledFrom(e) == RunStart(e, RunStart(e, e.cursor, TRUE), FALSE)

\* Deleting a word is deleting as many characters.
LEMMA KillWordIs ==
  ASSUME NEW e \in EdType
  PROVE  /\ KilledFrom(e) \in 0 .. e.cursor
         /\ KillWord(e) = Backspaces(e, e.cursor - KilledFrom(e))
         /\ e.cursor - KilledFrom(e) \in 0 .. e.cursor
<1> DEFINE m == RunStart(e, e.cursor, TRUE)
           n == RunStart(e, m, FALSE)
<1>1. e.cursor \in 0 .. Len(e.input) /\ e.cursor \in Nat /\ Len(e.input) \in Nat
  BY Fields
<1>2. m \in 0 .. e.cursor
  BY <1>1, RunStartIs
<1> HIDE DEF m
<1>3. m \in 0 .. Len(e.input)
  BY <1>1, <1>2
<1>4. n \in 0 .. m
  BY <1>3, RunStartIs
<1> HIDE DEF n
<1>5. n \in 0 .. e.cursor /\ e.cursor - n \in 0 .. e.cursor
  BY <1>1, <1>2, <1>4
<1>6. KilledFrom(e) = n /\ KillWord(e) = Backspaces(e, e.cursor - n)
  BY DEF KilledFrom, KillWord, n, m
<1> QED BY <1>5, <1>6

\* Deleting the whole line.
LEMMA ClearInputIs ==
  ASSUME NEW e \in EdType, NEW q
  PROVE  /\ Edit(e, ClearInput(e)) /\ ClearInput(e).input = <<>> /\ ClearInput(e).cursor = 0
         /\ LineOn(e, q) => LineOn(ClearInput(e), q)
<1> DEFINE m == Len(e.input)
           x == MoveTo(e, m)
           f == Backspaces(x, m)
<1>1. m \in Nat /\ m \in 0 .. Len(e.input)
  BY Fields
<1>2. ClearInput(e) = f
  BY DEF ClearInput
<1> HIDE DEF m
<1>3. Edit(e, x) /\ x.input = e.input /\ x.cursor = m /\ (LineOn(e, q) => LineOn(x, q))
  BY <1>1, MoveToIs
<1> HIDE DEF x
<1>4. x \in EdType /\ m \in 0 .. x.cursor /\ x.cursor - m = 0
  BY <1>1, <1>3 DEF Edit
<1>5. /\ Edit(x, f) /\ f.cursor = x.cursor - m
      /\ f.input = SubSeq(x.input, 1, x.cursor - m) \o Behind(x)
      /\ LineOn(x, q) => LineOn(f, q)
  BY <1>4, BackspacesIs
<1>6. SubSeq(x.input, 1, 0) = <<>>
  BY SubSeqEmpty
<1>7. Behind(x) = <<>>
  <2>1. Behind(x) = SubSeq(x.input, m + 1, m) /\ m + 1 > m
    BY <1>1, <1>3 DEF Behind, m
  <2> QED BY <1>1, <2>1, SubSeqEmpty
<1>8. f.input = <<>>
  <2>1. f.input = <<>> \o <<>>
    BY <1>4, <1>5, <1>6, <1>7
  <2>2. <<>> \o <<>> = <<>>
    BY EmptyText, ConcatEmptySeq
  <2> QED BY <2>1, <2>2
<1> HIDE DEF f
<1> QED BY <1>2, <1>3, <1>4, <1>5, <1>8 DEF Edit

\* Whatever starts a row of its own and draws the line again shows it.
LEMMA RedrawnIs ==
  ASSUME NEW e \in EdType
  PROVE  SameLine(e, Redraw(NewRow(e))) /\ LineOn(Redraw(NewRow(e)), 62)
<1> DEFINE x == NewRow(e)
<1>1. SameLine(e, x) /\ Clear(x)
  BY NewRowIs
<1> HIDE DEF x
<1>2. OnlyScreen(x, Redraw(x)) /\ LineOn(Redraw(x), 62)
  BY <1>1, RedrawIs DEF SameLine
<1>3. SameLine(e, Redraw(x))
  BY <1>1, <1>2 DEF SameLine, OnlyScreen, Edit
<1> QED BY <1>2, <1>3 DEF x

\* The help key lists, and redraws the line.
LEMMA ShowHelpIs ==
  ASSUME NEW e \in EdType
  PROVE  SameLine(e, ShowHelp(e)) /\ LineOn(ShowHelp(e), 62)
<1> DEFINE s == Append(Behind(e), 63)
           x == Write(e, s)
<1>1. s \in Seq(Int)
  BY Around, AppendProperties
<1> HIDE DEF s
<1>2. OnlyScreen(e, x)
  BY <1>1, WriteIs
<1> HIDE DEF x
<1>3. SameLine(x, Redraw(NewRow(x))) /\ LineOn(Redraw(NewRow(x)), 62)
  BY <1>2, RedrawnIs DEF OnlyScreen, Edit
<1>4. ShowHelp(e) = Redraw(NewRow(x))
  BY DEF ShowHelp, x, s
<1> QED BY <1>2, <1>3, <1>4 DEF SameLine, OnlyScreen, Edit

\* Clearing the screen redraws the line.
LEMMA ClearScreenIs ==
  ASSUME NEW e \in EdType
  PROVE  SameLine(e, ClearScreen(e)) /\ LineOn(ClearScreen(e), 62)
BY RedrawnIs DEF ClearScreen

\* Characters are bytes.
LEMMA LettersAre == Letters \subseteq Int /\ Chars \subseteq Int /\ SPACE \in Int
                    /\ \A c \in Letters : c # SPACE
<1>1. ASSUME NEW c \in Chars PROVE c \in Int
  <2>1. c \in Keys
    BY DEF Chars
  <2>2. c \in 0 .. 127
    BY <2>1, EditorAssumption
  <2> QED BY <2>2
<1>2. Letters \subseteq Chars /\ \A c \in Letters : c # SPACE
  BY DEF Letters
<1>3. SPACE \in Int
  BY DEF SPACE
<1> QED BY <1>1, <1>2, <1>3

\* The words a completion may add.
LEMMA WordsAre ==
  ASSUME NEW n \in Nat, NEW w \in [1 .. n -> Letters]
  PROVE  w \in Seq(Int) /\ Len(w) = n
<1>1. w \in [1 .. n -> Int]
  BY LettersAre
<1>2. w \in Seq(Int)
  BY <1>1, SeqDef
<1>3. DOMAIN w = 1 .. n
  BY <1>1
<1> QED BY <1>2, <1>3, LenProperties

\* Where a completion begins: the end of the word.
AtWordEnd(e) == MoveTo(e, WordEnd(e))

\* A completion only adds behind the word, or retypes it.
LEMMA CompletionsIs ==
  ASSUME NEW e \in EdType, NEW f \in Completions(e)
  PROVE  /\ f \in EdType /\ f.nav = e.nav /\ (LineOn(e, 62) => LineOn(f, 62))
         /\ Behind(f) = Behind(AtWordEnd(e))
         /\ f.cursor >= AtWordEnd(e).cursor
         /\ \E w \in 0 .. AtWordEnd(e).cursor :
              /\ \A i \in w + 1 .. AtWordEnd(e).cursor : AtWordEnd(e).input[i] # SPACE
              /\ SubSeq(InFront(f), 1, w) = SubSeq(InFront(AtWordEnd(e)), 1, w)
<1> DEFINE at == AtWordEnd(e)
           start == RunStart(at, at.cursor, FALSE)
           typed == at.cursor - start
           room == Size - 1 - Len(e.input)
           added == {s \in Texts : s # <<>> /\ Len(s) <= room}
                    \cup {Append(s, SPACE) : s \in {t \in Texts : Len(t) < room}}
           Good(g) == /\ g \in EdType /\ g.nav = e.nav /\ (LineOn(e, 62) => LineOn(g, 62))
                      /\ Behind(g) = Behind(at)
                      /\ g.cursor >= at.cursor
                      /\ \E w \in 0 .. at.cursor :
                           /\ \A i \in w + 1 .. at.cursor : at.input[i] # SPACE
                           /\ SubSeq(InFront(g), 1, w) = SubSeq(InFront(at), 1, w)
           C1 == {Insert(at, s) : s \in added}
           C2 == {Insert(Backspaces(at, typed), word \o s) :
                    word \in [1 .. typed -> Letters], s \in added}
<1>0. at = AtWordEnd(e)
  OBVIOUS
<1>14. Completions(e) = {at, Redraw(NewRow(at))} \cup C1 \cup C2
  BY SMT DEF Completions, AtWordEnd
<1> HIDE DEF typed, added, at
<1>12. f = at \/ f = Redraw(NewRow(at)) \/ (\E s \in added : f = Insert(at, s))
       \/ (\E s \in added, word \in [1 .. typed -> Letters] :
              f = Insert(Backspaces(at, typed), word \o s))
  <2> HIDE DEF C1, C2
  <2>1. f = at \/ f = Redraw(NewRow(at)) \/ f \in C1 \/ f \in C2
    BY Zenon, <1>14
  <2>2. CASE f \in C1
    BY <2>2 DEF C1
  <2>3. CASE f \in C2
    BY <2>3 DEF C2
  <2> QED BY Zenon, <2>1, <2>2, <2>3
<1> USE DEF typed, added
<1>1. /\ Edit(e, at) /\ at.input = e.input /\ at.cursor = WordEnd(e)
      /\ (LineOn(e, 62) => LineOn(at, 62))
  <2>1. WordEnd(e) \in 0 .. Len(e.input)
    BY WordEndIs, Fields
  <2> QED BY <1>0, <2>1, MoveToIs DEF AtWordEnd
<1>2. at \in EdType /\ at.nav = e.nav
  BY <1>1 DEF Edit
<1>3. /\ at.cursor \in Nat /\ Len(at.input) \in Nat /\ at.cursor \in 0 .. Len(at.input)
      /\ Len(at.input) <= Size - 1 /\ Size - 1 \in Nat
  BY <1>2, Fields, EditorAssumption
<1>4. /\ start \in 0 .. at.cursor /\ typed \in Nat /\ typed \in 0 .. at.cursor
      /\ \A j \in start + 1 .. at.cursor : at.input[j] # SPACE
  <2>1. start \in 0 .. at.cursor /\ \A j \in start + 1 .. at.cursor : (at.input[j] = SPACE) = FALSE
    BY <1>2, <1>3, RunStartIs
  <2> HIDE DEF start
  <2> QED BY <1>3, <2>1
<1>5. room \in Int /\ room = Size - 1 - Len(at.input)
  BY <1>1, <1>3
<1>6. ASSUME NEW s \in added PROVE s \in Seq(Int) /\ Len(s) <= room
  <2>1. ASSUME NEW t \in Texts PROVE t \in Seq(Int)
    <3>1. PICK n \in 0 .. Size - 1 : t \in [1 .. n -> Letters]
      BY DEF Texts
    <3>2. n \in Nat
      BY <3>1, EditorAssumption
    <3> QED BY <3>1, <3>2, WordsAre
  <2>2. CASE s \in {t \in Texts : t # <<>> /\ Len(t) <= room}
    BY <2>1, <2>2
  <2>3. CASE s \in {Append(t, SPACE) : t \in {u \in Texts : Len(u) < room}}
    <3>1. PICK t \in Texts : Len(t) < room /\ s = Append(t, SPACE)
      BY <2>3
    <3>2. t \in Seq(Int) /\ Len(t) \in Nat
      BY <2>1, <3>1
    <3>3. Append(t, SPACE) \in Seq(Int) /\ Len(Append(t, SPACE)) = Len(t) + 1
      BY <3>2, LettersAre, AppendProperties
    <3> HIDE DEF room
    <3> QED BY <1>5, <3>1, <3>2, <3>3
  <2> QED BY <2>2, <2>3
<1> HIDE DEF added
<1>7. Good(at)
  <2>1. at.cursor \in 0 .. at.cursor /\ ~ (at.cursor + 1 <= at.cursor) /\ at.cursor >= at.cursor
    BY <1>3
  <2> QED BY <1>1, <1>2, <2>1
<1>8. Good(Redraw(NewRow(at)))
  <2> DEFINE g == Redraw(NewRow(at))
  <2>1. SameLine(at, g) /\ LineOn(g, 62)
    BY <1>2, RedrawnIs
  <2> HIDE DEF g
  <2>2. g \in EdType /\ g.nav = e.nav /\ LineOn(g, 62) /\ g.input = at.input /\ g.cursor = at.cursor
    BY <1>2, <2>1 DEF SameLine
  <2>3. Behind(g) = Behind(at) /\ InFront(g) = InFront(at)
    BY <2>2 DEF Behind, InFront
  <2>4. Good(g)
    BY <1>7, <2>2, <2>3
  <2> QED BY <2>4 DEF g
<1>9. ASSUME NEW x \in EdType, NEW s \in Seq(Int), Len(x.input) + Len(s) <= Size - 1,
             x.nav = e.nav, LineOn(e, 62) => LineOn(x, 62), Behind(x) = Behind(at),
             x.cursor + Len(s) >= at.cursor,
             NEW w \in 0 .. at.cursor, \A i \in w + 1 .. at.cursor : at.input[i] # SPACE,
             x.cursor >= w, SubSeq(InFront(x), 1, w) = SubSeq(InFront(at), 1, w)
      PROVE  Good(Insert(x, s))
  <2> DEFINE g == Insert(x, s)
  <2>1. /\ Edit(x, g) /\ InFront(g) = InFront(x) \o s /\ Behind(g) = Behind(x)
        /\ LineOn(x, 62) => LineOn(g, 62)
    BY <1>9, InsertIs
  <2> HIDE DEF g
  <2>2. /\ InFront(x) \in Seq(Int) /\ Len(InFront(x)) = x.cursor /\ g \in EdType
        /\ Len(InFront(g)) = g.cursor
    BY <2>1, Around DEF Edit
  <2> DEFINE a == InFront(x)
  <2>3. Len(a \o s) = Len(a) + Len(s) /\ w \in 0 .. Len(a)
    <3> HIDE DEF a
    <3>1. a \in Seq(Int) /\ Len(a) = x.cursor
      BY <2>2 DEF a
    <3>2. Len(a \o s) = Len(a) + Len(s)
      BY <1>9, <3>1, Joined
    <3> QED BY <1>3, <1>9, <3>1, <3>2
  <2>4. SubSeq(a \o s, 1, w) = SubSeq(a, 1, w)
    <3> HIDE DEF a
    <3>1. a \in Seq(Int)
      BY <2>2 DEF a
    <3> QED BY <2>3, <3>1, Halves
  <2>5. g.cursor >= at.cursor /\ SubSeq(InFront(g), 1, w) = SubSeq(InFront(at), 1, w)
    BY <1>9, <2>1, <2>2, <2>3, <2>4
  <2>6. Good(g)
    BY <1>9, <2>1, <2>5 DEF Edit
  <2> QED BY <2>6 DEF g
<1> HIDE DEF room, Good
<1>10. ASSUME NEW s \in added PROVE Good(Insert(at, s))
  <2> DEFINE w == at.cursor
  <2>1. s \in Seq(Int) /\ Len(s) <= room /\ Len(s) \in Nat
    BY <1>6
  <2>2. w \in 0 .. at.cursor /\ at.cursor >= w /\ at.cursor + Len(s) >= at.cursor
        /\ Len(at.input) + Len(s) <= Size - 1
        /\ \A i \in w + 1 .. at.cursor : at.input[i] # SPACE
    BY <1>3, <1>5, <2>1
  <2> HIDE DEF w
  <2> QED BY <1>1, <1>2, <1>9, <2>1, <2>2
<1>11. ASSUME NEW s \in added, NEW word \in [1 .. typed -> Letters]
       PROVE  Good(Insert(Backspaces(at, typed), word \o s))
  <2> DEFINE x == Backspaces(at, typed)
             z == word \o s
  <2>1. s \in Seq(Int) /\ Len(s) <= room /\ Len(s) \in Nat
    BY <1>6
  <2>4. at.cursor - typed = start
    <3> HIDE DEF start
    <3> QED BY <1>3, <1>4 DEF typed
  <2> HIDE DEF typed
  <2>2. word \in Seq(Int) /\ Len(word) = typed
    BY <1>4, WordsAre
  <2>3. z \in Seq(Int) /\ Len(z) = typed + Len(s)
    BY <2>1, <2>2, Joined
  <2>5. /\ Edit(at, x) /\ x.cursor = start
        /\ x.input = SubSeq(at.input, 1, start) \o Behind(at)
        /\ LineOn(at, 62) => LineOn(x, 62)
    BY <1>2, <1>4, <2>4, BackspacesIs
  <2> HIDE DEF x, z, start
  <2>6. SubSeq(at.input, 1, start) \in Seq(Int) /\ Len(SubSeq(at.input, 1, start)) = start
    <3>1. start \in 0 .. Len(at.input) /\ at.input \in Seq(Int)
      BY <1>2, <1>3, <1>4, Fields
    <3> QED BY <3>1, Prefix
  <2>7. Behind(at) \in Seq(Int) /\ Len(Behind(at)) = Len(at.input) - at.cursor
    BY <1>2, Around
  <2>8. InFront(x) = SubSeq(at.input, 1, start) /\ Behind(x) = Behind(at)
    BY <2>5, <2>6, <2>7, AroundIs
  <2>9. Len(x.input) = Len(at.input) - typed
    <3>1. Len(x.input) = start + (Len(at.input) - at.cursor)
      BY <2>5, <2>6, <2>7, Joined
    <3> QED BY <1>3, <1>4, <2>4, <3>1
  <2>10. SubSeq(InFront(x), 1, start) = SubSeq(InFront(at), 1, start)
    <3>1. at.input \in Seq(Int) /\ at.cursor \in 0 .. Len(at.input) /\ start \in 0 .. at.cursor
          /\ start \in 0 .. start /\ start \in 0 .. Len(at.input)
      BY <1>2, <1>3, <1>4, Fields
    <3>2. SubSeq(SubSeq(at.input, 1, start), 1, start) = SubSeq(at.input, 1, start)
      BY <3>1, PrefixOfPrefix
    <3>3. SubSeq(SubSeq(at.input, 1, at.cursor), 1, start) = SubSeq(at.input, 1, start)
      BY <3>1, PrefixOfPrefix
    <3> QED BY <2>8, <3>2, <3>3 DEF InFront
  <2>11. /\ Len(x.input) + Len(z) <= Size - 1 /\ x.cursor + Len(z) >= at.cursor
         /\ start \in 0 .. at.cursor /\ x.cursor >= start
    <3> DEFINE lx == Len(x.input)
               lz == Len(z)
               ls == Len(s)
               lt == Len(at.input)
    <3>1. /\ lx = lt - typed /\ lz = typed + ls /\ ls <= room /\ ls \in Nat /\ x.cursor = start
          /\ room = Size - 1 - lt /\ room \in Int /\ lt \in Nat
      BY <1>3, <1>5, <2>1, <2>3, <2>5, <2>9
    <3> HIDE DEF lx, lz, ls, lt
    <3>2. /\ lx + lz <= Size - 1 /\ start + lz >= at.cursor
          /\ start \in 0 .. at.cursor /\ start >= start
      BY <1>3, <1>4, <2>4, <3>1
    <3> QED BY <3>1, <3>2 DEF lx, lz
  <2>12. x \in EdType /\ x.nav = e.nav /\ (LineOn(e, 62) => LineOn(x, 62))
    BY <1>1, <1>2, <2>5 DEF Edit
  <2>13. Good(Insert(x, z))
    BY <1>4, <1>9, <2>3, <2>8, <2>10, <2>11, <2>12
  <2> QED BY <2>13 DEF x, z
<1> HIDE DEF start, typed
<1>13. Good(f)
  BY <1>7, <1>8, <1>10, <1>11, <1>12
<1> QED BY <1>13 DEF Good, at

-----------------------------------------------------------------------------
(* Every key                                                               *)

(* A key leaves the record well formed and the prompt's row right.         *)
Good(e, f) == f \in EdType /\ Browsing(f, recent) /\ (LineOn(e, 62) => LineOn(f, 62))

\* An edit that leaves the row right.
LEMMA EditsAreGood ==
  ASSUME NEW e \in EdType, Browsing(e, recent), NEW f, Edit(e, f), LineOn(e, 62) => LineOn(f, 62)
  PROVE  Good(e, f)
BY DEF Good, Edit, Browsing

\* A redraw.
LEMMA RedrawsAreGood ==
  ASSUME NEW e \in EdType, Browsing(e, recent), NEW f, SameLine(e, f), LineOn(f, 62)
  PROVE  Good(e, f)
BY DEF Good, SameLine, Browsing

\* A movement.
LEMMA MovesAreGood ==
  ASSUME NEW e \in EdType, Browsing(e, recent), NEW pos \in 0 .. Len(e.input)
  PROVE  Good(e, MoveTo(e, pos))
BY MoveToIs, EditsAreGood

\* Browsing.
LEMMA HistoryIsGood ==
  ASSUME NEW e \in EdType, Browsing(e, recent), recent \in Seq(Text)
  PROVE  Good(e, HistoryUp(e)) /\ Good(e, HistoryDown(e))
BY HistoryUpIs, HistoryDownIs DEF Good

\* Deleting a character or the rest of the line.
LEMMA DeleteIsGood ==
  ASSUME NEW e \in EdType, Browsing(e, recent)
  PROVE  Good(e, DeleteChar(e)) /\ Good(e, Backspace(e)) /\ Good(e, KillLine(e))
BY DeleteCharIs, BackspaceIs, KillLineIs, EditsAreGood

\* Deleting a word or the line.
LEMMA KillWordIsGood ==
  ASSUME NEW e \in EdType, Browsing(e, recent)
  PROVE  Good(e, KillWord(e)) /\ Good(e, ClearInput(e))
<1> DEFINE n == e.cursor - KilledFrom(e)
           f == Backspaces(e, n)
<1>1. KillWord(e) = f /\ n \in 0 .. e.cursor
  BY KillWordIs
<1> HIDE DEF n
<1>2. Edit(e, f) /\ (LineOn(e, 62) => LineOn(f, 62))
  BY <1>1, BackspacesIs
<1> HIDE DEF f
<1>3. Good(e, KillWord(e))
  BY <1>1, <1>2, EditsAreGood
<1>4. Good(e, ClearInput(e))
  BY ClearInputIs, EditsAreGood
<1> QED BY <1>3, <1>4

\* What a key may do to the line.
LEMMA EditedCases ==
  ASSUME NEW e, NEW b, NEW l, l = e.cursor - 1, NEW r, r = e.cursor + 1, NEW n, n = Len(e.input)
  PROVE  Edited(e, b) \in
           {Backspace(e), MoveTo(e, 0), MoveTo(e, n), KillLine(e), KillWord(e), ClearInput(e),
            DeleteChar(e), ClearScreen(e), HistoryUp(e), HistoryDown(e), ShowHelp(e), e}
           \cup (IF e.cursor > 0 THEN {MoveTo(e, l)} ELSE {})
           \cup (IF e.cursor < Len(e.input) THEN {MoveTo(e, r)} ELSE {})
           \cup (IF b \in Chars THEN {InsertChar(e, b)} ELSE {})
BY DEF Edited

\* Every editing key.
LEMMA EditedIs ==
  ASSUME NEW e \in EdType, Browsing(e, recent), recent \in Seq(Text), NEW b
  PROVE  Good(e, Edited(e, b))
<1> DEFINE n == Len(e.input)
           l == e.cursor - 1
           r == e.cursor + 1
           f == Edited(e, b)
<1>1. /\ 0 \in 0 .. Len(e.input) /\ n \in 0 .. Len(e.input)
      /\ e.cursor > 0 => l \in 0 .. Len(e.input)
      /\ e.cursor < Len(e.input) => r \in 0 .. Len(e.input)
  BY Fields
<1>2. \/ f = Backspace(e) \/ f = MoveTo(e, 0) \/ f = MoveTo(e, n)
      \/ (e.cursor > 0 /\ f = MoveTo(e, l)) \/ (e.cursor < Len(e.input) /\ f = MoveTo(e, r))
      \/ f = KillLine(e) \/ f = KillWord(e) \/ f = ClearInput(e)
      \/ f = DeleteChar(e) \/ f = ClearScreen(e) \/ f = HistoryUp(e) \/ f = HistoryDown(e)
      \/ f = ShowHelp(e) \/ (b \in Chars /\ f = InsertChar(e, b)) \/ f = e
  BY EditedCases
<1> HIDE DEF n, l, r, f
<1>3. /\ Good(e, MoveTo(e, 0)) /\ Good(e, MoveTo(e, n))
      /\ e.cursor > 0 => Good(e, MoveTo(e, l))
      /\ e.cursor < Len(e.input) => Good(e, MoveTo(e, r))
  BY <1>1, MovesAreGood
<1>4. ASSUME b \in Chars PROVE Good(e, InsertChar(e, b))
  <2>1. b \in Int
    BY <1>4, LettersAre
  <2>2. Edit(e, InsertChar(e, b)) /\ (LineOn(e, 62) => LineOn(InsertChar(e, b), 62))
    BY <2>1, InsertCharIs
  <2> QED BY <2>2, EditsAreGood
<1>5. Good(e, ClearScreen(e)) /\ Good(e, ShowHelp(e))
  BY ClearScreenIs, ShowHelpIs, RedrawsAreGood
<1>6. Good(e, e)
  BY DEF Good
<1>7. Good(e, f)
  BY <1>2, <1>3, <1>4, <1>5, <1>6, DeleteIsGood, KillWordIsGood, HistoryIsGood
<1> QED BY <1>7 DEF f

\* Every escape sequence.
LEMMA HandleCsiIs ==
  ASSUME NEW e \in EdType, Browsing(e, recent), recent \in Seq(Text), NEW final, NEW param
  PROVE  Good(e, HandleCsi(e, final, param))
<1> DEFINE n == Len(e.input)
           l == e.cursor - 1
           r == e.cursor + 1
           f == HandleCsi(e, final, param)
<1>1. /\ 0 \in 0 .. Len(e.input) /\ n \in 0 .. Len(e.input)
      /\ e.cursor > 0 => l \in 0 .. Len(e.input)
      /\ e.cursor < Len(e.input) => r \in 0 .. Len(e.input)
  BY Fields
<1>2. \/ f = MoveTo(e, 0) \/ f = MoveTo(e, n) \/ (e.cursor > 0 /\ f = MoveTo(e, l))
      \/ (e.cursor < Len(e.input) /\ f = MoveTo(e, r))
      \/ f = DeleteChar(e) \/ f = HistoryUp(e) \/ f = HistoryDown(e) \/ f = e
  BY DEF HandleCsi
<1> HIDE DEF n, l, r, f
<1>3. /\ Good(e, MoveTo(e, 0)) /\ Good(e, MoveTo(e, n))
      /\ e.cursor > 0 => Good(e, MoveTo(e, l))
      /\ e.cursor < Len(e.input) => Good(e, MoveTo(e, r))
  BY <1>1, MovesAreGood
<1>4. Good(e, e)
  BY DEF Good
<1>5. Good(e, f)
  BY <1>2, <1>3, <1>4, DeleteIsGood, HistoryIsGood
<1> QED BY <1>5 DEF f

\* A submitted line without the spaces around it.
LEMMA TrimmedIs ==
  ASSUME NEW s \in Text
  PROVE  Trimmed(s) \in Text
<1> DEFINE words == {i \in 1 .. Len(s) : s[i] # SPACE}
           a == CHOOSE i \in words : \A j \in words : i <= j
           z == CHOOSE i \in words : \A j \in words : j <= i
<1>1. s \in Seq(Int) /\ Len(s) \in Nat /\ Len(s) <= Size - 1
  BY DEF Text
<1>2. CASE words = {}
  <2>1. Trimmed(s) = <<>>
    BY <1>2 DEF Trimmed
  <2> QED BY <2>1, EmptyText
<1>3. CASE words # {}
  <2>1. Trimmed(s) = SubSeq(s, a, z)
    BY <1>3 DEF Trimmed
  <2>2. words \subseteq Nat /\ words \subseteq 0 .. Len(s) /\ words \subseteq 1 .. Len(s)
    BY <1>1
  <2> HIDE DEF words
  <2>3. a \in words
    BY <1>3, <2>2, Least
  <2>4. z \in words /\ a <= z
    <3>1. \E i \in words : \A j \in words : j <= i
      BY <1>1, <1>3, <2>2, Greatest
    <3> HIDE DEF a
    <3>2. z \in words /\ \A j \in words : j <= z
      BY <3>1
    <3> QED BY <2>3, <3>2
  <2>5. a \in 1 .. Len(s) /\ z \in 1 .. Len(s)
    BY <2>2, <2>3, <2>4
  <2> HIDE DEF a, z
  <2>6. SubSeq(s, a, z) \in Seq(Int) /\ Len(SubSeq(s, a, z)) = z - a + 1
    BY <1>1, <2>4, <2>5, SubSeqProperties
  <2>7. z - a + 1 <= Size - 1
    BY <1>1, <2>4, <2>5, EditorAssumption
  <2> QED BY <2>1, <2>6, <2>7 DEF Text
<1> QED BY <1>2, <1>3

\* A line recorded in the history.
LEMMA RecordedIs ==
  ASSUME NEW line \in Text, recent \in Seq(Text)
  PROVE  Recorded(line) \in Seq(Text)
<1>1. CASE recent # <<>>
  <2>1. Tail(recent) \in Seq(Text)
    BY <1>1
  <2> QED BY <2>1 DEF Recorded
<1>2. CASE recent = <<>>
  <2>1. Len(recent) = 0 /\ 0 < MaxHistory
    BY <1>2, EditorAssumption
  <2> QED BY <1>2, <2>1 DEF Recorded
<1> QED BY <1>1, <1>2

\* What a command prints ends in an empty row.
LEMMA OutputIs ==
  ASSUME NEW e \in EdType, NEW open
  PROVE  SameLine(e, Output(NewRow(e), open)) /\ Clear(Output(NewRow(e), open))
<1> DEFINE x == NewRow(e)
           v == <<120>>
           w == Write(x, v)
<1>1. SameLine(e, x) /\ Clear(x) /\ x \in EdType
  BY NewRowIs DEF SameLine
<1>2. v \in Seq(Int)
  OBVIOUS
<1>3. Output(x, open) = IF open THEN NewRow(w) ELSE x
  BY DEF Output
<1> HIDE DEF x, v
<1>4. OnlyScreen(x, w) /\ w \in EdType
  BY <1>1, <1>2, WriteIs DEF OnlyScreen, Edit
<1> HIDE DEF w
<1>5. SameLine(w, NewRow(w)) /\ Clear(NewRow(w))
  BY <1>4, NewRowIs
<1>6. SameLine(e, NewRow(w))
  BY <1>1, <1>4, <1>5 DEF SameLine, OnlyScreen, Edit
<1>7. SameLine(e, Output(x, open)) /\ Clear(Output(x, open))
  BY <1>1, <1>3, <1>5, <1>6
<1> QED BY <1>7 DEF x

-----------------------------------------------------------------------------
(* Prompts and what comes of a line                                        *)

Askings == {"command", "username", "secret", "lockout"}

(* A state the editor may be in: a credential is only edited at its end.   *)
Proper(e, r, a) ==
  /\ e \in EdType /\ r \in Seq(Text) /\ Browsing(e, r) /\ a \in Askings
  /\ a \in {"username", "secret"} => e.cursor = Len(e.input)
  /\ Display(e, a)

(* A state in which a prompt may be written.                               *)
Ready(e, r, a) ==
  /\ e \in EdType /\ r \in Seq(Text) /\ Browsing(e, r) /\ a \in Askings
  /\ a \in {"username", "secret"} => e.cursor = Len(e.input)
  /\ Clear(e)

\* An empty line.
LEMMA EmptiedIs ==
  ASSUME NEW e \in EdType
  PROVE  /\ Emptied(e) \in EdType /\ Emptied(e).input = <<>> /\ Emptied(e).cursor = 0
         /\ Len(Emptied(e).input) = 0 /\ Emptied(e).nav = e.nav
         /\ Clear(e) => Clear(Emptied(e))
<1> DEFINE t == <<>>
<1>1. t \in Text /\ Len(t) = 0
  BY EmptyText
<1>2. Emptied(e) = Loaded(e, t)
  BY DEF Emptied
<1> HIDE DEF t
<1>3. /\ Edit(e, Loaded(e, t)) /\ Loaded(e, t).input = t /\ Loaded(e, t).cursor = Len(t)
      /\ Loaded(e, t).row = e.row /\ Loaded(e, t).col = e.col
  BY <1>1, LoadedIs
<1>4. Clear(e) => Clear(Loaded(e, t))
  BY <1>3 DEF Edit, Clear
<1> QED BY <1>1, <1>2, <1>3, <1>4 DEF Edit, t

\* A line without history and draft.
LEMMA ForgottenIs ==
  ASSUME NEW e \in EdType
  PROVE  /\ Forgotten(e) \in EdType /\ Forgotten(e).input = e.input
         /\ Forgotten(e).cursor = e.cursor /\ Forgotten(e).nav = 0
         /\ \A a : Display(e, a) => Display(Forgotten(e), a)
         /\ Clear(e) => Clear(Forgotten(e))
<1> DEFINE t == <<>>
           f == [e EXCEPT !.nav = 0, !.saved = t]
<1>1. t \in Text
  BY EmptyText
<1>2. Forgotten(e) = f
  BY DEF Forgotten
<1> HIDE DEF t
<1>3. /\ f \in EdType /\ f.input = e.input /\ f.cursor = e.cursor /\ f.nav = 0
      /\ f.row = e.row /\ f.col = e.col /\ f.printed = e.printed
  BY <1>1 DEF EdType
<1> HIDE DEF f
<1>4. /\ \A q, u, p : OnScreen(e, q, u, p) => OnScreen(f, q, u, p)
      /\ Clear(e) => Clear(f)
  BY <1>3 DEF OnScreen, Clear
<1>5. \A a : Display(e, a) => Display(f, a)
  BY <1>3, <1>4 DEF Display, LineOn
<1> QED BY <1>2, <1>3, <1>4, <1>5

\* A prompt written where one may be.
LEMMA Prompted ==
  ASSUME NEW e, NEW r, NEW a, Ready(e, r, a)
  PROVE  Proper(Redisplay(e, a), r, a)
<1>1. e \in EdType /\ Clear(e) /\ a \in {"command", "username", "secret", "lockout"}
  BY DEF Ready, Askings
<1>2. a = "username" => e.cursor = Len(e.input)
  BY DEF Ready
<1>3. OnlyScreen(e, Redisplay(e, a)) /\ Display(Redisplay(e, a), a)
  BY <1>1, <1>2, RedisplayIs
<1> QED BY <1>3 DEF Ready, Proper, OnlyScreen, Edit, Browsing

\* An empty history.
LEMMA NoLine == <<>> \in Seq(Text) /\ Len(<<>>) = 0
BY EmptySeq

\* Emptying or forgetting the line, and clearing the history, leave a state ready.
LEMMA EmptiedReady ==
  ASSUME NEW e \in EdType, Clear(e), NEW r \in Seq(Text), Browsing(e, r), NEW a \in Askings
  PROVE  Ready(Emptied(e), r, a)
BY EmptiedIs DEF Ready, Browsing

\* And so they are when the history is cleared.
LEMMA ForgottenReady ==
  ASSUME NEW e, NEW r, NEW a, Ready(e, r, a), NEW s \in Seq(Text)
  PROVE  Ready(Forgotten(e), s, a)
<1>1. e \in EdType /\ Clear(e)
  BY DEF Ready
<1>2. Len(s) >= 0
  OBVIOUS
<1> QED BY <1>1, <1>2, ForgottenIs DEF Ready, Browsing

\* Whatever comes of a line that was run.
LEMMA OutcomeIs ==
  ASSUME NEW e, NEW kept, NEW now, Ready(e, kept, now), Outcome(e, kept, now)
  PROVE  Proper(ed', recent', asking')
<1>1. e \in EdType /\ Clear(e) /\ kept \in Seq(Text) /\ now \in Askings /\ Browsing(e, kept)
  BY DEF Ready
<1>2. <<>> \in Seq(Text) /\ "username" \in Askings /\ "secret" \in Askings
  BY NoLine DEF Askings
<1>3. CASE asking' = now /\ recent' = kept /\ ed' = Redisplay(e, now)
  BY <1>3, Prompted
<1>4. CASE asking' = now /\ recent' = <<>> /\ ed' = Redisplay(Forgotten(e), now)
  <2>1. Ready(Forgotten(e), <<>>, now)
    BY <1>2, ForgottenReady
  <2> QED BY <1>4, <2>1, Prompted
<1>5. CASE asking' = "username" /\ recent' = <<>>
           /\ ed' = Redisplay(Emptied(Forgotten(e)), "username")
  <2> DEFINE f == Forgotten(e)
             r == <<>>
  <2>1. f \in EdType /\ Clear(f) /\ f.nav = 0
    BY <1>1, ForgottenIs
  <2>2. r \in Seq(Text) /\ Browsing(f, r)
    BY <2>1, NoLine DEF Browsing
  <2> HIDE DEF f, r
  <2>3. Ready(Emptied(f), r, "username")
    BY <1>2, <2>1, <2>2, EmptiedReady
  <2> QED BY <1>5, <2>3, Prompted DEF f, r
<1>6. CASE now = "command" /\ asking' = "secret" /\ recent' = kept
           /\ ed' = Redisplay(Emptied(e), "secret")
  <2>1. Ready(Emptied(e), kept, "secret")
    BY <1>1, <1>2, EmptiedReady
  <2> QED BY <1>6, <2>1, Prompted
<1> QED BY <1>3, <1>4, <1>5, <1>6 DEF Outcome

\* 'history n' loads an entry and shows it.
LEMMA RecalledIs ==
  ASSUME NEW e, Ready(e, recent, "command"), Recalled(e), asking = "command"
  PROVE  Proper(ed', recent', asking')
<1>1. e \in EdType /\ Clear(e) /\ recent \in Seq(Text) /\ Browsing(e, recent)
  BY DEF Ready
<1>2. PICK i \in 1 .. Len(recent) : ed' = Redraw(Loaded(e, recent[i]))
  BY DEF Recalled
<1> DEFINE t == recent[i]
           f == Loaded(e, t)
<1>3. t \in Text
  BY <1>1
<1> HIDE DEF t
<1>4. Edit(e, f) /\ f.row = e.row /\ f.col = e.col
  BY <1>1, <1>3, LoadedIs
<1>5. f \in EdType /\ Clear(f) /\ f.nav = e.nav
  BY <1>1, <1>4 DEF Edit, Clear
<1> HIDE DEF f
<1>6. OnlyScreen(f, Redraw(f)) /\ LineOn(Redraw(f), 62)
  BY <1>5, RedrawIs
<1>7. ed' = Redraw(f)
  BY <1>2 DEF f, t
<1>8. UNCHANGED <<recent, asking>>
  BY DEF Recalled
<1> QED BY <1>1, <1>5, <1>6, <1>7, <1>8 DEF Proper, Display, OnlyScreen, Edit, Browsing, Askings

\* Whatever starts a row of its own, with or without output, leaves the state ready.
LEMMA OutputReady ==
  ASSUME Proper(ed, recent, asking), NEW open
  PROVE  Ready(Output(NewRow(ed), open), recent, asking) /\ Ready(NewRow(ed), recent, asking)
<1>1. ed \in EdType
  BY DEF Proper
<1>2. SameLine(ed, Output(NewRow(ed), open)) /\ Clear(Output(NewRow(ed), open))
  BY <1>1, OutputIs
<1>3. SameLine(ed, NewRow(ed)) /\ Clear(NewRow(ed))
  BY <1>1, NewRowIs
<1> QED BY <1>2, <1>3 DEF Proper, Ready, SameLine, Browsing

-----------------------------------------------------------------------------
(* The invariant and its steps                                             *)

EditorInv == Proper(ed, recent, asking)

\* The first prompt.
LEMMA EditorInit == Init => EditorInv
<1> DEFINE e == [input |-> <<>>, cursor |-> 0, nav |-> 0, saved |-> <<>>,
                 row |-> Blank, col |-> 0, printed |-> FALSE]
<1> SUFFICES ASSUME Init PROVE EditorInv
  OBVIOUS
<1>1. e \in EdType /\ e.cursor = Len(e.input) /\ Clear(e) /\ e.nav = 0
  BY EmptyText, BlankIs DEF EdType, Clear
<1> HIDE DEF e
<1>2. Ready(e, <<>>, asking)
  BY <1>1, NoLine DEF Init, Ready, Askings, Browsing
<1>3. ed = Redisplay(e, asking) /\ recent = <<>>
  BY DEF Init, e
<1> QED BY <1>2, <1>3, Prompted DEF EditorInv

\* A key that edits the line, at the prompt for a command.
LEMMA GoodIsProper ==
  ASSUME EditorInv, asking = "command", Good(ed, ed'), UNCHANGED <<recent, asking>>
  PROVE  EditorInv'
BY DEF EditorInv, Proper, Good, Display, Askings

\* A byte of an escape sequence.
LEMMA SequenceByteStep == ASSUME EditorInv, NEW b, SequenceByte(b) PROVE EditorInv'
<1>1. ed \in EdType /\ Browsing(ed, recent) /\ recent \in Seq(Text)
  BY DEF EditorInv, Proper
<1>2. CASE asking = "command" /\ Parsed(b).key # 0
  <2> DEFINE p == esc.param
  <2>1. Good(ed, HandleCsi(ed, b, p))
    BY <1>1, HandleCsiIs
  <2>2. ed' = HandleCsi(ed, b, p) /\ UNCHANGED <<recent, asking>>
    BY <1>2 DEF SequenceByte
  <2> QED BY <1>2, <2>1, <2>2, GoodIsProper
<1>3. CASE ~ (asking = "command" /\ Parsed(b).key # 0)
  BY <1>3 DEF SequenceByte, EditorInv
<1> QED BY <1>2, <1>3

\* An editing key.
LEMMA EditKeyStep == ASSUME EditorInv, NEW b, EditKey(b) PROVE EditorInv'
<1>1. ed \in EdType /\ Browsing(ed, recent) /\ recent \in Seq(Text)
  BY DEF EditorInv, Proper
<1>2. Good(ed, Edited(ed, b))
  BY <1>1, EditedIs
<1> QED BY <1>2, GoodIsProper DEF EditKey

\* A completion.
LEMMA TabKeyStep == ASSUME EditorInv, NEW b, TabKey(b) PROVE EditorInv'
<1>1. ed \in EdType /\ Browsing(ed, recent)
  BY DEF EditorInv, Proper
<1>2. ed' \in Completions(ed) /\ asking = "command" /\ UNCHANGED <<recent, asking>>
  BY DEF TabKey
<1>3. ed' \in EdType /\ ed'.nav = ed.nav /\ (LineOn(ed, 62) => LineOn(ed', 62))
  BY <1>1, <1>2, CompletionsIs
<1> QED BY <1>1, <1>2, <1>3, GoodIsProper DEF Good, Browsing

\* A submitted line.
LEMMA EnterKeyStep == ASSUME EditorInv, NEW b, EnterKey(b) PROVE EditorInv'
<1> DEFINE line == Trimmed(ed.input)
<1>1. asking = "command" /\ ed \in EdType /\ recent \in Seq(Text) /\ line \in Text
      /\ asking \in Askings
  <2>1. ed.input \in Text
    BY Fields DEF EditorInv, Proper
  <2> QED BY <2>1, TrimmedIs DEF EnterKey, EditorInv, Proper
<1> HIDE DEF line
<1>2. CASE line = <<>>
  <2> DEFINE f == Forgotten(NewRow(ed))
  <2>1. Ready(NewRow(ed), recent, "command")
    BY <1>1, OutputReady DEF EditorInv
  <2>2. Ready(f, recent, "command")
    BY <1>1, <2>1, ForgottenReady
  <2> HIDE DEF f
  <2>3. Ready(Emptied(f), recent, "command")
    BY <2>2, EmptiedReady DEF Ready
  <2>4. CASE ed' = Redisplay(Emptied(f), "command") /\ UNCHANGED <<recent, asking>>
    BY <1>1, <2>3, <2>4, Prompted DEF EditorInv
  <2> QED BY <1>2, <2>4 DEF EnterKey, line, f
<1>3. ASSUME NEW open PROVE Ready(Forgotten(Output(NewRow(ed), open)), recent, "command")
                            /\ Ready(Emptied(Forgotten(Output(NewRow(ed), open))), Recorded(line),
                                     "command")
  <2> DEFINE o == Output(NewRow(ed), open)
             f == Forgotten(o)
             r == Recorded(line)
  <2>1. Ready(o, recent, "command")
    BY <1>1, OutputReady DEF EditorInv
  <2>2. r \in Seq(Text)
    BY <1>1, RecordedIs
  <2> HIDE DEF o, r
  <2>3. Ready(f, recent, "command") /\ Ready(f, r, "command")
    BY <1>1, <2>1, <2>2, ForgottenReady
  <2> HIDE DEF f
  <2>4. Ready(Emptied(f), r, "command")
    BY <2>3, EmptiedReady DEF Ready
  <2> QED BY <2>3, <2>4 DEF f, o, r
<1>4. CASE line # <<>>
  <2>1. PICK open \in BOOLEAN :
          \/ Outcome(Emptied(Forgotten(Output(NewRow(ed), open))), Recorded(line), "command")
          \/ Recalled(Forgotten(Output(NewRow(ed), open)))
    BY <1>4 DEF EnterKey, line
  <2>2. CASE Outcome(Emptied(Forgotten(Output(NewRow(ed), open))), Recorded(line), "command")
    <3> DEFINE x == Emptied(Forgotten(Output(NewRow(ed), open)))
               r == Recorded(line)
    <3>1. Ready(x, r, "command") /\ Outcome(x, r, "command")
      BY <1>3, <2>2
    <3> HIDE DEF x, r
    <3> QED BY <3>1, OutcomeIs DEF EditorInv
  <2>3. CASE Recalled(Forgotten(Output(NewRow(ed), open)))
    <3> DEFINE x == Forgotten(Output(NewRow(ed), open))
    <3>1. Ready(x, recent, "command") /\ Recalled(x)
      BY <1>3, <2>3
    <3> HIDE DEF x
    <3> QED BY <1>1, <3>1, RecalledIs DEF EditorInv
  <2> QED BY <2>1, <2>2, <2>3
<1> QED BY <1>2, <1>4

\* Ctrl-C and Ctrl-D.
LEMMA QuitKeyStep == ASSUME EditorInv, NEW b, QuitKey(b) PROVE EditorInv'
<1>1. PICK open \in BOOLEAN : Outcome(Output(NewRow(ed), open), recent, "command")
  BY DEF QuitKey
<1> DEFINE x == Output(NewRow(ed), open)
<1>2. Ready(x, recent, "command")
  BY OutputReady DEF EditorInv, QuitKey
<1> HIDE DEF x
<1> QED BY <1>1, <1>2, OutcomeIs DEF EditorInv, x

\* A submitted username.
LEMMA UsernameEnterStep == ASSUME EditorInv, NEW b, UsernameEnter(b) PROVE EditorInv'
<1> DEFINE x == NewRow(ed)
<1>1. Ready(x, recent, "username")
  BY OutputReady DEF EditorInv, UsernameEnter
<1>2. asking' = "secret" /\ ed' = Redisplay(Emptied(x), "secret") /\ recent' = recent
  BY DEF UsernameEnter
<1> HIDE DEF x
<1>3. Ready(Emptied(x), recent, "secret")
  BY <1>1, EmptiedReady DEF Ready, Askings
<1> QED BY <1>2, <1>3, Prompted DEF EditorInv

\* A submitted password.
LEMMA SecretEnterStep == ASSUME EditorInv, NEW b, SecretEnter(b) PROVE EditorInv'
<1>1. PICK open \in BOOLEAN, now \in {"command", "username", "lockout"} :
        Outcome(Emptied(Output(NewRow(ed), open)), recent, now)
  BY DEF SecretEnter
<1> DEFINE x == Output(NewRow(ed), open)
           y == Emptied(x)
<1>2. Ready(x, recent, asking)
  BY OutputReady DEF EditorInv
<1> HIDE DEF x
<1>3. Ready(y, recent, now)
  BY <1>2, EmptiedReady DEF Ready, Askings
<1>4. Outcome(y, recent, now)
  BY <1>1 DEF x
<1> HIDE DEF y
<1> QED BY <1>3, <1>4, OutcomeIs DEF EditorInv

\* The end of a lockout.
LEMMA LockoutEndStep == ASSUME EditorInv, LockoutEnd PROVE EditorInv'
<1>1. ed \in EdType /\ Clear(ed) /\ recent \in Seq(Text) /\ Browsing(ed, recent)
  BY DEF EditorInv, Proper, Display, LockoutEnd
<1>2. asking' \in Askings /\ ed' = Redisplay(Emptied(ed), asking') /\ recent' = recent
  BY DEF LockoutEnd, Askings
<1>3. Ready(Emptied(ed), recent, asking')
  BY <1>1, <1>2, EmptiedReady
<1> QED BY <1>2, <1>3, Prompted DEF EditorInv

\* A line a callback runs.
LEMMA AppExecStep == ASSUME EditorInv, AppExec PROVE EditorInv'
<1>1. PICK open \in BOOLEAN :
        \/ Outcome(Output(NewRow(ed), open), recent, asking)
        \/ asking = "command" /\ Recalled(Output(NewRow(ed), open))
  BY DEF AppExec
<1> DEFINE x == Output(NewRow(ed), open)
<1>2. Ready(x, recent, asking)
  BY OutputReady DEF EditorInv
<1>3. Outcome(x, recent, asking) \/ (asking = "command" /\ Recalled(x))
  BY <1>1
<1> HIDE DEF x
<1>4. CASE Outcome(x, recent, asking)
  BY <1>2, <1>4, OutcomeIs DEF EditorInv
<1>5. CASE asking = "command" /\ Recalled(x)
  BY <1>2, <1>5, RecalledIs DEF EditorInv
<1> QED BY <1>3, <1>4, <1>5

\* A login the application asks for.
LEMMA AppRequestAuthStep == ASSUME EditorInv, AppRequestAuth PROVE EditorInv'
<1> DEFINE x == NewRow(ed)
           r == <<>>
<1>1. Ready(x, recent, asking)
  BY OutputReady DEF EditorInv
<1>2. asking' = "username" /\ recent' = r /\ ed' = Redisplay(Emptied(Forgotten(x)), "username")
  BY DEF AppRequestAuth
<1>3. r \in Seq(Text)
  BY NoLine
<1> HIDE DEF x, r
<1>4. Ready(Forgotten(x), r, asking)
  BY <1>1, <1>3, ForgottenReady
<1>5. Ready(Emptied(Forgotten(x)), r, "username")
  BY <1>4, EmptiedReady DEF Ready, Askings
<1> QED BY <1>2, <1>5, Prompted DEF EditorInv

\* The history cleared by the application.
LEMMA AppClearHistoryStep == ASSUME EditorInv, AppClearHistory PROVE EditorInv'
<1>1. ed \in EdType
  BY DEF EditorInv, Proper
<1> DEFINE r == <<>>
<1>2. recent' = r /\ ed' = Forgotten(ed) /\ asking' = asking /\ r \in Seq(Text) /\ Len(r) = 0
  BY NoLine DEF AppClearHistory
<1> HIDE DEF r
<1> QED BY <1>1, <1>2, ForgottenIs DEF EditorInv, Proper, Browsing

\* Text the application prints.
LEMMA AppPrintStep == ASSUME EditorInv, AppPrint PROVE EditorInv'
<1> DEFINE x == NewRow(ed)
           f == [x EXCEPT !.printed = TRUE]
<1>1. SameLine(ed, x)
  BY NewRowIs DEF EditorInv, Proper
<1>2. ed' = f /\ UNCHANGED <<recent, asking>>
  BY DEF AppPrint
<1> HIDE DEF x
<1>3. /\ f \in EdType /\ f.input = x.input /\ f.cursor = x.cursor /\ f.nav = x.nav /\ f.printed
  BY <1>1 DEF SameLine, EdType
<1> HIDE DEF f
<1> QED BY <1>1, <1>2, <1>3 DEF EditorInv, Proper, SameLine, Browsing, Display, LineOn,
                                        OnScreen, Clear

-----------------------------------------------------------------------------
(* Credentials, and the theorem about the screen                           *)

\* The beginning of a line is a line.
LEMMA SubToEnd ==
  ASSUME NEW t \in Text, NEW m \in 0 .. Len(t)
  PROVE  SubSeq(t, 1, m) \in Text /\ Len(SubSeq(t, 1, m)) = m
<1>1. t \in Seq(Int) /\ Len(t) <= Size - 1 /\ Len(t) \in Nat
  BY DEF Text
<1>2. SubSeq(t, 1, m) \in Seq(Int) /\ Len(SubSeq(t, 1, m)) = m
  BY <1>1, Prefix
<1> QED BY <1>1, <1>2, EditorAssumption DEF Text

\* The line of a credential prompt is loaded as a whole, its cursor at the end.
LEMMA CredentialProper ==
  ASSUME EditorInv, NEW x \in EdType, x.nav = ed.nav, NEW t \in Text, ed' = Loaded(x, t),
         asking \in {"username", "secret"}, UNCHANGED <<recent, asking>>,
         asking = "username" => OnScreen(x, 85, t, Len(t)),
         asking = "secret" => OnScreen(x, 80, <<>>, 0)
  PROVE  EditorInv'
<1> DEFINE f == Loaded(x, t)
<1>1. /\ Edit(x, f) /\ f.input = t /\ f.cursor = Len(t) /\ f.row = x.row /\ f.col = x.col
  BY LoadedIs
<1>2. ed' = f
  OBVIOUS
<1> HIDE DEF f
<1>3. asking = "username" => LineOn(f, 85)
  BY <1>1 DEF LineOn, OnScreen, Edit
<1>4. asking = "secret" => OnScreen(f, 80, <<>>, 0)
  BY <1>1 DEF OnScreen, Edit
<1>5. Display(f, asking)
  BY <1>3, <1>4 DEF Display
<1> QED BY <1>1, <1>2, <1>5 DEF EditorInv, Proper, Edit, Browsing

\* Characters rubbed out of a credential.
LEMMA RubIs ==
  ASSUME EditorInv, asking \in {"username", "secret"}, NEW m \in 0 .. Len(ed.input),
         NEW x, x = (IF asking = "username" THEN Rubbed(ed, m) ELSE ed),
         NEW t, t = SubSeq(ed.input, 1, Len(ed.input) - m), ed' = Loaded(x, t),
         UNCHANGED <<recent, asking>>
  PROVE  EditorInv'
<1> DEFINE n == Len(ed.input) - m
<1>1. /\ ed \in EdType /\ ed.cursor = Len(ed.input) /\ Display(ed, asking)
      /\ ed.input \in Text /\ ed.input \in Seq(Int) /\ Len(ed.input) \in Nat
  BY Fields DEF EditorInv, Proper
<1>2. n \in 0 .. Len(ed.input)
  BY <1>1
<1> HIDE DEF n
<1>3. t = SubSeq(ed.input, 1, n) /\ t \in Text /\ Len(t) = n
  <2>1. t = SubSeq(ed.input, 1, n)
    BY DEF n
  <2> QED BY <1>1, <1>2, <2>1, SubToEnd
<1>4. CASE asking = "username"
  <2>1. OnlyScreen(ed, x)
    BY <1>1, <1>4, RubbedIs
  <2>2. OnScreen(ed, 85, ed.input, Len(ed.input))
    BY <1>1, <1>4 DEF Display, LineOn
  <2>3. OnScreen(Rubbed(ed, m), 85, SubSeq(ed.input, 1, Len(ed.input) - m), Len(ed.input) - m)
    BY <1>1, <2>2, RubbedIs
  <2>4. OnScreen(x, 85, t, Len(t))
    BY <1>3, <1>4, <2>3 DEF n
  <2> QED BY <1>3, <1>4, <2>1, <2>4, CredentialProper DEF OnlyScreen, Edit
<1>5. CASE asking = "secret"
  BY <1>1, <1>3, <1>5, CredentialProper DEF Display
<1> QED BY <1>4, <1>5

\* A character of a credential.
LEMMA TypedIs ==
  ASSUME EditorInv, asking \in {"username", "secret"}, NEW b \in Int, Len(ed.input) < Size - 1,
         NEW x, x = (IF asking = "username" THEN Write(ed, <<b>>) ELSE ed),
         ed' = Loaded(x, Append(ed.input, b)), UNCHANGED <<recent, asking>>
  PROVE  EditorInv'
<1> DEFINE t == ed.input
           u == Append(t, b)
           s == <<b>>
           n == Len(t)
<1>1. /\ ed \in EdType /\ ed.cursor = n /\ Display(ed, asking)
      /\ t \in Text /\ t \in Seq(Int) /\ n \in Nat
  BY Fields DEF EditorInv, Proper
<1>2. /\ u \in Seq(Int) /\ Len(u) = n + 1 /\ u \in Text /\ u[n + 1] = b
      /\ \A i \in 1 .. n : u[i] = t[i]
  <2> HIDE DEF t
  <2>1. u \in Seq(Int) /\ Len(u) = n + 1 /\ u[n + 1] = b /\ \A i \in 1 .. n : u[i] = t[i]
    BY <1>1, AppendProperties
  <2>2. Len(u) <= Size - 1
    <3>1. n < Size - 1
      BY DEF t
    <3> HIDE DEF n
    <3> QED BY <1>1, <2>1, <3>1, EditorAssumption
  <2> QED BY <2>1, <2>2 DEF Text
<1>3. s \in Seq(Int) /\ Len(s) = 1 /\ s[1] = b
  OBVIOUS
<1>4. ed' = Loaded(x, u)
  OBVIOUS
<1>5. asking = "username" => x = Write(ed, s)
  OBVIOUS
<1> HIDE DEF u, s
<1>6. CASE asking = "username"
  <2>1. OnlyScreen(ed, Write(ed, s))
    BY <1>1, <1>3, WriteIs
  <2>2. OnScreen(ed, 85, t, n)
    BY <1>1, <1>6 DEF Display, LineOn
  <2> HIDE DEF t, n
  <2>3. /\ \A i \in 1 .. n : Cell(u, i) = Cell(t, i)
        /\ \A i \in 1 .. Len(s) : s[i] = Cell(u, n + i)
        /\ \A i \in Nat : i > n + Len(s) => Cell(u, i) = Cell(t, i)
    <3>1. n = Len(t)
      BY DEF n
    <3> QED BY <1>1, <1>2, <1>3, <3>1 DEF Cell
  <2>4. OnScreen(Write(ed, s), 85, u, n + Len(s))
    BY <1>1, <1>2, <1>3, <2>2, <2>3, WriteOn
  <2>5. OnScreen(x, 85, u, Len(u)) /\ x \in EdType /\ x.nav = ed.nav
    BY <1>2, <1>3, <1>5, <1>6, <2>1, <2>4 DEF OnlyScreen, Edit
  <2> QED BY <1>2, <1>4, <1>6, <2>5, CredentialProper
<1>7. CASE asking = "secret"
  <2>1. x = ed
    BY <1>7
  <2> QED BY <1>1, <1>2, <1>4, <1>7, <2>1, CredentialProper DEF Display
<1> QED BY <1>6, <1>7

\* What a key may do to a credential.
LEMMA CredentialCases ==
  ASSUME NEW b, CredentialKey(b)
  PROVE  /\ asking \in {"username", "secret"} /\ UNCHANGED <<recent, asking>>
         /\ \/ /\ Len(ed.input) > 0
               /\ ed' = Loaded(IF asking = "username" THEN Rubbed(ed, 1) ELSE ed,
                               SubSeq(ed.input, 1, Len(ed.input) - 1))
            \/ ed' = Emptied(IF asking = "username" THEN Rubbed(ed, Len(ed.input)) ELSE ed)
            \/ /\ b \in Chars /\ Len(ed.input) < CredentialLimit
               /\ ed' = Loaded(IF asking = "username" THEN Write(ed, <<b>>) ELSE ed,
                               Append(ed.input, b))
            \/ ed' = ed
BY DEF CredentialKey

\* A key at a credential prompt.
LEMMA CredentialKeyStep == ASSUME EditorInv, NEW b, CredentialKey(b) PROVE EditorInv'
<1>1. asking \in {"username", "secret"} /\ UNCHANGED <<recent, asking>>
  BY CredentialCases
<1>2. ed \in EdType /\ Len(ed.input) \in Nat /\ ed.input \in Seq(Int)
  BY Fields DEF EditorInv, Proper
<1> DEFINE n == Len(ed.input)
           k == 1
           z == 0
           x(m) == IF asking = "username" THEN Rubbed(ed, m) ELSE ed
<1>3. CASE n > 0 /\ ed' = Loaded(x(k), SubSeq(ed.input, 1, n - k))
  <2>1. k \in 0 .. n
    BY <1>2, <1>3
  <2> HIDE DEF k
  <2> QED BY <1>1, <1>3, <2>1, RubIs
<1>4. CASE ed' = Emptied(x(n))
  <2>1. n \in 0 .. n /\ n - n = 0
    BY <1>2
  <2>2. SubSeq(ed.input, 1, n - n) = <<>>
    BY <1>2, <2>1, SubSeqEmpty
  <2>3. ed' = Loaded(x(n), SubSeq(ed.input, 1, n - n))
    BY <1>4, <2>2 DEF Emptied
  <2> QED BY <1>1, <2>1, <2>3, RubIs
<1>5. CASE b \in Chars /\ n < CredentialLimit
           /\ ed' = Loaded(IF asking = "username" THEN Write(ed, <<b>>) ELSE ed,
                            Append(ed.input, b))
  <2>1. b \in Int /\ n < Size - 1
    BY <1>2, <1>5, LettersAre, EditorAssumption
  <2> QED BY <1>1, <1>5, <2>1, TypedIs
<1>6. CASE ed' = ed
  BY <1>1, <1>6 DEF EditorInv
<1> QED BY <1>3, <1>4, <1>5, <1>6, CredentialCases

\* Every step keeps the invariant.
LEMMA EditorStep == EditorInv /\ [Next]_vars => EditorInv'
<1> SUFFICES ASSUME EditorInv, [Next]_vars PROVE EditorInv'
  OBVIOUS
<1>1. CASE UNCHANGED vars
  BY <1>1 DEF vars, EditorInv
<1>2. ASSUME NEW b, EndOfPair(b) PROVE EditorInv'
  BY <1>2 DEF EndOfPair, EditorInv
<1>3. CASE Next
  BY <1>2, <1>3, SequenceByteStep, EditKeyStep, TabKeyStep, EnterKeyStep, QuitKeyStep,
     CredentialKeyStep, UsernameEnterStep, SecretEnterStep, LockoutEndStep, AppExecStep,
     AppRequestAuthStep, AppClearHistoryStep, AppPrintStep DEF Next
<1> QED BY <1>1, <1>3

\* The invariant says what the terminal shows.
LEMMA ScreenFollows == EditorInv => ScreenShowsLine
<1> SUFFICES ASSUME EditorInv, ~ed.printed
             PROVE  /\ \A i \in Columns :
                         ed.row[i] = (IF i < Len(Shown) THEN Shown[i + 1] ELSE SPACE)
                    /\ ed.col = ShownCursor
  BY DEF ScreenShowsLine
<1>1. ed \in EdType /\ asking \in Askings /\ Display(ed, asking)
  BY DEF EditorInv, Proper
<1>2. ed.input \in Seq(Int) /\ ed.cursor \in Nat
  BY <1>1, Fields
<1>3. ASSUME NEW q \in Int, NEW t \in Seq(Int), NEW pos \in Nat, OnScreen(ed, q, t, pos),
             Shown = <<q>> \o t, ShownCursor = 1 + pos
      PROVE  /\ \A i \in Columns :
                  ed.row[i] = (IF i < Len(Shown) THEN Shown[i + 1] ELSE SPACE)
             /\ ed.col = ShownCursor
  <2> DEFINE v == <<q>> \o t
  <2>1. ed.row = RowOf(q, t) /\ ed.col = pos + 1
    BY <1>3 DEF OnScreen
  <2>2. Len(v) = Len(t) + 1 /\ v[1] = q /\ \A i \in 1 .. Len(t) : v[i + 1] = t[i]
    BY PromptIs
  <2>3. Shown = v
    BY <1>3
  <2> HIDE DEF v
  <2>4. ASSUME NEW i \in Columns
        PROVE  (IF i = 0 THEN q ELSE Cell(t, i)) = (IF i < Len(v) THEN v[i + 1] ELSE SPACE)
    <3>1. i \in Nat /\ Len(t) \in Nat
      BY <1>3 DEF Columns
    <3>2. CASE i = 0
      BY <2>2, <3>1, <3>2
    <3>3. CASE i \in 1 .. Len(t)
      BY <2>2, <3>1, <3>3 DEF Cell
    <3>4. CASE i > Len(t)
      BY <2>2, <3>1, <3>4 DEF Cell
    <3> QED BY <3>1, <3>2, <3>3, <3>4
  <2>5. \A i \in Columns : ed.row[i] = (IF i < Len(v) THEN v[i + 1] ELSE SPACE)
    BY <2>1, <2>4 DEF RowOf
  <2>6. ed.col = ShownCursor
    BY <1>3, <2>1
  <2> QED BY <2>3, <2>5, <2>6
<1>4. CASE asking = "command"
  <2> DEFINE q == 62
             t == ed.input
  <2>1. Shown = <<q>> \o t /\ ShownCursor = 1 + ed.cursor
    BY <1>4 DEF Shown, ShownCursor, PromptOf
  <2>2. OnScreen(ed, q, t, ed.cursor) /\ q \in Int
    BY <1>1, <1>4 DEF Display, LineOn
  <2> HIDE DEF q, t
  <2> QED BY <1>2, <1>3, <2>1, <2>2 DEF t
<1>5. CASE asking = "username"
  <2> DEFINE q == 85
             t == ed.input
  <2>1. Shown = <<q>> \o t /\ ShownCursor = 1 + ed.cursor
    BY <1>5 DEF Shown, ShownCursor, PromptOf
  <2>2. OnScreen(ed, q, t, ed.cursor) /\ q \in Int
    BY <1>1, <1>5 DEF Display, LineOn
  <2> HIDE DEF q, t
  <2> QED BY <1>2, <1>3, <2>1, <2>2 DEF t
<1>6. CASE asking = "secret"
  <2> DEFINE q == 80
             t == <<>>
             p == 0
  <2>1. Shown = <<q>> \o t /\ ShownCursor = 1 + p
    BY <1>6 DEF Shown, ShownCursor, PromptOf
  <2>2. OnScreen(ed, q, t, p) /\ q \in Int /\ p \in Nat
    BY <1>1, <1>6 DEF Display
  <2>3. t \in Seq(Int)
    BY EmptyText
  <2> HIDE DEF q, t, p
  <2> QED BY <1>3, <2>1, <2>2, <2>3
<1>7. CASE asking = "lockout"
  <2>1. Shown = <<>> \o <<>> /\ Len(<<>>) = 0 /\ ShownCursor = 0
    BY <1>7, EmptyText DEF Shown, ShownCursor, PromptOf
  <2>2. <<>> \o <<>> = <<>>
    BY EmptyText, ConcatEmptySeq
  <2>3. ed.row = Blank /\ ed.col = 0
    BY <1>1, <1>7 DEF Display, Clear
  <2>4. ASSUME NEW i \in Columns PROVE ed.row[i] = SPACE /\ ~ (i < 0)
    BY <2>3, BlankIs DEF Columns
  <2> QED BY <2>1, <2>2, <2>3, <2>4
<1> QED BY <1>1, <1>4, <1>5, <1>6, <1>7 DEF Askings

\* For every line length, history, terminal width and set of keys: unless the application
\* prints into the row, the terminal shows the prompt, the line and nothing else, its cursor
\* where the next key takes effect, although cli.c only ever writes the characters and the
\* backspaces that it takes to be needed.
THEOREM ScreenIsTheLine == EditorSpec => []ScreenShowsLine
<1>1. EditorInv /\ [Next]_vars => EditorInv'
  BY EditorStep
<1> QED BY <1>1, EditorInit, ScreenFollows, PTL DEF EditorSpec

-----------------------------------------------------------------------------
(* The halves of the line                                                  *)

\* The end of the end.
LEMMA SuffixOfSuffix ==
  ASSUME NEW t \in Seq(Int), NEW c \in 0 .. Len(t), NEW n \in 0 .. Len(t) - c
  PROVE  SubSeq(SubSeq(t, c + 1, Len(t)), n + 1, Len(SubSeq(t, c + 1, Len(t))))
         = SubSeq(t, (c + n) + 1, Len(t))
<1> DEFINE a == SubSeq(t, c + 1, Len(t))
           r == SubSeq(a, n + 1, Len(a))
           u == SubSeq(t, (c + n) + 1, Len(t))
<1>1. a \in Seq(Int) /\ Len(a) = Len(t) - c /\ \A i \in 1 .. Len(t) - c : a[i] = t[c + i]
  BY Suffix
<1>2. c + n \in 0 .. Len(t) /\ Len(t) - (c + n) = (Len(t) - c) - n
  OBVIOUS
<1>3. u \in Seq(Int) /\ Len(u) = (Len(t) - c) - n
      /\ \A i \in 1 .. (Len(t) - c) - n : u[i] = t[(c + n) + i]
  BY <1>2, Suffix
<1> HIDE DEF a, u
<1>4. n \in 0 .. Len(a)
  BY <1>1
<1>5. r \in Seq(Int) /\ Len(r) = Len(a) - n /\ \A i \in 1 .. Len(a) - n : r[i] = a[n + i]
  BY <1>1, <1>4, Suffix
<1> HIDE DEF r
<1>6. Len(r) = Len(u)
  BY <1>1, <1>3, <1>5
<1>7. ASSUME NEW i \in 1 .. Len(u) PROVE r[i] = u[i]
  <2>1. i \in 1 .. Len(a) - n /\ n + i \in 1 .. Len(t) - c /\ c + (n + i) = (c + n) + i
    BY <1>1, <1>3
  <2> QED BY <1>1, <1>3, <1>5, <2>1
<1>8. r = u
  BY <1>3, <1>5, <1>6, <1>7, SeqEqual
<1> QED BY <1>8 DEF r, a, u

\* A backspace takes the last character in front of the cursor.
LEMMA BackspaceHalves ==
  ASSUME NEW e \in EdType, e.cursor > 0
  PROVE  /\ InFront(e) # <<>>
         /\ InFront(Backspace(e)) = SubSeq(InFront(e), 1, Len(InFront(e)) - 1)
         /\ Behind(Backspace(e)) = Behind(e)
<1> DEFINE t == e.input
           c == e.cursor
           d == c - 1
           f == Backspace(e)
<1>1. t \in Seq(Int) /\ c \in 0 .. Len(t) /\ d \in 0 .. c /\ d \in 0 .. Len(t)
  BY Fields
<1>2. f.input = SubSeq(t, 1, d) \o Behind(e) /\ f.cursor = d
  BY BackspaceIs
<1>3. /\ Behind(e) \in Seq(Int) /\ InFront(e) = SubSeq(t, 1, c) /\ Len(InFront(e)) = c
      /\ InFront(e) \in Seq(Int)
  BY Around DEF InFront
<1> HIDE DEF f, t, d
<1>4. SubSeq(t, 1, d) \in Seq(Int) /\ Len(SubSeq(t, 1, d)) = d
  BY <1>1, Prefix
<1>5. InFront(f) = SubSeq(t, 1, d) /\ Behind(f) = Behind(e)
  BY <1>2, <1>3, <1>4, AroundIs
<1>6. SubSeq(SubSeq(t, 1, c), 1, d) = SubSeq(t, 1, d)
  BY <1>1, PrefixOfPrefix
<1>7. InFront(e) # <<>>
  <2>1. Len(InFront(e)) # 0
    BY <1>1, <1>3
  <2> QED BY <2>1, EmptyText
<1> QED BY <1>3, <1>5, <1>6, <1>7 DEF f, d

\* Ctrl-D takes the first character behind it.
LEMMA DeleteHalves ==
  ASSUME NEW e \in EdType, e.cursor < Len(e.input)
  PROVE  /\ Behind(e) # <<>>
         /\ InFront(DeleteChar(e)) = InFront(e)
         /\ Behind(DeleteChar(e)) = SubSeq(Behind(e), 1 + 1, Len(Behind(e)))
<1> DEFINE t == e.input
           c == e.cursor
           k == 1
           f == DeleteChar(e)
<1>1. t \in Seq(Int) /\ c \in 0 .. Len(t) /\ k \in 0 .. Len(t) - c /\ c + k \in 0 .. Len(t)
  BY Fields
<1>2. f.input = SubSeq(t, 1, c) \o SubSeq(t, (c + k) + 1, Len(t)) /\ f.cursor = c
  BY DeleteCharIs
<1>3. /\ Behind(e) = SubSeq(t, c + 1, Len(t)) /\ InFront(e) = SubSeq(t, 1, c)
      /\ InFront(e) \in Seq(Int) /\ Len(InFront(e)) = c /\ Len(Behind(e)) = Len(t) - c
  BY Around DEF InFront, Behind
<1>4. Behind(e) # <<>>
  <2>1. Len(Behind(e)) # 0
    BY <1>1, <1>3
  <2> QED BY <2>1, EmptyText
<1> HIDE DEF f, t, c, k
<1>5. SubSeq(t, (c + k) + 1, Len(t)) \in Seq(Int)
  BY <1>1, Suffix
<1>6. InFront(f) = InFront(e) /\ Behind(f) = SubSeq(t, (c + k) + 1, Len(t))
  BY <1>2, <1>3, <1>5, AroundIs
<1>7. SubSeq(Behind(e), k + 1, Len(Behind(e))) = SubSeq(t, (c + k) + 1, Len(t))
  BY <1>1, <1>3, SuffixOfSuffix
<1> QED BY <1>4, <1>6, <1>7 DEF f, k

\* Whatever keeps the line in front of the cursor only.
LEMMA FrontOnly ==
  ASSUME NEW f \in EdType, f.cursor = Len(f.input)
  PROVE  InFront(f) = f.input /\ Behind(f) = <<>>
<1> DEFINE t == f.input
           n == Len(t)
<1>1. t \in Seq(Int) /\ n \in Nat /\ n < n + 1
  BY Fields
<1>2. InFront(f) = SubSeq(t, 1, n) /\ Behind(f) = SubSeq(t, n + 1, n)
  BY DEF InFront, Behind
<1>3. SubSeq(t, n + 1, n) = <<>>
  <2> HIDE DEF n
  <2> QED BY <1>1, SubSeqEmpty
<1>4. SubSeq(t, 1, Len(t)) = t
  BY <1>1, SubSeqFull
<1> QED BY <1>2, <1>3, <1>4

\* Deleting the rest of the line.
LEMMA KillLineHalves ==
  ASSUME NEW e \in EdType
  PROVE  InFront(KillLine(e)) = InFront(e) /\ Behind(KillLine(e)) = <<>>
<1> DEFINE f == KillLine(e)
<1>1. f \in EdType /\ f.input = InFront(e) /\ f.cursor = e.cursor
  BY KillLineIs DEF Edit
<1>2. Len(InFront(e)) = e.cursor
  BY Around
<1> HIDE DEF f
<1>3. InFront(f) = f.input /\ Behind(f) = <<>>
  BY <1>1, <1>2, FrontOnly
<1> QED BY <1>1, <1>3 DEF f

\* Inserting a character.
LEMMA InsertHalves ==
  ASSUME NEW e \in EdType, NEW c \in Int, Len(e.input) < Size - 1
  PROVE  InFront(InsertChar(e, c)) = Append(InFront(e), c) /\ Behind(InsertChar(e, c)) = Behind(e)
<1> DEFINE f == InsertChar(e, c)
           a == InFront(e)
           b == Behind(e)
           x == Append(a, c)
<1>1. f.input = a \o <<c>> \o b /\ f.cursor = e.cursor + 1
  BY InsertCharIs
<1>2. a \in Seq(Int) /\ b \in Seq(Int) /\ Len(a) = e.cursor
  BY Around
<1> HIDE DEF a, b
<1>3. x = a \o <<c>> /\ x \in Seq(Int) /\ Len(x) = e.cursor + 1
  BY <1>2, AppendIsConcat, AppendProperties
<1> HIDE DEF f, x
<1>4. f.input = x \o b
  BY <1>1, <1>3
<1>5. InFront(f) = x /\ Behind(f) = b
  BY <1>1, <1>2, <1>3, <1>4, AroundIs
<1> QED BY <1>5 DEF f, x, a, b

\* The word cut back to a place where a word begins, over the spaces behind it.
LEMMA KillWordHalves ==
  ASSUME NEW e \in EdType
  PROVE  /\ Behind(KillWord(e)) = Behind(e)
         /\ \E n \in 0 .. Len(InFront(e)) :
              /\ n > 0 => InFront(e)[n] = SPACE
              /\ \E m \in n .. Len(InFront(e)) :
                   /\ \A i \in n + 1 .. m : InFront(e)[i] # SPACE
                   /\ \A i \in m + 1 .. Len(InFront(e)) : InFront(e)[i] = SPACE
                   /\ m = n => n = 0
              /\ InFront(KillWord(e)) = SubSeq(InFront(e), 1, n)
<1> DEFINE t == e.input
           c == e.cursor
           m == RunStart(e, c, TRUE)
           n == RunStart(e, m, FALSE)
           f == KillWord(e)
           b == Behind(e)
           a == InFront(e)
<1>1. t \in Seq(Int) /\ c \in 0 .. Len(t) /\ c \in Nat /\ Len(t) \in Nat
  BY Fields
<1>2. /\ m \in 0 .. c /\ \A j \in m + 1 .. c : (t[j] = SPACE) = TRUE
      /\ m > 0 => (t[m] = SPACE) # TRUE
  BY <1>1, RunStartIs
<1> HIDE DEF m
<1>3. m \in 0 .. Len(e.input)
  BY <1>1, <1>2
<1>4. /\ n \in 0 .. m /\ \A j \in n + 1 .. m : (t[j] = SPACE) = FALSE
      /\ n > 0 => (t[n] = SPACE) # FALSE
  BY <1>3, RunStartIs
<1>18. (n > 0 => t[n] = SPACE) /\ (m > 0 => ~ (t[m] = SPACE))
  BY Zenon, <1>2, <1>4
<1>5. n = KilledFrom(e)
  BY DEF KilledFrom, n, m
<1> HIDE DEF n
<1>6. c - n \in 0 .. c /\ f = Backspaces(e, c - n)
  BY <1>5, KillWordIs
<1>7. /\ f.cursor = c - (c - n) /\ f.input = SubSeq(t, 1, c - (c - n)) \o b
  BY <1>6, BackspacesIs
<1>8. c - (c - n) = n /\ n \in 0 .. Len(t) /\ n \in 0 .. c
  BY <1>1, <1>2, <1>4
<1>9. /\ a \in Seq(Int) /\ Len(a) = c /\ b \in Seq(Int) /\ \A i \in 1 .. c : a[i] = t[i]
      /\ a = SubSeq(t, 1, c)
  BY Around DEF InFront
<1> HIDE DEF f, t, b, a, c
<1>10. SubSeq(t, 1, n) \in Seq(Int) /\ Len(SubSeq(t, 1, n)) = n
  BY <1>1, <1>8, Prefix
<1>11. InFront(f) = SubSeq(t, 1, n) /\ Behind(f) = b
  BY <1>7, <1>8, <1>9, <1>10, AroundIs
<1>12. SubSeq(a, 1, n) = SubSeq(t, 1, n)
  BY <1>1, <1>8, <1>9, PrefixOfPrefix
<1>13. n > 0 => a[n] = SPACE
  BY <1>8, <1>9, <1>18
<1>14. \A i \in n + 1 .. m : a[i] # SPACE
  BY <1>1, <1>2, <1>4, <1>9
<1>15. \A i \in m + 1 .. c : a[i] = SPACE
  BY <1>1, <1>2, <1>9
<1>16. m = n => n = 0
  BY <1>2, <1>4, <1>18
<1>17. m \in n .. Len(a) /\ n \in 0 .. Len(a)
  BY <1>1, <1>2, <1>4, <1>8, <1>9
<1> QED BY <1>9, <1>11, <1>12, <1>13, <1>14, <1>15, <1>16, <1>17 DEF f, b, a

\* Up to the end of the word, the text in front of the cursor and the text behind it.
LEMMA WordEndHalves ==
  ASSUME NEW e \in EdType
  PROVE  \E n \in 0 .. Len(Behind(e)) :
           /\ InFront(AtWordEnd(e)) = InFront(e) \o SubSeq(Behind(e), 1, n)
           /\ Behind(AtWordEnd(e)) = SubSeq(Behind(e), n + 1, Len(Behind(e)))
           /\ \A i \in 1 .. n : Behind(e)[i] # SPACE
           /\ n < Len(Behind(e)) => Behind(e)[n + 1] = SPACE
<1> DEFINE t == e.input
           c == e.cursor
           p == WordEnd(e)
           n == p - c
           b == Behind(e)
           a == InFront(e)
           x == SubSeq(b, 1, n)
           y == SubSeq(b, n + 1, Len(b))
           f == AtWordEnd(e)
<1>1. t \in Seq(Int) /\ c \in 0 .. Len(t) /\ c \in Nat /\ Len(t) \in Nat
  BY Fields
<1>2. /\ p \in c .. Len(t) /\ \A j \in c + 1 .. p : t[j] # SPACE
      /\ p < Len(t) => t[p + 1] = SPACE
  BY WordEndIs
<1> HIDE DEF p
<1>3. p \in 0 .. Len(e.input)
  BY <1>1, <1>2
<1>4. f.input = t /\ f.cursor = p
  BY <1>3, MoveToIs DEF AtWordEnd, p
<1>5. /\ a \in Seq(Int) /\ Len(a) = c /\ b \in Seq(Int) /\ Len(b) = Len(t) - c
      /\ t = a \o b /\ \A i \in 1 .. Len(t) - c : b[i] = t[c + i]
  BY Around
<1> HIDE DEF t, c, a, b, f
<1>6. n \in 0 .. Len(b) /\ c + n = p
  BY <1>1, <1>2, <1>5
<1>7. /\ x \in Seq(Int) /\ Len(x) = n /\ y \in Seq(Int) /\ b = x \o y
  BY <1>5, <1>6, Prefix, Suffix, Whole
<1> HIDE DEF x, y
<1>8. (a \o x) \o y = t /\ a \o x \in Seq(Int) /\ Len(a \o x) = p
  <2>3. a \in Seq(Int) /\ x \in Seq(Int) /\ y \in Seq(Int)
    BY <1>5, <1>7
  <2>1. (a \o x) \o y = a \o (x \o y)
    BY <2>3, ConcatAssociative
  <2>2. a \o x \in Seq(Int) /\ Len(a \o x) = Len(a) + Len(x)
    BY <1>5, <1>7, Joined
  <2> QED BY <1>5, <1>6, <1>7, <2>1, <2>2
<1>9. InFront(f) = a \o x /\ Behind(f) = y
  BY <1>4, <1>7, <1>8, AroundIs
<1> HIDE DEF n
<1>10. ASSUME NEW i \in 1 .. n PROVE b[i] # SPACE
  <2>1. i \in 1 .. Len(t) - c /\ c + i \in c + 1 .. p
    BY <1>1, <1>2, <1>5, <1>6
  <2> QED BY <1>2, <1>5, <2>1
<1>11. ASSUME n < Len(b) PROVE b[n + 1] = SPACE
  <2>1. n + 1 \in 1 .. Len(t) - c /\ c + (n + 1) = p + 1 /\ p < Len(t)
    BY <1>1, <1>2, <1>5, <1>6, <1>11
  <2> QED BY <1>2, <1>5, <2>1
<1> QED BY <1>6, <1>9, <1>10, <1>11 DEF x, y, a, b, f

-----------------------------------------------------------------------------
(* Editing commands                                                        *)

\* The halves of the next line.
LEMMA NewHalves == InFront(ed)' = InFront(ed') /\ Behind(ed)' = Behind(ed')
BY DEF InFront, Behind

\* The halves fit into the buffer.
LEMMA HalvesFit ==
  ASSUME ed' \in EdType
  PROVE  Line!Fits
<1>1. Len(InFront(ed')) = ed'.cursor /\ Len(Behind(ed')) = Len(ed'.input) - ed'.cursor
      /\ Len(ed'.input) \in Nat /\ Len(ed'.input) <= Size - 1 /\ ed'.cursor \in Nat
  BY Around, Fields
<1>2. Len(InFront(ed')) + Len(Behind(ed')) <= Size - 1
  BY <1>1, EditorAssumption
<1> QED BY <1>2, NewHalves DEF Line!Fits

\* A line that stays, wherever its cursor goes.
LEMMA StaysIsMove ==
  ASSUME ed \in EdType, ed' \in EdType, ed'.input = ed.input
  PROVE  Line!Next
<1>1. ed'.input = InFront(ed') \o Behind(ed') /\ ed.input = InFront(ed) \o Behind(ed)
  BY Around
<1>2. InFront(ed') \o Behind(ed') = InFront(ed) \o Behind(ed)
  BY <1>1
<1>3. Line!Move
  BY <1>2, NewHalves DEF Line!Move
<1> QED BY <1>3 DEF Line!Next

Remembered == {ed.saved} \cup {recent[i] : i \in DOMAIN recent}

\* A remembered line, or none, with the cursor at its end.
LEMMA EndIsReplace ==
  ASSUME ed' \in EdType, ed'.cursor = Len(ed'.input), ed'.input \in Remembered \cup {<<>>}
  PROVE  Line!Next
<1>1. InFront(ed') = ed'.input /\ Behind(ed') = <<>>
  BY FrontOnly
<1>2. Line!Replace
  BY <1>1, NewHalves DEF Line!Replace, Remembered
<1> QED BY <1>2 DEF Line!Next

\* No line.
LEMMA EmptiedIsReplace ==
  ASSUME ed' \in EdType, ed'.cursor = 0, ed'.input = <<>>
  PROVE  Line!Next
<1>1. ed'.cursor = Len(ed'.input)
  BY EmptyText
<1> QED BY <1>1, EndIsReplace

\* Backspace.
LEMMA BackspaceLine == ASSUME ed \in EdType, ed' = Backspace(ed) PROVE Line!Next
<1>1. ed' \in EdType /\ ed.cursor \in Nat
  BY BackspaceIs, Fields DEF Edit
<1>2. CASE ed.cursor = 0
  BY <1>1, <1>2, BackspaceIs, StaysIsMove
<1>3. CASE ed.cursor > 0
  <2>1. /\ InFront(ed) # <<>> /\ InFront(ed') = SubSeq(InFront(ed), 1, Len(InFront(ed)) - 1)
        /\ Behind(ed') = Behind(ed)
    BY <1>3, BackspaceHalves
  <2>2. Line!Backspace
    BY <2>1, NewHalves DEF Line!Backspace, Line!Front2
  <2> QED BY <2>2 DEF Line!Next
<1> QED BY <1>1, <1>2, <1>3

\* Delete.
LEMMA DeleteLine == ASSUME ed \in EdType, ed' = DeleteChar(ed) PROVE Line!Next
<1>1. ed' \in EdType /\ ed.cursor \in Nat /\ ed.cursor <= Len(ed.input) /\ Len(ed.input) \in Nat
  BY DeleteCharIs, Fields DEF Edit
<1>2. CASE ed.cursor = Len(ed.input)
  BY <1>1, <1>2, DeleteCharIs, StaysIsMove
<1>3. CASE ed.cursor < Len(ed.input)
  <2>1. /\ Behind(ed) # <<>> /\ InFront(ed') = InFront(ed)
        /\ Behind(ed') = SubSeq(Behind(ed), 1 + 1, Len(Behind(ed)))
    BY <1>3, DeleteHalves
  <2>2. Line!Delete
    BY <2>1, NewHalves DEF Line!Delete, Line!Tail2
  <2> QED BY <2>2 DEF Line!Next
<1> QED BY <1>1, <1>2, <1>3

\* Ctrl-K.
LEMMA KillLineLine == ASSUME ed \in EdType, ed' = KillLine(ed) PROVE Line!Next
<1>1. Line!KillLine
  BY KillLineHalves, NewHalves DEF Line!KillLine
<1> QED BY <1>1 DEF Line!Next

\* Ctrl-W.
LEMMA KillWordLine == ASSUME ed \in EdType, ed' = KillWord(ed) PROVE Line!Next
<1>1. Behind(ed') = Behind(ed)
  BY KillWordHalves
<1>2. PICK n \in 0 .. Len(InFront(ed)) :
        /\ n > 0 => InFront(ed)[n] = SPACE
        /\ \E m \in n .. Len(InFront(ed)) :
             /\ \A i \in n + 1 .. m : InFront(ed)[i] # SPACE
             /\ \A i \in m + 1 .. Len(InFront(ed)) : InFront(ed)[i] = SPACE
             /\ m = n => n = 0
        /\ InFront(ed') = SubSeq(InFront(ed), 1, n)
  BY KillWordHalves
<1>3. Line!KillWord
  BY <1>1, <1>2, NewHalves DEF Line!KillWord, Line!Front2, Line!Space, SPACE
<1> QED BY <1>3 DEF Line!Next

\* A character.
LEMMA TypedLine == ASSUME ed \in EdType, NEW b \in Chars, ed' = InsertChar(ed, b) PROVE Line!Next
<1>1. b \in Int /\ ed' \in EdType
  BY LettersAre, InsertCharIs DEF Edit
<1>2. CASE Len(ed.input) >= Size - 1
  BY <1>1, <1>2, InsertCharIs, StaysIsMove
<1>3. CASE Len(ed.input) < Size - 1
  <2>1. InFront(ed') = Append(InFront(ed), b) /\ Behind(ed') = Behind(ed)
    BY <1>1, <1>3, InsertHalves
  <2>2. Line!Type
    BY <1>1, <2>1, NewHalves, HalvesFit DEF Line!Type
  <2> QED BY <2>2 DEF Line!Next
<1>4. Len(ed.input) >= Size - 1 \/ Len(ed.input) < Size - 1
  BY Fields, EditorAssumption
<1> QED BY <1>2, <1>3, <1>4

\* A completion.
LEMMA CompletedLine == ASSUME ed \in EdType, ed' \in Completions(ed) PROVE Line!Next
<1> DEFINE at == AtWordEnd(ed)
           a == InFront(ed)
           b == Behind(ed)
<1>1. ed' \in EdType /\ Behind(ed') = Behind(at) /\ ed'.cursor >= at.cursor
  BY CompletionsIs
<1>2. PICK w \in 0 .. at.cursor :
        /\ \A i \in w + 1 .. at.cursor : at.input[i] # SPACE
        /\ SubSeq(InFront(ed'), 1, w) = SubSeq(InFront(at), 1, w)
  BY CompletionsIs
<1>3. PICK n \in 0 .. Len(b) :
        /\ InFront(at) = a \o SubSeq(b, 1, n) /\ Behind(at) = SubSeq(b, n + 1, Len(b))
        /\ \A i \in 1 .. n : b[i] # SPACE
        /\ n < Len(b) => b[n + 1] = SPACE
  BY WordEndHalves
<1>4. at \in EdType
  <2>1. WordEnd(ed) \in 0 .. Len(ed.input)
    BY WordEndIs, Fields
  <2> QED BY <2>1, MoveToIs DEF AtWordEnd, Edit
<1> HIDE DEF at
<1>5. /\ Len(InFront(at)) = at.cursor /\ at.cursor \in Nat
      /\ \A i \in 1 .. at.cursor : InFront(at)[i] = at.input[i]
  BY <1>4, Around, Fields
<1>6. Len(InFront(ed')) = ed'.cursor /\ ed'.cursor \in Nat
  BY <1>1, Around, Fields
<1>7. at.cursor <= Len(a) + Len(b) /\ Len(a) \in Nat /\ Len(b) \in Nat
  <2>1. a \in Seq(Int) /\ b \in Seq(Int)
    BY Around
  <2> HIDE DEF a, b
  <2>2. SubSeq(b, 1, n) \in Seq(Int) /\ Len(SubSeq(b, 1, n)) = n
    BY <2>1, Prefix
  <2>3. Len(a \o SubSeq(b, 1, n)) = Len(a) + n
    BY <2>1, <2>2, Joined
  <2> QED BY <1>3, <1>5, <2>1, <2>3
<1> HIDE DEF a, b
<1>8. w \in 0 .. Len(a) + Len(b) /\ w <= Len(InFront(at)) /\ Len(InFront(ed')) >= Len(InFront(at))
  BY <1>1, <1>2, <1>5, <1>6, <1>7
<1>9. \A i \in w + 1 .. Len(InFront(at)) : InFront(at)[i] # SPACE
  BY <1>2, <1>5
<1>10. /\ Behind(ed') = SubSeq(b, n + 1, Len(b))
       /\ \A i \in w + 1 .. Len(a \o SubSeq(b, 1, n)) : (a \o SubSeq(b, 1, n))[i] # SPACE
       /\ w <= Len(a \o SubSeq(b, 1, n)) /\ Len(InFront(ed')) >= Len(a \o SubSeq(b, 1, n))
       /\ SubSeq(InFront(ed'), 1, w) = SubSeq(a \o SubSeq(b, 1, n), 1, w)
  BY <1>1, <1>2, <1>3, <1>8, <1>9
<1>11. Line!Complete
  BY <1>1, <1>3, <1>8, <1>10, NewHalves, HalvesFit
  DEF Line!Complete, Line!Front2, Line!Tail2, Line!Space, SPACE, a, b
<1> QED BY <1>11 DEF Line!Next

-----------------------------------------------------------------------------
(* Keys as editing commands                                                *)

\* Browsing.
LEMMA HistoryLine ==
  ASSUME ed \in EdType, recent \in Seq(Text), Browsing(ed, recent),
         ed' = HistoryUp(ed) \/ ed' = HistoryDown(ed)
  PROVE  Line!Next
<1>1. ed' \in EdType
  BY HistoryUpIs, HistoryDownIs
<1>2. \/ ed'.input = ed.input
      \/ ed'.input \in Remembered /\ ed'.cursor = Len(ed'.input)
  BY HistoryUpIs, HistoryDownIs DEF Remembered
<1> QED BY <1>1, <1>2, StaysIsMove, EndIsReplace

\* A movement.
LEMMA MoveLine ==
  ASSUME ed \in EdType, NEW pos \in 0 .. Len(ed.input), ed' = MoveTo(ed, pos)
  PROVE  Line!Next
<1>1. ed' \in EdType /\ ed'.input = ed.input
  BY MoveToIs DEF Edit
<1> QED BY <1>1, StaysIsMove

\* A redraw.
LEMMA SameLineLine == ASSUME ed \in EdType, SameLine(ed, ed') PROVE Line!Next
BY StaysIsMove DEF SameLine

\* Every editing key.
LEMMA EditedLine ==
  ASSUME ed \in EdType, recent \in Seq(Text), Browsing(ed, recent), NEW b, ed' = Edited(ed, b)
  PROVE  Line!Next
<1> DEFINE n == Len(ed.input)
           l == ed.cursor - 1
           r == ed.cursor + 1
           z == 0
<1>1. /\ z \in 0 .. Len(ed.input) /\ n \in 0 .. Len(ed.input)
      /\ ed.cursor > 0 => l \in 0 .. Len(ed.input)
      /\ ed.cursor < Len(ed.input) => r \in 0 .. Len(ed.input)
  BY Fields
<1>2. \/ ed' = Backspace(ed) \/ ed' = MoveTo(ed, z) \/ ed' = MoveTo(ed, n)
      \/ (ed.cursor > 0 /\ ed' = MoveTo(ed, l))
      \/ (ed.cursor < Len(ed.input) /\ ed' = MoveTo(ed, r))
      \/ ed' = KillLine(ed) \/ ed' = KillWord(ed) \/ ed' = ClearInput(ed)
      \/ ed' = DeleteChar(ed) \/ ed' = ClearScreen(ed) \/ ed' = HistoryUp(ed)
      \/ ed' = HistoryDown(ed) \/ ed' = ShowHelp(ed)
      \/ (b \in Chars /\ ed' = InsertChar(ed, b)) \/ ed' = ed
  BY EditedCases
<1> HIDE DEF n, l, r, z
<1>3. CASE \/ ed' = MoveTo(ed, z) \/ ed' = MoveTo(ed, n)
           \/ (ed.cursor > 0 /\ ed' = MoveTo(ed, l))
           \/ (ed.cursor < Len(ed.input) /\ ed' = MoveTo(ed, r))
  BY <1>1, <1>3, MoveLine
<1>4. CASE ed' = ClearInput(ed)
  <2>1. ed' \in EdType /\ ed'.input = <<>> /\ ed'.cursor = 0
    BY <1>4, ClearInputIs DEF Edit
  <2> QED BY <2>1, EmptiedIsReplace
<1>5. CASE ed' = ClearScreen(ed) \/ ed' = ShowHelp(ed)
  BY <1>5, ClearScreenIs, ShowHelpIs, SameLineLine
<1>6. CASE ed' = HistoryUp(ed) \/ ed' = HistoryDown(ed)
  BY <1>6, HistoryLine
<1>7. CASE ed' = ed
  BY <1>7, StaysIsMove
<1> QED BY <1>2, <1>3, <1>4, <1>5, <1>6, <1>7, BackspaceLine, KillLineLine, KillWordLine,
           DeleteLine, TypedLine

\* Every escape sequence.
LEMMA SequenceLine ==
  ASSUME ed \in EdType, recent \in Seq(Text), Browsing(ed, recent), NEW final, NEW param,
         ed' = HandleCsi(ed, final, param)
  PROVE  Line!Next
<1> DEFINE n == Len(ed.input)
           l == ed.cursor - 1
           r == ed.cursor + 1
           z == 0
<1>1. /\ z \in 0 .. Len(ed.input) /\ n \in 0 .. Len(ed.input)
      /\ ed.cursor > 0 => l \in 0 .. Len(ed.input)
      /\ ed.cursor < Len(ed.input) => r \in 0 .. Len(ed.input)
  BY Fields
<1>2. \/ ed' = MoveTo(ed, z) \/ ed' = MoveTo(ed, n)
      \/ (ed.cursor > 0 /\ ed' = MoveTo(ed, l))
      \/ (ed.cursor < Len(ed.input) /\ ed' = MoveTo(ed, r))
      \/ ed' = DeleteChar(ed) \/ ed' = HistoryUp(ed) \/ ed' = HistoryDown(ed) \/ ed' = ed
  BY DEF HandleCsi
<1> HIDE DEF n, l, r, z
<1> QED BY <1>1, <1>2, MoveLine, DeleteLine, HistoryLine, StaysIsMove

\* A prompt leaves the line.
LEMMA PromptKeeps ==
  ASSUME NEW e, NEW r, NEW a, Ready(e, r, a)
  PROVE  Redisplay(e, a) \in EdType /\ Redisplay(e, a).input = e.input
         /\ Redisplay(e, a).cursor = e.cursor
<1>1. e \in EdType /\ Clear(e) /\ a \in {"command", "username", "secret", "lockout"}
  BY DEF Ready, Askings
<1>2. a = "username" => e.cursor = Len(e.input)
  BY DEF Ready
<1> QED BY <1>1, <1>2, RedisplayIs DEF OnlyScreen, Edit

\* After a line typed or run meanwhile, the edited line is as before or gone.
LEMMA OutcomeLine ==
  ASSUME NEW e, NEW kept, NEW now, Ready(e, kept, now), Outcome(e, kept, now), ed' \in EdType
  PROVE  \/ ed'.input = e.input /\ ed'.cursor = e.cursor
         \/ ed'.input = <<>> /\ ed'.cursor = 0
<1>1. e \in EdType /\ Clear(e) /\ kept \in Seq(Text) /\ now \in Askings /\ Browsing(e, kept)
  BY DEF Ready
<1>2. <<>> \in Seq(Text) /\ "username" \in Askings /\ "secret" \in Askings
  BY NoLine DEF Askings
<1>3. CASE ed' = Redisplay(e, now)
  BY <1>3, PromptKeeps
<1>4. CASE ed' = Redisplay(Forgotten(e), now)
  <2>1. Ready(Forgotten(e), <<>>, now)
    BY <1>2, ForgottenReady
  <2> QED BY <1>1, <1>4, <2>1, PromptKeeps, ForgottenIs
<1>5. CASE ed' = Redisplay(Emptied(Forgotten(e)), "username")
  <2> DEFINE f == Forgotten(e)
             r == <<>>
  <2>1. f \in EdType /\ Clear(f) /\ f.nav = 0
    BY <1>1, ForgottenIs
  <2>2. r \in Seq(Text) /\ Browsing(f, r)
    BY <2>1, NoLine DEF Browsing
  <2>4. ed' = Redisplay(Emptied(f), "username")
    BY <1>5
  <2> HIDE DEF f, r
  <2>3. Ready(Emptied(f), r, "username")
    BY <1>2, <2>1, <2>2, EmptiedReady
  <2> QED BY <2>1, <2>3, <2>4, PromptKeeps, EmptiedIs
<1>6. CASE ed' = Redisplay(Emptied(e), "secret")
  <2>1. Ready(Emptied(e), kept, "secret")
    BY <1>1, <1>2, EmptiedReady
  <2> QED BY <1>1, <1>6, <2>1, PromptKeeps, EmptiedIs
<1> QED BY <1>3, <1>4, <1>5, <1>6 DEF Outcome

\* And is a move or a replacement.
LEMMA OutcomeIsLine ==
  ASSUME ed \in EdType, NEW e, NEW kept, NEW now, Ready(e, kept, now), Outcome(e, kept, now),
         ed' \in EdType, e.input = ed.input \/ (e.input = <<>> /\ e.cursor = 0)
  PROVE  Line!Next
BY OutcomeLine, StaysIsMove, EmptiedIsReplace

\* A line of the history that a callback brings back.
LEMMA RecalledLine ==
  ASSUME NEW e \in EdType, recent \in Seq(Text), Clear(e), Recalled(e), ed' \in EdType
  PROVE  Line!Next
<1>1. PICK i \in 1 .. Len(recent) : ed' = Redraw(Loaded(e, recent[i]))
  BY DEF Recalled
<1> DEFINE t == recent[i]
           f == Loaded(e, t)
<1>2. t \in Text /\ t \in Remembered
  BY DEF Remembered
<1>3. ed' = Redraw(f)
  BY <1>1
<1> HIDE DEF t
<1>4. Edit(e, f) /\ f.input = t /\ f.cursor = Len(t) /\ f.row = e.row /\ f.col = e.col
  BY <1>2, LoadedIs
<1>5. f \in EdType /\ Clear(f)
  BY <1>4 DEF Edit, Clear
<1> HIDE DEF f
<1>6. Redraw(f).input = t /\ Redraw(f).cursor = Len(t)
  BY <1>4, <1>5, RedrawIs DEF OnlyScreen
<1> QED BY <1>2, <1>3, <1>6, EndIsReplace

\* What is printed leaves the line.
LEMMA OutputKeeps ==
  ASSUME NEW e \in EdType, NEW open
  PROVE  /\ Output(NewRow(e), open) \in EdType /\ Output(NewRow(e), open).input = e.input
         /\ NewRow(e) \in EdType /\ NewRow(e).input = e.input
BY OutputIs, NewRowIs DEF SameLine

-----------------------------------------------------------------------------
(* The refinement                                                          *)

\* A credential is edited at its end only.
LEMMA CredentialLine ==
  ASSUME EditorInv, EditorInv', NEW b, CredentialKey(b)
  PROVE  Line!Next
<1> DEFINE t == ed.input
           n == Len(t)
           x(m) == IF asking = "username" THEN Rubbed(ed, m) ELSE ed
           y == IF asking = "username" THEN Write(ed, <<b>>) ELSE ed
<1>1. /\ ed \in EdType /\ ed' \in EdType /\ t \in Text /\ t \in Seq(Int) /\ n \in Nat
      /\ n <= Size - 1
  BY Fields DEF EditorInv, Proper
<1>2. InFront(ed) = t /\ Behind(ed) = <<>>
  <2>1. ed.cursor = Len(ed.input)
    BY CredentialCases DEF EditorInv, Proper
  <2> QED BY <1>1, <2>1, FrontOnly
<1>3. ASSUME NEW m \in 0 .. n PROVE x(m) \in EdType
  BY <1>1, <1>3, RubbedIs DEF OnlyScreen, Edit
<1>4. CASE n > 0 /\ ed' = Loaded(x(1), SubSeq(t, 1, n - 1))
  <2> DEFINE k == 1
             m == n - k
             s == SubSeq(t, 1, m)
             e == x(k)
  <2>1. k \in 0 .. n /\ m \in 0 .. n
    BY <1>1, <1>4
  <2>2. e \in EdType
    BY <1>3, <2>1
  <2>3. ed' = Loaded(e, s)
    BY <1>4
  <2> HIDE DEF e, m, x
  <2>4. s \in Text /\ Len(s) = m
    BY <1>1, <2>1, SubToEnd
  <2> HIDE DEF s
  <2>5. ed'.input = s /\ ed'.cursor = Len(s)
    BY <2>2, <2>3, <2>4, LoadedIs
  <2>6. InFront(ed') = s /\ Behind(ed') = <<>>
    BY <1>1, <2>5, FrontOnly
  <2>7. t # <<>>
    BY <1>4, EmptyText
  <2>8. s = SubSeq(t, 1, n - 1)
    BY DEF s, m, k
  <2>9. Line!Backspace
    BY <1>2, <2>6, <2>7, <2>8, NewHalves DEF Line!Backspace, Line!Front2
  <2> QED BY <2>9 DEF Line!Next
<1>5. CASE ed' = Emptied(x(n))
  <2> DEFINE e == x(n)
  <2>1. e \in EdType /\ ed' = Emptied(e)
    BY <1>1, <1>3, <1>5
  <2> HIDE DEF e
  <2> QED BY <1>1, <2>1, EmptiedIs, EmptiedIsReplace
<1>6. CASE b \in Chars /\ n < CredentialLimit /\ ed' = Loaded(y, Append(t, b))
  <2> DEFINE s == Append(t, b)
  <2>1. b \in Int /\ <<b>> \in Seq(Int) /\ n + 1 <= Size - 1
    BY <1>1, <1>6, LettersAre, EditorAssumption
  <2>2. y \in EdType
    BY <1>1, <2>1, WriteIs DEF OnlyScreen, Edit
  <2>3. s \in Text
    <3> HIDE DEF t
    <3>1. s \in Seq(Int) /\ Len(s) = Len(t) + 1
      BY <1>1, <2>1, AppendProperties
    <3> QED BY <2>1, <3>1 DEF Text
  <2>4. ed' = Loaded(y, s)
    BY <1>6
  <2> HIDE DEF y, s
  <2>5. ed'.input = s /\ ed'.cursor = Len(s)
    BY <2>2, <2>3, <2>4, LoadedIs
  <2>6. InFront(ed') = s /\ Behind(ed') = <<>>
    BY <1>1, <2>5, FrontOnly
  <2>7. Line!Type
    BY <1>1, <1>2, <1>6, <2>6, NewHalves, HalvesFit DEF Line!Type, s
  <2> QED BY <2>7 DEF Line!Next
<1>7. CASE ed' = ed
  BY <1>1, <1>7, StaysIsMove
<1> QED BY <1>4, <1>5, <1>6, <1>7, CredentialCases

\* A submitted line.
LEMMA EnterLine ==
  ASSUME EditorInv, EditorInv', NEW b, EnterKey(b)
  PROVE  Line!Next
<1> DEFINE line == Trimmed(ed.input)
<1>1. /\ asking = "command" /\ ed \in EdType /\ ed' \in EdType /\ recent \in Seq(Text)
      /\ line \in Text /\ "command" \in Askings
  <2>1. ed.input \in Text
    BY Fields DEF EditorInv, Proper
  <2> QED BY <2>1, TrimmedIs DEF EnterKey, EditorInv, Proper, Askings
<1> HIDE DEF line
<1>2. ASSUME NEW open
      PROVE  /\ Ready(Forgotten(Output(NewRow(ed), open)), recent, "command")
             /\ Ready(Forgotten(Output(NewRow(ed), open)), Recorded(line), "command")
  <2> DEFINE o == Output(NewRow(ed), open)
             r == Recorded(line)
  <2>1. Ready(o, recent, "command")
    BY <1>1, OutputReady DEF EditorInv
  <2>2. r \in Seq(Text)
    BY <1>1, RecordedIs
  <2> HIDE DEF o, r
  <2>3. Ready(Forgotten(o), recent, "command") /\ Ready(Forgotten(o), r, "command")
    BY <1>1, <2>1, <2>2, ForgottenReady
  <2> QED BY <2>3 DEF o, r
<1>3. CASE ed' = Redisplay(Emptied(Forgotten(NewRow(ed))), "command")
  <2> DEFINE f == Forgotten(NewRow(ed))
  <2>1. Ready(NewRow(ed), recent, "command")
    BY <1>1, OutputReady DEF EditorInv
  <2>2. Ready(f, recent, "command")
    BY <1>1, <2>1, ForgottenReady
  <2>3. ed' = Redisplay(Emptied(f), "command")
    BY <1>3
  <2> HIDE DEF f
  <2>4. f \in EdType /\ Ready(Emptied(f), recent, "command")
    BY <2>2, EmptiedReady DEF Ready
  <2> QED BY <1>1, <2>3, <2>4, PromptKeeps, EmptiedIs, EmptiedIsReplace
<1>4. ASSUME NEW open,
             Outcome(Emptied(Forgotten(Output(NewRow(ed), open))), Recorded(line), "command")
      PROVE  Line!Next
  <2> DEFINE f == Forgotten(Output(NewRow(ed), open))
             r == Recorded(line)
  <2>1. Ready(f, r, "command") /\ Outcome(Emptied(f), r, "command")
    BY <1>2, <1>4
  <2> HIDE DEF f, r
  <2>2. Ready(Emptied(f), r, "command") /\ f \in EdType
    BY <2>1, EmptiedReady DEF Ready
  <2> QED BY <1>1, <2>1, <2>2, EmptiedIs, OutcomeIsLine
<1>5. ASSUME NEW open, Recalled(Forgotten(Output(NewRow(ed), open))) PROVE Line!Next
  <2> DEFINE f == Forgotten(Output(NewRow(ed), open))
  <2>1. f \in EdType /\ Clear(f) /\ Recalled(f)
    BY <1>2, <1>5 DEF Ready
  <2> HIDE DEF f
  <2> QED BY <1>1, <2>1, RecalledLine
<1> QED BY <1>3, <1>4, <1>5 DEF EnterKey, line

\* Ctrl-C and Ctrl-D.
LEMMA QuitLine == ASSUME EditorInv, EditorInv', NEW b, QuitKey(b) PROVE Line!Next
<1>1. PICK open \in BOOLEAN : Outcome(Output(NewRow(ed), open), recent, "command")
  BY DEF QuitKey
<1> DEFINE x == Output(NewRow(ed), open)
<1>2. Ready(x, recent, "command")
  BY OutputReady DEF EditorInv, QuitKey
<1>3. ed \in EdType /\ ed' \in EdType /\ x.input = ed.input
  BY OutputKeeps DEF EditorInv, Proper
<1>4. Outcome(x, recent, "command")
  BY <1>1
<1> HIDE DEF x
<1> QED BY <1>2, <1>3, <1>4, OutcomeIsLine

\* A submitted username.
LEMMA UsernameEnterLine == ASSUME EditorInv, EditorInv', NEW b, UsernameEnter(b) PROVE Line!Next
<1> DEFINE x == NewRow(ed)
<1>1. Ready(x, recent, "username")
  BY OutputReady DEF EditorInv, UsernameEnter
<1>2. ed' = Redisplay(Emptied(x), "secret") /\ ed' \in EdType
  BY DEF UsernameEnter, EditorInv, Proper
<1> HIDE DEF x
<1>3. x \in EdType /\ Ready(Emptied(x), recent, "secret")
  BY <1>1, EmptiedReady DEF Ready, Askings
<1> QED BY <1>2, <1>3, PromptKeeps, EmptiedIs, EmptiedIsReplace

\* A submitted password.
LEMMA SecretEnterLine == ASSUME EditorInv, EditorInv', NEW b, SecretEnter(b) PROVE Line!Next
<1>1. PICK open \in BOOLEAN, now \in {"command", "username", "lockout"} :
        Outcome(Emptied(Output(NewRow(ed), open)), recent, now)
  BY DEF SecretEnter
<1> DEFINE x == Output(NewRow(ed), open)
           y == Emptied(x)
<1>2. Ready(x, recent, asking) /\ ed \in EdType /\ ed' \in EdType
  BY OutputReady DEF EditorInv, Proper
<1> HIDE DEF x
<1>3. Ready(y, recent, now)
  BY <1>2, EmptiedReady DEF Ready, Askings
<1>4. Outcome(y, recent, now)
  BY <1>1 DEF x
<1>5. y.input = <<>> /\ y.cursor = 0
  BY <1>2, EmptiedIs DEF Ready
<1> HIDE DEF y
<1> QED BY <1>2, <1>3, <1>4, <1>5, OutcomeIsLine

\* The end of a lockout.
LEMMA LockoutLine == ASSUME EditorInv, EditorInv', LockoutEnd PROVE Line!Next
<1>1. /\ ed \in EdType /\ ed' \in EdType /\ Clear(ed) /\ recent \in Seq(Text)
      /\ Browsing(ed, recent)
  BY DEF EditorInv, Proper, Display, LockoutEnd
<1>2. asking' \in Askings /\ ed' = Redisplay(Emptied(ed), asking')
  BY DEF LockoutEnd, Askings
<1>3. Ready(Emptied(ed), recent, asking')
  BY <1>1, <1>2, EmptiedReady
<1> QED BY <1>1, <1>2, <1>3, PromptKeeps, EmptiedIs, EmptiedIsReplace

\* A line a callback runs.
LEMMA AppExecLine == ASSUME EditorInv, EditorInv', AppExec PROVE Line!Next
<1>1. PICK open \in BOOLEAN :
        \/ Outcome(Output(NewRow(ed), open), recent, asking)
        \/ Recalled(Output(NewRow(ed), open))
  BY DEF AppExec
<1> DEFINE x == Output(NewRow(ed), open)
<1>2. /\ Ready(x, recent, asking) /\ x.input = ed.input /\ ed \in EdType /\ ed' \in EdType
      /\ x \in EdType /\ Clear(x) /\ recent \in Seq(Text)
  BY OutputReady, OutputKeeps DEF EditorInv, Proper, Ready
<1>3. Outcome(x, recent, asking) \/ Recalled(x)
  BY <1>1
<1> HIDE DEF x
<1> QED BY <1>2, <1>3, OutcomeIsLine, RecalledLine

\* A login the application asks for.
LEMMA AppRequestAuthLine == ASSUME EditorInv, EditorInv', AppRequestAuth PROVE Line!Next
<1> DEFINE x == NewRow(ed)
           r == <<>>
<1>1. Ready(x, recent, asking) /\ ed' \in EdType
  BY OutputReady DEF EditorInv, Proper
<1>2. ed' = Redisplay(Emptied(Forgotten(x)), "username") /\ r \in Seq(Text)
  BY NoLine DEF AppRequestAuth
<1> HIDE DEF x, r
<1>3. Ready(Forgotten(x), r, asking)
  BY <1>1, <1>2, ForgottenReady
<1>4. Forgotten(x) \in EdType /\ Ready(Emptied(Forgotten(x)), r, "username")
  BY <1>3, EmptiedReady DEF Ready, Askings
<1> QED BY <1>1, <1>2, <1>4, PromptKeeps, EmptiedIs, EmptiedIsReplace

\* Text the application prints.
LEMMA AppPrintLine == ASSUME EditorInv, EditorInv', AppPrint PROVE Line!Next
<1> DEFINE x == NewRow(ed)
<1>1. ed \in EdType /\ ed' \in EdType /\ x \in EdType /\ x.input = ed.input
  BY OutputKeeps DEF EditorInv, Proper
<1>2. ed' = [x EXCEPT !.printed = TRUE]
  BY DEF AppPrint
<1> HIDE DEF x
<1>3. ed'.input = x.input
  BY <1>1, <1>2 DEF EdType
<1> QED BY <1>1, <1>3, StaysIsMove

\* Every step is one of the line, or leaves it.
LEMMA LineStep ==
  ASSUME EditorInv, EditorInv', [Next]_vars
  PROVE  Line!Next
<1>1. ed \in EdType /\ ed' \in EdType /\ recent \in Seq(Text) /\ Browsing(ed, recent)
  BY DEF EditorInv, Proper
<1>2. CASE ed' = ed
  BY <1>1, <1>2, StaysIsMove
<1>3. ASSUME NEW b, SequenceByte(b) PROVE Line!Next
  <2>1. ed' = ed \/ ed' = HandleCsi(ed, b, esc.param)
    BY <1>3 DEF SequenceByte
  <2> QED BY <1>1, <1>2, <2>1, SequenceLine
<1>4. ASSUME NEW b, EditKey(b) PROVE Line!Next
  BY <1>1, <1>4, EditedLine DEF EditKey
<1>5. ASSUME NEW b, TabKey(b) PROVE Line!Next
  BY <1>1, <1>5, CompletedLine DEF TabKey
<1>6. CASE AppClearHistory
  BY <1>1, <1>6, ForgottenIs, StaysIsMove DEF AppClearHistory
<1>7. ASSUME NEW b, EndOfPair(b) PROVE Line!Next
  BY <1>2, <1>7 DEF EndOfPair
<1>8. CASE UNCHANGED vars
  BY <1>2, <1>8 DEF vars
<1>9. CASE Next
  BY <1>3, <1>4, <1>5, <1>6, <1>7, <1>9, EnterLine, QuitLine, CredentialLine,
     UsernameEnterLine, SecretEnterLine, LockoutLine, AppExecLine, AppRequestAuthLine,
     AppPrintLine DEF Next
<1> QED BY <1>8, <1>9

\* An empty line at first.
LEMMA LineInit == Init => Line!Init
<1> DEFINE e == [input |-> <<>>, cursor |-> 0, nav |-> 0, saved |-> <<>>,
                 row |-> Blank, col |-> 0, printed |-> FALSE]
<1> SUFFICES ASSUME Init PROVE Line!Init
  OBVIOUS
<1>1. e \in EdType /\ e.input = <<>> /\ e.cursor = Len(e.input) /\ Clear(e) /\ e.nav = 0
  BY EmptyText, BlankIs DEF EdType, Clear
<1> HIDE DEF e
<1>2. Ready(e, <<>>, asking)
  BY <1>1, NoLine DEF Init, Ready, Askings, Browsing
<1>3. ed = Redisplay(e, asking)
  BY DEF Init, e
<1>4. ed \in EdType /\ ed.input = <<>> /\ ed.cursor = Len(ed.input)
  BY <1>1, <1>2, <1>3, PromptKeeps
<1>5. InFront(ed) = <<>> /\ Behind(ed) = <<>>
  BY <1>4, FrontOnly
<1> QED BY <1>5 DEF Line!Init

\* The editor implements CliLine: every byte, and every line a callback runs meanwhile, is at
\* most one editing command on the text in front of the cursor and the text behind it.
THEOREM EditorImplementsLine == EditorSpec => ImplementsLine
<1>1. EditorInv /\ [Next]_vars => EditorInv'
  BY EditorStep
<1>2. EditorInv /\ EditorInv' /\ [Next]_vars => [Line!Next]_<<InFront(ed), Behind(ed)>>
  BY LineStep
<1> QED BY <1>1, <1>2, EditorInit, LineInit, PTL DEF EditorSpec, ImplementsLine, Line!Spec

-----------------------------------------------------------------------------
(* What a sequence has become                                              *)

EscType ==
  esc \in [state : {"NORMAL", "ESC", "SS3"} \cup CsiStates, param : Nat]

(* The first d bytes of s are digits, and no more of them.                 *)
Leads(s, d) ==
  /\ d \in 0 .. Len(s) /\ \A i \in 1 .. d : IsDigit(s[i])
  /\ d < Len(s) => ~IsDigit(s[d + 1])

(* The number the bytes of s up to each of them would be.                  *)
Values(s, g) ==
  /\ g \in [0 .. Len(s) -> Int] /\ g[0] = 0
  /\ \A i \in 1 .. Len(s) : g[i] = 10 * g[i - 1] + s[i] - 48

Odd(s) == \E i \in 1 .. Len(s) : s[i] \in 60 .. 63 \/ IsInter(s[i])

Held(n) == IF n < ParamMax THEN n ELSE ParamMax

(* What a CSI sequence with the bytes s behind its introducer has become.  *)
Became(s, state, param) ==
  /\ state \in CsiStates
  /\ state = "CSI_IGNORE" <=> Odd(s)
  /\ \E d, g : /\ Leads(s, d) /\ Values(s, g) /\ param = Held(g[d])
               /\ state = "CSI" <=> d = Len(s)

ParserInv ==
  /\ EscType /\ received \in Seq(Int)
  /\ \/ esc.state = "NORMAL" /\ received = <<>> /\ esc.param = 0
     \/ esc.state = "ESC" /\ received = <<ESC>> /\ esc.param = 0
     \/ esc.state = "SS3" /\ received = <<ESC, 79>> /\ esc.param = 0
     \/ /\ Len(received) >= 2 /\ received[1] = ESC /\ received[2] = 91
        /\ Became(SubSeq(received, 3, Len(received)), esc.state, esc.param)

\* One more digit, with the saturation of cli_esc_param_digit.
LEMMA DigitHeld ==
  ASSUME NEW n \in Int, NEW d \in 0 .. 9
  PROVE  WithDigit(Held(n), d) = Held(10 * n + d)
<1>1. ParamMax \in Nat
  BY EditorAssumption
<1> DEFINE q == (ParamMax - d) \div 10
<1>2. q \in Int /\ 10 * q <= ParamMax - d /\ ParamMax - d < 10 * q + 10
  BY <1>1
<1> HIDE DEF q
<1>3. \A m \in Int : WithDigit(m, d) = IF m <= q THEN m * 10 + d ELSE ParamMax
  BY DEF WithDigit, q
<1>4. CASE n < ParamMax
  <2>1. Held(n) = n
    BY <1>4 DEF Held
  <2>2. n <= q <=> 10 * n + d <= ParamMax
    BY <1>1, <1>2
  <2> QED BY <1>1, <1>3, <2>1, <2>2 DEF Held
<1>5. CASE ~ (n < ParamMax)
  <2>1. Held(n) = ParamMax
    BY <1>5 DEF Held
  <2>2. ~ (10 * n + d < ParamMax)
    BY <1>1, <1>5
  <2>3. ParamMax <= q => ParamMax = 0 /\ d = 0
    BY <1>1, <1>2
  <2> QED BY <1>1, <1>3, <2>1, <2>2, <2>3 DEF Held
<1> QED BY <1>4, <1>5

\* An empty sequence, and one byte more.
LEMMA BecameEmpty == Became(<<>>, "CSI", 0)
<1> DEFINE s == <<>>
           g == [i \in {0} |-> 0]
           d == 0
<1>1. Len(s) = 0 /\ 0 .. Len(s) = {0} /\ 1 .. Len(s) = {}
  BY EmptyText
<1>2. Values(s, g) /\ g[d] = 0
  BY <1>1 DEF Values
<1>3. Leads(s, d) /\ d = Len(s)
  BY <1>1 DEF Leads
<1>4. Held(0) = 0
  BY EditorAssumption DEF Held
<1>5. ~Odd(s)
  BY <1>1 DEF Odd
<1> HIDE DEF g, s, d
<1>6. \E e, h : Leads(s, e) /\ Values(s, h) /\ 0 = Held(h[e]) /\ e = Len(s)
  BY <1>2, <1>3, <1>4
<1>7. Became(s, "CSI", 0)
  BY <1>5, <1>6 DEF Became, CsiStates
<1> QED BY <1>7 DEF s

Longer(g, h, n, b) ==
  (\A i \in 0 .. n : h[i] = g[i]) /\ h[n + 1] = 10 * g[n] + b - 48

\* The numbers, one byte later.
LEMMA MoreValues ==
  ASSUME NEW s \in Seq(Int), NEW b \in Int, NEW g, Values(s, g), NEW u, u = Append(s, b)
  PROVE  \E h : Values(u, h) /\ Longer(g, h, Len(s), b)
<1> DEFINE n == Len(s)
           h == [i \in 0 .. n + 1 |-> IF i <= n THEN g[i] ELSE 10 * g[n] + b - 48]
<1>1. /\ u \in Seq(Int) /\ Len(u) = n + 1 /\ n \in Nat /\ u[n + 1] = b
      /\ \A i \in 1 .. n : u[i] = s[i]
  BY AppendProperties
<1>2. g \in [0 .. n -> Int] /\ g[0] = 0 /\ \A i \in 1 .. n : g[i] = 10 * g[i - 1] + s[i] - 48
  BY DEF Values
<1> HIDE DEF n
<1>3. /\ \A i \in 0 .. n : h[i] = g[i]
      /\ h[n + 1] = 10 * g[n] + b - 48
  BY <1>1
<1>4. h \in [0 .. n + 1 -> Int]
  <2>1. \A i \in 0 .. n + 1 : (IF i <= n THEN g[i] ELSE 10 * g[n] + b - 48) \in Int
    BY <1>1, <1>2
  <2> QED BY <2>1
<1> HIDE DEF h
<1>5. ASSUME NEW i \in 1 .. n + 1 PROVE h[i] = 10 * h[i - 1] + u[i] - 48
  <2>1. CASE i \in 1 .. n
    <3>1. i - 1 \in 0 .. n /\ i \in 0 .. n
      BY <1>1, <2>1
    <3> QED BY <1>1, <1>2, <1>3, <2>1, <3>1
  <2>2. CASE i = n + 1
    <3>1. i - 1 = n /\ n \in 0 .. n
      BY <1>1, <2>2
    <3> QED BY <1>1, <1>3, <2>2, <3>1
  <2> QED BY <1>1, <2>1, <2>2
<1>6. Values(u, h)
  BY <1>1, <1>2, <1>3, <1>4, <1>5 DEF Values
<1> QED BY <1>3, <1>6 DEF n, Longer

\* Private and intermediate bytes, one byte later.
LEMMA MoreOdd ==
  ASSUME NEW s \in Seq(Int), NEW b \in Int, NEW u, u = Append(s, b)
  PROVE  Odd(u) <=> Odd(s) \/ b \in 60 .. 63 \/ IsInter(b)
<1> DEFINE n == Len(s)
           Is(x) == x \in 60 .. 63 \/ IsInter(x)
<1>1. /\ Len(u) = n + 1 /\ n \in Nat /\ u[n + 1] = b
      /\ \A i \in 1 .. n : u[i] = s[i]
  BY AppendProperties
<1> HIDE DEF n, Is
<1>2. (\E i \in 1 .. n + 1 : Is(u[i])) <=> (\E i \in 1 .. n : Is(s[i])) \/ Is(b)
  BY <1>1
<1> QED BY <1>1, <1>2 DEF Odd, Is, n

\* A digit of the parameter.
LEMMA BecameDigit ==
  ASSUME NEW s \in Seq(Int), NEW b \in Int, IsDigit(b), NEW p, Became(s, "CSI", p),
         NEW u, u = Append(s, b)
  PROVE  Became(u, "CSI", WithDigit(p, b - 48))
<1> DEFINE n == Len(s)
<1>1. PICK d, g : Leads(s, d) /\ Values(s, g) /\ p = Held(g[d]) /\ d = n
  BY DEF Became
<1>2. ~Odd(s)
  BY DEF Became
<1>10. \E h : Values(u, h) /\ Longer(g, h, n, b)
  BY <1>1, MoreValues
<1>3. PICK h : Values(u, h) /\ h[n + 1] = 10 * g[n] + b - 48
  BY Zenon, <1>10 DEF Longer
<1>4. /\ Len(u) = n + 1 /\ n \in Nat /\ u[n + 1] = b
      /\ \A i \in 1 .. n : u[i] = s[i]
  BY AppendProperties
<1>5. g[n] \in Int
  BY <1>1, <1>4 DEF Values
<1> HIDE DEF n
<1>6. b - 48 \in 0 .. 9 /\ 10 * g[n] + b - 48 = 10 * g[n] + (b - 48)
  BY <1>5 DEF IsDigit
<1>7. WithDigit(p, b - 48) = Held(h[n + 1])
  BY <1>1, <1>3, <1>5, <1>6, DigitHeld
<1>8. Leads(u, n + 1)
  <2>1. \A i \in 1 .. n : IsDigit(s[i])
    BY <1>1 DEF Leads
  <2> QED BY <1>4, <2>1 DEF Leads
<1>9. ~Odd(u)
  <2>1. Odd(u) <=> Odd(s) \/ b \in 60 .. 63 \/ IsInter(b)
    BY MoreOdd
  <2>2. ~ (b \in 60 .. 63) /\ ~IsInter(b)
    BY DEF IsDigit, IsInter
  <2> QED BY <1>2, <2>1, <2>2
<1> QED BY <1>3, <1>4, <1>7, <1>8, <1>9 DEF Became, CsiStates

\* Any other byte, or a digit behind another byte, leaves the parameter.
LEMMA BecameMore ==
  ASSUME NEW s \in Seq(Int), NEW b \in Int, NEW st, NEW p, Became(s, st, p),
         NEW u, u = Append(s, b), st # "CSI" \/ ~IsDigit(b), NEW ns, ns \in CsiStates \ {"CSI"},
         ns = "CSI_IGNORE" <=> st = "CSI_IGNORE" \/ b \in 60 .. 63 \/ IsInter(b)
  PROVE  Became(u, ns, p)
<1> DEFINE n == Len(s)
<1>1. PICK d, g : Leads(s, d) /\ Values(s, g) /\ p = Held(g[d]) /\ (st = "CSI" <=> d = n)
  BY DEF Became
<1>2. st = "CSI_IGNORE" <=> Odd(s)
  BY DEF Became
<1>10. \E h : Values(u, h) /\ Longer(g, h, n, b)
  BY <1>1, MoreValues
<1>3. PICK h : Values(u, h) /\ \A i \in 0 .. n : h[i] = g[i]
  BY Zenon, <1>10 DEF Longer
<1>4. /\ Len(u) = n + 1 /\ n \in Nat /\ u[n + 1] = b
      /\ \A i \in 1 .. n : u[i] = s[i]
  BY AppendProperties
<1>5. d \in 0 .. n /\ (\A i \in 1 .. d : IsDigit(s[i])) /\ (d < n => ~IsDigit(s[d + 1]))
  BY <1>1 DEF Leads
<1> HIDE DEF n
<1>6. h[d] = g[d] /\ d # n + 1
  BY <1>3, <1>4, <1>5
<1>7. Leads(u, d)
  <2>1. \A i \in 1 .. d : IsDigit(u[i])
    BY <1>4, <1>5
  <2>2. ~IsDigit(u[d + 1])
    <3>1. CASE d = n
      BY <1>1, <1>4, <3>1
    <3>2. CASE d < n
      <4>1. d + 1 \in 1 .. n
        BY <1>4, <1>5, <3>2
      <4> QED BY <1>4, <1>5, <3>2, <4>1
    <3> QED BY <1>4, <1>5, <3>1, <3>2
  <2> QED BY <1>4, <1>5, <2>1, <2>2 DEF Leads
<1>8. ns = "CSI_IGNORE" <=> Odd(u)
  BY <1>2, MoreOdd
<1> QED BY <1>1, <1>3, <1>4, <1>6, <1>7, <1>8 DEF Became

-----------------------------------------------------------------------------
(* The parser's table                                                      *)

\* The cases of the parser's tables: a byte outside a sequence,
LEMMA NormalByteIs ==
  ASSUME NEW b
  PROVE  NormalByte(b) \in (IF b = ESC THEN {To("ESC", 0, TRUE)} ELSE {})
                           \cup {To("NORMAL", esc.param, FALSE)}
BY DEF NormalByte

\* behind ESC,
LEMMA EscByteIs ==
  ASSUME NEW b
  PROVE  EscByte(b) \in (IF b = 91 THEN {To("CSI", esc.param, TRUE)} ELSE {})
                        \cup (IF b = 79 THEN {To("SS3", esc.param, TRUE)} ELSE {})
                        \cup (IF b = ESC THEN {To("ESC", esc.param, TRUE)} ELSE {})
                        \cup {To("NORMAL", esc.param, FALSE)}
BY DEF EscByte

\* of an SS3 sequence,
LEMMA Ss3ByteIs ==
  ASSUME NEW b
  PROVE  Ss3Byte(b) \in (IF b = ESC THEN {To("ESC", 0, TRUE)} ELSE {})
                        \cup {Completed(b), To("NORMAL", 0, b \in 32 .. 126)}
BY DEF Ss3Byte

\* of a CSI sequence,
LEMMA CsiByteIs ==
  ASSUME NEW b
  PROVE  CsiByte(b) \in
           (IF IsDigit(b) /\ esc.state = "CSI" THEN {To("CSI", WithDigit(esc.param, b - 48), TRUE)}
            ELSE {})
           \cup (IF b \in {58, 59}
                 THEN {To(IF esc.state = "CSI" THEN "CSI_REST" ELSE esc.state, esc.param, TRUE)}
                 ELSE {})
           \cup (IF b \in 60 .. 63 \/ IsInter(b) THEN {To("CSI_IGNORE", esc.param, TRUE)} ELSE {})
           \cup (IF IsDigit(b) /\ esc.state # "CSI" THEN {To(esc.state, esc.param, TRUE)} ELSE {})
           \cup (IF b = ESC THEN {To("ESC", 0, TRUE)} ELSE {})
           \cup {To("NORMAL", 0, TRUE), To("NORMAL", 0, FALSE), Completed(b)}
BY ZenonT(30) DEF CsiByte

\* in any state.
LEMMA ParsedIs ==
  ASSUME NEW b, esc.state \in {"NORMAL", "ESC", "SS3"} \cup CsiStates
  PROVE  Parsed(b) \in (IF esc.state = "NORMAL" THEN {NormalByte(b)} ELSE {})
                       \cup (IF esc.state = "ESC" THEN {EscByte(b)} ELSE {})
                       \cup (IF esc.state \in CsiStates THEN {CsiByte(b)} ELSE {})
                       \cup (IF esc.state = "SS3" THEN {Ss3Byte(b)} ELSE {})
BY DEF Parsed, CsiStates

\* What a byte makes of the parser outside a sequence.
LEMMA NormalStep ==
  ASSUME NEW b, esc.state = "NORMAL", esc.param = 0, EscType
  PROVE  \/ Parsed(b).state = "NORMAL" /\ Parsed(b).param = 0
         \/ b = ESC /\ Parsed(b).state = "ESC" /\ Parsed(b).param = 0
<1>1. Parsed(b) = NormalByte(b)
  BY ParsedIs DEF EscType, CsiStates
<1> QED BY <1>1, NormalByteIs DEF To

\* What it makes of it behind ESC.
LEMMA EscStep ==
  ASSUME NEW b, esc.state = "ESC", esc.param = 0, EscType
  PROVE  \/ Parsed(b).state = "NORMAL" /\ Parsed(b).param = 0
         \/ b = ESC /\ Parsed(b).state = "ESC" /\ Parsed(b).param = 0
         \/ b = 91 /\ Parsed(b).state = "CSI" /\ Parsed(b).param = 0
         \/ b = 79 /\ Parsed(b).state = "SS3" /\ Parsed(b).param = 0
<1>1. Parsed(b) = EscByte(b)
  BY ParsedIs DEF EscType, CsiStates
<1> QED BY <1>1, EscByteIs DEF To

\* What it makes of it in an SS3 sequence.
LEMMA Ss3Step ==
  ASSUME NEW b, esc.state = "SS3", EscType
  PROVE  \/ Parsed(b).state = "NORMAL" /\ Parsed(b).param = 0
         \/ b = ESC /\ Parsed(b).state = "ESC" /\ Parsed(b).param = 0
<1>1. Parsed(b) = Ss3Byte(b)
  BY ParsedIs DEF EscType, CsiStates
<1> QED BY <1>1, Ss3ByteIs DEF To, Completed

\* What it makes of it in a CSI sequence.
LEMMA CsiStep ==
  ASSUME NEW b, esc.state \in CsiStates, EscType
  PROVE  \/ Parsed(b).state = "NORMAL" /\ Parsed(b).param = 0
         \/ b = ESC /\ Parsed(b).state = "ESC" /\ Parsed(b).param = 0
         \/ /\ IsDigit(b) /\ esc.state = "CSI" /\ Parsed(b).state = "CSI"
            /\ Parsed(b).param = WithDigit(esc.param, b - 48)
         \/ /\ b \in {58, 59} /\ Parsed(b).param = esc.param
            /\ Parsed(b).state = IF esc.state = "CSI" THEN "CSI_REST" ELSE esc.state
         \/ /\ b \in 60 .. 63 \/ IsInter(b)
            /\ Parsed(b).state = "CSI_IGNORE" /\ Parsed(b).param = esc.param
         \/ /\ IsDigit(b) /\ esc.state # "CSI"
            /\ Parsed(b).state = esc.state /\ Parsed(b).param = esc.param
<1>1. Parsed(b) = CsiByte(b)
  BY ParsedIs DEF EscType, CsiStates
<1> QED BY <1>1, CsiByteIs DEF To, Completed

Introduced(r) == r \in Seq(Int) /\ Len(r) >= 2

\* u is r with one more byte, and so is its tail.
Grows(r, u, b) ==
  /\ u \in Seq(Int) /\ Len(u) >= 2 /\ u[1] = r[1] /\ u[2] = r[2]
  /\ SubSeq(r, 3, Len(r)) \in Seq(Int)
  /\ SubSeq(u, 3, Len(u)) = Append(SubSeq(r, 3, Len(r)), b)

\* The bytes behind the introducer, one byte later.
LEMMA TailGrows ==
  ASSUME NEW r, Introduced(r), NEW b \in Int, NEW u, u = Append(r, b)
  PROVE  Grows(r, u, b)
<1>0. r \in Seq(Int) /\ Len(r) >= 2
  BY DEF Introduced
<1> DEFINE c == 2
           n == Len(r)
           s == SubSeq(r, c + 1, n)
           v == SubSeq(u, c + 1, Len(u))
           w == Append(s, b)
<1>1. /\ u \in Seq(Int) /\ Len(u) = n + 1 /\ n \in Nat /\ u[n + 1] = b
      /\ \A i \in 1 .. n : u[i] = r[i]
  BY <1>0, AppendProperties
<1>2. c \in 0 .. n /\ c \in 0 .. Len(u) /\ c + 1 = 3 /\ c \in Nat
  BY <1>0, <1>1
<1>3. u[1] = r[1] /\ u[2] = r[2] /\ Len(u) >= 2
  BY <1>0, <1>1
<1> HIDE DEF c, n
<1>4. s \in Seq(Int) /\ Len(s) = n - c /\ \A i \in 1 .. n - c : s[i] = r[c + i]
  BY <1>0, <1>2, Suffix DEF n
<1>5. v \in Seq(Int) /\ Len(v) = Len(u) - c /\ \A i \in 1 .. Len(u) - c : v[i] = u[c + i]
  BY <1>1, <1>2, Suffix
<1> HIDE DEF s, v
<1>6. /\ w \in Seq(Int) /\ Len(w) = Len(s) + 1 /\ w[Len(s) + 1] = b
      /\ \A i \in 1 .. Len(s) : w[i] = s[i]
  BY <1>4, AppendProperties
<1> HIDE DEF w
<1>7. ASSUME NEW i \in 1 .. Len(w) PROVE v[i] = w[i]
  <2>1. CASE i \in 1 .. Len(s)
    <3>1. c + i \in 1 .. n /\ i \in 1 .. n - c /\ i \in 1 .. Len(u) - c
      BY <1>1, <1>2, <1>4, <2>1
    <3> QED BY ZenonT(30), <1>1, <1>4, <1>5, <1>6, <2>1, <3>1
  <2>2. CASE i = Len(s) + 1
    <3>1. c + i = n + 1 /\ i \in 1 .. Len(u) - c
      BY <1>1, <1>2, <1>4, <2>2
    <3> QED BY <1>1, <1>5, <1>6, <2>2, <3>1
  <2>3. Len(s) \in Nat
    BY <1>4
  <2> QED BY <1>6, <2>1, <2>2, <2>3
<1>8. Len(v) = Len(w)
  BY <1>1, <1>2, <1>4, <1>5, <1>6
<1>9. v = w
  BY <1>5, <1>6, <1>7, <1>8, SeqEqual
<1> QED BY <1>1, <1>2, <1>3, <1>4, <1>9 DEF v, w, s, n, Grows

-----------------------------------------------------------------------------
(* The parser's steps                                                      *)

\* A byte behind another.
LEMMA PairIs ==
  ASSUME NEW x \in Int, NEW y \in Int
  PROVE  Append(<<x>>, y) = <<x, y>>
<1> DEFINE s == <<x>>
           u == Append(s, y)
           v == <<x, y>>
<1>1. s \in Seq(Int) /\ Len(s) = 1 /\ s[1] = x
  OBVIOUS
<1>2. v \in Seq(Int) /\ Len(v) = 2 /\ v[1] = x /\ v[2] = y
  OBVIOUS
<1> HIDE DEF s
<1>3. /\ u \in Seq(Int) /\ Len(u) = Len(s) + 1 /\ u[Len(s) + 1] = y
      /\ \A i \in 1 .. Len(s) : u[i] = s[i]
  BY ZenonT(30), <1>1, AppendProperties
<1> HIDE DEF u, v
<1>4. Len(u) = 2 /\ u[1] = x /\ u[2] = y
  BY <1>1, <1>3
<1>5. Len(u) = Len(v) /\ \A i \in 1 .. Len(u) : u[i] = v[i]
  BY <1>2, <1>4
<1>6. u = v
  BY <1>2, <1>3, <1>5, SeqEqual
<1> QED BY <1>6 DEF u, v, s

\* No sequence at first.
LEMMA ParserInit == Init => ParserInv
<1> SUFFICES ASSUME Init PROVE ParserInv
  OBVIOUS
<1>1. esc = [state |-> "NORMAL", param |-> 0] /\ received = <<>>
  BY DEF Init
<1>2. esc.state = "NORMAL" /\ esc.param = 0 /\ EscType
  BY <1>1 DEF EscType
<1>3. received \in Seq(Int)
  BY <1>1, EmptyText
<1> QED BY <1>1, <1>2, <1>3 DEF ParserInv

\* What is remembered of the bytes read.
LEMMA ReceivedIs ==
  ASSUME NEW b, Parse(b)
  PROVE  /\ esc'.state = Parsed(b).state /\ esc'.param = Parsed(b).param
         /\ esc' = [state |-> Parsed(b).state, param |-> Parsed(b).param]
         /\ Parsed(b).state = "NORMAL" => received' = <<>>
         /\ Parsed(b).state # "NORMAL" /\ b = ESC => received' = <<ESC>>
         /\ Parsed(b).state # "NORMAL" /\ b # ESC => received' = Append(received, b)
<1>1. esc' = [state |-> Parsed(b).state, param |-> Parsed(b).param]
  BY DEF Parse
<1>2. esc'.state = Parsed(b).state /\ esc'.param = Parsed(b).param
  BY <1>1
<1>3. received' = IF esc'.state = "NORMAL" THEN <<>>
                  ELSE Append(IF b = ESC THEN <<>> ELSE received, b)
  BY DEF Parse
<1>4. b = ESC => Append(IF b = ESC THEN <<>> ELSE received, b) = <<ESC>>
  OBVIOUS
<1>5. b # ESC => Append(IF b = ESC THEN <<>> ELSE received, b) = Append(received, b)
  OBVIOUS
<1> QED BY Zenon, <1>1, <1>2, <1>3, <1>4, <1>5

\* A byte that goes through the parser.
LEMMA ParseStep ==
  ASSUME ParserInv, NEW b \in Int, Parse(b)
  PROVE  ParserInv'
<1> DEFINE st == Parsed(b).state
           pm == Parsed(b).param
<1>1. /\ esc'.state = st /\ esc'.param = pm /\ esc' = [state |-> st, param |-> pm]
      /\ st = "NORMAL" => received' = <<>>
      /\ st # "NORMAL" /\ b = ESC => received' = <<ESC>>
      /\ st # "NORMAL" /\ b # ESC => received' = Append(received, b)
  BY Zenon, ReceivedIs
<1>2. EscType /\ received \in Seq(Int) /\ esc.param \in Nat /\ ESC \in Int /\ ESC = 27
  BY DEF ParserInv, EscType, ESC
<1> HIDE DEF st, pm
<1>9. "ESC" # "NORMAL"
  OBVIOUS
<1>10. <<ESC>> \in Seq(Int) /\ <<ESC, 79>> \in Seq(Int)
  BY <1>2
<1>3. CASE st = "NORMAL" /\ pm = 0
  <2>1. received' = <<>> /\ received' \in Seq(Int)
    BY <1>1, <1>3, EmptyText
  <2>2. EscType'
    BY <1>1, <1>3 DEF EscType
  <2> QED BY <1>1, <1>3, <2>1, <2>2 DEF ParserInv
<1>4. CASE b = ESC /\ st = "ESC" /\ pm = 0
  <2>1. received' = <<ESC>>
    BY Zenon, <1>1, <1>4, <1>9
  <2>3. received' \in Seq(Int)
    BY Zenon, <1>10, <2>1
  <2>2. EscType'
    BY <1>1, <1>4 DEF EscType
  <2> QED BY <1>1, <1>4, <2>1, <2>2, <2>3 DEF ParserInv
<1>5. CASE esc.state = "NORMAL" /\ received = <<>> /\ esc.param = 0
  BY <1>2, <1>3, <1>4, <1>5, NormalStep DEF st, pm
<1>6. CASE esc.state = "ESC" /\ received = <<ESC>> /\ esc.param = 0
  <2>1. CASE b = 91 /\ st = "CSI" /\ pm = 0
    <3>1. received' = <<ESC, 91>>
      BY <1>1, <1>2, <1>6, <2>1
    <3>2. /\ received' \in Seq(Int) /\ Len(received') = 2 /\ received'[1] = ESC
          /\ received'[2] = 91
      BY <1>2, <3>1
    <3>3. SubSeq(received', 3, Len(received')) = <<>>
      <4> DEFINE r == received'
                 m == 3
                 n == Len(r)
      <4>1. r \in Seq(Int) /\ m \in Int /\ n \in Int /\ m > n
        BY <3>2
      <4> HIDE DEF r, m, n
      <4>2. SubSeq(r, m, n) = <<>>
        BY <4>1, SubSeqEmpty
      <4> QED BY <4>2 DEF r, m, n
    <3>4. Became(SubSeq(received', 3, Len(received')), esc'.state, esc'.param)
      BY <1>1, <2>1, <3>3, BecameEmpty
    <3>5. EscType'
      BY <1>1, <2>1 DEF EscType, CsiStates
    <3> QED BY <3>2, <3>4, <3>5 DEF ParserInv
  <2>2. CASE b = 79 /\ st = "SS3" /\ pm = 0
    <3>3. st # "NORMAL" /\ b # ESC
      BY <1>2, <2>2
    <3>4. received' = Append(<<ESC>>, 79)
      BY Zenon, <1>1, <1>6, <2>2, <3>3
    <3>5. Append(<<ESC>>, 79) = <<ESC, 79>>
      BY <1>2, PairIs
    <3>1. received' = <<ESC, 79>> /\ received' \in Seq(Int)
      BY Zenon, <1>10, <3>4, <3>5
    <3>2. EscType'
      BY <1>1, <2>2 DEF EscType
    <3> QED BY <1>1, <2>2, <3>1, <3>2 DEF ParserInv
  <2> QED BY <1>2, <1>3, <1>4, <1>6, <2>1, <2>2, EscStep DEF st, pm
<1>7. CASE esc.state = "SS3"
  BY <1>2, <1>3, <1>4, <1>7, Ss3Step DEF st, pm
<1>8. CASE /\ Len(received) >= 2 /\ received[1] = ESC /\ received[2] = 91
           /\ Became(SubSeq(received, 3, Len(received)), esc.state, esc.param)
  <2> DEFINE s == SubSeq(received, 3, Len(received))
  <2>1. esc.state \in CsiStates
    BY <1>8 DEF Became
  <2>2. s \in Seq(Int)
    <3>1. Introduced(received)
      BY <1>2, <1>8 DEF Introduced
    <3>2. Grows(received, Append(received, b), b)
      BY <3>1, TailGrows
    <3> QED BY <3>2 DEF Grows
  <2>3. Became(s, esc.state, esc.param)
    BY <1>8
  <2> HIDE DEF s
  <2>4. ASSUME st \in CsiStates, b # ESC, pm \in Nat, Became(Append(s, b), st, pm)
        PROVE  ParserInv'
    <3>1. received' = Append(received, b)
      BY <1>1, <2>4 DEF CsiStates
    <3>2. /\ received' \in Seq(Int) /\ Len(received') >= 2 /\ received'[1] = ESC
          /\ received'[2] = 91 /\ SubSeq(received', 3, Len(received')) = Append(s, b)
      <4> DEFINE r == received
                 u == Append(r, b)
      <4>1. r \in Seq(Int) /\ Len(r) >= 2 /\ r[1] = ESC /\ r[2] = 91
        BY <1>2, <1>8
      <4> HIDE DEF r
      <4>4. u = Append(r, b) /\ Introduced(r)
        BY <4>1 DEF Introduced
      <4> HIDE DEF u
      <4>2. Grows(r, u, b)
        BY <4>4, TailGrows
      <4>3. received' = u /\ s = SubSeq(r, 3, Len(r))
        BY <3>1 DEF r, s, u
      <4> QED BY Zenon, <4>1, <4>2, <4>3 DEF Grows
    <3>3. EscType'
      BY <1>1, <2>4 DEF EscType, CsiStates
    <3> QED BY <1>1, <2>4, <3>2, <3>3 DEF ParserInv
  <2>5. CASE IsDigit(b) /\ esc.state = "CSI" /\ st = "CSI" /\ pm = WithDigit(esc.param, b - 48)
    <3>1. Became(Append(s, b), st, pm)
      BY <2>2, <2>3, <2>5, BecameDigit
    <3>2. pm \in Nat
      BY <1>2, <2>5, EditorAssumption DEF WithDigit, IsDigit
    <3> QED BY <1>2, <2>4, <2>5, <3>1, <3>2 DEF IsDigit, CsiStates
  <2>6. ASSUME esc.state # "CSI" \/ ~IsDigit(b), st \in CsiStates \ {"CSI"}, b # ESC,
               pm = esc.param,
               st = "CSI_IGNORE" <=> esc.state = "CSI_IGNORE" \/ b \in 60 .. 63 \/ IsInter(b)
        PROVE  ParserInv'
    <3>1. Became(Append(s, b), st, pm)
      BY <2>2, <2>3, <2>6, BecameMore
    <3> QED BY <1>2, <2>4, <2>6, <3>1
  <2>7. CASE /\ b \in {58, 59} /\ pm = esc.param
             /\ st = IF esc.state = "CSI" THEN "CSI_REST" ELSE esc.state
    <3>1. ~IsDigit(b) /\ b # ESC /\ ~ (b \in 60 .. 63 \/ IsInter(b))
      BY <1>2, <2>7 DEF IsDigit, IsInter
    <3>2. st \in CsiStates \ {"CSI"} /\ (st = "CSI_IGNORE" <=> esc.state = "CSI_IGNORE")
      BY <2>1, <2>7 DEF CsiStates
    <3> QED BY <2>6, <2>7, <3>1, <3>2
  <2>8. CASE (b \in 60 .. 63 \/ IsInter(b)) /\ st = "CSI_IGNORE" /\ pm = esc.param
    <3>1. ~IsDigit(b) /\ b # ESC
      BY <1>2, <2>8 DEF IsDigit, IsInter
    <3> QED BY <2>6, <2>8, <3>1 DEF CsiStates
  <2>9. CASE IsDigit(b) /\ esc.state # "CSI" /\ st = esc.state /\ pm = esc.param
    <3>1. b # ESC /\ ~ (b \in 60 .. 63 \/ IsInter(b))
      BY <1>2, <2>9 DEF IsDigit, IsInter
    <3> QED BY <2>1, <2>6, <2>9, <3>1
  <2> QED BY <1>2, <1>3, <1>4, <2>1, <2>5, <2>7, <2>8, <2>9, CsiStep DEF st, pm
<1> QED BY <1>5, <1>6, <1>7, <1>8 DEF ParserInv

\* The bytes a peer may send.
LEMMA SendableIs ==
  ASSUME NEW b \in Sendable
  PROVE  b \in Int
<1>1. Sendable \in {Keys, (Keys \cap SequenceBytes) \cup {91, 79}, SequenceBytes}
  BY DEF Sendable
<1> QED BY <1>1, EditorAssumption

\* Every step keeps the parser's invariant.
LEMMA ParserStep == ParserInv /\ [Next]_vars => ParserInv'
<1> SUFFICES ASSUME ParserInv, [Next]_vars PROVE ParserInv'
  OBVIOUS
<1>1. CASE esc' = esc /\ received' = received
  BY <1>1 DEF ParserInv, EscType
<1>2. CASE UNCHANGED vars
  BY <1>1, <1>2 DEF vars
<1>3. ASSUME NEW b \in Sendable, EndOfPair(b) PROVE ParserInv'
  BY <1>1, <1>3 DEF EndOfPair
<1>4. ASSUME NEW b \in Sendable, Parse(b) PROVE ParserInv'
  BY <1>4, SendableIs, ParseStep
<1>5. ASSUME NEW b \in Sendable, SequenceByte(b) PROVE ParserInv'
  BY <1>4, <1>5 DEF SequenceByte
<1>6. ASSUME NEW b \in Sendable, EditKey(b) \/ TabKey(b) \/ EnterKey(b) \/ QuitKey(b)
                                 \/ CredentialKey(b) \/ UsernameEnter(b) \/ SecretEnter(b)
      PROVE  ParserInv'
  <2>1. Key(b)
    BY <1>6 DEF EditKey, TabKey, EnterKey, QuitKey, CredentialKey, UsernameEnter, SecretEnter
  <2> QED BY <1>4, <2>1 DEF Key
<1>7. CASE LockoutEnd \/ AppExec \/ AppRequestAuth \/ AppClearHistory \/ AppPrint
  <2>1. esc' = esc /\ received' = received
    BY <1>7 DEF LockoutEnd, AppExec, AppRequestAuth, AppClearHistory, AppPrint
  <2> QED BY <1>1, <2>1
<1>8. CASE Next
  BY <1>3, <1>5, <1>6, <1>7, <1>8 DEF Next
<1> QED BY <1>2, <1>8

\* There is one number of leading digits, and the numbers are those of the sum.
LEMMA LeadsOnce ==
  ASSUME NEW s \in Seq(Int), NEW d, Leads(s, d), NEW e, Leads(s, e)
  PROVE  d = e
<1>1. d \in 0 .. Len(s) /\ e \in 0 .. Len(s) /\ Len(s) \in Nat
  BY DEF Leads
<1>2. CASE d < e
  <2>1. d + 1 \in 1 .. e /\ d < Len(s)
    BY <1>1, <1>2
  <2> QED BY <2>1 DEF Leads
<1>3. CASE e < d
  <2>1. e + 1 \in 1 .. d /\ e < Len(s)
    BY <1>1, <1>3
  <2> QED BY <2>1 DEF Leads
<1> QED BY <1>1, <1>2, <1>3

\* And the numbers are those of the definition.
LEMMA ValuesOnce ==
  ASSUME NEW s \in Seq(Int), NEW g, Values(s, g), NEW h,
         h[0] = 0 /\ \A i \in 1 .. Len(s) : h[i] = 10 * h[i - 1] + s[i] - 48
  PROVE  \A i \in 0 .. Len(s) : h[i] = g[i]
<1> DEFINE n == Len(s)
           S == {i \in 0 .. n : h[i] = g[i]}
<1>1. n \in Nat /\ g[0] = 0 /\ \A i \in 1 .. n : g[i] = 10 * g[i - 1] + s[i] - 48
  BY DEF Values
<1>2. h[0] = 0 /\ \A i \in 1 .. n : h[i] = 10 * h[i - 1] + s[i] - 48
  OBVIOUS
<1> HIDE DEF n
<1>3. 0 \in S
  BY <1>1, <1>2
<1>4. ASSUME NEW i \in 1 .. n, i - 1 \in S PROVE i \in S
  <2>1. h[i] = 10 * h[i - 1] + s[i] - 48 /\ g[i] = 10 * g[i - 1] + s[i] - 48
    BY <1>1, <1>2
  <2>2. h[i - 1] = g[i - 1] /\ i \in 0 .. n
    BY <1>1, <1>4
  <2>3. h[i] = g[i]
    BY Zenon, <2>1, <2>2
  <2> QED BY <2>2, <2>3
<1>5. ASSUME NEW i \in 0 .. n PROVE i \in S
  <2> HIDE DEF S
  <2> QED BY <1>1, <1>3, <1>4, Induction
<1> QED BY <1>5 DEF n

-----------------------------------------------------------------------------
(* The theorem about the parser                                            *)

\* The number SequenceIsParsed reads is the one of Values.
LEMMA NumberIs ==
  ASSUME NEW s \in Seq(Int), NEW d, Leads(s, d), NEW g, Values(s, g)
  PROVE  LET digits == CHOOSE n \in 0 .. Len(s) :
                         /\ \A i \in 1 .. n : IsDigit(s[i])
                         /\ n < Len(s) => ~IsDigit(s[n + 1])
             value[i \in 0 .. Len(s)] == IF i = 0 THEN 0 ELSE 10 * value[i - 1] + s[i] - 48
         IN  digits = d /\ value[digits] = g[d]
<1> DEFINE Is(n) == /\ \A i \in 1 .. n : IsDigit(s[i])
                    /\ n < Len(s) => ~IsDigit(s[n + 1])
           digits == CHOOSE n \in 0 .. Len(s) : Is(n)
           Eq(h) == h = [i \in 0 .. Len(s) |-> IF i = 0 THEN 0 ELSE 10 * h[i - 1] + s[i] - 48]
           value == CHOOSE h : Eq(h)
<1>1. Len(s) \in Nat
  OBVIOUS
<1>2. digits = d
  <2>1. d \in 0 .. Len(s) /\ Is(d)
    BY DEF Leads
  <2>2. digits \in 0 .. Len(s) /\ Is(digits)
    <3> HIDE DEF Is
    <3> QED BY <2>1
  <2>3. Leads(s, digits)
    <3> HIDE DEF digits
    <3> QED BY <2>2 DEF Leads
  <2> HIDE DEF digits
  <2> QED BY <2>3, LeadsOnce
<1>3. Eq(value)
  <2>1. /\ g \in [0 .. Len(s) -> Int] /\ g[0] = 0
        /\ \A i \in 1 .. Len(s) : g[i] = 10 * g[i - 1] + s[i] - 48
    BY DEF Values
  <2>2. ASSUME NEW i \in 0 .. Len(s)
        PROVE  g[i] = IF i = 0 THEN 0 ELSE 10 * g[i - 1] + s[i] - 48
    <3>1. i # 0 => i \in 1 .. Len(s)
      BY <1>1
    <3> QED BY <2>1, <3>1
  <2>3. Eq(g)
    BY <2>1, <2>2
  <2> HIDE DEF Eq
  <2> QED BY <2>3
<1> HIDE DEF value
<1>4. value[0] = 0 /\ \A i \in 1 .. Len(s) : value[i] = 10 * value[i - 1] + s[i] - 48
  <2>1. \A i \in 0 .. Len(s) : value[i] = IF i = 0 THEN 0 ELSE 10 * value[i - 1] + s[i] - 48
    BY Zenon, <1>3
  <2>2. 0 \in 0 .. Len(s) /\ \A i \in 1 .. Len(s) : i \in 0 .. Len(s) /\ i # 0
    BY <1>1
  <2> QED BY Zenon, <2>1, <2>2
<1>5. \A i \in 0 .. Len(s) : value[i] = g[i]
  BY <1>4, ValuesOnce
<1>6. value[digits] = g[d]
  <2>1. d \in 0 .. Len(s)
    BY DEF Leads
  <2> QED BY <1>2, <1>5, <2>1
<1> QED BY Zenon, <1>2, <1>6 DEF value

\* The invariant says what the parser has read.
LEMMA ParserFollows == ParserInv => SequenceIsParsed
<1> SUFFICES ASSUME ParserInv PROVE SequenceIsParsed
  OBVIOUS
<1> DEFINE tail == SubSeq(received, 3, Len(received))
           inCsi == Len(received) >= 2 /\ received[2] = 91
           digits == CHOOSE n \in 0 .. Len(tail) :
                       /\ \A i \in 1 .. n : IsDigit(tail[i])
                       /\ n < Len(tail) => ~IsDigit(tail[n + 1])
           value[i \in 0 .. Len(tail)] == IF i = 0 THEN 0 ELSE 10 * value[i - 1] + tail[i] - 48
           number == value[digits]
           odd == \E i \in 1 .. Len(tail) : tail[i] \in 60 .. 63 \/ IsInter(tail[i])
           r0 == <<>>
           r1 == <<ESC>>
           r2 == <<ESC, 79>>
<1>1. /\ r0 \in Seq(Int) /\ Len(r0) = 0 /\ r1 \in Seq(Int) /\ Len(r1) = 1
      /\ r2 \in Seq(Int) /\ Len(r2) = 2 /\ r2[2] = 79
  <2>1. ESC \in Int
    BY DEF ESC
  <2> QED BY <2>1
<1>2. /\ EscType /\ received \in Seq(Int)
      /\ \/ esc.state = "NORMAL" /\ received = r0 /\ esc.param = 0
         \/ esc.state = "ESC" /\ received = r1 /\ esc.param = 0
         \/ esc.state = "SS3" /\ received = r2 /\ esc.param = 0
         \/ /\ Len(received) >= 2 /\ received[2] = 91
            /\ Became(tail, esc.state, esc.param)
  BY DEF ParserInv
<1> HIDE DEF tail, digits, value, odd, r0, r1, r2
<1> DEFINE Says == /\ esc.state = "NORMAL" <=> received = r0
                   /\ esc.state = "ESC" <=> received = r1
                   /\ esc.state = "SS3" <=> received = r2
                   /\ esc.state \in CsiStates <=> inCsi
                   /\ inCsi => (esc.state = "CSI_IGNORE" <=> odd)
                   /\ inCsi => (esc.state = "CSI" <=> digits = Len(tail))
                   /\ esc.param = (IF ~inCsi THEN 0
                                   ELSE IF number < ParamMax THEN number ELSE ParamMax)
<1>7. Says
  <2>3. CASE esc.state = "NORMAL" /\ received = r0 /\ esc.param = 0
    <3>1. esc.state \notin CsiStates /\ esc.state # "ESC" /\ esc.state # "SS3"
      BY <2>3 DEF CsiStates
    <3>2. ~inCsi /\ received # r1 /\ received # r2
      <4>1. Len(received) = 0
        BY Zenon, <1>1, <2>3
      <4>2. ~inCsi
        BY <4>1
      <4>3. Len(received) # Len(r1) /\ Len(received) # Len(r2)
        BY <1>1, <4>1
      <4> QED BY Zenon, <4>2, <4>3
    <3> QED BY Zenon, <2>3, <3>1, <3>2
  <2>4. CASE esc.state = "ESC" /\ received = r1 /\ esc.param = 0
    <3>1. esc.state \notin CsiStates /\ esc.state # "NORMAL" /\ esc.state # "SS3"
      BY <2>4 DEF CsiStates
    <3>2. ~inCsi /\ received # r0 /\ received # r2
      <4>1. Len(received) = 1
        BY Zenon, <1>1, <2>4
      <4>2. ~inCsi
        BY <4>1
      <4>3. Len(received) # Len(r0) /\ Len(received) # Len(r2)
        BY <1>1, <4>1
      <4> QED BY Zenon, <4>2, <4>3
    <3> QED BY Zenon, <2>4, <3>1, <3>2
  <2>5. CASE esc.state = "SS3" /\ received = r2 /\ esc.param = 0
    <3>1. esc.state \notin CsiStates /\ esc.state # "NORMAL" /\ esc.state # "ESC"
      BY <2>5 DEF CsiStates
    <3>2. ~inCsi /\ received # r0 /\ received # r1
      <4>1. Len(received) = 2 /\ received[2] = 79
        BY Zenon, <1>1, <2>5
      <4>2. ~inCsi
        BY <4>1
      <4>3. Len(received) # Len(r0) /\ Len(received) # Len(r1)
        BY <1>1, <4>1
      <4> QED BY Zenon, <4>2, <4>3
    <3> QED BY Zenon, <2>5, <3>1, <3>2
  <2>6. CASE inCsi /\ Became(tail, esc.state, esc.param)
    <3>1. received # r0 /\ received # r1 /\ received # r2
      BY <1>1, <2>6
    <3>2. esc.state \in CsiStates
      BY <2>6 DEF Became
    <3>3. esc.state # "NORMAL" /\ esc.state # "ESC" /\ esc.state # "SS3"
      BY <3>2 DEF CsiStates
    <3>4. tail \in Seq(Int)
      <4>1. Introduced(received)
        BY <1>2, <2>6 DEF Introduced
      <4> DEFINE b == 0
      <4>2. b \in Int
        OBVIOUS
      <4> HIDE DEF b
      <4>3. Grows(received, Append(received, b), b)
        BY <4>1, <4>2, TailGrows
      <4> QED BY <4>3 DEF Grows, tail
    <3>5. PICK d, g : /\ Leads(tail, d) /\ Values(tail, g) /\ esc.param = Held(g[d])
                      /\ esc.state = "CSI" <=> d = Len(tail)
      BY <2>6 DEF Became
    <3>6. digits = d /\ number = g[d]
      <4>1. tail \in Seq(Int) /\ Leads(tail, d) /\ Values(tail, g)
        BY <3>4, <3>5
      <4> QED BY Zenon, <4>1, NumberIs DEF digits, value
    <3> HIDE DEF number
    <3>7. esc.param = IF number < ParamMax THEN number ELSE ParamMax
      BY Zenon, <3>5, <3>6 DEF Held
    <3>8. esc.state = "CSI_IGNORE" <=> odd
      BY Zenon, <2>6 DEF Became, Odd, odd
    <3>9. esc.state = "CSI" <=> digits = Len(tail)
      BY Zenon, <3>5, <3>6
    <3> QED BY Zenon, <2>6, <3>1, <3>2, <3>3, <3>7, <3>8, <3>9
  <2> QED BY Zenon, <1>2, <2>3, <2>4, <2>5, <2>6
<1>8. /\ (esc.state = "NORMAL") = (received = r0)
      /\ (esc.state = "ESC") = (received = r1)
      /\ (esc.state = "SS3") = (received = r2)
      /\ (esc.state \in CsiStates) = inCsi
      /\ inCsi => (esc.state = "CSI_IGNORE") = odd
      /\ inCsi => (esc.state = "CSI") = (digits = Len(tail))
      /\ esc.param = (IF ~inCsi THEN 0 ELSE IF number < ParamMax THEN number ELSE ParamMax)
  <2> HIDE DEF inCsi
  <2>1. (esc.state = "NORMAL") = (received = r0)
    BY Zenon, <1>7
  <2>2. (esc.state = "ESC") = (received = r1)
    BY Zenon, <1>7
  <2>3. (esc.state = "SS3") = (received = r2)
    BY Zenon, <1>7
  <2>4. (esc.state \in CsiStates) = inCsi
    <3> DEFINE csi == esc.state \in CsiStates
    <3>1. csi <=> inCsi
      BY Zenon, <1>7
    <3>2. inCsi \in BOOLEAN /\ csi \in BOOLEAN
      BY DEF inCsi
    <3>3. csi = inCsi
      <4> HIDE DEF csi
      <4> QED BY Zenon, <3>1, <3>2
    <3> QED BY Zenon, <3>3
  <2>5. inCsi => (esc.state = "CSI_IGNORE") = odd
    <3>1. odd \in BOOLEAN
      BY DEF odd
    <3> QED BY Zenon, <1>7, <3>1
  <2>6. inCsi => (esc.state = "CSI") = (digits = Len(tail))
    BY Zenon, <1>7
  <2> QED BY Zenon, <1>7, <2>1, <2>2, <2>3, <2>4, <2>5, <2>6
<1> QED BY Zenon, <1>8 DEF SequenceIsParsed, tail, digits, value, odd, r0, r1, r2

\* Sequences of any length: cli_process_escape is in the state that the bytes of the unfinished
\* sequence call for, with the value of its first parameter saturated and never wrapped.
THEOREM SequencesAreParsed == EditorSpec => []SequenceIsParsed
<1>1. ParserInv /\ [Next]_vars => ParserInv'
  BY ParserStep
<1> QED BY <1>1, ParserInit, ParserFollows, PTL DEF EditorSpec

=============================================================================
