------------------------------- MODULE CliLine -------------------------------
(***************************************************************************)
(* What the line editor promises: the line is a text with a cursor in it,  *)
(* and everything the session receives or its application does amounts to  *)
(* one of the classical editing commands.  CliEditor implements this.      *)
(***************************************************************************)
EXTENDS Integers, Sequences

CONSTANTS
  Chars,     \* what a line consists of
  Capacity   \* the longest line

VARIABLES
  before,     \* the text in front of the cursor
  after,      \* the text behind it
  remembered  \* the lines the history and the draft of a browsing user hold

Space == 32

Tail2(s, n) == SubSeq(s, n + 1, Len(s))
Front2(s, n) == SubSeq(s, 1, n)

Fits == Len(before') + Len(after') <= Capacity

Init == before = <<>> /\ after = <<>>

Type ==
  /\ \E c \in Chars : before' = Append(before, c)
  /\ after' = after /\ Fits

\* The cursor moves: the text stays.
Move == before' \o after' = before \o after

Backspace == before # <<>> /\ before' = Front2(before, Len(before) - 1) /\ after' = after

Delete == after # <<>> /\ after' = Tail2(after, 1) /\ before' = before

KillLine == after' = <<>> /\ before' = before

\* Everything from the start of the last word in front of the cursor goes.
KillWord ==
  /\ after' = after
  /\ \E n \in 0 .. Len(before) :
       /\ n > 0 => before[n] = Space
       /\ \E m \in n .. Len(before) :
            /\ \A i \in n + 1 .. m : before[i] # Space
            /\ \A i \in m + 1 .. Len(before) : before[i] = Space
            /\ m = n => n = 0
       /\ before' = Front2(before, n)

\* The word the cursor is in is extended, from its end, and may be respelled.
Complete ==
  /\ \E n \in 0 .. Len(after), w \in 0 .. Len(before) + Len(after) :
       LET text == before \o Front2(after, n)
       IN  /\ after' = Tail2(after, n)
           /\ \A i \in 1 .. n : after[i] # Space
           /\ n < Len(after) => after[n + 1] = Space
           /\ w <= Len(text) /\ \A i \in w + 1 .. Len(text) : text[i] # Space
           /\ Len(before') >= Len(text) /\ Front2(before', w) = Front2(text, w)
  /\ Fits

\* Browsing the history or recalling an entry; submitting or forgetting the line.
Replace == after' = <<>> /\ before' \in remembered \cup {<<>>}

Next ==
  \/ Type \/ Move \/ Backspace \/ Delete \/ KillLine \/ KillWord \/ Complete
  \/ Replace

Spec == Init /\ [][Next]_<<before, after>>

=============================================================================
