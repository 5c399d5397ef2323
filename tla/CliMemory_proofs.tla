-------------------------- MODULE CliMemory_proofs --------------------------
(***************************************************************************)
(* Proofs about what the buffers of a session hold: the command history    *)
(* and the lines in the input buffer and its exec arena, for any lines,    *)
(* any sizes of the buffers, any limit of the credential prompts and every *)
(* nesting depth.                                                          *)
(*                                                                         *)
(* What is being typed is never lost by browsing, and the ring in its flat *)
(* buffer implements the list of recent lines (CliRecent).  The arguments  *)
(* of a running command, the line being edited and the erasure of          *)
(* credentials survive every nesting of lines in the one buffer.           *)
(***************************************************************************)
EXTENDS CliHistory, CliExecArena, SequenceTheorems, WellFoundedInduction, TLAPS

-----------------------------------------------------------------------------
(* Induction and sums                                                      *)

\* What holds of 0 and is handed on from n - 1 to n holds up to N.
LEMMA Induction ==
  ASSUME NEW N \in Nat, NEW S, 0 \in S, \A n \in 1 .. N : n - 1 \in S => n \in S
  PROVE  \A n \in 0 .. N : n \in S
<1> DEFINE T == (0 .. N) \ S
<1> SUFFICES ASSUME T # {} PROVE FALSE
  OBVIOUS
<1>1. T \subseteq Nat
  OBVIOUS
<1> HIDE DEF T
<1>2. PICK x \in T : \A y \in T : <<y, x>> \notin OpToRel(<, Nat)
  BY <1>1, WFMin, NatLessThanWellFounded
<1>3. \A y \in T : ~ (y < x)
  BY <1>1, <1>2 DEF OpToRel
<1> USE DEF T
<1>4. x \in 1 .. N /\ x - 1 \in 0 .. N
  OBVIOUS
<1>5. x - 1 \in S
  BY <1>3, <1>4
<1> QED
  BY <1>4, <1>5

\* A non-empty set of numbers has a least one.
LEMMA Least ==
  ASSUME NEW S, S \subseteq Nat, S # {}
  PROVE  \E x \in S : \A y \in S : x <= y
<1>1. PICK x \in S : \A y \in S : <<y, x>> \notin OpToRel(<, Nat)
  BY WFMin, NatLessThanWellFounded
<1>2. \A y \in S : ~ (y < x)
  BY <1>1 DEF OpToRel
<1> QED
  BY <1>2

\* f[n] is the sum of the first n values of s.
Summed(f, N, s) ==
  /\ f \in [0 .. N -> Nat] /\ f[0] = 0
  /\ \A n \in 1 .. N : f[n] = f[n - 1] + s[n]

LEMMA Sums ==
  ASSUME NEW N \in Nat, NEW s, \A n \in 1 .. N : s[n] \in Nat
  PROVE  \E f : Summed(f, N, s)
<1> DEFINE UpTo(k, f) == /\ f \in [0 .. N -> Nat] /\ f[0] = 0
                         /\ \A n \in 1 .. k : f[n] = f[n - 1] + s[n]
           S == {k \in 0 .. N : \E f : UpTo(k, f)}
<1>1. 0 \in S
  <2> DEFINE f == [n \in 0 .. N |-> 0]
  <2>1. UpTo(0, f)
    OBVIOUS
  <2> HIDE DEF f, UpTo
  <2> QED
    BY <2>1
<1>2. ASSUME NEW k \in 1 .. N, k - 1 \in S PROVE k \in S
  <2>1. PICK f : UpTo(k - 1, f)
    BY <1>2
  <2> DEFINE v == f[k - 1] + s[k]
  <2>2. v \in Nat
    BY <2>1
  <2> HIDE DEF v
  <2> DEFINE g == [f EXCEPT ![k] = v]
  <2>3. /\ g \in [0 .. N -> Nat] /\ g[k] = v
        /\ \A n \in 0 .. N : n # k => g[n] = f[n]
    BY <2>1, <2>2
  <2> HIDE DEF g
  <2>4. ASSUME NEW n \in 1 .. k PROVE g[n] = g[n - 1] + s[n]
    <3>1. n - 1 \in 0 .. N /\ n - 1 # k /\ n \in 0 .. N
      OBVIOUS
    <3>2. g[n - 1] = f[n - 1]
      BY <2>3, <3>1
    <3>3. CASE n = k
      BY <2>3, <3>2, <3>3 DEF v
    <3>4. CASE n # k
      <4>1. n \in 1 .. k - 1
        BY <3>4
      <4> QED
        BY <2>1, <2>3, <3>1, <3>2, <3>4, <4>1
    <3> QED
      BY <3>3, <3>4
  <2>5. g[0] = 0
    BY <2>1, <2>3
  <2>6. UpTo(k, g)
    BY <2>3, <2>4, <2>5
  <2> QED
    BY <2>6
<1>3. N \in S
  <2> HIDE DEF S
  <2>1. \A n \in 0 .. N : n \in S
    BY <1>1, <1>2, Induction
  <2> QED
    BY <2>1
<1> QED
  BY <1>3 DEF Summed

-----------------------------------------------------------------------------
(* What the user types is kept                                             *)

\* What was typed last is in the editor at the tip, and saved while older lines are
\* shown; none is shown while a line runs.
Tracked ==
  /\ nav \in Nat
  /\ ~Prompt => nav = 0
  /\ Prompt => typed = IF nav = 0 THEN edited ELSE saved

LEMMA TrackedInitially == HistoryInit => Tracked
  BY DEF HistoryInit, Tracked, Prompt

\* Each step keeps it, provided the number of entries is one.
LEMMA TrackedStays ==
  ASSUME Tracked, [HistoryNext]_historyVars, ring.count \in Nat
  PROVE  Tracked'
<1> USE DEF Tracked, Prompt
<1>1. CASE Edit
  BY <1>1 DEF Edit, Capture
<1>2. CASE Up
  BY <1>2 DEF Up
<1>3. CASE Down
  BY <1>3 DEF Down
<1>4. CASE Submit
  BY <1>4 DEF Submit
<1>5. CASE Finish
  BY <1>5 DEF Finish
<1>6. CASE ClearHistory
  BY <1>6 DEF ClearHistory, Clear
<1>7. ASSUME NEW n \in 1 .. MaxHistory, Recall(n) PROVE Tracked'
  BY <1>7 DEF Recall
<1>8. CASE UNCHANGED historyVars
  BY <1>8 DEF historyVars
<1> QED
  BY <1>1, <1>2, <1>3, <1>4, <1>5, <1>6, <1>7, <1>8 DEF HistoryNext

-----------------------------------------------------------------------------
(* The slots of the ring                                                   *)

Slots == 0 .. MaxHistory - 1

\* k slots before head.
Slot(head, k) == IF k <= head THEN head - k ELSE head - k + MaxHistory

LEMMA SlotIs ==
  ASSUME NEW head \in Slots, NEW k \in 1 .. MaxHistory
  PROVE  /\ Slot(head, k) \in Slots
         /\ (head - k + MaxHistory * 2) % MaxHistory = Slot(head, k)
<1>1. MaxHistory \in Nat \ {0}
  BY HistoryAssumption
<1>2. ASSUME NEW b \in Slots
      PROVE (b + MaxHistory) % MaxHistory = b /\ (b + MaxHistory * 2) % MaxHistory = b
  BY <1>1 DEF Slots
<1>3. Slot(head, k) \in Slots
  BY <1>1 DEF Slots, Slot
<1>4. CASE k <= head
  <2>1. head - k + MaxHistory * 2 = Slot(head, k) + MaxHistory * 2
    BY <1>1, <1>4 DEF Slot
  <2> QED
    BY <1>2, <1>3, <2>1
<1>5. CASE k > head
  <2>1. head - k + MaxHistory * 2 = Slot(head, k) + MaxHistory
    BY <1>1, <1>5 DEF Slot, Slots
  <2> QED
    BY <1>2, <1>3, <2>1
<1> QED
  BY <1>3, <1>4, <1>5 DEF Slots

\* Behind head + 1 is head, then what was behind head; only the oldest of a full ring is
\* at head itself.
LEMMA SlotsMove ==
  ASSUME NEW head \in Slots
  PROVE  LET next == (head + 1) % MaxHistory
         IN  /\ next \in Slots /\ Slot(next, 1) = head
             /\ \A k \in 1 .. MaxHistory - 1 :
                  Slot(head, k) # head /\ Slot(next, k + 1) = Slot(head, k)
<1> DEFINE next == (head + 1) % MaxHistory
<1>1. MaxHistory \in Nat \ {0}
  BY HistoryAssumption
<1>2. next = IF head = MaxHistory - 1 THEN 0 ELSE head + 1
  <2>1. CASE head = MaxHistory - 1
    <3>1. head + 1 = 0 + MaxHistory
      BY <1>1, <2>1
    <3>2. (0 + MaxHistory) % MaxHistory = 0
      BY <1>1
    <3> QED
      BY <2>1, <3>1, <3>2
  <2>2. CASE head # MaxHistory - 1
    <3>1. head + 1 \in Slots
      BY <1>1, <2>2 DEF Slots
    <3>2. (head + 1) % MaxHistory = head + 1
      BY <1>1, <3>1 DEF Slots
    <3> QED
      BY <2>2, <3>2
  <2> QED
    BY <2>1, <2>2
<1> HIDE DEF next
<1>3. next \in Slots /\ Slot(next, 1) = head
  BY <1>1, <1>2 DEF Slot, Slots
<1>4. ASSUME NEW k \in 1 .. MaxHistory - 1
      PROVE  Slot(head, k) # head /\ Slot(next, k + 1) = Slot(head, k)
  BY <1>1, <1>2 DEF Slot, Slots
<1> QED
  BY <1>3, <1>4 DEF next

-----------------------------------------------------------------------------
(* The text in the flat buffer                                             *)

Places == 0 .. BufSize - 1

Rings == [buf : [Places -> Nat], off : [Slots -> Nat], head : Slots, count : 0 .. MaxHistory]

\* The line and its NUL are in the buffer at offset o.
Holds(buf, o, line) ==
  /\ o \in Nat /\ o + Len(line) < BufSize
  /\ \A i \in 1 .. Len(line) : buf[o + i - 1] = line[i]
  /\ buf[o + Len(line)] = Nul

LEMMA LineIs ==
  ASSUME NEW line \in Typable
  PROVE  /\ line \in Seq(Nat \ {0}) /\ line \in Seq(Nat) /\ line # <<>>
         /\ Len(line) \in Nat \ {0} /\ Len(line) < BufSize
         /\ \A i \in 1 .. Len(line) : line[i] \in Nat /\ line[i] # Nul
         /\ line = [i \in 1 .. Len(line) |-> line[i]]
<1>1. line \in Seq(Nat \ {0}) /\ line # <<>> /\ Len(line) < BufSize
  BY HistoryAssumption
<1>2. line = [i \in 1 .. Len(line) |-> line[i]] /\ Len(line) \in Nat
  BY <1>1
<1>3. \A i \in 1 .. Len(line) : line[i] \in Nat /\ line[i] # Nul
  BY <1>1 DEF Nul
<1>4. Len(line) # 0
  BY <1>1
<1>5. line \in Seq(Nat)
  BY <1>2, <1>3
<1> QED
  BY <1>1, <1>2, <1>3, <1>4, <1>5

\* Reading stops at the line's own NUL.
LEMMA TextIs ==
  ASSUME NEW r \in Rings, NEW o, NEW line \in Typable, Holds(r.buf, o, line)
  PROVE  Text(r, o) = line
<1> DEFINE ends == {e \in o .. BufSize - 1 : r.buf[e] = Nul}
           end == o + Len(line)
<1>1. o \in Nat /\ Len(line) \in Nat /\ BufSize \in Nat /\ end < BufSize
  BY LineIs, HistoryAssumption DEF Holds
<1>2. end \in ends
  BY <1>1 DEF Holds
<1>3. \A f \in ends : end <= f
  <2> SUFFICES ASSUME NEW f \in ends, f < end PROVE FALSE
    BY <1>1
  <2>1. f - o + 1 \in 1 .. Len(line) /\ o + (f - o + 1) - 1 = f
    BY <1>1
  <2>2. r.buf[f] = line[f - o + 1]
    BY <2>1 DEF Holds
  <2> QED
    BY <2>1, <2>2, LineIs
<1>4. \A e \in ends : (\A f \in ends : e <= f) => e = end
  BY <1>1, <1>2, <1>3
<1>5. ends # {} /\ (CHOOSE e \in ends : \A f \in ends : e <= f) = end
  <2> HIDE DEF end, ends
  <2> QED
    BY <1>2, <1>3, <1>4
<1>6. Text(r, o) = [i \in 1 .. end - o |-> r.buf[o + i - 1]]
  BY <1>5 DEF Text
<1>7. end - o = Len(line)
  BY <1>1
<1>8. \A i \in 1 .. Len(line) : r.buf[o + i - 1] = line[i]
  BY DEF Holds
<1>9. [i \in 1 .. Len(line) |-> r.buf[o + i - 1]] = [i \in 1 .. Len(line) |-> line[i]]
  BY <1>8
<1> HIDE DEF end
<1> QED
  BY <1>6, <1>7, <1>9, LineIs

-----------------------------------------------------------------------------
(* The entries of the ring                                                 *)

Off(r, k) == r.off[Index(r, k)]

Width(line) == Len(line) + 1

\* Every entry is the text of a line, inside the buffer.
Intact(r) ==
  \A k \in 1 .. r.count : Entry(r, k) \in Typable /\ Holds(r.buf, Off(r, k), Entry(r, k))

\* No two entries share a byte.
Apart(r) ==
  \A j, k \in 1 .. r.count :
    j # k => EntryEnd(r, j) <= Off(r, k) \/ EntryEnd(r, k) <= Off(r, j)

\* Each entry begins behind the older one, or at 0 where it would cross the end.
Chained(r) ==
  \A k \in 1 .. r.count :
    k < r.count =>
      Off(r, k) = IF EntryEnd(r, k + 1) + Width(Entry(r, k)) > BufSize THEN 0
                  ELSE EntryEnd(r, k + 1)

Sound(r) == r \in Rings /\ Intact(r) /\ Apart(r) /\ Chained(r)

LEMMA RingIs ==
  ASSUME NEW r \in Rings
  PROVE  /\ MaxHistory \in Nat \ {0} /\ BufSize \in Nat
         /\ r.count \in 0 .. MaxHistory /\ r.head \in Slots
         /\ r.buf \in [Places -> Nat] /\ r.off \in [Slots -> Nat]
         /\ \A k \in 1 .. MaxHistory : Index(r, k) = Slot(r.head, k) /\ Off(r, k) \in Nat
<1>1. r.head \in Slots /\ r.off \in [Slots -> Nat]
  BY DEF Rings
<1>2. ASSUME NEW k \in 1 .. MaxHistory
      PROVE  Index(r, k) = Slot(r.head, k) /\ Off(r, k) \in Nat
  <2>1. Slot(r.head, k) \in Slots /\ Index(r, k) = Slot(r.head, k)
    BY <1>1, SlotIs DEF Index
  <2> QED
    BY <1>1, <2>1 DEF Off
<1> QED
  BY <1>1, <1>2, HistoryAssumption DEF Rings

LEMMA EntryIs ==
  ASSUME NEW r, Sound(r), NEW k \in 1 .. r.count
  PROVE  /\ k \in 1 .. MaxHistory /\ Entry(r, k) \in Typable
         /\ Off(r, k) \in Nat /\ Width(Entry(r, k)) \in Nat /\ Width(Entry(r, k)) > 1
         /\ EntryEnd(r, k) = Off(r, k) + Width(Entry(r, k)) /\ EntryEnd(r, k) <= BufSize
<1>1. r.count \in 0 .. MaxHistory /\ MaxHistory \in Nat /\ BufSize \in Nat
  BY RingIs DEF Sound
<1>2. k \in 1 .. MaxHistory
  BY <1>1
<1>3. Off(r, k) \in Nat
  BY <1>2, RingIs DEF Sound
<1>4. Entry(r, k) \in Typable /\ Off(r, k) + Len(Entry(r, k)) < BufSize
  BY DEF Sound, Intact, Holds
<1>5. Len(Entry(r, k)) \in Nat \ {0}
  BY <1>4, LineIs
<1>6. EntryEnd(r, k) = Off(r, k) + Len(Entry(r, k)) + 1
  BY DEF EntryEnd, Off
<1> QED
  BY <1>1, <1>2, <1>3, <1>4, <1>5, <1>6 DEF Width

\* Where a new line goes, and how many entries it leaves.
NewPlace(r, line) == Place(r, Len(line) + 1)

Left(r, line) == Evicted(r, NewPlace(r, line), Len(line) + 1)

LEMMA NewPlaceIs ==
  ASSUME NEW r, Sound(r), NEW line \in Typable
  PROVE  /\ NewPlace(r, line) \in Nat /\ NewPlace(r, line) + Width(line) <= BufSize
         /\ r.count > 0 =>
              NewPlace(r, line) = IF EntryEnd(r, 1) + Width(line) > BufSize THEN 0
                                  ELSE EntryEnd(r, 1)
<1>1. /\ Len(line) \in Nat /\ Len(line) < BufSize /\ BufSize \in Nat
      /\ r.count \in 0 .. MaxHistory /\ MaxHistory \in Nat
  BY LineIs, RingIs DEF Sound
<1>2. CASE r.count > 0
  <2>1. EntryEnd(r, 1) \in Nat
    BY <1>1, <1>2, EntryIs
  <2> QED
    BY <1>1, <1>2, <2>1 DEF NewPlace, Place, Width
<1>3. CASE ~(r.count > 0)
  BY <1>1, <1>3 DEF NewPlace, Place, Width
<1> QED
  BY <1>2, <1>3

Room(r) == IF r.count = MaxHistory THEN MaxHistory - 1 ELSE r.count

\* What stays is not overwritten; if an entry more might stay for its number, the new line
\* overwrites it.
LEMMA LeftIs ==
  ASSUME NEW r, Sound(r), NEW line \in Typable
  PROVE  LET o == NewPlace(r, line)  c == Left(r, line)
         IN  /\ c \in 0 .. Room(r)
             /\ \A k \in 1 .. c : ~Overlaps(r, k, o, Width(line))
             /\ c < Room(r) => Overlaps(r, c + 1, o, Width(line))
<1> DEFINE o == NewPlace(r, line)
           c == Left(r, line)
           clear == {n \in 0 .. Room(r) : \A k \in 1 .. n : ~Overlaps(r, k, o, Width(line))}
           T == {n \in 0 .. Room(r) : Room(r) - n \in clear}
<1>1. Room(r) \in Nat
  BY RingIs DEF Sound, Room
<1>2. c = CHOOSE n \in clear : \A d \in clear : d <= n
  BY DEF Left, Evicted, Room, Width
<1> HIDE DEF o, c
<1>3. 0 \in clear
  BY <1>1
<1>4. T \subseteq Nat /\ Room(r) \in T
  BY <1>1, <1>3
<1>5. PICK t \in T : \A n \in T : t <= n
  <2> HIDE DEF T
  <2> QED
    BY <1>4, Least
<1>6. Room(r) - t \in clear /\ t \in 0 .. Room(r)
  OBVIOUS
<1>7. \A d \in clear : d <= Room(r) - t
  <2> TAKE d \in clear
  <2>1. d \in 0 .. Room(r) /\ Room(r) - (Room(r) - d) = d
    BY <1>1
  <2>2. Room(r) - d \in T
    BY <1>1, <2>1
  <2> QED
    BY <1>1, <1>5, <1>6, <2>1, <2>2
<1>8. c \in clear /\ \A d \in clear : d <= c
  BY <1>2, <1>6, <1>7
<1>9. ASSUME c < Room(r) PROVE Overlaps(r, c + 1, o, Width(line))
  <2>1. c \in Nat /\ c + 1 \in 0 .. Room(r) /\ c + 1 \notin clear
    BY <1>1, <1>8, <1>9
  <2>2. PICK k \in 1 .. c + 1 : Overlaps(r, k, o, Width(line))
    BY <2>1
  <2>3. k \notin 1 .. c
    BY <1>8, <2>2
  <2>4. k = c + 1
    BY <2>1, <2>3
  <2> QED
    BY <2>2, <2>4
<1> QED
  BY <1>8, <1>9 DEF o, c

-----------------------------------------------------------------------------
(* Storing a line                                                          *)

\* The new line is the newest entry, those that stay move one back, and their bytes are
\* the same.
LEMMA StoreIs ==
  ASSUME NEW r, Sound(r), NEW line \in Typable
  PROVE  LET n == Store(r, line)  c == Left(r, line)
         IN  /\ n \in Rings /\ n.count = c + 1 /\ c \in 0 .. Room(r)
             /\ Off(n, 1) = NewPlace(r, line) /\ Entry(n, 1) = line
             /\ Holds(n.buf, Off(n, 1), line)
             /\ \A k \in 1 .. c :
                  /\ k \in 1 .. r.count /\ k + 1 \in 1 .. MaxHistory
                  /\ Off(n, k + 1) = Off(r, k) /\ Entry(n, k + 1) = Entry(r, k)
                  /\ Holds(n.buf, Off(n, k + 1), Entry(n, k + 1))
<1> DEFINE n == Store(r, line)
           c == Left(r, line)
           o == NewPlace(r, line)
           here == o .. o + Len(line)
           next == (r.head + 1) % MaxHistory
<1>1. /\ MaxHistory \in Nat \ {0} /\ BufSize \in Nat
      /\ r \in Rings /\ r.count \in 0 .. MaxHistory /\ r.head \in Slots
      /\ r.buf \in [Places -> Nat] /\ r.off \in [Slots -> Nat]
  BY RingIs DEF Sound
<1>2. /\ Len(line) \in Nat /\ line \in Seq(Nat)
      /\ \A i \in 1 .. Len(line) : line[i] \in Nat /\ line[i] # Nul
  BY LineIs
<1>3. o \in Nat /\ o + Len(line) + 1 <= BufSize
  BY <1>1, <1>2, NewPlaceIs DEF Width
<1>4. /\ c \in 0 .. Room(r) /\ c \in Nat /\ c <= r.count /\ c <= MaxHistory - 1
      /\ \A k \in 1 .. c : ~Overlaps(r, k, o, Width(line))
  <2>1. c \in 0 .. Room(r) /\ \A k \in 1 .. c : ~Overlaps(r, k, o, Width(line))
    BY LeftIs
  <2> QED
    BY <1>1, <2>1 DEF Room
<1> DEFINE buf == [i \in Places |-> IF i \notin here THEN r.buf[i]
                                    ELSE IF i = o + Len(line) THEN Nul ELSE line[i - o + 1]]
<1>5. o + (Len(line) + 1) - 1 = o + Len(line)
  BY <1>2, <1>3
<1>6. n = [buf |-> buf, off |-> [r.off EXCEPT ![r.head] = o], head |-> next, count |-> c + 1]
  BY <1>5 DEF Store, Left, NewPlace, Places
<1> HIDE DEF n, o, c
<1>7. buf \in [Places -> Nat]
  <2>1. ASSUME NEW i \in Places, i \in here, i # o + Len(line)
        PROVE  line[i - o + 1] \in Nat
    <3>1. i - o + 1 \in 1 .. Len(line)
      BY <1>2, <1>3, <2>1
    <3> QED
      BY <1>2, <3>1
  <2> QED
    BY <1>1, <2>1 DEF Nul
<1>8. /\ \A i \in Places : i \notin here => buf[i] = r.buf[i]
      /\ buf[o + Len(line)] = Nul
      /\ \A i \in 1 .. Len(line) : buf[o + i - 1] = line[i]
  <2>1. o + Len(line) \in Places /\ o + Len(line) \in here
    BY <1>1, <1>2, <1>3 DEF Places
  <2>2. ASSUME NEW i \in 1 .. Len(line)
        PROVE  /\ o + i - 1 \in Places /\ o + i - 1 \in here /\ o + i - 1 # o + Len(line)
               /\ (o + i - 1) - o + 1 = i
    BY <1>1, <1>2, <1>3 DEF Places
  <2> HIDE DEF here
  <2> QED
    BY <2>1, <2>2
<1> HIDE DEF buf
<1>9. next \in Slots /\ Slot(next, 1) = r.head
      /\ \A k \in 1 .. MaxHistory - 1 :
           Slot(r.head, k) # r.head /\ Slot(next, k + 1) = Slot(r.head, k)
  BY <1>1, SlotsMove
<1> HIDE DEF next
<1>10. n \in Rings /\ n.buf = buf /\ n.head = next /\ n.count = c + 1
       /\ n.off = [r.off EXCEPT ![r.head] = o]
  <2>1. [r.off EXCEPT ![r.head] = o] \in [Slots -> Nat]
    BY <1>1, <1>3
  <2>2. c + 1 \in 0 .. MaxHistory
    BY <1>1, <1>4
  <2> QED
    BY <1>6, <1>7, <1>9, <2>1, <2>2 DEF Rings
<1>11. Off(n, 1) = o /\ Holds(n.buf, Off(n, 1), line) /\ Entry(n, 1) = line
  <2>1. 1 \in 1 .. MaxHistory
    BY <1>1
  <2>2. Index(n, 1) = r.head
    BY <1>9, <1>10, <2>1, RingIs
  <2>3. Off(n, 1) = o
    BY <1>1, <1>10, <2>2 DEF Off
  <2>4. Holds(n.buf, o, line)
    BY <1>1, <1>2, <1>3, <1>8, <1>10 DEF Holds
  <2> QED
    BY <1>10, <2>3, <2>4, TextIs DEF Entry, Off
<1>12. ASSUME NEW k \in 1 .. c
       PROVE  /\ k \in 1 .. r.count /\ k + 1 \in 1 .. MaxHistory
              /\ Off(n, k + 1) = Off(r, k) /\ Entry(n, k + 1) = Entry(r, k)
              /\ Holds(n.buf, Off(n, k + 1), Entry(n, k + 1))
  <2> DEFINE old == Entry(r, k)
             p == Off(r, k)
  <2>1. k \in 1 .. r.count /\ k + 1 \in 1 .. MaxHistory /\ k \in 1 .. MaxHistory - 1
        /\ k \in 1 .. MaxHistory
    BY <1>1, <1>4
  <2>2. Index(n, k + 1) = Slot(r.head, k) /\ Slot(r.head, k) # r.head
        /\ Index(r, k) = Slot(r.head, k) /\ Slot(r.head, k) \in Slots
    BY <1>1, <1>9, <1>10, <2>1, RingIs, SlotIs
  <2>3. Off(n, k + 1) = p
    BY <1>1, <1>10, <2>2 DEF Off
  <2>4. old \in Typable /\ Holds(r.buf, p, old) /\ Len(old) \in Nat
        /\ EntryEnd(r, k) = p + Len(old) + 1
    <3>1. old \in Typable /\ Holds(r.buf, p, old)
      BY <2>1 DEF Sound, Intact
    <3> QED
      BY <3>1, LineIs DEF EntryEnd, Off
  <2>5. ~(o < p + Len(old) + 1 /\ p < o + Len(line) + 1) /\ p \in Nat /\ p + Len(old) < BufSize
    <3>1. ~(o < EntryEnd(r, k) /\ p < o + Width(line))
      BY <1>4 DEF Overlaps, Off
    <3> HIDE DEF p, old
    <3> QED
      BY <1>2, <1>3, <2>4, <3>1 DEF Width, Holds
  <2> HIDE DEF p, old
  <2>6. ASSUME NEW i \in p .. p + Len(old) PROVE i \in Places /\ i \notin here
    <3>1. /\ o \in Nat /\ Len(line) \in Nat /\ BufSize \in Nat /\ p \in Nat
          /\ Len(old) \in Nat /\ i \in Nat /\ p <= i /\ i <= p + Len(old)
      BY <1>1, <1>2, <1>3, <2>4, <2>5
    <3>2. i < BufSize /\ ~(o <= i /\ i <= o + Len(line))
      BY <2>5, <3>1
    <3> QED
      BY <3>1, <3>2 DEF Places
  <2>7. \A i \in p .. p + Len(old) : buf[i] = r.buf[i]
    BY <1>8, <2>6
  <2>8. Holds(buf, p, old)
    <3>1. p + Len(old) \in p .. p + Len(old)
      BY <2>4, <2>5
    <3>2. \A i \in 1 .. Len(old) : p + i - 1 \in p .. p + Len(old)
      BY <2>4, <2>5
    <3> QED
      BY <2>4, <2>7, <3>1, <3>2 DEF Holds
  <2>9. Entry(n, k + 1) = old
    BY <1>10, <2>3, <2>4, <2>8, TextIs DEF Entry, Off
  <2> QED
    BY <1>10, <2>1, <2>3, <2>8, <2>9 DEF p, old
<1> HIDE DEF here
<1> QED
  BY <1>4, <1>10, <1>11, <1>12 DEF n, c, o

\* A ring that takes a line is a sound ring.
LEMMA StoreIsSound ==
  ASSUME NEW r, Sound(r), NEW line \in Typable
  PROVE  Sound(Store(r, line))
<1> DEFINE n == Store(r, line)
           c == Left(r, line)
           o == NewPlace(r, line)
<1>1. /\ n \in Rings /\ n.count = c + 1 /\ c \in 0 .. Room(r)
      /\ Off(n, 1) = o /\ Entry(n, 1) = line /\ Holds(n.buf, Off(n, 1), line)
      /\ \A k \in 1 .. c :
           /\ k \in 1 .. r.count /\ k + 1 \in 1 .. MaxHistory
           /\ Off(n, k + 1) = Off(r, k) /\ Entry(n, k + 1) = Entry(r, k)
           /\ Holds(n.buf, Off(n, k + 1), Entry(n, k + 1))
  BY StoreIs
<1>2. /\ o \in Nat /\ Width(line) \in Nat /\ Len(line) \in Nat /\ BufSize \in Nat
      /\ r.count > 0 =>
           o = IF EntryEnd(r, 1) + Width(line) > BufSize THEN 0 ELSE EntryEnd(r, 1)
  BY NewPlaceIs, LineIs, HistoryAssumption DEF Width
<1>3. \A k \in 1 .. c : ~Overlaps(r, k, o, Width(line))
  BY LeftIs
<1> HIDE DEF n, c, o
<1>4. c \in Nat /\ MaxHistory \in Nat /\ r.count \in 0 .. MaxHistory /\ c <= r.count
  BY <1>1, RingIs DEF Room, Sound
<1>5. EntryEnd(n, 1) = o + Width(line)
      /\ \A k \in 1 .. c : EntryEnd(n, k + 1) = EntryEnd(r, k)
  <2>1. EntryEnd(n, 1) = o + Width(line)
    BY <1>1, <1>2 DEF EntryEnd, Off, Width
  <2>2. ASSUME NEW k \in 1 .. c PROVE EntryEnd(n, k + 1) = EntryEnd(r, k)
    BY <1>1 DEF EntryEnd, Off
  <2> QED
    BY <2>1, <2>2
<1>6. \A k \in 1 .. n.count : k = 1 \/ (k - 1 \in 1 .. c /\ (k - 1) + 1 = k)
  BY <1>1, <1>4
<1>7. Intact(n)
  <2> SUFFICES ASSUME NEW k \in 1 .. n.count
               PROVE  Entry(n, k) \in Typable /\ Holds(n.buf, Off(n, k), Entry(n, k))
    BY DEF Intact
  <2>1. CASE k = 1
    BY <1>1, <2>1
  <2>2. CASE k - 1 \in 1 .. c /\ (k - 1) + 1 = k
    <3>1. Entry(r, k - 1) \in Typable
      BY <1>1, <2>2 DEF Sound, Intact
    <3> QED
      BY <1>1, <2>2, <3>1
  <2> QED
    BY <1>6, <2>1, <2>2
<1>8. ASSUME NEW k \in 1 .. c
      PROVE  /\ EntryEnd(n, 1) <= Off(n, k + 1) \/ EntryEnd(n, k + 1) <= Off(n, 1)
             /\ Off(r, k) \in Nat /\ EntryEnd(r, k) \in Nat
  <2>1. Off(r, k) \in Nat /\ EntryEnd(r, k) \in Nat
    BY <1>1, EntryIs
  <2>2. ~(o < EntryEnd(r, k) /\ Off(r, k) < o + Width(line))
    BY <1>3 DEF Overlaps, Off
  <2> QED
    BY <1>1, <1>2, <1>5, <2>1, <2>2
<1>9. Apart(n)
  <2> SUFFICES ASSUME NEW j \in 1 .. n.count, NEW k \in 1 .. n.count, j # k
               PROVE  EntryEnd(n, j) <= Off(n, k) \/ EntryEnd(n, k) <= Off(n, j)
    BY DEF Apart
  <2>1. CASE j = 1
    BY <1>6, <1>8, <2>1
  <2>2. CASE k = 1
    BY <1>6, <1>8, <2>2
  <2>3. CASE j # 1 /\ k # 1
    <3>1. j - 1 \in 1 .. c /\ (j - 1) + 1 = j /\ k - 1 \in 1 .. c /\ (k - 1) + 1 = k
      BY <1>6, <2>3
    <3>2. j - 1 \in 1 .. r.count /\ k - 1 \in 1 .. r.count /\ j - 1 # k - 1
      BY <1>1, <3>1
    <3>3. EntryEnd(r, j - 1) <= Off(r, k - 1) \/ EntryEnd(r, k - 1) <= Off(r, j - 1)
      BY <3>2 DEF Sound, Apart
    <3> QED
      BY <1>1, <1>5, <3>1, <3>3
  <2> QED
    BY <2>1, <2>2, <2>3
<1>10. Chained(n)
  <2> SUFFICES ASSUME NEW k \in 1 .. n.count, k < n.count
               PROVE  Off(n, k) = IF EntryEnd(n, k + 1) + Width(Entry(n, k)) > BufSize THEN 0
                                  ELSE EntryEnd(n, k + 1)
    BY DEF Chained
  <2>1. k \in 1 .. c
    BY <1>1, <1>4
  <2>2. EntryEnd(n, k + 1) = EntryEnd(r, k)
    BY <1>5, <2>1
  <2>3. CASE k = 1
    BY <1>1, <1>2, <1>4, <2>1, <2>2, <2>3
  <2>4. CASE k # 1
    <3>1. k - 1 \in 1 .. c /\ (k - 1) + 1 = k
      BY <1>6, <2>4
    <3>2. k - 1 \in 1 .. r.count /\ k - 1 < r.count
      BY <1>1, <1>4, <2>1, <3>1
    <3>3. Off(r, k - 1) = IF EntryEnd(r, k) + Width(Entry(r, k - 1)) > BufSize THEN 0
                          ELSE EntryEnd(r, k)
      BY <3>1, <3>2 DEF Sound, Chained
    <3>4. Off(n, k) = Off(r, k - 1) /\ Entry(n, k) = Entry(r, k - 1)
      BY <1>1, <3>1
    <3> QED
      BY <2>2, <3>3, <3>4
  <2> QED
    BY <2>3, <2>4
<1> QED
  BY <1>1, <1>7, <1>9, <1>10 DEF Sound, n

-----------------------------------------------------------------------------
(* Nothing that fits is lost                                               *)

\* The total of the abstract history is the sum of its sizes.
LEMMA TotalIs ==
  ASSUME NEW lines \in Seq(Typable)
  PROVE  \E f : Summed(f, Len(lines), Recent!Sizes(lines)) /\ Recent!Total(lines) = f[Len(lines)]
<1> DEFINE N == Len(lines)
           s == Recent!Sizes(lines)
           Eq(sum) == sum = [n \in 0 .. N |-> IF n = 0 THEN 0 ELSE sum[n - 1] + s[n]]
<1>1. N \in Nat
  OBVIOUS
<1>2. \A n \in 1 .. N : s[n] \in Nat
  <2>1. \A n \in 1 .. N : lines[n] \in Typable
    OBVIOUS
  <2>2. \A n \in 1 .. N : Len(lines[n]) \in Nat
    BY <2>1, LineIs
  <2> QED
    BY <2>2 DEF Recent!Sizes
<1>3. Recent!Total(lines) = (CHOOSE sum : Eq(sum))[N]
  BY DEF Recent!Total
<1> HIDE DEF N, s
<1>4. PICK f : Summed(f, N, s)
  BY <1>1, <1>2, Sums
<1>5. Eq(f)
  BY <1>1, <1>4 DEF Summed
<1> DEFINE sum == CHOOSE g : Eq(g)
<1>6. Eq(sum)
  BY <1>5
<1> HIDE DEF sum
<1>7. sum[0] = 0 /\ \A n \in 1 .. N : sum[n] = sum[n - 1] + s[n]
  BY <1>1, <1>6
<1> DEFINE S == {n \in 0 .. N : sum[n] \in Nat}
<1>8. \A n \in 0 .. N : n \in S
  <2>1. 0 \in S
    BY <1>1, <1>7
  <2>2. ASSUME NEW n \in 1 .. N, n - 1 \in S PROVE n \in S
    BY <1>1, <1>2, <1>7, <2>2
  <2> HIDE DEF S
  <2> QED
    BY <1>1, <2>1, <2>2, Induction
<1>9. sum \in [0 .. N -> Nat]
  BY <1>6, <1>8
<1>10. Summed(sum, N, s)
  BY <1>7, <1>9 DEF Summed
<1> QED
  BY <1>3, <1>10 DEF sum, N, s

\* Texts of sizes s are placed one behind the other at the offsets p, at 0 where one would
\* cross the end; all but the first are apart, and the last meets the first.  Then one of
\* them does not fit with all the others.
LEMMA Crowded ==
  ASSUME NEW N \in Nat, NEW s, NEW p, NEW f, Summed(f, N, s), N > 1,
         \A i \in 1 .. N : s[i] \in Nat /\ s[i] > 0 /\ p[i] \in Nat,
         \A i \in 2 .. N : p[i] = IF p[i - 1] + s[i - 1] + s[i] > BufSize THEN 0
                                  ELSE p[i - 1] + s[i - 1],
         \A i, j \in 2 .. N : i # j => ~(p[i] = 0 /\ p[j] = 0),
         p[1] < p[N] + s[N], p[N] < p[1] + s[1]
  PROVE  \E j \in 1 .. N : f[N] + s[j] - 1 > BufSize
<1> DEFINE Straight(n) == p[1] + f[n] = p[n] + s[n]
           Turned(n) == \E j \in 2 .. n :
                          p[j] = 0 /\ f[n] + p[1] + s[j] > BufSize + p[n] + s[n]
           S == {n \in 0 .. N : n > 0 => Straight(n) \/ Turned(n)}
<1>1. BufSize \in Nat /\ 1 \in 1 .. N /\ N \in 1 .. N /\ 0 \in 0 .. N
  BY HistoryAssumption
<1>2. /\ f \in [0 .. N -> Nat] /\ f[0] = 0
      /\ \A n \in 1 .. N : f[n] = f[n - 1] + s[n]
  BY DEF Summed
<1>3. ASSUME NEW n \in 1 .. N, n - 1 \in S PROVE n \in S
  <2>1. CASE n = 1
    <3>1. f[1] = 0 + s[1]
      BY <1>1, <1>2
    <3>2. Straight(1)
      BY <1>1, <3>1
    <3> QED
      BY <2>1, <3>2
  <2>2. CASE n > 1
    <3> DEFINE m == n - 1
    <3>1. /\ m \in 1 .. N /\ n \in 2 .. N /\ m \in 0 .. N /\ m > 0 /\ m < n
          /\ f[n] = f[m] + s[n] /\ f[m] \in Nat
          /\ s[m] \in Nat /\ s[n] \in Nat /\ p[m] \in Nat /\ p[n] \in Nat /\ p[1] \in Nat
          /\ p[n] = IF p[m] + s[m] + s[n] > BufSize THEN 0 ELSE p[m] + s[m]
      BY <1>1, <1>2, <2>2
    <3>2. Straight(m) \/ Turned(m)
      BY <1>3, <3>1
    <3> HIDE DEF m
    <3>3. CASE p[n] = p[m] + s[m]
      <4>1. Straight(m) => Straight(n)
        BY <3>1, <3>3
      <4>2. ASSUME Turned(m) PROVE Turned(n)
        <5>1. PICK j \in 2 .. m : p[j] = 0 /\ f[m] + p[1] + s[j] > BufSize + p[m] + s[m]
          BY <4>2
        <5>2. j \in 2 .. n /\ s[j] \in Nat
          BY <3>1
        <5> QED
          BY <1>1, <3>1, <3>3, <5>1, <5>2
      <4> HIDE DEF Straight, Turned
      <4> QED
        BY <3>2, <4>1, <4>2
    <3>4. CASE p[n] = 0 /\ p[m] + s[m] + s[n] > BufSize
      <4>1. ASSUME Turned(m) PROVE FALSE
        <5>1. PICK j \in 2 .. m : p[j] = 0
          BY <4>1
        <5>2. j \in 2 .. N /\ j # n
          BY <3>1
        <5> QED
          BY <3>1, <3>4, <5>1, <5>2
      <4>2. ASSUME Straight(m) PROVE Turned(n)
        <5>1. f[n] + p[1] + s[n] > BufSize + p[n] + s[n]
          BY <1>1, <3>1, <3>4, <4>2
        <5>2. n \in 2 .. n
          BY <3>1
        <5> QED
          BY <3>4, <5>1, <5>2
      <4> HIDE DEF Straight, Turned
      <4> QED
        BY <3>2, <4>1, <4>2
    <3> HIDE DEF Straight, Turned
    <3> QED
      BY <3>1, <3>3, <3>4
  <2> QED
    BY <2>1, <2>2
<1>4. N \in S
  <2>1. 0 \in S
    BY <1>1
  <2> HIDE DEF S
  <2>2. \A n \in 0 .. N : n \in S
    BY <1>3, <2>1, Induction
  <2> QED
    BY <2>2
<1>5. f[N] \in Nat /\ p[N] \in Nat /\ s[N] \in Nat /\ p[1] \in Nat /\ s[1] \in Nat
  BY <1>1, <1>2
<1>6. f[N] >= s[1] + s[N]
  <2> DEFINE F == {n \in 0 .. N : n > 0 => f[n] >= s[1]}
  <2>1. 0 \in F
    BY <1>1
  <2>2. ASSUME NEW n \in 1 .. N, n - 1 \in F PROVE n \in F
    <3>1. f[n] = f[n - 1] + s[n] /\ f[n - 1] \in Nat /\ s[n] \in Nat
      BY <1>2
    <3>2. CASE n = 1
      BY <1>2, <3>1, <3>2
    <3>3. CASE n # 1
      <4>1. n - 1 > 0 /\ f[n - 1] >= s[1]
        BY <2>2, <3>3
      <4> QED
        BY <1>5, <3>1, <4>1
    <3> QED
      BY <3>2, <3>3
  <2>3. N - 1 \in F
    <3>1. N - 1 \in 0 .. N
      OBVIOUS
    <3> HIDE DEF F
    <3>2. \A n \in 0 .. N : n \in F
      BY <2>1, <2>2, Induction
    <3> QED
      BY <3>1, <3>2
  <2>4. f[N] = f[N - 1] + s[N] /\ f[N - 1] \in Nat /\ N - 1 > 0
    BY <1>1, <1>2
  <2> QED
    BY <1>5, <2>3, <2>4
<1>7. ~Straight(N)
  BY <1>5, <1>6
<1>8. PICK j \in 2 .. N : f[N] + p[1] + s[j] > BufSize + p[N] + s[N]
  BY <1>4, <1>7
<1>9. j \in 1 .. N /\ s[j] \in Nat
  OBVIOUS
<1>10. f[N] + s[j] - 1 > BufSize
  BY <1>1, <1>5, <1>8, <1>9
<1> QED
  BY <1>9, <1>10

-----------------------------------------------------------------------------
(* The ring as a list                                                      *)

List(r) == [i \in 1 .. r.count |-> Entry(r, r.count - i + 1)]

\* CliRecent's Add, of lists.
Added(old, line, new) ==
  LET all == Append(old, line)
  IN  IF old # <<>> /\ old[Len(old)] = line THEN new = old
      ELSE \E i \in 1 .. Len(all) :
             /\ new = SubSeq(all, i, Len(all)) /\ Len(new) <= MaxHistory
             /\ i > 1 => ~Recent!Fits(SubSeq(all, i - 1, Len(all)))

LEMMA ListIs ==
  ASSUME NEW r, Sound(r)
  PROVE  /\ List(r) \in Seq(Typable) /\ Len(List(r)) = r.count
         /\ \A i \in 1 .. r.count : List(r)[i] = Entry(r, r.count - i + 1)
<1>1. r.count \in Nat
  BY RingIs DEF Sound
<1>2. \A i \in 1 .. r.count : r.count - i + 1 \in 1 .. r.count
  BY <1>1
<1>3. \A i \in 1 .. r.count : Entry(r, r.count - i + 1) \in Typable
  BY <1>2, EntryIs
<1> QED
  BY <1>1, <1>3 DEF List

\* A full ring gives up one entry; else the first entry it gives up would not have fitted
\* with the new line and all between.
LEMMA CrowdedOut ==
  ASSUME NEW r, Sound(r), NEW line \in Typable, Left(r, line) < r.count,
         NEW lines \in Seq(Typable), Len(lines) = Left(r, line) + 2,
         lines[Left(r, line) + 2] = line,
         \A i \in 1 .. Left(r, line) + 1 : lines[i] = Entry(r, (Left(r, line) + 2) - i)
  PROVE  ~Recent!Fits(lines)
<1> DEFINE c == Left(r, line)
           o == NewPlace(r, line)
           N == c + 2
           s == Recent!Sizes(lines)
           p == [i \in 1 .. N |-> IF i = N THEN o ELSE Off(r, N - i)]
<1>1. /\ c \in 0 .. Room(r) /\ \A k \in 1 .. c : ~Overlaps(r, k, o, Width(line))
      /\ c < Room(r) => Overlaps(r, c + 1, o, Width(line))
  BY LeftIs
<1>2. /\ o \in Nat /\ Width(line) \in Nat /\ Width(line) > 0
      /\ r.count > 0 =>
           o = IF EntryEnd(r, 1) + Width(line) > BufSize THEN 0 ELSE EntryEnd(r, 1)
  BY NewPlaceIs, LineIs DEF Width
<1>3. MaxHistory \in Nat /\ BufSize \in Nat /\ r.count \in 0 .. MaxHistory
  BY RingIs DEF Sound
<1>4. Len(lines) = N /\ lines[N] = line /\ \A i \in 1 .. N - 1 : lines[i] = Entry(r, N - i)
  <2>1. N - 1 = c + 1
    BY <1>1, <1>3 DEF Room
  <2> HIDE DEF s, p, o
  <2>2. Len(lines) = N /\ lines[N] = line
    OBVIOUS
  <2>3. \A i \in 1 .. c + 1 : lines[i] = Entry(r, N - i)
    OBVIOUS
  <2> HIDE DEF N, c
  <2> QED
    BY <2>1, <2>2, <2>3
<1>5. c < r.count
  OBVIOUS
<1> HIDE DEF c, o
<1>6. c \in Nat /\ N \in Nat /\ N > 1 /\ Room(r) \in Nat
  BY <1>1, <1>3, <1>5 DEF Room
<1>7. CASE c = Room(r)
  <2>1. Len(lines) > MaxHistory
    BY <1>3, <1>4, <1>5, <1>6, <1>7 DEF Room
  <2> QED
    BY <1>3, <1>4, <1>6, <2>1 DEF Recent!Fits
<1>8. CASE c < Room(r)
  <2>1. ASSUME NEW i \in 1 .. N - 1
        PROVE  /\ N - i \in 1 .. c + 1 /\ N - i \in 1 .. r.count /\ i # N /\ i \in 1 .. N
    BY <1>3, <1>5, <1>6
  <2>2. /\ p[N] = o /\ s[N] = Width(line)
        /\ \A i \in 1 .. N - 1 : p[i] = Off(r, N - i) /\ s[i] = Width(Entry(r, N - i))
    <3>1. p[N] = o /\ s[N] = Width(line)
      BY <1>4, <1>6 DEF Recent!Sizes, Width
    <3>2. ASSUME NEW i \in 1 .. N - 1
          PROVE  p[i] = Off(r, N - i) /\ s[i] = Width(Entry(r, N - i))
      BY <1>4, <1>6, <2>1 DEF Recent!Sizes, Width
    <3> QED
      BY <3>1, <3>2
  <2> HIDE DEF p, s
  <2>3. ASSUME NEW k \in 1 .. c + 1
        PROVE  /\ k \in 1 .. r.count /\ Off(r, k) \in Nat
               /\ Width(Entry(r, k)) \in Nat /\ Width(Entry(r, k)) > 1
               /\ EntryEnd(r, k) = Off(r, k) + Width(Entry(r, k))
    <3>1. k \in 1 .. r.count
      BY <1>3, <1>5, <1>6
    <3> QED
      BY <3>1, EntryIs
  <2>4. ASSUME NEW i \in 1 .. N
        PROVE  s[i] \in Nat /\ s[i] > 0 /\ p[i] \in Nat
    <3>1. CASE i = N
      BY <1>2, <2>2, <3>1
    <3>2. CASE i # N
      <4>1. i \in 1 .. N - 1 /\ N - i \in 1 .. c + 1
        BY <1>6, <3>2
      <4> QED
        BY <2>2, <2>3, <4>1
    <3> QED
      BY <3>1, <3>2
  <2>5. ASSUME NEW i \in 2 .. N
        PROVE  p[i] = IF p[i - 1] + s[i - 1] + s[i] > BufSize THEN 0 ELSE p[i - 1] + s[i - 1]
    <3> DEFINE k == N - i
    <3>1. i - 1 \in 1 .. N - 1 /\ N - (i - 1) = k + 1 /\ k + 1 \in 1 .. c + 1 /\ k \in Nat
      BY <1>6
    <3>2. p[i - 1] = Off(r, k + 1) /\ p[i - 1] + s[i - 1] = EntryEnd(r, k + 1)
      BY <2>2, <2>3, <3>1
    <3>3. CASE i = N
      <4>1. k + 1 = 1 /\ r.count > 0
        BY <1>3, <1>5, <1>6, <3>3
      <4> QED
        BY <1>2, <2>2, <3>2, <3>3, <4>1
    <3>4. CASE i # N
      <4>1. i \in 1 .. N - 1 /\ k \in 1 .. r.count /\ k < r.count
        BY <1>3, <1>5, <1>6, <3>4
      <4>2. p[i] = Off(r, k) /\ s[i] = Width(Entry(r, k))
        BY <2>2, <4>1
      <4>3. Off(r, k) = IF EntryEnd(r, k + 1) + Width(Entry(r, k)) > BufSize THEN 0
                        ELSE EntryEnd(r, k + 1)
        BY <4>1 DEF Sound, Chained
      <4> HIDE DEF k
      <4> QED
        BY <3>2, <4>2, <4>3
    <3> QED
      BY <3>3, <3>4
  <2>6. ASSUME NEW k \in 1 .. c PROVE ~(o = 0 /\ Off(r, k) = 0)
    <3>1. ~(o < EntryEnd(r, k) /\ Off(r, k) < o + Width(line))
      BY <1>1 DEF Overlaps, Off
    <3>2. k \in 1 .. c + 1
      BY <1>6
    <3> QED
      BY <1>2, <2>3, <3>1, <3>2
  <2>7. ASSUME NEW i \in 2 .. N, NEW j \in 2 .. N, i # j PROVE ~(p[i] = 0 /\ p[j] = 0)
    <3>1. CASE i = N
      <4>1. j \in 1 .. N - 1 /\ N - j \in 1 .. c
        BY <1>6, <2>7, <3>1
      <4> QED
        BY <2>2, <2>6, <3>1, <4>1
    <3>2. CASE j = N
      <4>1. i \in 1 .. N - 1 /\ N - i \in 1 .. c
        BY <1>6, <2>7, <3>2
      <4> QED
        BY <2>2, <2>6, <3>2, <4>1
    <3>3. CASE i # N /\ j # N
      <4>1. /\ i \in 1 .. N - 1 /\ N - i \in 1 .. c + 1
            /\ j \in 1 .. N - 1 /\ N - j \in 1 .. c + 1 /\ N - i # N - j
        BY <1>6, <2>7, <3>3
      <4>2. N - i \in 1 .. r.count /\ N - j \in 1 .. r.count
        BY <2>3, <4>1
      <4>3. EntryEnd(r, N - i) <= Off(r, N - j) \/ EntryEnd(r, N - j) <= Off(r, N - i)
        BY <4>1, <4>2 DEF Sound, Apart
      <4>4. /\ Off(r, N - i) \in Nat /\ EntryEnd(r, N - i) \in Nat \ {0}
            /\ Off(r, N - j) \in Nat /\ EntryEnd(r, N - j) \in Nat \ {0}
        BY <2>3, <4>1
      <4>5. ~(Off(r, N - i) = 0 /\ Off(r, N - j) = 0)
        BY <4>3, <4>4
      <4> QED
        BY <2>2, <4>1, <4>5
    <3> QED
      BY <3>1, <3>2, <3>3
  <2>8. p[1] < p[N] + s[N] /\ p[N] < p[1] + s[1]
    <3>1. 1 \in 1 .. N - 1 /\ N - 1 = c + 1 /\ c + 1 \in 1 .. c + 1
      BY <1>6
    <3>2. o < EntryEnd(r, c + 1) /\ Off(r, c + 1) < o + Width(line)
      BY <1>1, <1>8 DEF Overlaps, Off
    <3> QED
      BY <2>2, <2>3, <3>1, <3>2
  <2>9. PICK f : Summed(f, N, s) /\ Recent!Total(lines) = f[N]
    BY <1>4, TotalIs DEF s
  <2>10. PICK j \in 1 .. N : f[N] + s[j] - 1 > BufSize
    <3> HIDE DEF N
    <3> QED
      BY <1>6, <2>4, <2>5, <2>7, <2>8, <2>9, Crowded
  <2>11. f[N] \in Nat /\ s[j] \in Nat
    BY <1>6, <2>4, <2>9 DEF Summed
  <2>12. ~(Recent!Total(lines) + s[j] - 1 <= BufSize)
    BY <1>3, <2>9, <2>10, <2>11
  <2> QED
    BY <1>4, <2>12 DEF Recent!Fits, s
<1> QED
  BY <1>1, <1>6, <1>7, <1>8

\* Storing appends the line to the list and drops the oldest lines, none in vain.
LEMMA StoreAdds ==
  ASSUME NEW r, Sound(r), NEW line \in Typable
  PROVE  LET all == Append(List(r), line)
         IN  \E i \in 1 .. Len(all) :
               /\ List(Store(r, line)) = SubSeq(all, i, Len(all))
               /\ Len(List(Store(r, line))) <= MaxHistory
               /\ i > 1 => ~Recent!Fits(SubSeq(all, i - 1, Len(all)))
<1> DEFINE n == Store(r, line)
           c == Left(r, line)
           all == Append(List(r), line)
           i == r.count + 1 - c
<1>1. /\ n \in Rings /\ n.count = c + 1 /\ c \in 0 .. Room(r)
      /\ Entry(n, 1) = line
      /\ \A k \in 1 .. c : k \in 1 .. r.count /\ Entry(n, k + 1) = Entry(r, k)
  BY StoreIs
<1>2. Sound(n)
  BY StoreIsSound
<1>3. /\ List(r) \in Seq(Typable) /\ Len(List(r)) = r.count
      /\ \A m \in 1 .. r.count : List(r)[m] = Entry(r, r.count - m + 1)
  BY ListIs
<1>4. MaxHistory \in Nat /\ r.count \in 0 .. MaxHistory
  BY RingIs DEF Sound
<1>5. /\ all \in Seq(Typable) /\ Len(all) = r.count + 1 /\ all[r.count + 1] = line
      /\ \A m \in 1 .. r.count : all[m] = Entry(r, r.count - m + 1)
  BY <1>3, <1>4
<1> HIDE DEF n, c, all
<1>6. c \in Nat /\ c <= r.count /\ i \in 1 .. r.count + 1 /\ c + 1 <= MaxHistory
  BY <1>1, <1>4 DEF Room
<1> HIDE DEF i
<1>7. /\ List(n) \in Seq(Typable) /\ Len(List(n)) = c + 1
      /\ \A m \in 1 .. c + 1 : List(n)[m] = Entry(n, (c + 1) - m + 1)
  BY <1>1, <1>2, ListIs
<1> DEFINE tail == SubSeq(all, i, Len(all))
<1>8. /\ tail \in Seq(Typable) /\ Len(tail) = c + 1
      /\ \A m \in 1 .. c + 1 : tail[m] = all[i + m - 1]
  <2> DEFINE N == Len(all)
  <2>1. N = r.count + 1 /\ r.count \in Nat /\ c \in Nat
    BY <1>4, <1>5, <1>6
  <2>2. N \in Int /\ i \in Int /\ 1 <= i /\ i <= N /\ N - i + 1 = c + 1
    BY <1>6, <2>1 DEF i
  <2>3. \A j \in i .. N : all[j] \in Typable
    BY <1>5, <2>1, <2>2
  <2> HIDE DEF N
  <2>4. /\ SubSeq(all, i, N) \in Seq(Typable)
        /\ Len(SubSeq(all, i, N)) = N - i + 1
        /\ \A m \in 1 .. N - i + 1 : SubSeq(all, i, N)[m] = all[i + m - 1]
    BY <2>2, <2>3, SubSeqProperties
  <2> QED
    BY <2>2, <2>4 DEF N
<1> HIDE DEF tail
<1>9. ASSUME NEW m \in 1 .. c + 1 PROVE List(n)[m] = tail[m]
  <2>1. CASE m = c + 1
    <3>1. i + m - 1 = r.count + 1 /\ (c + 1) - m + 1 = 1
      BY <1>4, <1>6, <2>1 DEF i
    <3> QED
      BY <1>1, <1>5, <1>7, <1>8, <3>1
  <2>2. CASE m # c + 1
    <3> DEFINE k == (c + 1) - m
    <3>1. k \in 1 .. c /\ i + m - 1 \in 1 .. r.count /\ r.count - (i + m - 1) + 1 = k
      BY <1>4, <1>6, <2>2 DEF i
    <3>2. tail[m] = Entry(r, k)
      BY <1>5, <1>8, <3>1
    <3>3. List(n)[m] = Entry(n, k + 1)
      BY <1>7
    <3> HIDE DEF k
    <3> QED
      BY <1>1, <3>1, <3>2, <3>3
  <2> QED
    BY <2>1, <2>2
<1>10. List(n) = tail
  <2>1. /\ List(n) = [m \in 1 .. c + 1 |-> List(n)[m]]
        /\ tail = [m \in 1 .. c + 1 |-> tail[m]]
    BY <1>7, <1>8
  <2> QED
    BY <1>9, <2>1
<1>11. ASSUME i > 1 PROVE ~Recent!Fits(SubSeq(all, i - 1, Len(all)))
  <2> DEFINE lines == SubSeq(all, i - 1, Len(all))
  <2>1. c < r.count /\ i - 1 \in 1 .. r.count /\ i - 1 = r.count - c
    BY <1>4, <1>6, <1>11 DEF i
  <2>2. /\ lines \in Seq(Typable) /\ Len(lines) = c + 2
        /\ \A m \in 1 .. c + 2 : lines[m] = all[(i - 1) + m - 1]
    <3>1. /\ i - 1 \in 1 .. Len(all) /\ Len(all) \in Nat
          /\ Len(all) - (i - 1) + 1 = c + 2
      BY <1>4, <1>5, <1>6, <2>1
    <3> DEFINE first == i - 1
    <3> HIDE DEF first
    <3>2. lines = SubSeq(all, first, Len(all))
      BY DEF first
    <3>3. first \in 1 .. Len(all) /\ Len(all) - first + 1 = c + 2
      BY <3>1 DEF first
    <3> HIDE DEF lines
    <3>4. /\ lines \in Seq(Typable) /\ Len(lines) = Len(all) - first + 1
          /\ \A m \in 1 .. Len(all) - first + 1 : lines[m] = all[first + m - 1]
      BY <1>5, <3>1, <3>2, <3>3
    <3> QED
      BY <3>3, <3>4 DEF first
  <2> HIDE DEF lines
  <2>3. lines[c + 2] = line
    <3>1. (i - 1) + (c + 2) - 1 = r.count + 1 /\ c + 2 \in 1 .. c + 2
      BY <1>4, <1>6, <2>1
    <3> QED
      BY <1>5, <2>2, <3>1
  <2>4. ASSUME NEW m \in 1 .. c + 1 PROVE lines[m] = Entry(r, (c + 2) - m)
    <3>1. /\ (i - 1) + m - 1 \in 1 .. r.count /\ m \in 1 .. c + 2
          /\ r.count - ((i - 1) + m - 1) + 1 = (c + 2) - m
      BY <1>4, <1>6, <2>1
    <3> QED
      BY <1>5, <2>2, <3>1
  <2>5. ~Recent!Fits(lines)
    BY <2>1, <2>2, <2>3, <2>4, CrowdedOut DEF c
  <2> QED
    BY <2>5 DEF lines
<1>12. i \in 1 .. Len(all) /\ Len(List(n)) <= MaxHistory
  BY <1>5, <1>6, <1>7
<1> QED
  BY <1>10, <1>11, <1>12 DEF n, all, tail

LEMMA HistoryAddIs ==
  ASSUME NEW r, Sound(r), NEW line \in Typable
  PROVE  Sound(HistoryAdd(r, line)) /\ Added(List(r), line, List(HistoryAdd(r, line)))
<1>1. Len(line) \in Nat /\ BufSize \in Nat /\ ~(Len(line) + 1 > BufSize)
  BY LineIs, HistoryAssumption
<1>2. r.count \in Nat /\ Len(List(r)) = r.count /\ List(r) \in Seq(Typable)
  BY RingIs, ListIs DEF Sound
<1>3. List(r) # <<>> /\ List(r)[Len(List(r))] = line <=> r.count > 0 /\ Entry(r, 1) = line
  <2>1. CASE r.count > 0
    <3>1. r.count \in 1 .. r.count /\ r.count - r.count + 1 = 1
      BY <1>2, <2>1
    <3>2. List(r)[r.count] = Entry(r, 1)
      BY <3>1, ListIs
    <3> QED
      BY <1>2, <2>1, <3>2
  <2>2. CASE ~(r.count > 0)
    BY <1>2, <2>2
  <2> QED
    BY <2>1, <2>2
<1>4. CASE r.count > 0 /\ Entry(r, 1) = line
  <2>1. HistoryAdd(r, line) = r
    BY <1>4 DEF HistoryAdd
  <2> QED
    BY <1>3, <1>4, <2>1 DEF Added
<1>5. CASE ~(r.count > 0 /\ Entry(r, 1) = line)
  <2>1. HistoryAdd(r, line) = Store(r, line)
    BY <1>1, <1>5 DEF HistoryAdd
  <2>2. ~(List(r) # <<>> /\ List(r)[Len(List(r))] = line)
    BY <1>3, <1>5
  <2> QED
    BY <2>1, <2>2, StoreIsSound, StoreAdds DEF Added
<1> QED
  BY <1>4, <1>5

LEMMA EmptiedIs ==
  ASSUME NEW r, Sound(r)
  PROVE  Sound(Emptied(r)) /\ Emptied(r).count = 0 /\ List(Emptied(r)) = <<>>
<1> DEFINE n == Emptied(r)
<1>1. r \in Rings /\ r.buf \in [Places -> Nat] /\ MaxHistory \in Nat \ {0}
  BY RingIs DEF Sound
<1>2. [r.buf EXCEPT ![0] = Nul] \in [Places -> Nat]
  BY <1>1 DEF Nul
<1>3. n = [buf |-> [r.buf EXCEPT ![0] = Nul], off |-> r.off, head |-> 0, count |-> 0]
  <2> DEFINE x == [r EXCEPT !.head = 0]
             y == [x EXCEPT !.count = 0]
  <2>1. ASSUME NEW b, NEW f, NEW h, NEW c, NEW z,
               z = [buf |-> b, off |-> f, head |-> h, count |-> c]
        PROVE  /\ [z EXCEPT !.head = 0] = [buf |-> b, off |-> f, head |-> 0, count |-> c]
               /\ [z EXCEPT !.count = 0] = [buf |-> b, off |-> f, head |-> h, count |-> 0]
    BY <2>1
  <2>2. r = [buf |-> r.buf, off |-> r.off, head |-> r.head, count |-> r.count]
    BY <1>1 DEF Rings
  <2>3. x = [buf |-> r.buf, off |-> r.off, head |-> 0, count |-> r.count]
    BY <2>1, <2>2
  <2> HIDE DEF x
  <2>4. y = [buf |-> r.buf, off |-> r.off, head |-> 0, count |-> 0]
    BY <2>1, <2>3
  <2> HIDE DEF y
  <2>5. n = [y EXCEPT !.buf = [y.buf EXCEPT ![0] = Nul]]
    BY DEF Emptied, x, y
  <2> QED
    BY <2>4, <2>5
<1>4. n \in Rings /\ n.count = 0
  <2>1. 0 \in Slots /\ 0 \in 0 .. MaxHistory /\ r.off \in [Slots -> Nat]
    BY <1>1 DEF Slots, Rings
  <2> QED
    BY <1>2, <1>3, <2>1 DEF Rings
<1> HIDE DEF n
<1>5. Intact(n) /\ Apart(n) /\ Chained(n) /\ List(n) = <<>>
  BY <1>4 DEF Intact, Apart, Chained, List
<1> QED
  BY <1>4, <1>5 DEF Sound, n

-----------------------------------------------------------------------------
(* The refinement                                                          *)

\* The ring is sound, what the editor holds are lines, and an entry that is shown exists.
HistoryInv ==
  /\ Sound(ring) /\ Tracked
  /\ edited \in Texts /\ saved \in Texts /\ executing \in Texts
  /\ nav <= ring.count

LEMMA HistoryInitInv == HistoryInit => HistoryInv /\ Recent!Init
<1> SUFFICES ASSUME HistoryInit PROVE HistoryInv /\ Recent!Init
  OBVIOUS
<1>1. ring = [buf |-> [i \in Places |-> Nul], off |-> [i \in Slots |-> 0],
              head |-> 0, count |-> 0]
  BY DEF HistoryInit, Places, Slots
<1>2. ring \in Rings /\ ring.count = 0
  <2>1. 0 \in Slots /\ 0 \in 0 .. MaxHistory
    BY HistoryAssumption DEF Slots
  <2> QED
    BY <1>1, <2>1 DEF Rings, Nul
<1>3. Sound(ring)
  BY <1>2 DEF Sound, Intact, Apart, Chained
<1>4. HistoryInv
  BY <1>2, <1>3, TrackedInitially DEF HistoryInv, HistoryInit, Texts
<1>5. [i \in 1 .. ring.count |-> Entry(ring, ring.count - i + 1)] = <<>>
  BY <1>2
<1> QED
  BY <1>4, <1>5 DEF HistoryInit, Recent!Init

\* What the actions read of the ring, as the abstract history has it.
LEMMA Reads ==
  ASSUME HistoryInv
  PROVE  /\ ring.count \in Nat /\ nav \in Nat /\ Len(List(ring)) = ring.count
         /\ \A k \in 1 .. ring.count :
              Entry(ring, k) \in Typable /\ List(ring)[ring.count - k + 1] = Entry(ring, k)
<1>1. Sound(ring) /\ ring.count \in Nat /\ nav \in Nat
  BY RingIs DEF HistoryInv, Sound, Tracked
<1>2. ASSUME NEW k \in 1 .. ring.count
      PROVE  Entry(ring, k) \in Typable /\ List(ring)[ring.count - k + 1] = Entry(ring, k)
  <2>1. /\ ring.count - k + 1 \in 1 .. ring.count
        /\ ring.count - (ring.count - k + 1) + 1 = k
    BY <1>1
  <2> QED
    BY <1>1, <2>1, EntryIs, ListIs
<1> QED
  BY <1>1, <1>2, ListIs

LEMMA EditImplements ==
  ASSUME HistoryInv, Edit PROVE HistoryInv' /\ Recent!Edit
<1>1. HistoryInv'
  <2>1. Tracked'
    BY TrackedStays, Reads DEF HistoryNext, HistoryInv
  <2> QED
    BY <2>1 DEF Edit, HistoryInv, Capture
<1>2. Recent!Edit
  BY DEF Edit, Recent!Edit, Capture, Prompt, Texts
<1> QED
  BY <1>1, <1>2

LEMMA UpImplements ==
  ASSUME HistoryInv, Up PROVE HistoryInv' /\ Recent!Up
<1>1. Tracked'
  BY TrackedStays, Reads DEF HistoryNext, HistoryInv
<1>2. CASE nav >= ring.count
  <2>1. HistoryInv'
    BY <1>1, <1>2 DEF Up, HistoryInv
  <2>2. ~(nav < Len(List(ring)))
    BY <1>2, Reads
  <2> QED
    BY <1>2, <2>1, <2>2 DEF Up, Recent!Up, Prompt, List
<1>3. CASE ~(nav >= ring.count)
  <2>1. nav + 1 \in 1 .. ring.count /\ nav < Len(List(ring))
    BY <1>3, Reads
  <2>2. nav' = nav + 1 /\ edited' = Entry(ring, nav + 1) /\ ring' = ring
    BY <1>3 DEF Up
  <2>3. edited' = List(ring)[Len(List(ring)) - (nav + 1) + 1] /\ edited' \in Texts
    BY <2>1, <2>2, Reads DEF Texts
  <2>4. HistoryInv'
    <3>1. nav' <= ring'.count
      BY <2>1, <2>2
    <3> QED
      BY <1>1, <2>2, <2>3, <3>1 DEF Up, HistoryInv
  <2> QED
    BY <1>3, <2>1, <2>2, <2>3, <2>4 DEF Up, Recent!Up, Recent!Back, Prompt, List
<1> QED
  BY <1>2, <1>3

LEMMA DownImplements ==
  ASSUME HistoryInv, Down PROVE HistoryInv' /\ Recent!Down
<1>1. Tracked'
  BY TrackedStays, Reads DEF HistoryNext, HistoryInv
<1>2. /\ nav \in Nat /\ nav > 0 /\ nav' = nav - 1 /\ ring' = ring /\ ring.count \in Nat
      /\ nav <= ring.count /\ Len(List(ring)) = ring.count
  BY Reads DEF Down, HistoryInv
<1>3. CASE nav = 1
  <2>1. nav' = 0 /\ edited' = saved /\ nav' <= ring'.count
    BY <1>2, <1>3 DEF Down
  <2>2. HistoryInv'
    BY <1>1, <1>2, <2>1 DEF Down, HistoryInv
  <2> QED
    BY <1>2, <1>3, <2>1, <2>2 DEF Down, Recent!Down, Prompt
<1>4. CASE nav # 1
  <2>1. nav' # 0 /\ nav - 1 \in 1 .. ring.count /\ nav' <= ring'.count
    BY <1>2, <1>4
  <2>2. edited' = Entry(ring, nav - 1)
    BY <1>2, <2>1 DEF Down
  <2>3. edited' = List(ring)[Len(List(ring)) - (nav - 1) + 1] /\ edited' \in Texts
    BY <1>2, <2>1, <2>2, Reads DEF Texts
  <2>4. HistoryInv'
    BY <1>1, <1>2, <2>1, <2>3 DEF Down, HistoryInv
  <2> QED
    BY <1>2, <1>4, <2>3, <2>4 DEF Down, Recent!Down, Recent!Back, Prompt, List
<1> QED
  BY <1>3, <1>4

\* The step of the ring that stores a line is the abstract Add.
LEMMA AddImplements ==
  ASSUME HistoryInv, NEW line \in Typable, ring' = HistoryAdd(ring, line)
  PROVE  Sound(ring') /\ Recent!Add(line)
<1>1. Sound(ring') /\ Added(List(ring), line, List(ring'))
  BY HistoryAddIs DEF HistoryInv
<1> QED
  BY <1>1 DEF Recent!Add, Added, List

LEMMA SubmitImplements ==
  ASSUME HistoryInv, Submit PROVE HistoryInv' /\ Recent!Submit
<1>1. Tracked'
  BY TrackedStays, Reads DEF HistoryNext, HistoryInv
<1>2. CASE edited # <<>> /\ ~indexed
  <2>1. edited \in Typable /\ ring' = HistoryAdd(ring, edited)
    BY <1>2 DEF Submit, HistoryInv, Texts
  <2>2. Sound(ring') /\ Recent!Add(edited)
    BY <2>1, AddImplements
  <2>3. HistoryInv'
    <3>1. ring'.count \in Nat /\ nav' = 0
      BY <2>2, RingIs DEF Submit, Sound
    <3>2. nav' <= ring'.count
      BY <3>1
    <3> QED
      BY <1>1, <2>2, <3>2 DEF Submit, HistoryInv, Texts
  <2> QED
    BY <1>2, <2>2, <2>3 DEF Submit, Recent!Submit, Prompt
<1>3. CASE ~(edited # <<>> /\ ~indexed)
  <2>1. ring' = ring
    BY <1>3 DEF Submit
  <2>2. HistoryInv'
    <3>1. nav' <= ring'.count
      BY <2>1, Reads DEF Submit
    <3> QED
      BY <1>1, <2>1, <3>1 DEF Submit, HistoryInv, Texts
  <2> QED
    BY <1>3, <2>1, <2>2 DEF Submit, Recent!Submit, Prompt
<1> QED
  BY <1>2, <1>3

LEMMA FinishImplements ==
  ASSUME HistoryInv, Finish PROVE HistoryInv' /\ Recent!Finish
<1>1. Tracked' /\ nav = 0
  BY TrackedStays, Reads DEF HistoryNext, HistoryInv, Tracked, Finish
<1>2. CASE indexed /\ ~cleared
  <2>1. executing \in Typable /\ ring' = HistoryAdd(ring, executing)
    BY <1>2 DEF Finish, Recorded, HistoryInv, Texts, Prompt
  <2>2. Sound(ring') /\ Recent!Add(executing)
    BY <2>1, AddImplements
  <2>3. HistoryInv'
    <3>1. ring'.count \in Nat /\ nav' = 0
      BY <1>1, <2>2, RingIs DEF Finish, Sound
    <3>2. nav' <= ring'.count
      BY <3>1
    <3> QED
      BY <1>1, <2>2, <3>2 DEF Finish, HistoryInv, Texts
  <2> QED
    BY <1>2, <2>2, <2>3 DEF Finish, Recent!Finish, Prompt
<1>3. CASE ~(indexed /\ ~cleared)
  <2>1. ring' = ring
    BY <1>3 DEF Finish, Recorded
  <2>2. HistoryInv'
    BY <1>1, <2>1 DEF Finish, HistoryInv, Texts
  <2> QED
    BY <1>3, <2>1, <2>2 DEF Finish, Recent!Finish, Prompt
<1> QED
  BY <1>2, <1>3

LEMMA RecallImplements ==
  ASSUME HistoryInv, NEW n \in 1 .. MaxHistory, Recall(n)
  PROVE  HistoryInv' /\ Recent!Recall(n)
<1>1. Tracked'
  BY TrackedStays, Reads DEF HistoryNext, HistoryInv
<1>2. /\ n \in 1 .. ring.count /\ ring.count - n + 1 \in 1 .. ring.count
      /\ ring.count - (ring.count - n + 1) + 1 = n /\ n <= Len(List(ring))
  BY Reads DEF Recall
<1>3. edited' = Entry(ring, ring.count - n + 1)
  BY DEF Recall, SlotOf, Entry
<1>4. edited' = List(ring)[n] /\ edited' \in Texts
  BY <1>2, <1>3, Reads DEF Texts
<1>5. HistoryInv'
  BY <1>1, <1>4 DEF Recall, HistoryInv, Texts
<1> QED
  BY <1>2, <1>4, <1>5 DEF Recall, Recent!Recall, Prompt, List

LEMMA ClearImplements ==
  ASSUME HistoryInv, ClearHistory PROVE HistoryInv' /\ Recent!Clear
<1>1. Tracked'
  BY TrackedStays, Reads DEF HistoryNext, HistoryInv
<1>2. Sound(ring') /\ ring'.count = 0 /\ List(ring') = <<>>
  BY EmptiedIs DEF ClearHistory, Clear, HistoryInv
<1>3. HistoryInv'
  BY <1>1, <1>2 DEF ClearHistory, Clear, HistoryInv, Texts
<1> QED
  BY <1>2, <1>3 DEF ClearHistory, Clear, Recent!Clear, List

\* Every step keeps the invariant and is a step of the list of recent lines.
LEMMA StepImplements ==
  ASSUME HistoryInv, [HistoryNext]_historyVars
  PROVE  HistoryInv' /\ [Recent!Next]_Recent!vars
<1>1. CASE Edit
  BY <1>1, EditImplements DEF Recent!Next
<1>2. CASE Up
  BY <1>2, UpImplements DEF Recent!Next
<1>3. CASE Down
  BY <1>3, DownImplements DEF Recent!Next
<1>4. CASE Submit
  BY <1>4, SubmitImplements DEF Recent!Next
<1>5. CASE Finish
  BY <1>5, FinishImplements DEF Recent!Next
<1>6. CASE ClearHistory
  BY <1>6, ClearImplements DEF Recent!Next
<1>7. ASSUME NEW n \in 1 .. MaxHistory, Recall(n)
      PROVE  HistoryInv' /\ [Recent!Next]_Recent!vars
  BY <1>7, RecallImplements DEF Recent!Next
<1>8. CASE UNCHANGED historyVars
  BY <1>8 DEF historyVars, HistoryInv, Tracked, Prompt, Recent!vars
<1> QED
  BY <1>1, <1>2, <1>3, <1>4, <1>5, <1>6, <1>7, <1>8 DEF HistoryNext

-----------------------------------------------------------------------------
(* Theorems                                                                *)

\* Browsing, editing what was recalled, recalling by number and clearing in any order:
\* what the user typed last is in the editor, or comes back at the tip (history_nav,
\* history_saved, cli_history_capture_edited_preview).
THEOREM TypedStays == HistorySpec => []TypedIsKept
<1>1. HistoryInv => TypedIsKept
  BY DEF HistoryInv, Tracked, TypedIsKept
<1>2. HistoryInv /\ [HistoryNext]_historyVars => HistoryInv'
  BY StepImplements
<1>3. HistoryInit => HistoryInv
  BY HistoryInitInv
<1> QED
  BY <1>1, <1>2, <1>3, PTL DEF HistorySpec

\* The ring in its flat buffer is the list of recent lines: cli_history_add never damages
\* an entry it keeps, keeps the order, repeats no newest line, and gives up a line only
\* where the lines with it could not fit.
THEOREM RingIsTheList == HistorySpec => ImplementsRecent
<1>1. HistoryInit => HistoryInv /\ Recent!Init
  BY HistoryInitInv
<1>2. HistoryInv /\ [HistoryNext]_historyVars => HistoryInv' /\ [Recent!Next]_Recent!vars
  BY StepImplements
<1> QED
  BY <1>1, <1>2, PTL DEF HistorySpec, ImplementsRecent, Recent!Spec

-----------------------------------------------------------------------------
(* The lines in the input buffer                                           *)

Depths == 1 .. Len(running)

InPlace(line) == line.kind \in {"typed", "key", "check"}

\* Where the lines in use lie: one line executed in place, if any, at the head;
\* the others behind it and behind each other, and behind the edited line.
Placement ==
  /\ \A d \in Depths : InPlace(running[d]) => d = 1 /\ running[d].at = 0
  /\ \A c, d \in Depths : c < d => End(running[c]) <= running[d].at
  /\ \A d \in Depths : running[d].kind = "exec" => len < running[d].at
  /\ \A d \in Depths : InPlace(running[d]) => len <= running[d].len
  /\ \A d \in Depths : running[d].kind = "key" => running[d].len = 0

\* exec_used, and what it returns to, is the end of the line in use before it.
Reserved ==
  /\ ~Idle => used = End(Last(running))
  /\ \A d \in Depths : d > 1 => running[d].saved = End(running[d - 1])

\* Once the prompt asks for something else than the line that runs in place
\* answered, or the session restarts, that line has left the editor.
LeftEditor ==
  /\ ~Idle /\ running[1].kind \in {"typed", "key"} /\ asking # "command" => len = 0
  /\ session = "RESTARTED" /\ asking # "command" => len = 0

\* The inductive invariant.
IInv ==
  TypeOK /\ Placement /\ Reserved /\ LeftEditor /\ ArgumentsStay /\ SecretErased /\ EditedLineStays

-----------------------------------------------------------------------------

LEMMA FillType ==
  ASSUME NEW b \in [Positions -> Owners], NEW from \in Int, NEW to \in Int, NEW o \in Owners
  PROVE  Fill(b, from, to, o) \in [Positions -> Owners]
  BY DEF Fill

LEMMA TerminatedType ==
  ASSUME NEW b \in [Positions -> Owners], NEW i \in Int
  PROVE  Terminated(b, i) \in [Positions -> Owners]
  BY DEF Terminated, Owners

LEMMA PlacedType ==
  ASSUME NEW b \in [Positions -> Owners], NEW at \in Int, NEW n \in Int, NEW o \in Owners
  PROVE  Placed(b, at, n, o) \in [Positions -> Owners]
  BY FillType, TerminatedType DEF Placed

LEMMA ForgottenType ==
  ASSUME TypeOK
  PROVE  Forgotten \in [Positions -> Owners] /\ ForgottenAfter \in [Positions -> Owners]
  <1>1. input \in [Positions -> Owners] /\ len \in Int /\ NUL \in Owners
    BY ArenaAssumption DEF TypeOK, Positions, Owners
  <1>2. Fill(input, 0, len, NUL) \in [Positions -> Owners]
    BY <1>1, FillType
  <1> QED
    BY <1>1, <1>2, TerminatedType DEF Forgotten, ForgottenAfter

LEMMA FillAt ==
  ASSUME NEW b, NEW from \in Int, NEW to \in Int, NEW o, NEW i \in Positions
  PROVE  Fill(b, from, to, o)[i] = IF from <= i /\ i < to THEN o ELSE b[i]
  BY DEF Fill, Positions

LEMMA TerminatedAt ==
  ASSUME NEW b \in [Positions -> Owners], NEW n \in Positions, NEW i \in Positions
  PROVE  Terminated(b, n)[i] = IF i = n THEN NUL ELSE b[i]
  BY DEF Terminated

LEMMA PlacedAt ==
  ASSUME NEW b \in [Positions -> Owners], NEW at \in Int, NEW n \in Int, NEW o \in Owners,
         at + n \in Positions, NEW i \in Positions
  PROVE  Placed(b, at, n, o)[i] =
           IF i = at + n THEN NUL ELSE IF at <= i /\ i < at + n THEN o ELSE b[i]
  BY FillType, FillAt, TerminatedAt DEF Placed

\* Forgetting the edited line leaves no secret, and no byte behind that line changes.
LEMMA ForgottenAt ==
  ASSUME TypeOK, SecretErased, NEW i \in Positions
  PROVE  /\ Forgotten[i] # SECRET /\ ForgottenAfter[i] # SECRET
         /\ Idle => Forgotten[0] = NUL
         /\ ForgottenAfter[0] = NUL
         /\ ~Idle /\ (asking = "secret" => len <= i) => Forgotten[i] = input[i]
  <1> DEFINE erased == IF asking = "secret" THEN Fill(input, 0, len, NUL) ELSE input
  <1>1. input \in [Positions -> Owners] /\ len \in Int /\ NUL \in Owners /\ 0 \in Positions
    BY ArenaAssumption DEF TypeOK, Positions, Owners
  <1>2. erased \in [Positions -> Owners]
    BY <1>1, FillType
  <1>a. Fill(input, 0, len, NUL)[i] = IF 0 <= i /\ i < len THEN NUL ELSE input[i]
    BY <1>1, FillAt
  <1>3. erased[i] # SECRET
    BY <1>1, <1>a DEF SecretErased, NUL, SECRET, Positions
  <1>4. (asking = "secret" => len <= i) => erased[i] = input[i]
    BY <1>1, <1>a DEF Positions
  <1>5. \A j \in Positions : Terminated(erased, 0)[j] = IF j = 0 THEN NUL ELSE erased[j]
    BY <1>1, <1>2, TerminatedAt
  <1> HIDE DEF erased
  <1>6. Forgotten = (IF Idle THEN Terminated(erased, 0) ELSE erased)
        /\ ForgottenAfter = Terminated(erased, 0)
    BY DEF erased, Forgotten, ForgottenAfter
  <1> QED
    BY <1>1, <1>3, <1>4, <1>5, <1>6 DEF NUL, SECRET

LEMMA Initially == Init => IInv
  <1> SUFFICES ASSUME Init PROVE IInv
    OBVIOUS
  <1> USE ArenaAssumption DEF Init
  <1>1. TypeOK
    BY DEF TypeOK, Positions, Owners, NUL, Lines
  <1>2. Placement /\ Reserved /\ LeftEditor
    BY DEF Placement, Reserved, LeftEditor, Depths, Idle
  <1>3. ArgumentsStay /\ SecretErased /\ EditedLineStays
    BY DEF ArgumentsStay, SecretErased, EditedLineStays, NUL, SECRET, Positions, Idle
  <1> QED
    BY <1>1, <1>2, <1>3 DEF IInv

\* The steps of a prompt at which nothing runs, as far as they leave it so.
AtPrompt ==
  \/ Insert \/ Shorten \/ ClearCredential \/ SubmitUsername \/ SubmitSecret \/ LockoutEnd
  \/ Banner \/ \E n \in Positions : Browse(n)

LEMMA PromptSteps == IInv /\ AtPrompt => IInv'
  <1> SUFFICES ASSUME IInv, AtPrompt PROVE IInv'
    OBVIOUS
  <1> USE ArenaAssumption
  <1>0. Idle /\ Idle' /\ UNCHANGED <<running, used>>
    BY DEF AtPrompt, Prompting, Idle, Insert, Shorten, ClearCredential, SubmitUsername,
           SubmitSecret, LockoutEnd, Banner, Browse
  <1>1. TypeOK'
    <2>0. TypeOK /\ 0 \in Positions /\ {NUL, TYPED, SECRET} \subseteq Owners
      BY DEF IInv, Positions, Owners
    <2>1. input' \in [Positions -> Owners] /\ len' \in Positions
      <3>1. CASE Insert
        <4>1. EditedBy \in Owners /\ len + 1 \in Positions
          BY <2>0, <3>1 DEF EditedBy, Insert, Limit, Positions, TypeOK
        <4>2. [input EXCEPT ![len] = EditedBy] \in [Positions -> Owners]
          BY <2>0, <4>1 DEF TypeOK
        <4>3. len + 1 \in Int
          BY <2>0 DEF TypeOK, Positions
        <4> QED
          BY <3>1, <4>1, <4>2, <4>3, TerminatedType DEF Insert
      <3>2. CASE Shorten
        BY <2>0, <3>2, TerminatedType DEF Shorten, TypeOK, Positions
      <3>3. CASE ClearCredential \/ SubmitUsername \/ LockoutEnd
        BY <2>0, <3>3, ForgottenType DEF ClearCredential, SubmitUsername, LockoutEnd, ResetInput
      <3>4. CASE SubmitSecret
        BY <2>0, <3>4 DEF SubmitSecret, WipeInput
      <3>5. CASE Banner
        BY <2>0, <3>5, ForgottenType DEF Banner, ResetInput, TypeOK
      <3>6. CASE \E n \in Positions : Browse(n)
        BY <2>0, <3>6, PlacedType DEF Browse, TypeOK, Positions
      <3> QED
        BY <3>1, <3>2, <3>3, <3>4, <3>5, <3>6 DEF AtPrompt
    <2>2. /\ asking' \in {"command", "username", "secret", "lockout"}
          /\ session' \in {"RUN", "RESTARTED"}
      BY <2>0 DEF TypeOK, AtPrompt, Insert, Shorten, ClearCredential, SubmitUsername,
         SubmitSecret, LockoutEnd, Banner, Browse, Verdict
    <2> QED
      BY <1>0, <2>0, <2>1, <2>2 DEF TypeOK
  <1>2. (Placement /\ Reserved /\ ArgumentsStay)'
    BY <1>0 DEF Placement, Reserved, ArgumentsStay, Depths, Idle
  <1>3. LeftEditor'
    BY <1>0 DEF IInv, LeftEditor, Idle, TypeOK, AtPrompt, Prompting, Insert, Shorten,
       ClearCredential, SubmitUsername, SubmitSecret, LockoutEnd, Banner, Browse, ResetInput
  <1>4. (SecretErased /\ EditedLineStays)'
    <2>0. /\ TypeOK /\ SecretErased /\ EditedLineStays
          /\ input \in [Positions -> Owners] /\ len \in Positions /\ 0 \in Positions
          /\ {NUL, TYPED, SECRET} \subseteq Owners
          /\ session = "RESTARTED" /\ asking # "command" => len = 0
      BY DEF IInv, TypeOK, LeftEditor, Positions, Owners
    <2>1. CASE Insert
      <3> DEFINE grown == [input EXCEPT ![len] = EditedBy]
      <3>1. EditedBy \in {TYPED, SECRET} /\ len + 1 \in Positions
        BY <2>0, <2>1 DEF EditedBy, Insert, Limit, Positions, TypeOK
      <3>2. grown \in [Positions -> Owners]
        BY <2>0, <3>1
      <3>3. \A i \in Positions : input'[i] =
              IF i = len + 1 THEN NUL ELSE IF i = len THEN EditedBy ELSE input[i]
        BY <2>0, <2>1, <3>1, <3>2, TerminatedAt DEF Insert
      <3>4. len' = len + 1 /\ UNCHANGED asking
        BY <2>1 DEF Insert
      <3> QED
        BY <2>0, <3>1, <3>3, <3>4 DEF SecretErased, EditedLineStays, EditedBy, NUL, TYPED, SECRET,
           Positions
    <2>2. CASE Shorten
      <3>1. PICK n \in 0 .. len - 1 : /\ n < len - 1 => asking = "command"
                                      /\ input' = Terminated(input, n) /\ len' = n
        BY <2>2 DEF Shorten
      <3>2. \A i \in Positions : input'[i] = IF i = n THEN NUL ELSE input[i]
        BY <2>0, <3>1, TerminatedAt DEF Positions
      <3>3. UNCHANGED asking
        BY <2>2 DEF Shorten
      <3> QED
        BY <2>0, <3>1, <3>2, <3>3 DEF SecretErased, EditedLineStays, EditedBy, NUL, SECRET, Positions
    <2>3. CASE input' = Forgotten /\ len' = 0
      BY <1>0, <2>0, <2>3, ForgottenAt DEF SecretErased, EditedLineStays
    <2>4. CASE SubmitSecret
      BY <2>0, <2>4 DEF SubmitSecret, WipeInput, SecretErased, EditedLineStays, NUL, SECRET
    <2>5. CASE asking' = "command" /\ session = "RESTARTED" /\ UNCHANGED <<input, len>>
      BY <1>0, <2>0, <2>5 DEF SecretErased, EditedLineStays, EditedBy, Positions
    <2>6. CASE \E n \in Positions : Browse(n)
      <3>1. PICK n \in Positions : Browse(n)
        BY <2>6
      <3>2. \A i \in Positions : input'[i] =
              IF i = n THEN NUL ELSE IF 0 <= i /\ i < n THEN TYPED ELSE input[i]
        BY <2>0, <3>1, PlacedAt DEF Browse, Positions
      <3>3. asking = "command" /\ asking' = "command" /\ len' = n
        BY <3>1 DEF Browse
      <3> QED
        BY <2>0, <3>2, <3>3 DEF SecretErased, EditedLineStays, EditedBy, NUL, TYPED, SECRET, Positions
    <2> QED
      BY <2>1, <2>2, <2>3, <2>4, <2>5, <2>6
      DEF AtPrompt, ClearCredential, SubmitUsername, LockoutEnd, Banner, ResetInput
  <1> QED
    BY <1>1, <1>2, <1>3, <1>4 DEF IInv

\* cli_exec_area: the free part begins behind the edited line and all lines in use.
LEMMA BaseBehind ==
  ASSUME TypeOK, Placement, Reserved
  PROVE  /\ Base \in Nat /\ len < Base
         /\ ~Idle => Base = End(Last(running))
         /\ \A d \in Depths : End(running[d]) <= Base
  <1> USE ArenaAssumption
  <1>1. Len(running) \in Nat /\ len \in Nat /\ \A d \in Depths : running[d] \in Lines
    BY DEF TypeOK, Depths, Positions
  <1>2. CASE Idle
    BY <1>1, <1>2 DEF Base, Idle, Depths
  <1>3. CASE ~Idle
    <2> DEFINE last == running[Len(running)]
    <2>1. Len(running) \in Depths /\ last \in Lines
      BY <1>1, <1>3 DEF Depths, Idle, TypeOK
    <2>2. Base = End(last) /\ Base = End(Last(running))
      BY <1>3 DEF Reserved, Base, Last
    <2>3. last.at \in Nat /\ last.len \in Nat /\ Base = last.at + last.len + 1
      BY <2>1, <2>2 DEF End, Lines, Positions
    <2>4. len < last.at \/ len <= last.len
      BY <2>1 DEF Lines, InPlace, Placement
    <2>5. Base \in Nat /\ len < Base
      BY <1>1, <2>3, <2>4
    <2>6. ASSUME NEW d \in Depths PROVE End(running[d]) <= Base
      <3>1. d = Len(running) \/ d < Len(running)
        BY <1>1 DEF Depths
      <3>2. CASE d < Len(running)
        <4>1. End(running[d]) <= last.at
          BY <2>1, <3>2 DEF Placement
        <4>2. End(running[d]) \in Nat
          BY <1>1 DEF End, Lines, Positions
        <4> QED
          BY <2>3, <4>1, <4>2
      <3>3. CASE d = Len(running)
        <4>1. End(running[d]) = Base
          BY <2>2, <3>3
        <4> QED
          BY <2>5, <4>1
      <3> QED
        BY <3>1, <3>2, <3>3
    <2> QED
      BY <2>2, <2>5, <2>6
  <1> QED
    BY <1>2, <1>3

\* A further line begins: where the line is, whatever happens inside its bytes.
LEMMA ExecStep ==
  ASSUME IInv, NEW n \in Positions, Exec(n)
  PROVE  IInv'
  <1> USE ArenaAssumption
  <1> DEFINE line == [kind |-> "exec", at |-> Base, len |-> n, saved |-> used]
  <1>1. /\ TypeOK /\ Placement /\ Reserved /\ LeftEditor
        /\ ArgumentsStay /\ SecretErased /\ EditedLineStays
    BY DEF IInv
  <1>2. /\ running \in Seq(Lines) /\ Len(running) \in Nat /\ Len(running) < MaxExecDepth
        /\ len \in Nat /\ used \in 0 .. Size /\ input \in [Positions -> Owners]
    BY <1>1 DEF Exec, MayNest, TypeOK, Positions
  <1>3. \A d \in Depths : running[d] \in Lines
    BY <1>2 DEF Depths
  <1>4. \A d \in Depths : End(running[d]) <= Base
    BY <1>1, BaseBehind
  <1>5. /\ len < Base /\ Base \in Nat
        /\ ~Idle => Base = End(Last(running))
    BY <1>1, BaseBehind
  <1>6. Base + n + 1 <= Size /\ Base + n \in Positions /\ Base \in Positions
    BY <1>5 DEF Exec, Fits, Positions
  <1>7. /\ line \in Lines /\ End(line) = Base + n + 1
    BY <1>2, <1>6 DEF Lines, End
  <1>8. /\ running' = Append(running, line) /\ used' = Base + n + 1
        /\ UNCHANGED <<len, asking, session>>
    BY <1>7 DEF Exec, Begin
  <1> HIDE DEF line
  <1>9. /\ Len(running') = Len(running) + 1
        /\ running'[Len(running) + 1] = line
        /\ \A d \in Depths : running'[d] = running[d]
        /\ running' \in Seq(Lines)
    BY <1>2, <1>7, <1>8 DEF Depths
  <1>10. line.kind = "exec" /\ line.at = Base /\ line.len = n /\ line.saved = used
    BY DEF line
  <1>11. Len(running) + 1 \in Owners /\ Len(running) + 1 \notin {NUL, TYPED, SECRET}
    BY <1>2 DEF Owners, NUL, TYPED, SECRET
  <1>12. /\ input' \in [Positions -> Owners]
         /\ \A i \in Positions : input'[i] =
              IF i = Base + n THEN NUL
              ELSE IF Base <= i /\ i < Base + n THEN Len(running) + 1 ELSE input[i]
    BY <1>2, <1>5, <1>6, <1>11, PlacedType, PlacedAt DEF Exec, Positions
  <1>13. TypeOK'
    <2>1. \A d \in 1 .. Len(running') : End(running'[d]) <= Size
      BY <1>1, <1>2, <1>6, <1>7, <1>9 DEF TypeOK, Depths
    <2>2. used' \in 0 .. Size /\ Len(running') <= MaxExecDepth
      BY <1>2, <1>5, <1>6, <1>8, <1>9 DEF Positions
    <2> QED
      BY <1>1, <1>8, <1>9, <1>12, <2>1, <2>2 DEF TypeOK
  <1>14. Placement'
    <2>1. /\ Depths' = Depths \cup {Len(running) + 1} /\ Len(running) + 1 \notin Depths
          /\ \A d \in Depths : d < Len(running) + 1
          /\ UNCHANGED len
      BY <1>2, <1>8, <1>9 DEF Depths
    <2>2. ~InPlace(line) /\ line.kind # "key"
      BY <1>10 DEF InPlace
    <2>3. /\ \A d \in Depths' : InPlace(running'[d]) => d = 1 /\ running'[d].at = 0
          /\ \A d \in Depths' : InPlace(running'[d]) => len <= running'[d].len
          /\ \A d \in Depths' : running'[d].kind = "key" => running'[d].len = 0
      BY <1>1, <1>9, <2>1, <2>2 DEF Placement
    <2>4. \A c, d \in Depths' : c < d => End(running'[c]) <= running'[d].at
      BY <1>1, <1>2, <1>4, <1>9, <1>10, <2>1 DEF Placement, Depths
    <2>5. \A d \in Depths' : running'[d].kind = "exec" => len < running'[d].at
      BY <1>1, <1>5, <1>9, <1>10, <2>1 DEF Placement
    <2> QED
      BY <2>1, <2>3, <2>4, <2>5 DEF Placement
  <1>15. Reserved'
    BY <1>1, <1>2, <1>5, <1>7, <1>8, <1>9, <1>10 DEF Reserved, Depths, Idle, Last, Base
  <1>16. LeftEditor'
    BY <1>1, <1>2, <1>8, <1>9, <1>10 DEF LeftEditor, Idle, Depths
  <1>17. ArgumentsStay'
    <2> SUFFICES ASSUME NEW d \in 1 .. Len(running'), running'[d].kind # "check"
                 PROVE  /\ \A i \in running'[d].at .. End(running'[d]) - 2 : input'[i] = OwnerOf(d)'
                        /\ input'[End(running'[d]) - 1] = NUL
      BY DEF ArgumentsStay
    <2>1. CASE d = Len(running) + 1
      BY <2>1, <1>5, <1>6, <1>7, <1>9, <1>10, <1>12 DEF OwnerOf, Positions
    <2>2. CASE d \in Depths
      <3>1. running'[d] = running[d] /\ running[d] \in Lines /\ End(running[d]) <= Base
        BY <2>2, <1>3, <1>4, <1>9
      <3>2. OwnerOf(d)' = OwnerOf(d)
        BY <3>1 DEF OwnerOf
      <3>3. /\ \A i \in running[d].at .. End(running[d]) - 2 : input[i] = OwnerOf(d)
            /\ input[End(running[d]) - 1] = NUL
        BY <1>1, <2>2, <3>1 DEF ArgumentsStay, Depths
      <3>4. \A i \in 0 .. End(running[d]) - 1 : i \in Positions /\ input'[i] = input[i]
        BY <1>5, <1>6, <1>12, <3>1 DEF End, Lines, Positions
      <3>5. /\ running[d].at \in Nat /\ End(running[d]) \in Nat
            /\ End(running[d]) - 1 \in 0 .. End(running[d]) - 1
        BY <3>1 DEF End, Lines, Positions
      <3>6. \A i \in running[d].at .. End(running[d]) - 2 : i \in 0 .. End(running[d]) - 1
        BY <3>5
      <3> QED
        BY <3>1, <3>2, <3>3, <3>4, <3>5, <3>6
    <2> QED
      BY <1>2, <1>9, <2>1, <2>2 DEF Depths
  <1>18. SecretErased'
    BY <1>1, <1>8, <1>11, <1>12 DEF SecretErased, NUL, SECRET
  <1>19. EditedLineStays'
    <2>1. ~Idle'
      BY <1>2, <1>8 DEF Idle
    <2>2. \A i \in 0 .. len - 1 : i \in Positions /\ input'[i] = input[i]
      BY <1>2, <1>5, <1>6, <1>12 DEF Positions
    <2> QED
      BY <1>1, <1>8, <2>1, <2>2 DEF EditedLineStays, EditedBy
  <1> QED
    BY <1>13, <1>14, <1>15, <1>16, <1>17, <1>18, <1>19 DEF IInv

\* A typed line, the quit key and a credential check run where the editor has them.
LEMMA InPlaceStep ==
  ASSUME IInv, SubmitLine \/ QuitKey \/ CheckSecret
  PROVE  IInv'
  <1> USE ArenaAssumption
  <1>1. /\ TypeOK /\ Placement /\ Reserved /\ LeftEditor
        /\ ArgumentsStay /\ SecretErased /\ EditedLineStays
    BY DEF IInv
  <1>2. PICK k \in {"typed", "key", "check"} :
          /\ running' = Append(running, [kind |-> k, at |-> 0, len |-> len, saved |-> used])
          /\ used' = len + 1
          /\ k # "check" => asking = "command"
          /\ k = "key" => len = 0
    BY <1>1 DEF SubmitLine, QuitKey, CheckSecret, Begin, End, TypeOK, Positions
  <1>3. /\ Idle /\ running = <<>> /\ session = "RUN"
        /\ UNCHANGED <<input, len, asking, session>>
    BY DEF SubmitLine, QuitKey, CheckSecret, Prompting, Idle
  <1> DEFINE line == [kind |-> k, at |-> 0, len |-> len, saved |-> used]
  <1>4. line \in Lines /\ End(line) = len + 1
    BY <1>1 DEF Lines, End, TypeOK, Positions
  <1>5. line.kind = k /\ line.at = 0 /\ line.len = len
    OBVIOUS
  <1>6. running' = <<line>>
    BY <1>2, <1>3
  <1> HIDE DEF line
  <1>7. running' \in Seq(Lines) /\ Len(running') = 1 /\ running'[1] = line
    BY <1>4, <1>6
  <1>8. TypeOK'
    BY <1>1, <1>2, <1>3, <1>4, <1>7 DEF TypeOK, Positions
  <1>9. (Placement /\ Reserved /\ LeftEditor)'
    BY <1>1, <1>2, <1>3, <1>4, <1>5, <1>7
    DEF Placement, Reserved, LeftEditor, Depths, InPlace, Last, Idle, TypeOK, Positions
  <1>10. ArgumentsStay'
    BY <1>1, <1>2, <1>3, <1>4, <1>5, <1>7
    DEF ArgumentsStay, EditedLineStays, EditedBy, OwnerOf, TypeOK, Positions
  <1>11. (SecretErased /\ EditedLineStays)'
    BY <1>1, <1>3, <1>7 DEF SecretErased, EditedLineStays, EditedBy, Idle
  <1> QED
    BY <1>8, <1>9, <1>10, <1>11 DEF IInv

\* Words that turn out not to fit leave no trace in the lines in use.
LEMMA JoinStep ==
  ASSUME IInv, NEW n \in Positions, JoinTooLong(n)
  PROVE  IInv'
  <1> USE ArenaAssumption
  <1>1. /\ TypeOK /\ Placement /\ Reserved /\ LeftEditor
        /\ ArgumentsStay /\ SecretErased /\ EditedLineStays
    BY DEF IInv
  <1>2. UNCHANGED <<len, asking, session, running, used>>
    BY DEF JoinTooLong
  <1>3. /\ running \in Seq(Lines) /\ Len(running) \in Nat /\ Len(running) < MaxExecDepth
        /\ len \in Nat /\ input \in [Positions -> Owners] /\ len \in Positions /\ used \in Nat
    BY <1>1 DEF JoinTooLong, MayNest, TypeOK, Positions
  <1>4. \A d \in Depths : running[d] \in Lines
    BY <1>3 DEF Depths
  <1>5. len < Base /\ Base \in Nat /\ \A d \in Depths : End(running[d]) <= Base
    BY <1>1, <1>3, <1>4, BaseBehind
  <1>6. Len(running) + 1 \in Owners /\ Len(running) + 1 \notin {NUL, TYPED, SECRET}
    BY <1>3 DEF Owners, NUL, TYPED, SECRET
  <1>7. /\ input' \in [Positions -> Owners]
        /\ \A i \in Positions : input'[i] \in {input[i], Len(running) + 1}
        /\ \A i \in Positions : i < Base => input'[i] = input[i]
    BY <1>3, <1>5, <1>6, FillType, FillAt DEF JoinTooLong, Positions
  <1>8. (TypeOK /\ Placement /\ Reserved /\ LeftEditor)'
    BY <1>1, <1>2, <1>7 DEF TypeOK, Placement, Reserved, LeftEditor, Depths, Idle
  <1>9. (SecretErased /\ EditedLineStays)'
    BY <1>1, <1>2, <1>3, <1>5, <1>6, <1>7
    DEF SecretErased, EditedLineStays, EditedBy, Idle, Positions
  <1>10. ArgumentsStay'
    <2> SUFFICES ASSUME NEW d \in Depths, running[d].kind # "check"
                 PROVE  /\ \A i \in running[d].at .. End(running[d]) - 2 : input'[i] = OwnerOf(d)
                        /\ input'[End(running[d]) - 1] = NUL
      BY <1>2 DEF ArgumentsStay, Depths, OwnerOf
    <2>0. End(running[d]) <= Base /\ End(running[d]) <= Size
      BY <1>1, <1>5 DEF TypeOK, Depths
    <2>1. /\ running[d].at \in Nat /\ End(running[d]) \in Nat
          /\ End(running[d]) > running[d].at
      BY <1>4 DEF End, Lines, Positions
    <2>2. \A i \in running[d].at .. End(running[d]) - 1 : input'[i] = input[i]
      BY <1>5, <1>7, <2>0, <2>1 DEF Positions
    <2>5. /\ \A i \in running[d].at .. End(running[d]) - 2 :
               i \in running[d].at .. End(running[d]) - 1
          /\ End(running[d]) - 1 \in running[d].at .. End(running[d]) - 1
      BY <2>1
    <2>6. /\ \A i \in running[d].at .. End(running[d]) - 2 : input[i] = OwnerOf(d)
          /\ input[End(running[d]) - 1] = NUL
      BY <1>1 DEF ArgumentsStay, Depths
    <2> QED
      BY <2>2, <2>5, <2>6
  <1> QED
    BY <1>8, <1>9, <1>10 DEF IInv

\* Whatever forgets the edited line while lines run, leaves their bytes alone.
LEMMA ForgetStep ==
  ASSUME IInv, RestartSession \/ RequestAuth \/ AskEnableSecret
  PROVE  IInv'
  <1> USE ArenaAssumption
  <1>1. /\ TypeOK /\ Placement /\ Reserved /\ LeftEditor
        /\ ArgumentsStay /\ SecretErased /\ EditedLineStays
    BY DEF IInv
  <1>2. input' = Forgotten /\ len' = 0 /\ UNCHANGED <<running, used>>
    BY DEF RestartSession, RequestAuth, AskEnableSecret, ResetInput
  <1>3. /\ asking' \in {"command", "username", "secret"}
        /\ session' \in {"RUN", "RESTARTED"}
    BY <1>1 DEF RestartSession, RequestAuth, AskEnableSecret, TypeOK
  <1>4. input' \in [Positions -> Owners] /\ 0 \in Positions /\ len \in Nat
    BY <1>1, <1>2, ForgottenType DEF TypeOK, Positions
  <1>5. \A d \in Depths : running[d] \in Lines
    BY <1>1 DEF Depths, TypeOK
  <1>6. TypeOK'
    BY <1>1, <1>2, <1>3, <1>4 DEF TypeOK
  <1>7. (Placement /\ Reserved /\ LeftEditor)'
    BY <1>1, <1>2, <1>4, <1>5 DEF Placement, Reserved, LeftEditor, Depths, Idle, Lines, Positions, InPlace
  <1>8. (SecretErased /\ EditedLineStays)'
    BY <1>1, <1>2, <1>4, ForgottenAt DEF SecretErased, EditedLineStays, Idle
  <1>9. ArgumentsStay'
    <2> SUFFICES ASSUME NEW d \in Depths, running[d].kind # "check"
                 PROVE  /\ \A i \in running[d].at .. End(running[d]) - 2 : input'[i] = OwnerOf(d)
                        /\ input'[End(running[d]) - 1] = NUL
      BY <1>2 DEF ArgumentsStay, Depths, OwnerOf
    <2>1. /\ running[d].at \in Nat /\ End(running[d]) \in Nat
          /\ End(running[d]) > running[d].at /\ End(running[d]) <= Size
      BY <1>1, <1>5 DEF End, Lines, Positions, TypeOK, Depths
    <2>2. asking = "secret" => len <= running[d].at
      <3>1. CASE running[d].kind = "exec"
        BY <1>1, <1>4, <2>1, <3>1 DEF Placement
      <3>2. CASE running[d].kind # "exec"
        <4>1. d = 1 /\ running[1].kind \in {"typed", "key"} /\ ~Idle
          BY <1>1, <1>5, <3>2 DEF Placement, InPlace, Lines, Depths, Idle
        <4> QED
          BY <1>1, <2>1, <4>1 DEF LeftEditor
      <3> QED
        BY <3>1, <3>2
    <2>3. ~Idle
      BY DEF Idle, Depths
    <2>4. \A i \in running[d].at .. End(running[d]) - 1 : input'[i] = input[i]
      <3> SUFFICES ASSUME NEW i \in running[d].at .. End(running[d]) - 1
                   PROVE  input'[i] = input[i]
        OBVIOUS
      <3>1. i \in Positions /\ (asking = "secret" => len <= i)
        BY <1>4, <2>1, <2>2 DEF Positions
      <3> QED
        BY <1>1, <1>2, <2>3, <3>1, ForgottenAt
    <2>5. /\ \A i \in running[d].at .. End(running[d]) - 2 :
               i \in running[d].at .. End(running[d]) - 1
          /\ End(running[d]) - 1 \in running[d].at .. End(running[d]) - 1
      BY <2>1
    <2>6. /\ \A i \in running[d].at .. End(running[d]) - 2 : input[i] = OwnerOf(d)
          /\ input[End(running[d]) - 1] = NUL
      BY <1>1 DEF ArgumentsStay, Depths
    <2> QED
      BY <2>4, <2>5, <2>6
  <1> QED
    BY <1>6, <1>7, <1>8, <1>9 DEF IInv

\* What remains of the lines in use when the innermost returns.
LEMMA Popped ==
  ASSUME IInv, ~Idle, running' = SubSeq(running, 1, Len(running) - 1)
  PROVE  /\ Len(running) \in Depths /\ Last(running) \in Lines
         /\ running' \in Seq(Lines) /\ Len(running') = Len(running) - 1
         /\ \A d \in 1 .. Len(running) - 1 : running'[d] = running[d]
         /\ Len(running) = 1 => running' = <<>>
         /\ InPlace(Last(running)) => Len(running) = 1
  <1>1. running \in Seq(Lines) /\ running # <<>>
    BY DEF IInv, TypeOK, Idle
  <1>a. Len(running) \in Nat \ {0} /\ Len(running) \in Depths /\ Last(running) \in Lines
    BY <1>1 DEF Depths, Last
  <1>2. /\ Len(running) \in Depths /\ Last(running) \in Lines
        /\ running' \in Seq(Lines) /\ Len(running') = Len(running) - 1
        /\ \A d \in 1 .. Len(running) - 1 : running'[d] = running[d]
    <2> DEFINE rest == SubSeq(running, 1, Len(running) - 1)
    <2>0. /\ 1 \in 1 .. Len(running) + 1 /\ Len(running) - 1 \in 1 - 1 .. Len(running)
          /\ Len(running) - 1 - 1 + 1 = Len(running) - 1
      BY <1>a
    <2>1. rest \in Seq(Lines) /\ Len(rest) = Len(running) - 1
      BY <1>1, <1>a, <2>0, SubSeqProperties
    <2>2. \A d \in 1 .. Len(running) - 1 : rest[d] = running[d]
      BY <1>1, <1>a, <2>0, SubSeqProperties
    <2> QED
      BY <1>a, <2>1, <2>2
  <1>3. InPlace(Last(running)) => Len(running) = 1
    BY <1>2 DEF IInv, Placement, Last
  <1>4. Len(running) = 1 => running' = <<>>
    BY <1>1, <1>2
  <1> QED
    BY <1>2, <1>3, <1>4

\* The line that runs in place returns: nothing runs any more.
LEMMA InPlaceReturns ==
  ASSUME IInv, TypedReturns \/ KeyReturns \/ CheckReturns \/ \E n \in Positions : TypedRecalls(n)
  PROVE  IInv'
  <1> USE ArenaAssumption
  <1>1. /\ TypeOK /\ LeftEditor /\ SecretErased /\ EditedLineStays /\ Placement
    BY DEF IInv
  <1>2. /\ ~Idle /\ running' = SubSeq(running, 1, Len(running) - 1)
        /\ Last(running).kind \in {"typed", "key", "check"} /\ UNCHANGED <<session, used>>
    BY DEF TypedReturns, KeyReturns, CheckReturns, TypedRecalls, Returns
  <1>3. Len(running) = 1 /\ running' = <<>> /\ Last(running) = running[1]
    BY <1>2, Popped DEF InPlace, Last
  <1>4. Idle' /\ Len(running') = 0 /\ running' \in Seq(Lines)
    BY <1>3 DEF Idle
  <1>5. (Placement /\ Reserved /\ ArgumentsStay)'
    BY <1>4 DEF Placement, Reserved, ArgumentsStay, Depths
  <1>6. /\ 0 \in Positions /\ input \in [Positions -> Owners] /\ len \in Positions
        /\ {NUL, TYPED} \subseteq Owners
    BY <1>1 DEF TypeOK, Positions, Owners
  <1>7. ASSUME input' \in [Positions -> Owners], len' \in Positions,
               asking' \in {"command", "username", "secret", "lockout"},
               session = "RESTARTED" /\ asking' # "command" => len' = 0,
               \A i \in Positions : input'[i] = SECRET => asking' = "secret" /\ i < len',
               \A i \in 0 .. len' - 1 : input'[i] = EditedBy', input'[len'] = NUL
        PROVE  IInv'
    BY <1>1, <1>2, <1>4, <1>5, <1>7 DEF IInv, TypeOK, LeftEditor, SecretErased, EditedLineStays
  <1>8. CASE TypedReturns
    BY <1>1, <1>6, <1>7, <1>8, ForgottenType, ForgottenAt DEF TypedReturns, TypeOK
  <1>9. CASE KeyReturns
    <2>1. UNCHANGED <<input, len, asking>> /\ running[1].kind = "key"
      BY <1>3, <1>9 DEF KeyReturns, Returns
    <2>2. len = 0 /\ input[0] = NUL
      <3>1. 1 \in Depths /\ running[1].at = 0 /\ running[1].len = 0 /\ len <= running[1].len
        BY <1>1, <1>3, <2>1 DEF Placement, InPlace, Depths
      <3>2. input[End(running[1]) - 1] = NUL
        BY <2>1, <3>1 DEF IInv, ArgumentsStay, Depths
      <3> QED
        BY <1>6, <3>1, <3>2 DEF End, Positions
    <2> QED
      BY <1>1, <1>2, <1>6, <1>7, <2>1, <2>2
      DEF TypeOK, LeftEditor, SecretErased, EditedLineStays, EditedBy
  <1>10. CASE CheckReturns
    BY <1>1, <1>2, <1>6, <1>7, <1>10
    DEF CheckReturns, WipeInput, Verdict, TypeOK, NUL, SECRET
  <1>11. CASE \E n \in Positions : TypedRecalls(n)
    <2>1. PICK n \in Positions : TypedRecalls(n)
      BY <1>11
    <2>2. \A i \in Positions : input'[i] =
            IF i = n THEN NUL ELSE IF 0 <= i /\ i < n THEN TYPED ELSE input[i]
      BY <1>6, <2>1, PlacedAt DEF TypedRecalls, Positions
    <2>3. input' \in [Positions -> Owners]
      BY <1>6, <2>1, PlacedType DEF TypedRecalls, Positions
    <2>4. asking = "command" /\ asking' = "command" /\ len' = n
      BY <2>1 DEF TypedRecalls
    <2> QED
      BY <1>1, <1>6, <1>7, <2>2, <2>3, <2>4
      DEF SecretErased, EditedBy, NUL, TYPED, SECRET, Positions
  <1> QED
    BY <1>8, <1>9, <1>10, <1>11

\* A line of cli_exec returns; exec_used goes back to the end of the line before.
LEMMA ExecReturnsStep ==
  ASSUME IInv, ExecReturns
  PROVE  IInv'
  <1> USE ArenaAssumption
  <1>1. /\ TypeOK /\ Placement /\ Reserved /\ LeftEditor
        /\ ArgumentsStay /\ SecretErased /\ EditedLineStays
    BY DEF IInv
  <1> DEFINE n == Len(running)
  <1>2. /\ ~Idle /\ running' = SubSeq(running, 1, Len(running) - 1)
        /\ Last(running).kind = "exec" /\ used' = Last(running).saved
        /\ input' = AfterExec /\ UNCHANGED <<len, asking, session>>
    BY DEF ExecReturns, Returns
  <1>3. /\ n \in Depths /\ n \in Nat \ {0} /\ Last(running) = running[n] /\ running[n] \in Lines
        /\ running' \in Seq(Lines) /\ Len(running') = n - 1
        /\ \A d \in 1 .. n - 1 : running'[d] = running[d]
        /\ n = 1 => running' = <<>>
    BY <1>1, <1>2, Popped DEF Last, Depths, TypeOK
  <1> HIDE DEF n
  <1>4. /\ input \in [Positions -> Owners] /\ len \in Positions /\ len < running[n].at
        /\ \A d \in Depths : running[d] \in Lines
    BY <1>1, <1>2, <1>3 DEF Placement, TypeOK, Depths
  <1>5. /\ input' \in [Positions -> Owners]
        /\ \A i \in Positions : input'[i] = IF n = 1 /\ i = len THEN NUL ELSE input[i]
    <2>1. CASE n = 1
      BY <1>2, <1>4, <2>1, TerminatedType, TerminatedAt DEF AfterExec, n, Positions
    <2>2. CASE n # 1
      BY <1>2, <1>4, <2>2 DEF AfterExec, n
    <2> QED
      BY <2>1, <2>2
  <1>6. Depths' = 1 .. n - 1 /\ Depths = 1 .. n /\ Depths' \subseteq Depths
    BY <1>3 DEF Depths, n
  <1>7. TypeOK'
    <2>1. \A d \in 1 .. Len(running') : End(running'[d]) <= Size
      BY <1>1, <1>3 DEF TypeOK, Depths, n
    <2>2. Len(running') <= MaxExecDepth
      BY <1>1, <1>3 DEF TypeOK, n
    <2>3. used' \in 0 .. Size
      BY <1>2, <1>3 DEF Lines
    <2> QED
      BY <1>1, <1>2, <1>3, <1>5, <2>1, <2>2, <2>3 DEF TypeOK
  <1>8. Placement'
    BY <1>1, <1>2, <1>3, <1>6 DEF Placement, InPlace, End
  <1>9. Reserved'
    <2>1. \A d \in Depths' : d > 1 => running'[d].saved = End(running'[d - 1])
      <3> SUFFICES ASSUME NEW d \in 1 .. n - 1, d > 1
                   PROVE  running'[d].saved = End(running'[d - 1])
        BY <1>6
      <3>1. d - 1 \in 1 .. n - 1 /\ d \in Depths
        BY <1>3, <1>6
      <3> QED
        BY <1>1, <1>3, <3>1 DEF Reserved
    <2>2. ~Idle' => used' = End(Last(running'))
      <3> SUFFICES ASSUME n # 1 PROVE used' = End(Last(running'))
        BY <1>3 DEF Idle
      <3>1. n > 1 /\ n - 1 \in 1 .. n - 1
        BY <1>3
      <3>2. running[n].saved = End(running[n - 1])
        BY <1>1, <1>3, <3>1 DEF Reserved
      <3> QED
        BY <1>2, <1>3, <3>1, <3>2 DEF Last
    <2> QED
      BY <2>1, <2>2 DEF Reserved
  <1>10. LeftEditor'
    <2>1. ~Idle' => running'[1] = running[1]
      <3> SUFFICES ASSUME n # 1 PROVE running'[1] = running[1]
        BY <1>3 DEF Idle
      <3>1. 1 \in 1 .. n - 1
        BY <1>3
      <3> QED
        BY <1>3, <3>1
    <2> QED
      BY <1>1, <1>2, <2>1 DEF LeftEditor
  <1>11. ArgumentsStay'
    <2> SUFFICES ASSUME NEW d \in 1 .. n - 1, running[d].kind # "check"
                 PROVE  /\ \A i \in running[d].at .. End(running[d]) - 2 : input'[i] = OwnerOf(d)
                        /\ input'[End(running[d]) - 1] = NUL
      BY <1>3 DEF ArgumentsStay, OwnerOf
    <2>1. n # 1 /\ d \in Depths
      BY <1>3, <1>6
    <2>2. /\ running[d].at \in Nat /\ End(running[d]) \in Nat
          /\ End(running[d]) > running[d].at /\ End(running[d]) <= Size
      <3>1. running[d] \in Lines /\ End(running[d]) <= Size
        BY <1>1, <1>4, <2>1 DEF TypeOK, Depths
      <3> QED
        BY <3>1 DEF End, Lines, Positions
    <2>3. \A i \in running[d].at .. End(running[d]) - 1 : input'[i] = input[i]
      BY <1>5, <2>1, <2>2 DEF Positions
    <2>5. /\ \A i \in running[d].at .. End(running[d]) - 2 :
               i \in running[d].at .. End(running[d]) - 1
          /\ End(running[d]) - 1 \in running[d].at .. End(running[d]) - 1
      BY <2>2
    <2>6. /\ \A i \in running[d].at .. End(running[d]) - 2 : input[i] = OwnerOf(d)
          /\ input[End(running[d]) - 1] = NUL
      BY <1>1, <2>1 DEF ArgumentsStay, Depths
    <2> QED
      BY <2>3, <2>5, <2>6
  <1>12. SecretErased'
    BY <1>1, <1>2, <1>5 DEF SecretErased, NUL, SECRET
  <1>13. EditedLineStays'
    <2>1. Idle' => n = 1
      BY <1>3 DEF Idle
    <2>2. \A i \in 0 .. len - 1 : i \in Positions /\ i # len
      BY <1>4 DEF Positions
    <2> QED
      BY <1>1, <1>2, <1>4, <1>5, <2>1, <2>2 DEF EditedLineStays, EditedBy
  <1> QED
    BY <1>7, <1>8, <1>9, <1>10, <1>11, <1>12, <1>13 DEF IInv

\* A top-level 'history n' returns with the entry in the empty editor.
LEMMA ExecRecallsStep ==
  ASSUME IInv, NEW n \in Positions, ExecRecalls(n)
  PROVE  IInv'
  <1> USE ArenaAssumption
  <1>1. TypeOK /\ LeftEditor /\ SecretErased
    BY DEF IInv
  <1>2. /\ ~Idle /\ running' = SubSeq(running, 1, Len(running) - 1) /\ Len(running) = 1
        /\ used' = Last(running).saved /\ asking = "command" /\ UNCHANGED <<asking, session>>
        /\ input' = Placed(input, 0, n, TYPED) /\ len' = n
    BY DEF ExecRecalls, Returns
  <1>3. running' = <<>> /\ Last(running) \in Lines
    BY <1>2, Popped
  <1>4. Idle' /\ Len(running') = 0 /\ running' \in Seq(Lines)
    BY <1>3 DEF Idle
  <1>5. input \in [Positions -> Owners] /\ TYPED \in Owners
    BY <1>1 DEF TypeOK, Owners
  <1>6. /\ input' \in [Positions -> Owners]
        /\ \A i \in Positions : input'[i] =
             IF i = n THEN NUL ELSE IF 0 <= i /\ i < n THEN TYPED ELSE input[i]
    BY <1>2, <1>5, PlacedType, PlacedAt DEF Positions
  <1>7. TypeOK'
    BY <1>1, <1>2, <1>3, <1>4, <1>6 DEF TypeOK, Lines
  <1>8. (Placement /\ Reserved /\ ArgumentsStay /\ LeftEditor)'
    BY <1>1, <1>2, <1>4 DEF Placement, Reserved, ArgumentsStay, LeftEditor, Depths
  <1>9. (SecretErased /\ EditedLineStays)'
    BY <1>1, <1>2, <1>6 DEF SecretErased, EditedLineStays, EditedBy, NUL, TYPED, SECRET, Positions
  <1> QED
    BY <1>7, <1>8, <1>9 DEF IInv

-----------------------------------------------------------------------------

\* The invariant is inductive.
LEMMA Inductive == IInv /\ [Next]_vars => IInv'
  <1> SUFFICES ASSUME IInv, [Next]_vars PROVE IInv'
    OBVIOUS
  <1>1. CASE AtPrompt
    BY <1>1, PromptSteps
  <1>2. CASE SubmitLine \/ QuitKey \/ CheckSecret
    BY <1>2, InPlaceStep
  <1>3. CASE \E n \in Positions : Exec(n)
    BY <1>3, ExecStep
  <1>4. CASE \E n \in Positions : JoinTooLong(n)
    BY <1>4, JoinStep
  <1>5. CASE RestartSession \/ RequestAuth \/ AskEnableSecret
    BY <1>5, ForgetStep
  <1>6. CASE TypedReturns \/ KeyReturns \/ CheckReturns \/ \E n \in Positions : TypedRecalls(n)
    BY <1>6, InPlaceReturns
  <1>7. CASE ExecReturns
    BY <1>7, ExecReturnsStep
  <1>8. CASE \E n \in Positions : ExecRecalls(n)
    BY <1>8, ExecRecallsStep
  <1>9. CASE UNCHANGED vars
    BY <1>9 DEF vars, IInv, TypeOK, Placement, Reserved, LeftEditor, ArgumentsStay, SecretErased,
       EditedLineStays, Depths, Idle, OwnerOf, EditedBy
  <1> QED
    BY <1>1, <1>2, <1>3, <1>4, <1>5, <1>6, <1>7, <1>8, <1>9 DEF Next, AtPrompt

LEMMA Invariance == Spec => []IInv
  <1> QED
    BY Initially, Inductive, PTL DEF Spec

\* Every line of a running command, with its NUL, lies inside input[], and at most
\* CLI_MAX_EXEC_DEPTH commands nest, whatever handlers and callbacks run.
THEOREM ArenaTyping == Spec => []TypeOK
  <1>1. IInv => TypeOK
    BY DEF IInv
  <1> QED
    BY <1>1, Invariance, PTL

\* The argv strings of a handler that has not returned are never overwritten:
\* cli_exec_area hands out only what is behind every line in use.
THEOREM Arguments == Spec => []ArgumentsStay
  <1>1. IInv => ArgumentsStay
    BY DEF IInv
  <1> QED
    BY <1>1, Invariance, PTL

\* No byte of a password or enable secret stays in input[] once it is not asked
\* for any more: cli_reset_input and cli_wipe_input erase all there can be.
THEOREM Secrets == Spec => []SecretErased
  <1>1. IInv => SecretErased
    BY DEF IInv
  <1> QED
    BY <1>1, Invariance, PTL

\* The edited line survives what callbacks and the main loop run meanwhile, and
\* is terminated whenever the prompt reads on.
THEOREM EditedLine == Spec => []EditedLineStays
  <1>1. IInv => EditedLineStays
    BY DEF IInv
  <1> QED
    BY <1>1, Invariance, PTL

=============================================================================
