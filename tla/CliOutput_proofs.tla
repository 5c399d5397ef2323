-------------------------- MODULE CliOutput_proofs --------------------------
(***************************************************************************)
(* Proofs about the output path, for any texts, any size of the line       *)
(* buffer and any nesting: nothing printed is lost, what follows a command *)
(* starts on a fresh line, and a filter is applied to the whole of its     *)
(* command's output and to nothing else.                                   *)
(***************************************************************************)
EXTENDS CliOutput, SequenceTheorems, WellFoundedInduction, TLAPS

-----------------------------------------------------------------------------
(* Induction, and functions that are built step by step                    *)

\* What holds of 0 and is handed on from n - 1 to n holds up to N.
LEMMA Induction ==
  ASSUME NEW N \in Nat, NEW S, 0 \in S, \A n \in 1 .. N : n - 1 \in S => n \in S
  PROVE  \A n \in 0 .. N : n \in S
<1> DEFINE T == (0 .. N) \ S
<1> SUFFICES ASSUME T # {} PROVE FALSE
  OBVIOUS
<1>1. T \subseteq Nat
  OBVIOUS
<1> HIDE DEF T
<1>2. PICK x \in T : \A y \in T : <<y, x>> \notin OpToRel(<, Nat)
  BY <1>1, WFMin, NatLessThanWellFounded
<1>3. \A y \in T : ~ (y < x)
  BY <1>1, <1>2 DEF OpToRel
<1> USE DEF T
<1>4. x \in 1 .. N /\ x - 1 \in 0 .. N
  OBVIOUS
<1>5. x - 1 \in S
  BY <1>3, <1>4
<1> QED
  BY <1>4, <1>5

\* f starts at x, and each value is made from the one before by the step of its number.
Built(f, N, D, x, step) ==
  /\ f \in [0 .. N -> D] /\ f[0] = x
  /\ \A n \in 1 .. N : f[n] = step[n][f[n - 1]]

Steps(step, N, D) == step \in [1 .. N -> [D -> D]]

LEMMA Recursion ==
  ASSUME NEW N \in Nat, NEW D, NEW x \in D, NEW step, Steps(step, N, D)
  PROVE  \E f : Built(f, N, D, x, step)
<1> DEFINE UpTo(k, f) == /\ f \in [0 .. N -> D] /\ f[0] = x
                         /\ \A n \in 1 .. k : f[n] = step[n][f[n - 1]]
           S == {k \in 0 .. N : \E f : UpTo(k, f)}
<1>1. 0 \in S
  <2> DEFINE f == [n \in 0 .. N |-> x]
  <2>1. UpTo(0, f)
    OBVIOUS
  <2> HIDE DEF f, UpTo
  <2> QED
    BY <2>1
<1>2. ASSUME NEW k \in 1 .. N, k - 1 \in S PROVE k \in S
  <2>1. PICK f : UpTo(k - 1, f)
    BY <1>2
  <2> DEFINE v == step[k][f[k - 1]]
  <2>2. k - 1 \in 0 .. N /\ f[k - 1] \in D
    BY <2>1
  <2>3. v \in D
    BY <2>2 DEF Steps
  <2> HIDE DEF v
  <2> DEFINE g == [f EXCEPT ![k] = v]
  <2>4. /\ g \in [0 .. N -> D] /\ g[k] = v
        /\ \A n \in 0 .. N : n # k => g[n] = f[n]
    BY <2>1, <2>3
  <2> HIDE DEF g
  <2>5. ASSUME NEW n \in 1 .. k PROVE g[n] = step[n][g[n - 1]]
    <3>1. n - 1 \in 0 .. N /\ n - 1 # k /\ n \in 0 .. N
      OBVIOUS
    <3>2. g[n - 1] = f[n - 1]
      BY <2>4, <3>1
    <3>3. CASE n = k
      BY <2>4, <3>2, <3>3 DEF v
    <3>4. CASE n # k
      <4>1. n \in 1 .. k - 1
        BY <3>4
      <4> QED
        BY <2>1, <2>4, <3>1, <3>2, <3>4, <4>1
    <3> QED
      BY <3>3, <3>4
  <2>6. g[0] = x
    BY <2>1, <2>4
  <2>7. UpTo(k, g)
    BY <2>4, <2>5, <2>6
  <2> QED
    BY <2>7
<1>3. N \in S
  <2> HIDE DEF S
  <2>1. \A n \in 0 .. N : n \in S
    BY <1>1, <1>2, Induction
  <2>2. N \in 0 .. N
    OBVIOUS
  <2> QED
    BY <2>1, <2>2
<1>4. PICK f : UpTo(N, f)
  BY <1>3
<1> QED
  BY <1>4 DEF Built


\* What holds of the empty sequence and is handed on by Append holds of every sequence.
LEMMA SeqInduction ==
  ASSUME NEW D, NEW P, <<>> \in P, \A s \in Seq(D), c \in D : s \in P => Append(s, c) \in P
  PROVE  Seq(D) \subseteq P
<1> SUFFICES ASSUME NEW s \in Seq(D) PROVE s \in P
  OBVIOUS
<1> DEFINE N == Len(s)
           T == {n \in 0 .. N : SubSeq(s, 1, n) \in P}
<1>1. N \in Nat /\ \A i \in 1 .. N : s[i] \in D
  BY LenProperties, ElementOfSeq
<1>2. 0 \in T
  <2>1. SubSeq(s, 1, 0) = <<>>
    BY SubSeqEmpty
  <2>2. SubSeq(s, 1, 0) \in P
    BY <2>1
  <2>3. 0 \in 0 .. N
    BY <1>1
  <2> QED
    BY <2>2, <2>3
<1>3. ASSUME NEW n \in 1 .. N, n - 1 \in T PROVE n \in T
  <2>1. SubSeq(s, 1, n) = SubSeq(s, 1, n - 1) \o <<s[n]>>
    BY <1>1, SubSeqRecursiveSecond
  <2>2. SubSeq(s, 1, n - 1) \in Seq(D) /\ s[n] \in D
    <3>1. n - 1 \in Int /\ \A i \in 1 .. n - 1 : s[i] \in D
      BY <1>1
    <3> QED
      BY <1>1, <3>1, SubSeqProperties
  <2>3. SubSeq(s, 1, n) = Append(SubSeq(s, 1, n - 1), s[n])
    BY <2>1, <2>2, AppendIsConcat
  <2>4. SubSeq(s, 1, n - 1) \in P
    BY <1>3
  <2>5. SubSeq(s, 1, n) \in P
    <3> DEFINE u == SubSeq(s, 1, n - 1)
    <3> HIDE DEF u
    <3>1. u \in Seq(D) /\ u \in P /\ s[n] \in D
      BY <2>2, <2>4 DEF u
    <3>2. Append(u, s[n]) \in P
      BY <3>1
    <3> QED
      BY <2>3, <3>2 DEF u
  <2>6. n \in 0 .. N
    BY <1>1
  <2> QED
    BY <2>5, <2>6
<1> HIDE DEF T
<1>4. N \in T
  <2>1. \A n \in 0 .. N : n \in T
    BY <1>1, <1>2, <1>3, Induction
  <2> QED
    BY <1>1, <2>1
<1>5. SubSeq(s, 1, N) = s
  BY SubSeqFull
<1> QED
  BY <1>4, <1>5 DEF T

-----------------------------------------------------------------------------
(* The elements of a sequence that are in a set                            *)

Keep(t, c, S) == IF c \in S THEN Append(t, c) ELSE t

LEMMA KeepIs ==
  ASSUME NEW t \in Seq(Int), NEW c \in Int, NEW S
  PROVE  Keep(t, c, S) \in Seq(Int)
  BY AppendProperties DEF Keep

Start == <<>>

LEMMA OnlyIs ==
  ASSUME NEW s \in Seq(Int), NEW S
  PROVE  \E f : /\ f \in [0 .. Len(s) -> Seq(Int)] /\ f[0] = Start
                /\ \A i \in 1 .. Len(s) : f[i] = Keep(f[i - 1], s[i], S)
                /\ Only(s, S) = f[Len(s)]
<1> DEFINE N == Len(s)
           step == [i \in 1 .. N |-> [t \in Seq(Int) |-> Keep(t, s[i], S)]]
           Eq(f) == f = [i \in 0 .. N |->
                           IF i = 0 THEN <<>>
                           ELSE IF s[i] \in S THEN Append(f[i - 1], s[i]) ELSE f[i - 1]]
           Eq2(f) == f = [i \in 0 .. N |-> IF i = 0 THEN Start ELSE Keep(f[i - 1], s[i], S)]
<1>1. N \in Nat /\ \A i \in 1 .. N : s[i] \in Int
  BY LenProperties, ElementOfSeq
<1>2. \A f : Eq(f) <=> Eq2(f)
  BY DEF Keep, Start
<1>3. Only(s, S) = (CHOOSE f : Eq(f))[N]
  BY DEF Only
<1>4. Start \in Seq(Int)
  BY EmptySeq DEF Start
<1>5. Steps(step, N, Seq(Int))
  <2>1. \A i \in 1 .. N, t \in Seq(Int) : Keep(t, s[i], S) \in Seq(Int)
    BY <1>1, KeepIs
  <2> QED
    BY <2>1 DEF Steps
<1>6. \A i \in 1 .. N, t \in Seq(Int) : step[i][t] = Keep(t, s[i], S)
  OBVIOUS
<1> HIDE DEF step, N, Eq
<1>7. PICK f : Built(f, N, Seq(Int), Start, step)
  BY <1>1, <1>4, <1>5, Recursion
<1>8. Eq2(f)
  <2>1. /\ f \in [0 .. N -> Seq(Int)] /\ f[0] = Start
        /\ \A i \in 1 .. N : f[i] = step[i][f[i - 1]]
    BY <1>7 DEF Built
  <2>2. \A i \in 1 .. N : f[i - 1] \in Seq(Int)
    BY <1>1, <2>1
  <2>3. \A i \in 1 .. N : f[i] = Keep(f[i - 1], s[i], S)
    BY <1>6, <2>1, <2>2
  <2>4. f = [i \in 0 .. N |-> f[i]]
    BY <2>1
  <2>5. \A i \in 0 .. N : f[i] = IF i = 0 THEN Start ELSE Keep(f[i - 1], s[i], S)
    BY <1>1, <2>1, <2>3
  <2> QED
    BY <2>4, <2>5
<1>9. PICK g : Eq(g) /\ Only(s, S) = g[N]
  BY <1>2, <1>3, <1>8
<1>10. Eq2(g)
  BY <1>2, <1>9
<1>11. g[0] = Start /\ \A i \in 1 .. N : g[i] = Keep(g[i - 1], s[i], S)
  <2>1. \A i \in 0 .. N : g[i] = IF i = 0 THEN Start ELSE Keep(g[i - 1], s[i], S)
    BY <1>10
  <2> QED
    BY <1>1, <2>1
<1>12. \A n \in 0 .. N : g[n] \in Seq(Int)
  <2> DEFINE T == {n \in 0 .. N : g[n] \in Seq(Int)}
  <2>1. 0 \in T
    BY <1>1, <1>4, <1>11
  <2>2. ASSUME NEW n \in 1 .. N, n - 1 \in T PROVE n \in T
    BY <1>1, <1>11, <2>2, KeepIs
  <2> HIDE DEF T
  <2>3. \A n \in 0 .. N : n \in T
    BY <1>1, <2>1, <2>2, Induction
  <2> QED
    BY <2>3 DEF T
<1>13. g \in [0 .. N -> Seq(Int)]
  BY <1>10, <1>12
<1> QED
  BY <1>9, <1>11, <1>13 DEF N

LEMMA OnlyEmpty == \A S : Only(<<>>, S) = <<>>
<1> SUFFICES ASSUME NEW S PROVE Only(<<>>, S) = <<>>
  OBVIOUS
<1>1. <<>> \in Seq(Int) /\ Len(<<>>) = 0
  BY EmptySeq
<1>2. PICK f : f[0] = Start /\ Only(<<>>, S) = f[Len(<<>>)]
  BY <1>1, OnlyIs
<1> QED
  BY <1>1, <1>2 DEF Start

LEMMA OnlyAppend ==
  ASSUME NEW s \in Seq(Int), NEW c \in Int, NEW S
  PROVE  Only(s, S) \in Seq(Int) /\ Only(Append(s, c), S) = Keep(Only(s, S), c, S)
<1> DEFINE t == Append(s, c)
           N == Len(s)
<1>1. /\ t \in Seq(Int) /\ Len(t) = N + 1 /\ N \in Nat
      /\ t[N + 1] = c /\ \A i \in 1 .. N : t[i] = s[i]
  BY AppendProperties, LenProperties
<1> HIDE DEF t
<1>2. PICK f : /\ f \in [0 .. N -> Seq(Int)] /\ f[0] = Start
               /\ \A i \in 1 .. N : f[i] = Keep(f[i - 1], s[i], S)
               /\ Only(s, S) = f[N]
  BY OnlyIs
<1>3. PICK g : /\ g \in [0 .. N + 1 -> Seq(Int)] /\ g[0] = Start
               /\ \A i \in 1 .. N + 1 : g[i] = Keep(g[i - 1], t[i], S)
               /\ Only(t, S) = g[N + 1]
  <2>1. \E g : /\ g \in [0 .. Len(t) -> Seq(Int)] /\ g[0] = Start
               /\ \A i \in 1 .. Len(t) : g[i] = Keep(g[i - 1], t[i], S)
               /\ Only(t, S) = g[Len(t)]
    BY <1>1, OnlyIs
  <2>2. Len(t) = N + 1
    BY <1>1
  <2> HIDE DEF N
  <2> QED
    BY <2>1, <2>2
<1> HIDE DEF N
<1>4. \A n \in 0 .. N : n \in {k \in 0 .. N : g[k] = f[k]}
  <2> DEFINE T == {k \in 0 .. N : g[k] = f[k]}
  <2>1. 0 \in T
    BY <1>1, <1>2, <1>3
  <2>2. ASSUME NEW n \in 1 .. N, n - 1 \in T PROVE n \in T
    <3>1. n \in 1 .. N + 1 /\ t[n] = s[n] /\ n \in 0 .. N
      BY <1>1
    <3>2. g[n - 1] = f[n - 1]
      BY <2>2
    <3> QED
      BY <1>2, <1>3, <3>1, <3>2
  <2> HIDE DEF T
  <2>3. \A n \in 0 .. N : n \in T
    BY <1>1, <2>1, <2>2, Induction
  <2> QED
    BY <2>3 DEF T
<1>5. g[N] = f[N] /\ N + 1 \in 1 .. N + 1 /\ N + 1 - 1 = N
  BY <1>1, <1>4
<1>6. g[N + 1] = Keep(f[N], c, S)
  BY <1>1, <1>3, <1>5
<1>7. f[N] \in Seq(Int)
  BY <1>1, <1>2
<1> QED
  BY <1>2, <1>3, <1>6, <1>7 DEF t

LEMMA Associative ==
  ASSUME NEW s \in Seq(Int), NEW t \in Seq(Int), NEW u \in Seq(Int)
  PROVE  (s \o t) \o u = s \o (t \o u)
  BY ConcatAssociative

LEMMA Joined ==
  ASSUME NEW s \in Seq(Int), NEW t \in Seq(Int)
  PROVE  s \o t \in Seq(Int) /\ s \o <<>> = s /\ <<>> \o s = s
  BY ConcatProperties, ConcatEmptySeq

LEMMA AppendJoined ==
  ASSUME NEW s \in Seq(Int), NEW t \in Seq(Int), NEW c \in Int
  PROVE  /\ s \o Append(t, c) = Append(s \o t, c)
         /\ Append(t, c) = t \o <<c>> /\ Append(t, c) \in Seq(Int) /\ <<c>> \in Seq(Int)
<1>1. <<c>> \in Seq(Int) /\ s \o t \in Seq(Int)
  BY Joined
<1>2. Append(t, c) = t \o <<c>> /\ Append(s \o t, c) = (s \o t) \o <<c>>
  BY <1>1, AppendIsConcat
<1>3. (s \o t) \o <<c>> = s \o (t \o <<c>>)
  BY <1>1, Associative
<1>4. Append(t, c) \in Seq(Int)
  BY AppendProperties
<1> QED
  BY <1>1, <1>2, <1>3, <1>4

\* Only of two sequences in a row.
LEMMA OnlyJoined ==
  ASSUME NEW S, NEW s \in Seq(Int)
  PROVE  \A t \in Seq(Int) : Only(s \o t, S) = Only(s, S) \o Only(t, S)
<1> DEFINE P == {t \in Seq(Int) : Only(s \o t, S) = Only(s, S) \o Only(t, S)}
<1>1. <<>> \in P
  <2>1. Only(s, S) \in Seq(Int) /\ <<>> \in Seq(Int)
    BY OnlyAppend, EmptySeq
  <2>2. s \o <<>> = s /\ Only(s, S) \o <<>> = Only(s, S)
    BY <2>1, Joined
  <2> QED
    BY <2>1, <2>2, OnlyEmpty
<1>2. ASSUME NEW t \in Seq(Int), NEW c \in Int, t \in P PROVE Append(t, c) \in P
  <2>1. s \o t \in Seq(Int) /\ Append(t, c) \in Seq(Int) /\ s \o Append(t, c) = Append(s \o t, c)
    BY Joined, AppendJoined
  <2>2. Only(Append(s \o t, c), S) = Keep(Only(s \o t, S), c, S)
    BY <2>1, OnlyAppend
  <2>3. /\ Only(Append(t, c), S) = Keep(Only(t, S), c, S) /\ Only(t, S) \in Seq(Int)
        /\ Only(s, S) \in Seq(Int)
    BY OnlyAppend
  <2>4. Only(s \o t, S) = Only(s, S) \o Only(t, S)
    BY <1>2
  <2>5. Only(s, S) \o Append(Only(t, S), c) = Append(Only(s, S) \o Only(t, S), c)
    BY <2>3, AppendJoined
  <2>6. Keep(Only(s \o t, S), c, S) = Only(s, S) \o Keep(Only(t, S), c, S)
    BY <2>4, <2>5 DEF Keep
  <2> QED
    BY <2>1, <2>2, <2>3, <2>6
<1> HIDE DEF P
<1>3. Seq(Int) \subseteq P
  BY <1>1, <1>2, SeqInduction
<1> QED
  BY <1>3 DEF P

\* Only twice, with the wider set first.
LEMMA OnlyTwice ==
  ASSUME NEW S, NEW W, S \subseteq W
  PROVE  \A t \in Seq(Int) : Only(Only(t, W), S) = Only(t, S)
<1> DEFINE P == {t \in Seq(Int) : Only(Only(t, W), S) = Only(t, S)}
<1>1. <<>> \in P
  BY OnlyEmpty, EmptySeq
<1>2. ASSUME NEW t \in Seq(Int), NEW c \in Int, t \in P PROVE Append(t, c) \in P
  <2>1. /\ Only(t, W) \in Seq(Int) /\ Only(Append(t, c), W) = Keep(Only(t, W), c, W)
        /\ Only(Append(t, c), S) = Keep(Only(t, S), c, S)
    BY OnlyAppend
  <2>2. Only(Append(Only(t, W), c), S) = Keep(Only(Only(t, W), S), c, S)
    BY <2>1, OnlyAppend
  <2>3. Append(t, c) \in Seq(Int) /\ Only(Only(t, W), S) = Only(t, S)
    BY <1>2, AppendJoined
  <2>4. CASE c \in W
    BY <2>1, <2>2, <2>3, <2>4 DEF Keep
  <2>5. CASE c \notin W
    BY <2>1, <2>3, <2>5 DEF Keep
  <2> QED
    BY <2>4, <2>5
<1> HIDE DEF P
<1>3. Seq(Int) \subseteq P
  BY <1>1, <1>2, SeqInduction
<1> QED
  BY <1>3 DEF P

\* A sequence over the set is kept as it is.
LEMMA OnlyAll ==
  ASSUME NEW S, S \subseteq Int
  PROVE  \A t \in Seq(S) : Only(t, S) = t
<1> DEFINE P == {t \in Seq(Int) : Only(t, S) = t}
<1>1. <<>> \in P
  BY OnlyEmpty, EmptySeq
<1>2. ASSUME NEW t \in Seq(S), NEW c \in S, t \in P PROVE Append(t, c) \in P
  <2>1. t \in Seq(Int) /\ c \in Int /\ Only(t, S) = t
    BY <1>2
  <2>2. Only(Append(t, c), S) = Keep(Only(t, S), c, S) /\ Append(t, c) \in Seq(Int)
    BY <2>1, OnlyAppend, AppendJoined
  <2> QED
    BY <2>1, <2>2 DEF Keep
<1> HIDE DEF P
<1>3. Seq(S) \subseteq P
  BY <1>1, <1>2, SeqInduction
<1> QED
  BY <1>3 DEF P

\* What is left is over the set.
LEMMA OnlyOf ==
  ASSUME NEW S, S \subseteq Int
  PROVE  \A t \in Seq(Int) : Only(t, S) \in Seq(S)
<1> DEFINE P == {t \in Seq(Int) : Only(t, S) \in Seq(S)}
<1>1. <<>> \in P
  BY OnlyEmpty, EmptySeq
<1>2. ASSUME NEW t \in Seq(Int), NEW c \in Int, t \in P PROVE Append(t, c) \in P
  <2>1. Only(Append(t, c), S) = Keep(Only(t, S), c, S) /\ Append(t, c) \in Seq(Int)
    BY OnlyAppend, AppendJoined
  <2>2. Keep(Only(t, S), c, S) \in Seq(S)
    BY <1>2, AppendProperties DEF Keep
  <2> QED
    BY <2>1, <2>2
<1> HIDE DEF P
<1>3. Seq(Int) \subseteq P
  BY <1>1, <1>2, SeqInduction
<1> QED
  BY <1>3 DEF P

-----------------------------------------------------------------------------
(* Letters and line endings                                                *)

LEMMA Lasts ==
  ASSUME NEW a, NEW b
  PROVE  <<>> \o <<a>> = <<a>> /\ <<a>> \o <<b>> = <<a, b>>
<1> DEFINE S == {a, b}
           s == <<a>>
           t == <<b>>
           u == <<a, b>>
           c == s \o t
<1>1. /\ s \in Seq(S) /\ t \in Seq(S) /\ u \in Seq(S) /\ Len(s) = 1 /\ Len(t) = 1 /\ Len(u) = 2
      /\ s[1] = a /\ t[1] = b /\ u[1] = a /\ u[2] = b
  OBVIOUS
<1> HIDE DEF S, s, t, u
<1>2. <<>> \o s = s
  BY <1>1, ConcatEmptySeq
<1>3. c \in Seq(S) /\ Len(c) = 2 /\ c[1] = a /\ c[2] = b
  <2>1. /\ c \in Seq(S) /\ Len(c) = Len(s) + Len(t)
        /\ \A i \in 1 .. Len(s) + Len(t) : c[i] = IF i <= Len(s) THEN s[i] ELSE t[i - Len(s)]
    BY <1>1, ConcatProperties
  <2> QED
    BY <1>1, <2>1
<1> HIDE DEF c
<1>4. \A i \in 1 .. Len(c) : c[i] = u[i]
  BY <1>1, <1>3
<1>5. c = u
  BY <1>1, <1>3, <1>4, SeqEqual
<1> QED
  BY <1>2, <1>5 DEF c, s, t, u

Chars == Alphabet \cup {NL, CR}

Visible == Alphabet \cup {NL}

LEMMA CodesAre ==
  /\ Alphabet \subseteq Int /\ Chars \subseteq Int /\ Visible \subseteq Int
  /\ Alphabet \subseteq Visible /\ Alphabet \subseteq Chars /\ Visible \subseteq Chars
  /\ NL \in Int /\ CR \in Int /\ ERROR \in Int /\ FLUSH \in Int /\ COUNT \in Nat
  /\ NL \notin Alphabet /\ CR \notin Alphabet /\ ERROR \notin Alphabet /\ FLUSH \notin Alphabet
  /\ NL \in Visible /\ CR \notin Visible /\ NL # CR /\ NL \in Chars /\ CR \in Chars
  /\ \A n \in Nat : COUNT + n \in Int /\ COUNT + n \notin Alphabet
  BY DEF Alphabet, Chars, Visible, NL, CR, ERROR, FLUSH, COUNT

\* A sequence of letters, or of what is printed, is one of integers.
LEMMA Widened ==
  /\ \A s \in Seq(Alphabet) : s \in Seq(Int) /\ s \in Seq(Chars)
  /\ \A s \in Seq(Chars) : s \in Seq(Int)
  /\ \A s \in Seq(Visible) : s \in Seq(Int)
  BY CodesAre, SeqMonotonic

LEMMA LettersAre ==
  /\ \A s \in Seq(Int) : LettersOf(s) \in Seq(Alphabet) /\ LettersOf(s) \in Seq(Int)
  /\ \A s \in Seq(Alphabet) : LettersOf(s) = s
  /\ \A s, t \in Seq(Int) : LettersOf(s \o t) = LettersOf(s) \o LettersOf(t)
  /\ \A s \in Seq(Int), c \in Int : LettersOf(Append(s, c)) = Keep(LettersOf(s), c, Alphabet)
  /\ LettersOf(<<>>) = <<>>
<1>1. \A s \in Seq(Int) : LettersOf(s) \in Seq(Alphabet) /\ LettersOf(s) \in Seq(Int)
  BY CodesAre, OnlyOf, Widened DEF LettersOf
<1>2. \A s \in Seq(Alphabet) : LettersOf(s) = s
  BY CodesAre, OnlyAll DEF LettersOf
<1>3. \A s, t \in Seq(Int) : LettersOf(s \o t) = LettersOf(s) \o LettersOf(t)
  BY OnlyJoined DEF LettersOf
<1>4. \A s \in Seq(Int), c \in Int : LettersOf(Append(s, c)) = Keep(LettersOf(s), c, Alphabet)
  BY OnlyAppend DEF LettersOf
<1>5. LettersOf(<<>>) = <<>>
  BY OnlyEmpty DEF LettersOf
<1> QED
  BY <1>1, <1>2, <1>3, <1>4, <1>5

\* A single item, and what it adds to the letters of what is before it.
LEMMA OneItem ==
  ASSUME NEW c \in Int
  PROVE  /\ <<c>> \in Seq(Int) /\ LettersOf(<<c>>) = IF c \in Alphabet THEN <<c>> ELSE <<>>
         /\ \A s \in Seq(Int) : c \notin Alphabet => LettersOf(s \o <<c>>) = LettersOf(s)
<1>1. <<>> \in Seq(Int) /\ <<c>> \in Seq(Int)
  BY EmptySeq
<1>2. Append(<<>>, c) = <<c>>
  OBVIOUS
<1>3. LettersOf(<<c>>) = Keep(<<>>, c, Alphabet)
  <2>1. LettersOf(Append(<<>>, c)) = Keep(LettersOf(<<>>), c, Alphabet)
    BY <1>1, LettersAre
  <2> QED
    BY <1>2, <2>1, LettersAre
<1>4. LettersOf(<<c>>) = IF c \in Alphabet THEN <<c>> ELSE <<>>
  BY <1>2, <1>3 DEF Keep
<1>5. ASSUME NEW s \in Seq(Int), c \notin Alphabet PROVE LettersOf(s \o <<c>>) = LettersOf(s)
  <2>1. LettersOf(s \o <<c>>) = LettersOf(s) \o LettersOf(<<c>>) /\ LettersOf(s) \in Seq(Int)
    BY <1>1, LettersAre
  <2>2. LettersOf(s \o <<c>>) = LettersOf(s) \o <<>>
    BY <1>4, <1>5, <2>1
  <2> QED
    BY <2>1, <2>2, Joined
<1> QED
  BY <1>1, <1>4, <1>5

LEMMA TwoItems ==
  ASSUME NEW c \in Int, NEW d \in Int, c \notin Alphabet, d \notin Alphabet, NEW s \in Seq(Int)
  PROVE  /\ <<c, d>> \in Seq(Int) /\ s \o <<c, d>> \in Seq(Int)
         /\ LettersOf(s \o <<c, d>>) = LettersOf(s)
<1>1. <<c>> \in Seq(Int) /\ <<d>> \in Seq(Int) /\ <<c, d>> \in Seq(Int)
  BY OneItem
<1>2. <<c, d>> = <<c>> \o <<d>>
  BY Lasts
<1>3. s \o <<c, d>> = (s \o <<c>>) \o <<d>> /\ s \o <<c>> \in Seq(Int)
  BY <1>1, <1>2, Associative, Joined
<1>4. LettersOf(s \o <<c, d>>) = LettersOf(s \o <<c>>)
  BY <1>3, OneItem
<1>5. LettersOf(s \o <<c>>) = LettersOf(s)
  BY OneItem
<1>6. s \o <<c, d>> \in Seq(Int)
  BY <1>1, Joined
<1> QED
  BY <1>1, <1>4, <1>5, <1>6

-----------------------------------------------------------------------------
(* Where a line ends                                                       *)

Rests(d) == d # <<>> => Last(d) \in {NL, ERROR}

LEMMA RestsIs ==
  /\ Rests(<<>>)
  /\ \A d \in Seq(Int), c \in {NL, ERROR} : Rests(Append(d, c)) /\ Append(d, c) # <<>>
<1>1. Rests(<<>>)
  BY DEF Rests
<1>2. ASSUME NEW d \in Seq(Int), NEW c \in {NL, ERROR} PROVE Rests(Append(d, c)) /\ Append(d, c) # <<>>
  <2>1. c \in Int
    BY CodesAre
  <2>2. Append(d, c) # <<>> /\ Len(Append(d, c)) = Len(d) + 1 /\ Append(d, c)[Len(d) + 1] = c
    BY <2>1, AppendProperties
  <2>3. Last(Append(d, c)) = c
    BY <2>2 DEF Last
  <2> QED
    BY <2>2, <2>3 DEF Rests
<1> QED
  BY <1>1, <1>2

LEMMA RestsJoined ==
  ASSUME NEW d \in Seq(Int), NEW u \in Seq(Int), Rests(u)
  PROVE  (u # <<>> \/ Rests(d)) => Rests(d \o u)
<1>1. CASE u = <<>>
  <2>1. d \o u = d
    BY <1>1, Joined
  <2> QED
    BY <1>1, <2>1
<1>2. CASE u # <<>>
  <2>1. /\ Len(d \o u) = Len(d) + Len(u) /\ Len(d) \in Nat /\ Len(u) \in Nat \ {0}
        /\ \A i \in 1 .. Len(d) + Len(u) :
             (d \o u)[i] = IF i <= Len(d) THEN d[i] ELSE u[i - Len(d)]
    BY <1>2, ConcatProperties, EmptySeq, LenProperties
  <2>2. Len(d) + Len(u) \in 1 .. Len(d) + Len(u) /\ ~(Len(d) + Len(u) <= Len(d))
        /\ Len(d) + Len(u) - Len(d) = Len(u)
    BY <2>1
  <2>3. (d \o u)[Len(d \o u)] = u[Len(u)]
    BY <2>1, <2>2
  <2> QED
    BY <1>2, <2>3 DEF Rests, Last
<1> QED
  BY <1>1, <1>2

\* Every letter of s is followed by a line ending.
Ended(s) == \A i \in 1 .. Len(s) : s[i] \in Alphabet => \E j \in i .. Len(s) : s[j] = NL

LEMMA EndedAppend ==
  ASSUME NEW s \in Seq(Chars), NEW c \in Chars, Ended(Append(s, c))
  PROVE  c \notin Alphabet /\ (c # NL => Ended(s))
<1> DEFINE t == Append(s, c)
<1>1. /\ Len(t) = Len(s) + 1 /\ Len(s) \in Nat /\ t[Len(s) + 1] = c
      /\ \A i \in 1 .. Len(s) : t[i] = s[i]
  BY AppendProperties, LenProperties
<1>2. Ended(t)
  OBVIOUS
<1> HIDE DEF t
<1>3. ASSUME c \in Alphabet PROVE FALSE
  <2>1. Len(t) \in 1 .. Len(t) /\ t[Len(t)] \in Alphabet
    BY <1>1, <1>3
  <2>2. PICK j \in Len(t) .. Len(t) : t[j] = NL
    BY <1>2, <2>1 DEF Ended
  <2>3. t[Len(t)] = NL
    BY <1>1, <2>2
  <2> QED
    BY <2>1, <2>3, CodesAre
<1>4. ASSUME c # NL PROVE Ended(s)
  <2> SUFFICES ASSUME NEW i \in 1 .. Len(s), s[i] \in Alphabet
               PROVE  \E j \in i .. Len(s) : s[j] = NL
    BY DEF Ended
  <2>1. i \in 1 .. Len(t) /\ t[i] \in Alphabet
    BY <1>1
  <2>2. PICK j \in i .. Len(t) : t[j] = NL
    BY <1>2, <2>1 DEF Ended
  <2>3. j # Len(s) + 1
    BY <1>1, <1>4, <2>2
  <2>4. j \in i .. Len(s) /\ j \in 1 .. Len(s)
    BY <1>1, <2>2, <2>3
  <2> QED
    BY <1>1, <2>2, <2>4
<1> QED
  BY <1>3, <1>4

LEMMA EndedIs == \A s \in Seq(Chars) : Ended(s) => Rests(Only(s, Visible))
<1> DEFINE P == {s \in Seq(Chars) : Ended(s) => Rests(Only(s, Visible))}
<1>1. <<>> \in P
  BY OnlyEmpty, RestsIs, EmptySeq
<1>2. ASSUME NEW s \in Seq(Chars), NEW c \in Chars, s \in P PROVE Append(s, c) \in P
  <2> DEFINE t == Append(s, c)
  <2>1. t \in Seq(Chars)
    BY AppendProperties
  <2>2. s \in Seq(Int) /\ c \in Int /\ Only(s, Visible) \in Seq(Int)
    BY Widened, CodesAre, OnlyAppend
  <2>3. Only(t, Visible) = Keep(Only(s, Visible), c, Visible)
    BY <2>2, OnlyAppend
  <2>4. Ended(t) => c \notin Alphabet /\ (c # NL => Ended(s))
    BY EndedAppend
  <2> HIDE DEF t
  <2>5. SUFFICES ASSUME Ended(t) PROVE Rests(Only(t, Visible))
    BY <2>1 DEF t
  <2>6. CASE c = NL
    BY <2>2, <2>3, <2>6, RestsIs, CodesAre DEF Keep
  <2>7. CASE c = CR
    <3>1. Ended(s)
      BY <2>4, <2>5, <2>7, CodesAre
    <3>2. Rests(Only(s, Visible))
      BY <1>2, <3>1
    <3> QED
      BY <2>3, <2>7, <3>2, CodesAre DEF Keep
  <2> QED
    BY <2>4, <2>5, <2>6, <2>7 DEF Chars
<1> HIDE DEF P
<1>3. Seq(Chars) \subseteq P
  BY <1>1, <1>2, SeqInduction
<1> QED
  BY <1>3 DEF P

\* A line ending in s is not left out.
LEMMA NotEmpty == \A s \in Seq(Chars) : NL \in ToSet(s) => Only(s, Visible) # <<>>
<1> DEFINE P == {s \in Seq(Chars) : (\E i \in 1 .. Len(s) : s[i] = NL) => Only(s, Visible) # <<>>}
<1>1. <<>> \in P
  BY EmptySeq
<1>2. ASSUME NEW s \in Seq(Chars), NEW c \in Chars, s \in P PROVE Append(s, c) \in P
  <2> DEFINE t == Append(s, c)
  <2>1. /\ t \in Seq(Chars) /\ Len(t) = Len(s) + 1 /\ Len(s) \in Nat /\ t[Len(s) + 1] = c
        /\ \A i \in 1 .. Len(s) : t[i] = s[i]
    BY AppendProperties, LenProperties
  <2>2. s \in Seq(Int) /\ c \in Int /\ Only(s, Visible) \in Seq(Int)
    BY Widened, CodesAre, OnlyAppend
  <2>3. Only(t, Visible) = Keep(Only(s, Visible), c, Visible)
    BY <2>2, OnlyAppend
  <2> HIDE DEF t
  <2>4. SUFFICES ASSUME NEW i \in 1 .. Len(t), t[i] = NL PROVE Only(t, Visible) # <<>>
    BY <2>1 DEF t
  <2>5. CASE c \in Visible
    BY <2>2, <2>3, <2>5, AppendProperties DEF Keep
  <2>6. CASE c \notin Visible
    <3>1. c # NL
      BY <2>6, CodesAre
    <3>2. i # Len(s) + 1
      BY <2>1, <2>4, <3>1
    <3>3. i \in 1 .. Len(s) /\ s[i] = NL
      BY <2>1, <2>4, <3>2
    <3>4. Only(s, Visible) # <<>>
      BY <1>2, <3>3
    <3> QED
      BY <2>3, <2>6, <3>4 DEF Keep
  <2> QED
    BY <2>5, <2>6
<1> HIDE DEF P
<1>3. Seq(Chars) \subseteq P
  BY <1>1, <1>2, SeqInduction
<1>4. \A s \in Seq(Chars) : ToSet(s) = {s[i] : i \in 1 .. Len(s)}
  BY LenProperties DEF ToSet
<1> QED
  BY <1>3, <1>4 DEF P

-----------------------------------------------------------------------------
(* What the parts of the output path do                                    *)

Filters == [type : FilterTypes, count : Nat, begun : BOOLEAN]

Outputs == [buf : Seq(Alphabet), open : BOOLEAN, filter : Filters, delivered : Seq(Int)]

\* The letters that have been delivered and those that are still collected.
Text(o) == LettersOf(o.delivered) \o o.buf

\* What follows o is on a fresh line, once a line that is open is ended.
Tidy(o) == o.open \/ Rests(o.delivered)

\* p is o after the text t.
Takes(o, p, t) ==
  /\ p \in Outputs /\ p.filter.type = o.filter.type
  /\ o.filter.type = "none" => Text(p) = Text(o) \o t

LEMMA OutputIs ==
  ASSUME NEW o \in Outputs
  PROVE  /\ o.buf \in Seq(Alphabet) /\ o.buf \in Seq(Int) /\ o.open \in BOOLEAN /\ o.filter \in Filters
         /\ o.delivered \in Seq(Int) /\ LettersOf(o.delivered) \in Seq(Int) /\ Text(o) \in Seq(Int)
<1>1. o.buf \in Seq(Alphabet) /\ o.open \in BOOLEAN /\ o.filter \in Filters /\ o.delivered \in Seq(Int)
  BY DEF Outputs
<1>2. o.buf \in Seq(Int) /\ LettersOf(o.delivered) \in Seq(Int)
  BY <1>1, Widened, LettersAre
<1> QED
  BY <1>1, <1>2, Joined DEF Text

LEMMA TakesTwice ==
  ASSUME NEW o \in Outputs, NEW p, NEW q, NEW t \in Seq(Int), NEW u \in Seq(Int),
         Takes(o, p, t), Takes(p, q, u)
  PROVE  Takes(o, q, t \o u)
<1>1. q \in Outputs /\ q.filter.type = o.filter.type
  BY DEF Takes
<1>2. ASSUME o.filter.type = "none" PROVE Text(q) = Text(o) \o (t \o u)
  <2>1. Text(p) = Text(o) \o t /\ Text(q) = Text(p) \o u
    BY <1>2 DEF Takes
  <2>2. Text(o) \in Seq(Int)
    BY OutputIs
  <2>3. (Text(o) \o t) \o u = Text(o) \o (t \o u)
    BY <2>2, Associative
  <2> QED
    BY <2>1, <2>3
<1> QED
  BY <1>1, <1>2 DEF Takes

LEMMA JudgedIs ==
  ASSUME NEW f \in Filters, NEW line
  PROVE  /\ Judged(f, line) \in Filters /\ Judged(f, line).type = f.type
<1>1. /\ f.type \in FilterTypes /\ f.count \in Nat /\ f.begun \in BOOLEAN
      /\ f = [type |-> f.type, count |-> f.count, begun |-> f.begun]
  BY DEF Filters
<1>2. Passes(f, line) \in BOOLEAN
  BY DEF Passes
<1>3. CASE f.type = "begin"
  <2>1. Judged(f, line) = [f EXCEPT !.begun = Passes(f, line)]
    BY <1>3 DEF Judged
  <2> QED
    BY <1>1, <1>2, <1>3, <2>1 DEF Filters
<1>4. CASE f.type = "count" /\ f.count < MaxCount
  <2>1. Judged(f, line) = [f EXCEPT !.count = @ + 1]
    BY <1>4 DEF Judged
  <2> QED
    BY <1>1, <1>2, <1>4, <2>1 DEF Filters
<1>5. CASE f.type # "begin" /\ ~(f.type = "count" /\ f.count < MaxCount)
  <2>1. Judged(f, line) = f
    BY <1>5 DEF Judged
  <2> QED
    BY <2>1
<1> QED
  BY <1>3, <1>4, <1>5

LEMMA DeliverIs ==
  ASSUME NEW o \in Outputs, NEW s \in Seq(Int)
  PROVE  /\ Deliver(o, s) \in Outputs /\ Deliver(o, s).delivered = o.delivered \o s
         /\ Deliver(o, s).buf = o.buf /\ Deliver(o, s).open = o.open /\ Deliver(o, s).filter = o.filter
<1>1. o.delivered \o s \in Seq(Int)
  BY OutputIs, Joined
<1> QED
  BY <1>1 DEF Deliver, Outputs

LEMMA EmitIs ==
  ASSUME NEW o \in Outputs
  PROVE  /\ Takes(o, Emit(o), <<>>) /\ Emit(o).buf = <<>> /\ Emit(o).open = o.open
         /\ Rests(o.delivered) => Rests(Emit(o).delivered)
<1> DEFINE line == o.buf
           f == Judged(o.filter, line)
           e == [o EXCEPT !.buf = <<>>, !.filter = f]
           l == Append(line, NL)
<1>1. /\ line \in Seq(Alphabet) /\ line \in Seq(Int) /\ o.delivered \in Seq(Int) /\ o.filter \in Filters
      /\ LettersOf(o.delivered) \in Seq(Int) /\ Text(o) \in Seq(Int)
  BY OutputIs
<1>2. /\ f \in Filters /\ f.type = o.filter.type
      /\ o.filter.type = "none" => Passes(o.filter, line)
  <2>1. f \in Filters /\ f.type = o.filter.type
    BY <1>1, JudgedIs
  <2>2. o.filter.type = "none" => Passes(o.filter, line)
    BY DEF Passes
  <2> QED
    BY <2>1, <2>2
<1>3. l \in Seq(Int) /\ Rests(l) /\ l # <<>>
  BY <1>1, RestsIs, AppendProperties, CodesAre
<1>4. LettersOf(l) = line
  <2>1. LettersOf(l) = Keep(LettersOf(line), NL, Alphabet)
    BY <1>1, LettersAre, CodesAre
  <2> QED
    BY <1>1, <2>1, LettersAre, CodesAre DEF Keep
<1>5. Emit(o) = IF Passes(o.filter, line) THEN Deliver(e, l) ELSE e
  BY DEF Emit
<1> HIDE DEF f, l
<1>6. /\ e \in Outputs /\ e.buf = <<>> /\ e.filter = f /\ e.open = o.open
      /\ e.delivered = o.delivered
  BY <1>2, EmptySeq DEF Outputs
<1> HIDE DEF e, line
<1>7. CASE Passes(o.filter, line)
  <2>1. /\ Emit(o) \in Outputs /\ Emit(o).delivered = o.delivered \o l
        /\ Emit(o).buf = <<>> /\ Emit(o).open = o.open /\ Emit(o).filter = f
    BY <1>3, <1>5, <1>6, <1>7, DeliverIs
  <2>2. Rests(Emit(o).delivered)
    BY <1>1, <1>3, <2>1, RestsJoined
  <2>3. Text(Emit(o)) = Text(o)
    <3>1. LettersOf(o.delivered \o l) = LettersOf(o.delivered) \o line
      BY <1>1, <1>3, <1>4, LettersAre
    <3>2. Text(Emit(o)) = LettersOf(o.delivered \o l) \o <<>>
      BY <2>1 DEF Text
    <3>3. Text(o) = LettersOf(o.delivered) \o line
      BY DEF Text, line
    <3> QED
      BY <1>1, <3>1, <3>2, <3>3, Joined
  <2>4. Text(o) \o <<>> = Text(o)
    BY <1>1, Joined
  <2> QED
    BY <1>2, <2>1, <2>2, <2>3, <2>4 DEF Takes
<1>8. CASE ~Passes(o.filter, line)
  BY <1>2, <1>5, <1>6, <1>8 DEF Takes
<1> QED
  BY <1>2, <1>7, <1>8

\* p is o after the text t, and its last line is no less ended.
Adds(o, p, t) ==
  /\ Takes(o, p, t) /\ p.open = o.open
  /\ Rests(o.delivered) => Rests(p.delivered)

LEMMA SameIs ==
  ASSUME NEW o \in Outputs
  PROVE  Adds(o, o, <<>>)
<1>1. Text(o) \o <<>> = Text(o)
  BY OutputIs, Joined
<1> QED
  BY <1>1 DEF Adds, Takes

LEMMA AddsTwice ==
  ASSUME NEW o \in Outputs, NEW p, NEW q, NEW t \in Seq(Int), NEW u \in Seq(Int),
         Adds(o, p, t), Adds(p, q, u)
  PROVE  Adds(o, q, t \o u)
<1>1. Takes(o, q, t \o u)
  BY TakesTwice DEF Adds
<1> QED
  BY <1>1 DEF Adds

LEMMA EmitAdds ==
  ASSUME NEW o \in Outputs
  PROVE  Adds(o, Emit(o), <<>>) /\ Emit(o).buf = <<>> /\ Emit(o) \in Outputs
<1>1. /\ Takes(o, Emit(o), <<>>) /\ Emit(o).buf = <<>> /\ Emit(o).open = o.open
      /\ Rests(o.delivered) => Rests(Emit(o).delivered)
  BY EmitIs
<1> QED
  BY <1>1 DEF Adds, Takes

LEMMA EmitPartialIs ==
  ASSUME NEW o \in Outputs
  PROVE  Adds(o, EmitPartial(o), <<>>) /\ EmitPartial(o).buf = <<>> /\ EmitPartial(o) \in Outputs
<1>1. CASE o.buf # <<>>
  BY <1>1, EmitAdds DEF EmitPartial
<1>2. CASE o.buf = <<>>
  BY <1>2, SameIs DEF EmitPartial
<1> QED
  BY <1>1, <1>2

\* A character that is collected.
LEMMA CollectIs ==
  ASSUME NEW o \in Outputs, NEW c \in Chars
  PROVE  Collect(o, c) \in Outputs /\ Adds(o, Collect(o, c), LettersOf(<<c>>))
<1>1. c \in Int /\ LettersOf(<<c>>) = IF c \in Alphabet THEN <<c>> ELSE <<>>
  BY CodesAre, OneItem
<1>2. CASE c = NL
  BY <1>1, <1>2, EmitAdds, CodesAre DEF Collect
<1>3. CASE c = CR
  <2>1. Collect(o, c) = o
    BY <1>3, CodesAre DEF Collect
  <2> QED
    BY <1>1, <1>3, <2>1, SameIs, CodesAre
<1>4. CASE c \in Alphabet
  <2> DEFINE room == IF Len(o.buf) >= MaxLine THEN Emit(o) ELSE o
             p == [room EXCEPT !.buf = Append(@, c)]
  <2>1. room \in Outputs /\ Adds(o, room, <<>>)
    BY EmitAdds, SameIs
  <2>2. Collect(o, c) = p
    BY <1>4, CodesAre DEF Collect
  <2> HIDE DEF room
  <2>3. room.buf \in Seq(Alphabet) /\ room.buf \in Seq(Int) /\ LettersOf(room.delivered) \in Seq(Int)
    BY <2>1, OutputIs
  <2>4. /\ p \in Outputs /\ p.buf = Append(room.buf, c) /\ p.open = room.open
        /\ p.filter = room.filter /\ p.delivered = room.delivered
    <3>1. Append(room.buf, c) \in Seq(Alphabet)
      BY <1>4, <2>3, AppendProperties
    <3> QED
      BY <2>1, <3>1 DEF Outputs
  <2> HIDE DEF p
  <2>5. Text(p) = Text(room) \o <<c>>
    <3>1. Append(room.buf, c) = room.buf \o <<c>> /\ <<c>> \in Seq(Int)
      BY <1>1, <2>3, AppendJoined
    <3>2. (LettersOf(room.delivered) \o room.buf) \o <<c>>
            = LettersOf(room.delivered) \o (room.buf \o <<c>>)
      BY <2>3, <3>1, Associative
    <3> QED
      BY <2>4, <3>1, <3>2 DEF Text
  <2>6. Adds(room, p, <<c>>)
    BY <2>4, <2>5 DEF Adds, Takes
  <2>7. <<c>> \in Seq(Int) /\ <<>> \o <<c>> = <<c>> /\ <<>> \in Seq(Int)
    BY <1>1, OneItem, Lasts, EmptySeq
  <2>8. Adds(o, p, <<>> \o <<c>>)
    BY <2>1, <2>6, <2>7, AddsTwice
  <2> QED
    BY <1>1, <1>4, <2>2, <2>4, <2>7, <2>8
<1> QED
  BY <1>2, <1>3, <1>4 DEF Chars

LEMMA CollectedIs ==
  ASSUME NEW o \in Outputs, NEW s \in Seq(Chars)
  PROVE  \E f : /\ f \in [0 .. Len(s) -> Outputs] /\ f[0] = o
                /\ \A i \in 1 .. Len(s) : f[i] = Collect(f[i - 1], s[i])
                /\ CollectAll(o, s) = f[Len(s)]
<1> DEFINE N == Len(s)
           step == [i \in 1 .. N |-> [p \in Outputs |-> Collect(p, s[i])]]
           Eq(f) == f = [i \in 0 .. N |-> IF i = 0 THEN o ELSE Collect(f[i - 1], s[i])]
<1>1. N \in Nat /\ \A i \in 1 .. N : s[i] \in Chars
  BY LenProperties, ElementOfSeq
<1>2. CollectAll(o, s) = (CHOOSE f : Eq(f))[N]
  BY DEF CollectAll
<1>3. \A p \in Outputs, c \in Chars : Collect(p, c) \in Outputs
  BY CollectIs
<1>4. Steps(step, N, Outputs)
  <2>1. \A i \in 1 .. N, p \in Outputs : Collect(p, s[i]) \in Outputs
    BY <1>1, <1>3
  <2> QED
    BY <2>1 DEF Steps
<1>5. \A i \in 1 .. N, p \in Outputs : step[i][p] = Collect(p, s[i])
  OBVIOUS
<1> HIDE DEF step, N
<1>6. PICK f : Built(f, N, Outputs, o, step)
  BY <1>1, <1>4, Recursion
<1>7. Eq(f)
  <2>1. /\ f \in [0 .. N -> Outputs] /\ f[0] = o
        /\ \A i \in 1 .. N : f[i] = step[i][f[i - 1]]
    BY <1>6 DEF Built
  <2>2. \A i \in 1 .. N : f[i - 1] \in Outputs
    BY <1>1, <2>1
  <2>3. \A i \in 1 .. N : f[i] = Collect(f[i - 1], s[i])
    BY <1>5, <2>1, <2>2
  <2>4. f = [i \in 0 .. N |-> f[i]]
    BY <2>1
  <2>5. \A i \in 0 .. N : f[i] = IF i = 0 THEN o ELSE Collect(f[i - 1], s[i])
    BY <1>1, <2>1, <2>3
  <2> QED
    BY <2>4, <2>5
<1> HIDE DEF Eq
<1>8. PICK g : Eq(g) /\ CollectAll(o, s) = g[N]
  BY <1>2, <1>7
<1>9. g[0] = o /\ \A i \in 1 .. N : g[i] = Collect(g[i - 1], s[i])
  <2>1. \A i \in 0 .. N : g[i] = IF i = 0 THEN o ELSE Collect(g[i - 1], s[i])
    BY <1>8 DEF Eq
  <2> QED
    BY <1>1, <2>1
<1>10. \A n \in 0 .. N : g[n] \in Outputs
  <2> DEFINE T == {n \in 0 .. N : g[n] \in Outputs}
  <2>1. 0 \in T
    BY <1>1, <1>9
  <2>2. ASSUME NEW n \in 1 .. N, n - 1 \in T PROVE n \in T
    BY <1>1, <1>3, <1>9, <2>2
  <2> HIDE DEF T
  <2>3. \A n \in 0 .. N : n \in T
    BY <1>1, <2>1, <2>2, Induction
  <2> QED
    BY <2>3 DEF T
<1>11. g \in [0 .. N -> Outputs]
  BY <1>8, <1>10 DEF Eq
<1> QED
  BY <1>8, <1>9, <1>11 DEF N

\* A text that is collected.
LEMMA CollectAllIs ==
  ASSUME NEW o \in Outputs, NEW s \in Seq(Chars)
  PROVE  CollectAll(o, s) \in Outputs /\ Adds(o, CollectAll(o, s), LettersOf(s))
<1> DEFINE N == Len(s)
<1>1. /\ N \in Nat /\ s \in Seq(Int)
      /\ \A i \in 1 .. N : s[i] \in Chars /\ s[i] \in Int
  BY LenProperties, ElementOfSeq, Widened, CodesAre
<1>2. PICK f : /\ f \in [0 .. N -> Outputs] /\ f[0] = o
               /\ \A i \in 1 .. N : f[i] = Collect(f[i - 1], s[i])
               /\ CollectAll(o, s) = f[N]
  BY CollectedIs
<1>3. \A n \in 0 .. N : SubSeq(s, 1, n) \in Seq(Int)
  BY <1>1, SubSeqProperties
<1> HIDE DEF N
<1> DEFINE Done(n) == Adds(o, f[n], LettersOf(SubSeq(s, 1, n)))
           T == {n \in 0 .. N : Done(n)}
<1>4. 0 \in T
  <2>1. SubSeq(s, 1, 0) = <<>>
    BY SubSeqEmpty
  <2>2. LettersOf(SubSeq(s, 1, 0)) = <<>>
    BY <2>1, LettersAre
  <2>3. Done(0)
    BY <1>2, <2>2, SameIs
  <2>4. 0 \in 0 .. N
    BY <1>1
  <2> QED
    BY <2>3, <2>4
<1>5. ASSUME NEW n \in 1 .. N, n - 1 \in T PROVE n \in T
  <2>1. n \in 0 .. N /\ n - 1 \in 0 .. N /\ Done(n - 1)
    BY <1>1, <1>5
  <2>2. f[n - 1] \in Outputs /\ s[n] \in Chars /\ f[n] = Collect(f[n - 1], s[n])
    BY <1>1, <1>2, <2>1
  <2>3. Adds(f[n - 1], f[n], LettersOf(<<s[n]>>))
    BY <2>2, CollectIs
  <2>4. SubSeq(s, 1, n) = SubSeq(s, 1, n - 1) \o <<s[n]>>
    BY <1>1, SubSeqRecursiveSecond DEF N
  <2>5. SubSeq(s, 1, n - 1) \in Seq(Int) /\ <<s[n]>> \in Seq(Int)
    BY <1>1, <1>3, <2>1, OneItem
  <2>6. /\ LettersOf(SubSeq(s, 1, n)) = LettersOf(SubSeq(s, 1, n - 1)) \o LettersOf(<<s[n]>>)
        /\ LettersOf(SubSeq(s, 1, n - 1)) \in Seq(Int) /\ LettersOf(<<s[n]>>) \in Seq(Int)
    BY <2>4, <2>5, LettersAre
  <2>7. Adds(o, f[n], LettersOf(SubSeq(s, 1, n - 1)) \o LettersOf(<<s[n]>>))
    BY <2>1, <2>3, <2>6, AddsTwice
  <2> QED
    BY <2>1, <2>6, <2>7
<1> HIDE DEF T
<1>6. \A n \in 0 .. N : n \in T
  BY <1>1, <1>4, <1>5, Induction
<1>7. N \in 0 .. N /\ f[N] \in Outputs /\ SubSeq(s, 1, N) = s
  BY <1>1, <1>2, SubSeqFull DEF N
<1>8. Done(N)
  BY <1>6, <1>7 DEF T
<1> QED
  BY <1>2, <1>7, <1>8

\* No text is left behind the last line ending when s ends with a carriage return.
Settles(s) == s[Len(s)] = CR => Ended(s)

\* p is o after the text t; in a command it stays tidy if ok.
Follows(o, p, t, ok) ==
  /\ Takes(o, p, t)
  /\ InCommand /\ ok /\ Tidy(o) => Tidy(p)

LEMMA AddsFollows ==
  ASSUME NEW o \in Outputs, NEW p, NEW t, NEW ok, Adds(o, p, t)
  PROVE  Follows(o, p, t, ok)
  BY DEF Adds, Follows, Tidy

\* A text that is written straight to the terminal.
LEMMA WrittenIs ==
  ASSUME NEW o \in Outputs, NEW s \in Seq(Chars), s # <<>>
  PROVE  /\ WriteText(o, s) \in Outputs
         /\ WriteText(o, s).delivered = o.delivered \o Only(s, Visible)
         /\ WriteText(o, s).buf = o.buf /\ WriteText(o, s).filter = o.filter
         /\ WriteText(o, s).open = IF s[Len(s)] \notin {NL, CR} THEN InCommand
                                   ELSE IF NL \in ToSet(s) THEN FALSE ELSE o.open
<1> DEFINE u == Only(s, Visible)
           sent == Deliver(o, u)
           left == [sent EXCEPT !.open = InCommand]
           shut == [sent EXCEPT !.open = FALSE]
           w == WriteText(o, s)
           c == s[Len(s)]
           ended == c \in {NL, CR}
<1>1. u \in Seq(Int)
  BY Widened, OnlyAppend, CodesAre
<1>2. /\ sent \in Outputs /\ sent.delivered = o.delivered \o u /\ sent.buf = o.buf
      /\ sent.open = o.open /\ sent.filter = o.filter
  BY <1>1, DeliverIs
<1>3. w = CASE ~ended -> left
            [] ended /\ NL \in ToSet(s) -> shut
            [] OTHER -> sent
  BY DEF WriteText, Visible
<1>4. InCommand \in BOOLEAN
  BY DEF InCommand
<1> DEFINE cmd == InCommand
           no == FALSE
<1>5. cmd \in BOOLEAN /\ no \in BOOLEAN
  BY <1>4
<1> HIDE DEF u, sent, c, w
<1>6. CASE ~ended
  <2>1. w = [sent EXCEPT !.open = cmd]
    BY <1>3, <1>6
  <2> HIDE DEF cmd
  <2>2. /\ w \in Outputs /\ w.delivered = sent.delivered /\ w.buf = sent.buf
        /\ w.filter = sent.filter /\ w.open = cmd
    BY <1>2, <1>5, <2>1 DEF Outputs
  <2> QED
    BY <1>2, <1>6, <2>2 DEF w, u, c, cmd
<1>7. CASE ended /\ NL \in ToSet(s)
  <2>1. w = [sent EXCEPT !.open = no]
    BY <1>3, <1>7
  <2> HIDE DEF no
  <2>2. /\ w \in Outputs /\ w.delivered = sent.delivered /\ w.buf = sent.buf
        /\ w.filter = sent.filter /\ w.open = no
    BY <1>2, <1>5, <2>1 DEF Outputs
  <2> QED
    BY <1>2, <1>7, <2>2 DEF w, u, c, no
<1>8. CASE ended /\ NL \notin ToSet(s)
  <2>1. w = sent
    BY <1>3, <1>8
  <2> QED
    BY <1>2, <1>8, <2>1 DEF w, u, c
<1> QED
  BY <1>6, <1>7, <1>8

\* A text that ends a line, or that ends with a carriage return and settles.
LEMMA EndedBy ==
  ASSUME NEW s \in Seq(Chars), s # <<>>
  PROVE  /\ ToSet(s) = {s[i] : i \in 1 .. Len(s)}
         /\ s[Len(s)] \in {NL, CR} /\ Settles(s) => Ended(s)
         /\ s[Len(s)] \in Chars
<1>1. Len(s) \in 1 .. Len(s) /\ Len(s) \in Nat
  BY EmptySeq, LenProperties
<1>2. s[Len(s)] = NL => Ended(s)
  BY <1>1 DEF Ended
<1>3. ToSet(s) = {s[i] : i \in 1 .. Len(s)}
  BY LenProperties DEF ToSet
<1>4. s[Len(s)] \in Chars
  BY <1>1, ElementOfSeq
<1> QED
  BY <1>2, <1>3, <1>4 DEF Settles

LEMMA WriteTextIs ==
  ASSUME NEW o \in Outputs, NEW s \in Seq(Chars), s # <<>>, o.buf = <<>>
  PROVE  Takes(o, WriteText(o, s), LettersOf(s))
         /\ (InCommand /\ Settles(s) /\ Tidy(o) => Tidy(WriteText(o, s)))
<1> DEFINE u == Only(s, Visible)
           w == WriteText(o, s)
<1>1. /\ s \in Seq(Int) /\ u \in Seq(Int) /\ o.delivered \in Seq(Int)
      /\ LettersOf(o.delivered) \in Seq(Int) /\ LettersOf(s) \in Seq(Int)
  BY Widened, OnlyAppend, OutputIs, LettersAre, CodesAre
<1>2. LettersOf(u) = LettersOf(s)
  BY <1>1, OnlyTwice, CodesAre DEF LettersOf
<1>3. /\ w \in Outputs /\ w.delivered = o.delivered \o u /\ w.buf = <<>> /\ w.filter = o.filter
      /\ s[Len(s)] \notin {NL, CR} => w.open = InCommand
      /\ s[Len(s)] \in {NL, CR} /\ NL \notin ToSet(s) => w.open = o.open
  BY WrittenIs
<1>4. Ended(s) => Rests(u)
  BY EndedIs
<1>5. NL \in ToSet(s) => u # <<>>
  BY NotEmpty
<1>6. s[Len(s)] \in {NL, CR} /\ Settles(s) => Ended(s)
  BY EndedBy
<1>7. Rests(u) => (u # <<>> \/ Rests(o.delivered) => Rests(o.delivered \o u))
  BY <1>1, RestsJoined
<1> HIDE DEF u, w
<1>8. Text(w) = Text(o) \o LettersOf(s)
  <2>1. LettersOf(o.delivered \o u) = LettersOf(o.delivered) \o LettersOf(s)
    BY <1>1, <1>2, LettersAre
  <2>2. /\ LettersOf(o.delivered) \o LettersOf(s) \in Seq(Int)
        /\ (LettersOf(o.delivered) \o LettersOf(s)) \o <<>> = LettersOf(o.delivered) \o LettersOf(s)
        /\ LettersOf(o.delivered) \o <<>> = LettersOf(o.delivered)
    BY <1>1, Joined
  <2> QED
    BY <1>3, <2>1, <2>2 DEF Text
<1>9. ASSUME InCommand, Settles(s), Tidy(o) PROVE Tidy(w)
  <2>1. CASE s[Len(s)] \notin {NL, CR}
    BY <1>3, <1>9, <2>1 DEF Tidy
  <2>2. CASE s[Len(s)] \in {NL, CR}
    <3>1. Rests(u)
      BY <1>4, <1>6, <1>9, <2>2
    <3>2. CASE NL \in ToSet(s)
      BY <1>3, <1>5, <1>7, <3>1, <3>2 DEF Tidy
    <3>3. CASE NL \notin ToSet(s)
      BY <1>3, <1>7, <1>9, <2>2, <3>1, <3>3 DEF Tidy
    <3> QED
      BY <3>2, <3>3
  <2> QED
    BY <2>1, <2>2
<1>10. Takes(o, w, LettersOf(s))
  BY <1>3, <1>8 DEF Takes
<1> QED
  BY <1>9, <1>10 DEF w

\* What one call prints.
LEMMA StreamIs ==
  ASSUME NEW o \in Outputs, NEW s \in Seq(Chars), s # <<>>
  PROVE  /\ Takes(o, Stream(o, s), LettersOf(s)) /\ Stream(o, s) \in Outputs
         /\ InCommand /\ Settles(s) /\ Tidy(o) => Tidy(Stream(o, s))
<1>1. CASE LineMode(o)
  <2>1. Stream(o, s) = CollectAll(o, s)
    BY <1>1 DEF Stream
  <2> QED
    BY <2>1, CollectAllIs DEF Adds, Tidy
<1>2. CASE ~LineMode(o)
  <2>1. Stream(o, s) = WriteText(o, s)
    BY <1>2 DEF Stream
  <2>2. o.buf = <<>>
    BY <1>2 DEF LineMode
  <2>3. Takes(o, WriteText(o, s), LettersOf(s))
    BY <2>2, WriteTextIs
  <2>4. InCommand /\ Settles(s) /\ Tidy(o) => Tidy(WriteText(o, s))
    BY <2>2, WriteTextIs
  <2> QED
    BY <2>1, <2>3, <2>4 DEF Takes
<1> QED
  BY <1>1, <1>2

\* Items that are no letters are delivered.
LEMMA ItemsAre ==
  ASSUME NEW o \in Outputs, NEW s \in Seq(Int), Rests(s), s # <<>>,
         LettersOf(o.delivered \o s) = LettersOf(o.delivered)
  PROVE  /\ Takes(o, Deliver(o, s), <<>>) /\ Rests(Deliver(o, s).delivered)
         /\ Text(Deliver(o, s)) = Text(o)
<1>1. /\ Deliver(o, s) \in Outputs /\ Deliver(o, s).delivered = o.delivered \o s
      /\ Deliver(o, s).buf = o.buf /\ Deliver(o, s).filter = o.filter
  BY DeliverIs
<1>2. o.delivered \in Seq(Int) /\ Text(o) \in Seq(Int)
  BY OutputIs
<1>3. Rests(o.delivered \o s)
  BY <1>2, RestsJoined
<1>4. Text(Deliver(o, s)) = Text(o)
  BY <1>1 DEF Text
<1>5. Text(o) \o <<>> = Text(o)
  BY <1>2, Joined
<1> QED
  BY <1>1, <1>3, <1>4, <1>5 DEF Takes

LEMMA NewLineIs ==
  /\ \A d \in Seq(Int) : LettersOf(d \o <<NL>>) = LettersOf(d)
  /\ \A d \in Seq(Int) : LettersOf(d \o <<ERROR>>) = LettersOf(d)
  /\ \A d \in Seq(Int) : LettersOf(d \o <<FLUSH>>) = LettersOf(d)
  /\ \A d \in Seq(Int) : LettersOf(d \o <<NL, ERROR>>) = LettersOf(d)
  /\ \A d \in Seq(Int), n \in Nat : LettersOf(d \o <<COUNT + n, NL>>) = LettersOf(d)
  /\ <<NL>> \in Seq(Int) /\ <<ERROR>> \in Seq(Int) /\ <<NL, ERROR>> \in Seq(Int)
  /\ \A n \in Nat : <<COUNT + n, NL>> \in Seq(Int)
  /\ Rests(<<NL>>) /\ Rests(<<ERROR>>) /\ Rests(<<NL, ERROR>>)
  /\ \A n \in Nat : Rests(<<COUNT + n, NL>>)
<1>1. \A d \in Seq(Int) : LettersOf(d \o <<NL>>) = LettersOf(d)
  BY CodesAre, OneItem
<1>2. \A d \in Seq(Int) : LettersOf(d \o <<ERROR>>) = LettersOf(d)
  BY CodesAre, OneItem
<1>3. \A d \in Seq(Int) : LettersOf(d \o <<FLUSH>>) = LettersOf(d)
  BY CodesAre, OneItem
<1>4. \A d \in Seq(Int) : LettersOf(d \o <<NL, ERROR>>) = LettersOf(d)
  BY CodesAre, TwoItems
<1>5. \A d \in Seq(Int), n \in Nat : LettersOf(d \o <<COUNT + n, NL>>) = LettersOf(d)
  BY CodesAre, TwoItems
<1>6. /\ <<NL>> \in Seq(Int) /\ <<ERROR>> \in Seq(Int) /\ <<NL, ERROR>> \in Seq(Int)
      /\ \A n \in Nat : <<COUNT + n, NL>> \in Seq(Int)
  BY CodesAre
<1>7. Rests(<<NL>>) /\ Rests(<<ERROR>>) /\ Rests(<<NL, ERROR>>)
  BY DEF Rests, Last
<1>8. \A n \in Nat : Rests(<<COUNT + n, NL>>)
  BY DEF Rests, Last
<1> QED
  BY <1>1, <1>2, <1>3, <1>4, <1>5, <1>6, <1>7, <1>8

LEMMA EndLineIs ==
  ASSUME NEW o \in Outputs
  PROVE  /\ Takes(o, EndLine(o), <<>>) /\ EndLine(o) \in Outputs /\ EndLine(o).buf = <<>>
         /\ Tidy(o) => Rests(EndLine(o).delivered)
<1> DEFINE e == EmitPartial(o)
           d == Deliver(e, <<NL>>)
           p == [d EXCEPT !.open = FALSE]
<1>1. Adds(o, e, <<>>) /\ e.buf = <<>> /\ e \in Outputs
  BY EmitPartialIs
<1> HIDE DEF e
<1>2. EndLine(o) = IF e.open THEN p ELSE e
  BY DEF EndLine, e
<1>3. CASE ~e.open
  BY <1>1, <1>2, <1>3 DEF Adds, Tidy
<1>4. CASE e.open
  <2>1. <<NL>> # <<>>
    OBVIOUS
  <2>2. e.delivered \in Seq(Int)
    BY <1>1, OutputIs
  <2>3. LettersOf(e.delivered \o <<NL>>) = LettersOf(e.delivered) /\ <<NL>> \in Seq(Int) /\ Rests(<<NL>>)
    BY <2>2, NewLineIs
  <2>4. Takes(e, d, <<>>) /\ Rests(d.delivered)
    BY <1>1, <2>1, <2>3, ItemsAre
  <2>5. d.buf = <<>> /\ d \in Outputs
    BY <1>1, <2>3, DeliverIs
  <2> HIDE DEF d
  <2>6. /\ p \in Outputs /\ p.delivered = d.delivered /\ p.buf = <<>> /\ p.filter = d.filter
    BY <2>5 DEF Outputs
  <2> HIDE DEF p
  <2>7. Text(p) = Text(d)
    BY <2>5, <2>6 DEF Text
  <2>8. Takes(e, p, <<>>)
    BY <2>4, <2>6, <2>7 DEF Takes
  <2>9. <<>> \in Seq(Int) /\ <<>> \o <<>> = <<>>
    BY EmptySeq, Joined
  <2>10. Takes(o, p, <<>> \o <<>>)
    BY <1>1, <2>8, <2>9, TakesTwice DEF Adds
  <2>11. EndLine(o) = p
    BY <1>2, <1>4
  <2> QED
    BY <2>4, <2>6, <2>9, <2>10, <2>11
<1> QED
  BY <1>3, <1>4

LEMMA ErrorLineIs ==
  ASSUME NEW o \in Outputs
  PROVE  Takes(o, ErrorLine(o), <<>>) /\ ErrorLine(o) \in Outputs /\ Tidy(ErrorLine(o))
<1> DEFINE e == EndLine(o)
           l == IF InCommand \/ lineCb THEN <<ERROR>> ELSE <<NL, ERROR>>
<1>1. Takes(o, e, <<>>) /\ e \in Outputs
  BY EndLineIs
<1>2. e.delivered \in Seq(Int)
  BY <1>1, OutputIs
<1>3. l \in Seq(Int) /\ l # <<>> /\ Rests(l)
  BY NewLineIs
<1>4. LettersOf(e.delivered \o l) = LettersOf(e.delivered)
  BY <1>2, NewLineIs
<1>5. ErrorLine(o) = Deliver(e, l)
  BY DEF ErrorLine
<1> HIDE DEF e, l
<1>6. Takes(e, Deliver(e, l), <<>>) /\ Rests(Deliver(e, l).delivered)
  BY <1>1, <1>3, <1>4, ItemsAre
<1>7. <<>> \in Seq(Int) /\ <<>> \o <<>> = <<>>
  BY EmptySeq, Joined
<1>8. Takes(o, Deliver(e, l), <<>> \o <<>>)
  BY <1>1, <1>6, <1>7, TakesTwice
<1> QED
  BY <1>5, <1>6, <1>7, <1>8 DEF Takes, Tidy

LEMMA TotalIs ==
  ASSUME NEW o \in Outputs
  PROVE  /\ Total(o) \in Outputs /\ Total(o).filter = NoFilter /\ Total(o).buf = o.buf
         /\ Rests(o.delivered) => Rests(Total(o).delivered)
         /\ o.filter.type = "none" => Text(Total(o)) = Text(o)
<1> DEFINE l == <<COUNT + o.filter.count, NL>>
           o2 == IF o.filter.type = "count" THEN Deliver(o, l) ELSE o
           p == [o2 EXCEPT !.filter = NoFilter]
<1>1. o.delivered \in Seq(Int) /\ o.filter.count \in Nat
  BY OutputIs DEF Filters
<1>2. l \in Seq(Int) /\ Rests(l) /\ l # <<>> /\ LettersOf(o.delivered \o l) = LettersOf(o.delivered)
  BY <1>1, NewLineIs
<1>3. NoFilter \in Filters
  BY DEF NoFilter, Filters, FilterTypes
<1>4. Total(o) = p
  BY DEF Total
<1> HIDE DEF l
<1>5. /\ o2 \in Outputs /\ o2.buf = o.buf
      /\ Rests(o.delivered) => Rests(o2.delivered)
      /\ o.filter.type = "none" => o2 = o
  <2>1. CASE o.filter.type = "count"
    <3>1. o2 = Deliver(o, l)
      BY <2>1
    <3>2. Rests(Deliver(o, l).delivered)
      BY <1>2, ItemsAre
    <3>3. Deliver(o, l) \in Outputs /\ Deliver(o, l).buf = o.buf
      BY <1>2, DeliverIs
    <3> QED
      BY <2>1, <3>1, <3>2, <3>3
  <2>2. CASE o.filter.type # "count"
    BY <2>2
  <2> QED
    BY <2>1, <2>2
<1> HIDE DEF o2
<1>6. /\ p \in Outputs /\ p.filter = NoFilter /\ p.buf = o2.buf /\ p.delivered = o2.delivered
  BY <1>3, <1>5 DEF Outputs
<1> HIDE DEF p
<1>7. o.filter.type = "none" => Text(p) = Text(o)
  BY <1>5, <1>6 DEF Text
<1> QED
  BY <1>4, <1>5, <1>6, <1>7

-----------------------------------------------------------------------------
(* The inductive invariant                                                 *)

OutputTyped ==
  /\ out \in Outputs /\ depth \in Nat /\ shown \in BOOLEAN
  /\ made \in Seq(Int) /\ before \in Seq(Alphabet)

\* A filter is active in its command only, and nothing is collected while the session is
\* between a command and what follows it.
Ordered ==
  /\ out.filter.type = IF InCommand THEN asked ELSE "none"
  /\ InCommand => ~shown
  /\ ~InCommand /\ ~shown => out.buf = <<>>

Kept ==
  asked = "none" => Text(out) = (IF InCommand \/ ~shown THEN before ELSE <<>>) \o LettersOf(made)

OutputInv == OutputTyped /\ Ordered /\ Kept

LEMMA KeptIs == Kept <=> NothingLost
  BY DEF Kept, NothingLost, Text

LEMMA PrintsAre ==
  ASSUME NEW s \in Prints
  PROVE  /\ s \in Seq(Chars) /\ s # <<>>
         /\ Formatted(s) \in Seq(Chars) /\ Formatted(s) # <<>>
<1>1. s \in Seq(Chars) /\ s # <<>> /\ MaxLine \in Nat \ {0}
  BY OutputAssumption DEF Chars
<1>2. Len(s) \in Nat /\ \A i \in 1 .. Len(s) : s[i] \in Chars
  BY <1>1, LenProperties, ElementOfSeq
<1>3. CASE Len(s) > MaxLine
  <2>1. \A i \in 1 .. MaxLine : s[i] \in Chars
    BY <1>1, <1>2, <1>3
  <2>2. SubSeq(s, 1, MaxLine) \in Seq(Chars) /\ Len(SubSeq(s, 1, MaxLine)) = MaxLine
    BY <1>1, <2>1, SubSeqProperties
  <2>3. SubSeq(s, 1, MaxLine) # <<>>
    BY <1>1, <2>2, EmptySeq
  <2> QED
    BY <1>1, <1>3, <2>2, <2>3 DEF Formatted
<1>4. CASE ~(Len(s) > MaxLine)
  BY <1>1, <1>4 DEF Formatted
<1> QED
  BY <1>3, <1>4

\* The letters before the last text, and with it.
LEMMA PrintedIs ==
  ASSUME OutputInv, NEW t \in Seq(Int), asked = "none"
  PROVE  Text(out) \o t =
           (IF InCommand \/ ~shown THEN before ELSE <<>>) \o (LettersOf(made) \o t)
<1> DEFINE b == IF InCommand \/ ~shown THEN before ELSE <<>>
<1>1. b \in Seq(Int)
  BY Widened, EmptySeq DEF OutputInv, OutputTyped
<1>2. Text(out) = b \o LettersOf(made)
  BY DEF OutputInv, Kept
<1> HIDE DEF b
<1>3. LettersOf(made) \in Seq(Int)
  BY LettersAre DEF OutputInv, OutputTyped
<1>4. (b \o LettersOf(made)) \o t = b \o (LettersOf(made) \o t)
  BY <1>1, <1>3, Associative
<1> QED
  BY <1>2, <1>4 DEF b

\* A step of a handler or a callback that prints the text t.
LEMMA PrintingKeeps ==
  ASSUME OutputInv, Application, NEW t \in Seq(Int), Takes(out, out', t),
         made' \in Seq(Int), LettersOf(made') = LettersOf(made) \o t,
         UNCHANGED <<depth, shown, before, asked>>
  PROVE  OutputInv'
<1>1. out' \in Outputs /\ out'.filter.type = out.filter.type
  BY DEF Takes
<1>2. OutputTyped'
  BY <1>1 DEF OutputInv, OutputTyped
<1>3. Ordered'
  BY <1>1 DEF OutputInv, Ordered, Application, InCommand
<1>4. ASSUME asked' = "none"
      PROVE  Text(out)' = (IF InCommand' \/ ~shown' THEN before' ELSE <<>>) \o LettersOf(made')
  <2>1. asked = "none" /\ out.filter.type = "none"
    BY <1>4 DEF OutputInv, Ordered
  <2>2. Text(out') = Text(out) \o t
    BY <2>1 DEF Takes
  <2>3. Text(out') = (IF InCommand \/ ~shown THEN before ELSE <<>>) \o LettersOf(made')
    BY <2>1, <2>2, PrintedIs
  <2>4. Text(out)' = Text(out')
    BY DEF Text, LettersOf
  <2>5. InCommand' = InCommand /\ shown' = shown /\ before' = before
    BY DEF InCommand
  <2> QED
    BY <2>3, <2>4, <2>5
<1>5. Kept'
  BY <1>4 DEF Kept
<1> QED
  BY <1>2, <1>3, <1>5 DEF OutputInv

LEMMA MadeIs ==
  ASSUME OutputInv, NEW s \in Seq(Int), Made(s)
  PROVE  made' \in Seq(Int) /\ LettersOf(made') = LettersOf(made) \o LettersOf(s)
<1>1. made \in Seq(Int) /\ made' = made \o s
  BY DEF OutputInv, OutputTyped, Made
<1> QED
  BY <1>1, Joined, LettersAre

\* One item that is no letter is recorded.
LEMMA MarkIs ==
  ASSUME OutputInv, NEW c \in {ERROR, FLUSH}, Made(<<c>>)
  PROVE  made' \in Seq(Int) /\ LettersOf(made') = LettersOf(made) \o <<>>
<1>1. c \in Int /\ c \notin Alphabet
  BY CodesAre
<1>2. <<c>> \in Seq(Int) /\ LettersOf(<<c>>) = <<>>
  BY <1>1, OneItem
<1>3. made' \in Seq(Int) /\ LettersOf(made') = LettersOf(made) \o LettersOf(<<c>>)
  BY <1>2, MadeIs
<1> QED
  BY <1>2, <1>3

LEMMA LineEndIs ==
  ASSUME NEW s \in Seq(Chars)
  PROVE  /\ <<NL>> \in Seq(Chars) /\ <<NL>> # <<>> /\ LettersOf(<<NL>>) = <<>> /\ Settles(<<NL>>)
         /\ Append(s, NL) \in Seq(Int) /\ LettersOf(Append(s, NL)) = LettersOf(s)
         /\ LettersOf(s) \in Seq(Int) /\ LettersOf(s) \o <<>> = LettersOf(s)
<1>1. s \in Seq(Int) /\ NL \in Int /\ NL \notin Alphabet
  BY Widened, CodesAre
<1>2. <<NL>> \in Seq(Chars) /\ <<NL>> # <<>> /\ Len(<<NL>>) = 1 /\ <<NL>>[1] = NL
  BY CodesAre
<1>3. Settles(<<NL>>)
  BY <1>2, CodesAre DEF Settles
<1>4. LettersOf(<<NL>>) = <<>>
  BY <1>1, OneItem
<1>5. Append(s, NL) \in Seq(Int) /\ LettersOf(Append(s, NL)) = LettersOf(s)
  <2>1. LettersOf(Append(s, NL)) = Keep(LettersOf(s), NL, Alphabet)
    BY <1>1, LettersAre
  <2> QED
    BY <1>1, <2>1, AppendProperties DEF Keep
<1>6. LettersOf(s) \in Seq(Int) /\ LettersOf(s) \o <<>> = LettersOf(s)
  BY <1>1, LettersAre, Joined
<1> QED
  BY <1>2, <1>3, <1>4, <1>5, <1>6

\* The calls that print, in the order of the program.
LEMMA CliPrintKeeps ==
  ASSUME OutputInv, NEW s \in Prints, CliPrint(s)
  PROVE  OutputInv' /\ (Settles(Formatted(s)) /\ (InCommand => Tidy(out)) => (InCommand => Tidy(out')))
<1> DEFINE t == Formatted(s)
<1>1. t \in Seq(Chars) /\ t # <<>> /\ t \in Seq(Int) /\ LettersOf(t) \in Seq(Int)
  BY PrintsAre, Widened, LineEndIs
<1>2. out \in Outputs
  BY DEF OutputInv, OutputTyped
<1>3. /\ Application /\ Made(t) /\ out' = Stream(out, t) /\ UNCHANGED <<depth, shown, before, asked>>
  BY DEF CliPrint
<1> HIDE DEF t
<1>4. Takes(out, Stream(out, t), LettersOf(t))
  BY <1>1, <1>2, StreamIs
<1>5. InCommand /\ Settles(t) /\ Tidy(out) => Tidy(Stream(out, t))
  BY <1>1, <1>2, StreamIs
<1>6. made' \in Seq(Int) /\ LettersOf(made') = LettersOf(made) \o LettersOf(t)
  BY <1>1, <1>3, MadeIs
<1>7. OutputInv'
  BY <1>1, <1>3, <1>4, <1>6, PrintingKeeps
<1> QED
  BY <1>3, <1>5, <1>7 DEF t

LEMMA CliPrintlnKeeps ==
  ASSUME OutputInv, NEW s \in Prints, CliPrintln(s)
  PROVE  OutputInv' /\ (Settles(Formatted(s)) /\ (InCommand => Tidy(out)) => (InCommand => Tidy(out')))
<1> DEFINE t == Formatted(s)
           p == Stream(out, t)
           q == Stream(p, <<NL>>)
<1>1. t \in Seq(Chars) /\ t # <<>> /\ LettersOf(t) \in Seq(Int)
  BY PrintsAre, LineEndIs
<1>2. /\ <<NL>> \in Seq(Chars) /\ <<NL>> # <<>> /\ LettersOf(<<NL>>) = <<>> /\ Settles(<<NL>>)
      /\ Append(t, NL) \in Seq(Int) /\ LettersOf(Append(t, NL)) = LettersOf(t)
      /\ LettersOf(t) \o <<>> = LettersOf(t)
  BY <1>1, LineEndIs
<1>3. out \in Outputs
  BY DEF OutputInv, OutputTyped
<1>4. /\ Application /\ Made(Append(t, NL)) /\ out' = q
      /\ UNCHANGED <<depth, shown, before, asked>>
  BY DEF CliPrintln
<1> HIDE DEF t
<1>5. Takes(out, p, LettersOf(t)) /\ p \in Outputs
  BY <1>1, <1>3, StreamIs
<1>6. InCommand /\ Settles(t) /\ Tidy(out) => Tidy(p)
  BY <1>1, <1>3, StreamIs
<1> HIDE DEF p
<1>7. Takes(p, q, <<>>)
  <2>1. Takes(p, q, LettersOf(<<NL>>))
    BY <1>2, <1>5, StreamIs
  <2> QED
    BY <1>2, <2>1
<1>8. InCommand /\ Settles(<<NL>>) /\ Tidy(p) => Tidy(q)
  BY <1>2, <1>5, StreamIs
<1> HIDE DEF q
<1>9. Takes(out, q, LettersOf(t))
  <2>1. <<>> \in Seq(Int)
    BY EmptySeq
  <2>2. Takes(out, q, LettersOf(t) \o <<>>)
    BY <1>1, <1>3, <1>5, <1>7, <2>1, TakesTwice
  <2> QED
    BY <1>2, <2>2
<1>10. made' \in Seq(Int) /\ LettersOf(made') = LettersOf(made) \o LettersOf(t)
  <2>1. made' \in Seq(Int) /\ LettersOf(made') = LettersOf(made) \o LettersOf(Append(t, NL))
    BY <1>2, <1>4, MadeIs
  <2> QED
    BY <1>2, <2>1
<1>11. OutputInv'
  BY <1>1, <1>4, <1>9, <1>10, PrintingKeeps
<1>12. InCommand /\ Settles(t) /\ Tidy(out) => Tidy(out')
  BY <1>2, <1>4, <1>6, <1>8
<1> QED
  BY <1>11, <1>12 DEF t

LEMMA PrintStrKeeps ==
  ASSUME OutputInv, NEW s \in Prints, PrintStr(s)
  PROVE  OutputInv' /\ (Settles(s) /\ (InCommand => Tidy(out)) => (InCommand => Tidy(out')))
<1>1. s \in Seq(Chars) /\ s # <<>> /\ s \in Seq(Int) /\ LettersOf(s) \in Seq(Int)
  BY PrintsAre, Widened, LineEndIs
<1>2. out \in Outputs
  BY DEF OutputInv, OutputTyped
<1>3. /\ Application /\ Made(s) /\ out' = Stream(out, s) /\ UNCHANGED <<depth, shown, before, asked>>
  BY DEF PrintStr, Application
<1>4. Takes(out, Stream(out, s), LettersOf(s))
  BY <1>1, <1>2, StreamIs
<1>5. InCommand /\ Settles(s) /\ Tidy(out) => Tidy(Stream(out, s))
  BY <1>1, <1>2, StreamIs
<1>6. made' \in Seq(Int) /\ LettersOf(made') = LettersOf(made) \o LettersOf(s)
  BY <1>1, <1>3, MadeIs
<1>7. OutputInv'
  BY <1>1, <1>3, <1>4, <1>6, PrintingKeeps
<1> QED
  BY <1>3, <1>5, <1>7

LEMMA ErrorKeeps ==
  ASSUME OutputInv, Error
  PROVE  OutputInv' /\ Tidy(out')
<1>1. out \in Outputs
  BY DEF OutputInv, OutputTyped
<1>2. /\ Application /\ Made(<<ERROR>>) /\ out' = ErrorLine(out)
      /\ UNCHANGED <<depth, shown, before, asked>>
  BY DEF Error
<1>3. Takes(out, ErrorLine(out), <<>>) /\ Tidy(ErrorLine(out))
  BY <1>1, ErrorLineIs
<1>4. made' \in Seq(Int) /\ LettersOf(made') = LettersOf(made) \o <<>>
  BY <1>2, MarkIs
<1>5. <<>> \in Seq(Int)
  BY EmptySeq
<1>6. OutputInv'
  BY <1>2, <1>3, <1>4, <1>5, PrintingKeeps
<1> QED
  BY <1>2, <1>3, <1>6

LEMMA FlushKeeps ==
  ASSUME OutputInv, Flush
  PROVE  OutputInv' /\ (Tidy(out) => Tidy(out'))
<1>1. out \in Outputs
  BY DEF OutputInv, OutputTyped
<1>2. /\ Application /\ Made(<<FLUSH>>) /\ out' = EmitPartial(out)
      /\ UNCHANGED <<depth, shown, before, asked>>
  BY DEF Flush
<1>3. Adds(out, EmitPartial(out), <<>>)
  BY <1>1, EmitPartialIs
<1>4. Takes(out, out', <<>>) /\ (Tidy(out) => Tidy(out'))
  BY <1>2, <1>3 DEF Adds, Tidy
<1>5. made' \in Seq(Int) /\ LettersOf(made') = LettersOf(made) \o <<>>
  BY <1>2, MarkIs
<1>6. <<>> \in Seq(Int)
  BY EmptySeq
<1>7. OutputInv'
  BY <1>2, <1>4, <1>5, <1>6, PrintingKeeps
<1> QED
  BY <1>4, <1>7

LEMMA SetPrintTransportCbKeeps ==
  ASSUME OutputInv, SetPrintTransportCb
  PROVE  OutputInv' /\ (Tidy(out) => Tidy(out'))
<1>1. UNCHANGED <<out, depth, shown, made, before, asked>>
  BY DEF SetPrintTransportCb
<1> QED
  BY <1>1 DEF OutputInv, OutputTyped, Ordered, Kept, InCommand, Text, LettersOf, Tidy

\* cli_session_reset outside a command.
LEMMA ResetIs ==
  ASSUME NEW o \in Outputs, ~InCommand
  PROVE  /\ OutputReset(o) \in Outputs /\ OutputReset(o).buf = <<>>
         /\ OutputReset(o).filter.type = "none" /\ OutputReset(o).delivered = o.delivered
<1>1. NoFilter \in Filters /\ NoFilter.type = "none" /\ <<>> \in Seq(Alphabet)
  BY EmptySeq DEF NoFilter, Filters, FilterTypes
<1>2. OutputReset(o) = [o EXCEPT !.buf = <<>>, !.open = FALSE, !.filter = NoFilter]
  BY DEF OutputReset
<1> QED
  BY <1>1, <1>2 DEF Outputs

LEMMA RestartRunningKeeps ==
  ASSUME OutputInv, RestartRunning
  PROVE  OutputInv' /\ (InCommand => out' = out)
<1>1. out \in Outputs /\ made \in Seq(Int)
  BY DEF OutputInv, OutputTyped
<1>2. /\ Application /\ UNCHANGED <<depth, shown, made, before, asked>>
      /\ out' = OutputReset(IF InCommand THEN out ELSE Deliver(EmitPartial(out), <<NL>>))
  BY DEF RestartRunning
<1>3. CASE InCommand
  <2>1. out' = out
    BY <1>2, <1>3 DEF OutputReset
  <2> QED
    BY <1>2, <2>1 DEF OutputInv, OutputTyped, Ordered, Kept, InCommand, Text, LettersOf
<1>4. CASE ~InCommand
  <2> DEFINE e == EmitPartial(out)
             d == Deliver(e, <<NL>>)
             p == OutputReset(d)
  <2>1. Takes(out, e, <<>>) /\ e \in Outputs /\ e.buf = <<>>
    BY <1>1, EmitPartialIs DEF Adds
  <2>2. e.delivered \in Seq(Int) /\ <<NL>> # <<>>
    BY <2>1, OutputIs
  <2>3. LettersOf(e.delivered \o <<NL>>) = LettersOf(e.delivered) /\ <<NL>> \in Seq(Int) /\ Rests(<<NL>>)
    BY <2>2, NewLineIs
  <2> HIDE DEF e
  <2>4. d \in Outputs /\ d.buf = <<>> /\ Takes(e, d, <<>>)
    BY <2>1, <2>2, <2>3, DeliverIs, ItemsAre
  <2>5. <<>> \in Seq(Int) /\ <<>> \o <<>> = <<>>
    BY EmptySeq, Joined
  <2>6. Takes(out, d, <<>> \o <<>>)
    BY <1>1, <2>1, <2>4, <2>5, TakesTwice
  <2> HIDE DEF d
  <2>7. p \in Outputs /\ p.buf = <<>> /\ p.filter.type = "none" /\ p.delivered = d.delivered
    BY <1>4, <2>4, ResetIs
  <2> HIDE DEF p
  <2>8. out' = p
    BY <1>2, <1>4 DEF p, d, e
  <2>9. out.filter.type = "none"
    BY <1>4 DEF OutputInv, Ordered
  <2>10. Takes(out, out', <<>>)
    <3>1. Text(p) = Text(d)
      BY <2>4, <2>7 DEF Text
    <3> QED
      BY <2>5, <2>6, <2>7, <2>8, <2>9, <3>1 DEF Takes
  <2>11. made' \in Seq(Int) /\ LettersOf(made') = LettersOf(made) \o <<>>
    <3>1. LettersOf(made') = LettersOf(made)
      BY <1>2 DEF LettersOf
    <3>2. LettersOf(made) \in Seq(Int)
      BY <1>1, LettersAre
    <3> QED
      BY <1>1, <1>2, <3>1, <3>2, Joined
  <2>12. OutputInv'
    BY <1>2, <2>5, <2>10, <2>11, PrintingKeeps
  <2> QED
    BY <1>4, <2>12
<1> QED
  BY <1>3, <1>4

LEMMA RestartAgainKeeps ==
  ASSUME OutputInv, RestartAgain
  PROVE  OutputInv' /\ ~InCommand' /\ shown'
<1> DEFINE r == OutputReset(out)
           p == [r EXCEPT !.delivered = <<>>]
<1>1. out \in Outputs
  BY DEF OutputInv, OutputTyped
<1>2. /\ ~InCommand /\ shown /\ out' = p /\ made' = <<>>
      /\ UNCHANGED <<depth, shown, before, asked>>
  BY DEF RestartAgain
<1>3. r \in Outputs /\ r.buf = <<>> /\ r.filter.type = "none"
  BY <1>1, <1>2, ResetIs
<1>4. <<>> \in Seq(Int)
  BY EmptySeq
<1> HIDE DEF r
<1>5. p \in Outputs /\ p.buf = <<>> /\ p.filter.type = "none" /\ p.delivered = <<>>
  BY <1>3, <1>4 DEF Outputs
<1> HIDE DEF p
<1>6. Text(p) = <<>>
  <2>1. LettersOf(p.delivered) = <<>>
    BY <1>5, LettersAre
  <2> QED
    BY <1>4, <1>5, <2>1, Joined DEF Text
<1>7. InCommand' = InCommand
  BY <1>2 DEF InCommand
<1>8. OutputTyped'
  BY <1>2, <1>4, <1>5 DEF OutputInv, OutputTyped
<1>9. Ordered'
  BY <1>2, <1>5, <1>7 DEF Ordered
<1>10. Kept'
  <2>1. Text(out)' = Text(p)
    BY <1>2 DEF Text, LettersOf
  <2>2. (IF InCommand \/ ~shown THEN before ELSE <<>>)' = <<>>
    BY <1>2, <1>7
  <2>3. LettersOf(made)' = <<>>
    <3>1. LettersOf(made)' = LettersOf(made')
      BY DEF LettersOf
    <3> QED
      BY <1>2, <3>1, LettersAre
  <2>4. <<>> \o <<>> = <<>>
    BY <1>4, Joined
  <2> QED
    BY <1>6, <2>1, <2>2, <2>3, <2>4 DEF Kept
<1> QED
  BY <1>2, <1>7, <1>8, <1>9, <1>10 DEF OutputInv

LEMMA CommandKeeps ==
  ASSUME OutputInv, NEW type \in FilterTypes, Command(type)
  PROVE  OutputInv' /\ Rests(out'.delivered) /\ InCommand'
<1> DEFINE s == [out EXCEPT !.delivered = <<>>]
           e == EmitPartial(s)
           f == [NoFilter EXCEPT !.type = type]
           p == [e EXCEPT !.filter = f]
<1>1. out \in Outputs /\ depth \in Nat
  BY DEF OutputInv, OutputTyped
<1>2. /\ ~InCommand /\ shown /\ out' = p /\ depth' = 1 /\ shown' = FALSE
      /\ made' = <<>> /\ before' = out.buf /\ asked' = type
  BY DEF Command, CommandBegin
<1>3. out.buf \in Seq(Alphabet) /\ out.buf \in Seq(Int) /\ <<>> \in Seq(Int)
  BY <1>1, OutputIs, EmptySeq
<1>4. out.filter.type = "none"
  BY <1>2 DEF OutputInv, Ordered
<1>5. f \in Filters /\ f.type = type
  BY DEF NoFilter, Filters
<1> HIDE DEF f
<1>6. s \in Outputs /\ s.buf = out.buf /\ s.filter = out.filter /\ s.delivered = <<>>
  BY <1>1, <1>3 DEF Outputs
<1> HIDE DEF s
<1>7. Rests(s.delivered)
  BY <1>6, RestsIs
<1>8. Adds(s, e, <<>>) /\ e.buf = <<>> /\ e \in Outputs
  BY <1>6, EmitPartialIs
<1> HIDE DEF e
<1>9. /\ p \in Outputs /\ p.buf = <<>> /\ p.filter = f /\ p.delivered = e.delivered
  BY <1>5, <1>8 DEF Outputs
<1> HIDE DEF p
<1>10. Rests(p.delivered)
  BY <1>7, <1>8, <1>9 DEF Adds
<1>11. Text(p) = out.buf
  <2>1. Text(e) = Text(s) \o <<>>
    BY <1>4, <1>6, <1>8 DEF Adds, Takes
  <2>2. LettersOf(s.delivered) = <<>>
    BY <1>6, LettersAre
  <2>3. Text(s) = out.buf
    BY <1>3, <1>6, <2>2, Joined DEF Text
  <2>4. Text(p) = Text(e)
    BY <1>8, <1>9 DEF Text
  <2> QED
    BY <1>3, <2>1, <2>3, <2>4, Joined
<1>12. InCommand'
  BY <1>2 DEF InCommand
<1>13. OutputTyped'
  BY <1>2, <1>3, <1>9 DEF OutputTyped
<1>14. Ordered'
  BY <1>2, <1>5, <1>9, <1>12 DEF Ordered
<1>15. Kept'
  <2>1. Text(out)' = Text(p)
    BY <1>2 DEF Text, LettersOf
  <2>2. (IF InCommand \/ ~shown THEN before ELSE <<>>)' = out.buf
    BY <1>2
  <2>3. LettersOf(made)' = <<>>
    <3>1. LettersOf(made)' = LettersOf(made')
      BY DEF LettersOf
    <3> QED
      BY <1>2, <3>1, LettersAre
  <2>4. out.buf \o <<>> = out.buf
    BY <1>3, Joined
  <2> QED
    BY <1>11, <2>1, <2>2, <2>3, <2>4 DEF Kept
<1> QED
  BY <1>2, <1>10, <1>12, <1>13, <1>14, <1>15 DEF OutputInv

LEMMA NestedKeeps ==
  ASSUME OutputInv, Nested
  PROVE  OutputInv' /\ InCommand /\ InCommand' /\ out' = out
<1>1. InCommand /\ depth \in Nat /\ depth' = depth + 1 /\ UNCHANGED <<out, shown, made, before, asked>>
  BY DEF Nested, OutputInv, OutputTyped
<1>2. InCommand' /\ depth' \in Nat
  BY <1>1 DEF InCommand
<1>3. Text(out)' = Text(out) /\ LettersOf(made)' = LettersOf(made)
  BY <1>1 DEF Text, LettersOf
<1>4. OutputTyped' /\ Ordered'
  BY <1>1, <1>2 DEF OutputInv, OutputTyped, Ordered
<1>5. Kept'
  BY <1>1, <1>2, <1>3 DEF OutputInv, Kept
<1> QED
  BY <1>1, <1>2, <1>4, <1>5 DEF OutputInv

LEMMA CommandEndKeeps ==
  ASSUME OutputInv, CommandEnd
  PROVE  /\ OutputInv'
         /\ Tidy(out) => Tidy(out') /\ FreshLine'
<1> DEFINE e == EndLine(out)
           p == Total(e)
<1>1. out \in Outputs /\ depth \in Nat /\ made \in Seq(Int)
  BY DEF OutputInv, OutputTyped
<1>2. /\ InCommand /\ depth' = depth - 1 /\ UNCHANGED <<shown, made, before, asked>> /\ ~shown
      /\ out' = IF depth = 1 THEN p ELSE out
  BY DEF CommandEnd, OutputInv, Ordered
<1>3. Takes(out, e, <<>>) /\ e \in Outputs /\ e.buf = <<>> /\ (Tidy(out) => Rests(e.delivered))
  BY <1>1, EndLineIs
<1> HIDE DEF e
<1>4. /\ p \in Outputs /\ p.filter = NoFilter /\ p.buf = <<>>
      /\ Rests(e.delivered) => Rests(p.delivered)
      /\ e.filter.type = "none" => Text(p) = Text(e)
  BY <1>3, TotalIs
<1> HIDE DEF p
<1>5. NoFilter.type = "none"
  BY DEF NoFilter
<1>6. LettersOf(made)' = LettersOf(made)
  BY <1>2 DEF LettersOf
<1>7. CASE depth = 1
  <2>1. ~InCommand' /\ out' = p /\ depth' = 0
    BY <1>2, <1>7 DEF InCommand
  <2>2. OutputTyped'
    BY <1>2, <1>4, <2>1 DEF OutputInv, OutputTyped
  <2>3. Ordered'
    BY <1>4, <1>5, <2>1 DEF Ordered
  <2>4. Kept'
    <3>1. Text(out)' = Text(p)
      BY <2>1 DEF Text, LettersOf
    <3>2. ASSUME asked = "none" PROVE Text(p) = Text(out)
      <4>1. out.filter.type = "none"
        BY <3>2 DEF OutputInv, Ordered
      <4>2. e.filter.type = "none" /\ Text(e) = Text(out) \o <<>>
        BY <1>3, <4>1 DEF Takes
      <4>3. Text(out) \o <<>> = Text(out)
        BY <1>1, OutputIs, Joined
      <4> QED
        BY <1>4, <4>2, <4>3
    <3>3. asked = "none" => Text(out) = before \o LettersOf(made)
      BY <1>2 DEF OutputInv, Kept
    <3>4. (IF InCommand \/ ~shown THEN before ELSE <<>>)' = before
      BY <1>2
    <3> QED
      BY <1>2, <1>6, <3>1, <3>2, <3>3, <3>4 DEF Kept
  <2>5. Tidy(out) => Rests(p.delivered)
    BY <1>3, <1>4
  <2>6. Tidy(out) => Tidy(out')
    BY <2>1, <2>5 DEF Tidy
  <2>7. Tidy(out) => FreshLine'
    BY <2>1, <2>5 DEF FreshLine, Rests, Last
  <2> QED
    BY <2>2, <2>3, <2>4, <2>6, <2>7 DEF OutputInv
<1>8. CASE depth # 1
  <2>1. InCommand' /\ out' = out /\ depth' \in Nat
    BY <1>1, <1>2, <1>8 DEF InCommand
  <2>2. OutputTyped' /\ Ordered'
    BY <1>2, <2>1 DEF OutputInv, OutputTyped, Ordered
  <2>3. Text(out)' = Text(out)
    BY <2>1 DEF Text, LettersOf
  <2>4. Kept'
    BY <1>2, <1>6, <2>1, <2>3 DEF OutputInv, Kept
  <2>5. FreshLine'
    BY <2>1 DEF FreshLine
  <2> QED
    BY <2>1, <2>2, <2>4, <2>5 DEF OutputInv
<1> QED
  BY <1>7, <1>8

LEMMA PromptKeeps ==
  ASSUME OutputInv, Prompt
  PROVE  OutputInv' /\ ~InCommand' /\ shown'
<1>1. /\ ~InCommand /\ ~shown /\ shown' = TRUE /\ out' = [out EXCEPT !.delivered = <<>>]
      /\ made' = <<>> /\ before' = <<>> /\ depth' = depth
  BY DEF Prompt
<1>2. out \in Outputs /\ depth \in Nat /\ out.buf = <<>> /\ out.filter.type = "none"
  BY <1>1 DEF OutputInv, OutputTyped, Ordered
<1>3. <<>> \in Seq(Int) /\ <<>> \in Seq(Alphabet) /\ <<>> \o <<>> = <<>>
  BY EmptySeq, Joined
<1>4. /\ out' \in Outputs /\ out'.buf = <<>> /\ out'.delivered = <<>> /\ out'.filter.type = "none"
  BY <1>1, <1>2, <1>3 DEF Outputs
<1>5. ~InCommand'
  BY <1>1 DEF InCommand
<1>6. OutputTyped' /\ Ordered'
  BY <1>1, <1>2, <1>3, <1>4, <1>5 DEF OutputTyped, Ordered
<1>7. Kept'
  <2>1. LettersOf(out'.delivered) = <<>> /\ LettersOf(made') = <<>>
    BY <1>1, <1>4, LettersAre
  <2>2. Text(out)' = <<>> /\ LettersOf(made)' = <<>>
    <3>1. Text(out)' = LettersOf(out'.delivered) \o out'.buf /\ LettersOf(made)' = LettersOf(made')
      BY DEF Text, LettersOf
    <3> QED
      BY <1>3, <1>4, <2>1, <3>1
  <2>3. (IF InCommand \/ ~shown THEN before ELSE <<>>)' = <<>>
    BY <1>1, <1>5
  <2> QED
    BY <1>3, <2>2, <2>3 DEF Kept
<1> QED
  BY <1>1, <1>5, <1>6, <1>7 DEF OutputInv

LEMMA ResumeKeeps ==
  ASSUME OutputInv, Resume
  PROVE  OutputInv' /\ ~InCommand' /\ shown'
<1>1. /\ ~InCommand /\ shown /\ out' = [out EXCEPT !.delivered = <<>>]
      /\ made' = out.buf /\ UNCHANGED <<depth, shown, before, asked>>
  BY DEF Resume
<1>2. /\ out \in Outputs /\ out.filter.type = "none" /\ depth \in Nat /\ before \in Seq(Alphabet)
  BY <1>1 DEF OutputInv, OutputTyped, Ordered
<1>3. out.buf \in Seq(Alphabet) /\ out.buf \in Seq(Int) /\ <<>> \in Seq(Int)
  BY <1>2, OutputIs, EmptySeq
<1>4. /\ out' \in Outputs /\ out'.buf = out.buf /\ out'.delivered = <<>> /\ out'.filter.type = "none"
  BY <1>1, <1>2, <1>3 DEF Outputs
<1>5. ~InCommand'
  BY <1>1 DEF InCommand
<1>6. OutputTyped' /\ Ordered'
  BY <1>1, <1>2, <1>3, <1>4, <1>5 DEF OutputTyped, Ordered
<1>7. Kept'
  <2>1. LettersOf(out'.delivered) = <<>> /\ LettersOf(made') = out.buf
    BY <1>1, <1>3, <1>4, LettersAre
  <2>2. Text(out)' = <<>> \o out.buf /\ LettersOf(made)' = out.buf
    <3>1. Text(out)' = LettersOf(out'.delivered) \o out'.buf /\ LettersOf(made)' = LettersOf(made')
      BY DEF Text, LettersOf
    <3> QED
      BY <1>4, <2>1, <3>1
  <2>3. (IF InCommand \/ ~shown THEN before ELSE <<>>)' = <<>>
    BY <1>1, <1>5
  <2> QED
    BY <2>2, <2>3 DEF Kept
<1> QED
  BY <1>1, <1>5, <1>6, <1>7 DEF OutputInv

-----------------------------------------------------------------------------
(* The theorems                                                            *)

LEMMA OutputInitInv == OutputInit => OutputInv /\ ~InCommand /\ shown
<1> SUFFICES ASSUME OutputInit PROVE OutputInv /\ ~InCommand /\ shown
  OBVIOUS
<1>1. /\ out = [buf |-> <<>>, open |-> FALSE, filter |-> NoFilter, delivered |-> <<>>]
      /\ depth = 0 /\ shown = TRUE /\ made = <<>> /\ before = <<>> /\ asked = "none"
  BY DEF OutputInit
<1>2. NoFilter \in Filters /\ NoFilter.type = "none"
  BY DEF NoFilter, Filters, FilterTypes
<1>3. <<>> \in Seq(Int) /\ <<>> \in Seq(Alphabet) /\ <<>> \o <<>> = <<>>
  BY EmptySeq, Joined
<1>4. ~InCommand
  BY <1>1 DEF InCommand
<1>5. OutputTyped /\ Ordered
  BY <1>1, <1>2, <1>3, <1>4 DEF OutputTyped, Ordered, Outputs
<1>6. Kept
  <2>1. LettersOf(out.delivered) = <<>> /\ LettersOf(made) = <<>> /\ out.buf = <<>>
    BY <1>1, LettersAre
  <2>2. Text(out) = <<>>
    BY <1>3, <2>1 DEF Text
  <2> QED
    BY <1>1, <1>3, <1>4, <2>1, <2>2 DEF Kept
<1> QED
  BY <1>1, <1>4, <1>5, <1>6 DEF OutputInv

LEMMA OutputNextInv == OutputInv /\ [OutputNext]_outputVars => OutputInv'
<1> SUFFICES ASSUME OutputInv, [OutputNext]_outputVars PROVE OutputInv'
  OBVIOUS
<1>1. ASSUME NEW s \in Prints, CliPrint(s) \/ CliPrintln(s) \/ PrintStr(s) PROVE OutputInv'
  BY <1>1, CliPrintKeeps, CliPrintlnKeeps, PrintStrKeeps
<1>2. CASE Error \/ Flush \/ SetPrintTransportCb
  BY <1>2, ErrorKeeps, FlushKeeps, SetPrintTransportCbKeeps
<1>3. CASE RestartRunning \/ RestartAgain
  BY <1>3, RestartRunningKeeps, RestartAgainKeeps
<1>4. ASSUME NEW type \in FilterTypes, Command(type) PROVE OutputInv'
  BY <1>4, CommandKeeps
<1>5. CASE Nested \/ CommandEnd \/ Prompt \/ Resume
  BY <1>5, NestedKeeps, CommandEndKeeps, PromptKeeps, ResumeKeeps
<1>6. CASE UNCHANGED outputVars
  BY <1>6 DEF outputVars, OutputInv, OutputTyped, Ordered, Kept, InCommand, Text, LettersOf
<1> QED
  BY <1>1, <1>2, <1>3, <1>4, <1>5, <1>6 DEF OutputNext

\* Types, that a filter is active in its command only, and that nothing is lost are kept
\* by every step of a handler, of a callback and of the session.
THEOREM OutputIsKept == OutputSpec => []OutputInv
<1>1. OutputInit => OutputInv
  BY OutputInitInv
<1> QED
  BY <1>1, OutputNextInv, PTL DEF OutputSpec

\* cli_print_process_stream, cli_line_buffer_emit and cli_command_begin: without a filter,
\* everything printed has been delivered or is still collected, once and in order.
THEOREM AllIsPrinted == OutputSpec => []NothingLost
<1>1. OutputInv => NothingLost
  BY KeptIs DEF OutputInv
<1> QED
  BY <1>1, OutputIsKept, PTL

\* Every text, as it is and as it is cut, ends its line if it ends with a carriage return.
TextsSettle == \A s \in Prints : Settles(s) /\ Settles(Formatted(s))

FreshInv == OutputInv /\ (InCommand => Tidy(out)) /\ FreshLine

LEMMA Reached ==
  ASSUME OutputInv', InCommand' => Tidy(out'), InCommand' \/ shown'
  PROVE  FreshInv'
<1>1. FreshLine'
  <2>1. OutputInv' => ~InCommand' \/ ~shown'
    BY DEF OutputInv, Ordered
  <2> QED
    BY <2>1 DEF FreshLine
<1>2. (InCommand => Tidy(out))'
  BY DEF Tidy, Rests, Last
<1> QED
  BY <1>1, <1>2 DEF FreshInv

LEMMA FreshNext == TextsSettle /\ FreshInv /\ [OutputNext]_outputVars => FreshInv'
<1> SUFFICES ASSUME TextsSettle, FreshInv, [OutputNext]_outputVars PROVE FreshInv'
  OBVIOUS
<1>1. OutputInv /\ OutputInv' /\ (InCommand => Tidy(out))
  BY OutputNextInv DEF FreshInv
<1>2. ASSUME NEW s \in Prints, CliPrint(s) \/ CliPrintln(s) \/ PrintStr(s) PROVE FreshInv'
  <2>1. Settles(s) /\ Settles(Formatted(s))
    BY DEF TextsSettle
  <2>2. InCommand => Tidy(out')
    BY <1>1, <1>2, <2>1, CliPrintKeeps, CliPrintlnKeeps, PrintStrKeeps
  <2>3. Application /\ depth' = depth /\ shown' = shown
    BY <1>2 DEF CliPrint, CliPrintln, PrintStr, Application
  <2>4. InCommand' = InCommand /\ (InCommand' \/ shown')
    BY <2>3 DEF InCommand, Application
  <2> QED
    BY <1>1, <2>2, <2>4, Reached
<1>3. CASE Error \/ Flush \/ SetPrintTransportCb
  <2>1. InCommand => Tidy(out')
    BY <1>1, <1>3, ErrorKeeps, FlushKeeps, SetPrintTransportCbKeeps
  <2>2. Application /\ depth' = depth /\ shown' = shown
    BY <1>3 DEF Error, Flush, SetPrintTransportCb
  <2>3. InCommand' = InCommand /\ (InCommand' \/ shown')
    BY <2>2 DEF InCommand, Application
  <2> QED
    BY <1>1, <2>1, <2>3, Reached
<1>4. CASE RestartRunning
  <2>1. InCommand => Tidy(out')
    BY <1>1, <1>4, RestartRunningKeeps
  <2>2. Application /\ depth' = depth /\ shown' = shown
    BY <1>4 DEF RestartRunning
  <2>3. InCommand' = InCommand /\ (InCommand' \/ shown')
    BY <2>2 DEF InCommand, Application
  <2> QED
    BY <1>1, <2>1, <2>3, Reached
<1>5. CASE RestartAgain \/ Prompt \/ Resume
  <2>1. ~InCommand' /\ shown'
    BY <1>1, <1>5, RestartAgainKeeps, PromptKeeps, ResumeKeeps
  <2> QED
    BY <1>1, <2>1, Reached
<1>6. ASSUME NEW type \in FilterTypes, Command(type) PROVE FreshInv'
  <2>1. Rests(out'.delivered) /\ InCommand'
    BY <1>1, <1>6, CommandKeeps
  <2>2. Tidy(out')
    BY <2>1 DEF Tidy
  <2> QED
    BY <1>1, <2>1, <2>2, Reached
<1>7. CASE Nested
  <2>1. InCommand /\ InCommand' /\ out' = out
    BY <1>1, <1>7, NestedKeeps
  <2> QED
    BY <1>1, <2>1, Reached
<1>8. CASE CommandEnd
  <2>1. InCommand
    BY <1>8 DEF CommandEnd
  <2>2. Tidy(out') /\ FreshLine'
    BY <1>1, <1>8, <2>1, CommandEndKeeps
  <2>3. (InCommand => Tidy(out))'
    BY <2>2 DEF Tidy, Rests, Last
  <2> QED
    BY <1>1, <2>2, <2>3 DEF FreshInv
<1>9. CASE UNCHANGED outputVars
  BY <1>1, <1>9 DEF outputVars, FreshInv, InCommand, Tidy, Rests, Last, FreshLine
<1> QED
  BY <1>2, <1>3, <1>4, <1>5, <1>6, <1>7, <1>8, <1>9 DEF OutputNext

\* cli_output_end_line: what follows a command starts on a fresh line, in every output
\* mode, unless a handler prints text that only a carriage return ends.
THEOREM StartsFresh == TextsSettle => (OutputSpec => []FreshLine)
<1> SUFFICES ASSUME TextsSettle PROVE OutputSpec => []FreshLine
  OBVIOUS
<1>1. OutputInit => FreshInv
  <2>1. OutputInit => OutputInv /\ ~InCommand /\ shown
    BY OutputInitInv
  <2> QED
    BY <2>1 DEF FreshInv, FreshLine
<1>2. FreshInv /\ [OutputNext]_outputVars => FreshInv'
  BY FreshNext
<1>3. FreshInv => FreshLine
  BY DEF FreshInv
<1> QED
  BY <1>1, <1>2, <1>3, PTL DEF OutputSpec

-----------------------------------------------------------------------------
(* Sequences that are built element by element                             *)

\* g takes the steps of f, and one more.
Goes(f, g, N, M, D, x, a, b) ==
  /\ N \in Nat /\ M = N + 1 /\ Built(f, N, D, x, a) /\ Built(g, M, D, x, b)
  /\ \A n \in 1 .. N : b[n] = a[n]

LEMMA Longer ==
  ASSUME NEW f, NEW g, NEW N, NEW M, NEW D, NEW x, NEW a, NEW b, Goes(f, g, N, M, D, x, a, b)
  PROVE  g[M] = b[M][f[N]] /\ f[N] \in D
<1>1. /\ N \in Nat /\ M = N + 1
      /\ f \in [0 .. N -> D] /\ f[0] = x
      /\ \A n \in 1 .. N : f[n] = a[n][f[n - 1]]
      /\ \A n \in 1 .. N : b[n] = a[n]
  BY DEF Goes, Built
<1>2. /\ g \in [0 .. N + 1 -> D] /\ g[0] = x
      /\ \A n \in 1 .. N + 1 : g[n] = b[n][g[n - 1]]
  BY <1>1 DEF Goes, Built
<1> DEFINE T == {n \in 0 .. N : g[n] = f[n]}
<1>3. 0 \in T
  BY <1>1, <1>2
<1>4. ASSUME NEW n \in 1 .. N, n - 1 \in T PROVE n \in T
  <2>1. n \in 1 .. N + 1 /\ n \in 0 .. N /\ g[n - 1] = f[n - 1]
    BY <1>1, <1>4
  <2> QED
    BY <1>1, <1>2, <2>1
<1> HIDE DEF T
<1>5. \A n \in 0 .. N : n \in T
  BY <1>1, <1>3, <1>4, Induction
<1>6. g[N] = f[N] /\ N + 1 \in 1 .. N + 1 /\ N + 1 - 1 = N /\ N \in 0 .. N
  BY <1>1, <1>5 DEF T
<1> QED
  BY <1>1, <1>2, <1>6

\* What is printed, item by item, and the lines of it.
Items == Chars \cup {ERROR, FLUSH}

Row == Seq(Alphabet) \cup {<<ERROR>>}

Readings == [lines : Seq(Row), line : Seq(Alphabet)]

Fresh == [lines |-> <<>>, line |-> <<>>]

LEMMA ItemsAreInts ==
  /\ Items \subseteq Int /\ Chars \subseteq Items /\ ERROR \in Items /\ FLUSH \in Items
  /\ NL \in Items /\ ERROR # NL /\ ERROR # CR /\ FLUSH # NL /\ FLUSH # CR /\ ERROR # FLUSH
  /\ \A s \in Seq(Chars) : s \in Seq(Items)
  /\ \A s \in Seq(Items) : s \in Seq(Int)
<1>1. /\ Items \subseteq Int /\ Chars \subseteq Items /\ ERROR \in Items /\ FLUSH \in Items
      /\ NL \in Items
  BY CodesAre DEF Items
<1>2. ERROR # NL /\ ERROR # CR /\ FLUSH # NL /\ FLUSH # CR /\ ERROR # FLUSH
  BY DEF ERROR, NL, CR, FLUSH
<1> QED
  BY <1>1, <1>2, SeqMonotonic

\* The error line is not a line of letters.
LEMMA RowIs ==
  /\ \A l \in Seq(Alphabet) : l \in Row /\ ~IsError(l)
  /\ <<ERROR>> \in Row /\ IsError(<<ERROR>>)
  /\ \A l \in Row : l \in Seq(Int) /\ (IsError(l) \/ l \in Seq(Alphabet))
<1>1. ASSUME NEW l \in Seq(Alphabet) PROVE l \in Row /\ ~IsError(l)
  <2>1. ASSUME l = <<ERROR>> PROVE FALSE
    <3>1. Len(l) = 1 /\ l[1] = ERROR
      BY <2>1
    <3>2. l[1] \in Alphabet
      BY <3>1, ElementOfSeq
    <3> QED
      BY <3>1, <3>2, CodesAre
  <2> QED
    BY <2>1 DEF Row, IsError
<1>2. <<ERROR>> \in Row /\ IsError(<<ERROR>>)
  BY DEF Row, IsError
<1>3. ASSUME NEW l \in Row PROVE l \in Seq(Int) /\ (IsError(l) \/ l \in Seq(Alphabet))
  BY Widened, OneItem, CodesAre DEF Row, IsError
<1> QED
  BY <1>1, <1>2, <1>3

LEMMA NextItemIs ==
  /\ \A a \in Readings, c \in Items : NextItem(a, c) \in Readings
  /\ \A a \in Readings : EndRow(a) \in Readings
  /\ Fresh \in Readings
<1>1. ASSUME NEW a \in Readings PROVE EndRow(a) \in Readings
  <2>1. Append(a.lines, a.line) \in Seq(Row)
    BY RowIs, AppendProperties DEF Readings
  <2>2. [lines |-> Append(a.lines, a.line), line |-> <<>>] \in Readings
    BY <2>1, EmptySeq DEF Readings
  <2> QED
    BY <2>2 DEF EndRow
<1>2. ASSUME NEW a \in Readings, NEW c \in Items PROVE NextItem(a, c) \in Readings
  <2>1. CASE c = NL
    <3>1. NextItem(a, c) = [lines |-> Append(a.lines, a.line), line |-> <<>>]
      BY <2>1, ItemsAreInts, CodesAre DEF NextItem
    <3>2. Append(a.lines, a.line) \in Seq(Row)
      BY RowIs, AppendProperties DEF Readings
    <3> QED
      BY <3>1, <3>2, EmptySeq DEF Readings
  <2>2. CASE c = FLUSH
    BY <1>1, <2>2, ItemsAreInts DEF NextItem
  <2>3. CASE c = ERROR
    <3>1. NextItem(a, c) = [lines |-> Append(EndRow(a).lines, <<ERROR>>), line |-> <<>>]
      BY <2>3, ItemsAreInts DEF NextItem
    <3>2. EndRow(a).lines \in Seq(Row)
      BY <1>1 DEF Readings
    <3>3. Append(EndRow(a).lines, <<ERROR>>) \in Seq(Row)
      BY <3>2, RowIs, AppendProperties
    <3> QED
      BY <3>1, <3>3, EmptySeq DEF Readings
  <2>4. CASE c = CR
    BY <2>4, ItemsAreInts, CodesAre DEF NextItem
  <2>5. CASE c \in Alphabet
    <3>1. c # NL /\ c # CR /\ c # ERROR /\ c # FLUSH
      BY <2>5, CodesAre
    <3>2. NextItem(a, c) = [a EXCEPT !.line = Append(@, c)]
      BY <3>1 DEF NextItem
    <3>3. Append(a.line, c) \in Seq(Alphabet)
      BY <2>5, AppendProperties DEF Readings
    <3> QED
      BY <3>2, <3>3 DEF Readings
  <2> QED
    BY <2>1, <2>2, <2>3, <2>4, <2>5 DEF Items, Chars
<1>3. Fresh \in Readings
  BY EmptySeq DEF Fresh, Readings
<1> QED
  BY <1>1, <1>2, <1>3

ReadSteps(s) == [i \in 1 .. Len(s) |-> [t \in Readings |-> NextItem(t, s[i])]]

LEMMA ReadIsBuilt ==
  ASSUME NEW s \in Seq(Items)
  PROVE  \E f : Built(f, Len(s), Readings, Fresh, ReadSteps(s)) /\ ReadItems(s) = f[Len(s)]
<1> DEFINE N == Len(s)
           Eq(f) == f = [i \in 0 .. N |-> IF i = 0 THEN [lines |-> <<>>, line |-> <<>>] ELSE NextItem(f[i - 1], s[i])]
           Eq2(f) == f = [i \in 0 .. N |-> IF i = 0 THEN Fresh ELSE NextItem(f[i - 1], s[i])]
<1>1. N \in Nat /\ \A i \in 1 .. N : s[i] \in Items
  BY LenProperties, ElementOfSeq
<1>2. \A f : Eq(f) <=> Eq2(f)
  BY DEF Fresh
<1>3. ReadItems(s) = (CHOOSE f : Eq(f))[N]
  BY DEF ReadItems
<1>4. Steps(ReadSteps(s), N, Readings) /\ Fresh \in Readings
  <2>1. \A i \in 1 .. N, t \in Readings : NextItem(t, s[i]) \in Readings
    BY <1>1, NextItemIs
  <2>2. Fresh \in Readings
    BY NextItemIs
  <2> QED
    BY <2>1, <2>2 DEF Steps, ReadSteps
<1>5. \A i \in 1 .. N, t \in Readings : ReadSteps(s)[i][t] = NextItem(t, s[i])
  BY DEF ReadSteps
<1> HIDE DEF N, Eq
<1>6. PICK f : Built(f, N, Readings, Fresh, ReadSteps(s))
  BY <1>1, <1>4, Recursion
<1>7. Eq2(f)
  <2>1. /\ f \in [0 .. N -> Readings] /\ f[0] = Fresh
        /\ \A i \in 1 .. N : f[i] = ReadSteps(s)[i][f[i - 1]]
    BY <1>6 DEF Built
  <2>2. \A i \in 1 .. N : f[i - 1] \in Readings
    BY <1>1, <2>1
  <2>3. \A i \in 1 .. N : f[i] = NextItem(f[i - 1], s[i])
    BY <1>5, <2>1, <2>2
  <2>4. f = [i \in 0 .. N |-> f[i]]
    BY <2>1
  <2>5. \A i \in 0 .. N : f[i] = IF i = 0 THEN Fresh ELSE NextItem(f[i - 1], s[i])
    BY <1>1, <2>1, <2>3
  <2> QED
    BY <2>4, <2>5
<1>8. PICK g : Eq(g) /\ ReadItems(s) = g[N]
  BY <1>2, <1>3, <1>7
<1>9. g = [i \in 0 .. N |-> IF i = 0 THEN Fresh ELSE NextItem(g[i - 1], s[i])]
  BY <1>2, <1>8
<1>10. g[0] = Fresh /\ \A i \in 1 .. N : g[i] = NextItem(g[i - 1], s[i])
  <2>1. \A i \in 0 .. N : g[i] = IF i = 0 THEN Fresh ELSE NextItem(g[i - 1], s[i])
    BY <1>9
  <2> QED
    BY <1>1, <2>1
<1>11. \A n \in 0 .. N : g[n] \in Readings
  <2> DEFINE T == {n \in 0 .. N : g[n] \in Readings}
  <2>1. 0 \in T
    BY <1>1, <1>4, <1>10
  <2>2. ASSUME NEW n \in 1 .. N, n - 1 \in T PROVE n \in T
    <3>1. g[n - 1] \in Readings /\ s[n] \in Items /\ n \in 0 .. N
      BY <1>1, <2>2
    <3>2. g[n] \in Readings
      BY <1>10, <3>1, NextItemIs
    <3> QED
      BY <3>1, <3>2
  <2> HIDE DEF T
  <2>3. \A n \in 0 .. N : n \in T
    BY <1>1, <2>1, <2>2, Induction
  <2> QED
    BY <2>3 DEF T
<1>12. Built(g, N, Readings, Fresh, ReadSteps(s))
  <2>1. g \in [0 .. N -> Readings]
    BY <1>9, <1>11
  <2>2. \A i \in 1 .. N : g[i] = ReadSteps(s)[i][g[i - 1]]
    <3>1. \A i \in 1 .. N : g[i - 1] \in Readings
      BY <1>1, <1>11
    <3> QED
      BY <1>5, <1>10, <3>1
  <2> QED
    BY <1>10, <2>1, <2>2 DEF Built
<1> QED
  BY <1>8, <1>12 DEF N

LEMMA ReadAppend ==
  ASSUME NEW s \in Seq(Items), NEW e \in Items
  PROVE  ReadItems(s) \in Readings /\ ReadItems(Append(s, e)) = NextItem(ReadItems(s), e)
<1> DEFINE u == Append(s, e)
           N == Len(s)
<1>1. /\ u \in Seq(Items) /\ Len(u) = N + 1 /\ N \in Nat
      /\ u[N + 1] = e /\ \A i \in 1 .. N : u[i] = s[i]
  BY AppendProperties, LenProperties
<1> HIDE DEF u
<1>2. PICK f : Built(f, N, Readings, Fresh, ReadSteps(s)) /\ ReadItems(s) = f[N]
  BY ReadIsBuilt
<1>3. PICK g : Built(g, N + 1, Readings, Fresh, ReadSteps(u)) /\ ReadItems(u) = g[N + 1]
  <2>1. \E g : Built(g, Len(u), Readings, Fresh, ReadSteps(u)) /\ ReadItems(u) = g[Len(u)]
    BY <1>1, ReadIsBuilt
  <2> QED
    BY <1>1, <2>1
<1> HIDE DEF N
<1>4. \A n \in 1 .. N : ReadSteps(u)[n] = ReadSteps(s)[n]
  BY <1>1 DEF ReadSteps, N
<1>5. g[N + 1] = ReadSteps(u)[N + 1][f[N]] /\ f[N] \in Readings
  <2> DEFINE A == ReadSteps(s)
             B == ReadSteps(u)
             D == Readings
             M == N + 1
  <2>1. Goes(f, g, N, M, D, Fresh, A, B)
    BY <1>1, <1>2, <1>3, <1>4 DEF Goes
  <2> HIDE DEF A, B, D, M
  <2>2. g[M] = B[M][f[N]] /\ f[N] \in D
    BY <2>1, Longer
  <2> QED
    BY <2>2 DEF A, B, D, M
<1>6. ReadSteps(u)[N + 1][f[N]] = NextItem(f[N], e)
  <2>1. N + 1 \in 1 .. Len(u)
    BY <1>1
  <2> QED
    BY <1>1, <1>5, <2>1 DEF ReadSteps
<1> QED
  BY <1>2, <1>3, <1>5, <1>6 DEF u

LEMMA ReadEmpty == ReadItems(<<>>) = Fresh
<1>1. <<>> \in Seq(Items) /\ Len(<<>>) = 0
  BY EmptySeq
<1>2. PICK f : Built(f, Len(<<>>), Readings, Fresh, ReadSteps(<<>>)) /\ ReadItems(<<>>) = f[Len(<<>>)]
  BY <1>1, ReadIsBuilt
<1> QED
  BY <1>1, <1>2 DEF Built

-----------------------------------------------------------------------------
(* The pieces of a line                                                    *)

LEMMA Products ==
  ASSUME NEW m \in Nat \ {0}, NEW n \in Nat \ {0}
  PROVE  /\ n * m \in Nat /\ (n - 1) * m \in Nat /\ n * m = (n - 1) * m + m
         /\ (n + 1) * m = n * m + m /\ m <= n * m
  OBVIOUS

LEMMA ProductsOrdered ==
  ASSUME NEW m \in Nat \ {0}, NEW n \in Nat, NEW k \in Nat, k <= n
  PROVE  k * m <= n * m
<1>1. n - k \in Nat /\ (n - k) * m \in Nat
  OBVIOUS
<1>2. (n - k) * m = n * m - k * m
  OBVIOUS
<1> QED
  BY <1>1, <1>2

LEMMA Quotient ==
  ASSUME NEW m \in Nat \ {0}, NEW x \in Nat
  PROVE  x \div m \in Nat /\ (x \div m) * m <= x /\ x < (x \div m) * m + m
  OBVIOUS

LEMMA QuotientIs ==
  ASSUME NEW m \in Nat \ {0}, NEW q \in Nat, NEW x \in Nat, q * m <= x, x < q * m + m
  PROVE  x \div m = q
<1> DEFINE p == x \div m
<1>1. p \in Nat /\ p * m <= x /\ x < p * m + m
  BY Quotient
<1> HIDE DEF p
<1>2. CASE p < q
  <2>1. (p + 1) * m <= q * m
    BY <1>1, <1>2, ProductsOrdered
  <2>2. (p + 1) * m = p * m + m
    BY <1>1
  <2> QED
    BY <1>1, <2>1, <2>2
<1>3. CASE q < p
  <2>1. (q + 1) * m <= p * m
    BY <1>1, <1>3, ProductsOrdered
  <2>2. (q + 1) * m = q * m + m
    OBVIOUS
  <2> QED
    BY <1>1, <2>1, <2>2
<1>4. p = q
  BY <1>1, <1>2, <1>3
<1> QED
  BY <1>4 DEF p

LEMMA SizeIs == MaxLine \in Nat \ {0}
  BY OutputAssumption

\* Where the pieces of a line of length l begin and end when there are n of them.
Begin(k) == (k - 1) * MaxLine + 1

End(l, n, k) == IF k = n THEN l ELSE k * MaxLine

Pieced(line, n) == [k \in 1 .. n |-> SubSeq(line, Begin(k), End(Len(line), n, k))]

Count(line) == IF line = <<>> THEN 1 ELSE ((Len(line) - 1) \div MaxLine) + 1

\* n pieces are enough for a line of length l and the last one is not empty, unless the line is.
Enough(l, n) == n \in Nat \ {0} /\ l <= n * MaxLine /\ (n = 1 \/ (n - 1) * MaxLine < l)

LEMMA PiecesAre == \A line : Pieces(line) = Pieced(line, Count(line))
  BY DEF Pieces, Pieced, Count, Begin, End

LEMMA CountIs ==
  ASSUME NEW line \in Seq(Alphabet)
  PROVE  Enough(Len(line), Count(line))
<1>1. Len(line) \in Nat /\ (line = <<>> <=> Len(line) = 0)
  BY EmptySeq, LenProperties
<1>2. CASE line = <<>>
  BY <1>1, <1>2, SizeIs, Products DEF Count, Enough
<1>3. CASE line # <<>>
  <2> DEFINE l == Len(line)
             q == (l - 1) \div MaxLine
  <2>1. l - 1 \in Nat /\ l \in Nat
    BY <1>1, <1>3
  <2>2. q \in Nat /\ q * MaxLine <= l - 1 /\ l - 1 < q * MaxLine + MaxLine
    BY <2>1, SizeIs, Quotient
  <2> HIDE DEF q, l
  <2>3. q + 1 \in Nat \ {0} /\ (q + 1) * MaxLine = q * MaxLine + MaxLine /\ q + 1 - 1 = q
        /\ q * MaxLine \in Nat
    BY <2>2, SizeIs, Products
  <2>4. Enough(l, q + 1)
    BY <2>1, <2>2, <2>3, SizeIs DEF Enough
  <2> QED
    BY <1>3, <2>4 DEF Count, q, l
<1> QED
  BY <1>2, <1>3

LEMMA CountOf ==
  ASSUME NEW line \in Seq(Alphabet), NEW n, Enough(Len(line), n)
  PROVE  Count(line) = n
<1>1. /\ Len(line) \in Nat /\ (line = <<>> <=> Len(line) = 0)
      /\ n \in Nat \ {0} /\ Len(line) <= n * MaxLine
      /\ n = 1 \/ (n - 1) * MaxLine < Len(line)
  BY EmptySeq, LenProperties DEF Enough
<1>2. n * MaxLine \in Nat /\ (n - 1) * MaxLine \in Nat /\ n * MaxLine = (n - 1) * MaxLine + MaxLine
  BY <1>1, SizeIs, Products
<1>3. n = 1 => (n - 1) * MaxLine = 0
  BY SizeIs
<1>4. CASE line = <<>>
  <2>1. n = 1
    BY <1>1, <1>2, <1>4
  <2> QED
    BY <1>4, <2>1 DEF Count
<1>5. CASE line # <<>>
  <2>1. /\ n - 1 \in Nat /\ Len(line) - 1 \in Nat /\ (n - 1) * MaxLine <= Len(line) - 1
        /\ Len(line) - 1 < (n - 1) * MaxLine + MaxLine
    BY <1>1, <1>2, <1>3, <1>5, SizeIs
  <2>2. (Len(line) - 1) \div MaxLine = n - 1
    BY <2>1, SizeIs, QuotientIs
  <2> QED
    BY <1>1, <1>5, <2>2 DEF Count
<1> QED
  BY <1>4, <1>5

\* Every piece but the last is full.
LEMMA Spots ==
  ASSUME NEW n \in Nat \ {0}, NEW l \in Nat, Enough(l, n), NEW k \in 1 .. n
  PROVE  /\ Begin(k) \in Nat \ {0} /\ Begin(k) \in Int /\ End(l, n, k) \in Nat /\ End(l, n, k) <= l
         /\ k < n => Begin(k) <= End(l, n, k) /\ End(l, n, k) = k * MaxLine
         /\ k = n => End(l, n, k) = l /\ Begin(k) <= l + 1 /\ (l # 0 => Begin(k) <= l)
<1>1. /\ k * MaxLine \in Nat /\ (k - 1) * MaxLine \in Nat
      /\ k * MaxLine = (k - 1) * MaxLine + MaxLine /\ (n - 1) * MaxLine \in Nat
  BY SizeIs, Products
<1>2. k < n => k * MaxLine <= (n - 1) * MaxLine
  BY SizeIs, ProductsOrdered
<1>3. k < n => (n - 1) * MaxLine < l
  BY DEF Enough
<1>4. n = 1 => (n - 1) * MaxLine = 0
  BY SizeIs
<1>5. n = 1 \/ (n - 1) * MaxLine < l
  BY DEF Enough
<1>6. CASE k < n
  BY <1>1, <1>2, <1>3, <1>6, SizeIs DEF Begin, End
<1>7. CASE k = n
  BY <1>1, <1>4, <1>5, <1>7, SizeIs DEF Begin, End
<1> QED
  BY <1>6, <1>7

\* A part of a sequence does not change by what is appended.
LEMMA PartStays ==
  ASSUME NEW D, NEW s \in Seq(D), NEW c \in D, NEW a \in Nat \ {0}, NEW b \in Nat, b <= Len(s)
  PROVE  SubSeq(Append(s, c), a, b) = SubSeq(s, a, b) /\ SubSeq(s, a, b) \in Seq(D)
<1>1. Len(s) \in Nat /\ \A i \in 1 .. Len(s) : s[i] \in D
  BY LenProperties, ElementOfSeq
<1>2. CASE b < a
  <2>1. SubSeq(Append(s, c), a, b) = <<>> /\ SubSeq(s, a, b) = <<>>
    BY <1>2, SubSeqEmpty
  <2> QED
    BY <2>1, EmptySeq
<1>3. CASE a <= b
  <2>1. <<c>> \in Seq(D)
    OBVIOUS
  <2>2. Append(s, c) = s \o <<c>>
    BY AppendIsConcat
  <2>3. a \in 1 .. Len(s) /\ b \in 1 .. Len(s)
    BY <1>1, <1>3
  <2>4. SubSeq(s \o <<c>>, a, b) = SubSeq(s, a, b)
    BY <2>1, <2>3, SubSeqOfConcat1
  <2>5. \A i \in a .. b : s[i] \in D
    BY <1>1, <2>3
  <2>6. SubSeq(s, a, b) \in Seq(D)
    BY <2>5, SubSeqProperties
  <2> QED
    BY <2>2, <2>4, <2>6
<1> QED
  BY <1>1, <1>2, <1>3

LEMMA PiecedIs ==
  ASSUME NEW line \in Seq(Alphabet), NEW n, Enough(Len(line), n)
  PROVE  /\ n \in Nat \ {0} /\ Pieces(line) = Pieced(line, n)
         /\ Pieced(line, n) \in Seq(Seq(Alphabet)) /\ Len(Pieced(line, n)) = n
         /\ \A k \in 1 .. n : Pieced(line, n)[k] = SubSeq(line, Begin(k), End(Len(line), n, k))
<1>1. n \in Nat \ {0} /\ Len(line) \in Nat
  BY LenProperties DEF Enough
<1>2. Pieces(line) = Pieced(line, n)
  BY PiecesAre, CountOf
<1>3. ASSUME NEW k \in 1 .. n PROVE SubSeq(line, Begin(k), End(Len(line), n, k)) \in Seq(Alphabet)
  <2>1. Begin(k) \in Nat \ {0} /\ End(Len(line), n, k) \in Nat /\ End(Len(line), n, k) <= Len(line)
    BY <1>1, Spots
  <2>2. \A i \in Begin(k) .. End(Len(line), n, k) : line[i] \in Alphabet
    BY <1>1, <2>1, ElementOfSeq
  <2> QED
    BY <2>1, <2>2, SubSeqProperties
<1>4. Pieced(line, n) \in Seq(Seq(Alphabet))
  BY <1>1, <1>3, IsASeq DEF Pieced
<1>5. Len(Pieced(line, n)) = n
  BY <1>1 DEF Pieced
<1> QED
  BY <1>1, <1>2, <1>4, <1>5 DEF Pieced

\* The pieces of a line that are complete, and the one that is not.
Over(line) == [k \in 1 .. Count(line) - 1 |-> SubSeq(line, Begin(k), k * MaxLine)]

Rest(line) == SubSeq(line, Begin(Count(line)), Len(line))

LEMMA SplitIs ==
  ASSUME NEW line \in Seq(Alphabet)
  PROVE  /\ Over(line) \in Seq(Seq(Alphabet)) /\ Rest(line) \in Seq(Alphabet)
         /\ Pieces(line) = Append(Over(line), Rest(line))
         /\ Rest(line) = <<>> <=> line = <<>>
         /\ Len(Over(line)) = Count(line) - 1
         /\ Len(Rest(line)) = Len(line) - (Count(line) - 1) * MaxLine
<1> DEFINE n == Count(line)
           o == Over(line)
           r == Rest(line)
           p == Pieced(line, n)
           l == Len(line)
<1>1. Enough(l, n) /\ l \in Nat /\ n \in Nat \ {0} /\ (line = <<>> <=> l = 0)
  BY CountIs, LenProperties, EmptySeq DEF Enough
<1>2. /\ Pieces(line) = p /\ p \in Seq(Seq(Alphabet)) /\ Len(p) = n
      /\ \A k \in 1 .. n : p[k] = SubSeq(line, Begin(k), End(l, n, k))
  BY <1>1, PiecedIs
<1>3. o = [k \in 1 .. n - 1 |-> SubSeq(line, Begin(k), k * MaxLine)] /\ r = SubSeq(line, Begin(n), l)
  BY DEF Over, Rest
<1> HIDE DEF n, o, r, p, l
<1>4. \A k \in 1 .. n - 1 : k \in 1 .. n /\ k # n /\ p[k] = SubSeq(line, Begin(k), k * MaxLine)
  BY <1>1, <1>2 DEF End
<1>5. n \in 1 .. n /\ p[n] = r
  BY <1>1, <1>2, <1>3 DEF End
<1>6. \A k \in 1 .. n : p[k] \in Seq(Alphabet)
  BY <1>2, ElementOfSeq
<1>7. o \in Seq(Seq(Alphabet)) /\ Len(o) = n - 1 /\ \A k \in 1 .. n - 1 : o[k] = p[k]
  <2>1. \A k \in 1 .. n - 1 : SubSeq(line, Begin(k), k * MaxLine) \in Seq(Alphabet)
    BY <1>4, <1>6
  <2>2. n - 1 \in Nat
    BY <1>1
  <2>3. [k \in 1 .. n - 1 |-> SubSeq(line, Begin(k), k * MaxLine)] \in Seq(Seq(Alphabet))
    <3> DEFINE m == n - 1
    <3>1. m \in Nat /\ \A k \in 1 .. m : SubSeq(line, Begin(k), k * MaxLine) \in Seq(Alphabet)
      BY <2>1, <2>2
    <3> HIDE DEF m
    <3>2. [k \in 1 .. m |-> SubSeq(line, Begin(k), k * MaxLine)] \in Seq(Seq(Alphabet))
      BY <3>1, IsASeq
    <3> QED
      BY <3>2 DEF m
  <2>4. Len(o) = n - 1
    BY <1>3, <2>2
  <2>5. \A k \in 1 .. n - 1 : o[k] = p[k]
    BY <1>3, <1>4
  <2> QED
    BY <1>3, <2>3, <2>4, <2>5
<1>8. r \in Seq(Alphabet)
  BY <1>5, <1>6
<1>9. Append(o, r) = p
  <2> DEFINE q == Append(o, r)
  <2>1. /\ q \in Seq(Seq(Alphabet)) /\ Len(q) = n - 1 + 1 /\ q[n - 1 + 1] = r
        /\ \A k \in 1 .. n - 1 : q[k] = o[k]
    BY <1>7, <1>8, AppendProperties
  <2> HIDE DEF q
  <2>2. n - 1 + 1 = n
    BY <1>1
  <2>3. \A k \in 1 .. n : q[k] = p[k]
    BY <1>1, <1>5, <1>7, <2>1, <2>2
  <2>4. q = p
    BY <1>2, <2>1, <2>2, <2>3, SeqEqual
  <2> QED
    BY <2>4 DEF q
<1>10. Len(r) = l - (n - 1) * MaxLine /\ (r = <<>> <=> line = <<>>)
  <2>1. /\ Begin(n) \in Nat \ {0} /\ Begin(n) <= l + 1 /\ (l # 0 => Begin(n) <= l)
        /\ Begin(n) = (n - 1) * MaxLine + 1 /\ (n - 1) * MaxLine \in Nat
    <3>1. /\ Begin(n) \in Nat \ {0} /\ End(l, n, n) = l
          /\ n = n => End(l, n, n) = l /\ Begin(n) <= l + 1 /\ (l # 0 => Begin(n) <= l)
      BY <1>1, <1>5, Spots
    <3> QED
      BY <1>1, <3>1, SizeIs, Products DEF Begin
  <2>2. \A i \in Begin(n) .. l : line[i] \in Alphabet
    BY <1>1, <2>1, ElementOfSeq DEF l
  <2>3. Len(r) = IF Begin(n) <= l THEN l - Begin(n) + 1 ELSE 0
    BY <1>1, <1>3, <2>1, <2>2, SubSeqProperties
  <2>4. Len(r) = l - (n - 1) * MaxLine
    BY <1>1, <2>1, <2>3
  <2>5. r = <<>> <=> Len(r) = 0
    BY <1>8, EmptySeq
  <2> QED
    BY <1>1, <2>1, <2>3, <2>4, <2>5
<1> QED
  BY <1>2, <1>7, <1>8, <1>9, <1>10 DEF n, o, r, p, l

LEMMA EmptyLine == Over(<<>>) = <<>> /\ Rest(<<>>) = <<>> /\ Pieces(<<>>) = << <<>> >>
<1>1. <<>> \in Seq(Alphabet)
  BY EmptySeq
<1>2. Count(<<>>) = 1
  BY DEF Count
<1>3. Over(<<>>) \in Seq(Seq(Alphabet)) /\ Len(Over(<<>>)) = 0
  <2>1. Over(<<>>) \in Seq(Seq(Alphabet)) /\ Len(Over(<<>>)) = Count(<<>>) - 1
    BY <1>1, SplitIs
  <2> QED
    BY <1>2, <2>1
<1>4. Over(<<>>) = <<>>
  BY <1>3, EmptySeq
<1>5. Rest(<<>>) = <<>>
  BY <1>1, SplitIs
<1>6. Pieces(<<>>) = Append(<<>>, <<>>)
  BY <1>1, <1>4, <1>5, SplitIs
<1> QED
  BY <1>4, <1>5, <1>6

\* A letter that does not fit the last piece begins a new one.
LEMMA Growing ==
  ASSUME NEW line \in Seq(Alphabet), NEW c \in Alphabet
  PROVE  /\ Len(Rest(line)) >= MaxLine =>
              /\ Over(Append(line, c)) = Append(Over(line), Rest(line))
              /\ Rest(Append(line, c)) = <<c>>
         /\ ~(Len(Rest(line)) >= MaxLine) =>
              /\ Over(Append(line, c)) = Over(line)
              /\ Rest(Append(line, c)) = Append(Rest(line), c)
<1> DEFINE n == Count(line)
           l == Len(line)
           u == Append(line, c)
<1>1. Enough(l, n) /\ l \in Nat /\ n \in Nat \ {0} /\ l <= n * MaxLine
  BY CountIs, LenProperties DEF Enough
<1>2. u \in Seq(Alphabet) /\ Len(u) = l + 1 /\ u[l + 1] = c
  BY AppendProperties
<1>3. /\ n * MaxLine \in Nat /\ (n - 1) * MaxLine \in Nat /\ n * MaxLine = (n - 1) * MaxLine + MaxLine
      /\ (n + 1) * MaxLine = n * MaxLine + MaxLine
  BY <1>1, SizeIs, Products
<1>4. /\ Over(line) \in Seq(Seq(Alphabet)) /\ Rest(line) \in Seq(Alphabet)
      /\ Len(Over(line)) = n - 1 /\ Len(Rest(line)) = l - (n - 1) * MaxLine
  BY SplitIs
<1>5. \A k \in 1 .. n - 1 : /\ SubSeq(u, Begin(k), k * MaxLine) = SubSeq(line, Begin(k), k * MaxLine)
                            /\ SubSeq(line, Begin(k), k * MaxLine) = Over(line)[k]
  <2> SUFFICES ASSUME NEW k \in 1 .. n - 1
               PROVE  /\ SubSeq(u, Begin(k), k * MaxLine) = SubSeq(line, Begin(k), k * MaxLine)
                      /\ SubSeq(line, Begin(k), k * MaxLine) = Over(line)[k]
    OBVIOUS
  <2>1. k \in 1 .. n /\ k < n
    BY <1>1
  <2>2. Begin(k) \in Nat \ {0} /\ End(l, n, k) = k * MaxLine /\ End(l, n, k) \in Nat /\ End(l, n, k) <= l
    BY <1>1, <2>1, Spots
  <2>3. SubSeq(u, Begin(k), k * MaxLine) = SubSeq(line, Begin(k), k * MaxLine)
    BY <2>2, PartStays
  <2> QED
    BY <2>3 DEF Over
<1>6. Begin(n) \in Nat \ {0} /\ Begin(n) = (n - 1) * MaxLine + 1 /\ Begin(n) <= l + 1
  <2>1. n \in 1 .. n
    BY <1>1
  <2>2. Begin(n) \in Nat \ {0} /\ (n = n => Begin(n) <= l + 1)
    BY <1>1, <2>1, Spots
  <2> QED
    BY <2>2 DEF Begin
<1>7. SubSeq(u, Begin(n), l) = Rest(line)
  <2>1. SubSeq(u, Begin(n), l) = SubSeq(line, Begin(n), l)
    BY <1>1, <1>6, PartStays
  <2> QED
    BY <2>1 DEF Rest
<1> HIDE DEF u
<1>8. ASSUME Len(Rest(line)) >= MaxLine
      PROVE  Over(u) = Append(Over(line), Rest(line)) /\ Rest(u) = <<c>>
  <2>1. l = n * MaxLine
    <3>1. l - (n - 1) * MaxLine >= MaxLine
      BY <1>4, <1>8
    <3> HIDE DEF l, n
    <3> QED
      BY <1>1, <1>3, <3>1, SizeIs
  <2>2. Enough(l + 1, n + 1)
    <3> HIDE DEF l, n
    <3> QED
      BY <1>1, <1>3, <2>1, SizeIs DEF Enough
  <2>3. Count(u) = n + 1
    BY <1>2, <2>2, CountOf
  <2>4. Over(u) = [k \in 1 .. n |-> SubSeq(u, Begin(k), k * MaxLine)]
    BY <1>1, <2>3 DEF Over
  <2>5. Over(u) \in Seq(Seq(Alphabet)) /\ Len(Over(u)) = n
    <3>1. Over(u) \in Seq(Seq(Alphabet)) /\ Len(Over(u)) = Count(u) - 1
      BY <1>2, SplitIs
    <3> QED
      BY <1>1, <2>3, <3>1
  <2> DEFINE q == Append(Over(line), Rest(line))
  <2>6. /\ q \in Seq(Seq(Alphabet)) /\ Len(q) = n - 1 + 1 /\ q[n - 1 + 1] = Rest(line)
        /\ \A k \in 1 .. n - 1 : q[k] = Over(line)[k]
    BY <1>4, AppendProperties
  <2> HIDE DEF q
  <2>7. n - 1 + 1 = n
    BY <1>1
  <2>8. \A k \in 1 .. n : Over(u)[k] = q[k]
    <3> SUFFICES ASSUME NEW k \in 1 .. n PROVE Over(u)[k] = q[k]
      OBVIOUS
    <3>1. Over(u)[k] = SubSeq(u, Begin(k), k * MaxLine)
      BY <2>4
    <3>2. CASE k = n
      BY <1>7, <2>1, <2>6, <2>7, <3>1, <3>2
    <3>3. CASE k # n
      <4>1. k \in 1 .. n - 1
        BY <1>1, <3>3
      <4> QED
        BY <1>5, <2>6, <3>1, <4>1
    <3> QED
      BY <3>2, <3>3
  <2>9. Over(u) = q
    BY <2>5, <2>6, <2>7, <2>8, SeqEqual
  <2>10. Rest(u) = SubSeq(u, l + 1, l + 1)
    <3>1. Begin(n + 1) = l + 1
      BY <1>1, <2>1 DEF Begin
    <3> QED
      BY <1>2, <2>3, <3>1 DEF Rest
  <2>11. SubSeq(u, l + 1, l + 1) = <<c>>
    <3>1. l + 1 \in 1 .. Len(u) /\ l + 1 \in l + 1 .. Len(u)
      BY <1>1, <1>2
    <3>2. SubSeq(u, l + 1, l + 1) = <<u[l + 1]>> \o SubSeq(u, l + 1 + 1, l + 1)
      BY <1>2, <3>1, SubSeqRecursiveFirst
    <3>3. SubSeq(u, l + 1 + 1, l + 1) = <<>>
      BY <1>1, SubSeqEmpty
    <3>4. <<c>> \in Seq(Alphabet) /\ <<c>> \o <<>> = <<c>>
      <4>1. <<c>> \in Seq(Alphabet)
        OBVIOUS
      <4> QED
        BY <4>1, ConcatEmptySeq
    <3> QED
      BY <1>2, <3>2, <3>3, <3>4
  <2> QED
    BY <2>9, <2>10, <2>11 DEF q
<1>9. ASSUME ~(Len(Rest(line)) >= MaxLine)
      PROVE  Over(u) = Over(line) /\ Rest(u) = Append(Rest(line), c)
  <2>1. (n - 1) * MaxLine < l + 1 /\ l + 1 <= n * MaxLine
    <3>1. (n - 1) * MaxLine <= l
      BY <1>1, <1>3, <1>6
    <3>2. l - (n - 1) * MaxLine < MaxLine
      BY <1>1, <1>3, <1>4, <1>9, SizeIs
    <3> QED
      BY <1>1, <1>3, <3>1, <3>2, SizeIs
  <2>2. Enough(l + 1, n)
    BY <1>1, <2>1 DEF Enough
  <2>3. Count(u) = n
    BY <1>2, <2>2, CountOf
  <2>4. Over(u) = [k \in 1 .. n - 1 |-> SubSeq(u, Begin(k), k * MaxLine)]
    BY <2>3 DEF Over
  <2>5. Over(line) = [k \in 1 .. n - 1 |-> SubSeq(line, Begin(k), k * MaxLine)]
    BY DEF Over
  <2>6. Over(u) = Over(line)
    BY <1>5, <2>4, <2>5
  <2>7. Rest(u) = SubSeq(u, Begin(n), l + 1)
    BY <1>2, <2>3 DEF Rest
  <2>8. SubSeq(u, Begin(n), l + 1) = SubSeq(u, Begin(n), l) \o <<u[l + 1]>>
    <3>1. Begin(n) \in 1 .. Len(u) /\ l + 1 \in Begin(n) .. Len(u) /\ (l + 1) - 1 = l
      <4> HIDE DEF l, n
      <4> QED
        BY <1>1, <1>2, <1>6
    <3> DEFINE UpTo(a, b, k) == SubSeq(u, a, b) = SubSeq(u, a, k) \o <<u[b]>>
    <3>2. \A a \in 1 .. Len(u) : \A b \in a .. Len(u) : UpTo(a, b, b - 1)
      BY <1>2, SubSeqRecursiveSecond
    <3> HIDE DEF l, n, UpTo
    <3>3. UpTo(Begin(n), l + 1, l)
      BY <3>1, <3>2
    <3> QED
      BY <3>3 DEF UpTo
  <2>9. SubSeq(u, Begin(n), l) \o <<u[l + 1]>> = Rest(line) \o <<c>>
    BY <1>2, <1>7
  <2>10. Rest(u) = Rest(line) \o <<c>>
    BY <2>7, <2>8, <2>9
  <2>11. Append(Rest(line), c) = Rest(line) \o <<c>>
    BY <1>4, AppendIsConcat
  <2> QED
    BY <2>6, <2>10, <2>11
<1> QED
  BY <1>8, <1>9 DEF u

\* A line of what is delivered: letters or an error.
LEMMA PiecesOfRow ==
  /\ \A l \in Row : Pieces(l) \in Seq(Row)
  /\ Pieces(<<ERROR>>) = << <<ERROR>> >>
<1>1. \A s \in Seq(Seq(Alphabet)) : s \in Seq(Row)
  <2>1. Seq(Alphabet) \subseteq Row
    BY RowIs
  <2> QED
    BY <2>1, SeqMonotonic
<1>2. ASSUME NEW l \in Seq(Alphabet) PROVE Pieces(l) \in Seq(Row)
  <2>1. Append(Over(l), Rest(l)) \in Seq(Seq(Alphabet)) /\ Pieces(l) = Append(Over(l), Rest(l))
    BY SplitIs, AppendProperties
  <2> QED
    BY <1>1, <2>1
<1>3. Pieces(<<ERROR>>) = << <<ERROR>> >>
  <2> DEFINE e == <<ERROR>>
  <2>1. Len(e) = 1 /\ e # <<>> /\ e \in Seq(Int)
    BY CodesAre
  <2>2. SubSeq(e, 1, 1) = e
    BY <2>1, SubSeqFull
  <2> HIDE DEF e
  <2>3. (Len(e) - 1) \div MaxLine = 0
    <3>1. 0 * MaxLine <= 0 /\ 0 < 0 * MaxLine + MaxLine
      BY SizeIs
    <3>2. 0 \div MaxLine = 0
      BY <3>1, SizeIs, QuotientIs
    <3> QED
      BY <2>1, <3>2
  <2>4. Count(e) = 1
    BY <2>1, <2>3 DEF Count
  <2>5. Pieces(e) = Pieced(e, 1)
    BY <2>4, PiecesAre
  <2>6. Pieced(e, 1) = [k \in 1 .. 1 |-> SubSeq(e, Begin(k), End(1, 1, k))]
    BY <2>1 DEF Pieced
  <2>7. \A k \in 1 .. 1 : SubSeq(e, Begin(k), End(1, 1, k)) = e
    <3>1. \A k \in 1 .. 1 : Begin(k) = 1 /\ End(1, 1, k) = 1
      BY SizeIs DEF Begin, End
    <3> QED
      BY <2>2, <3>1
  <2>8. Pieced(e, 1) = [k \in 1 .. 1 |-> e]
    BY <2>6, <2>7
  <2>9. [k \in 1 .. 1 |-> e] = <<e>>
    OBVIOUS
  <2> QED
    BY <2>5, <2>8, <2>9 DEF e
<1>4. <<ERROR>> \in Row /\ << <<ERROR>> >> \in Seq(Row)
  <2>1. <<ERROR>> \in Row
    BY RowIs
  <2> QED
    BY <2>1
<1>5. ASSUME NEW l \in Row PROVE Pieces(l) \in Seq(Row)
  <2>1. CASE l \in Seq(Alphabet)
    BY <1>2, <2>1
  <2>2. CASE l = <<ERROR>>
    BY <1>3, <1>4, <2>2
  <2> QED
    BY <2>1, <2>2 DEF Row
<1> QED
  BY <1>3, <1>5

-----------------------------------------------------------------------------
(* Lines cut, picked and laid out one after the other                      *)

WithCut(t, l) == t \o Pieces(l)

LEMMA CutTyped == Start \in Seq(Row) /\ \A t \in Seq(Row), l \in Row : WithCut(t, l) \in Seq(Row)
<1>1. Start \in Seq(Row)
  BY EmptySeq DEF Start
<1> QED
  BY <1>1, PiecesOfRow, ConcatProperties DEF WithCut

CutSteps(s) == [i \in 1 .. Len(s) |-> [t \in Seq(Row) |-> WithCut(t, s[i])]]

LEMMA CutIsBuilt ==
  ASSUME NEW s \in Seq(Row)
  PROVE  \E f : Built(f, Len(s), Seq(Row), Start, CutSteps(s)) /\ Cut(s) = f[Len(s)]
<1> DEFINE N == Len(s)
           Eq(f) == f = [i \in 0 .. N |-> IF i = 0 THEN <<>> ELSE f[i - 1] \o Pieces(s[i])]
           Eq2(f) == f = [i \in 0 .. N |-> IF i = 0 THEN Start ELSE WithCut(f[i - 1], s[i])]
<1>1. N \in Nat /\ \A i \in 1 .. N : s[i] \in Row
  BY LenProperties, ElementOfSeq
<1>2. \A f : Eq(f) <=> Eq2(f)
  BY DEF Start, WithCut
<1>3. Cut(s) = (CHOOSE f : Eq(f))[N]
  BY DEF Cut
<1>4. Steps(CutSteps(s), N, Seq(Row)) /\ Start \in Seq(Row)
  <2>1. \A i \in 1 .. N, t \in Seq(Row) : WithCut(t, s[i]) \in Seq(Row)
    BY <1>1, CutTyped
  <2>2. Start \in Seq(Row)
    BY CutTyped
  <2> QED
    BY <2>1, <2>2 DEF Steps, CutSteps
<1>5. \A i \in 1 .. N, t \in Seq(Row) : CutSteps(s)[i][t] = WithCut(t, s[i])
  BY DEF CutSteps
<1> HIDE DEF N, Eq
<1>6. PICK f : Built(f, N, Seq(Row), Start, CutSteps(s))
  BY <1>1, <1>4, Recursion
<1>7. Eq2(f)
  <2>1. /\ f \in [0 .. N -> Seq(Row)] /\ f[0] = Start
        /\ \A i \in 1 .. N : f[i] = CutSteps(s)[i][f[i - 1]]
    BY <1>6 DEF Built
  <2>2. \A i \in 1 .. N : f[i - 1] \in Seq(Row)
    BY <1>1, <2>1
  <2>3. \A i \in 1 .. N : f[i] = WithCut(f[i - 1], s[i])
    BY <1>5, <2>1, <2>2
  <2>4. f = [i \in 0 .. N |-> f[i]]
    BY <2>1
  <2>5. \A i \in 0 .. N : f[i] = IF i = 0 THEN Start ELSE WithCut(f[i - 1], s[i])
    BY <1>1, <2>1, <2>3
  <2> QED
    BY <2>4, <2>5
<1>8. PICK g : Eq(g) /\ Cut(s) = g[N]
  BY <1>2, <1>3, <1>7
<1>9. g = [i \in 0 .. N |-> IF i = 0 THEN Start ELSE WithCut(g[i - 1], s[i])]
  BY <1>2, <1>8
<1>10. g[0] = Start /\ \A i \in 1 .. N : g[i] = WithCut(g[i - 1], s[i])
  <2>1. \A i \in 0 .. N : g[i] = IF i = 0 THEN Start ELSE WithCut(g[i - 1], s[i])
    BY <1>9
  <2> QED
    BY <1>1, <2>1
<1>11. \A n \in 0 .. N : g[n] \in Seq(Row)
  <2> DEFINE T == {n \in 0 .. N : g[n] \in Seq(Row)}
  <2>1. 0 \in T
    BY <1>1, <1>4, <1>10
  <2>2. ASSUME NEW n \in 1 .. N, n - 1 \in T PROVE n \in T
    <3>1. g[n - 1] \in Seq(Row) /\ s[n] \in Row /\ n \in 0 .. N
      BY <1>1, <2>2
    <3>2. g[n] \in Seq(Row)
      BY <1>10, <3>1, CutTyped
    <3> QED
      BY <3>1, <3>2
  <2> HIDE DEF T
  <2>3. \A n \in 0 .. N : n \in T
    BY <1>1, <2>1, <2>2, Induction
  <2> QED
    BY <2>3 DEF T
<1>12. Built(g, N, Seq(Row), Start, CutSteps(s))
  <2>1. g \in [0 .. N -> Seq(Row)]
    BY <1>9, <1>11
  <2>2. \A i \in 1 .. N : g[i] = CutSteps(s)[i][g[i - 1]]
    <3>1. \A i \in 1 .. N : g[i - 1] \in Seq(Row)
      BY <1>1, <1>11
    <3> QED
      BY <1>5, <1>10, <3>1
  <2> QED
    BY <1>10, <2>1, <2>2 DEF Built
<1> QED
  BY <1>8, <1>12 DEF N

LEMMA CutAppend ==
  ASSUME NEW s \in Seq(Row), NEW e \in Row
  PROVE  Cut(s) \in Seq(Row) /\ Cut(Append(s, e)) = WithCut(Cut(s), e)
<1> DEFINE u == Append(s, e)
           N == Len(s)
<1>1. /\ u \in Seq(Row) /\ Len(u) = N + 1 /\ N \in Nat
      /\ u[N + 1] = e /\ \A i \in 1 .. N : u[i] = s[i]
  BY AppendProperties, LenProperties
<1> HIDE DEF u
<1>2. PICK f : Built(f, N, Seq(Row), Start, CutSteps(s)) /\ Cut(s) = f[N]
  BY CutIsBuilt
<1>3. PICK g : Built(g, N + 1, Seq(Row), Start, CutSteps(u)) /\ Cut(u) = g[N + 1]
  <2>1. \E g : Built(g, Len(u), Seq(Row), Start, CutSteps(u)) /\ Cut(u) = g[Len(u)]
    BY <1>1, CutIsBuilt
  <2> QED
    BY <1>1, <2>1
<1> HIDE DEF N
<1>4. \A n \in 1 .. N : CutSteps(u)[n] = CutSteps(s)[n]
  BY <1>1 DEF CutSteps, N
<1>5. g[N + 1] = CutSteps(u)[N + 1][f[N]] /\ f[N] \in Seq(Row)
  <2> DEFINE A == CutSteps(s)
             B == CutSteps(u)
             D == Seq(Row)
             M == N + 1
  <2>1. Goes(f, g, N, M, D, Start, A, B)
    BY <1>1, <1>2, <1>3, <1>4 DEF Goes
  <2> HIDE DEF A, B, D, M
  <2>2. g[M] = B[M][f[N]] /\ f[N] \in D
    BY <2>1, Longer
  <2> QED
    BY <2>2 DEF A, B, D, M
<1>6. CutSteps(u)[N + 1][f[N]] = WithCut(f[N], e)
  <2>1. N + 1 \in 1 .. Len(u)
    BY <1>1
  <2> QED
    BY <1>1, <1>5, <2>1 DEF CutSteps
<1> QED
  BY <1>2, <1>3, <1>5, <1>6 DEF u

LEMMA CutEmpty == Cut(<<>>) = Start
<1>1. <<>> \in Seq(Row) /\ Len(<<>>) = 0
  BY EmptySeq
<1>2. PICK f : Built(f, Len(<<>>), Seq(Row), Start, CutSteps(<<>>)) /\ Cut(<<>>) = f[Len(<<>>)]
  BY <1>1, CutIsBuilt
<1> QED
  BY <1>1, <1>2 DEF Built

\* How a line is shown.
Laid(l) == IF IsError(l) THEN l ELSE Append(l, NL)

WithLaid(t, l) == t \o Laid(l)

LEMMA LayoutTyped ==
  /\ Start \in Seq(Int)
  /\ \A t \in Seq(Int), l \in Seq(Int) : Laid(l) \in Seq(Int) /\ WithLaid(t, l) \in Seq(Int)
<1>1. Start \in Seq(Int)
  BY EmptySeq DEF Start
<1>2. \A l \in Seq(Int) : Laid(l) \in Seq(Int)
  BY CodesAre, AppendProperties DEF Laid
<1> QED
  BY <1>1, <1>2, Joined DEF WithLaid

LayoutSteps(s) == [i \in 1 .. Len(s) |-> [t \in Seq(Int) |-> WithLaid(t, s[i])]]

LEMMA LayoutIsBuilt ==
  ASSUME NEW s \in Seq(Seq(Int))
  PROVE  \E f : Built(f, Len(s), Seq(Int), Start, LayoutSteps(s)) /\ Layout(s) = f[Len(s)]
<1> DEFINE N == Len(s)
           Eq(f) == f = [i \in 0 .. N |-> IF i = 0 THEN <<>> ELSE f[i - 1] \o (IF IsError(s[i]) THEN s[i] ELSE Append(s[i], NL))]
           Eq2(f) == f = [i \in 0 .. N |-> IF i = 0 THEN Start ELSE WithLaid(f[i - 1], s[i])]
<1>1. N \in Nat /\ \A i \in 1 .. N : s[i] \in Seq(Int)
  BY LenProperties, ElementOfSeq
<1>2. \A f : Eq(f) <=> Eq2(f)
  BY DEF Start, Laid, WithLaid
<1>3. Layout(s) = (CHOOSE f : Eq(f))[N]
  BY DEF Layout
<1>4. Steps(LayoutSteps(s), N, Seq(Int)) /\ Start \in Seq(Int)
  <2>1. \A i \in 1 .. N, t \in Seq(Int) : WithLaid(t, s[i]) \in Seq(Int)
    BY <1>1, LayoutTyped
  <2>2. Start \in Seq(Int)
    BY LayoutTyped
  <2> QED
    BY <2>1, <2>2 DEF Steps, LayoutSteps
<1>5. \A i \in 1 .. N, t \in Seq(Int) : LayoutSteps(s)[i][t] = WithLaid(t, s[i])
  BY DEF LayoutSteps
<1> HIDE DEF N, Eq
<1>6. PICK f : Built(f, N, Seq(Int), Start, LayoutSteps(s))
  BY <1>1, <1>4, Recursion
<1>7. Eq2(f)
  <2>1. /\ f \in [0 .. N -> Seq(Int)] /\ f[0] = Start
        /\ \A i \in 1 .. N : f[i] = LayoutSteps(s)[i][f[i - 1]]
    BY <1>6 DEF Built
  <2>2. \A i \in 1 .. N : f[i - 1] \in Seq(Int)
    BY <1>1, <2>1
  <2>3. \A i \in 1 .. N : f[i] = WithLaid(f[i - 1], s[i])
    BY <1>5, <2>1, <2>2
  <2>4. f = [i \in 0 .. N |-> f[i]]
    BY <2>1
  <2>5. \A i \in 0 .. N : f[i] = IF i = 0 THEN Start ELSE WithLaid(f[i - 1], s[i])
    BY <1>1, <2>1, <2>3
  <2> QED
    BY <2>4, <2>5
<1>8. PICK g : Eq(g) /\ Layout(s) = g[N]
  BY <1>2, <1>3, <1>7
<1>9. g = [i \in 0 .. N |-> IF i = 0 THEN Start ELSE WithLaid(g[i - 1], s[i])]
  BY <1>2, <1>8
<1>10. g[0] = Start /\ \A i \in 1 .. N : g[i] = WithLaid(g[i - 1], s[i])
  <2>1. \A i \in 0 .. N : g[i] = IF i = 0 THEN Start ELSE WithLaid(g[i - 1], s[i])
    BY <1>9
  <2> QED
    BY <1>1, <2>1
<1>11. \A n \in 0 .. N : g[n] \in Seq(Int)
  <2> DEFINE T == {n \in 0 .. N : g[n] \in Seq(Int)}
  <2>1. 0 \in T
    BY <1>1, <1>4, <1>10
  <2>2. ASSUME NEW n \in 1 .. N, n - 1 \in T PROVE n \in T
    <3>1. g[n - 1] \in Seq(Int) /\ s[n] \in Seq(Int) /\ n \in 0 .. N
      BY <1>1, <2>2
    <3>2. g[n] \in Seq(Int)
      BY <1>10, <3>1, LayoutTyped
    <3> QED
      BY <3>1, <3>2
  <2> HIDE DEF T
  <2>3. \A n \in 0 .. N : n \in T
    BY <1>1, <2>1, <2>2, Induction
  <2> QED
    BY <2>3 DEF T
<1>12. Built(g, N, Seq(Int), Start, LayoutSteps(s))
  <2>1. g \in [0 .. N -> Seq(Int)]
    BY <1>9, <1>11
  <2>2. \A i \in 1 .. N : g[i] = LayoutSteps(s)[i][g[i - 1]]
    <3>1. \A i \in 1 .. N : g[i - 1] \in Seq(Int)
      BY <1>1, <1>11
    <3> QED
      BY <1>5, <1>10, <3>1
  <2> QED
    BY <1>10, <2>1, <2>2 DEF Built
<1> QED
  BY <1>8, <1>12 DEF N

LEMMA LayoutAppend ==
  ASSUME NEW s \in Seq(Seq(Int)), NEW e \in Seq(Int)
  PROVE  Layout(s) \in Seq(Int) /\ Layout(Append(s, e)) = WithLaid(Layout(s), e)
<1> DEFINE u == Append(s, e)
           N == Len(s)
<1>1. /\ u \in Seq(Seq(Int)) /\ Len(u) = N + 1 /\ N \in Nat
      /\ u[N + 1] = e /\ \A i \in 1 .. N : u[i] = s[i]
  BY AppendProperties, LenProperties
<1> HIDE DEF u
<1>2. PICK f : Built(f, N, Seq(Int), Start, LayoutSteps(s)) /\ Layout(s) = f[N]
  BY LayoutIsBuilt
<1>3. PICK g : Built(g, N + 1, Seq(Int), Start, LayoutSteps(u)) /\ Layout(u) = g[N + 1]
  <2>1. \E g : Built(g, Len(u), Seq(Int), Start, LayoutSteps(u)) /\ Layout(u) = g[Len(u)]
    BY <1>1, LayoutIsBuilt
  <2> QED
    BY <1>1, <2>1
<1> HIDE DEF N
<1>4. \A n \in 1 .. N : LayoutSteps(u)[n] = LayoutSteps(s)[n]
  BY <1>1 DEF LayoutSteps, N
<1>5. g[N + 1] = LayoutSteps(u)[N + 1][f[N]] /\ f[N] \in Seq(Int)
  <2> DEFINE A == LayoutSteps(s)
             B == LayoutSteps(u)
             D == Seq(Int)
             M == N + 1
  <2>1. Goes(f, g, N, M, D, Start, A, B)
    BY <1>1, <1>2, <1>3, <1>4 DEF Goes
  <2> HIDE DEF A, B, D, M
  <2>2. g[M] = B[M][f[N]] /\ f[N] \in D
    BY <2>1, Longer
  <2> QED
    BY <2>2 DEF A, B, D, M
<1>6. LayoutSteps(u)[N + 1][f[N]] = WithLaid(f[N], e)
  <2>1. N + 1 \in 1 .. Len(u)
    BY <1>1
  <2> QED
    BY <1>1, <1>5, <2>1 DEF LayoutSteps
<1> QED
  BY <1>2, <1>3, <1>5, <1>6 DEF u

LEMMA LayoutEmpty == Layout(<<>>) = Start
<1>1. <<>> \in Seq(Seq(Int)) /\ Len(<<>>) = 0
  BY EmptySeq
<1>2. PICK f : Built(f, Len(<<>>), Seq(Int), Start, LayoutSteps(<<>>)) /\ Layout(<<>>) = f[Len(<<>>)]
  BY <1>1, LayoutIsBuilt
<1> QED
  BY <1>1, <1>2 DEF Built

WithOne(t, l, i, S) == IF i \in S THEN Append(t, l) ELSE t

LEMMA ThoseTyped ==
  Start \in Seq(Row) /\ \A t \in Seq(Row), l \in Row : \A i, S : WithOne(t, l, i, S) \in Seq(Row)
<1>1. Start \in Seq(Row)
  BY EmptySeq DEF Start
<1>2. \A t \in Seq(Row), l \in Row : Append(t, l) \in Seq(Row)
  BY AppendProperties
<1> QED
  BY <1>1, <1>2 DEF WithOne

ThoseSteps(s, S) == [i \in 1 .. Len(s) |-> [t \in Seq(Row) |-> WithOne(t, s[i], i, S)]]

LEMMA ThoseIsBuilt ==
  ASSUME NEW s \in Seq(Row), NEW S
  PROVE  \E f : Built(f, Len(s), Seq(Row), Start, ThoseSteps(s, S)) /\ Those(s, S) = f[Len(s)]
<1> DEFINE N == Len(s)
           Eq(f) == f = [i \in 0 .. N |-> IF i = 0 THEN <<>> ELSE IF i \in S THEN Append(f[i - 1], s[i]) ELSE f[i - 1]]
           Eq2(f) == f = [i \in 0 .. N |-> IF i = 0 THEN Start ELSE WithOne(f[i - 1], s[i], i, S)]
<1>1. N \in Nat /\ \A i \in 1 .. N : s[i] \in Row
  BY LenProperties, ElementOfSeq
<1>2. \A f : Eq(f) <=> Eq2(f)
  BY DEF Start, WithOne
<1>3. Those(s, S) = (CHOOSE f : Eq(f))[N]
  BY DEF Those
<1>4. Steps(ThoseSteps(s, S), N, Seq(Row)) /\ Start \in Seq(Row)
  <2>1. \A i \in 1 .. N, t \in Seq(Row) : WithOne(t, s[i], i, S) \in Seq(Row)
    BY <1>1, ThoseTyped
  <2>2. Start \in Seq(Row)
    BY ThoseTyped
  <2> QED
    BY <2>1, <2>2 DEF Steps, ThoseSteps
<1>5. \A i \in 1 .. N, t \in Seq(Row) : ThoseSteps(s, S)[i][t] = WithOne(t, s[i], i, S)
  BY DEF ThoseSteps
<1> HIDE DEF N, Eq
<1>6. PICK f : Built(f, N, Seq(Row), Start, ThoseSteps(s, S))
  BY <1>1, <1>4, Recursion
<1>7. Eq2(f)
  <2>1. /\ f \in [0 .. N -> Seq(Row)] /\ f[0] = Start
        /\ \A i \in 1 .. N : f[i] = ThoseSteps(s, S)[i][f[i - 1]]
    BY <1>6 DEF Built
  <2>2. \A i \in 1 .. N : f[i - 1] \in Seq(Row)
    BY <1>1, <2>1
  <2>3. \A i \in 1 .. N : f[i] = WithOne(f[i - 1], s[i], i, S)
    BY <1>5, <2>1, <2>2
  <2>4. f = [i \in 0 .. N |-> f[i]]
    BY <2>1
  <2>5. \A i \in 0 .. N : f[i] = IF i = 0 THEN Start ELSE WithOne(f[i - 1], s[i], i, S)
    BY <1>1, <2>1, <2>3
  <2> QED
    BY <2>4, <2>5
<1>8. PICK g : Eq(g) /\ Those(s, S) = g[N]
  BY <1>2, <1>3, <1>7
<1>9. g = [i \in 0 .. N |-> IF i = 0 THEN Start ELSE WithOne(g[i - 1], s[i], i, S)]
  BY <1>2, <1>8
<1>10. g[0] = Start /\ \A i \in 1 .. N : g[i] = WithOne(g[i - 1], s[i], i, S)
  <2>1. \A i \in 0 .. N : g[i] = IF i = 0 THEN Start ELSE WithOne(g[i - 1], s[i], i, S)
    BY <1>9
  <2> QED
    BY <1>1, <2>1
<1>11. \A n \in 0 .. N : g[n] \in Seq(Row)
  <2> DEFINE T == {n \in 0 .. N : g[n] \in Seq(Row)}
  <2>1. 0 \in T
    BY <1>1, <1>4, <1>10
  <2>2. ASSUME NEW n \in 1 .. N, n - 1 \in T PROVE n \in T
    <3>1. g[n - 1] \in Seq(Row) /\ s[n] \in Row /\ n \in 0 .. N
      BY <1>1, <2>2
    <3>2. g[n] \in Seq(Row)
      BY <1>10, <3>1, ThoseTyped
    <3> QED
      BY <3>1, <3>2
  <2> HIDE DEF T
  <2>3. \A n \in 0 .. N : n \in T
    BY <1>1, <2>1, <2>2, Induction
  <2> QED
    BY <2>3 DEF T
<1>12. Built(g, N, Seq(Row), Start, ThoseSteps(s, S))
  <2>1. g \in [0 .. N -> Seq(Row)]
    BY <1>9, <1>11
  <2>2. \A i \in 1 .. N : g[i] = ThoseSteps(s, S)[i][g[i - 1]]
    <3>1. \A i \in 1 .. N : g[i - 1] \in Seq(Row)
      BY <1>1, <1>11
    <3> QED
      BY <1>5, <1>10, <3>1
  <2> QED
    BY <1>10, <2>1, <2>2 DEF Built
<1> QED
  BY <1>8, <1>12 DEF N

LEMMA ThoseAppend ==
  ASSUME NEW s \in Seq(Row), NEW e \in Row, NEW S, NEW V, \A i \in 1 .. Len(s) : i \in S <=> i \in V
  PROVE  Those(s, S) \in Seq(Row) /\ Those(Append(s, e), V) = WithOne(Those(s, S), e, Len(s) + 1, V)
<1> DEFINE u == Append(s, e)
           N == Len(s)
<1>1. /\ u \in Seq(Row) /\ Len(u) = N + 1 /\ N \in Nat
      /\ u[N + 1] = e /\ \A i \in 1 .. N : u[i] = s[i]
  BY AppendProperties, LenProperties
<1> HIDE DEF u
<1>2. PICK f : Built(f, N, Seq(Row), Start, ThoseSteps(s, S)) /\ Those(s, S) = f[N]
  BY ThoseIsBuilt
<1>3. PICK g : Built(g, N + 1, Seq(Row), Start, ThoseSteps(u, V)) /\ Those(u, V) = g[N + 1]
  <2>1. \E g : Built(g, Len(u), Seq(Row), Start, ThoseSteps(u, V)) /\ Those(u, V) = g[Len(u)]
    BY <1>1, ThoseIsBuilt
  <2> QED
    BY <1>1, <2>1
<1>4. \A n \in 1 .. N : ThoseSteps(u, V)[n] = ThoseSteps(s, S)[n]
  <2> SUFFICES ASSUME NEW n \in 1 .. N PROVE ThoseSteps(u, V)[n] = ThoseSteps(s, S)[n]
    OBVIOUS
  <2>1. n \in 1 .. Len(u) /\ n \in 1 .. Len(s) /\ u[n] = s[n] /\ (n \in S <=> n \in V)
    BY <1>1
  <2>2. \A t : WithOne(t, u[n], n, V) = WithOne(t, s[n], n, S)
    BY <2>1 DEF WithOne
  <2>3. ThoseSteps(u, V)[n] = [t \in Seq(Row) |-> WithOne(t, u[n], n, V)]
    BY <2>1 DEF ThoseSteps
  <2>4. ThoseSteps(s, S)[n] = [t \in Seq(Row) |-> WithOne(t, s[n], n, S)]
    BY <2>1 DEF ThoseSteps
  <2> QED
    BY <2>2, <2>3, <2>4
<1> HIDE DEF N
<1>5. g[N + 1] = ThoseSteps(u, V)[N + 1][f[N]] /\ f[N] \in Seq(Row)
  <2> DEFINE A == ThoseSteps(s, S)
             B == ThoseSteps(u, V)
             D == Seq(Row)
             M == N + 1
  <2>1. Goes(f, g, N, M, D, Start, A, B)
    BY <1>1, <1>2, <1>3, <1>4 DEF Goes
  <2> HIDE DEF A, B, D, M
  <2>2. g[M] = B[M][f[N]] /\ f[N] \in D
    BY <2>1, Longer
  <2> QED
    BY <2>2 DEF A, B, D, M
<1>6. ThoseSteps(u, V)[N + 1][f[N]] = WithOne(f[N], e, N + 1, V)
  <2>1. N + 1 \in 1 .. Len(u)
    BY <1>1
  <2> QED
    BY <1>1, <1>5, <2>1 DEF ThoseSteps
<1> QED
  BY <1>2, <1>3, <1>5, <1>6 DEF u, N

LEMMA ThoseEmpty == \A S : Those(<<>>, S) = Start
<1> SUFFICES ASSUME NEW S PROVE Those(<<>>, S) = Start
  OBVIOUS
<1>1. <<>> \in Seq(Row) /\ Len(<<>>) = 0
  BY EmptySeq
<1>2. PICK f : /\ Built(f, Len(<<>>), Seq(Row), Start, ThoseSteps(<<>>, S))
               /\ Those(<<>>, S) = f[Len(<<>>)]
  BY <1>1, ThoseIsBuilt
<1> QED
  BY <1>1, <1>2 DEF Built

-----------------------------------------------------------------------------
(* What a filter lets through, line by line                                *)

Begun(rows) == \E j \in 1 .. Len(rows) : Hit(rows[j])

Lets(type, rows, l) ==
  \/ IsError(l) \/ type = "none"
  \/ type = "grep" /\ Hit(l)
  \/ type = "exclude" /\ ~Hit(l)
  \/ type = "begin" /\ (Begun(rows) \/ Hit(l))

LEMMA BegunAppend ==
  ASSUME NEW rows \in Seq(Row), NEW l \in Row
  PROVE  Begun(Append(rows, l)) <=> Begun(rows) \/ Hit(l)
<1> DEFINE u == Append(rows, l)
           n == Len(rows)
<1>1. n \in Nat /\ Len(u) = n + 1 /\ u[n + 1] = l /\ \A i \in 1 .. n : u[i] = rows[i]
  BY AppendProperties, LenProperties
<1> HIDE DEF u, n
<1>2. ASSUME NEW j \in 1 .. Len(u), Hit(u[j]) PROVE (\E i \in 1 .. n : Hit(rows[i])) \/ Hit(l)
  <2>1. CASE j = n + 1
    BY <1>1, <1>2, <2>1
  <2>2. CASE j # n + 1
    <3>1. j \in 1 .. n
      BY <1>1, <2>2
    <3>2. Hit(rows[j])
      BY <1>1, <1>2, <3>1
    <3> QED
      BY <3>1, <3>2
  <2> QED
    BY <2>1, <2>2
<1>3. ASSUME NEW j \in 1 .. n, Hit(rows[j]) PROVE \E i \in 1 .. Len(u) : Hit(u[i])
  <2>1. j \in 1 .. Len(u) /\ Hit(u[j])
    BY <1>1, <1>3
  <2> QED
    BY <2>1
<1>4. ASSUME Hit(l) PROVE \E i \in 1 .. Len(u) : Hit(u[i])
  <2>1. n + 1 \in 1 .. Len(u) /\ Hit(u[n + 1])
    BY <1>1, <1>4
  <2> QED
    BY <2>1
<1> QED
  BY <1>2, <1>3, <1>4 DEF Begun, u, n

Let(type, rows) ==
  {i \in 1 .. Len(rows) :
     \/ IsError(rows[i]) \/ type = "none"
     \/ type = "grep" /\ Hit(rows[i])
     \/ type = "exclude" /\ ~Hit(rows[i])
     \/ type = "begin" /\ \E j \in 1 .. i : Hit(rows[j])}

LEMMA LetAppend ==
  ASSUME NEW type, NEW rows \in Seq(Row), NEW l \in Row
  PROVE  /\ \A i \in 1 .. Len(rows) : i \in Let(type, rows) <=> i \in Let(type, Append(rows, l))
         /\ Len(rows) + 1 \in Let(type, Append(rows, l)) <=> Lets(type, rows, l)
<1> DEFINE u == Append(rows, l)
           n == Len(rows)
           Some(s, i) == \E j \in 1 .. i : Hit(s[j])
<1>1. n \in Nat /\ Len(u) = n + 1 /\ u[n + 1] = l /\ \A i \in 1 .. n : u[i] = rows[i]
  BY AppendProperties, LenProperties
<1>2. Begun(u) <=> Begun(rows) \/ Hit(l)
  BY BegunAppend
<1> HIDE DEF u, n
<1>3. \A i \in 1 .. n : Some(rows, i) <=> Some(u, i)
  <2> SUFFICES ASSUME NEW i \in 1 .. n PROVE Some(rows, i) <=> Some(u, i)
    OBVIOUS
  <2>1. \A j \in 1 .. i : u[j] = rows[j]
    BY <1>1
  <2> QED
    BY <2>1
<1>4. Some(u, n + 1) <=> Begun(u)
  BY <1>1 DEF Begun
<1> HIDE DEF Some
<1>5. \A s, i : i \in Let(type, s) <=>
        /\ i \in 1 .. Len(s)
        /\ \/ IsError(s[i]) \/ type = "none"
           \/ type = "grep" /\ Hit(s[i])
           \/ type = "exclude" /\ ~Hit(s[i])
           \/ type = "begin" /\ Some(s, i)
  BY DEF Let, Some
<1>6. ASSUME NEW i \in 1 .. n PROVE i \in Let(type, rows) <=> i \in Let(type, u)
  <2>1. i \in 1 .. Len(rows) /\ i \in 1 .. Len(u) /\ u[i] = rows[i] /\ (Some(rows, i) <=> Some(u, i))
    BY <1>1, <1>3 DEF n
  <2> QED
    BY <1>5, <2>1
<1>7. n + 1 \in Let(type, u) <=> Lets(type, rows, l)
  <2>1. n + 1 \in 1 .. Len(u) /\ u[n + 1] = l /\ (Some(u, n + 1) <=> Begun(rows) \/ Hit(l))
    BY <1>1, <1>2, <1>4
  <2> QED
    BY <1>5, <2>1 DEF Lets
<1> QED
  BY <1>6, <1>7 DEF u, n

LEMMA PassedAppend ==
  ASSUME NEW type, NEW rows \in Seq(Row), NEW l \in Row
  PROVE  /\ Passed(type, rows) \in Seq(Row)
         /\ Lets(type, rows, l) => Passed(type, Append(rows, l)) = Append(Passed(type, rows), l)
         /\ ~Lets(type, rows, l) => Passed(type, Append(rows, l)) = Passed(type, rows)
<1>1. \A s : Passed(type, s) = Those(s, Let(type, s))
  BY DEF Passed, Let
<1>2. /\ \A i \in 1 .. Len(rows) : i \in Let(type, rows) <=> i \in Let(type, Append(rows, l))
      /\ Len(rows) + 1 \in Let(type, Append(rows, l)) <=> Lets(type, rows, l)
  BY LetAppend
<1> DEFINE S == Let(type, rows)
           V == Let(type, Append(rows, l))
<1>3. \A i \in 1 .. Len(rows) : i \in S <=> i \in V
  BY <1>2
<1> HIDE DEF S, V
<1>4. /\ Those(rows, S) \in Seq(Row)
      /\ Those(Append(rows, l), V) = WithOne(Those(rows, S), l, Len(rows) + 1, V)
  BY <1>3, ThoseAppend
<1>5. Passed(type, rows) = Those(rows, S) /\ Passed(type, Append(rows, l)) = Those(Append(rows, l), V)
  BY <1>1 DEF S, V
<1>6. Len(rows) + 1 \in V <=> Lets(type, rows, l)
  BY <1>2 DEF V
<1> QED
  BY <1>4, <1>5, <1>6 DEF WithOne

LEMMA PassedEmpty == \A type : Passed(type, <<>>) = <<>>
  BY ThoseEmpty DEF Passed, Start

\* The lines the count filter has seen.
Seen(rows) == Len(Those(rows, {i \in 1 .. Len(rows) : ~IsError(rows[i])}))

LEMMA CountedIs == \A rows : Counted(rows) = IF Seen(rows) < MaxCount THEN Seen(rows) ELSE MaxCount
  BY DEF Counted, Seen

LEMMA SeenAppend ==
  ASSUME NEW rows \in Seq(Row), NEW l \in Row
  PROVE  /\ Seen(rows) \in Nat
         /\ Seen(Append(rows, l)) = IF IsError(l) THEN Seen(rows) ELSE Seen(rows) + 1
<1> DEFINE Good(s) == {i \in 1 .. Len(s) : ~IsError(s[i])}
           u == Append(rows, l)
           n == Len(rows)
           S == Good(rows)
           V == Good(u)
<1>1. n \in Nat /\ Len(u) = n + 1 /\ u[n + 1] = l /\ \A i \in 1 .. n : u[i] = rows[i]
  BY AppendProperties, LenProperties
<1> HIDE DEF u
<1>2. \A i \in 1 .. Len(rows) : i \in S <=> i \in V
  BY <1>1
<1>3. n + 1 \in V <=> ~IsError(l)
  BY <1>1
<1>4. Seen(rows) = Len(Those(rows, S)) /\ Seen(u) = Len(Those(u, V))
  BY DEF Seen
<1> HIDE DEF S, V, Good
<1>5. Those(rows, S) \in Seq(Row) /\ Those(u, V) = WithOne(Those(rows, S), l, n + 1, V)
  BY <1>2, ThoseAppend DEF u, n
<1> HIDE DEF n
<1>6. Len(Append(Those(rows, S), l)) = Len(Those(rows, S)) + 1 /\ Len(Those(rows, S)) \in Nat
  BY <1>5, AppendProperties, LenProperties
<1>7. CASE IsError(l)
  BY <1>3, <1>4, <1>5, <1>6, <1>7 DEF WithOne, u
<1>8. CASE ~IsError(l)
  BY <1>3, <1>4, <1>5, <1>6, <1>8 DEF WithOne, u
<1> QED
  BY <1>7, <1>8

LEMMA SeenEmpty == Seen(<<>>) = 0
<1>1. Those(<<>>, {i \in 1 .. Len(<<>>) : ~IsError(<<>>[i])}) = <<>>
  BY ThoseEmpty DEF Start
<1> QED
  BY <1>1, EmptySeq DEF Seen

\* What the filter remembers of the rows.
After(type, rows) ==
  [type |-> type, count |-> IF type = "count" THEN Counted(rows) ELSE 0,
   begun |-> type = "begin" /\ Begun(rows)]

LEMMA CountedAppend ==
  ASSUME NEW rows \in Seq(Row), NEW l \in Row
  PROVE  /\ Counted(rows) \in Nat
         /\ IsError(l) => Counted(Append(rows, l)) = Counted(rows)
         /\ ~IsError(l) => Counted(Append(rows, l)) =
                             IF Counted(rows) < MaxCount THEN Counted(rows) + 1 ELSE Counted(rows)
<1>1. /\ Seen(rows) \in Nat
      /\ Seen(Append(rows, l)) = IF IsError(l) THEN Seen(rows) ELSE Seen(rows) + 1
  BY SeenAppend
<1>2. MaxCount \in Nat \ {0}
  BY OutputAssumption
<1>3. /\ Counted(rows) = IF Seen(rows) < MaxCount THEN Seen(rows) ELSE MaxCount
      /\ Counted(Append(rows, l)) =
           IF Seen(Append(rows, l)) < MaxCount THEN Seen(Append(rows, l)) ELSE MaxCount
  BY CountedIs
<1> QED
  BY <1>1, <1>2, <1>3

LEMMA JudgedAfter ==
  ASSUME NEW type \in FilterTypes, NEW rows \in Seq(Row), NEW l \in Seq(Alphabet)
  PROVE  /\ Passes(After(type, rows), l) <=> Lets(type, rows, l)
         /\ Judged(After(type, rows), l) = After(type, Append(rows, l))
<1> DEFINE f == After(type, rows)
           u == Append(rows, l)
           g == After(type, u)
           n == Counted(rows)
           b == Begun(rows)
<1>1. l \in Row /\ ~IsError(l) /\ (Hit(l) <=> Matches(l))
  BY RowIs DEF Hit
<1>2. /\ n \in Nat /\ Counted(u) = IF n < MaxCount THEN n + 1 ELSE n
      /\ Begun(u) <=> b \/ Matches(l)
  BY <1>1, CountedAppend, BegunAppend
<1> DEFINE c == IF type = "count" THEN n ELSE 0
           h == type = "begin" /\ b
           k == type = "begin" /\ Begun(u)
           m == IF type = "count" THEN Counted(u) ELSE 0
<1>3. f = [type |-> type, count |-> c, begun |-> h] /\ g = [type |-> type, count |-> m, begun |-> k]
  BY DEF After
<1>4. h \in BOOLEAN /\ k \in BOOLEAN
  OBVIOUS
<1> HIDE DEF f, g, h, k, c, m
<1>5. f.type = type /\ f.count = c /\ f.begun = h
  BY <1>3
<1>6. Passes(f, l) <=> Lets(type, rows, l)
  BY <1>1, <1>5 DEF Passes, Lets, h, b
<1>7. ASSUME type = "begin" PROVE Judged(f, l) = g
  <2>1. Judged(f, l) = [f EXCEPT !.begun = Passes(f, l)]
    BY <1>5, <1>7 DEF Judged
  <2>2. Passes(f, l) = k
    <3>1. Passes(f, l) <=> k
      BY <1>2, <1>5, <1>7 DEF Passes, h, k
    <3>2. Passes(f, l) \in BOOLEAN
      BY DEF Passes
    <3> QED
      BY <1>4, <3>1, <3>2
  <2>3. Judged(f, l) = [f EXCEPT !.begun = k]
    BY <2>1, <2>2
  <2>4. [f EXCEPT !.begun = k] = [type |-> type, count |-> c, begun |-> k]
    BY <1>3
  <2>5. c = 0 /\ m = 0
    BY <1>7 DEF c, m
  <2> QED
    BY <1>3, <2>3, <2>4, <2>5
<1>8. ASSUME type = "count" PROVE Judged(f, l) = g
  <2>1. c = n /\ m = (IF n < MaxCount THEN n + 1 ELSE n) /\ n \in Nat
    BY <1>2, <1>8 DEF c, m
  <2>2. h = FALSE /\ k = FALSE
    BY <1>8 DEF h, k
  <2>3. CASE n < MaxCount
    <3>1. Judged(f, l) = [f EXCEPT !.count = @ + 1]
      BY <1>5, <1>8, <2>1, <2>3 DEF Judged
    <3>2. [f EXCEPT !.count = @ + 1] = [type |-> type, count |-> c + 1, begun |-> h]
      BY <1>3
    <3> QED
      BY <1>3, <2>1, <2>2, <2>3, <3>1, <3>2
  <2>4. CASE ~(n < MaxCount)
    <3>1. Judged(f, l) = f
      BY <1>5, <1>8, <2>1, <2>4 DEF Judged
    <3> QED
      BY <1>3, <2>1, <2>2, <2>4, <3>1
  <2> QED
    BY <2>3, <2>4
<1>9. ASSUME type # "begin" /\ type # "count" PROVE Judged(f, l) = g
  <2>1. Judged(f, l) = f
    BY <1>5, <1>9 DEF Judged
  <2>2. h = FALSE /\ k = FALSE /\ c = 0 /\ m = 0
    BY <1>9 DEF h, k, c, m
  <2> QED
    BY <1>3, <2>1, <2>2
<1> QED
  BY <1>6, <1>7, <1>8, <1>9 DEF f, g, u

LEMMA ErrorAfter ==
  ASSUME NEW type \in FilterTypes, NEW rows \in Seq(Row)
  PROVE  /\ After(type, Append(rows, <<ERROR>>)) = After(type, rows)
         /\ Lets(type, rows, <<ERROR>>)
<1>1. <<ERROR>> \in Row /\ IsError(<<ERROR>>) /\ ~Hit(<<ERROR>>)
  BY RowIs DEF Hit
<1>2. Counted(Append(rows, <<ERROR>>)) = Counted(rows)
  BY <1>1, CountedAppend
<1>3. Begun(Append(rows, <<ERROR>>)) <=> Begun(rows)
  BY <1>1, BegunAppend
<1>4. (type = "begin" /\ Begun(Append(rows, <<ERROR>>))) = (type = "begin" /\ Begun(rows))
  BY <1>3
<1> QED
  BY <1>1, <1>2, <1>4 DEF After, Lets

LEMMA EmptyAfter ==
  /\ \A type \in FilterTypes : After(type, <<>>) = [NoFilter EXCEPT !.type = type]
  /\ After("none", <<>>) = NoFilter
<1>1. Counted(<<>>) = 0
  <2>1. MaxCount \in Nat \ {0}
    BY OutputAssumption
  <2> QED
    BY <2>1, SeenEmpty, CountedIs
<1>2. ~Begun(<<>>)
  BY EmptySeq DEF Begun
<1>3. ASSUME NEW type \in FilterTypes
      PROVE  After(type, <<>>) = [type |-> type, count |-> 0, begun |-> FALSE]
  <2> DEFINE b == type = "begin" /\ Begun(<<>>)
             c == IF type = "count" THEN Counted(<<>>) ELSE 0
  <2>1. b = FALSE /\ c = 0
    BY <1>1, <1>2
  <2>2. After(type, <<>>) = [type |-> type, count |-> c, begun |-> b]
    BY DEF After
  <2> HIDE DEF b, c
  <2> QED
    BY <2>1, <2>2
<1>4. ASSUME NEW type \in FilterTypes
      PROVE  [NoFilter EXCEPT !.type = type] = [type |-> type, count |-> 0, begun |-> FALSE]
  <2> DEFINE no == FALSE
             t == "none"
  <2>1. NoFilter = [type |-> t, count |-> 0, begun |-> no]
    BY DEF NoFilter
  <2> HIDE DEF no, t
  <2>2. [NoFilter EXCEPT !.type = type] = [type |-> type, count |-> 0, begun |-> no]
    BY <2>1
  <2> QED
    BY <2>2 DEF no
<1>5. "none" \in FilterTypes /\ NoFilter = [type |-> "none", count |-> 0, begun |-> FALSE]
  BY DEF FilterTypes, NoFilter
<1> QED
  BY <1>3, <1>4, <1>5

\* No row matters to what is delivered without a filter.
LEMMA NoneAfter == \A rows : After("none", rows) = NoFilter
<1> SUFFICES ASSUME NEW rows PROVE After("none", rows) = NoFilter
  OBVIOUS
<1> DEFINE b == "none" = "begin" /\ Begun(rows)
<1>1. b = FALSE
  OBVIOUS
<1>2. After("none", rows) = [type |-> "none", count |-> 0, begun |-> b]
  BY DEF After
<1> HIDE DEF b
<1> QED
  BY <1>1, <1>2 DEF NoFilter

\* What is delivered for one more row.
LEMMA OneMore ==
  ASSUME NEW p \in Seq(Int), NEW type, NEW rows \in Seq(Row), NEW l \in Row
  PROVE  /\ p \o Layout(Passed(type, rows)) \in Seq(Int)
         /\ Laid(l) \in Seq(Int)
         /\ Lets(type, rows, l) => p \o Layout(Passed(type, Append(rows, l))) =
                                     (p \o Layout(Passed(type, rows))) \o Laid(l)
         /\ ~Lets(type, rows, l) => p \o Layout(Passed(type, Append(rows, l))) =
                                      p \o Layout(Passed(type, rows))
<1> DEFINE s == Passed(type, rows)
<1>1. /\ s \in Seq(Row)
      /\ Lets(type, rows, l) => Passed(type, Append(rows, l)) = Append(s, l)
      /\ ~Lets(type, rows, l) => Passed(type, Append(rows, l)) = s
  BY PassedAppend
<1> HIDE DEF s
<1>2. l \in Seq(Int) /\ s \in Seq(Seq(Int))
  <2>1. Row \subseteq Seq(Int)
    BY RowIs
  <2> QED
    BY <1>1, <2>1, SeqMonotonic
<1>3. Layout(s) \in Seq(Int) /\ Layout(Append(s, l)) = WithLaid(Layout(s), l)
  BY <1>2, LayoutAppend
<1>4. Laid(l) \in Seq(Int)
  BY <1>2, LayoutTyped
<1>5. p \o (Layout(s) \o Laid(l)) = (p \o Layout(s)) \o Laid(l) /\ p \o Layout(s) \in Seq(Int)
  BY <1>3, <1>4, Associative, Joined
<1> QED
  BY <1>1, <1>3, <1>4, <1>5 DEF WithLaid, s

\* o has delivered p and then what its filter lets through of the rows.
Shows(o, p, type, rows) ==
  /\ o \in Outputs /\ rows \in Seq(Row)
  /\ o.delivered = p \o Layout(Passed(type, rows))
  /\ o.filter = After(type, rows)

LEMMA EmitShows ==
  ASSUME NEW o, NEW p \in Seq(Int), NEW type \in FilterTypes, NEW rows, Shows(o, p, type, rows)
  PROVE  /\ Shows(Emit(o), p, type, Append(rows, o.buf))
         /\ Emit(o).buf = <<>> /\ Emit(o).open = o.open
<1> DEFINE l == o.buf
           f == Judged(o.filter, l)
           e == [o EXCEPT !.buf = <<>>, !.filter = f]
<1>1. /\ o \in Outputs /\ rows \in Seq(Row) /\ l \in Seq(Alphabet) /\ l \in Row
      /\ o.delivered = p \o Layout(Passed(type, rows)) /\ o.filter = After(type, rows)
      /\ Laid(l) = Append(l, NL) /\ Laid(l) \in Seq(Int)
  <2>1. o \in Outputs /\ l \in Seq(Alphabet)
    BY OutputIs DEF Shows
  <2>2. l \in Row /\ ~IsError(l)
    BY <2>1, RowIs
  <2>3. l \in Seq(Int)
    BY <2>1, Widened
  <2> QED
    BY <2>1, <2>2, <2>3, LayoutTyped DEF Shows, Laid
<1>2. Emit(o) = IF Passes(o.filter, l) THEN Deliver(e, Append(l, NL)) ELSE e
  BY DEF Emit
<1> HIDE DEF l, f
<1>3. (Passes(o.filter, l) <=> Lets(type, rows, l)) /\ f = After(type, Append(rows, l))
  BY <1>1, JudgedAfter DEF f
<1>4. f \in Filters
  <2>1. o.filter \in Filters
    BY <1>1, OutputIs
  <2> QED
    BY <2>1, JudgedIs DEF f
<1>5. /\ e \in Outputs /\ e.buf = <<>> /\ e.filter = f /\ e.open = o.open
      /\ e.delivered = o.delivered
  BY <1>1, <1>4, EmptySeq DEF Outputs
<1> HIDE DEF e
<1>6. Append(rows, l) \in Seq(Row)
  BY <1>1, AppendProperties
<1>7. CASE Passes(o.filter, l)
  <2>1. Emit(o) = Deliver(e, Laid(l))
    BY <1>1, <1>2, <1>7
  <2>2. /\ Emit(o) \in Outputs /\ Emit(o).delivered = o.delivered \o Laid(l)
        /\ Emit(o).buf = <<>> /\ Emit(o).open = o.open /\ Emit(o).filter = f
    <3> DEFINE k == Laid(l)
    <3> HIDE DEF k
    <3>1. k \in Seq(Int) /\ Emit(o) = Deliver(e, k)
      BY <1>1, <2>1 DEF k
    <3>2. /\ Deliver(e, k) \in Outputs /\ Deliver(e, k).delivered = e.delivered \o k
          /\ Deliver(e, k).buf = e.buf /\ Deliver(e, k).open = e.open
          /\ Deliver(e, k).filter = e.filter
      BY <1>5, <3>1, DeliverIs
    <3> QED
      BY <1>5, <3>1, <3>2 DEF k
  <2>3. p \o Layout(Passed(type, Append(rows, l))) = (p \o Layout(Passed(type, rows))) \o Laid(l)
    BY <1>1, <1>3, <1>7, OneMore
  <2>4. Emit(o).delivered = p \o Layout(Passed(type, Append(rows, l)))
    BY <1>1, <2>2, <2>3
  <2> QED
    BY <1>3, <1>6, <2>2, <2>4 DEF Shows, l
<1>8. CASE ~Passes(o.filter, l)
  <2>1. Emit(o) = e
    BY <1>2, <1>8
  <2>2. p \o Layout(Passed(type, Append(rows, l))) = p \o Layout(Passed(type, rows))
    BY <1>1, <1>3, <1>8, OneMore
  <2>3. Emit(o).delivered = p \o Layout(Passed(type, Append(rows, l)))
    BY <1>1, <1>5, <2>1, <2>2
  <2> QED
    BY <1>3, <1>5, <1>6, <2>1, <2>3 DEF Shows, l
<1> QED
  BY <1>7, <1>8

\* An error passes every filter and is not seen by it.
LEMMA ErrorShows ==
  ASSUME NEW o, NEW p \in Seq(Int), NEW type \in FilterTypes, NEW rows, Shows(o, p, type, rows)
  PROVE  /\ Shows(Deliver(o, <<ERROR>>), p, type, Append(rows, <<ERROR>>))
         /\ Deliver(o, <<ERROR>>).buf = o.buf /\ Deliver(o, <<ERROR>>).open = o.open
<1> DEFINE l == <<ERROR>>
           d == Deliver(o, l)
<1>1. /\ o \in Outputs /\ rows \in Seq(Row)
      /\ o.delivered = p \o Layout(Passed(type, rows)) /\ o.filter = After(type, rows)
  BY DEF Shows
<1>2. l \in Row /\ Laid(l) = l /\ l \in Seq(Int)
  BY RowIs DEF Laid
<1>3. Lets(type, rows, l) /\ After(type, Append(rows, l)) = After(type, rows)
  BY <1>1, ErrorAfter
<1> HIDE DEF l
<1>4. d \in Outputs /\ d.delivered = o.delivered \o l /\ d.buf = o.buf /\ d.open = o.open
      /\ d.filter = o.filter
  BY <1>1, <1>2, DeliverIs
<1>5. p \o Layout(Passed(type, Append(rows, l))) = (p \o Layout(Passed(type, rows))) \o Laid(l)
  BY <1>1, <1>2, <1>3, OneMore
<1>6. Append(rows, l) \in Seq(Row)
  BY <1>1, <1>2, AppendProperties
<1> HIDE DEF d
<1>7. Shows(d, p, type, Append(rows, l))
  BY <1>1, <1>2, <1>3, <1>4, <1>5, <1>6 DEF Shows
<1> QED
  BY <1>4, <1>7 DEF d, l

-----------------------------------------------------------------------------
(* Text that is collected                                                  *)

\* The rows that are complete when a has been read.
RowsOf(a) == Cut(a.lines) \o Over(a.line)

LineDone(a) == [lines |-> Append(a.lines, a.line), line |-> <<>>]

LEMMA RowsAre ==
  ASSUME NEW a \in Readings
  PROVE  /\ RowsOf(a) \in Seq(Row) /\ Rest(a.line) \in Seq(Alphabet)
         /\ Rest(a.line) = <<>> <=> a.line = <<>>
         /\ LineDone(a) \in Readings
         /\ Append(RowsOf(a), Rest(a.line)) = RowsOf(LineDone(a))
         /\ a.line = <<>> => RowsOf(a) = Cut(a.lines)
<1> DEFINE k == Cut(a.lines)
           l == a.line
           v == Over(l)
           r == Rest(l)
<1>1. /\ a.lines \in Seq(Row) /\ l \in Seq(Alphabet) /\ l \in Row
  BY RowIs DEF Readings
<1>2. /\ k \in Seq(Row) /\ Cut(Append(a.lines, l)) = WithCut(k, l)
  BY <1>1, CutAppend
<1>3. /\ v \in Seq(Row)
      /\ r \in Seq(Alphabet) /\ Pieces(l) = Append(v, r) /\ (r = <<>> <=> l = <<>>)
  <2>1. Over(l) \in Seq(Seq(Alphabet)) /\ r \in Seq(Alphabet) /\ Pieces(l) = Append(Over(l), r)
    BY <1>1, SplitIs
  <2>2. r = <<>> <=> l = <<>>
    BY <1>1, SplitIs
  <2>3. Seq(Alphabet) \subseteq Row
    BY RowIs
  <2>4. Over(l) \in Seq(Row)
    BY <2>1, <2>3, SeqMonotonic
  <2> QED
    BY <2>1, <2>2, <2>3, <2>4
<1>4. r \in Row
  BY <1>3, RowIs
<1> HIDE DEF k, v, r, l
<1>5. k \o Append(v, r) = Append(k \o v, r)
  <2>1. <<r>> \in Seq(Row) /\ Append(v, r) = v \o <<r>>
    BY <1>3, <1>4, AppendIsConcat
  <2>2. k \o v \in Seq(Row)
    BY <1>2, <1>3, ConcatProperties
  <2>3. Append(k \o v, r) = (k \o v) \o <<r>>
    BY <1>4, <2>2, AppendIsConcat
  <2>4. (k \o v) \o <<r>> = k \o (v \o <<r>>)
    BY <1>2, <1>3, <2>1, ConcatAssociative
  <2> QED
    BY <2>1, <2>3, <2>4
<1>6. Append(k \o v, r) = Cut(Append(a.lines, l))
  BY <1>2, <1>3, <1>5 DEF WithCut
<1>7. LineDone(a) \in Readings
  <2>1. Append(a.lines, l) \in Seq(Row)
    BY <1>1, AppendProperties
  <2>2. [lines |-> Append(a.lines, l), line |-> <<>>] \in Readings
    BY <2>1, EmptySeq DEF Readings
  <2> QED
    BY <2>2 DEF LineDone, l
<1>8. \A s \in Seq(Row) : Cut(s) \in Seq(Row) /\ Cut(s) \o Over(<<>>) = Cut(s)
  <2>1. \A s \in Seq(Row) : Cut(s) \in Seq(Row)
    BY <1>1, CutAppend
  <2> QED
    BY <2>1, EmptyLine, ConcatEmptySeq
<1>9. RowsOf(LineDone(a)) = Cut(Append(a.lines, l))
  <2>1. Append(a.lines, l) \in Seq(Row)
    BY <1>1, AppendProperties
  <2>2. LineDone(a).lines = Append(a.lines, l) /\ LineDone(a).line = <<>>
    BY DEF LineDone, l
  <2> QED
    BY <1>8, <2>1, <2>2 DEF RowsOf
<1>10. RowsOf(a) = k \o v /\ k \o v \in Seq(Row)
  <2>1. RowsOf(a) = k \o v
    BY DEF RowsOf, k, v, l
  <2> QED
    BY <1>2, <1>3, <2>1, ConcatProperties
<1>11. l = <<>> => k \o v = k
  BY <1>2, EmptyLine, ConcatEmptySeq DEF v
<1> QED
  BY <1>3, <1>6, <1>7, <1>9, <1>10, <1>11 DEF k, r, l

\* What was read as a is collected in o, behind p.
Collects(o, p, type, a) ==
  /\ a \in Readings /\ Shows(o, p, type, RowsOf(a))
  /\ o.buf = Rest(a.line) /\ o.open = FALSE

LEMMA EmitCollects ==
  ASSUME NEW o, NEW p \in Seq(Int), NEW type \in FilterTypes, NEW a, Collects(o, p, type, a)
  PROVE  Collects(Emit(o), p, type, LineDone(a))
<1>1. a \in Readings /\ Shows(o, p, type, RowsOf(a)) /\ o.buf = Rest(a.line) /\ o.open = FALSE
  BY DEF Collects
<1>2. LineDone(a) \in Readings /\ Append(RowsOf(a), Rest(a.line)) = RowsOf(LineDone(a))
  BY <1>1, RowsAre
<1>3. /\ Shows(Emit(o), p, type, Append(RowsOf(a), o.buf))
      /\ Emit(o).buf = <<>> /\ Emit(o).open = o.open
  BY <1>1, EmitShows
<1>4. Rest(LineDone(a).line) = <<>>
  BY EmptyLine DEF LineDone
<1> QED
  BY <1>1, <1>2, <1>3, <1>4 DEF Collects

LEMMA PartialCollects ==
  ASSUME NEW o, NEW p \in Seq(Int), NEW type \in FilterTypes, NEW a, Collects(o, p, type, a)
  PROVE  /\ Collects(EmitPartial(o), p, type, EndRow(a))
         /\ EndRow(a) \in Readings /\ EndRow(a).line = <<>>
<1>1. a \in Readings /\ o.buf = Rest(a.line)
  BY DEF Collects
<1>2. o.buf = <<>> <=> a.line = <<>>
  BY <1>1, RowsAre
<1>3. CASE a.line = <<>>
  BY <1>1, <1>2, <1>3 DEF EmitPartial, EndRow
<1>4. CASE a.line # <<>>
  <2>1. EmitPartial(o) = Emit(o) /\ EndRow(a) = LineDone(a)
    BY <1>2, <1>4 DEF EmitPartial, EndRow, LineDone
  <2>2. LineDone(a) \in Readings /\ LineDone(a).line = <<>>
    BY <1>1, RowsAre DEF LineDone
  <2> QED
    BY <2>1, <2>2, EmitCollects
<1> QED
  BY <1>3, <1>4

LEMMA CollectCollects ==
  ASSUME NEW o, NEW p \in Seq(Int), NEW type \in FilterTypes, NEW a, Collects(o, p, type, a),
         NEW c \in Chars
  PROVE  Collects(Collect(o, c), p, type, NextItem(a, c))
<1>1. /\ a \in Readings /\ Shows(o, p, type, RowsOf(a)) /\ o.buf = Rest(a.line) /\ o.open = FALSE
      /\ o \in Outputs
  BY DEF Collects, Shows
<1>2. CASE c = NL
  <2>1. Collect(o, c) = Emit(o)
    BY <1>2, CodesAre DEF Collect
  <2>2. NextItem(a, c) = LineDone(a)
    BY <1>2, CodesAre, ItemsAreInts DEF NextItem, LineDone
  <2> QED
    BY <2>1, <2>2, EmitCollects
<1>3. CASE c = CR
  <2>1. Collect(o, c) = o
    BY <1>3, CodesAre DEF Collect
  <2>2. NextItem(a, c) = a
    BY <1>3, CodesAre, ItemsAreInts DEF NextItem
  <2> QED
    BY <2>1, <2>2
<1>4. CASE c \in Alphabet
  <2> DEFINE l == a.line
             u == Append(l, c)
             b == [a EXCEPT !.line = u]
             room == IF Len(o.buf) >= MaxLine THEN Emit(o) ELSE o
             q == [room EXCEPT !.buf = Append(@, c)]
  <2>1. l \in Seq(Alphabet) /\ a.lines \in Seq(Row) /\ u \in Seq(Alphabet) /\ l \in Row
    BY <1>1, <1>4, AppendProperties, RowIs DEF Readings
  <2>2. NextItem(a, c) = b
    BY <1>4, CodesAre DEF NextItem
  <2>3. b \in Readings /\ b.lines = a.lines /\ b.line = u
    BY <1>1, <2>1 DEF Readings
  <2>4. Collect(o, c) = q
    BY <1>4, CodesAre DEF Collect
  <2>5. /\ Len(Rest(l)) >= MaxLine => Over(u) = Append(Over(l), Rest(l)) /\ Rest(u) = <<c>>
        /\ ~(Len(Rest(l)) >= MaxLine) => Over(u) = Over(l) /\ Rest(u) = Append(Rest(l), c)
    BY <1>4, <2>1, Growing
  <2>6. RowsOf(b) = Cut(a.lines) \o Over(u) /\ RowsOf(a) = Cut(a.lines) \o Over(l)
    BY <2>3 DEF RowsOf
  <2> HIDE DEF b, u
  <2>7. /\ Shows(room, p, type, RowsOf(b)) /\ room.open = FALSE
        /\ Append(room.buf, c) = Rest(u)
    <3>1. CASE Len(o.buf) >= MaxLine
      <4>1. room = Emit(o)
        BY <3>1
      <4>2. /\ Shows(Emit(o), p, type, Append(RowsOf(a), o.buf))
            /\ Emit(o).buf = <<>> /\ Emit(o).open = o.open
        BY <1>1, EmitShows
      <4>3. RowsOf(b) = Append(RowsOf(a), o.buf)
        <5> DEFINE k == Cut(a.lines)
                   v == Over(l)
                   r == Rest(l)
        <5>1. k \in Seq(Row)
          BY <2>1, CutAppend
        <5>2. v \in Seq(Seq(Alphabet)) /\ r \in Seq(Alphabet)
          BY <2>1, SplitIs
        <5>3. Seq(Alphabet) \subseteq Row
          BY RowIs
        <5> HIDE DEF k, v, r
        <5>4. v \in Seq(Row) /\ r \in Row
          BY <5>2, <5>3, SeqMonotonic
        <5>5. <<r>> \in Seq(Row) /\ Append(v, r) = v \o <<r>>
          BY <5>4, AppendIsConcat
        <5>6. k \o v \in Seq(Row)
          BY <5>1, <5>4, ConcatProperties
        <5>7. Append(k \o v, r) = (k \o v) \o <<r>>
          BY <5>4, <5>6, AppendIsConcat
        <5>8. (k \o v) \o <<r>> = k \o (v \o <<r>>)
          BY <5>1, <5>4, <5>5, ConcatAssociative
        <5>9. Over(u) = Append(v, r) /\ o.buf = r
          BY <1>1, <2>5, <3>1 DEF v, r
        <5>10. RowsOf(b) = k \o Over(u) /\ RowsOf(a) = k \o v
          BY <2>6 DEF k, v
        <5> QED
          BY <5>5, <5>7, <5>8, <5>9, <5>10
      <4>4. Rest(u) = <<c>> /\ Append(<<>>, c) = <<c>>
        BY <1>1, <2>5, <3>1
      <4> QED
        BY <1>1, <4>1, <4>2, <4>3, <4>4
    <3>2. CASE ~(Len(o.buf) >= MaxLine)
      <4>1. room = o
        BY <3>2
      <4>2. Over(u) = Over(l) /\ Rest(u) = Append(Rest(l), c)
        BY <1>1, <2>5, <3>2
      <4>3. RowsOf(b) = RowsOf(a)
        BY <2>6, <4>2
      <4> QED
        BY <1>1, <4>1, <4>2, <4>3
    <3> QED
      BY <3>1, <3>2
  <2> HIDE DEF room
  <2>8. room \in Outputs
    BY <2>7 DEF Shows
  <2>9. Rest(u) \in Seq(Alphabet)
    BY <2>1, SplitIs
  <2>10. /\ q \in Outputs /\ q.buf = Rest(u) /\ q.open = room.open
         /\ q.filter = room.filter /\ q.delivered = room.delivered
    BY <2>7, <2>8, <2>9 DEF Outputs
  <2> HIDE DEF q
  <2>11. Shows(q, p, type, RowsOf(b))
    BY <2>7, <2>10 DEF Shows
  <2> QED
    BY <2>2, <2>3, <2>4, <2>7, <2>10, <2>11 DEF Collects
<1> QED
  BY <1>2, <1>3, <1>4 DEF Chars

\* One more item is read behind the others.
LEMMA ReadNext ==
  ASSUME NEW m \in Seq(Items), NEW t \in Seq(Items), NEW c \in Items
  PROVE  /\ m \o t \in Seq(Items) /\ ReadItems(m \o t) \in Readings
         /\ m \o Append(t, c) = Append(m \o t, c)
         /\ ReadItems(m \o Append(t, c)) = NextItem(ReadItems(m \o t), c)
<1>1. m \o t \in Seq(Items)
  BY ConcatProperties
<1>2. m \in Seq(Int) /\ t \in Seq(Int) /\ c \in Int
  BY ItemsAreInts
<1>3. m \o Append(t, c) = Append(m \o t, c)
  BY <1>2, AppendJoined
<1> DEFINE u == m \o t
<1> HIDE DEF u
<1>4. ReadItems(u) \in Readings /\ ReadItems(Append(u, c)) = NextItem(ReadItems(u), c)
  BY <1>1, ReadAppend DEF u
<1> QED
  BY <1>1, <1>3, <1>4 DEF u

LEMMA ReadNothing ==
  ASSUME NEW m \in Seq(Items)
  PROVE  m \o <<>> = m /\ ReadItems(m) \in Readings
<1>1. m \o <<>> = m
  BY ConcatEmptySeq
<1>2. NL \in Items
  BY ItemsAreInts
<1> QED
  BY <1>1, <1>2, ReadAppend

\* A text that is collected.
LEMMA CollectAllCollects ==
  ASSUME NEW o, NEW p \in Seq(Int), NEW type \in FilterTypes, NEW m \in Seq(Items),
         NEW s \in Seq(Chars), Collects(o, p, type, ReadItems(m))
  PROVE  Collects(CollectAll(o, s), p, type, ReadItems(m \o s))
<1> DEFINE N == Len(s)
<1>1. /\ N \in Nat /\ s \in Seq(Items) /\ o \in Outputs
      /\ \A i \in 1 .. N : s[i] \in Chars /\ s[i] \in Items
  <2>1. N \in Nat /\ \A i \in 1 .. N : s[i] \in Chars
    BY LenProperties, ElementOfSeq
  <2> QED
    BY <2>1, ItemsAreInts DEF Collects, Shows
<1>2. PICK f : /\ f \in [0 .. N -> Outputs] /\ f[0] = o
               /\ \A i \in 1 .. N : f[i] = Collect(f[i - 1], s[i])
               /\ CollectAll(o, s) = f[N]
  BY <1>1, CollectedIs
<1>3. \A n \in 0 .. N : SubSeq(s, 1, n) \in Seq(Items)
  BY <1>1, SubSeqProperties
<1> HIDE DEF N
<1> DEFINE Done(n) == Collects(f[n], p, type, ReadItems(m \o SubSeq(s, 1, n)))
           T == {n \in 0 .. N : Done(n)}
<1>4. 0 \in T
  <2>1. SubSeq(s, 1, 0) = <<>>
    BY SubSeqEmpty
  <2>2. m \o SubSeq(s, 1, 0) = m
    BY <2>1, ReadNothing
  <2>3. Done(0)
    BY <1>2, <2>2
  <2>4. 0 \in 0 .. N
    BY <1>1
  <2> QED
    BY <2>3, <2>4
<1>5. ASSUME NEW n \in 1 .. N, n - 1 \in T PROVE n \in T
  <2> DEFINE t == SubSeq(s, 1, n - 1)
  <2>1. n \in 0 .. N /\ n - 1 \in 0 .. N /\ Done(n - 1)
    BY <1>1, <1>5
  <2>2. s[n] \in Chars /\ s[n] \in Items /\ f[n] = Collect(f[n - 1], s[n])
    BY <1>1, <1>2, <2>1
  <2>3. SubSeq(s, 1, n) = t \o <<s[n]>>
    BY <1>1, SubSeqRecursiveSecond DEF N
  <2>4. t \in Seq(Items)
    BY <1>3, <2>1
  <2>5. Append(t, s[n]) = t \o <<s[n]>>
    BY <2>2, <2>4, AppendIsConcat
  <2>6. Collects(f[n - 1], p, type, ReadItems(m \o t))
    BY <2>1
  <2> HIDE DEF t, Done
  <2>7. Collects(f[n], p, type, NextItem(ReadItems(m \o t), s[n]))
    BY <2>2, <2>6, CollectCollects
  <2>8. ReadItems(m \o Append(t, s[n])) = NextItem(ReadItems(m \o t), s[n])
    BY <2>2, <2>4, ReadNext
  <2>9. Done(n)
    BY <2>3, <2>5, <2>7, <2>8 DEF Done
  <2> QED
    BY <2>1, <2>9
<1> HIDE DEF T
<1>6. \A n \in 0 .. N : n \in T
  BY <1>1, <1>4, <1>5, Induction
<1>7. N \in 0 .. N /\ SubSeq(s, 1, N) = s
  BY <1>1, SubSeqFull DEF N
<1>8. Done(N)
  BY <1>6, <1>7 DEF T
<1> QED
  BY <1>2, <1>7, <1>8

\* An error that is reported while text is collected.
LEMMA ErrorCollects ==
  ASSUME NEW o, NEW p \in Seq(Int), NEW type \in FilterTypes, NEW a, Collects(o, p, type, a),
         InCommand
  PROVE  Collects(ErrorLine(o), p, type, NextItem(a, ERROR))
<1> DEFINE e == EmitPartial(o)
           r == EndRow(a)
           x == <<ERROR>>
           d == Deliver(e, x)
           b == [lines |-> Append(r.lines, x), line |-> <<>>]
<1>1. Collects(e, p, type, r) /\ r \in Readings /\ r.line = <<>>
  BY PartialCollects
<1>2. /\ Shows(e, p, type, RowsOf(r)) /\ e.buf = Rest(r.line) /\ e.open = FALSE
  BY <1>1 DEF Collects
<1>3. EndLine(o) = e
  BY <1>2 DEF EndLine
<1>4. ErrorLine(o) = d
  BY <1>3 DEF ErrorLine
<1>5. NextItem(a, ERROR) = b
  BY ItemsAreInts DEF NextItem
<1> HIDE DEF e, r, d
<1>6. /\ Shows(d, p, type, Append(RowsOf(r), x))
      /\ d.buf = e.buf /\ d.open = e.open
  BY <1>2, ErrorShows DEF d
<1>7. r.lines \in Seq(Row) /\ x \in Row
  BY <1>1, RowIs DEF Readings
<1>8. RowsOf(b) = Append(RowsOf(r), x)
  <2>1. RowsOf(r) = Cut(r.lines) /\ Cut(r.lines) \in Seq(Row)
    BY <1>1, <1>7, RowsAre, CutAppend
  <2>2. Cut(Append(r.lines, x)) = Cut(r.lines) \o Pieces(x)
    BY <1>7, CutAppend DEF WithCut
  <2>3. Append(Cut(r.lines), x) = Cut(r.lines) \o <<x>>
    BY <1>7, <2>1, AppendIsConcat
  <2>4. Append(r.lines, x) \in Seq(Row)
    BY <1>7, AppendProperties
  <2>5. Cut(Append(r.lines, x)) \in Seq(Row)
    BY <1>7, <2>4, CutAppend
  <2>6. RowsOf(b) = Cut(Append(r.lines, x)) \o <<>>
    BY EmptyLine DEF RowsOf
  <2>7. RowsOf(b) = Cut(Append(r.lines, x))
    BY <2>5, <2>6, ConcatEmptySeq
  <2> QED
    BY <2>1, <2>2, <2>3, <2>7, PiecesOfRow
<1>9. b \in Readings
  BY <1>7, AppendProperties, EmptySeq DEF Readings
<1>10. d.buf = Rest(b.line) /\ d.open = FALSE
  BY <1>1, <1>2, <1>6
<1> QED
  BY <1>4, <1>5, <1>6, <1>8, <1>9, <1>10 DEF Collects

-----------------------------------------------------------------------------
(* Text that is written straight to the terminal                           *)

\* What is on the terminal, behind p, when a has been read.
Sent(p, a) == (p \o Layout(Passed("none", a.lines))) \o a.line

Direct(o, p, a) ==
  /\ a \in Readings /\ o \in Outputs /\ o.buf = <<>> /\ o.filter = NoFilter
  /\ o.delivered = Sent(p, a) /\ (o.open <=> a.line # <<>>)

LEMMA SentLine ==
  ASSUME NEW p \in Seq(Int), NEW a \in Readings
  PROVE  /\ Sent(p, a) \in Seq(Int) /\ LineDone(a) \in Readings /\ LineDone(a).line = <<>>
         /\ Sent(p, LineDone(a)) = Append(Sent(p, a), NL)
<1> DEFINE l == a.line
           q == p \o Layout(Passed("none", a.lines))
           r == p \o Layout(Passed("none", Append(a.lines, l)))
<1>1. a.lines \in Seq(Row) /\ l \in Seq(Alphabet) /\ l \in Row /\ ~IsError(l) /\ l \in Seq(Int)
  BY RowIs, Widened DEF Readings
<1>2. Lets("none", a.lines, l) /\ Laid(l) = Append(l, NL)
  BY <1>1 DEF Lets, Laid
<1>3. q \in Seq(Int) /\ r = q \o Append(l, NL)
  <2>1. q \in Seq(Int) /\ (Lets("none", a.lines, l) => r = q \o Laid(l))
    <3> DEFINE k == a.lines
    <3> HIDE DEF k, l
    <3>1. k \in Seq(Row) /\ l \in Row
      BY <1>1 DEF k
    <3> USE DEF k
    <3> QED
      BY <3>1, OneMore
  <2> QED
    BY <1>2, <2>1
<1> HIDE DEF l, q, r
<1>4. q \o Append(l, NL) = Append(q \o l, NL) /\ Append(l, NL) \in Seq(Int)
  BY <1>1, <1>3, CodesAre, AppendJoined
<1>5. q \o l \in Seq(Int) /\ r \in Seq(Int) /\ r \o <<>> = r
  BY <1>1, <1>3, <1>4, Joined
<1>6. LineDone(a) \in Readings /\ LineDone(a).line = <<>> /\ LineDone(a).lines = Append(a.lines, l)
  BY RowsAre DEF LineDone, l
<1>7. Sent(p, a) = q \o l /\ Sent(p, LineDone(a)) = r \o <<>>
  BY <1>6 DEF Sent, q, l, r
<1> QED
  BY <1>3, <1>4, <1>5, <1>6, <1>7

LEMMA SentNext ==
  ASSUME NEW p \in Seq(Int), NEW a \in Readings, NEW c \in Chars
  PROVE  /\ Sent(p, NextItem(a, c)) = Keep(Sent(p, a), c, Visible)
         /\ c = NL => NextItem(a, c).line = <<>>
         /\ c = CR => NextItem(a, c) = a
         /\ c \in Alphabet => NextItem(a, c).line # <<>>
<1>1. CASE c = NL
  <2>1. NextItem(a, c) = LineDone(a)
    BY <1>1, CodesAre, ItemsAreInts DEF NextItem, LineDone
  <2>2. Sent(p, LineDone(a)) = Append(Sent(p, a), NL) /\ LineDone(a).line = <<>>
    BY SentLine
  <2> QED
    BY <1>1, <2>1, <2>2, CodesAre DEF Keep
<1>2. CASE c = CR
  <2>1. NextItem(a, c) = a
    BY <1>2, CodesAre, ItemsAreInts DEF NextItem
  <2> QED
    BY <1>2, <2>1, CodesAre DEF Keep
<1>3. CASE c \in Alphabet
  <2> DEFINE l == a.line
             u == Append(l, c)
             b == [a EXCEPT !.line = u]
             q == p \o Layout(Passed("none", a.lines))
  <2>1. l \in Seq(Alphabet) /\ a.lines \in Seq(Row) /\ u \in Seq(Alphabet) /\ l \in Row /\ l \in Seq(Int)
        /\ u # <<>>
    BY <1>3, AppendProperties, RowIs, Widened DEF Readings
  <2>2. NextItem(a, c) = b
    BY <1>3, CodesAre DEF NextItem
  <2>3. b \in Readings /\ b.lines = a.lines /\ b.line = u
    BY <2>1 DEF Readings
  <2>4. q \in Seq(Int)
    BY <2>1, OneMore
  <2> HIDE DEF b, q
  <2>5. Sent(p, b) = q \o u /\ Sent(p, a) = q \o l
    BY <2>3 DEF Sent, q
  <2>6. q \o u = Append(q \o l, c)
    BY <1>3, <2>1, <2>4, CodesAre, AppendJoined
  <2> QED
    BY <1>3, <2>1, <2>2, <2>3, <2>5, <2>6, CodesAre DEF Keep
<1> QED
  BY <1>1, <1>2, <1>3, CodesAre DEF Chars

LEMMA SentAll ==
  ASSUME NEW p \in Seq(Int), NEW m \in Seq(Items)
  PROVE  \A s \in Seq(Chars) : Sent(p, ReadItems(m \o s)) = Sent(p, ReadItems(m)) \o Only(s, Visible)
<1> DEFINE P == {s \in Seq(Chars) : Sent(p, ReadItems(m \o s)) = Sent(p, ReadItems(m)) \o Only(s, Visible)}
<1>1. ReadItems(m) \in Readings /\ m \o <<>> = m
  BY ReadNothing
<1>2. Sent(p, ReadItems(m)) \in Seq(Int)
  BY <1>1, SentLine
<1>3. <<>> \in P
  <2>1. <<>> \in Seq(Chars) /\ Only(<<>>, Visible) = <<>>
    BY EmptySeq, OnlyEmpty
  <2>2. Sent(p, ReadItems(m)) \o <<>> = Sent(p, ReadItems(m))
    BY <1>2, Joined
  <2> QED
    BY <1>1, <2>1, <2>2
<1>4. ASSUME NEW s \in Seq(Chars), NEW c \in Chars, s \in P PROVE Append(s, c) \in P
  <2> DEFINE a == ReadItems(m \o s)
             x == Sent(p, ReadItems(m))
             y == Only(s, Visible)
  <2>1. s \in Seq(Items) /\ c \in Items /\ s \in Seq(Int) /\ c \in Int /\ Append(s, c) \in Seq(Chars)
    BY ItemsAreInts, Widened, CodesAre, AppendProperties
  <2>2. a \in Readings /\ ReadItems(m \o Append(s, c)) = NextItem(a, c)
    BY <2>1, ReadNext
  <2>3. Sent(p, a) = x \o y /\ x \in Seq(Int)
    BY <1>2, <1>4
  <2>4. y \in Seq(Int) /\ Only(Append(s, c), Visible) = Keep(y, c, Visible)
    BY <2>1, OnlyAppend
  <2> HIDE DEF a, x, y
  <2>5. Sent(p, NextItem(a, c)) = Keep(x \o y, c, Visible)
    BY <2>2, <2>3, SentNext
  <2>6. x \o Keep(y, c, Visible) = Keep(x \o y, c, Visible)
    BY <2>1, <2>3, <2>4, AppendJoined DEF Keep
  <2>7. Sent(p, ReadItems(m \o Append(s, c))) = x \o Only(Append(s, c), Visible)
    BY <2>2, <2>4, <2>5, <2>6
  <2> QED
    BY <2>1, <2>7 DEF x
<1> HIDE DEF P
<1>5. Seq(Chars) \subseteq P
  BY <1>3, <1>4, SeqInduction
<1> QED
  BY <1>5 DEF P

\* A text whose letters are followed by line endings leaves no line behind, or the one
\* that it found.
LEMMA ReadEnded ==
  ASSUME NEW m \in Seq(Items)
  PROVE  \A s \in Seq(Chars) : Ended(s) =>
           IF \E i \in 1 .. Len(s) : s[i] = NL THEN ReadItems(m \o s).line = <<>>
           ELSE ReadItems(m \o s) = ReadItems(m)
<1> DEFINE Has(s) == \E i \in 1 .. Len(s) : s[i] = NL
           P == {s \in Seq(Chars) : Ended(s) => IF Has(s) THEN ReadItems(m \o s).line = <<>>
                                                ELSE ReadItems(m \o s) = ReadItems(m)}
<1>1. <<>> \in P
  <2>1. <<>> \in Seq(Chars) /\ ~Has(<<>>)
    BY EmptySeq
  <2> QED
    BY <2>1, ReadNothing
<1>2. ASSUME NEW s \in Seq(Chars), NEW c \in Chars, s \in P PROVE Append(s, c) \in P
  <2> DEFINE t == Append(s, c)
             a == ReadItems(m \o s)
  <2>1. s \in Seq(Items) /\ c \in Items /\ t \in Seq(Chars)
    BY ItemsAreInts, AppendProperties
  <2>2. a \in Readings /\ ReadItems(m \o t) = NextItem(a, c)
    BY <2>1, ReadNext
  <2>3. Ended(t) => c \notin Alphabet /\ (c # NL => Ended(s))
    BY EndedAppend
  <2>4. Has(t) <=> Has(s) \/ c = NL
    <3>1. /\ Len(t) = Len(s) + 1 /\ Len(s) \in Nat /\ t[Len(s) + 1] = c
          /\ \A i \in 1 .. Len(s) : t[i] = s[i]
      BY AppendProperties, LenProperties
    <3> HIDE DEF t
    <3>2. ASSUME Has(s) PROVE Has(t)
      <4>1. PICK i \in 1 .. Len(s) : s[i] = NL
        BY <3>2
      <4>2. i \in 1 .. Len(t) /\ t[i] = NL
        BY <3>1, <4>1
      <4> QED
        BY <4>2
    <3>3. ASSUME c = NL PROVE Has(t)
      <4>1. Len(s) + 1 \in 1 .. Len(t)
        BY <3>1
      <4> QED
        BY <3>1, <3>3, <4>1
    <3>4. ASSUME Has(t), c # NL PROVE Has(s)
      <4>1. PICK i \in 1 .. Len(t) : t[i] = NL
        BY <3>4
      <4>2. i \in 1 .. Len(s) /\ s[i] = NL
        BY <3>1, <3>4, <4>1
      <4> QED
        BY <4>2
    <3> QED
      BY <3>2, <3>3, <3>4
  <2>5. <<>> \in Seq(Int)
    BY EmptySeq
  <2>6. /\ c = NL => NextItem(a, c).line = <<>>
        /\ c = CR => NextItem(a, c) = a
    BY <2>2, <2>5, SentNext
  <2>7. Ended(s) => IF Has(s) THEN a.line = <<>> ELSE a = ReadItems(m)
    BY <1>2
  <2> HIDE DEF t, a, Has
  <2>8. Ended(t) => IF Has(t) THEN ReadItems(m \o t).line = <<>> ELSE ReadItems(m \o t) = ReadItems(m)
    <3>1. CASE c \in Alphabet
      BY <2>3, <3>1
    <3>2. CASE c = NL
      BY <2>2, <2>4, <2>6, <3>2
    <3>3. CASE c = CR
      BY <2>2, <2>3, <2>4, <2>6, <2>7, <3>3, CodesAre
    <3> QED
      BY <3>1, <3>2, <3>3 DEF Chars
  <2> QED
    BY <2>1, <2>8 DEF t
<1> HIDE DEF P
<1>3. Seq(Chars) \subseteq P
  BY <1>1, <1>2, SeqInduction
<1> QED
  BY <1>3 DEF P

\* A text that ends with a letter leaves its line.
LEMMA ReadLeft ==
  ASSUME NEW m \in Seq(Items)
  PROVE  \A s \in Seq(Chars) : s # <<>> /\ s[Len(s)] \in Alphabet => ReadItems(m \o s).line # <<>>
<1> DEFINE P == {s \in Seq(Chars) : s # <<>> /\ s[Len(s)] \in Alphabet => ReadItems(m \o s).line # <<>>}
<1>1. <<>> \in P
  BY EmptySeq
<1>2. ASSUME NEW s \in Seq(Chars), NEW c \in Chars, s \in P PROVE Append(s, c) \in P
  <2> DEFINE t == Append(s, c)
             a == ReadItems(m \o s)
  <2>1. s \in Seq(Items) /\ c \in Items /\ t \in Seq(Chars) /\ t[Len(t)] = c
    BY ItemsAreInts, AppendProperties, LenProperties
  <2>2. a \in Readings /\ ReadItems(m \o t) = NextItem(a, c)
    BY <2>1, ReadNext
  <2>3. <<>> \in Seq(Int)
    BY EmptySeq
  <2>4. c \in Alphabet => NextItem(a, c).line # <<>>
    BY <2>2, <2>3, SentNext
  <2> HIDE DEF t, a
  <2> QED
    BY <2>1, <2>2, <2>4 DEF t
<1> HIDE DEF P
<1>3. Seq(Chars) \subseteq P
  BY <1>1, <1>2, SeqInduction
<1> QED
  BY <1>3 DEF P

\* A text is read behind the others.
LEMMA ReadText ==
  ASSUME NEW m \in Seq(Items), NEW s \in Seq(Items)
  PROVE  m \o s \in Seq(Items) /\ ReadItems(m \o s) \in Readings
<1>1. m \o s \in Seq(Items)
  BY ConcatProperties
<1> DEFINE u == m \o s
<1> HIDE DEF u
<1>2. ReadItems(u) \in Readings
  BY <1>1, ReadNothing DEF u
<1> QED
  BY <1>1, <1>2 DEF u

\* A text that is written.
LEMMA WriteDirect ==
  ASSUME InCommand, NEW o, NEW p \in Seq(Int), NEW m \in Seq(Items), Direct(o, p, ReadItems(m)),
         NEW s \in Seq(Chars), s # <<>>, Settles(s)
  PROVE  Direct(WriteText(o, s), p, ReadItems(m \o s))
<1> DEFINE a == ReadItems(m)
           b == ReadItems(m \o s)
           w == WriteText(o, s)
           c == s[Len(s)]
<1>1. /\ a \in Readings /\ o \in Outputs /\ o.buf = <<>> /\ o.filter = NoFilter
      /\ o.delivered = Sent(p, a) /\ (o.open <=> a.line # <<>>)
  BY DEF Direct
<1>2. b \in Readings
  BY ItemsAreInts, ReadText
<1>3. /\ w \in Outputs /\ w.delivered = o.delivered \o Only(s, Visible)
      /\ w.buf = o.buf /\ w.filter = o.filter
      /\ w.open = IF c \notin {NL, CR} THEN InCommand
                  ELSE IF NL \in ToSet(s) THEN FALSE ELSE o.open
  BY <1>1, WrittenIs
<1>4. Sent(p, b) = Sent(p, a) \o Only(s, Visible)
  BY SentAll
<1>5. /\ NL \in ToSet(s) <=> \E i \in 1 .. Len(s) : s[i] = NL
      /\ c \in {NL, CR} => Ended(s)
      /\ c \in Chars
  BY EndedBy
<1>6. Ended(s) => IF \E i \in 1 .. Len(s) : s[i] = NL THEN b.line = <<>> ELSE b = a
  BY ReadEnded
<1>7. c \in Alphabet => b.line # <<>>
  BY ReadLeft
<1> HIDE DEF a, b, w, c
<1>8. w.open <=> b.line # <<>>
  <2>1. CASE c \notin {NL, CR}
    BY <1>3, <1>5, <1>7, <2>1 DEF Chars
  <2>2. CASE c \in {NL, CR}
    <3>1. CASE NL \in ToSet(s)
      <4>1. ~w.open
        BY <1>3, <2>2, <3>1
      <4> QED
        BY <1>5, <1>6, <2>2, <3>1, <4>1
    <3>2. CASE NL \notin ToSet(s)
      <4>1. w.open = o.open
        BY <1>3, <2>2, <3>2
      <4>2. b = a
        BY <1>5, <1>6, <2>2, <3>2
      <4> QED
        BY <1>1, <4>1, <4>2
    <3> QED
      BY <3>1, <3>2
  <2> QED
    BY <2>1, <2>2
<1>9. w.buf = <<>> /\ w.filter = NoFilter /\ w.delivered = Sent(p, b)
  BY <1>1, <1>3, <1>4
<1> QED
  BY <1>2, <1>3, <1>8, <1>9 DEF Direct, w, b

\* The line that is open is ended.
LEMMA EndLineDirect ==
  ASSUME NEW o, NEW p \in Seq(Int), NEW a, Direct(o, p, a)
  PROVE  /\ Direct(EndLine(o), p, EndRow(a))
         /\ EndRow(a) \in Readings /\ EndRow(a).line = <<>> /\ EndLine(o).open = FALSE
<1> DEFINE d == Deliver(o, <<NL>>)
           no == FALSE
           q == [d EXCEPT !.open = no]
<1>1. /\ a \in Readings /\ o \in Outputs /\ o.buf = <<>> /\ o.filter = NoFilter
      /\ o.delivered = Sent(p, a) /\ (o.open <=> a.line # <<>>) /\ o.open \in BOOLEAN
  BY OutputIs DEF Direct
<1>2. EndLine(o) = IF o.open THEN q ELSE o
  BY <1>1 DEF EndLine, EmitPartial
<1>3. CASE a.line = <<>>
  <2>1. EndLine(o) = o /\ EndRow(a) = a /\ o.open = FALSE
    BY <1>1, <1>2, <1>3 DEF EndRow
  <2> QED
    BY <1>1, <1>3, <2>1
<1>4. CASE a.line # <<>>
  <2>1. EndLine(o) = q /\ EndRow(a) = LineDone(a)
    BY <1>1, <1>2, <1>4 DEF EndRow, LineDone
  <2>2. /\ LineDone(a) \in Readings /\ LineDone(a).line = <<>>
        /\ Sent(p, LineDone(a)) = Append(Sent(p, a), NL) /\ Sent(p, a) \in Seq(Int)
    BY <1>1, SentLine
  <2>3. <<NL>> \in Seq(Int) /\ Append(Sent(p, a), NL) = Sent(p, a) \o <<NL>>
    BY <2>2, CodesAre, AppendIsConcat
  <2>4. d \in Outputs /\ d.delivered = o.delivered \o <<NL>> /\ d.buf = o.buf /\ d.filter = o.filter
    BY <1>1, <2>3, DeliverIs
  <2>5. no \in BOOLEAN
    OBVIOUS
  <2> HIDE DEF d, no
  <2>6. q \in Outputs /\ q.delivered = d.delivered /\ q.buf = d.buf /\ q.filter = d.filter /\ q.open = no
    BY <2>4, <2>5 DEF Outputs
  <2> HIDE DEF q
  <2>7. Direct(q, p, LineDone(a))
    <3>1. q.delivered = Sent(p, LineDone(a))
      BY <1>1, <2>2, <2>3, <2>4, <2>6
    <3>2. q.open <=> LineDone(a).line # <<>>
      BY <2>2, <2>6 DEF no
    <3> QED
      BY <1>1, <2>2, <2>4, <2>6, <3>1, <3>2 DEF Direct
  <2> QED
    BY <2>1, <2>2, <2>6, <2>7 DEF no
<1> QED
  BY <1>3, <1>4

\* An error that is reported while text is written.
LEMMA ErrorDirect ==
  ASSUME InCommand, NEW o, NEW p \in Seq(Int), NEW a, Direct(o, p, a)
  PROVE  Direct(ErrorLine(o), p, NextItem(a, ERROR))
<1> DEFINE e == EndLine(o)
           r == EndRow(a)
           x == <<ERROR>>
           d == Deliver(e, x)
           b == [lines |-> Append(r.lines, x), line |-> <<>>]
           q == p \o Layout(Passed("none", r.lines))
           t == p \o Layout(Passed("none", b.lines))
<1>1. Direct(e, p, r) /\ r \in Readings /\ r.line = <<>> /\ e.open = FALSE
  BY EndLineDirect
<1>2. ErrorLine(o) = d
  BY DEF ErrorLine
<1>3. NextItem(a, ERROR) = b
  BY ItemsAreInts DEF NextItem
<1>4. /\ e \in Outputs /\ e.buf = <<>> /\ e.filter = NoFilter /\ e.delivered = Sent(p, r)
  BY <1>1 DEF Direct
<1>5. r.lines \in Seq(Row) /\ x \in Row /\ IsError(x) /\ x \in Seq(Int)
  BY <1>1, RowIs DEF Readings
<1>6. Lets("none", r.lines, x) /\ Laid(x) = x
  BY <1>5 DEF Lets, Laid
<1>7. b \in Readings /\ b.line = <<>> /\ b.lines = Append(r.lines, x)
  BY <1>5, AppendProperties, EmptySeq DEF Readings
<1> HIDE DEF e, r, b
<1>8. q \in Seq(Int) /\ t = q \o x
  <2> DEFINE k == r.lines
  <2> HIDE DEF k, x
  <2>1. k \in Seq(Row) /\ x \in Row
    BY <1>5 DEF k
  <2>2. p \o Layout(Passed("none", k)) \in Seq(Int)
        /\ (Lets("none", k, x) => p \o Layout(Passed("none", Append(k, x))) =
                                    (p \o Layout(Passed("none", k))) \o Laid(x))
    BY <2>1, OneMore
  <2> QED
    BY <1>6, <1>7, <2>2 DEF k
<1>9. /\ d \in Outputs /\ d.delivered = e.delivered \o x /\ d.buf = e.buf
      /\ d.filter = e.filter /\ d.open = e.open
  BY <1>4, <1>5, DeliverIs
<1>10. Sent(p, r) = q \o <<>> /\ Sent(p, b) = t \o <<>>
  BY <1>1, <1>7 DEF Sent
<1> HIDE DEF d, q, t
<1>11. Sent(p, r) = q /\ Sent(p, b) = q \o x
  BY <1>5, <1>8, <1>10, Joined
<1>12. d.delivered = Sent(p, b) /\ (d.open <=> b.line # <<>>)
  BY <1>1, <1>4, <1>7, <1>9, <1>11
<1>13. Direct(d, p, b)
  BY <1>4, <1>7, <1>9, <1>12 DEF Direct
<1> QED
  BY <1>2, <1>3, <1>13 DEF d, b

-----------------------------------------------------------------------------
(* The filter is applied to the whole of a command's output                *)

\* What a filter leaves of the rows, with the total of the count filter.
LEMMA Finished ==
  ASSUME NEW o, NEW p \in Seq(Int), NEW type \in FilterTypes, NEW rows, Shows(o, p, type, rows)
  PROVE  Total(o).delivered = p \o Layout(Filtered(type, rows))
<1> DEFINE q == p \o Layout(Passed(type, rows))
           f == o.filter
           n == Counted(rows)
           none == NoFilter
           l == <<COUNT + n>>
           v == <<COUNT + f.count, NL>>
           o2 == IF f.type = "count" THEN Deliver(o, v) ELSE o
<1>1. /\ o \in Outputs /\ rows \in Seq(Row) /\ o.delivered = q /\ f = After(type, rows)
      /\ o.delivered \in Seq(Int)
  BY OutputIs DEF Shows
<1>2. f.type = type /\ (type = "count" => f.count = n)
  BY <1>1 DEF After
<1>3. Total(o) = [o2 EXCEPT !.filter = none]
  BY DEF Total
<1>4. n \in Nat
  BY <1>1, RowIs, CountedAppend
<1> HIDE DEF f, n, none
<1>5. CASE type # "count"
  <2>1. o2 = o /\ Filtered(type, rows) = Passed(type, rows)
    BY <1>2, <1>5 DEF Filtered
  <2>2. [o EXCEPT !.filter = none].delivered = o.delivered
    BY <1>1 DEF Outputs
  <2> QED
    BY <1>1, <1>3, <2>1, <2>2
<1>6. CASE type = "count"
  <2>1. o2 = Deliver(o, <<COUNT + n, NL>>)
    BY <1>2, <1>6
  <2>2. COUNT + n \in Int /\ COUNT + n # ERROR /\ l \in Seq(Int) /\ l[1] = COUNT + n
    BY <1>4 DEF COUNT, ERROR
  <2>3. ~IsError(l)
    <3>1. <<ERROR>>[1] = ERROR
      OBVIOUS
    <3> HIDE DEF l
    <3> QED
      BY <2>2, <3>1 DEF IsError
  <2>4. Laid(l) = <<COUNT + n, NL>>
    <3>1. Laid(l) = Append(l, NL)
      BY <2>3 DEF Laid
    <3>2. Append(l, NL) = l \o <<NL>>
      BY <2>2, CodesAre, AppendIsConcat
    <3>3. l \o <<NL>> = <<COUNT + n, NL>>
      BY Lasts
    <3> QED
      BY <3>1, <3>2, <3>3
  <2>5. Filtered(type, rows) = Append(Passed(type, rows), l)
    BY <1>6 DEF Filtered, n
  <2> DEFINE k == Passed(type, rows)
  <2>6. k \in Seq(Seq(Int))
    <3>1. k \in Seq(Row)
      BY <1>1, RowIs, PassedAppend
    <3>2. Row \subseteq Seq(Int)
      BY RowIs
    <3> HIDE DEF k
    <3> QED
      BY <3>1, <3>2, SeqMonotonic
  <2> HIDE DEF l, o2
  <2>7. Layout(k) \in Seq(Int) /\ Layout(Append(k, l)) = Layout(k) \o Laid(l)
    <3> HIDE DEF k
    <3> QED
      BY <2>2, <2>6, LayoutAppend DEF WithLaid
  <2>8. Laid(l) \in Seq(Int)
    BY <2>2, LayoutTyped
  <2>9. p \o Layout(Append(k, l)) = q \o Laid(l)
    <3>1. q = p \o Layout(k)
      BY DEF q, k
    <3> HIDE DEF q, k
    <3> QED
      BY <2>7, <2>8, <3>1, Associative
  <2>10. /\ o2 \in Outputs /\ o2.delivered = o.delivered \o Laid(l)
    BY <1>1, <2>1, <2>4, <2>8, DeliverIs
  <2>11. [o2 EXCEPT !.filter = none].delivered = o2.delivered
    BY <2>10 DEF Outputs
  <2> HIDE DEF q
  <2>12. p \o Layout(Filtered(type, rows)) = q \o Laid(l)
    BY <2>5, <2>9 DEF k
  <2> QED
    BY <1>1, <1>3, <2>10, <2>11, <2>12
<1> QED
  BY <1>5, <1>6

LEMMA PassedNone == \A rows : Filtered("none", rows) = Passed("none", rows)
  BY DEF Filtered

Unflushed == Int \ {FLUSH}

\* What was collected when the command began comes first.
Ahead == IF before = <<>> THEN <<>> ELSE Append(before, NL)

Collecting == InCommand /\ (asked # "none" \/ (~mixed /\ lineCb))

Writing == InCommand /\ asked = "none" /\ ~mixed /\ ~lineCb

\* m was printed, and o is what became of it.
Reads(o, m) ==
  /\ m \in Seq(Items) /\ o \in Outputs
  /\ ~InCommand => o.open = FALSE
  /\ Collecting => Collects(o, Ahead, asked, ReadItems(m))
  /\ Writing => Direct(o, Ahead, ReadItems(Only(m, Unflushed)))

FilterInv ==
  /\ OutputInv /\ asked \in FilterTypes /\ Reads(out, made) /\ OutputIsFiltered

LEMMA AheadIs == before \in Seq(Alphabet) => Ahead \in Seq(Int)
<1> SUFFICES ASSUME before \in Seq(Alphabet) PROVE Ahead \in Seq(Int)
  OBVIOUS
<1>1. before \in Seq(Int) /\ NL \in Int /\ <<>> \in Seq(Int)
  BY Widened, CodesAre, EmptySeq
<1>2. Append(before, NL) \in Seq(Int)
  BY <1>1, AppendProperties
<1> QED
  BY <1>1, <1>2 DEF Ahead

\* A text, an error and a flush behind what was printed.
LEMMA UnflushedIs ==
  ASSUME NEW m \in Seq(Items)
  PROVE  /\ Only(m, Unflushed) \in Seq(Items)
         /\ \A s \in Seq(Chars) : m \o s \in Seq(Items) /\ Only(m \o s, Unflushed) = Only(m, Unflushed) \o s
         /\ m \o <<ERROR>> \in Seq(Items) /\ m \o <<ERROR>> = Append(m, ERROR)
         /\ Only(m \o <<ERROR>>, Unflushed) = Append(Only(m, Unflushed), ERROR)
         /\ m \o <<FLUSH>> \in Seq(Items) /\ m \o <<FLUSH>> = Append(m, FLUSH)
         /\ Only(m \o <<FLUSH>>, Unflushed) = Only(m, Unflushed)
<1>1. m \in Seq(Int) /\ ERROR \in Items /\ FLUSH \in Items /\ ERROR \in Int /\ FLUSH \in Int
  BY ItemsAreInts
<1>2. \A P : <<>> \in P /\ (\A s \in Seq(Items), c \in Items : s \in P => Append(s, c) \in P) =>
         Seq(Items) \subseteq P
  BY SeqInduction
<1>3. Only(m, Unflushed) \in Seq(Items)
  <2> DEFINE P == {s \in Seq(Items) : Only(s, Unflushed) \in Seq(Items)}
  <2>1. <<>> \in P
    BY EmptySeq, OnlyEmpty
  <2>2. ASSUME NEW s \in Seq(Items), NEW c \in Items, s \in P PROVE Append(s, c) \in P
    <3>1. s \in Seq(Int) /\ c \in Int /\ Append(s, c) \in Seq(Items)
      BY ItemsAreInts, AppendProperties
    <3>2. Only(Append(s, c), Unflushed) = Keep(Only(s, Unflushed), c, Unflushed)
      BY <3>1, OnlyAppend
    <3>3. Only(s, Unflushed) \in Seq(Items)
      BY <2>2
    <3>4. Keep(Only(s, Unflushed), c, Unflushed) \in Seq(Items)
      BY <3>3, AppendProperties DEF Keep
    <3> QED
      BY <3>1, <3>2, <3>4
  <2> HIDE DEF P
  <2>3. Seq(Items) \subseteq P
    BY <1>2, <2>1, <2>2
  <2> QED
    BY <2>3 DEF P
<1>4. ASSUME NEW s \in Seq(Chars)
      PROVE  m \o s \in Seq(Items) /\ Only(m \o s, Unflushed) = Only(m, Unflushed) \o s
  <2>1. s \in Seq(Items) /\ s \in Seq(Int)
    BY ItemsAreInts, Widened
  <2>2. Chars \subseteq Unflushed /\ Unflushed \subseteq Int
    BY CodesAre, ItemsAreInts DEF Unflushed, Chars
  <2>3. s \in Seq(Unflushed)
    BY <2>2, SeqMonotonic
  <2>4. Only(s, Unflushed) = s
    BY <2>2, <2>3, OnlyAll
  <2>5. Only(m \o s, Unflushed) = Only(m, Unflushed) \o Only(s, Unflushed)
    BY <1>1, <2>1, OnlyJoined
  <2> QED
    BY <2>1, <2>4, <2>5, ReadText
<1>5. /\ m \o <<ERROR>> = Append(m, ERROR) /\ m \o <<FLUSH>> = Append(m, FLUSH)
      /\ Append(m, ERROR) \in Seq(Items) /\ Append(m, FLUSH) \in Seq(Items)
  BY <1>1, AppendIsConcat, AppendProperties
<1>6. /\ Only(Append(m, ERROR), Unflushed) = Append(Only(m, Unflushed), ERROR)
      /\ Only(Append(m, FLUSH), Unflushed) = Only(m, Unflushed)
  <2>1. ERROR \in Unflushed /\ FLUSH \notin Unflushed
    BY <1>1, ItemsAreInts DEF Unflushed
  <2>2. /\ Only(Append(m, ERROR), Unflushed) = Keep(Only(m, Unflushed), ERROR, Unflushed)
        /\ Only(Append(m, FLUSH), Unflushed) = Keep(Only(m, Unflushed), FLUSH, Unflushed)
    BY <1>1, OnlyAppend
  <2> QED
    BY <2>1, <2>2 DEF Keep
<1> QED
  BY <1>3, <1>4, <1>5, <1>6

\* Outside a command no text leaves a line open.
LEMMA StaysShut ==
  ASSUME NEW o \in Outputs, NEW s \in Seq(Chars), s # <<>>, ~InCommand, o.open = FALSE
  PROVE  Stream(o, s).open = FALSE
<1>1. CASE LineMode(o)
  <2>1. Stream(o, s) = CollectAll(o, s)
    BY <1>1 DEF Stream
  <2>2. Adds(o, CollectAll(o, s), LettersOf(s))
    BY CollectAllIs
  <2> QED
    BY <2>1, <2>2 DEF Adds
<1>2. CASE ~LineMode(o)
  <2>1. Stream(o, s) = WriteText(o, s)
    BY <1>2 DEF Stream
  <2>2. WriteText(o, s).open = IF s[Len(s)] \notin {NL, CR} THEN InCommand
                               ELSE IF NL \in ToSet(s) THEN FALSE ELSE o.open
    BY WrittenIs
  <2>3. InCommand = FALSE
    BY DEF InCommand
  <2> QED
    BY <2>1, <2>2, <2>3
<1> QED
  BY <1>1, <1>2

LEMMA StreamReads ==
  ASSUME asked \in FilterTypes, before \in Seq(Alphabet), NEW o, NEW m, Reads(o, m),
         NEW s \in Seq(Chars), s # <<>>, Settles(s)
  PROVE  Reads(Stream(o, s), m \o s)
<1>1. /\ m \in Seq(Items) /\ o \in Outputs /\ (~InCommand => o.open = FALSE)
      /\ Ahead \in Seq(Int)
  BY AheadIs DEF Reads
<1>2. Stream(o, s) \in Outputs
  BY <1>1, StreamIs
<1>3. ~InCommand => Stream(o, s).open = FALSE
  BY <1>1, StaysShut
<1>4. m \o s \in Seq(Items) /\ Only(m \o s, Unflushed) = Only(m, Unflushed) \o s
      /\ Only(m, Unflushed) \in Seq(Items)
  BY <1>1, UnflushedIs
<1>5. ASSUME Collecting PROVE Collects(Stream(o, s), Ahead, asked, ReadItems(m \o s))
  <2>1. Collects(o, Ahead, asked, ReadItems(m))
    BY <1>5 DEF Reads
  <2>2. o.filter.type = asked
    BY <2>1 DEF Collects, Shows, After
  <2>3. LineMode(o)
    BY <1>5, <2>2 DEF Collecting, LineMode
  <2>4. Stream(o, s) = CollectAll(o, s)
    BY <2>3 DEF Stream
  <2> QED
    BY <1>1, <2>1, <2>4, CollectAllCollects
<1>6. ASSUME Writing PROVE Direct(Stream(o, s), Ahead, ReadItems(Only(m \o s, Unflushed)))
  <2> DEFINE u == Only(m, Unflushed)
  <2>1. Direct(o, Ahead, ReadItems(u)) /\ InCommand
    BY <1>6 DEF Reads, Writing
  <2>2. ~LineMode(o)
    BY <1>6, <2>1 DEF Writing, LineMode, Direct, NoFilter
  <2>3. Stream(o, s) = WriteText(o, s)
    BY <2>2 DEF Stream
  <2> HIDE DEF u
  <2>4. Direct(WriteText(o, s), Ahead, ReadItems(u \o s))
    BY <1>1, <1>4, <2>1, WriteDirect DEF u
  <2> QED
    BY <1>4, <2>3, <2>4 DEF u
<1> QED
  BY <1>2, <1>3, <1>4, <1>5, <1>6 DEF Reads

LEMMA EndLineShut ==
  ASSUME NEW o \in Outputs, o.open = FALSE
  PROVE  EndLine(o) = EmitPartial(o) /\ EmitPartial(o).open = FALSE /\ EmitPartial(o) \in Outputs
<1>1. Adds(o, EmitPartial(o), <<>>) /\ EmitPartial(o) \in Outputs
  BY EmitPartialIs
<1>2. EmitPartial(o).open = FALSE
  BY <1>1 DEF Adds
<1> QED
  BY <1>1, <1>2 DEF EndLine

LEMMA ErrorReads ==
  ASSUME asked \in FilterTypes, before \in Seq(Alphabet), NEW o, NEW m, Reads(o, m)
  PROVE  Reads(ErrorLine(o), m \o <<ERROR>>)
<1> DEFINE n == m \o <<ERROR>>
           u == Only(m, Unflushed)
           e == EmitPartial(o)
           l == IF InCommand \/ lineCb THEN <<ERROR>> ELSE <<NL, ERROR>>
<1>1. /\ m \in Seq(Items) /\ o \in Outputs /\ (~InCommand => o.open = FALSE)
      /\ Ahead \in Seq(Int) /\ ERROR \in Items
  BY AheadIs, ItemsAreInts DEF Reads
<1>2. /\ n \in Seq(Items) /\ n = Append(m, ERROR) /\ u \in Seq(Items)
      /\ Only(n, Unflushed) = Append(u, ERROR)
  BY <1>1, UnflushedIs
<1> HIDE DEF n, u
<1>3. /\ ReadItems(n) = NextItem(ReadItems(m), ERROR)
      /\ ReadItems(Only(n, Unflushed)) = NextItem(ReadItems(u), ERROR)
  BY <1>1, <1>2, ReadAppend
<1>4. ErrorLine(o) \in Outputs
  BY <1>1, ErrorLineIs
<1>5. ASSUME ~InCommand PROVE ErrorLine(o).open = FALSE
  <2>1. EndLine(o) = e /\ e.open = FALSE /\ e \in Outputs
    BY <1>1, <1>5, EndLineShut
  <2>2. l \in Seq(Int)
    BY NewLineIs
  <2>3. ErrorLine(o) = Deliver(e, l)
    BY <2>1 DEF ErrorLine
  <2> HIDE DEF e, l
  <2> QED
    BY <2>1, <2>2, <2>3, DeliverIs
<1>6. ASSUME Collecting PROVE Collects(ErrorLine(o), Ahead, asked, ReadItems(n))
  <2>1. Collects(o, Ahead, asked, ReadItems(m)) /\ InCommand
    BY <1>6 DEF Reads, Collecting
  <2> QED
    BY <1>1, <1>3, <2>1, ErrorCollects
<1>7. ASSUME Writing PROVE Direct(ErrorLine(o), Ahead, ReadItems(Only(n, Unflushed)))
  <2>1. Direct(o, Ahead, ReadItems(u)) /\ InCommand
    BY <1>7 DEF Reads, Writing, u
  <2> QED
    BY <1>1, <1>3, <2>1, ErrorDirect
<1> QED
  BY <1>2, <1>4, <1>5, <1>6, <1>7 DEF Reads, n

LEMMA FlushReads ==
  ASSUME asked \in FilterTypes, before \in Seq(Alphabet), NEW o, NEW m, Reads(o, m)
  PROVE  Reads(EmitPartial(o), m \o <<FLUSH>>)
<1> DEFINE n == m \o <<FLUSH>>
           u == Only(m, Unflushed)
<1>1. /\ m \in Seq(Items) /\ o \in Outputs /\ (~InCommand => o.open = FALSE)
      /\ Ahead \in Seq(Int) /\ FLUSH \in Items
  BY AheadIs, ItemsAreInts DEF Reads
<1>2. n \in Seq(Items) /\ n = Append(m, FLUSH) /\ Only(n, Unflushed) = u
  BY <1>1, UnflushedIs
<1> HIDE DEF n, u
<1>3. ReadItems(n) = NextItem(ReadItems(m), FLUSH)
  BY <1>1, <1>2, ReadAppend
<1>4. NextItem(ReadItems(m), FLUSH) = EndRow(ReadItems(m))
  BY ItemsAreInts DEF NextItem
<1>5. EmitPartial(o) \in Outputs
  BY <1>1, EmitPartialIs
<1>6. ~InCommand => EmitPartial(o).open = FALSE
  BY <1>1, EndLineShut
<1>7. ASSUME Collecting PROVE Collects(EmitPartial(o), Ahead, asked, ReadItems(n))
  <2>1. Collects(o, Ahead, asked, ReadItems(m))
    BY <1>7 DEF Reads
  <2> QED
    BY <1>1, <1>3, <1>4, <2>1, PartialCollects
<1>8. ASSUME Writing PROVE Direct(EmitPartial(o), Ahead, ReadItems(Only(n, Unflushed)))
  <2>1. Direct(o, Ahead, ReadItems(u))
    BY <1>8 DEF Reads, u
  <2>2. EmitPartial(o) = o
    BY <2>1 DEF Direct, EmitPartial
  <2> QED
    BY <1>2, <2>1, <2>2
<1> QED
  BY <1>2, <1>5, <1>6, <1>7, <1>8 DEF Reads, n

LEMMA FilterInvIs ==
  FilterInv => /\ OutputInv /\ asked \in FilterTypes /\ before \in Seq(Alphabet)
               /\ Reads(out, made) /\ made \in Seq(Items) /\ out \in Outputs
  BY DEF FilterInv, Reads, OutputInv, OutputTyped

\* The step of a handler or of a callback.
LEMMA GoesOn ==
  ASSUME FilterInv, OutputInv', Application, Reads(out', made'),
         UNCHANGED <<lineCb, depth, shown, before, asked, mixed>>
  PROVE  FilterInv'
<1>1. InCommand' = InCommand /\ Ahead' = Ahead /\ (InCommand' \/ shown')
  BY DEF InCommand, Ahead, Application
<1>2. Collecting' = Collecting /\ Writing' = Writing
  BY <1>1 DEF Collecting, Writing
<1>3. Reads(out, made)'
  BY <1>1, <1>2 DEF Reads
<1>4. OutputIsFiltered'
  <2>1. InCommand' => ~shown'
    BY DEF OutputInv, Ordered
  <2> QED
    BY <1>1, <2>1 DEF OutputIsFiltered
<1> QED
  BY <1>3, <1>4 DEF FilterInv

LEMMA PrintFilters ==
  ASSUME TextsSettle, FilterInv, OutputInv', NEW s \in Prints, CliPrint(s) \/ PrintStr(s)
  PROVE  FilterInv'
<1> DEFINE Fits(t) == /\ t \in Seq(Chars) /\ t # <<>> /\ Settles(t) /\ Application /\ Made(t)
                      /\ out' = Stream(out, t)
<1>1. PICK t : Fits(t)
  <2>1. Fits(Formatted(s)) \/ Fits(s)
    BY PrintsAre DEF TextsSettle, CliPrint, PrintStr, Application
  <2> QED
    BY <2>1
<1>2. UNCHANGED <<lineCb, depth, shown, before, asked, mixed>>
  BY DEF CliPrint, PrintStr
<1>3. asked \in FilterTypes /\ before \in Seq(Alphabet) /\ Reads(out, made)
  BY FilterInvIs
<1>4. Reads(Stream(out, t), made \o t)
  BY <1>1, <1>3, StreamReads
<1>5. Reads(out', made')
  BY <1>1, <1>4 DEF Made
<1> QED
  BY <1>1, <1>2, <1>5, GoesOn

LEMMA PrintlnFilters ==
  ASSUME TextsSettle, FilterInv, OutputInv', NEW s \in Prints, CliPrintln(s)
  PROVE  FilterInv'
<1> DEFINE t == Formatted(s)
           p == Stream(out, t)
           u == made \o t
<1>1. /\ t \in Seq(Chars) /\ t # <<>> /\ Settles(t) /\ t \in Seq(Int)
      /\ <<NL>> \in Seq(Chars) /\ <<NL>> # <<>> /\ Settles(<<NL>>)
  <2>1. t \in Seq(Chars) /\ t # <<>>
    BY PrintsAre
  <2> HIDE DEF t
  <2>2. Settles(t)
    BY DEF TextsSettle, t
  <2> QED
    BY <2>1, <2>2, LineEndIs, Widened
<1>2. /\ Application /\ made' = made \o Append(t, NL) /\ out' = Stream(p, <<NL>>)
      /\ UNCHANGED <<lineCb, depth, shown, before, asked, mixed>>
  BY DEF CliPrintln, Made
<1> HIDE DEF t
<1>3. asked \in FilterTypes /\ before \in Seq(Alphabet) /\ Reads(out, made) /\ made \in Seq(Items)
  BY FilterInvIs
<1>4. Reads(p, u)
  BY <1>1, <1>3, StreamReads
<1>5. made \in Seq(Int) /\ NL \in Int /\ u \in Seq(Int)
  BY <1>1, <1>3, ItemsAreInts, CodesAre, Joined
<1>6. made \o Append(t, NL) = Append(u, NL)
  BY <1>1, <1>5, AppendJoined
<1> HIDE DEF p, u
<1>7. Append(u, NL) = u \o <<NL>>
  BY <1>5, AppendIsConcat
<1>8. Reads(Stream(p, <<NL>>), u \o <<NL>>)
  BY <1>1, <1>3, <1>4, StreamReads
<1>9. Reads(out', made')
  BY <1>2, <1>6, <1>7, <1>8
<1> QED
  BY <1>2, <1>9, GoesOn

LEMMA ErrorFilters ==
  ASSUME FilterInv, OutputInv', Error \/ Flush
  PROVE  FilterInv'
<1>1. asked \in FilterTypes /\ before \in Seq(Alphabet) /\ Reads(out, made)
  BY FilterInvIs
<1>2. Application /\ UNCHANGED <<lineCb, depth, shown, before, asked, mixed>>
  BY DEF Error, Flush
<1>3. Reads(out', made')
  <2>1. CASE Error
    BY <1>1, <2>1, ErrorReads DEF Error, Made
  <2>2. CASE Flush
    BY <1>1, <2>2, FlushReads DEF Flush, Made
  <2> QED
    BY <2>1, <2>2
<1> QED
  BY <1>2, <1>3, GoesOn

\* In a command the callback is not set or removed again.
LEMMA SetCbFilters ==
  ASSUME FilterInv, OutputInv', SetPrintTransportCb
  PROVE  FilterInv'
<1>1. /\ Application /\ ~mixed /\ (mixed' <=> mixed \/ InCommand)
      /\ UNCHANGED <<out, depth, shown, made, before, asked>>
  BY DEF SetPrintTransportCb
<1>2. InCommand' = InCommand /\ Ahead' = Ahead /\ (InCommand' \/ shown')
  BY <1>1 DEF InCommand, Ahead, Application
<1>3. (Collecting' => Collecting) /\ ~Writing'
  BY <1>1, <1>2 DEF Collecting, Writing
<1>4. Reads(out, made)'
  BY <1>1, <1>2, <1>3 DEF FilterInv, Reads
<1>5. OutputIsFiltered'
  <2>1. InCommand' => ~shown'
    BY DEF OutputInv, Ordered
  <2> QED
    BY <1>2, <2>1 DEF OutputIsFiltered
<1> QED
  BY <1>1, <1>4, <1>5 DEF FilterInv

\* Outside a command, once the prompt is shown.
LEMMA Outside ==
  ASSUME OutputInv', ~InCommand', shown', asked' \in FilterTypes, made' \in Seq(Items),
         out'.open = FALSE
  PROVE  FilterInv'
<1>1. ~Collecting' /\ ~Writing'
  BY DEF Collecting, Writing
<1>2. out' \in Outputs
  BY DEF OutputInv, OutputTyped
<1>3. Reads(out, made)'
  BY <1>1, <1>2 DEF Reads
<1> QED
  BY <1>3 DEF FilterInv, OutputIsFiltered

LEMMA RestartRunningFilters ==
  ASSUME FilterInv, OutputInv', RestartRunning
  PROVE  FilterInv'
<1>1. /\ Application /\ UNCHANGED <<lineCb, depth, shown, made, before, asked, mixed>>
      /\ out' = OutputReset(IF InCommand THEN out ELSE Deliver(EmitPartial(out), <<NL>>))
  BY DEF RestartRunning
<1>2. OutputInv /\ asked \in FilterTypes /\ Reads(out, made) /\ made \in Seq(Items) /\ out \in Outputs
  BY FilterInvIs
<1>3. CASE InCommand
  <2>1. out' = out
    BY <1>1, <1>3 DEF OutputReset
  <2> QED
    BY <1>1, <1>2, <2>1, GoesOn
<1>4. CASE ~InCommand
  <2> DEFINE d == Deliver(EmitPartial(out), <<NL>>)
  <2>1. ~InCommand' /\ shown' /\ asked' \in FilterTypes /\ made' \in Seq(Items)
    BY <1>1, <1>2, <1>4 DEF InCommand, Application
  <2>2. d \in Outputs
    BY <1>2, EmitPartialIs, DeliverIs, NewLineIs
  <2>3. out' = [d EXCEPT !.buf = <<>>, !.open = FALSE, !.filter = NoFilter]
    BY <1>1, <1>4 DEF OutputReset
  <2> HIDE DEF d
  <2>4. out'.open = FALSE
    BY <2>2, <2>3 DEF Outputs
  <2> QED
    BY <2>1, <2>4, Outside
<1> QED
  BY <1>3, <1>4

LEMMA RestartAgainFilters ==
  ASSUME FilterInv, OutputInv', RestartAgain
  PROVE  FilterInv'
<1> DEFINE r == OutputReset(out)
<1>1. /\ ~InCommand /\ shown /\ made' = <<>> /\ out' = [r EXCEPT !.delivered = <<>>]
      /\ UNCHANGED <<depth, shown, asked>>
  BY DEF RestartAgain
<1>2. asked \in FilterTypes /\ out \in Outputs
  BY FilterInvIs
<1>3. r = [out EXCEPT !.buf = <<>>, !.open = FALSE, !.filter = NoFilter]
  BY <1>1 DEF OutputReset
<1>4. r.open = FALSE /\ r \in Outputs
  BY <1>1, <1>2, <1>3, ResetIs DEF Outputs
<1> HIDE DEF r
<1>5. out'.open = FALSE
  BY <1>1, <1>4 DEF Outputs
<1>6. ~InCommand' /\ shown' /\ asked' \in FilterTypes /\ made' \in Seq(Items)
  BY <1>1, <1>2, EmptySeq DEF InCommand
<1> QED
  BY <1>5, <1>6, Outside

LEMMA PromptFilters ==
  ASSUME FilterInv, OutputInv', Prompt \/ Resume
  PROVE  FilterInv'
<1>1. /\ ~InCommand /\ shown' = TRUE /\ out' = [out EXCEPT !.delivered = <<>>] /\ depth' = depth
      /\ made' \in {<<>>, out.buf} /\ asked' \in {"none", asked}
  BY DEF Prompt, Resume
<1>2. asked \in FilterTypes /\ out \in Outputs /\ out.open = FALSE
  BY <1>1, FilterInvIs DEF Reads
<1>3. out'.open = FALSE
  BY <1>1, <1>2 DEF Outputs
<1>4. out.buf \in Seq(Items) /\ <<>> \in Seq(Items)
  BY <1>2, OutputIs, Widened, ItemsAreInts, EmptySeq
<1>5. ~InCommand' /\ shown' /\ asked' \in FilterTypes /\ made' \in Seq(Items)
  BY <1>1, <1>2, <1>4 DEF InCommand, FilterTypes
<1> QED
  BY <1>3, <1>5, Outside

LEMMA NestedFilters ==
  ASSUME FilterInv, OutputInv', Nested
  PROVE  FilterInv'
<1>1. /\ InCommand /\ InCommand' /\ out' = out
      /\ UNCHANGED <<lineCb, made, before, asked, mixed>>
  BY NestedKeeps DEF FilterInv, Nested
<1>2. Ahead' = Ahead /\ Collecting' = Collecting /\ Writing' = Writing
  BY <1>1 DEF Ahead, Collecting, Writing
<1>3. Reads(out, made)'
  BY <1>1, <1>2 DEF FilterInv, Reads
<1> QED
  BY <1>1, <1>3 DEF FilterInv, OutputIsFiltered

\* What the callback had begun to print is delivered first, the filter is as it begins.
LEMMA CommandFilters ==
  ASSUME FilterInv, OutputInv', NEW type \in FilterTypes, Command(type)
  PROVE  FilterInv'
<1> DEFINE s == [out EXCEPT !.delivered = <<>>]
           e == EmitPartial(s)
           f == [NoFilter EXCEPT !.type = type]
           p == [e EXCEPT !.filter = f]
           g == IF out.buf = <<>> THEN <<>> ELSE Append(out.buf, NL)
           l == Layout(Passed(type, <<>>))
<1>1. /\ ~InCommand /\ out' = p /\ depth' = 1 /\ made' = <<>> /\ before' = out.buf /\ asked' = type
  BY DEF Command, CommandBegin
<1>2. /\ out \in Outputs /\ out.open = FALSE /\ out.buf \in Seq(Alphabet) /\ out.buf \in Seq(Int)
      /\ <<>> \in Seq(Int)
  BY <1>1, FilterInvIs, OutputIs, EmptySeq DEF Reads
<1>3. out.filter.type = "none"
  BY <1>1 DEF FilterInv, OutputInv, Ordered
<1>4. /\ s \in Outputs /\ s.buf = out.buf /\ s.filter = out.filter /\ s.delivered = <<>>
      /\ s.open = FALSE
  BY <1>2 DEF Outputs
<1> HIDE DEF s
<1>5. e.open = FALSE /\ e \in Outputs /\ e.buf = <<>>
  BY <1>4, EndLineShut, EmitPartialIs
<1>6. e.delivered = g /\ g \in Seq(Int)
  <2>1. CASE out.buf = <<>>
    BY <1>2, <1>4, <2>1 DEF EmitPartial
  <2>2. CASE out.buf # <<>>
    <3> DEFINE h == Judged(s.filter, s.buf)
               x == [s EXCEPT !.buf = <<>>, !.filter = h]
               y == Append(out.buf, NL)
    <3>1. e = Deliver(x, y)
      BY <1>3, <1>4, <2>2 DEF EmitPartial, Emit, Passes
    <3>2. h \in Filters
      BY <1>4, OutputIs, JudgedIs
    <3> HIDE DEF h
    <3>3. x \in Outputs /\ x.delivered = <<>>
      BY <1>4, <3>2, EmptySeq DEF Outputs
    <3>4. y \in Seq(Int) /\ <<>> \o y = y
      BY <1>2, CodesAre, AppendProperties, Joined
    <3> HIDE DEF x, y
    <3>5. e.delivered = y
      BY <3>1, <3>3, <3>4, DeliverIs
    <3> QED
      BY <2>2, <3>4, <3>5 DEF y
  <2> QED
    BY <2>1, <2>2
<1>7. f = After(type, <<>>) /\ f \in Filters
  <2>1. f = After(type, <<>>)
    BY EmptyAfter
  <2>2. f \in Filters
    BY DEF NoFilter, Filters
  <2> QED
    BY <2>1, <2>2
<1> HIDE DEF f, e
<1>8. /\ p \in Outputs /\ p.buf = <<>> /\ p.open = FALSE /\ p.filter = f /\ p.delivered = g
  BY <1>5, <1>6, <1>7 DEF Outputs
<1>9. InCommand' /\ Ahead' = g
  BY <1>1 DEF InCommand, Ahead
<1> HIDE DEF g, p
<1>10. l = <<>> /\ g \o l = g /\ g \o <<>> = g
  BY <1>6, PassedEmpty, LayoutEmpty, Joined DEF Start
<1> HIDE DEF l
<1>11. <<>> \in Seq(Items) /\ <<>> \in Seq(Row)
  BY EmptySeq
<1>12. /\ ReadItems(<<>>) = Fresh /\ Fresh \in Readings /\ Fresh.line = <<>> /\ Fresh.lines = <<>>
       /\ ReadItems(Only(<<>>, Unflushed)) = Fresh
  <2>1. Only(<<>>, Unflushed) = <<>>
    BY OnlyEmpty
  <2> QED
    BY <2>1, ReadEmpty, NextItemIs DEF Fresh
<1>13. Collects(p, g, type, Fresh)
  <2>1. RowsOf(Fresh) = <<>>
    BY <1>12, RowsAre, CutEmpty DEF Start
  <2>2. Shows(p, g, type, <<>>)
    BY <1>7, <1>8, <1>10, <1>11 DEF Shows, l
  <2>3. Rest(Fresh.line) = <<>>
    BY <1>12, EmptyLine
  <2> QED
    BY <1>8, <1>12, <2>1, <2>2, <2>3 DEF Collects
<1>14. ASSUME type = "none" PROVE Direct(p, g, Fresh)
  <2>1. f = NoFilter
    BY <1>7, <1>14, EmptyAfter
  <2>2. Sent(g, Fresh) = g
    BY <1>10, <1>12, <1>14 DEF Sent, l
  <2> QED
    BY <1>8, <1>12, <2>1, <2>2 DEF Direct
<1>15. Reads(out, made)'
  <2>1. Collecting' => Collects(out', Ahead', asked', ReadItems(made'))
    BY <1>1, <1>9, <1>12, <1>13
  <2>2. Writing' => Direct(out', Ahead', ReadItems(Only(made', Unflushed)))
    BY <1>1, <1>9, <1>12, <1>14 DEF Writing
  <2> QED
    BY <1>1, <1>8, <1>9, <1>11, <2>1, <2>2 DEF Reads
<1> QED
  BY <1>1, <1>9, <1>15 DEF FilterInv, OutputIsFiltered

-----------------------------------------------------------------------------
(* The end of a command                                                    *)

\* The rows of a command whose output was collected, and the lines of one whose output
\* was written.
LEMMA CollectedEnds ==
  ASSUME NEW o, NEW p \in Seq(Int), NEW type \in FilterTypes, NEW m, Collects(o, p, type, ReadItems(m))
  PROVE  Total(EndLine(o)).delivered = p \o Layout(Filtered(type, Cut(LinesOf(m))))
<1> DEFINE a == ReadItems(m)
           r == EndRow(a)
<1>1. o \in Outputs /\ o.open = FALSE
  BY DEF Collects, Shows
<1>2. EndLine(o) = EmitPartial(o)
  BY <1>1, EndLineShut
<1>3. Collects(EndLine(o), p, type, r) /\ r \in Readings /\ r.line = <<>>
  BY <1>2, PartialCollects
<1>4. LinesOf(m) = r.lines
  BY DEF LinesOf
<1> HIDE DEF a, r
<1>5. RowsOf(r) = Cut(r.lines)
  BY <1>3, RowsAre
<1>6. Shows(EndLine(o), p, type, Cut(r.lines))
  BY <1>3, <1>5 DEF Collects
<1> QED
  BY <1>4, <1>6, Finished

LEMMA WrittenEnds ==
  ASSUME NEW o, NEW p \in Seq(Int), NEW m, Direct(o, p, ReadItems(m))
  PROVE  Total(EndLine(o)).delivered = p \o Layout(Filtered("none", LinesOf(m)))
<1> DEFINE a == ReadItems(m)
           r == EndRow(a)
           e == EndLine(o)
           n == NoFilter
           q == p \o Layout(Passed("none", r.lines))
<1>1. Direct(e, p, r) /\ r \in Readings /\ r.line = <<>>
  BY EndLineDirect
<1>2. LinesOf(m) = r.lines
  BY DEF LinesOf
<1>3. e \in Outputs /\ e.filter = NoFilter /\ e.delivered = q \o <<>>
  BY <1>1 DEF Direct, Sent
<1> HIDE DEF a, e, n, r
<1>4. q \in Seq(Int)
  <2> DEFINE k == r.lines
             x == <<ERROR>>
  <2>1. k \in Seq(Row) /\ x \in Row
    BY <1>1, RowIs DEF Readings
  <2> HIDE DEF k, x
  <2>2. p \o Layout(Passed("none", k)) \in Seq(Int)
    BY <2>1, OneMore
  <2> QED
    BY <2>2 DEF k
<1> HIDE DEF q
<1>5. e.delivered = q
  BY <1>3, <1>4, Joined
<1>6. NoFilter.type = "none"
  BY DEF NoFilter
<1>7. Total(e) = [e EXCEPT !.filter = n]
  BY <1>3, <1>6 DEF Total, n
<1>8. Total(e).delivered = e.delivered
  BY <1>3, <1>7 DEF Outputs
<1> QED
  BY <1>2, <1>5, <1>8, PassedNone DEF q, e

LEMMA EndLineEnds ==
  ASSUME NEW o \in Outputs
  PROVE  EndLine(o) \in Outputs /\ EndLine(o).open = FALSE
<1> DEFINE e == EmitPartial(o)
           d == Deliver(e, <<NL>>)
           no == FALSE
<1>1. e \in Outputs /\ e.open \in BOOLEAN /\ EndLine(o) \in Outputs
  BY EmitPartialIs, EndLineIs, OutputIs
<1>2. EndLine(o) = IF e.open THEN [d EXCEPT !.open = no] ELSE e
  BY DEF EndLine
<1>3. d \in Outputs
  BY <1>1, NewLineIs, DeliverIs
<1> HIDE DEF d, e, no
<1>4. [d EXCEPT !.open = no].open = no
  BY <1>3 DEF Outputs
<1> QED
  BY <1>1, <1>2, <1>4 DEF no

LEMMA TotalOpen ==
  ASSUME NEW o \in Outputs
  PROVE  Total(o).open = o.open
<1> DEFINE l == <<COUNT + o.filter.count, NL>>
           d == Deliver(o, l)
           none == NoFilter
<1>1. o.filter.count \in Nat
  BY OutputIs DEF Filters
<1>2. l \in Seq(Int)
  BY <1>1, NewLineIs
<1>3. Total(o) = [(IF o.filter.type = "count" THEN d ELSE o) EXCEPT !.filter = none]
  BY DEF Total
<1> HIDE DEF l
<1>4. d \in Outputs /\ d.open = o.open
  BY <1>2, DeliverIs
<1> HIDE DEF d, none
<1> QED
  BY <1>3, <1>4 DEF Outputs

LEMMA CommandEndFilters ==
  ASSUME FilterInv, OutputInv', CommandEnd
  PROVE  FilterInv'
<1> DEFINE p == Total(EndLine(out))
           lines == IF asked # "none" \/ lineCb THEN Cut(LinesOf(made))
                    ELSE LinesOf(Only(made, Int \ {FLUSH}))
<1>1. /\ InCommand /\ depth' = depth - 1 /\ depth \in Nat /\ ~shown
      /\ UNCHANGED <<lineCb, shown, made, before, asked, mixed>>
      /\ out' = IF depth = 1 THEN p ELSE out
  BY DEF CommandEnd, FilterInv, OutputInv, OutputTyped, Ordered
<1>2. /\ OutputInv /\ asked \in FilterTypes /\ before \in Seq(Alphabet)
      /\ Reads(out, made) /\ made \in Seq(Items) /\ out \in Outputs
  BY FilterInvIs
<1>3. Ahead' = Ahead /\ Ahead \in Seq(Int)
  BY <1>1, <1>2, AheadIs DEF Ahead
<1>4. CASE depth # 1
  <2>1. InCommand' /\ out' = out
    BY <1>1, <1>4 DEF InCommand
  <2>2. Collecting' = Collecting /\ Writing' = Writing
    BY <1>1, <2>1 DEF Collecting, Writing
  <2>3. Reads(out, made)'
    BY <1>1, <1>2, <1>3, <2>1, <2>2 DEF Reads
  <2> QED
    BY <1>1, <1>2, <2>1, <2>3 DEF FilterInv, OutputIsFiltered
<1>5. CASE depth = 1
  <2>1. ~InCommand' /\ out' = p /\ ~Collecting' /\ ~Writing'
    BY <1>1, <1>5 DEF InCommand, Collecting, Writing
  <2>2. ASSUME asked # "none" \/ ~mixed
        PROVE  p.delivered = Ahead \o Layout(Filtered(asked, lines))
    <3>1. CASE asked # "none" \/ lineCb
      <4>1. Collecting
        BY <1>1, <2>2, <3>1 DEF Collecting
      <4>2. Collects(out, Ahead, asked, ReadItems(made))
        BY <1>2, <4>1 DEF Reads
      <4>3. lines = Cut(LinesOf(made))
        BY <3>1
      <4> HIDE DEF lines
      <4> QED
        BY <1>2, <1>3, <4>2, <4>3, CollectedEnds
    <3>2. CASE ~(asked # "none" \/ lineCb)
      <4>1. Writing /\ asked = "none"
        BY <1>1, <2>2, <3>2 DEF Writing
      <4>2. Direct(out, Ahead, ReadItems(Only(made, Unflushed)))
        BY <1>2, <4>1 DEF Reads
      <4>3. lines = LinesOf(Only(made, Unflushed))
        BY <3>2 DEF Unflushed
      <4> HIDE DEF lines
      <4>4. Total(EndLine(out)).delivered =
              Ahead \o Layout(Filtered("none", LinesOf(Only(made, Unflushed))))
        BY <1>3, <4>2, WrittenEnds
      <4> QED
        BY <4>1, <4>3, <4>4
    <3> QED
      BY <3>1, <3>2
  <2>3. out'.open = FALSE
    <3> DEFINE e == EndLine(out)
    <3>1. e \in Outputs /\ e.open = FALSE
      BY <1>2, EndLineEnds
    <3> HIDE DEF e
    <3>2. Total(e).open = e.open
      BY <3>1, TotalOpen
    <3> QED
      BY <2>1, <3>1, <3>2 DEF e
  <2>4. out' \in Outputs
    BY DEF OutputInv, OutputTyped
  <2>5. Reads(out, made)'
    BY <1>1, <1>2, <2>1, <2>3, <2>4 DEF Reads
  <2>6. OutputIsFiltered'
    BY <1>1, <2>1, <2>2 DEF OutputIsFiltered, Ahead
  <2> QED
    BY <1>1, <1>2, <2>5, <2>6 DEF FilterInv
<1> QED
  BY <1>4, <1>5

LEMMA FilterNext == TextsSettle /\ FilterInv /\ [OutputNext]_outputVars => FilterInv'
<1> SUFFICES ASSUME TextsSettle, FilterInv, [OutputNext]_outputVars PROVE FilterInv'
  OBVIOUS
<1>1. OutputInv'
  BY OutputNextInv DEF FilterInv
<1>2. ASSUME NEW s \in Prints, CliPrint(s) \/ CliPrintln(s) \/ PrintStr(s) PROVE FilterInv'
  BY <1>1, <1>2, PrintFilters, PrintlnFilters
<1>3. CASE Error \/ Flush \/ SetPrintTransportCb
  BY <1>1, <1>3, ErrorFilters, SetCbFilters
<1>4. CASE RestartRunning \/ RestartAgain
  BY <1>1, <1>4, RestartRunningFilters, RestartAgainFilters
<1>5. ASSUME NEW type \in FilterTypes, Command(type) PROVE FilterInv'
  BY <1>1, <1>5, CommandFilters
<1>6. CASE Nested \/ CommandEnd \/ Prompt \/ Resume
  BY <1>1, <1>6, NestedFilters, CommandEndFilters, PromptFilters
<1>7. CASE UNCHANGED outputVars
  BY <1>1, <1>7 DEF outputVars, FilterInv, Reads, Ahead, Collecting, Writing, InCommand, OutputIsFiltered
<1> QED
  BY <1>2, <1>3, <1>4, <1>5, <1>6, <1>7 DEF OutputNext

LEMMA FilterInit == OutputInit => FilterInv
<1> SUFFICES ASSUME OutputInit PROVE FilterInv
  OBVIOUS
<1>1. OutputInv /\ ~InCommand /\ shown
  BY OutputInitInv
<1>2. /\ out = [buf |-> <<>>, open |-> FALSE, filter |-> NoFilter, delivered |-> <<>>]
      /\ made = <<>> /\ asked = "none"
  BY DEF OutputInit
<1>3. ~Collecting /\ ~Writing
  BY <1>1 DEF Collecting, Writing
<1>4. made \in Seq(Items) /\ asked \in FilterTypes /\ out \in Outputs /\ out.open = FALSE
  BY <1>1, <1>2, EmptySeq DEF FilterTypes, OutputInv, OutputTyped
<1> QED
  BY <1>1, <1>3, <1>4 DEF FilterInv, Reads, OutputIsFiltered

\* cli_filter_line, cli_line_buffer_emit and cli_command_end: the filter of a command has
\* been applied to the whole of its output and to nothing else, every line once, unless a
\* handler prints text that only a carriage return ends.
THEOREM FiltersOutput == TextsSettle => (OutputSpec => []OutputIsFiltered)
<1> SUFFICES ASSUME TextsSettle PROVE OutputSpec => []OutputIsFiltered
  OBVIOUS
<1>1. FilterInv /\ [OutputNext]_outputVars => FilterInv'
  BY FilterNext
<1>2. FilterInv => OutputIsFiltered
  BY DEF FilterInv
<1> QED
  BY <1>1, <1>2, FilterInit, PTL DEF OutputSpec

=============================================================================
