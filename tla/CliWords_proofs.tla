--------------------------- MODULE CliWords_proofs ---------------------------
(***************************************************************************)
(* Proofs about lines and commands, for any alphabet, any tree of commands *)
(* and any words: the words an application passes reach its handler, and   *)
(* what '?', 'help' and Tab say of a line is what running it does.         *)
(***************************************************************************)
EXTENDS CliWords, SequenceTheorems, FiniteSetTheorems, WellFoundedInduction, TLAPS

LEMMA Induction ==
  ASSUME NEW N \in Nat, NEW S, 0 \in S, \A n \in 1 .. N : n - 1 \in S => n \in S
  PROVE  \A n \in 0 .. N : n \in S
<1> DEFINE T == (0 .. N) \ S
<1> SUFFICES ASSUME T # {} PROVE FALSE
  OBVIOUS
<1>1. T \subseteq Nat
  OBVIOUS
<1> HIDE DEF T
<1>2. PICK x \in T : \A y \in T : <<y, x>> \notin OpToRel(<, Nat)
  BY <1>1, WFMin, NatLessThanWellFounded
<1>3. \A y \in T : ~ (y < x)
  BY <1>1, <1>2 DEF OpToRel
<1> USE DEF T
<1>4. x \in 1 .. N /\ x - 1 \in 0 .. N
  OBVIOUS
<1>5. x - 1 \in S
  BY <1>3, <1>4
<1> QED
  BY <1>4, <1>5

\* f starts at x, and each value is made from the one before by the step of its number.
Built(f, N, D, x, step) ==
  /\ f \in [0 .. N -> D] /\ f[0] = x
  /\ \A n \in 1 .. N : f[n] = step[n][f[n - 1]]

Steps(step, N, D) == step \in [1 .. N -> [D -> D]]

LEMMA Recursion ==
  ASSUME NEW N \in Nat, NEW D, NEW x \in D, NEW step, Steps(step, N, D)
  PROVE  \E f : Built(f, N, D, x, step)
<1> DEFINE Grown(k, f) == /\ f \in [0 .. N -> D] /\ f[0] = x
                         /\ \A n \in 1 .. k : f[n] = step[n][f[n - 1]]
           S == {k \in 0 .. N : \E f : Grown(k, f)}
<1>1. 0 \in S
  <2> DEFINE f == [n \in 0 .. N |-> x]
  <2>1. Grown(0, f)
    OBVIOUS
  <2> HIDE DEF f, Grown
  <2> QED
    BY <2>1
<1>2. ASSUME NEW k \in 1 .. N, k - 1 \in S PROVE k \in S
  <2>1. PICK f : Grown(k - 1, f)
    BY <1>2
  <2> DEFINE v == step[k][f[k - 1]]
  <2>2. k - 1 \in 0 .. N /\ f[k - 1] \in D
    BY <2>1
  <2>3. v \in D
    BY <2>2 DEF Steps
  <2> HIDE DEF v
  <2> DEFINE g == [f EXCEPT ![k] = v]
  <2>4. /\ g \in [0 .. N -> D] /\ g[k] = v
        /\ \A n \in 0 .. N : n # k => g[n] = f[n]
    BY <2>1, <2>3
  <2> HIDE DEF g
  <2>5. ASSUME NEW n \in 1 .. k PROVE g[n] = step[n][g[n - 1]]
    <3>1. n - 1 \in 0 .. N /\ n - 1 # k /\ n \in 0 .. N
      OBVIOUS
    <3>2. g[n - 1] = f[n - 1]
      BY <2>4, <3>1
    <3>3. CASE n = k
      BY <2>4, <3>2, <3>3 DEF v
    <3>4. CASE n # k
      <4>1. n \in 1 .. k - 1
        BY <3>4
      <4> QED
        BY <2>1, <2>4, <3>1, <3>2, <3>4, <4>1
    <3> QED
      BY <3>3, <3>4
  <2>6. g[0] = x
    BY <2>1, <2>4
  <2>7. Grown(k, g)
    BY <2>4, <2>5, <2>6
  <2> QED
    BY <2>7
<1>3. N \in S
  <2> HIDE DEF S
  <2>1. \A n \in 0 .. N : n \in S
    BY <1>1, <1>2, Induction
  <2>2. N \in 0 .. N
    OBVIOUS
  <2> QED
    BY <2>1, <2>2
<1>4. PICK f : Grown(N, f)
  BY <1>3
<1> QED
  BY <1>4 DEF Built
-----------------------------------------------------------------------------
(* Reading a text                                                          *)

LEMMA CharsAre ==
  /\ SP # QUOTE /\ SP # BACKSLASH /\ SP # PIPE /\ SP # HELP
  /\ QUOTE # BACKSLASH /\ QUOTE # PIPE /\ QUOTE # HELP
  /\ BACKSLASH # PIPE /\ BACKSLASH # HELP
  /\ SP \in Letters /\ QUOTE \in Letters /\ BACKSLASH \in Letters
  BY DEF SP, QUOTE, BACKSLASH, PIPE, HELP, Letters

States == [quote : {"out", "in", "esc"}, within : BOOLEAN,
           word : Seq(Letters), words : Seq(Seq(Letters))]

LEMMA EndWordIs ==
  ASSUME NEW r \in States
  PROVE  /\ EndWord(r) \in States /\ EndWord(r).quote = r.quote /\ ~EndWord(r).within
         /\ EndWord(EndWord(r)) = EndWord(r)
<1>1. r.word \in Seq(Letters) /\ r.words \in Seq(Seq(Letters)) /\ <<>> \in Seq(Letters)
  BY EmptySeq DEF States
<1>2. Append(r.words, r.word) \in Seq(Seq(Letters))
  BY <1>1, AppendProperties
<1>3. EndWord(r) \in States
  BY <1>1, <1>2 DEF EndWord, States
<1>4. EndWord(r).quote = r.quote /\ ~EndWord(r).within
  BY DEF EndWord, States
<1> QED
  BY <1>3, <1>4 DEF EndWord

LEMMA ScanIs ==
  ASSUME NEW r \in States, NEW c \in Letters
  PROVE  Scan(r, c) \in States
<1>1. /\ r.word \in Seq(Letters) /\ r.words \in Seq(Seq(Letters)) /\ r.within \in BOOLEAN
      /\ r.quote \in {"out", "in", "esc"}
  BY DEF States
<1>2. Append(r.word, c) \in Seq(Letters)
  BY <1>1, AppendProperties
<1>3. r.word \o (IF c \in {QUOTE, BACKSLASH} THEN <<c>> ELSE <<BACKSLASH, c>>) \in Seq(Letters)
  <2>1. <<c>> \in Seq(Letters) /\ <<BACKSLASH, c>> \in Seq(Letters)
    BY CharsAre
  <2> QED
    BY <1>1, <2>1, ConcatProperties
<1>4. CASE r.quote = "esc"
  <2> DEFINE w == r.word \o (IF c \in {QUOTE, BACKSLASH} THEN <<c>> ELSE <<BACKSLASH, c>>)
  <2>1. Scan(r, c) = [r EXCEPT !.quote = "in", !.word = w]
    BY <1>4 DEF Scan, States
  <2>2. w \in Seq(Letters)
    BY <1>3
  <2> HIDE DEF w
  <2> QED
    BY <2>1, <2>2 DEF States
<1>5. CASE r.quote = "in" /\ c = BACKSLASH
  BY <1>5 DEF Scan, States
<1>6. CASE r.quote # "esc" /\ c = QUOTE
  BY <1>6, CharsAre DEF Scan, States
<1>7. CASE r.quote = "out" /\ c = SP
  BY <1>7, CharsAre, EndWordIs DEF Scan
<1>8. CASE ~(r.quote = "esc") /\ ~(r.quote = "in" /\ c = BACKSLASH)
           /\ ~(r.quote # "esc" /\ c = QUOTE) /\ ~(r.quote = "out" /\ c = SP)
  <2>1. Scan(r, c) = [r EXCEPT !.within = TRUE, !.word = Append(r.word, c)]
    BY <1>8 DEF Scan, States
  <2> QED
    BY <1>2, <2>1 DEF States
<1> QED
  BY <1>4, <1>5, <1>6, <1>7, <1>8

\* f is what is known behind the characters of s, from a on.
Runs(f, s, a) ==
  /\ f \in [0 .. Len(s) -> States] /\ f[0] = a
  /\ \A n \in 1 .. Len(s) : f[n] = Scan(f[n - 1], s[n])

LEMMA RunsAlone ==
  ASSUME NEW s \in Seq(Letters), NEW f, NEW g, NEW a, Runs(f, s, a),
         g[0] = a, \A n \in 1 .. Len(s) : g[n] = Scan(g[n - 1], s[n])
  PROVE  \A n \in 0 .. Len(s) : g[n] = f[n]
<1> DEFINE N == Len(s)
           T == {n \in 0 .. N : g[n] = f[n]}
<1>1. N \in Nat /\ f[0] = a /\ \A n \in 1 .. N : f[n] = Scan(f[n - 1], s[n])
  BY LenProperties DEF Runs
<1>2. 0 \in T
  BY <1>1
<1>3. ASSUME NEW n \in 1 .. N, n - 1 \in T PROVE n \in T
  BY <1>1, <1>3
<1> HIDE DEF T
<1>4. \A n \in 0 .. N : n \in T
  BY <1>1, <1>2, <1>3, Induction
<1> QED
  BY <1>4 DEF T

LEMMA RunsExist ==
  ASSUME NEW s \in Seq(Letters), NEW a \in States
  PROVE  \E f : Runs(f, s, a)
<1> DEFINE N == Len(s)
           step == [n \in 1 .. N |-> [r \in States |-> Scan(r, s[n])]]
<1>1. N \in Nat /\ \A n \in 1 .. N : s[n] \in Letters
  BY LenProperties, ElementOfSeq
<1>2. Steps(step, N, States)
  <2>1. \A n \in 1 .. N, r \in States : Scan(r, s[n]) \in States
    BY <1>1, ScanIs
  <2> QED
    BY <2>1 DEF Steps
<1>3. \A n \in 1 .. N, r \in States : step[n][r] = Scan(r, s[n])
  OBVIOUS
<1> HIDE DEF step
<1>4. PICK f : Built(f, N, States, a, step)
  BY <1>1, <1>2, Recursion
<1>5. /\ f \in [0 .. N -> States] /\ f[0] = a
      /\ \A n \in 1 .. N : f[n] = step[n][f[n - 1]]
  BY <1>4 DEF Built
<1>6. \A n \in 1 .. N : f[n - 1] \in States
  BY <1>1, <1>5
<1>7. Runs(f, s, a)
  BY <1>3, <1>5, <1>6 DEF Runs
<1> QED
  BY <1>7

LEMMA IdleIs == Idle \in States
  BY EmptySeq DEF Idle, States

LEMMA ScannedIs ==
  ASSUME NEW s \in Seq(Letters)
  PROVE  Runs(Scanned(s), s, Idle)
<1> DEFINE N == Len(s)
           Eq(f) == f = [n \in 0 .. N |-> IF n = 0 THEN Idle ELSE Scan(f[n - 1], s[n])]
<1>1. N \in Nat
  BY LenProperties
<1>2. Scanned(s) = CHOOSE f : Eq(f)
  BY DEF Scanned
<1>3. PICK f : Runs(f, s, Idle)
  BY IdleIs, RunsExist
<1>4. Eq(f)
  <2>1. /\ f \in [0 .. N -> States] /\ f[0] = Idle
        /\ \A n \in 1 .. N : f[n] = Scan(f[n - 1], s[n])
    BY <1>3 DEF Runs
  <2>2. f = [n \in 0 .. N |-> f[n]]
    BY <2>1
  <2>3. \A n \in 0 .. N : f[n] = IF n = 0 THEN Idle ELSE Scan(f[n - 1], s[n])
    BY <1>1, <2>1
  <2> QED
    BY <2>2, <2>3
<1>5. PICK g : Eq(g) /\ g = Scanned(s)
  BY <1>2, <1>4
<1>6. g[0] = Idle /\ \A n \in 1 .. N : g[n] = Scan(g[n - 1], s[n])
  <2>1. \A n \in 0 .. N : g[n] = IF n = 0 THEN Idle ELSE Scan(g[n - 1], s[n])
    BY <1>5
  <2> QED
    BY <1>1, <2>1
<1>7. \A n \in 0 .. N : g[n] = f[n]
  BY <1>3, <1>6, RunsAlone
<1>8. g = f
  <2>1. DOMAIN g = 0 .. N /\ f \in [0 .. N -> States]
    BY <1>3, <1>5 DEF Runs
  <2>2. g = [n \in 0 .. N |-> g[n]] /\ f = [n \in 0 .. N |-> f[n]]
    BY <1>5, <2>1
  <2> QED
    BY <1>7, <2>2
<1> QED
  BY <1>3, <1>5, <1>8

\* The scan leads from a to b over s; the characters of P stand in quotes.
Reads(a, s, b, P) ==
  /\ a \in States /\ s \in Seq(Letters)
  /\ \E f : Runs(f, s, a) /\ f[Len(s)] = b /\ \A i \in 1 .. Len(s) : s[i] \in P => Quoted(f[i - 1])

LEMMA ReadsNone ==
  ASSUME NEW a \in States, NEW P
  PROVE  Reads(a, <<>>, a, P)
<1>1. <<>> \in Seq(Letters)
  BY EmptySeq
<1>2. PICK f : Runs(f, <<>>, a)
  BY <1>1, RunsExist
<1>3. Len(<<>>) = 0
  OBVIOUS
<1>4. f[0] = a
  BY <1>2 DEF Runs
<1> QED
  BY <1>1, <1>2, <1>3, <1>4 DEF Reads

LEMMA ReadsOne ==
  ASSUME NEW a \in States, NEW c \in Letters, NEW P, c \in P => Quoted(a)
  PROVE  Reads(a, <<c>>, Scan(a, c), P)
<1>1. <<c>> \in Seq(Letters) /\ Len(<<c>>) = 1 /\ <<c>>[1] = c
  OBVIOUS
<1> DEFINE s == <<c>>
<1>2. s \in Seq(Letters) /\ Len(s) = 1 /\ s[1] = c
  BY <1>1
<1> HIDE DEF s
<1>3. PICK f : Runs(f, s, a)
  BY <1>2, RunsExist
<1>4. f[0] = a /\ f[1] = Scan(a, c)
  BY <1>2, <1>3 DEF Runs
<1>5. \A i \in 1 .. Len(s) : s[i] \in P => Quoted(f[i - 1])
  BY <1>2, <1>4
<1>6. Reads(a, s, Scan(a, c), P)
  BY <1>2, <1>3, <1>4, <1>5 DEF Reads
<1> QED
  BY <1>6 DEF s

LEMMA ReadsTyped ==
  ASSUME NEW a, NEW s, NEW b, NEW P, Reads(a, s, b, P)
  PROVE  a \in States /\ s \in Seq(Letters) /\ b \in States
<1>1. a \in States /\ s \in Seq(Letters)
  BY DEF Reads
<1>2. PICK f : Runs(f, s, a) /\ f[Len(s)] = b
  BY DEF Reads
<1>3. Len(s) \in 0 .. Len(s)
  BY <1>1, LenProperties
<1> QED
  BY <1>1, <1>2, <1>3 DEF Runs

LEMMA ReadsBoth ==
  ASSUME NEW a, NEW s, NEW b, NEW t, NEW c, NEW P, Reads(a, s, b, P), Reads(b, t, c, P)
  PROVE  Reads(a, s \o t, c, P)
<1> DEFINE M == Len(s)
           N == Len(t)
           u == s \o t
<1>1. a \in States /\ s \in Seq(Letters) /\ t \in Seq(Letters) /\ M \in Nat /\ N \in Nat
  BY LenProperties DEF Reads
<1>2. PICK f : Runs(f, s, a) /\ f[M] = b /\ \A i \in 1 .. M : s[i] \in P => Quoted(f[i - 1])
  BY DEF Reads
<1>3. PICK g : Runs(g, t, b) /\ g[N] = c /\ \A i \in 1 .. N : t[i] \in P => Quoted(g[i - 1])
  BY DEF Reads
<1>4. /\ u \in Seq(Letters) /\ Len(u) = M + N
      /\ \A i \in 1 .. M + N : u[i] = IF i <= M THEN s[i] ELSE t[i - M]
  BY <1>1, ConcatProperties
<1>5. f \in [0 .. M -> States] /\ f[0] = a /\ \A n \in 1 .. M : f[n] = Scan(f[n - 1], s[n])
  BY <1>2 DEF Runs
<1>6. g \in [0 .. N -> States] /\ g[0] = b /\ \A n \in 1 .. N : g[n] = Scan(g[n - 1], t[n])
  BY <1>3 DEF Runs
<1> HIDE DEF u, M, N
<1> DEFINE h == [i \in 0 .. M + N |-> IF i <= M THEN f[i] ELSE g[i - M]]
<1>7. h \in [0 .. M + N -> States]
  BY <1>1, <1>5, <1>6
<1>8. /\ \A i \in 0 .. M : h[i] = f[i]
      /\ \A i \in 0 .. N : h[M + i] = g[i]
  <2>1. \A i \in 0 .. M : h[i] = f[i]
    BY <1>1
  <2>2. \A i \in 1 .. N : h[M + i] = g[i]
    BY <1>1
  <2>3. h[M + 0] = g[0]
    BY <1>1, <1>2, <1>6
  <2>4. \A i \in 0 .. N : h[M + i] = g[i]
    <3> TAKE i \in 0 .. N
    <3>1. CASE i = 0
      BY <2>3, <3>1
    <3>2. CASE i # 0
      <4>1. i \in 1 .. N
        BY <3>2
      <4> QED
        BY <2>2, <4>1
    <3> QED
      BY <3>1, <3>2
  <2> QED
    BY <2>1, <2>4
<1> HIDE DEF h
<1>9. ASSUME NEW n \in 1 .. M + N
      PROVE  h[n] = Scan(h[n - 1], u[n]) /\ (u[n] \in P => Quoted(h[n - 1]))
  <2>1. CASE n <= M
    <3>1. n \in 1 .. M /\ n \in 0 .. M /\ n - 1 \in 0 .. M /\ u[n] = s[n]
      BY <1>1, <1>4, <2>1
    <3>2. h[n] = f[n] /\ h[n - 1] = f[n - 1]
      BY <1>8, <3>1
    <3> QED
      BY <1>2, <1>5, <3>1, <3>2
  <2>2. CASE n > M
    <3> DEFINE k == n - M
    <3>1. k \in 1 .. N /\ k \in 0 .. N /\ k - 1 \in 0 .. N /\ u[n] = t[k] /\ n = M + k
          /\ n - 1 = M + (k - 1)
      BY <1>1, <1>4, <2>2
    <3> HIDE DEF k
    <3>2. h[n] = g[k] /\ h[n - 1] = g[k - 1]
      BY <1>8, <3>1
    <3> QED
      BY <1>3, <1>6, <3>1, <3>2
  <2> QED
    BY <1>1, <2>1, <2>2
<1>10. h[0] = a /\ h[M + N] = c
  <2>1. 0 \in 0 .. M /\ N \in 0 .. N
    BY <1>1
  <2> QED
    BY <1>3, <1>5, <1>8, <2>1 DEF N
<1>11. Runs(h, u, a)
  BY <1>4, <1>7, <1>9, <1>10 DEF Runs
<1>12. Reads(a, u, c, P)
  BY <1>1, <1>4, <1>9, <1>10, <1>11 DEF Reads
<1> QED
  BY <1>12 DEF u

\* There is one way to read a text.
LEMMA ReadsScanned ==
  ASSUME NEW s, NEW b, NEW P, Reads(Idle, s, b, P)
  PROVE  /\ Scanned(s)[Len(s)] = b
         /\ \A i \in 1 .. Len(s) : s[i] \in P => Quoted(Scanned(s)[i - 1])
<1> DEFINE N == Len(s)
<1>1. s \in Seq(Letters) /\ N \in Nat
  BY LenProperties DEF Reads
<1>2. PICK f : Runs(f, s, Idle) /\ f[N] = b /\ \A i \in 1 .. N : s[i] \in P => Quoted(f[i - 1])
  BY DEF Reads
<1>3. Runs(Scanned(s), s, Idle)
  BY <1>1, ScannedIs
<1>4. f[0] = Idle /\ \A n \in 1 .. N : f[n] = Scan(f[n - 1], s[n])
  BY <1>2 DEF Runs
<1>5. \A n \in 0 .. N : f[n] = Scanned(s)[n]
  BY <1>1, <1>3, <1>4, RunsAlone
<1>6. N \in 0 .. N /\ \A i \in 1 .. N : i - 1 \in 0 .. N
  BY <1>1
<1> QED
  BY <1>2, <1>5, <1>6

LEMMA ScannedReads ==
  ASSUME NEW s \in Seq(Letters)
  PROVE  Reads(Idle, s, Scanned(s)[Len(s)], {})
<1>1. Runs(Scanned(s), s, Idle)
  BY ScannedIs
<1> QED
  BY <1>1, IdleIs DEF Reads

-----------------------------------------------------------------------------
(* First and Only                                                          *)

LEMMA FirstIs ==
  ASSUME NEW S, S \subseteq Nat, NEW default
  PROVE  /\ S = {} => First(S, default) = default
         /\ S # {} => First(S, default) \in S /\ \A j \in S : First(S, default) <= j
<1>1. CASE S = {}
  BY <1>1 DEF First
<1>2. CASE S # {}
  <2>1. PICK x \in S : \A y \in S : <<y, x>> \notin OpToRel(<, Nat)
    BY <1>2, WFMin, NatLessThanWellFounded
  <2>2. \A y \in S : x <= y
    <3> TAKE y \in S
    <3>1. x \in Nat /\ y \in Nat
      OBVIOUS
    <3>2. ~(y < x)
      BY <2>1, <3>1 DEF OpToRel
    <3> QED
      BY <3>1, <3>2
  <2>3. First(S, default) = CHOOSE i \in S : \A j \in S : i <= j
    BY <1>2 DEF First
  <2>4. \E i \in S : \A j \in S : i <= j
    BY <2>2
  <2> DEFINE x0 == First(S, default)
  <2>5. x0 \in S /\ \A j \in S : x0 <= j
    BY <2>3, <2>4
  <2> QED
    BY <1>2, <2>5
<1> QED
  BY <1>1, <1>2

LEMMA OnlyIs == \A x : Only({x}) = x
  BY DEF Only

-----------------------------------------------------------------------------
(* Quoting a word                                                          *)

In(word, words) == [quote |-> "in", within |-> TRUE, word |-> word, words |-> words]
Out(word, words) == [quote |-> "out", within |-> TRUE, word |-> word, words |-> words]
Between(words) == [quote |-> "out", within |-> FALSE, word |-> <<>>, words |-> words]

Before(word, words) == word \in Seq(Letters) /\ words \in Seq(Seq(Letters))

LEMMA StatesAre ==
  ASSUME NEW word, NEW words, Before(word, words)
  PROVE  /\ In(word, words) \in States /\ Out(word, words) \in States
         /\ Between(words) \in States
         /\ \A c \in Letters : Append(word, c) \in Seq(Letters) /\ Append(word, c) = word \o <<c>>
         /\ Append(words, word) \in Seq(Seq(Letters))
<1>1. word \in Seq(Letters) /\ words \in Seq(Seq(Letters)) /\ <<>> \in Seq(Letters)
  BY EmptySeq DEF Before
<1>2. \A c \in Letters : Append(word, c) \in Seq(Letters) /\ Append(word, c) = word \o <<c>>
  BY <1>1, AppendProperties, AppendIsConcat
<1>3. Append(words, word) \in Seq(Seq(Letters))
  BY <1>1, AppendProperties
<1>4. In(word, words) \in States
  BY <1>1 DEF In, States
<1>5. Out(word, words) \in States
  BY <1>1 DEF Out, States
<1>6. Between(words) \in States
  BY <1>1 DEF Between, States
<1> QED
  BY <1>2, <1>3, <1>4, <1>5, <1>6

LEMMA TwoIs ==
  ASSUME NEW S, NEW x \in S, NEW y \in S
  PROVE  <<x>> \o <<y>> = <<x, y>>
<1>1. <<x>> \in Seq(S) /\ <<y>> \in Seq(S) /\ <<x, y>> \in Seq(S)
  OBVIOUS
<1>2. Len(<<x>>) = 1 /\ Len(<<y>>) = 1 /\ Len(<<x, y>>) = 2
  OBVIOUS
<1>3. <<x>>[1] = x /\ <<y>>[1] = y /\ <<x, y>>[1] = x /\ <<x, y>>[2] = y
  OBVIOUS
<1> DEFINE u == <<x>>
           v == <<y>>
           w == <<x, y>>
<1>4. /\ u \in Seq(S) /\ v \in Seq(S) /\ w \in Seq(S) /\ Len(u) = 1 /\ Len(v) = 1 /\ Len(w) = 2
      /\ u[1] = x /\ v[1] = y /\ w[1] = x /\ w[2] = y
  BY <1>1, <1>2, <1>3
<1> HIDE DEF u, v, w
<1>5. /\ u \o v \in Seq(S) /\ Len(u \o v) = 2 
      /\ \A i \in 1 .. 2 : (u \o v)[i] = IF i <= 1 THEN u[i] ELSE v[i - 1]
  BY <1>4, ConcatProperties
<1>6. \A i \in 1 .. 2 : (u \o v)[i] = w[i]
  <2>1. (u \o v)[1] = u[1]
    BY <1>5
  <2>2. (u \o v)[2] = v[1]
    <3>1. 2 \in 1 .. 2 /\ ~(2 <= 1) /\ 2 - 1 = 1
      OBVIOUS
    <3> QED
      BY <1>5, <3>1
  <2>3. \A i \in 1 .. 2 : i = 1 \/ i = 2
    OBVIOUS
  <2> QED
    BY <1>4, <2>1, <2>2, <2>3
<1>7. u \o v = w
  BY <1>4, <1>5, <1>6, SeqEqual
<1> QED
  BY <1>7 DEF u, v, w

LEMMA InsideQuotes ==
  ASSUME NEW word, NEW words, Before(word, words), NEW c \in Letters
  PROVE  /\ c \notin {QUOTE, BACKSLASH} =>
              Reads(In(word, words), <<c>>, In(Append(word, c), words), {PIPE})
         /\ c \in {QUOTE, BACKSLASH} =>
              Reads(In(word, words), <<BACKSLASH, c>>, In(Append(word, c), words), {PIPE})
<1> DEFINE a == In(word, words)
           e == [quote |-> "esc", within |-> TRUE, word |-> word, words |-> words]
<1>1. a \in States /\ Append(word, c) = word \o <<c>> /\ Quoted(a)
  BY StatesAre DEF In, Quoted
<1>2. ASSUME c \notin {QUOTE, BACKSLASH}
      PROVE  Reads(a, <<c>>, In(Append(word, c), words), {PIPE})
  <2>1. Scan(a, c) = In(Append(word, c), words)
    BY <1>2 DEF Scan, In
  <2> HIDE DEF a
  <2>2. Reads(a, <<c>>, Scan(a, c), {PIPE})
    BY <1>1, ReadsOne
  <2> QED
    BY <2>1, <2>2
<1>3. ASSUME c \in {QUOTE, BACKSLASH}
      PROVE  Reads(a, <<BACKSLASH, c>>, In(Append(word, c), words), {PIPE})
  <2>1. Scan(a, BACKSLASH) = e
    BY CharsAre DEF Scan, In
  <2>2. Scan(e, c) = In(word \o <<c>>, words)
    BY <1>3 DEF Scan, In
  <2>3. e \in States /\ Quoted(e)
    BY DEF Before, States, Quoted
  <2> HIDE DEF a, e
  <2>4. Reads(a, <<BACKSLASH>>, e, {PIPE})
    BY <1>1, <2>1, ReadsOne, CharsAre
  <2>5. Reads(e, <<c>>, In(word \o <<c>>, words), {PIPE})
    BY <2>2, <2>3, ReadsOne
  <2>6. <<BACKSLASH>> \o <<c>> = <<BACKSLASH, c>>
    BY TwoIs, CharsAre
  <2>7. Reads(a, <<BACKSLASH>> \o <<c>>, In(word \o <<c>>, words), {PIPE})
    BY <2>4, <2>5, ReadsBoth
  <2> QED
    BY <1>1, <2>6, <2>7
<1> QED
  BY <1>2, <1>3

LEMMA OutsideQuotes ==
  ASSUME NEW word, NEW words, Before(word, words), NEW c \in Letters, c \notin {SP, QUOTE, PIPE}
  PROVE  /\ Reads(Out(word, words), <<c>>, Out(Append(word, c), words), {PIPE})
         /\ Reads(Between(words), <<c>>, Out(<<c>>, words), {PIPE})
<1> DEFINE a == Out(word, words)
           b == Between(words)
<1>1. a \in States /\ b \in States
  BY StatesAre
<1>2. Scan(a, c) = Out(Append(word, c), words)
  BY DEF Scan, Out
<1>3. Scan(b, c) = Out(<<c>>, words)
  <2>1. Append(<<>>, c) = <<c>>
    OBVIOUS
  <2> QED
    BY <2>1 DEF Scan, Out, Between
<1> HIDE DEF a, b
<1>4. Reads(a, <<c>>, Scan(a, c), {PIPE}) /\ Reads(b, <<c>>, Scan(b, c), {PIPE})
  BY <1>1, ReadsOne
<1>5. Reads(a, <<c>>, Out(Append(word, c), words), {PIPE})
  BY <1>2, <1>4
<1>6. Reads(b, <<c>>, Out(<<c>>, words), {PIPE})
  BY <1>3, <1>4
<1> QED
  BY <1>5, <1>6 DEF a, b

LEMMA TheQuotes ==
  ASSUME NEW word, NEW words, Before(word, words)
  PROVE  /\ Reads(Between(words), <<QUOTE>>, In(<<>>, words), {PIPE})
         /\ Reads(In(word, words), <<QUOTE>>, Out(word, words), {PIPE})
<1> DEFINE a == In(word, words)
           b == Between(words)
<1>1. a \in States /\ b \in States
  BY StatesAre
<1>2. Scan(a, QUOTE) = Out(word, words)
  BY CharsAre DEF Scan, In, Out
<1>3. Scan(b, QUOTE) = In(<<>>, words)
  BY CharsAre DEF Scan, In, Between
<1> HIDE DEF a, b
<1>4. Reads(a, <<QUOTE>>, Scan(a, QUOTE), {PIPE}) /\ Reads(b, <<QUOTE>>, Scan(b, QUOTE), {PIPE})
  BY <1>1, ReadsOne, CharsAre
<1>5. Reads(a, <<QUOTE>>, Out(word, words), {PIPE})
  BY <1>2, <1>4
<1>6. Reads(b, <<QUOTE>>, In(<<>>, words), {PIPE})
  BY <1>3, <1>4
<1> QED
  BY <1>5, <1>6 DEF a, b

LEMMA TheSpace ==
  ASSUME NEW word, NEW words, Before(word, words)
  PROVE  Reads(Out(word, words), <<SP>>, Between(Append(words, word)), {PIPE})
<1> DEFINE a == Out(word, words)
<1>1. a \in States
  BY StatesAre
<1>2. Scan(a, SP) = Between(Append(words, word))
  BY CharsAre DEF Scan, EndWord, Out, Between
<1> HIDE DEF a
<1>3. Reads(a, <<SP>>, Scan(a, SP), {PIPE})
  BY <1>1, ReadsOne, CharsAre
<1>4. Reads(a, <<SP>>, Between(Append(words, word)), {PIPE})
  BY <1>2, <1>3
<1> QED
  BY <1>4 DEF a

\* The first n characters of a text.
LEMMA PrefixIs ==
  ASSUME NEW S, NEW s \in Seq(S)
  PROVE  /\ SubSeq(s, 1, 0) = <<>> /\ SubSeq(s, 1, Len(s)) = s
         /\ \A n \in 0 .. Len(s) : SubSeq(s, 1, n) \in Seq(S) /\ Len(SubSeq(s, 1, n)) = n
         /\ \A n \in 1 .. Len(s) : /\ SubSeq(s, 1, n) = Append(SubSeq(s, 1, n - 1), s[n])
                                   /\ SubSeq(s, 1, n) = SubSeq(s, 1, n - 1) \o <<s[n]>>
                                   /\ s[n] \in S
<1>1. Len(s) \in Nat /\ \A n \in 1 .. Len(s) : s[n] \in S
  BY LenProperties, ElementOfSeq
<1>2. SubSeq(s, 1, 0) = <<>> /\ SubSeq(s, 1, Len(s)) = s
  BY SubSeqEmpty, SubSeqFull
<1>3. ASSUME NEW n \in 0 .. Len(s)
      PROVE  SubSeq(s, 1, n) \in Seq(S) /\ Len(SubSeq(s, 1, n)) = n
  <2>1. 1 \in Int /\ n \in Int /\ \A i \in 1 .. n : s[i] \in S
    BY <1>1
  <2>2. /\ SubSeq(s, 1, n) \in Seq(S)
        /\ Len(SubSeq(s, 1, n)) = IF 1 <= n THEN n - 1 + 1 ELSE 0
    BY <2>1, SubSeqProperties
  <2> QED
    BY <2>2
<1>4. ASSUME NEW n \in 1 .. Len(s)
      PROVE  /\ SubSeq(s, 1, n) = Append(SubSeq(s, 1, n - 1), s[n])
             /\ SubSeq(s, 1, n) = SubSeq(s, 1, n - 1) \o <<s[n]>>
  <2>1. 1 \in 1 .. Len(s) /\ n - 1 \in 0 .. Len(s)
    BY <1>1
  <2>2. SubSeq(s, 1, n) = SubSeq(s, 1, n - 1) \o <<s[n]>>
    BY <2>1, SubSeqRecursiveSecond
  <2>3. SubSeq(s, 1, n - 1) \in Seq(S) /\ s[n] \in S
    BY <1>1, <1>3, <2>1
  <2>4. Append(SubSeq(s, 1, n - 1), s[n]) = SubSeq(s, 1, n - 1) \o <<s[n]>>
    BY <2>3, AppendIsConcat
  <2> QED
    BY <2>2, <2>4
<1> QED
  BY <1>1, <1>2, <1>3, <1>4

\* The word in quotes, without the last of them.
QuotedUpTo(word) ==
  LET upto[n \in 0 .. Len(word)] ==
        IF n = 0 THEN <<QUOTE>>
        ELSE upto[n - 1] \o (IF word[n] \in {QUOTE, BACKSLASH} THEN <<BACKSLASH, word[n]>>
                             ELSE <<word[n]>>)
  IN  upto

NeedsQuotes(word) ==
  word = <<>> \/ \E i \in 1 .. Len(word) : word[i] \in {SP, QUOTE, PIPE, HELP}

LEMMA JoinedWordIs ==
  ASSUME NEW word
  PROVE  JoinedWord(word) = IF NeedsQuotes(word) THEN Append(QuotedUpTo(word)[Len(word)], QUOTE)
                            ELSE word
  BY DEF JoinedWord, NeedsQuotes, QuotedUpTo

LEMMA QuotedUpToIs ==
  ASSUME NEW word \in Seq(Letters)
  PROVE  LET f == QuotedUpTo(word)
         IN  /\ f \in [0 .. Len(word) -> Seq(Letters)] /\ f[0] = <<QUOTE>>
             /\ \A n \in 1 .. Len(word) :
                  f[n] = f[n - 1] \o (IF word[n] \in {QUOTE, BACKSLASH} THEN <<BACKSLASH, word[n]>>
                                      ELSE <<word[n]>>)
<1> DEFINE N == Len(word)
           D == Seq(Letters)
           q == <<QUOTE>>
           Piece(n) == IF word[n] \in {QUOTE, BACKSLASH} THEN <<BACKSLASH, word[n]>>
                       ELSE <<word[n]>>
           More(n, s) == s \o Piece(n)
           Eq(f) == f = [n \in 0 .. N |-> IF n = 0 THEN q ELSE More(n, f[n - 1])]
           step == [n \in 1 .. N |-> [s \in D |-> More(n, s)]]
<1>1. N \in Nat /\ \A n \in 1 .. N : word[n] \in Letters
  BY LenProperties, ElementOfSeq
<1>2. \A n \in 1 .. N : Piece(n) \in D
  BY <1>1, CharsAre
<1>3. QuotedUpTo(word) = CHOOSE f : Eq(f)
  BY DEF QuotedUpTo
<1>4. q \in D
  BY CharsAre
<1> HIDE DEF Piece, q
<1>5. \A n \in 1 .. N, s \in D : More(n, s) \in D
  BY <1>2, ConcatProperties
<1> HIDE DEF More, D, N
<1>6. Steps(step, N, D) /\ \A n \in 1 .. N, s \in D : step[n][s] = More(n, s)
  BY <1>5 DEF Steps
<1> HIDE DEF step
<1>7. PICK f : Built(f, N, D, q, step)
  BY <1>1, <1>4, <1>6, Recursion
<1>8. f \in [0 .. N -> D] /\ f[0] = q /\ \A n \in 1 .. N : f[n] = More(n, f[n - 1])
  <2>1. f \in [0 .. N -> D] /\ f[0] = q /\ \A n \in 1 .. N : f[n] = step[n][f[n - 1]]
    BY <1>7 DEF Built
  <2>2. \A n \in 1 .. N : f[n - 1] \in D
    BY <1>1, <2>1
  <2> QED
    BY <1>6, <2>1, <2>2
<1>9. Eq(f)
  <2>1. f = [n \in 0 .. N |-> f[n]]
    BY <1>8
  <2>2. \A n \in 0 .. N : f[n] = IF n = 0 THEN q ELSE More(n, f[n - 1])
    BY <1>1, <1>8
  <2> QED
    BY <2>1, <2>2
<1>10. PICK g : Eq(g) /\ g = QuotedUpTo(word)
  BY <1>3, <1>9
<1>11. g[0] = q /\ \A n \in 1 .. N : g[n] = More(n, g[n - 1])
  <2>1. \A n \in 0 .. N : g[n] = IF n = 0 THEN q ELSE More(n, g[n - 1])
    BY <1>10
  <2> QED
    BY <1>1, <2>1
<1> DEFINE T == {n \in 0 .. N : g[n] \in D}
<1>12. 0 \in T
  BY <1>1, <1>4, <1>11
<1>13. ASSUME NEW n \in 1 .. N, n - 1 \in T PROVE n \in T
  BY <1>1, <1>5, <1>11, <1>13
<1> HIDE DEF T
<1>14. \A n \in 0 .. N : n \in T
  BY <1>1, <1>12, <1>13, Induction
<1>15. g \in [0 .. N -> D]
  <2>1. g = [n \in 0 .. N |-> g[n]]
    BY <1>10
  <2> QED
    BY <1>14, <2>1 DEF T
<1> QED
  BY <1>10, <1>11, <1>15 DEF D, Piece, q, More, N

\* Neither begins nor ends with a space.
Tight(s) == s # <<>> /\ s[1] # SP /\ s[Len(s)] # SP

LEMMA WordRead ==
  ASSUME NEW word, NEW words, Before(word, words)
  PROVE  Reads(Between(words), JoinedWord(word), Out(word, words), {PIPE})
<1> DEFINE N == Len(word)
<1>1. word \in Seq(Letters) /\ words \in Seq(Seq(Letters)) /\ N \in Nat
  BY LenProperties DEF Before
<1>2. /\ SubSeq(word, 1, 0) = <<>> /\ SubSeq(word, 1, N) = word
      /\ \A n \in 0 .. N : Before(SubSeq(word, 1, n), words)
      /\ \A n \in 1 .. N : /\ SubSeq(word, 1, n) = Append(SubSeq(word, 1, n - 1), word[n])
                           /\ SubSeq(word, 1, n) = SubSeq(word, 1, n - 1) \o <<word[n]>>
                           /\ word[n] \in Letters
  BY <1>1, PrefixIs DEF Before
<1>3. CASE NeedsQuotes(word)
  <2> DEFINE f == QuotedUpTo(word)
             T == {n \in 0 .. N : Reads(Between(words), f[n], In(SubSeq(word, 1, n), words), {PIPE})}
  <2>1. /\ f \in [0 .. N -> Seq(Letters)] /\ f[0] = <<QUOTE>>
        /\ \A n \in 1 .. N :
             f[n] = f[n - 1] \o (IF word[n] \in {QUOTE, BACKSLASH} THEN <<BACKSLASH, word[n]>>
                                 ELSE <<word[n]>>)
    BY <1>1, QuotedUpToIs
  <2> HIDE DEF f
  <2>2. 0 \in T
    <3>1. Reads(Between(words), <<QUOTE>>, In(<<>>, words), {PIPE})
      BY TheQuotes
    <3>2. Reads(Between(words), f[0], In(SubSeq(word, 1, 0), words), {PIPE})
      BY <1>2, <2>1, <3>1, Zenon
    <3> QED
      BY <1>1, <3>2
  <2>3. ASSUME NEW n \in 1 .. N, n - 1 \in T PROVE n \in T
    <3> DEFINE before == SubSeq(word, 1, n - 1)
    <3>1. n \in 0 .. N /\ n - 1 \in 0 .. N
      BY <1>1
    <3>2. Before(before, words) /\ word[n] \in Letters /\ Append(before, word[n]) = SubSeq(word, 1, n)
      BY <1>2, <3>1
    <3>3. Reads(Between(words), f[n - 1], In(before, words), {PIPE})
      BY <2>3
    <3> HIDE DEF before
    <3>4. CASE word[n] \in {QUOTE, BACKSLASH}
      <4>1. f[n] = f[n - 1] \o <<BACKSLASH, word[n]>>
        BY <2>1, <3>4
      <4>2. Reads(In(before, words), <<BACKSLASH, word[n]>>, In(SubSeq(word, 1, n), words), {PIPE})
        BY <3>2, <3>4, InsideQuotes
      <4>3. Reads(Between(words), f[n - 1] \o <<BACKSLASH, word[n]>>,
                  In(SubSeq(word, 1, n), words), {PIPE})
        BY <3>3, <4>2, ReadsBoth
      <4> QED
        BY <3>1, <4>1, <4>3
    <3>5. CASE word[n] \notin {QUOTE, BACKSLASH}
      <4>1. f[n] = f[n - 1] \o <<word[n]>>
        BY <2>1, <3>5
      <4>2. Reads(In(before, words), <<word[n]>>, In(SubSeq(word, 1, n), words), {PIPE})
        BY <3>2, <3>5, InsideQuotes
      <4>3. Reads(Between(words), f[n - 1] \o <<word[n]>>,
                  In(SubSeq(word, 1, n), words), {PIPE})
        BY <3>3, <4>2, ReadsBoth
      <4> QED
        BY <3>1, <4>1, <4>3
    <3> QED
      BY <3>4, <3>5
  <2> HIDE DEF T
  <2>4. N \in T
    <3>1. \A n \in 0 .. N : n \in T
      BY <1>1, <2>2, <2>3, Induction
    <3> QED
      BY <1>1, <3>1
  <2>5. Reads(Between(words), f[N], In(word, words), {PIPE})
    BY <1>2, <2>4 DEF T
  <2>6. Reads(In(word, words), <<QUOTE>>, Out(word, words), {PIPE})
    BY TheQuotes
  <2>7. Reads(Between(words), f[N] \o <<QUOTE>>, Out(word, words), {PIPE})
    BY <2>5, <2>6, ReadsBoth
  <2>8. JoinedWord(word) = f[N] \o <<QUOTE>>
    <3>1. f[N] \in Seq(Letters) /\ QUOTE \in Letters
      BY <1>1, <2>1, CharsAre
    <3>2. Append(f[N], QUOTE) = f[N] \o <<QUOTE>>
      BY <3>1, AppendIsConcat
    <3> QED
      BY <1>3, <3>2, JoinedWordIs DEF f
  <2> QED
    BY <2>7, <2>8
<1>4. CASE ~NeedsQuotes(word)
  <2> DEFINE T == {n \in 0 .. N : n > 0 => Reads(Between(words), SubSeq(word, 1, n),
                                                 Out(SubSeq(word, 1, n), words), {PIPE})}
  <2>1. word # <<>> /\ \A n \in 1 .. N : word[n] \notin {SP, QUOTE, PIPE}
    BY <1>4 DEF NeedsQuotes
  <2>2. 0 \in T
    BY <1>1
  <2>3. ASSUME NEW n \in 1 .. N, n - 1 \in T PROVE n \in T
    <3> DEFINE before == SubSeq(word, 1, n - 1)
    <3>1. n \in 0 .. N /\ n - 1 \in 0 .. N /\ n \in Nat
      BY <1>1
    <3>2. /\ Before(before, words) /\ word[n] \in Letters /\ word[n] \notin {SP, QUOTE, PIPE}
          /\ Append(before, word[n]) = SubSeq(word, 1, n)
          /\ before \o <<word[n]>> = SubSeq(word, 1, n)
      BY <1>2, <2>1, <3>1
    <3>3. n - 1 > 0 => Reads(Between(words), before, Out(before, words), {PIPE})
      BY <2>3
    <3>4. n - 1 = 0 => before = <<>>
      BY <1>2
    <3> HIDE DEF before
    <3>5. CASE n - 1 = 0
      <4>1. SubSeq(word, 1, n) = <<word[n]>>
        <5>1. Append(<<>>, word[n]) = <<word[n]>>
          OBVIOUS
        <5> QED
          BY <3>2, <3>4, <3>5, <5>1
      <4>2. Reads(Between(words), <<word[n]>>, Out(<<word[n]>>, words), {PIPE})
        BY <3>2, OutsideQuotes
      <4>3. Reads(Between(words), SubSeq(word, 1, n), Out(SubSeq(word, 1, n), words), {PIPE})
        BY <4>1, <4>2
      <4> QED
        BY <3>1, <4>3
    <3>6. CASE n - 1 > 0
      <4>1. Reads(Out(before, words), <<word[n]>>, Out(SubSeq(word, 1, n), words), {PIPE})
        BY <3>2, OutsideQuotes
      <4>2. Reads(Between(words), before \o <<word[n]>>, Out(SubSeq(word, 1, n), words), {PIPE})
        BY <3>3, <3>6, <4>1, ReadsBoth
      <4>3. Reads(Between(words), SubSeq(word, 1, n), Out(SubSeq(word, 1, n), words), {PIPE})
        BY <3>2, <4>2
      <4> QED
        BY <3>1, <4>3
    <3> QED
      BY <1>1, <3>5, <3>6
  <2> HIDE DEF T
  <2>4. N \in T
    <3>1. \A n \in 0 .. N : n \in T
      BY <1>1, <2>2, <2>3, Induction
    <3> QED
      BY <1>1, <3>1
  <2>5. N > 0
    BY <1>1, <2>1, EmptySeq
  <2>6. JoinedWord(word) = word
    BY <1>4, JoinedWordIs
  <2>7. Reads(Between(words), word, Out(word, words), {PIPE})
    BY <1>2, <2>4, <2>5 DEF T
  <2> QED
    BY <2>6, <2>7
<1> QED
  BY <1>3, <1>4

LEMMA QuotedUpToTight ==
  ASSUME NEW word \in Seq(Letters)
  PROVE  \A n \in 0 .. Len(word) : QuotedUpTo(word)[n] # <<>> /\ QuotedUpTo(word)[n][1] = QUOTE
<1> DEFINE N == Len(word)
           f == QuotedUpTo(word)
           Piece(n) == IF word[n] \in {QUOTE, BACKSLASH} THEN <<BACKSLASH, word[n]>>
                       ELSE <<word[n]>>
           T == {n \in 0 .. N : f[n] # <<>> /\ f[n][1] = QUOTE}
<1>1. N \in Nat /\ \A n \in 1 .. N : word[n] \in Letters
  BY LenProperties, ElementOfSeq
<1>2. /\ f \in [0 .. N -> Seq(Letters)] /\ f[0] = <<QUOTE>>
      /\ \A n \in 1 .. N : f[n] = f[n - 1] \o Piece(n)
  BY QuotedUpToIs
<1>3. \A n \in 1 .. N : Piece(n) \in Seq(Letters)
  BY <1>1, CharsAre
<1> HIDE DEF f, Piece
<1>4. 0 \in T
  BY <1>1, <1>2
<1>5. ASSUME NEW n \in 1 .. N, n - 1 \in T PROVE n \in T
  <2> DEFINE s == f[n - 1]
  <2>1. n \in 0 .. N /\ n - 1 \in 0 .. N /\ s \in Seq(Letters) /\ s # <<>> /\ s[1] = QUOTE
        /\ f[n] = s \o Piece(n) /\ Piece(n) \in Seq(Letters)
    BY <1>1, <1>2, <1>3, <1>5
  <2> HIDE DEF s
  <2>2. Len(s) \in Nat /\ Len(s) # 0 /\ Len(Piece(n)) \in Nat
    BY <2>1, LenProperties, EmptySeq
  <2>3. f[n][1] = QUOTE /\ Len(f[n]) # 0
    BY <2>1, <2>2, ConcatProperties
  <2>4. f[n] # <<>>
    BY <2>3
  <2> QED
    BY <2>1, <2>3, <2>4
<1> HIDE DEF T
<1>6. \A n \in 0 .. N : n \in T
  BY <1>1, <1>4, <1>5, Induction
<1> QED
  BY <1>6 DEF T, f

\* What is put behind a text that neither begins nor ends with a space.
LEMMA TightIs ==
  ASSUME NEW s \in Seq(Letters), NEW t \in Seq(Letters), Tight(t)
  PROVE  /\ s # <<>> /\ s[1] # SP => Tight(s \o t)
         /\ Tight(<<>> \o t) /\ <<>> \o t = t
<1>1. /\ Len(s) \in Nat /\ Len(t) \in Nat /\ Len(t) # 0 /\ t[Len(t)] # SP
      /\ s # <<>> => Len(s) # 0
  BY LenProperties, EmptySeq DEF Tight
<1>2. /\ s \o t \in Seq(Letters) /\ Len(s \o t) = Len(s) + Len(t)
      /\ \A i \in 1 .. Len(s) + Len(t) : (s \o t)[i] = IF i <= Len(s) THEN s[i] ELSE t[i - Len(s)]
  BY ConcatProperties
<1>3. ASSUME s # <<>>, s[1] # SP PROVE Tight(s \o t)
  <2>1. (s \o t)[1] = s[1]
    BY <1>1, <1>2, <1>3
  <2>2. (s \o t)[Len(s \o t)] = t[Len(t)]
    BY <1>1, <1>2
  <2>3. s \o t # <<>>
    <3>1. Len(s \o t) # 0
      BY <1>1, <1>2
    <3> QED
      BY <3>1
  <2> QED
    BY <1>1, <1>3, <2>1, <2>2, <2>3 DEF Tight
<1>4. <<>> \o t = t
  BY ConcatEmptySeq
<1> QED
  BY <1>3, <1>4

LEMMA JoinedWordTight ==
  ASSUME NEW word \in Seq(Letters)
  PROVE  JoinedWord(word) \in Seq(Letters) /\ Tight(JoinedWord(word))
<1> DEFINE N == Len(word)
           f == QuotedUpTo(word)
<1>1. N \in Nat /\ N \in 0 .. N /\ f[N] \in Seq(Letters) /\ f[N] # <<>> /\ f[N][1] = QUOTE
  <2>1. N \in Nat /\ N \in 0 .. N
    BY LenProperties
  <2> QED
    BY <2>1, QuotedUpToTight, QuotedUpToIs
<1> HIDE DEF f
<1>2. CASE NeedsQuotes(word)
  <2>1. JoinedWord(word) = Append(f[N], QUOTE)
    BY <1>2, JoinedWordIs DEF f
  <2>2. <<QUOTE>> \in Seq(Letters) /\ Tight(<<QUOTE>>)
    BY CharsAre DEF Tight
  <2>3. Append(f[N], QUOTE) = f[N] \o <<QUOTE>>
    BY <1>1, CharsAre, AppendIsConcat
  <2>4. QUOTE # SP
    BY CharsAre
  <2> DEFINE q == <<QUOTE>>
             u == f[N]
  <2>5. q \in Seq(Letters) /\ Tight(q) /\ u \in Seq(Letters) /\ u # <<>> /\ u[1] # SP
    BY <1>1, <2>2, <2>4
  <2> HIDE DEF q, u
  <2>6. Tight(u \o q) /\ u \o q \in Seq(Letters)
    BY <2>5, TightIs, ConcatProperties
  <2> QED
    BY <2>1, <2>3, <2>6 DEF q, u
<1>3. CASE ~NeedsQuotes(word)
  <2>1. JoinedWord(word) = word
    BY <1>3, JoinedWordIs
  <2>2. word # <<>> /\ \A i \in 1 .. N : word[i] # SP
    BY <1>3 DEF NeedsQuotes
  <2>3. N # 0
    BY <2>2, EmptySeq
  <2> QED
    BY <1>1, <2>1, <2>2, <2>3 DEF Tight
<1> QED
  BY <1>2, <1>3

-----------------------------------------------------------------------------
(* Joining the words                                                       *)

\* The first n words, joined.
JoinedUpTo(words) ==
  LET upto[n \in 0 .. Len(words)] ==
        IF n = 0 THEN <<>>
        ELSE (IF n = 1 THEN <<>> ELSE Append(upto[n - 1], SP)) \o JoinedWord(words[n])
  IN  upto

JoinedTo(f, words) ==
  /\ f[0] = <<>>
  /\ \A n \in 1 .. Len(words) :
       f[n] = (IF n = 1 THEN <<>> ELSE Append(f[n - 1], SP)) \o JoinedWord(words[n])

LEMMA JoinedUpToIs ==
  ASSUME NEW words \in Seq(Seq(Letters))
  PROVE  Joined(words) = JoinedUpTo(words)[Len(words)] /\ JoinedTo(JoinedUpTo(words), words)
<1> DEFINE N == Len(words)
           D == Seq(Letters)
           More(n, s) == (IF n = 1 THEN <<>> ELSE Append(s, SP)) \o JoinedWord(words[n])
           Eq(f) == f = [n \in 0 .. N |-> IF n = 0 THEN <<>> ELSE More(n, f[n - 1])]
           step == [n \in 1 .. N |-> [s \in D |-> More(n, s)]]
<1>1. N \in Nat /\ \A n \in 1 .. N : words[n] \in Seq(Letters)
  BY LenProperties, ElementOfSeq
<1>2. <<>> \in D
  BY EmptySeq
<1>3. JoinedUpTo(words) = CHOOSE f : Eq(f)
  BY DEF JoinedUpTo
<1>4. ASSUME NEW n \in 1 .. N, NEW s \in D PROVE More(n, s) \in D
  <2> DEFINE t == JoinedWord(words[n])
             u == IF n = 1 THEN <<>> ELSE Append(s, SP)
  <2>1. t \in Seq(Letters)
    BY <1>1, JoinedWordTight
  <2>2. Append(s, SP) \in Seq(Letters)
    BY CharsAre, AppendProperties
  <2>3. u \in Seq(Letters)
    BY <1>2, <2>2
  <2> HIDE DEF t, u
  <2>4. u \o t \in Seq(Letters)
    BY <2>1, <2>3, ConcatProperties
  <2> QED
    BY <2>4 DEF u, t
<1> HIDE DEF More, D, N
<1>6. Steps(step, N, D) /\ \A n \in 1 .. N, s \in D : step[n][s] = More(n, s)
  BY <1>4 DEF Steps
<1> HIDE DEF step
<1> DEFINE e == <<>>
<1> HIDE DEF e
<1>7. PICK f : Built(f, N, D, e, step)
  BY <1>1, <1>2, <1>6, Recursion DEF e
<1>8. f \in [0 .. N -> D] /\ f[0] = e /\ \A n \in 1 .. N : f[n] = More(n, f[n - 1])
  <2>1. f \in [0 .. N -> D] /\ f[0] = e /\ \A n \in 1 .. N : f[n] = step[n][f[n - 1]]
    BY <1>7 DEF Built
  <2>2. \A n \in 1 .. N : f[n - 1] \in D
    BY <1>1, <2>1
  <2> QED
    BY <1>6, <2>1, <2>2
<1>9. Eq(f)
  <2>1. f = [n \in 0 .. N |-> f[n]]
    BY <1>8
  <2>2. \A n \in 0 .. N : f[n] = IF n = 0 THEN e ELSE More(n, f[n - 1])
    BY <1>1, <1>8
  <2> QED
    BY <2>1, <2>2 DEF e
<1>10. PICK g : Eq(g) /\ g = JoinedUpTo(words)
  BY <1>3, <1>9
<1>11. g[0] = <<>> /\ \A n \in 1 .. N : g[n] = More(n, g[n - 1])
  <2>1. \A n \in 0 .. N : g[n] = IF n = 0 THEN e ELSE More(n, g[n - 1])
    BY <1>10 DEF e
  <2> QED
    BY <1>1, <2>1 DEF e
<1>12. JoinedTo(g, words)
  BY <1>11 DEF More, N, JoinedTo
<1>13. Joined(words) = JoinedUpTo(words)[Len(words)]
  BY DEF Joined, JoinedUpTo
<1> QED
  BY <1>10, <1>12, <1>13

LEMMA JoinedRead ==
  ASSUME NEW words \in Seq(Seq(Letters)), words # <<>>
  PROVE  /\ Joined(words) \in Seq(Letters) /\ Tight(Joined(words))
         /\ Reads(Idle, Joined(words),
                  Out(words[Len(words)], SubSeq(words, 1, Len(words) - 1)), {PIPE})
<1> DEFINE N == Len(words)
           f == JoinedUpTo(words)
           Good(n) == /\ f[n] \in Seq(Letters) /\ Tight(f[n])
                      /\ Reads(Idle, f[n], Out(words[n], SubSeq(words, 1, n - 1)), {PIPE})
           T == {n \in 0 .. N : n > 0 => Good(n)}
<1>1. N \in Nat /\ N # 0 /\ \A n \in 1 .. N : words[n] \in Seq(Letters)
  BY LenProperties, ElementOfSeq, EmptySeq
<1>2. /\ \A n \in 1 .. N :
           f[n] = (IF n = 1 THEN <<>> ELSE Append(f[n - 1], SP)) \o JoinedWord(words[n])
  BY JoinedUpToIs DEF JoinedTo
<1> HIDE DEF f
<1>3. /\ SubSeq(words, 1, 0) = <<>>
      /\ \A n \in 1 .. N : /\ Before(words[n], SubSeq(words, 1, n - 1))
                           /\ Append(SubSeq(words, 1, n - 1), words[n]) = SubSeq(words, 1, n)
  <2>1. \A n \in 1 .. N : n - 1 \in 0 .. N
    BY <1>1
  <2> QED
    BY <1>1, <2>1, PrefixIs DEF Before
<1>4. 0 \in T
  BY <1>1
<1>5. ASSUME NEW n \in 1 .. N, n - 1 \in T PROVE n \in T
  <2> DEFINE w == words[n]
             t == JoinedWord(w)
             ws == SubSeq(words, 1, n - 1)
  <2>1. n \in 0 .. N /\ n \in Nat /\ (n - 1 \in 1 .. N \/ n = 1)
    BY <1>1
  <2>2. t \in Seq(Letters) /\ Tight(t)
    BY <1>1, JoinedWordTight
  <2>3. Reads(Between(ws), t, Out(w, ws), {PIPE})
    BY <1>3, WordRead
  <2>4. n = 1 => f[n] = <<>> \o t
    BY <1>2
  <2>5. n # 1 => f[n] = Append(f[n - 1], SP) \o t
    BY <1>2
  <2> HIDE DEF t, w
  <2>6. CASE n = 1
    <3>1. f[n] = t
      BY <2>2, <2>4, <2>6, TightIs
    <3>2. ws = <<>>
      BY <1>3, <2>6
    <3>3. Between(ws) = Idle
      BY <3>2 DEF Between, Idle
    <3>4. Reads(Idle, f[n], Out(w, ws), {PIPE})
      BY <2>3, <3>1, <3>3
    <3>5. Good(n)
      BY <2>2, <3>1, <3>4 DEF w
    <3> QED
      BY <3>5
  <2>7. CASE n # 1
    <3> DEFINE u == f[n - 1]
               v == SubSeq(words, 1, n - 1 - 1)
               x == words[n - 1]
    <3>1. n - 1 \in 1 .. N
      BY <2>1, <2>7
    <3>2. u \in Seq(Letters) /\ Tight(u) /\ Reads(Idle, u, Out(x, v), {PIPE})
      BY <1>5, <3>1
    <3>3. Before(x, v) /\ Append(v, x) = ws
      BY <1>3, <3>1
    <3>4. f[n] = Append(u, SP) \o t
      BY <2>5, <2>7
    <3> HIDE DEF u, v, x, ws
    <3>5. Append(u, SP) = u \o <<SP>> /\ Append(u, SP) \in Seq(Letters)
      BY <3>2, CharsAre, AppendIsConcat, AppendProperties
    <3>6. Reads(Out(x, v), <<SP>>, Between(ws), {PIPE})
      BY <3>3, TheSpace
    <3>7. Reads(Idle, u \o <<SP>>, Between(ws), {PIPE})
      BY <3>2, <3>6, ReadsBoth
    <3>8. Reads(Idle, (u \o <<SP>>) \o t, Out(w, ws), {PIPE})
      BY <2>3, <3>7, ReadsBoth
    <3>9. Reads(Idle, f[n], Out(w, ws), {PIPE})
      BY <3>4, <3>5, <3>8
    <3>10. Tight(f[n])
      <4> DEFINE y == Append(u, SP)
      <4>1. Len(u) \in Nat /\ Len(u) # 0
        BY <3>2, LenProperties, EmptySeq DEF Tight
      <4>2. y[1] = u[1] /\ y # <<>> /\ y \in Seq(Letters)
        BY <3>2, <4>1, CharsAre, AppendProperties
      <4>3. y[1] # SP
        BY <3>2, <4>2 DEF Tight
      <4> HIDE DEF y
      <4>4. Tight(y \o t)
        BY <2>2, <4>2, <4>3, TightIs
      <4> QED
        BY <3>4, <4>4 DEF y
    <3>11. f[n] \in Seq(Letters)
      BY <2>2, <3>4, <3>5, ConcatProperties
    <3>12. Good(n)
      BY <3>9, <3>10, <3>11 DEF w, ws
    <3> QED
      BY <1>1, <3>12
  <2> QED
    BY <2>6, <2>7
<1> HIDE DEF T
<1>6. N \in T
  <2>1. \A n \in 0 .. N : n \in T
    BY <1>1, <1>4, <1>5, Induction
  <2> QED
    BY <1>1, <2>1
<1>7. Good(N)
  BY <1>1, <1>6 DEF T
<1> QED
  BY <1>7, JoinedUpToIs DEF f

-----------------------------------------------------------------------------
(* The words arrive                                                        *)

LEMMA TightStays ==
  ASSUME NEW s \in Seq(Letters), s = <<>> \/ Tight(s)
  PROVE  TrimEnd(SkipSpaces(s)) = s
<1> DEFINE N == Len(s)
<1>1. N \in Nat /\ SubSeq(s, 1, N) = s /\ SubSeq(s, 1, 0) = <<>> /\ (s = <<>> => N = 0)
      /\ (s # <<>> => N # 0)
  BY LenProperties, PrefixIs, EmptySeq
<1>2. SkipSpaces(s) = s
  <2> DEFINE S == {i \in 1 .. N : s[i] # SP}
  <2>1. SkipSpaces(s) = SubSeq(s, First(S, N + 1), N)
    BY DEF SkipSpaces
  <2>2. S \subseteq Nat
    BY <1>1
  <2>3. CASE s = <<>>
    <3>1. S = {}
      BY <1>1, <2>3
    <3> HIDE DEF S
    <3> HIDE DEF N
    <3>2. First(S, N + 1) = 1
      <4>1. N = 0
        BY <1>1, <2>3
      <4>2. First(S, N + 1) = N + 1
        BY <2>2, <3>1, FirstIs
      <4> QED
        BY <4>1, <4>2
    <3>3. SkipSpaces(s) = SubSeq(s, 1, 0)
      <4>1. N = 0
        BY <1>1, <2>3
      <4> QED
        BY <2>1, <3>2, <4>1
    <3> QED
      BY <1>1, <2>3, <3>3
  <2>4. CASE Tight(s)
    <3>1. 1 \in S /\ \A i \in S : 1 <= i
      BY <1>1, <2>4 DEF Tight
    <3> HIDE DEF S
    <3>2. First(S, N + 1) \in S /\ First(S, N + 1) <= 1
      BY <2>2, <3>1, FirstIs
    <3> DEFINE x == First(S, N + 1)
    <3>3. x = 1
      <4>1. x \in Nat /\ 1 <= x /\ x <= 1
        BY <2>2, <3>1, <3>2
      <4> HIDE DEF x
      <4> QED
        BY <4>1
    <3>4. SkipSpaces(s) = SubSeq(s, 1, N)
      BY <2>1, <3>3
    <3> QED
      BY <1>1, <3>4
  <2> QED
    BY <2>3, <2>4
<1>3. TrimEnd(s) = s
  <2> DEFINE P(n) == (n > 0 => s[n] # SP) /\ \A i \in n + 1 .. N : s[i] = SP
             m == CHOOSE n \in 0 .. N : P(n)
  <2>1. TrimEnd(s) = SubSeq(s, 1, m)
    BY DEF TrimEnd
  <2>2. P(N)
    BY <1>1 DEF Tight
  <2>3. N \in 0 .. N
    BY <1>1
  <2>4. m \in 0 .. N /\ P(m)
    <3> HIDE DEF P
    <3> QED
      BY <2>2, <2>3
  <2>5. m = N
    <3> SUFFICES ASSUME m # N PROVE FALSE
      OBVIOUS
    <3> HIDE DEF m
    <3>1. m \in 0 .. N /\ \A i \in m + 1 .. N : s[i] = SP
      BY <2>4
    <3> HIDE DEF N
    <3>2. N \in m + 1 .. N /\ N # 0
      BY <1>1, <3>1
    <3>3. s[N] = SP /\ N # 0
      BY <3>1, <3>2
    <3>4. s # <<>>
      BY <1>1, <3>2
    <3> QED
      BY <3>3, <3>4 DEF Tight, N
  <2> HIDE DEF m
  <2>6. TrimEnd(s) = SubSeq(s, 1, N)
    BY <2>1, <2>5
  <2> QED
    BY <1>1, <2>6
<1> QED
  BY <1>2, <1>3

LEMMA ExecuteIs ==
  ASSUME NEW text
  PROVE  LET start == TrimEnd(SkipSpaces(text))
             pipe == FindPipe(start)
         IN  Execute(text) =
               IF pipe = 0 THEN ExecuteWords(Tokenize(start), NoFilter)
               ELSE ExecuteWords(Tokenize(SubSeq(start, 1, pipe - 1)),
                                 FilterOf(SubSeq(start, pipe + 1, Len(start))))
<1> DEFINE begin == TrimEnd(SkipSpaces(text))
           CommandIn(start, pipe) == IF pipe = 0 THEN start ELSE SubSeq(start, 1, pipe - 1)
           FilterIn(start, pipe) ==
             IF pipe = 0 THEN NoFilter ELSE FilterOf(SubSeq(start, pipe + 1, Len(start)))
           Of(start) ==
             {ExecuteWords(t, filter) : t \in {Tokenize(CommandIn(start, FindPipe(start)))},
                                         filter \in {FilterIn(start, FindPipe(start))}}
           all == {Of(start) : start \in {begin}}
           one == ExecuteWords(Tokenize(CommandIn(begin, FindPipe(begin))),
                               FilterIn(begin, FindPipe(begin)))
<1>1. Execute(text) = Only(UNION all)
  BY DEF Execute
<1>2. Of(begin) = {one}
  OBVIOUS
<1> HIDE DEF Of
<1>3. all = {Of(begin)}
  OBVIOUS
<1>4. UNION all = {one}
  BY <1>2, <1>3
<1>5. Execute(text) = one
  BY <1>1, <1>4, OnlyIs
<1> QED
  BY <1>5

\* A scan that ends in a word, outside quotes, or between two.
LEMMA WordsOf ==
  ASSUME NEW s, NEW word, NEW words, Before(word, words)
  PROVE  /\ Reads(Idle, s, Out(word, words), {PIPE}) =>
              FindPipe(s) = 0 /\ Words(s) = [words |-> Append(words, word), open |-> FALSE]
         /\ Reads(Idle, s, Between(words), {PIPE}) =>
              FindPipe(s) = 0 /\ Words(s) = [words |-> words, open |-> FALSE]
<1> DEFINE S == {i \in 1 .. Len(s) : s[i] = PIPE /\ ~Quoted(Scanned(s)[i - 1])}
<1>1. ASSUME NEW b, Reads(Idle, s, b, {PIPE})
      PROVE  FindPipe(s) = 0 /\ Scanned(s)[Len(s)] = b
  <2>1. Scanned(s)[Len(s)] = b
        /\ \A i \in 1 .. Len(s) : s[i] \in {PIPE} => Quoted(Scanned(s)[i - 1])
    BY <1>1, ReadsScanned
  <2>2. S = {}
    BY <2>1
  <2>3. FindPipe(s) = First(S, 0)
    BY DEF FindPipe
  <2> HIDE DEF S
  <2>4. First(S, 0) = 0
    BY <2>2, FirstIs
  <2> QED
    BY <2>1, <2>3, <2>4
<1> DEFINE Whole(r) ==
             [words |-> EndWord([r EXCEPT !.word = @ \o (IF r.quote = "esc" THEN <<BACKSLASH>>
                                                         ELSE <<>>)]).words,
              open |-> Quoted(r)]
<1>2. Words(s) = Whole(Scanned(s)[Len(s)])
  BY DEF Words
<1>3. word \o <<>> = word
  BY ConcatEmptySeq DEF Before
<1>4. Whole(Out(word, words)) = [words |-> Append(words, word), open |-> FALSE]
  BY <1>3 DEF Out, EndWord, Quoted
<1>5. Whole(Between(words)) = [words |-> words, open |-> FALSE]
  BY DEF Between, EndWord, Quoted
<1> HIDE DEF Whole
<1> QED
  BY <1>1, <1>2, <1>4, <1>5

LEMMA JoinedWords ==
  ASSUME NEW words \in Seq(Seq(Letters))
  PROVE  /\ Words(Joined(words)) = [words |-> words, open |-> FALSE]
         /\ FindPipe(Joined(words)) = 0
         /\ TrimEnd(SkipSpaces(Joined(words))) = Joined(words)
<1> DEFINE N == Len(words)
           s == Joined(words)
<1>1. CASE words = <<>>
  <2>1. s = <<>>
    <3>1. Len(words) = 0
      BY <1>1
    <3> QED
      BY <3>1, JoinedUpToIs DEF JoinedTo
  <2>2. Between(words) = Idle /\ Before(<<>>, words) /\ s \in Seq(Letters)
    BY <1>1, <2>1, EmptySeq DEF Between, Idle, Before
  <2>3. Reads(Idle, s, Between(words), {PIPE})
    BY <2>1, <2>2, ReadsNone, IdleIs
  <2> HIDE DEF s
  <2>4. Words(s) = [words |-> words, open |-> FALSE] /\ FindPipe(s) = 0
    BY <2>2, <2>3, WordsOf
  <2>5. TrimEnd(SkipSpaces(s)) = s
    BY <2>1, <2>2, TightStays
  <2> QED
    BY <2>4, <2>5 DEF s
<1>2. CASE words # <<>>
  <2> DEFINE w == words[N]
             ws == SubSeq(words, 1, N - 1)
  <2>1. s \in Seq(Letters) /\ Tight(s) /\ Reads(Idle, s, Out(w, ws), {PIPE})
    BY <1>2, JoinedRead
  <2>2. N \in 1 .. N /\ N - 1 \in 0 .. N
    BY <1>2, LenProperties, EmptySeq
  <2>3. Before(w, ws) /\ Append(ws, w) = words
    BY <2>2, PrefixIs DEF Before
  <2> HIDE DEF s, w, ws
  <2>4. Words(s) = [words |-> words, open |-> FALSE] /\ FindPipe(s) = 0
    BY <2>1, <2>3, WordsOf
  <2>5. TrimEnd(SkipSpaces(s)) = s
    BY <2>1, TightStays
  <2> QED
    BY <2>4, <2>5 DEF s
<1> QED
  BY <1>1, <1>2

LEMMA JoinedRuns ==
  ASSUME NEW words \in Seq(Seq(Letters))
  PROVE  LET done == Execute(Joined(words))
         IN  IF Len(words) > MaxArgs - 1 THEN done.kind = "tooMany"
             ELSE done.argv = words /\ done.filter = NoFilter
<1> DEFINE s == Joined(words)
           many == Len(words) > MaxArgs - 1
           t == [argv |-> IF many THEN SubSeq(words, 1, MaxArgs - 1) ELSE words,
                 status |-> IF many THEN "tooMany" ELSE "ok"]
<1>1. /\ Words(s) = [words |-> words, open |-> FALSE]
      /\ FindPipe(s) = 0 /\ TrimEnd(SkipSpaces(s)) = s
  BY JoinedWords
<1> HIDE DEF s
<1>2. Tokenize(s) = t
  BY <1>1 DEF Tokenize
<1>3. Execute(s) = ExecuteWords(t, NoFilter)
  BY <1>1, <1>2, ExecuteIs
<1>4. ASSUME many PROVE Execute(s).kind = "tooMany"
  <2>1. t.status = "tooMany" /\ NoFilter.type = "none"
    BY <1>4 DEF NoFilter
  <2> HIDE DEF t
  <2>2. ExecuteWords(t, NoFilter).kind = Shows("tooMany").kind
    BY <2>1 DEF ExecuteWords
  <2>3. Shows("tooMany").kind = "tooMany"
    BY DEF Shows, Nothing
  <2> QED
    BY <1>3, <2>2, <2>3
<1>5. ASSUME ~many PROVE Execute(s).argv = words /\ Execute(s).filter = NoFilter
  <2>1. t.argv = words
    BY <1>5
  <2> HIDE DEF t
  <2>2. ExecuteWords(t, NoFilter).argv = words /\ ExecuteWords(t, NoFilter).filter = NoFilter
    BY <2>1 DEF ExecuteWords
  <2> QED
    BY <1>3, <2>2
<1> QED
  BY <1>4, <1>5 DEF s

LEMMA ByIs ==
  ASSUME NEW key, NEW r
  PROVE  /\ By(key, r).kind = r.kind /\ By(key, r).key = key /\ By(key, r).path = r.path
         /\ By(key, r).offers = r.offers /\ By(key, r).node = r.node
         /\ By(key, r).argv = r.argv /\ By(key, r).filter = r.filter
  BY DEF By

LEMMA ShowsIs ==
  ASSUME NEW kind
  PROVE  /\ Shows(kind).kind = kind /\ Shows(kind).key = "none" /\ Shows(kind).path = <<>>
         /\ Shows(kind).offers = <<>> /\ Nothing.key = "none" /\ Nothing.offers = <<>>
  BY DEF Shows, Nothing

LEMMA ExecArgvSplits ==
  ASSUME NEW words \in WordLists, ExecArgv(words)
  PROVE  JoinedIsSplit'
<1> DEFINE text == Joined(words)
           done == IF Len(text) + 1 <= menu.size - 1 THEN Execute(text) ELSE Shows("noRoom")
<1>1. shown' = [By("exec", done) EXCEPT !.path = words]
  BY DEF ExecArgv
<1>2. words \in Seq(Seq(Letters)) /\ Len(words) \in Nat /\ MaxArgs \in Nat
  BY WordsAssumption, LenProperties
<1>3. \/ done.kind = "noRoom"
      \/ done.kind = "tooMany" /\ Len(words) >= MaxArgs
      \/ done.argv = words /\ done.filter = NoFilter
  <2>1. CASE Len(text) + 1 <= menu.size - 1
    <3>1. IF Len(words) > MaxArgs - 1 THEN Execute(text).kind = "tooMany"
          ELSE Execute(text).argv = words /\ Execute(text).filter = NoFilter
      BY <1>2, JoinedRuns
    <3> QED
      BY <1>2, <2>1, <3>1
  <2>2. CASE ~(Len(text) + 1 <= menu.size - 1)
    BY <2>2, ShowsIs
  <2> QED
    BY <2>1, <2>2
<1> HIDE DEF done
<1>4. /\ shown'.kind = done.kind /\ shown'.path = words
      /\ shown'.argv = done.argv /\ shown'.filter = done.filter
  BY <1>1 DEF By
<1> QED
  BY <1>3, <1>4 DEF JoinedIsSplit

\* An application's line gives its handler the words it was made of, whatever is in them
\* (cli_exec_argv, cli_tokenize).
THEOREM WordsArrive == Spec => []JoinedIsSplit
<1>1. Init => JoinedIsSplit
  BY ShowsIs DEF Init, JoinedIsSplit
<1>2. JoinedIsSplit /\ [Next]_wordVars => JoinedIsSplit'
  <2> SUFFICES ASSUME JoinedIsSplit, [Next]_wordVars PROVE JoinedIsSplit'
    OBVIOUS
  <2>1. ASSUME NEW n \in 0 .. MaxTyped, MoveCursor(n) PROVE JoinedIsSplit'
    BY <2>1, ShowsIs DEF MoveCursor, JoinedIsSplit
  <2>2. ASSUME NEW c \in Chars, Insert(c) PROVE JoinedIsSplit'
    BY <2>2, ShowsIs DEF Insert, JoinedIsSplit
  <2>3. CASE Help
    <3>1. shown'.key = "help"
      BY <2>3, ByIs DEF Help
    <3> QED
      BY <3>1 DEF JoinedIsSplit
  <2>4. CASE Tab
    <3>1. shown'.key = "tab"
      BY <2>4, ByIs DEF Tab
    <3> QED
      BY <3>1 DEF JoinedIsSplit
  <2>5. CASE Enter
    <3>1. shown'.key = "enter"
      BY <2>5, ByIs DEF Enter
    <3> QED
      BY <3>1 DEF JoinedIsSplit
  <2>6. ASSUME NEW words \in WordLists, ExecArgv(words) PROVE JoinedIsSplit'
    BY <2>6, ExecArgvSplits
  <2>7. CASE UNCHANGED wordVars
    BY <2>7 DEF wordVars, JoinedIsSplit
  <2> QED
    BY <2>1, <2>2, <2>3, <2>4, <2>5, <2>6, <2>7 DEF Next
<1> QED
  BY <1>1, <1>2, PTL DEF Spec

-----------------------------------------------------------------------------
(* The commands of a tree                                                  *)

PermittedIn(m) == {h \in 1 .. Len(m.nodes) : m.nodes[h].allowed}

UsableUpTo(m) ==
  LET within[n \in 0 .. Len(m.nodes)] ==
        IF n = 0 THEN {h \in PermittedIn(m) : m.nodes[h].handler # "none"}
        ELSE LET below == within[n - 1]
             IN  below \cup {h \in PermittedIn(m) : \E c \in below : m.nodes[c].parent = h}
  IN  within

LEMMA UsableIs ==
  ASSUME NEW m \in Menus
  PROVE  Usable[m] \subseteq PermittedIn(m)
<1> DEFINE N == Len(m.nodes)
           D == SUBSET PermittedIn(m)
           x == {h \in PermittedIn(m) : m.nodes[h].handler # "none"}
           More(below) ==
             below \cup {h \in PermittedIn(m) : \E c \in below : m.nodes[c].parent = h}
           Eq(f) == f = [n \in 0 .. N |-> IF n = 0 THEN x ELSE More(f[n - 1])]
           step == [n \in 1 .. N |-> [s \in D |-> More(s)]]
<1>1. N \in Nat
  BY MenusAssumption, LenProperties
<1>2. UsableUpTo(m) = CHOOSE f : Eq(f)
  BY DEF UsableUpTo
<1>3. Usable[m] = UsableUpTo(m)[N]
  BY DEF Usable, UsableUpTo, PermittedIn
<1>4. x \in D /\ \A s \in D : More(s) \in D
  OBVIOUS
<1> HIDE DEF x, D, More, N
<1>5. Steps(step, N, D) /\ \A n \in 1 .. N, s \in D : step[n][s] = More(s)
  BY <1>4 DEF Steps
<1> HIDE DEF step
<1>6. PICK f : Built(f, N, D, x, step)
  BY <1>1, <1>4, <1>5, Recursion
<1>7. f \in [0 .. N -> D] /\ f[0] = x /\ \A n \in 1 .. N : f[n] = More(f[n - 1])
  <2>1. f \in [0 .. N -> D] /\ f[0] = x /\ \A n \in 1 .. N : f[n] = step[n][f[n - 1]]
    BY <1>6 DEF Built
  <2>2. \A n \in 1 .. N : f[n - 1] \in D
    BY <1>1, <2>1
  <2> QED
    BY <1>5, <2>1, <2>2
<1>8. Eq(f)
  <2>1. f = [n \in 0 .. N |-> f[n]]
    BY <1>7
  <2>2. \A n \in 0 .. N : f[n] = IF n = 0 THEN x ELSE More(f[n - 1])
    BY <1>1, <1>7
  <2> QED
    BY <2>1, <2>2
<1>9. PICK g : Eq(g) /\ g = UsableUpTo(m)
  BY <1>2, <1>8
<1>10. g[0] = x /\ \A n \in 1 .. N : g[n] = More(g[n - 1])
  <2>1. \A n \in 0 .. N : g[n] = IF n = 0 THEN x ELSE More(g[n - 1])
    BY <1>9
  <2> QED
    BY <1>1, <2>1
<1> DEFINE T == {n \in 0 .. N : g[n] \in D}
<1>11. 0 \in T
  BY <1>1, <1>4, <1>10
<1>12. ASSUME NEW n \in 1 .. N, n - 1 \in T PROVE n \in T
  BY <1>1, <1>4, <1>10, <1>12
<1> HIDE DEF T
<1>13. \A n \in 0 .. N : n \in T
  BY <1>1, <1>11, <1>12, Induction
<1>14. N \in 0 .. N
  BY <1>1
<1>15. Usable[m] \in D
  BY <1>3, <1>9, <1>13, <1>14 DEF T
<1> QED
  BY <1>15 DEF D

\* What the proofs need of a command below a node.
LEMMA SelectableIs ==
  ASSUME menu \in Menus, NEW level
  PROVE  /\ Len(menu.nodes) \in Nat /\ menu.context \in Nat
         /\ Selectable(level) \subseteq 1 .. Len(menu.nodes)
         /\ \A h \in Selectable(level) :
              /\ Node(h) \in NodeType /\ Node(h).parent = level
              /\ Len(Keywords(h)) \in Nat \ {0}
              /\ \A k \in 1 .. Len(Keywords(h)) : Keywords(h)[k] \in Seq(Letters) \ {<<>>}
         /\ \A g, h \in Selectable(level) :
              \A j \in 1 .. Len(Keywords(g)), k \in 1 .. Len(Keywords(h)) :
                SameWord(Keywords(g)[j], Keywords(h)[k]) => g = h
<1> DEFINE N == Len(menu.nodes)
<1>1. /\ menu.nodes \in Seq(NodeType) /\ menu.context \in 0 .. N
      /\ \A h \in 1 .. N :
           \A k \in 1 .. Len(KeywordsOf(menu.nodes[h])) : KeywordsOf(menu.nodes[h])[k] # <<>>
      /\ \A g, h \in 1 .. N :
           /\ menu.nodes[g].allowed /\ menu.nodes[h].allowed
           /\ menu.nodes[g].parent = menu.nodes[h].parent
           /\ SharesKeyword(menu.nodes[g], menu.nodes[h])
           => g = h
  BY MenusAssumption
<1>2. N \in Nat /\ \A h \in 1 .. N : menu.nodes[h] \in NodeType
  BY <1>1, LenProperties, ElementOfSeq
<1>3. menu.context \in Nat
  BY <1>1, <1>2
<1>4. \A h \in Selectable(level) : h \in 1 .. N /\ Node(h).allowed /\ Node(h).parent = level
  BY UsableIs DEF Selectable, PermittedIn, Node
<1> HIDE DEF N
<1>5. ASSUME NEW h \in Selectable(level)
      PROVE  /\ Node(h) \in NodeType /\ Len(Keywords(h)) \in Nat \ {0}
             /\ \A k \in 1 .. Len(Keywords(h)) : Keywords(h)[k] \in Seq(Letters) \ {<<>>}
  <2>1. Node(h) \in NodeType /\ h \in 1 .. N
    BY <1>2, <1>4 DEF Node
  <2>2. Node(h).name \in Seq(Letters) /\ Node(h).aliases \in Seq(Seq(Letters))
    BY <2>1 DEF NodeType
  <2> DEFINE a == <<Node(h).name>>
             b == Node(h).aliases
  <2>3. a \in Seq(Seq(Letters)) /\ Len(a) = 1 /\ b \in Seq(Seq(Letters)) /\ Keywords(h) = a \o b
    <3> DEFINE name == Node(h).name
    <3>1. Keywords(h) = a \o b
      BY DEF Keywords, KeywordsOf
    <3>2. b \in Seq(Seq(Letters)) /\ name \in Seq(Letters)
      BY <2>2
    <3> HIDE DEF b, name
    <3>3. <<name>> \in Seq(Seq(Letters)) /\ Len(<<name>>) = 1
      BY <3>2
    <3>4. a = <<name>>
      BY DEF name
    <3> HIDE DEF a
    <3> QED
      BY <3>1, <3>2, <3>3, <3>4
  <2> HIDE DEF a, b
  <2>4. Keywords(h) \in Seq(Seq(Letters)) /\ Len(Keywords(h)) = 1 + Len(b) /\ Len(b) \in Nat
    <3> DEFINE D == Seq(Letters)
    <3>1. a \in Seq(D) /\ b \in Seq(D)
      BY <2>3
    <3> HIDE DEF D
    <3>2. a \o b \in Seq(D) /\ Len(a \o b) = Len(a) + Len(b) /\ Len(b) \in Nat
      BY <3>1, ConcatProperties, LenProperties
    <3> QED
      BY <2>3, <3>2 DEF D
  <2>5. \A k \in 1 .. Len(Keywords(h)) : Keywords(h)[k] \in Seq(Letters)
    BY <2>4, ElementOfSeq
  <2>6. \A k \in 1 .. Len(Keywords(h)) : Keywords(h)[k] # <<>>
    BY <1>1, <2>1 DEF Keywords, Node, N
  <2> QED
    BY <2>1, <2>4, <2>5, <2>6
<1>6. ASSUME NEW g \in Selectable(level), NEW h \in Selectable(level),
             NEW j \in 1 .. Len(Keywords(g)), NEW k \in 1 .. Len(Keywords(h)),
             SameWord(Keywords(g)[j], Keywords(h)[k])
      PROVE  g = h
  <2>1. SharesKeyword(menu.nodes[g], menu.nodes[h])
    BY <1>6 DEF SharesKeyword, Keywords, Node
  <2>2. g \in 1 .. N /\ h \in 1 .. N /\ menu.nodes[g].allowed /\ menu.nodes[h].allowed
        /\ menu.nodes[g].parent = menu.nodes[h].parent
    BY <1>4 DEF Node
  <2> QED
    BY <1>1, <2>1, <2>2 DEF N
<1> QED
  BY <1>2, <1>3, <1>4, <1>5, <1>6 DEF N

LEMMA PrefixTextIs ==
  ASSUME menu \in Menus, NEW level, NEW h \in Selectable(level), NEW word
  PROVE  /\ PrefixText(h, word) # <<>> =>
              \E k \in 1 .. Len(Keywords(h)) : PrefixText(h, word) = Keywords(h)[k]
         /\ (\E k \in 1 .. Len(Keywords(h)) : StartsWith(Keywords(h)[k], word)) =>
              PrefixText(h, word) # <<>>
<1> DEFINE K == Len(Keywords(h))
           same == {k \in 2 .. K : SameWord(Keywords(h)[k], word)}
           begun == {k \in 1 .. K : StartsWith(Keywords(h)[k], word)}
           k0 == First(same, First(begun, 0))
<1>1. K \in Nat /\ \A k \in 1 .. K : Keywords(h)[k] # <<>>
  BY SelectableIs
<1>2. PrefixText(h, word) = IF k0 = 0 THEN <<>> ELSE Keywords(h)[k0]
  BY DEF PrefixText
<1>3. same \subseteq 1 .. K /\ begun \subseteq 1 .. K /\ same \subseteq Nat /\ begun \subseteq Nat
  BY <1>1
<1>4. begun # {} <=> \E k \in 1 .. K : StartsWith(Keywords(h)[k], word)
  OBVIOUS
<1> HIDE DEF same, begun
<1>5. /\ same # {} => k0 \in same
      /\ same = {} /\ begun # {} => k0 \in begun
      /\ same = {} /\ begun = {} => k0 = 0
  BY <1>3, FirstIs
<1>6. \/ k0 \in 1 .. K
      \/ k0 = 0 /\ begun = {}
  BY <1>3, <1>5
<1> HIDE DEF k0, K
<1>7. CASE k0 \in 1 .. K
  <2>1. k0 # 0
    BY <1>7, <1>1
  <2> QED
    BY <1>1, <1>2, <1>7, <2>1 DEF K
<1>8. CASE k0 = 0 /\ begun = {}
  BY <1>2, <1>4, <1>8 DEF K
<1> QED
  BY <1>6, <1>7, <1>8

LEMMA SameIs == ASSUME NEW word PROVE SameWord(word, word)
  BY DEF SameWord

\* The keyword that is offered for a word names the command it is offered for.
LEMMA KeywordNames ==
  ASSUME menu \in Menus, NEW level, NEW h \in Selectable(level), NEW word,
         PrefixText(h, word) # <<>>
  PROVE  Resolve(level, PrefixText(h, word)) = [rc |-> "ok", node |-> h]
<1> DEFINE text == PrefixText(h, word)
           exact == {g \in Selectable(level) : Exact(g, text)}
<1>1. PICK k \in 1 .. Len(Keywords(h)) : text = Keywords(h)[k]
  BY PrefixTextIs
<1>2. text # <<>>
  OBVIOUS
<1> HIDE DEF text
<1>3. h \in exact
  BY <1>1, SameIs DEF Exact
<1>4. ASSUME NEW g \in exact PROVE g = h
  <2>1. PICK j \in 1 .. Len(Keywords(g)) : SameWord(Keywords(g)[j], text)
    BY DEF Exact
  <2> QED
    BY <1>1, <2>1, SelectableIs
<1>5. exact = {h}
  BY <1>3, <1>4
<1>6. Resolve(level, text) = [rc |-> "ok", node |-> First(exact, 0)]
  <2>1. exact # {}
    BY <1>3
  <2> QED
    BY <1>2, <2>1 DEF Resolve
<1> HIDE DEF exact
<1>7. h \in Nat
  BY SelectableIs
<1>8. First(exact, 0) = h
  <2>1. exact \subseteq Nat /\ exact # {}
    BY <1>5, <1>7
  <2>2. First(exact, 0) \in exact
    BY <2>1, FirstIs
  <2> QED
    BY <1>5, <2>2
<1> QED
  BY <1>6, <1>8 DEF text

-----------------------------------------------------------------------------
(* What words name                                                         *)

Verdicts == [rc : {"ok", "unknown", "ambiguous"}, node : Int]

LEMMA ResolveIs ==
  ASSUME menu \in Menus, NEW level, NEW word
  PROVE  LET r == Resolve(level, word)
         IN  r \in Verdicts /\ (r.rc = "ok" => r.node \in Selectable(level))
<1> DEFINE r == Resolve(level, word)
           here == IF word = <<>> THEN {} ELSE Selectable(level)
           exact == {h \in here : Exact(h, word)}
           begun == {h \in here : ~Node(h).hidden /\ PrefixText(h, word) # <<>>}
           one == Cardinality(begun) = 1
<1>1. r = CASE exact # {} -> [rc |-> "ok", node |-> First(exact, 0)]
            [] exact = {} /\ begun = {} -> [rc |-> "unknown", node |-> NO_CMD]
            [] exact = {} /\ one -> [rc |-> "ok", node |-> First(begun, 0)]
            [] OTHER -> [rc |-> "ambiguous", node |-> NO_CMD]
  BY DEF Resolve
<1>2. Selectable(level) \subseteq Nat /\ Selectable(level) \subseteq Int
  BY SelectableIs
<1>3. here \subseteq Selectable(level)
  OBVIOUS
<1>4. exact \subseteq Selectable(level) /\ begun \subseteq Selectable(level)
  BY <1>3
<1> HIDE DEF r, exact, begun
<1>0. begun = {} => ~one
  <2>1. Cardinality({}) = 0
    BY FS_EmptySet
  <2>2. ASSUME begun = {} PROVE ~one
    BY <2>1, <2>2
  <2> QED
    BY <2>2
<1> HIDE DEF one
<1>5. exact # {} => First(exact, 0) \in exact
  BY <1>2, <1>4, FirstIs
<1>6. begun # {} => First(begun, 0) \in begun
  BY <1>2, <1>4, FirstIs
<1>7. \/ r.rc = "ok" /\ r.node \in Selectable(level) /\ r = [rc |-> "ok", node |-> r.node]
      \/ r = [rc |-> "unknown", node |-> NO_CMD]
      \/ r = [rc |-> "ambiguous", node |-> NO_CMD]
  <2>1. CASE exact # {}
    <3>1. r = [rc |-> "ok", node |-> First(exact, 0)]
      BY <1>1, <2>1
    <3> QED
      BY <1>4, <1>5, <2>1, <3>1
  <2>2. CASE exact = {} /\ begun = {}
    <3>1. r = [rc |-> "unknown", node |-> NO_CMD]
      BY <1>1, <1>0, <2>2
    <3> QED
      BY <3>1
  <2>3. CASE exact = {} /\ begun # {} /\ one
    <3>1. r = [rc |-> "ok", node |-> First(begun, 0)]
      BY <1>1, <2>3
    <3> QED
      BY <1>4, <1>6, <2>3, <3>1
  <2>4. CASE exact = {} /\ begun # {} /\ ~one
    BY <1>1, <2>4
  <2> QED
    BY <2>1, <2>2, <2>3, <2>4
<1>8. NO_CMD \in Int
  BY DEF NO_CMD
<1>9. r \in Verdicts /\ (r.rc = "ok" => r.node \in Selectable(level))
  BY <1>2, <1>7, <1>8 DEF Verdicts
<1> QED
  BY <1>9 DEF r

LEMMA NamedIs ==
  ASSUME menu \in Menus, NEW argv, Len(argv) \in Nat
  PROVE  LET f == Named(argv)
         IN  /\ f \in [0 .. Len(argv) -> Verdicts]
             /\ f[0] = [rc |-> "ok", node |-> FirstWordParent(argv[1])]
             /\ \A n \in 1 .. Len(argv) : f[n] = Resolve(f[n - 1].node, argv[n])
<1> DEFINE N == Len(argv)
           x == [rc |-> "ok", node |-> FirstWordParent(argv[1])]
           More(n, r) == Resolve(r.node, argv[n])
           Eq(f) == f = [n \in 0 .. N |-> IF n = 0 THEN x ELSE More(n, f[n - 1])]
           D == Verdicts
           step == [n \in 1 .. N |-> [r \in D |-> More(n, r)]]
<1>1. N \in Nat
  OBVIOUS
<1>2. Named(argv) = CHOOSE f : Eq(f)
  BY DEF Named
<1>3. x \in D
  <2>1. FirstWordParent(argv[1]) \in Int
    <3>1. menu.context \in Nat
      BY SelectableIs
    <3> QED
      BY <3>1 DEF FirstWordParent, ROOT
  <2> QED
    BY <2>1 DEF Verdicts
<1>4. \A n, r : More(n, r) \in D
  BY ResolveIs
<1> HIDE DEF x, More, D, N
<1>5. Steps(step, N, D) /\ \A n \in 1 .. N, r \in D : step[n][r] = More(n, r)
  BY <1>4 DEF Steps
<1> HIDE DEF step
<1>6. PICK f : Built(f, N, D, x, step)
  BY <1>1, <1>3, <1>5, Recursion
<1>7. f \in [0 .. N -> D] /\ f[0] = x /\ \A n \in 1 .. N : f[n] = More(n, f[n - 1])
  <2>1. f \in [0 .. N -> D] /\ f[0] = x /\ \A n \in 1 .. N : f[n] = step[n][f[n - 1]]
    BY <1>6 DEF Built
  <2>2. \A n \in 1 .. N : f[n - 1] \in D
    BY <1>1, <2>1
  <2> QED
    BY <1>5, <2>1, <2>2
<1>8. Eq(f)
  <2>1. f = [n \in 0 .. N |-> f[n]]
    BY <1>7
  <2>2. \A n \in 0 .. N : f[n] = IF n = 0 THEN x ELSE More(n, f[n - 1])
    BY <1>1, <1>7
  <2> QED
    BY <2>1, <2>2
<1>9. PICK g : Eq(g) /\ g = Named(argv)
  BY <1>2, <1>8
<1>10. g[0] = x /\ \A n \in 1 .. N : g[n] = More(n, g[n - 1])
  <2>1. \A n \in 0 .. N : g[n] = IF n = 0 THEN x ELSE More(n, g[n - 1])
    BY <1>9
  <2> QED
    BY <1>1, <2>1
<1>11. \A n \in 0 .. N : g[n] \in D
  <2>1. \A n \in 1 .. N : g[n] \in D
    BY <1>4, <1>10
  <2>2. \A n \in 0 .. N : n = 0 \/ n \in 1 .. N
    BY <1>1
  <2>3. g[0] \in D
    BY <1>3, <1>10
  <2> QED
    BY <2>1, <2>2, <2>3, Zenon
<1>12. g \in [0 .. N -> D]
  <2>1. g = [n \in 0 .. N |-> g[n]]
    BY <1>9
  <2> QED
    BY <1>11, <2>1
<1> QED
  BY <1>9, <1>10, <1>12 DEF x, More, D, N

\* The last of some words, by what those before it name.
LEMMA LastNamed ==
  ASSUME menu \in Menus, NEW S, NEW path \in Seq(S), NEW text \in S
  PROVE  LET words == Append(path, text)
         IN  Named(words)[Len(words)] =
               Resolve(IF path = <<>> THEN FirstWordParent(text) ELSE Named(path)[Len(path)].node,
                       text)
<1> DEFINE words == Append(path, text)
           N == Len(path)
           f == Named(path)
           g == Named(words)
<1>1. N \in Nat /\ (path = <<>> => N = 0) /\ (path # <<>> => N # 0)
  BY LenProperties, EmptySeq
<1>2. Len(words) = N + 1 /\ words[N + 1] = text /\ \A n \in 1 .. N : words[n] = path[n]
  BY AppendProperties
<1> HIDE DEF words, N
<1>3. /\ f[0] = [rc |-> "ok", node |-> FirstWordParent(path[1])]
      /\ \A n \in 1 .. N : f[n] = Resolve(f[n - 1].node, path[n])
  BY <1>1, NamedIs DEF N
<1>4. Len(words) \in Nat
  BY <1>1, <1>2
<1>5. /\ g[0] = [rc |-> "ok", node |-> FirstWordParent(words[1])]
      /\ \A n \in 1 .. N + 1 : g[n] = Resolve(g[n - 1].node, words[n])
  BY <1>2, <1>4, NamedIs
<1> HIDE DEF f, g
<1>6. g[N + 1] = Resolve(g[N].node, text)
  <2>1. PICK m \in 1 .. N + 1 : m = N + 1 /\ m - 1 = N
    BY <1>1
  <2>2. g[m] = Resolve(g[m - 1].node, words[m])
    BY <1>5
  <2> QED
    BY <1>2, <2>1, <2>2
<1>7. CASE path = <<>>
  <2>1. N = 0
    BY <1>1, <1>7
  <2>2. g[N].node = FirstWordParent(text)
    BY <1>2, <1>5, <2>1
  <2> QED
    BY <1>2, <1>6, <1>7, <2>2 DEF g, words
<1>8. CASE path # <<>>
  <2> DEFINE T == {n \in 0 .. N : g[n] = f[n]}
  <2>1. 0 \in T
    <3>1. 1 \in 1 .. N
      BY <1>1, <1>8
    <3>2. words[1] = path[1]
      BY <1>2, <3>1
    <3> QED
      BY <1>1, <1>3, <1>5, <3>2
  <2>2. ASSUME NEW n \in 1 .. N, n - 1 \in T PROVE n \in T
    <3>1. n \in 1 .. N + 1 /\ n \in 0 .. N
      BY <1>1
    <3>2. g[n - 1] = f[n - 1] /\ words[n] = path[n]
      BY <1>2, <2>2
    <3>3. g[n] = f[n]
      BY <1>3, <1>5, <3>1, <3>2
    <3> QED
      BY <3>1, <3>3
  <2> HIDE DEF T
  <2>3. \A n \in 0 .. N : n \in T
    BY <1>1, <2>1, <2>2, Induction
  <2>4. N \in 0 .. N
    BY <1>1
  <2>5. g[N] = f[N]
    BY <2>3, <2>4 DEF T
  <2> QED
    BY <1>2, <1>6, <1>8, <2>5 DEF g, words, f, N
<1> QED
  BY <1>7, <1>8

-----------------------------------------------------------------------------
(* What is offered                                                         *)

OffersUpTo(S, word) ==
  LET upto[n \in 0 .. Len(menu.nodes)] ==
        IF n = 0 THEN <<>>
        ELSE IF n \in S THEN Append(upto[n - 1], [node |-> n, text |-> PrefixText(n, word)])
        ELSE upto[n - 1]
  IN  upto

OffersOf(S, word) == {[node |-> h, text |-> PrefixText(h, word)] : h \in S}

LEMMA OffersAre ==
  ASSUME menu \in Menus, NEW S, S \subseteq 1 .. Len(menu.nodes), NEW word
  PROVE  /\ Offers(S, word) \in Seq(OffersOf(S, word))
         /\ Offers(S, word) = <<>> => S = {}
<1> DEFINE N == Len(menu.nodes)
           R == OffersOf(S, word)
           D == Seq(R)
           e == <<>>
           More(n, s) == IF n \in S THEN Append(s, [node |-> n, text |-> PrefixText(n, word)]) ELSE s
           Eq(f) == f = [n \in 0 .. N |-> IF n = 0 THEN e ELSE More(n, f[n - 1])]
           step == [n \in 1 .. N |-> [s \in D |-> More(n, s)]]
<1>1. N \in Nat
  BY SelectableIs
<1>2. e \in D
  BY EmptySeq
<1>3. OffersUpTo(S, word) = CHOOSE f : Eq(f)
  BY DEF OffersUpTo
<1>4. Offers(S, word) = OffersUpTo(S, word)[N]
  BY DEF Offers, OffersUpTo
<1>5. ASSUME NEW n, NEW s \in D
      PROVE  /\ More(n, s) \in D /\ (n \in S => More(n, s) # <<>>)
             /\ (s # <<>> => More(n, s) # <<>>)
  <2>1. CASE n \in S
    <3> DEFINE x == [node |-> n, text |-> PrefixText(n, word)]
    <3>1. x \in R
      BY <2>1 DEF OffersOf
    <3>2. More(n, s) = Append(s, x)
      BY <2>1
    <3> HIDE DEF x, R, More
    <3> QED
      BY <3>1, <3>2, AppendProperties
  <2>2. CASE n \notin S
    BY <2>2
  <2> QED
    BY <2>1, <2>2
<1> HIDE DEF More, D, N, e
<1>6. Steps(step, N, D) /\ \A n \in 1 .. N, s \in D : step[n][s] = More(n, s)
  BY <1>5 DEF Steps
<1> HIDE DEF step
<1>7. PICK f : Built(f, N, D, e, step)
  BY <1>1, <1>2, <1>6, Recursion
<1>8. f \in [0 .. N -> D] /\ f[0] = e /\ \A n \in 1 .. N : f[n] = More(n, f[n - 1])
  <2>1. f \in [0 .. N -> D] /\ f[0] = e /\ \A n \in 1 .. N : f[n] = step[n][f[n - 1]]
    BY <1>7 DEF Built
  <2>2. \A n \in 1 .. N : f[n - 1] \in D
    BY <1>1, <2>1
  <2> QED
    BY <1>6, <2>1, <2>2
<1>9. Eq(f)
  <2>1. f = [n \in 0 .. N |-> f[n]]
    BY <1>8
  <2>2. \A n \in 0 .. N : f[n] = IF n = 0 THEN e ELSE More(n, f[n - 1])
    BY <1>1, <1>8
  <2> QED
    BY <2>1, <2>2
<1>10. PICK g : Eq(g) /\ g = OffersUpTo(S, word)
  BY <1>3, <1>9
<1>11. g[0] = e /\ \A n \in 1 .. N : g[n] = More(n, g[n - 1])
  <2>1. \A n \in 0 .. N : g[n] = IF n = 0 THEN e ELSE More(n, g[n - 1])
    BY <1>10
  <2> QED
    BY <1>1, <2>1
<1> DEFINE T == {n \in 0 .. N : g[n] \in D /\ (g[n] = <<>> => \A h \in 1 .. n : h \notin S)}
<1>12. 0 \in T
  BY <1>1, <1>2, <1>11
<1>13. ASSUME NEW n \in 1 .. N, n - 1 \in T PROVE n \in T
  <2>1. n \in 0 .. N /\ g[n] = More(n, g[n - 1]) /\ g[n - 1] \in D
    BY <1>1, <1>11, <1>13
  <2>2. g[n - 1] = <<>> => \A h \in 1 .. n - 1 : h \notin S
    BY <1>13
  <2>3. g[n] \in D /\ (g[n] = <<>> => n \notin S /\ g[n - 1] = <<>>)
    BY <1>5, <2>1
  <2>4. ASSUME g[n] = <<>>, NEW h \in 1 .. n PROVE h \notin S
    <3>1. h = n \/ h \in 1 .. n - 1
      OBVIOUS
    <3> QED
      BY <2>2, <2>3, <2>4, <3>1
  <2> QED
    BY <2>1, <2>3, <2>4
<1> HIDE DEF T
<1>14. N \in T
  <2>1. \A n \in 0 .. N : n \in T
    BY <1>1, <1>12, <1>13, Induction
  <2>2. N \in 0 .. N
    BY <1>1
  <2> QED
    BY <2>1, <2>2
<1>15. g[N] \in D /\ (g[N] = <<>> => \A h \in 1 .. N : h \notin S)
  BY <1>14 DEF T
<1> QED
  BY <1>4, <1>10, <1>15 DEF D, N

LEMMA MatchesAre ==
  ASSUME menu \in Menus, NEW level, NEW word, NEW withRoot
  PROVE  LET found == Matches(word, level, withRoot)
         IN  /\ Len(found) \in Nat
             /\ \A k \in 1 .. Len(found) :
                  \E h \in Found(level, word) \cup Found(ROOT, word) :
                    /\ found[k].node = h /\ found[k].text = PrefixText(h, word)
                    /\ \/ h \in Found(level, word)
                       \/ /\ withRoot /\ level # ROOT /\ h \in Found(ROOT, word)
                          /\ ~HasAnyMatch(level, PrefixText(h, word))
             /\ found = <<>> => Found(level, word) = {}
<1> DEFINE A == Found(level, word)
           B == {h \in Found(ROOT, word) : ~HasAnyMatch(level, PrefixText(h, word))}
           R == OffersOf(A \cup Found(ROOT, word), word)
           a == Offers(A, word)
           b == IF withRoot /\ level # ROOT THEN Offers(B, word) ELSE <<>>
           found == Matches(word, level, withRoot)
<1>1. A \subseteq 1 .. Len(menu.nodes) /\ B \subseteq 1 .. Len(menu.nodes)
  BY SelectableIs DEF Found
<1>2. a \in Seq(OffersOf(A, word)) /\ (a = <<>> => A = {})
  BY <1>1, OffersAre
<1>3. Offers(B, word) \in Seq(OffersOf(B, word))
  BY <1>1, OffersAre
<1>4. found = a \o b
  BY DEF Matches
<1> DEFINE Good(x) ==
             \E h \in A \cup Found(ROOT, word) :
               /\ x.node = h /\ x.text = PrefixText(h, word)
               /\ \/ h \in A
                  \/ /\ withRoot /\ level # ROOT /\ h \in Found(ROOT, word)
                     /\ ~HasAnyMatch(level, PrefixText(h, word))
           G == {x \in R : Good(x)}
<1>5. OffersOf(A, word) \subseteq G
  BY DEF OffersOf
<1>6. withRoot /\ level # ROOT => OffersOf(B, word) \subseteq G
  BY DEF OffersOf
<1>7. a \in Seq(G)
  <2> DEFINE O == OffersOf(A, word)
  <2>1. a \in Seq(O) /\ O \subseteq G
    BY <1>2, <1>5
  <2> HIDE DEF a, O, G
  <2> QED
    BY <2>1, SeqMonotonic
<1>8. b \in Seq(G)
  <2>1. CASE withRoot /\ level # ROOT
    <3>1. b = Offers(B, word) /\ OffersOf(B, word) \subseteq G
      BY <1>6, <2>1
    <3> HIDE DEF b, B, G
    <3> QED
      BY <1>3, <3>1, SeqMonotonic
  <2>2. CASE ~(withRoot /\ level # ROOT)
    <3>1. b = <<>>
      BY <2>2
    <3> QED
      BY <3>1, EmptySeq
  <2> QED
    BY <2>1, <2>2
<1> HIDE DEF a, b, G
<1>9. found \in Seq(G) /\ (found = <<>> => a = <<>>)
  BY <1>4, <1>7, <1>8, ConcatProperties, ConcatEqualIffEmpty
<1>10. Len(found) \in Nat /\ \A k \in 1 .. Len(found) : found[k] \in G
  <2> HIDE DEF found
  <2> QED
    BY <1>9, LenProperties, ElementOfSeq
<1> QED
  BY <1>2, <1>9, <1>10 DEF G, a

\* Whatever r offers is what its keyword selects behind r's path.
Sound(r) ==
  \A k \in 1 .. Len(r.offers) :
    /\ r.path \in Seq(Seq(Letters))
    /\ \A words \in {Append(r.path, r.offers[k].text)} :
         Named(words)[Len(words)] = [rc |-> "ok", node |-> r.offers[k].node]

\* The node below which the word behind path is looked for.
LevelBehind(path) == IF path = <<>> THEN menu.context ELSE Named(path)[Len(path)].node

\* h is offered for a word behind the path.
Offered(path, word, h, offer) ==
  /\ offer.node = h /\ offer.text = PrefixText(h, word)
  /\ \/ h \in Found(LevelBehind(path), word)
     \/ /\ path = <<>> /\ menu.context # ROOT /\ h \in Found(ROOT, word)
        /\ ~HasAnyMatch(menu.context, PrefixText(h, word))

LEMMA OfferedIsNamed ==
  ASSUME menu \in Menus, NEW path \in Seq(Seq(Letters)), NEW word,
         NEW offer, NEW h, Offered(path, word, h, offer)
  PROVE  LET words == Append(path, offer.text)
         IN  Named(words)[Len(words)] = [rc |-> "ok", node |-> offer.node]
<1> DEFINE text == PrefixText(h, word)
           words == Append(path, text)
           level == LevelBehind(path)
<1>0. /\ offer.node = h /\ offer.text = text
      /\ \/ h \in Found(level, word)
         \/ /\ path = <<>> /\ menu.context # ROOT /\ h \in Found(ROOT, word)
            /\ ~HasAnyMatch(menu.context, text)
  BY DEF Offered
<1>1. /\ \A l : h \in Found(l, word) => h \in Selectable(l) /\ text # <<>>
  BY DEF Found
<1>2. text \in Seq(Letters)
  <2>1. PICK l : h \in Selectable(l) /\ text # <<>>
    <3>1. h \in Found(level, word) \/ h \in Found(ROOT, word)
      BY <1>0
    <3> QED
      BY <1>1, <3>1
  <2>2. PICK k \in 1 .. Len(Keywords(h)) : text = Keywords(h)[k]
    BY <2>1, PrefixTextIs
  <2> QED
    BY <2>1, <2>2, SelectableIs
<1>3. \A l : h \in Found(l, word) => Resolve(l, text) = [rc |-> "ok", node |-> h]
  BY <1>1, KeywordNames
<1> HIDE DEF text
<1>4. Named(words)[Len(words)] =
        Resolve(IF path = <<>> THEN FirstWordParent(text) ELSE Named(path)[Len(path)].node, text)
  BY <1>2, LastNamed
<1>5. CASE path # <<>>
  <2>1. level = Named(path)[Len(path)].node /\ h \in Found(level, word)
    BY <1>0, <1>5 DEF LevelBehind
  <2> QED
    BY <1>0, <1>3, <1>4, <1>5, <2>1
<1>6. CASE path = <<>> /\ h \in Found(menu.context, word)
  <2>1. Resolve(menu.context, text) = [rc |-> "ok", node |-> h]
    BY <1>3, <1>6
  <2>2. HasAnyMatch(menu.context, text)
    BY <2>1 DEF HasAnyMatch
  <2>3. FirstWordParent(text) = menu.context
    BY <2>2 DEF FirstWordParent
  <2> QED
    BY <1>0, <1>4, <1>6, <2>1, <2>3
<1>7. CASE /\ path = <<>> /\ menu.context # ROOT /\ h \in Found(ROOT, word)
           /\ ~HasAnyMatch(menu.context, text)
  <2>1. Resolve(ROOT, text) = [rc |-> "ok", node |-> h]
    BY <1>3, <1>7
  <2>2. HasAnyMatch(ROOT, text)
    BY <2>1 DEF HasAnyMatch
  <2>3. FirstWordParent(text) = ROOT
    BY <1>7, <2>2 DEF FirstWordParent
  <2> QED
    BY <1>0, <1>4, <1>7, <2>1, <2>3
<1> QED
  BY <1>0, <1>5, <1>6, <1>7 DEF LevelBehind

LEMMA MatchesSound ==
  ASSUME menu \in Menus, NEW path \in Seq(Seq(Letters)), NEW word, NEW r,
         r.path = path, r.offers = Matches(word, LevelBehind(path), path = <<>>)
  PROVE  Sound(r)
<1> DEFINE found == Matches(word, LevelBehind(path), path = <<>>)
           level == LevelBehind(path)
<1>1. \A k \in 1 .. Len(found) :
        \E h \in Found(level, word) \cup Found(ROOT, word) :
          /\ found[k].node = h /\ found[k].text = PrefixText(h, word)
          /\ \/ h \in Found(level, word)
             \/ /\ path = <<>> /\ level # ROOT /\ h \in Found(ROOT, word)
                /\ ~HasAnyMatch(level, PrefixText(h, word))
  <2> DEFINE top == path = <<>>
             all == Matches(word, level, top)
  <2>1. all = found
    OBVIOUS
  <2> HIDE DEF top
  <2>2. \A k \in 1 .. Len(all) :
          \E h \in Found(level, word) \cup Found(ROOT, word) :
            /\ all[k].node = h /\ all[k].text = PrefixText(h, word)
            /\ \/ h \in Found(level, word)
               \/ /\ top /\ level # ROOT /\ h \in Found(ROOT, word)
                  /\ ~HasAnyMatch(level, PrefixText(h, word))
    BY MatchesAre
  <2> HIDE DEF all, found, level
  <2> QED
    BY <2>1, <2>2 DEF top
<1>2. path = <<>> => level = menu.context
  BY DEF LevelBehind
<1> HIDE DEF found
<1>3. ASSUME NEW k \in 1 .. Len(found)
      PROVE  LET words == Append(path, found[k].text)
             IN  Named(words)[Len(words)] = [rc |-> "ok", node |-> found[k].node]
  <2> DEFINE offer == found[k]
  <2>1. PICK h : Offered(path, word, h, offer)
    BY <1>1, <1>2 DEF Offered
  <2> HIDE DEF offer
  <2>3. LET words == Append(path, offer.text)
        IN  Named(words)[Len(words)] = [rc |-> "ok", node |-> offer.node]
    BY <2>1, OfferedIsNamed
  <2> QED
    BY <2>3 DEF offer
<1>4. r.path = path /\ r.offers = found
  BY DEF found
<1> QED
  BY <1>3, <1>4 DEF Sound

-----------------------------------------------------------------------------
(* Spaces around a line                                                    *)

Spaces(t) == t \in Seq(Letters) /\ \A i \in 1 .. Len(t) : t[i] = SP

\* A text, cut behind its k-th character.
LEMMA CutIs ==
  ASSUME NEW s \in Seq(Letters), NEW k \in 0 .. Len(s)
  PROVE  /\ SubSeq(s, 1, k) \in Seq(Letters) /\ SubSeq(s, k + 1, Len(s)) \in Seq(Letters)
         /\ s = SubSeq(s, 1, k) \o SubSeq(s, k + 1, Len(s))
         /\ (\A i \in 1 .. k : s[i] = SP) => Spaces(SubSeq(s, 1, k))
         /\ (\A i \in k + 1 .. Len(s) : s[i] = SP) => Spaces(SubSeq(s, k + 1, Len(s)))
<1> DEFINE N == Len(s)
           a == SubSeq(s, 1, k)
           b == SubSeq(s, k + 1, N)
<1>1. N \in Nat /\ k \in Nat /\ k <= N /\ \A i \in 1 .. N : s[i] \in Letters
  BY LenProperties, ElementOfSeq
<1> HIDE DEF N
<1>2. /\ a \in Seq(Letters) /\ Len(a) = IF 1 <= k THEN k - 1 + 1 ELSE 0
      /\ \A i \in 1 .. k - 1 + 1 : a[i] = s[1 + i - 1]
  <2>1. 1 \in Int /\ k \in Int /\ \A i \in 1 .. k : s[i] \in Letters
    BY <1>1
  <2> QED
    BY <2>1, SubSeqProperties
<1>3. /\ b \in Seq(Letters) /\ Len(b) = IF k + 1 <= N THEN N - (k + 1) + 1 ELSE 0
      /\ \A i \in 1 .. N - (k + 1) + 1 : b[i] = s[k + 1 + i - 1]
  <2>1. k + 1 \in Int /\ N \in Int /\ \A i \in k + 1 .. N : s[i] \in Letters
    BY <1>1
  <2> QED
    BY <2>1, SubSeqProperties
<1>4. s = a \o b
  <2>1. 1 \in 1 .. N + 1 /\ k \in 1 - 1 .. N /\ N \in k .. N
    BY <1>1
  <2>2. a \o b = SubSeq(s, 1, N)
    BY <2>1, ConcatAdjacentSubSeq DEF N
  <2> QED
    BY <2>2, PrefixIs DEF N
<1>5. ASSUME \A i \in 1 .. k : s[i] = SP PROVE Spaces(a)
  <2>1. ASSUME NEW i \in 1 .. Len(a) PROVE a[i] = SP
    <3>1. i \in 1 .. k /\ i \in 1 .. k - 1 + 1 /\ 1 + i - 1 = i
      BY <1>1, <1>2
    <3> HIDE DEF a
    <3> QED
      BY <1>2, <1>5, <3>1
  <2> QED
    BY <1>2, <2>1 DEF Spaces
<1>6. ASSUME \A i \in k + 1 .. N : s[i] = SP PROVE Spaces(b)
  <2>1. ASSUME NEW i \in 1 .. Len(b) PROVE b[i] = SP
    <3> DEFINE j == k + 1 + i - 1
    <3>1. i \in 1 .. N - (k + 1) + 1 /\ j \in k + 1 .. N
      BY <1>1, <1>3
    <3>2. b[i] = s[j]
      BY <1>3, <3>1
    <3> HIDE DEF b, j
    <3> QED
      BY <1>6, <3>1, <3>2
  <2> QED
    BY <1>3, <2>1 DEF Spaces
<1> QED
  BY <1>2, <1>3, <1>4, <1>5, <1>6 DEF N

LEMMA SkipIs ==
  ASSUME NEW s \in Seq(Letters)
  PROVE  /\ SkipSpaces(s) \in Seq(Letters)
         /\ \E t : Spaces(t) /\ s = t \o SkipSpaces(s)
<1> DEFINE N == Len(s)
           S == {i \in 1 .. N : s[i] # SP}
           m == First(S, N + 1)
           k == m - 1
<1>1. N \in Nat
  BY LenProperties
<1>2. S \subseteq Nat
  BY <1>1
<1>3. \A i \in 1 .. N : i \notin S => s[i] = SP
  OBVIOUS
<1>4. S \subseteq 1 .. N
  OBVIOUS
<1>5. SkipSpaces(s) = SubSeq(s, m, N)
  BY DEF SkipSpaces
<1> HIDE DEF S
<1>6. m \in 1 .. N + 1 /\ \A j \in S : m <= j
  <2>1. CASE S = {}
    <3>1. m = N + 1
      BY <1>2, <2>1, FirstIs
    <3> HIDE DEF m
    <3> QED
      BY <1>1, <2>1, <3>1
  <2>2. CASE S # {}
    <3>1. m \in S /\ \A j \in S : m <= j
      BY <1>2, <2>2, FirstIs
    <3> HIDE DEF m
    <3> QED
      BY <1>1, <1>4, <3>1
  <2> QED
    BY <2>1, <2>2
<1> HIDE DEF m, N
<1>7. k \in 0 .. N /\ k + 1 = m
  BY <1>1, <1>6
<1>8. \A i \in 1 .. k : s[i] = SP
  <2> TAKE i \in 1 .. k
  <2>1. i \in 1 .. N /\ ~(m <= i)
    BY <1>1, <1>6
  <2> QED
    BY <1>3, <1>6, <2>1
<1> HIDE DEF k
<1>9. /\ SubSeq(s, k + 1, N) \in Seq(Letters)
      /\ s = SubSeq(s, 1, k) \o SubSeq(s, k + 1, N)
      /\ Spaces(SubSeq(s, 1, k))
  BY <1>7, <1>8, CutIs DEF N
<1> QED
  BY <1>5, <1>7, <1>9

LEMMA TrimIs ==
  ASSUME NEW s \in Seq(Letters)
  PROVE  /\ TrimEnd(s) \in Seq(Letters)
         /\ \E t : Spaces(t) /\ s = TrimEnd(s) \o t
<1> DEFINE N == Len(s)
           S == {k \in 0 .. N : \A i \in k + 1 .. N : s[i] = SP}
           P(n) == (n > 0 => s[n] # SP) /\ \A i \in n + 1 .. N : s[i] = SP
           m == CHOOSE n \in 0 .. N : P(n)
<1>1. N \in Nat
  BY LenProperties
<1>2. TrimEnd(s) = SubSeq(s, 1, m)
  BY DEF TrimEnd
<1> HIDE DEF N
<1>3. \E n \in 0 .. N : P(n)
  <2> DEFINE x == First(S, 0)
  <2>1. N \in S /\ S \subseteq Nat
    BY <1>1
  <2>2. x \in S /\ \A j \in S : x <= j
    <3> HIDE DEF S
    <3> QED
      BY <2>1, FirstIs
  <2> HIDE DEF x
  <2>3. x \in 0 .. N /\ \A i \in x + 1 .. N : s[i] = SP
    BY <2>2
  <2>4. ASSUME x > 0, s[x] = SP PROVE FALSE
    <3>1. x - 1 \in 0 .. N /\ x \in Nat /\ ~(x <= x - 1)
      BY <1>1, <2>3, <2>4
    <3>2. x - 1 \notin S
      BY <2>2, <3>1
    <3>3. PICK i \in (x - 1) + 1 .. N : s[i] # SP
      BY <3>1, <3>2
    <3>4. i = x \/ i \in x + 1 .. N
      BY <1>1, <3>1
    <3> QED
      BY <2>3, <2>4, <3>3, <3>4
  <2> QED
    BY <2>3, <2>4
<1>4. m \in 0 .. N /\ P(m)
  <2> HIDE DEF P
  <2> QED
    BY <1>3
<1> HIDE DEF m
<1>5. /\ SubSeq(s, 1, m) \in Seq(Letters)
      /\ s = SubSeq(s, 1, m) \o SubSeq(s, m + 1, N)
      /\ Spaces(SubSeq(s, m + 1, N))
  BY <1>4, CutIs DEF N
<1> QED
  BY <1>2, <1>5

LEMMA ReadsSplit ==
  ASSUME NEW a, NEW s \in Seq(Letters), NEW t \in Seq(Letters), NEW c, NEW P, Reads(a, s \o t, c, P)
  PROVE  \E b : Reads(a, s, b, P) /\ Reads(b, t, c, P)
<1> DEFINE M == Len(s)
           N == Len(t)
           u == s \o t
<1>1. M \in Nat /\ N \in Nat /\ a \in States
  BY LenProperties DEF Reads
<1>2. PICK f : Runs(f, u, a) /\ f[Len(u)] = c /\ \A i \in 1 .. Len(u) : u[i] \in P => Quoted(f[i - 1])
  BY DEF Reads
<1>3. /\ Len(u) = M + N
      /\ \A i \in 1 .. M + N : u[i] = IF i <= M THEN s[i] ELSE t[i - M]
  BY ConcatProperties
<1> HIDE DEF u, M, N
<1>4. /\ f \in [0 .. M + N -> States] /\ f[0] = a /\ f[M + N] = c
      /\ \A i \in 1 .. M + N : f[i] = Scan(f[i - 1], u[i]) /\ (u[i] \in P => Quoted(f[i - 1]))
  BY <1>2, <1>3 DEF Runs
<1> DEFINE g == [i \in 0 .. M |-> f[i]]
           h == [i \in 0 .. N |-> f[M + i]]
           b == f[M]
<1>5. g \in [0 .. M -> States] /\ h \in [0 .. N -> States] /\ b \in States
  BY <1>1, <1>4
<1>6. g[0] = a /\ g[M] = b
  BY <1>1, <1>4
<1>7. h[0] = b /\ h[N] = c
  <2>1. 0 \in 0 .. N /\ N \in 0 .. N /\ M + 0 = M
    BY <1>1
  <2> QED
    BY <1>4, <2>1
<1>8. ASSUME NEW i \in 1 .. M
      PROVE  g[i] = Scan(g[i - 1], s[i]) /\ (s[i] \in P => Quoted(g[i - 1]))
  <2>1. i \in 1 .. M + N /\ i \in 0 .. M /\ i - 1 \in 0 .. M /\ i <= M
    BY <1>1
  <2>2. u[i] = s[i] /\ g[i] = f[i] /\ g[i - 1] = f[i - 1]
    BY <1>3, <2>1
  <2> QED
    BY <1>4, <2>1, <2>2
<1>9. ASSUME NEW i \in 1 .. N
      PROVE  h[i] = Scan(h[i - 1], t[i]) /\ (t[i] \in P => Quoted(h[i - 1]))
  <2> DEFINE j == M + i
  <2>1. /\ j \in 1 .. M + N /\ i \in 0 .. N /\ i - 1 \in 0 .. N /\ ~(j <= M) /\ j - M = i
        /\ M + (i - 1) = j - 1
    BY <1>1
  <2>2. h[i] = f[j] /\ h[i - 1] = f[j - 1]
    BY <2>1
  <2> HIDE DEF j, h
  <2>3. u[j] = t[i]
    BY <1>3, <2>1
  <2> QED
    BY <1>4, <2>1, <2>2, <2>3
<1> HIDE DEF g, h, b
<1>10. Runs(g, s, a) /\ Runs(h, t, b)
  BY <1>5, <1>6, <1>7, <1>8, <1>9 DEF Runs, M, N
<1>11. Reads(a, s, b, P)
  BY <1>1, <1>6, <1>8, <1>10 DEF Reads, M
<1>12. Reads(b, t, c, P)
  BY <1>5, <1>7, <1>9, <1>10 DEF Reads, N
<1> QED
  BY <1>11, <1>12

LEMMA ScanSpace ==
  ASSUME NEW r \in States
  PROVE  /\ r.quote = "out" => Scan(r, SP) = EndWord(r)
         /\ r.quote # "out" => Scan(r, SP).quote # "out"
<1>1. r.quote \in {"out", "in", "esc"}
  BY DEF States
<1>2. CASE r.quote = "out"
  BY <1>2, CharsAre DEF Scan
<1>3. CASE r.quote = "esc"
  <2> DEFINE w == r.word \o (IF SP \in {QUOTE, BACKSLASH} THEN <<SP>> ELSE <<BACKSLASH, SP>>)
  <2>1. Scan(r, SP) = [r EXCEPT !.quote = "in", !.word = w]
    BY <1>3 DEF Scan, States
  <2> HIDE DEF w
  <2>2. Scan(r, SP).quote = "in"
    BY <2>1 DEF States
  <2> QED
    BY <1>3, <2>2
<1>4. CASE r.quote = "in"
  <2>1. Scan(r, SP) = [r EXCEPT !.within = TRUE, !.word = Append(r.word, SP)]
    BY <1>4, CharsAre DEF Scan, States
  <2>2. Scan(r, SP).quote = r.quote
    BY <2>1 DEF States
  <2> QED
    BY <1>4, <2>2
<1> QED
  BY <1>1, <1>2, <1>3, <1>4

LEMMA SpacesRead ==
  ASSUME NEW a, NEW t, NEW b, NEW P, Spaces(t), Reads(a, t, b, P)
  PROVE  /\ a.quote = "out" => b \in {a, EndWord(a)}
         /\ a.quote # "out" => b.quote # "out"
<1> DEFINE N == Len(t)
<1>1. PICK f : Runs(f, t, a) /\ f[N] = b
  BY DEF Reads
<1>2. a \in States /\ N \in Nat /\ \A i \in 1 .. N : t[i] = SP
  BY LenProperties DEF Reads, Spaces
<1>3. f \in [0 .. N -> States] /\ f[0] = a /\ \A n \in 1 .. N : f[n] = Scan(f[n - 1], SP)
  BY <1>1, <1>2 DEF Runs
<1> HIDE DEF N
<1> DEFINE T == {n \in 0 .. N : /\ a.quote = "out" => f[n] \in {a, EndWord(a)}
                                /\ a.quote # "out" => f[n].quote # "out"}
<1>4. 0 \in T
  BY <1>2, <1>3
<1>5. ASSUME NEW n \in 1 .. N, n - 1 \in T PROVE n \in T
  <2> DEFINE r == f[n - 1]
  <2>1. n \in 0 .. N /\ r \in States /\ f[n] = Scan(r, SP)
    BY <1>2, <1>3, <1>5
  <2>2. /\ a.quote = "out" => r \in {a, EndWord(a)}
        /\ a.quote # "out" => r.quote # "out"
    BY <1>5
  <2> HIDE DEF r
  <2>3. ASSUME a.quote = "out" PROVE f[n] \in {a, EndWord(a)}
    <3>1. r \in {a, EndWord(a)} /\ r.quote = "out"
      BY <1>2, <2>2, <2>3, EndWordIs
    <3>2. f[n] = EndWord(r)
      BY <2>1, <3>1, ScanSpace
    <3>3. EndWord(r) = EndWord(a)
      BY <1>2, <3>1, EndWordIs
    <3> QED
      BY <3>2, <3>3
  <2>4. ASSUME a.quote # "out" PROVE f[n].quote # "out"
    BY <2>1, <2>2, <2>4, ScanSpace
  <2> QED
    BY <2>1, <2>3, <2>4
<1> HIDE DEF T
<1>6. N \in T
  <2>1. \A n \in 0 .. N : n \in T
    BY <1>2, <1>4, <1>5, Induction
  <2>2. N \in 0 .. N
    BY <1>2
  <2> QED
    BY <2>1, <2>2
<1> QED
  BY <1>1, <1>6 DEF T

LEMMA FindPipeIs ==
  ASSUME NEW s \in Seq(Letters)
  PROVE  /\ FindPipe(s) \in 0 .. Len(s)
         /\ FindPipe(s) = 0 => Reads(Idle, s, Scanned(s)[Len(s)], {PIPE})
         /\ \A b : Reads(Idle, s, b, {PIPE}) => FindPipe(s) = 0 /\ b = Scanned(s)[Len(s)]
<1> DEFINE N == Len(s)
           S == {i \in 1 .. N : s[i] = PIPE /\ ~Quoted(Scanned(s)[i - 1])}
<1>1. N \in Nat
  BY LenProperties
<1>2. S \subseteq Nat /\ S \subseteq 1 .. N
  BY <1>1
<1>3. FindPipe(s) = First(S, 0)
  BY DEF FindPipe
<1>4. (S # {} => First(S, 0) \in S) /\ (S = {} => First(S, 0) = 0)
  <2> HIDE DEF S
  <2> QED
    BY <1>2, FirstIs
<1>5. FindPipe(s) \in 0 .. N /\ (FindPipe(s) = 0 <=> S = {})
  <2> HIDE DEF S, N
  <2>1. CASE S = {}
    <3>1. FindPipe(s) = 0
      BY <1>3, <1>4, <2>1
    <3> QED
      BY <1>1, <2>1, <3>1
  <2>2. CASE S # {}
    <3>1. FindPipe(s) \in 1 .. N
      BY <1>2, <1>3, <1>4, <2>2
    <3> QED
      BY <1>1, <2>2, <3>1
  <2> QED
    BY <2>1, <2>2
<1>6. ASSUME S = {} PROVE Reads(Idle, s, Scanned(s)[N], {PIPE})
  <2>1. Runs(Scanned(s), s, Idle)
    BY ScannedIs
  <2>2. \A i \in 1 .. N : s[i] \in {PIPE} => Quoted(Scanned(s)[i - 1])
    BY <1>6
  <2> QED
    BY <2>1, <2>2, IdleIs DEF Reads
<1>7. ASSUME NEW b, Reads(Idle, s, b, {PIPE}) PROVE S = {} /\ b = Scanned(s)[N]
  <2>1. /\ Scanned(s)[N] = b
        /\ \A i \in 1 .. N : s[i] \in {PIPE} => Quoted(Scanned(s)[i - 1])
    BY <1>7, ReadsScanned
  <2> QED
    BY <2>1
<1> QED
  BY <1>5, <1>6, <1>7

\* The words of a text that does not end within quotes.
LEMMA UnquotedWords ==
  ASSUME NEW s \in Seq(Letters), ~Quoted(Scanned(s)[Len(s)])
  PROVE  Words(s) = [words |-> EndWord(Scanned(s)[Len(s)]).words, open |-> FALSE]
<1> DEFINE r == Scanned(s)[Len(s)]
           u == [r EXCEPT !.word = @ \o (IF r.quote = "esc" THEN <<BACKSLASH>> ELSE <<>>)]
<1>1. r \in States
  BY ScannedReads, ReadsTyped
<1>2. Words(s) = [words |-> EndWord(u).words, open |-> Quoted(r)]
  BY DEF Words
<1>3. r.quote = "out" /\ ~Quoted(r)
  BY DEF Quoted
<1> HIDE DEF r
<1>4. r.word \o <<>> = r.word
  BY <1>1, ConcatEmptySeq DEF States
<1>5. [r EXCEPT !.word = r.word] = r
  BY <1>1 DEF States
<1>6. u = r
  BY <1>3, <1>4, <1>5
<1> HIDE DEF u
<1>7. Words(s) = [words |-> EndWord(r).words, open |-> FALSE]
  <2>1. Quoted(r) = FALSE
    BY <1>3 DEF Quoted
  <2> DEFINE q == Quoted(r)
             w == EndWord(u).words
  <2>2. Words(s) = [words |-> w, open |-> q] /\ q = FALSE /\ w = EndWord(r).words
    BY <1>2, <1>6, <2>1
  <2> HIDE DEF q, w
  <2> QED
    BY <2>2
<1> QED
  BY <1>7 DEF r

\* Trimming a line outside quotes changes neither its words nor its pipe.
LEMMA TrimmedLine ==
  ASSUME NEW s \in Seq(Letters), FindPipe(s) = 0, ~Quoted(Scanned(s)[Len(s)])
  PROVE  LET start == TrimEnd(SkipSpaces(s))
         IN  start \in Seq(Letters) /\ FindPipe(start) = 0 /\ Words(start) = Words(s)
             /\ ~Words(s).open
<1> DEFINE middle == SkipSpaces(s)
           start == TrimEnd(middle)
           e == Scanned(s)[Len(s)]
<1>1. middle \in Seq(Letters)
  BY SkipIs
<1>2. PICK t : Spaces(t) /\ s = t \o middle
  BY SkipIs
<1> HIDE DEF middle
<1>3. start \in Seq(Letters)
  BY <1>1, TrimIs
<1>4. PICK v : Spaces(v) /\ middle = start \o v
  BY <1>1, TrimIs
<1> HIDE DEF start
<1>5. Reads(Idle, s, e, {PIPE})
  BY FindPipeIs
<1>6. PICK a : Reads(Idle, t, a, {PIPE}) /\ Reads(a, middle, e, {PIPE})
  <2>1. t \in Seq(Letters) /\ Reads(Idle, t \o middle, e, {PIPE})
    BY <1>2, <1>5 DEF Spaces
  <2> QED
    BY <1>1, <2>1, ReadsSplit
<1>7. a = Idle
  <2>1. EndWord(Idle) = Idle /\ Idle.quote = "out"
    BY DEF EndWord, Idle
  <2> QED
    BY <1>2, <1>6, <2>1, SpacesRead
<1>8. PICK b : Reads(Idle, start, b, {PIPE}) /\ Reads(b, v, e, {PIPE})
  <2>1. v \in Seq(Letters) /\ Reads(Idle, start \o v, e, {PIPE})
    BY <1>4, <1>6, <1>7 DEF Spaces
  <2> QED
    BY <1>3, <2>1, ReadsSplit
<1>9. b \in States /\ e.quote = "out"
  <2>1. b \in States
    BY <1>8, ReadsTyped
  <2> QED
    BY <2>1 DEF Quoted
<1>10. b.quote = "out" /\ e \in {b, EndWord(b)}
  <2> HIDE DEF e
  <2> QED
    BY <1>4, <1>8, <1>9, SpacesRead
<1>11. FindPipe(start) = 0 /\ b = Scanned(start)[Len(start)]
  BY <1>3, <1>8, FindPipeIs
<1>12. EndWord(e) = EndWord(b)
  <2> HIDE DEF e
  <2> QED
    BY <1>9, <1>10, EndWordIs
<1>13. Words(start) = [words |-> EndWord(b).words, open |-> FALSE]
  <2>1. ~Quoted(b)
    BY <1>10 DEF Quoted
  <2> QED
    BY <1>3, <1>11, <2>1, UnquotedWords
<1>14. Words(s) = [words |-> EndWord(b).words, open |-> FALSE]
  BY <1>12, UnquotedWords
<1> QED
  BY <1>3, <1>11, <1>13, <1>14 DEF start, middle

-----------------------------------------------------------------------------
(* Running a line                                                          *)

LEMMA WordsTyped ==
  ASSUME NEW s \in Seq(Letters)
  PROVE  Words(s).words \in Seq(Seq(Letters)) /\ Words(s).open \in BOOLEAN
<1> DEFINE r == Scanned(s)[Len(s)]
           rest == IF r.quote = "esc" THEN <<BACKSLASH>> ELSE <<>>
           w == r.word \o rest
           u == [r EXCEPT !.word = w]
<1>1. r \in States
  BY ScannedReads, ReadsTyped
<1>2. Words(s) = [words |-> EndWord(u).words, open |-> Quoted(r)]
  BY DEF Words
<1>3. rest \in Seq(Letters)
  BY CharsAre, EmptySeq
<1> HIDE DEF r, rest
<1>4. w \in Seq(Letters)
  BY <1>1, <1>3, ConcatProperties DEF States
<1> HIDE DEF w
<1>5. u \in States
  BY <1>1, <1>4 DEF States
<1> HIDE DEF u
<1>6. EndWord(u).words \in Seq(Seq(Letters))
  BY <1>5, EndWordIs DEF States
<1>7. Quoted(r) \in BOOLEAN
  BY DEF Quoted
<1> QED
  BY <1>2, <1>6, <1>7

LEMMA TokenizeTyped ==
  ASSUME NEW s \in Seq(Letters)
  PROVE  /\ Tokenize(s).argv \in Seq(Seq(Letters))
         /\ Tokenize(s).status \in {"ok", "tooMany", "unterminated"}
         /\ ~Words(s).open => Tokenize(s).status # "unterminated"
<1> DEFINE all == Words(s)
           ws == all.words
           many == Len(ws) > MaxArgs - 1
<1>1. ws \in Seq(Seq(Letters)) /\ Len(ws) \in Nat
  BY WordsTyped, LenProperties
<1>2. Tokenize(s) = [argv |-> IF many THEN SubSeq(ws, 1, MaxArgs - 1) ELSE ws,
                     status |-> IF many THEN "tooMany" ELSE IF all.open THEN "unterminated" ELSE "ok"]
  BY DEF Tokenize
<1> HIDE DEF all, ws
<1>3. CASE many
  <2>1. MaxArgs - 1 \in 0 .. Len(ws)
    BY <1>1, <1>3, WordsAssumption
  <2>2. SubSeq(ws, 1, MaxArgs - 1) \in Seq(Seq(Letters))
    BY <1>1, <2>1, PrefixIs
  <2> QED
    BY <1>2, <1>3, <2>2
<1>4. CASE ~many
  BY <1>1, <1>2, <1>4 DEF all
<1> QED
  BY <1>3, <1>4

LEMMA NoOffers == ASSUME NEW r, r.offers = <<>> PROVE Sound(r)
<1>1. Len(r.offers) = 0
  OBVIOUS
<1> QED
  BY <1>1 DEF Sound

LEMMA ShowsSound ==
  ASSUME NEW kind
  PROVE  Sound(Shows(kind)) /\ Sound(Nothing) /\ Nothing.kind = "nothing"
<1>1. Sound(Shows(kind)) /\ Sound(Nothing)
  BY ShowsIs, NoOffers
<1> QED
  BY <1>1 DEF Nothing

LEMMA ListedIs ==
  ASSUME NEW path, NEW found
  PROVE  /\ Listed(path, found).path = path /\ Listed(path, found).offers = found
         /\ Listed(path, found).kind = IF found = <<>> THEN "cr" ELSE "list"
  BY DEF Listed, Shows, Nothing

LEMMA HelpBelowIs ==
  ASSUME NEW args, NEW named
  PROVE  LET wrong == First({d \in 1 .. Len(args) : named[d].rc # "ok"}, 0)
         IN  HelpBelow(args, named) =
               IF wrong # 0 THEN Shows("noHelp")
               ELSE Listed(args, Matches(<<>>, named[Len(args)].node, FALSE))
<1> DEFINE found == Matches(<<>>, named[Len(args)].node, FALSE)
<1>1. {Listed(args, f) : f \in {found}} = {Listed(args, found)}
  OBVIOUS
<1>2. Only({Listed(args, f) : f \in {found}}) = Listed(args, found)
  BY <1>1, OnlyIs
<1> QED
  BY <1>2 DEF HelpBelow

LEMMA HelpCommandIs ==
  ASSUME menu \in Menus, NEW args \in Seq(Seq(Letters))
  PROVE  Sound(HelpCommand(args)) /\ HelpCommand(args).kind \in {"cr", "list", "noHelp"}
<1>1. CASE args = <<>>
  <2> DEFINE found == Matches(<<>>, menu.context, TRUE)
  <2>1. {Listed(<<>>, f) : f \in {found}} = {Listed(<<>>, found)}
    OBVIOUS
  <2>2. HelpCommand(args) = Listed(<<>>, found)
    <3>1. Only({Listed(<<>>, f) : f \in {found}}) = Listed(<<>>, found)
      BY <2>1, OnlyIs
    <3> QED
      BY <1>1, <3>1 DEF HelpCommand
  <2>3. found = Matches(<<>>, LevelBehind(args), args = <<>>)
    <3>1. (args = <<>>) = TRUE /\ LevelBehind(args) = menu.context
      BY <1>1 DEF LevelBehind
    <3> QED
      BY <3>1
  <2> HIDE DEF found
  <2>4. Sound(Listed(<<>>, found))
    <3>1. Listed(<<>>, found).path = args /\ Listed(<<>>, found).offers = found
      BY <1>1, ListedIs
    <3> QED
      BY <2>3, <3>1, MatchesSound
  <2> QED
    BY <2>2, <2>4, ListedIs
<1>2. CASE args # <<>>
  <2> DEFINE named == Named(args)
             found == Matches(<<>>, named[Len(args)].node, FALSE)
             wrong == First({d \in 1 .. Len(args) : named[d].rc # "ok"}, 0)
  <2>1. {HelpBelow(args, f) : f \in {named}} = {HelpBelow(args, named)}
    OBVIOUS
  <2>2. HelpCommand(args) = HelpBelow(args, named)
    <3>1. Only({HelpBelow(args, f) : f \in {named}}) = HelpBelow(args, named)
      BY <2>1, OnlyIs
    <3> QED
      BY <1>2, <3>1 DEF HelpCommand
  <2>3. HelpCommand(args) = IF wrong # 0 THEN Shows("noHelp") ELSE Listed(args, found)
    BY <2>2, HelpBelowIs
  <2>4. found = Matches(<<>>, LevelBehind(args), args = <<>>)
    <3>1. (args = <<>>) = FALSE /\ LevelBehind(args) = named[Len(args)].node
      BY <1>2 DEF LevelBehind
    <3> QED
      BY <3>1
  <2> HIDE DEF found, wrong
  <2>5. Sound(Listed(args, found))
    BY <2>4, ListedIs, MatchesSound
  <2>6. CASE wrong # 0
    BY <2>3, <2>6, ShowsSound, ShowsIs
  <2>7. CASE wrong = 0
    BY <2>3, <2>5, <2>7, ListedIs
  <2> QED
    BY <2>6, <2>7
<1> QED
  BY <1>1, <1>2

Errors == {"unknown", "ambiguous", "tooMany"}

LEMMA RunCommandIs ==
  ASSUME menu \in Menus, NEW args \in Seq(Seq(Letters)), NEW r \in Verdicts,
         r.rc = "ok" => \E level : r.node \in Selectable(level)
  PROVE  /\ Sound(RunCommand(r, args))
         /\ r.rc # "ok" => RunCommand(r, args).kind = r.rc
         /\ r.rc = "ok" => RunCommand(r, args).kind \notin Errors
<1>1. CASE r.rc # "ok"
  <2>1. RunCommand(r, args) = Shows(r.rc)
    BY <1>1 DEF RunCommand
  <2> QED
    BY <1>1, <2>1, ShowsIs, ShowsSound
<1>2. CASE r.rc = "ok"
  <2>1. Node(r.node).handler \in {"none", "help", "app"}
    <3>1. PICK level : r.node \in Selectable(level)
      BY <1>2
    <3> QED
      BY <3>1, SelectableIs DEF NodeType
  <2>2. CASE Node(r.node).handler = "none"
    <3>1. RunCommand(r, args) = Shows("incomplete")
      BY <1>2, <2>2 DEF RunCommand
    <3> QED
      BY <1>2, <3>1, ShowsIs, ShowsSound DEF Errors
  <2>3. CASE Node(r.node).handler = "help"
    <3>1. RunCommand(r, args) = HelpCommand(args)
      BY <1>2, <2>3 DEF RunCommand
    <3> QED
      BY <1>2, <3>1, HelpCommandIs DEF Errors
  <2>4. CASE Node(r.node).handler = "app"
    <3> DEFINE x == [Shows("run") EXCEPT !.node = r.node]
    <3>1. RunCommand(r, args) = x
      BY <1>2, <2>4 DEF RunCommand
    <3>2. x.kind = "run" /\ x.offers = <<>>
      BY DEF Shows, Nothing
    <3> HIDE DEF x
    <3> QED
      BY <1>2, <3>1, <3>2, NoOffers DEF Errors
  <2> QED
    BY <2>1, <2>2, <2>3, <2>4
<1> QED
  BY <1>1, <1>2

-----------------------------------------------------------------------------
(* Where the words stop naming commands                                    *)

StopsAt(r) == r.rc # "ok" \/ ~HasChildren(r.node)

Halt(argv) == First({d \in 1 .. Len(argv) : StopsAt(Named(argv)[d])}, Len(argv))

LEMMA HaltIs ==
  ASSUME menu \in Menus, NEW argv \in Seq(Seq(Letters)), argv # <<>>
  PROVE  LET r == Named(argv)[Halt(argv)]
         IN  /\ Halt(argv) \in 1 .. Len(argv) /\ r \in Verdicts
             /\ r.rc = "ok" => \E level : r.node \in Selectable(level)
             /\ ~StopsAt(r) => Halt(argv) = Len(argv)
<1> DEFINE N == Len(argv)
           S == {d \in 1 .. N : StopsAt(Named(argv)[d])}
           h == Halt(argv)
           f == Named(argv)
<1>1. N \in Nat /\ N # 0
  BY LenProperties, EmptySeq
<1>2. /\ f \in [0 .. N -> Verdicts]
      /\ \A n \in 1 .. N : f[n] = Resolve(f[n - 1].node, argv[n])
  BY <1>1, NamedIs
<1>3. h = First(S, N) /\ S \subseteq 1 .. N /\ S \subseteq Nat
  BY <1>1 DEF Halt
<1>4. \A d \in S : StopsAt(f[d])
  OBVIOUS
<1> HIDE DEF S, h, f, N
<1>5. (S = {} => h = N) /\ (S # {} => h \in S)
  BY <1>3, FirstIs
<1>6. h \in 1 .. N
  <2>1. CASE S = {}
    <3>1. h = N
      BY <1>5, <2>1
    <3> QED
      BY <1>1, <3>1
  <2>2. CASE S # {}
    BY <1>3, <1>5, <2>2
  <2> QED
    BY <2>1, <2>2
<1>7. f[h] \in Verdicts
  <2>1. h \in 0 .. N
    BY <1>6
  <2> QED
    BY <1>2, <2>1
<1>8. ASSUME f[h].rc = "ok" PROVE \E level : f[h].node \in Selectable(level)
  BY <1>2, <1>6, <1>8, ResolveIs
<1>9. ~StopsAt(f[h]) => h = N
  BY <1>4, <1>5
<1> QED
  BY <1>6, <1>7, <1>8, <1>9 DEF f, h, N

LEMMA WalkIs ==
  ASSUME NEW argv, argv # <<>>
  PROVE  LET r == Named(argv)[Halt(argv)]
         IN  Walk(argv) = [rc |-> r.rc, level |-> r.node, args |-> r.rc = "ok" /\ StopsAt(r)]
<1> DEFINE Stops(r) == r.rc # "ok" \/ ~HasChildren(r.node)
           At(named) == named[First({d \in 1 .. Len(argv) : Stops(named[d])}, Len(argv))]
           Reached(r) == [rc |-> r.rc, level |-> r.node, args |-> r.rc = "ok" /\ Stops(r)]
           all == {Reached(At(named)) : named \in {Named(argv)}}
<1>1. Walk(argv) = Only(all)
  BY DEF Walk
<1>2. At(Named(argv)) = Named(argv)[Halt(argv)]
  BY DEF Halt, StopsAt
<1> HIDE DEF At
<1>3. all = {Reached(At(Named(argv)))}
  OBVIOUS
<1> DEFINE one == Reached(At(Named(argv)))
<1>4. Walk(argv) = one
  <2> HIDE DEF all, one
  <2>1. all = {one}
    BY <1>3 DEF one
  <2> QED
    BY <1>1, <2>1, OnlyIs
<1> HIDE DEF all
<1> QED
  BY <1>2, <1>4 DEF StopsAt

LEMMA ExecuteCommandIs ==
  ASSUME NEW argv
  PROVE  ExecuteCommand(argv) =
           RunCommand(Named(argv)[Halt(argv)], SubSeq(argv, Halt(argv) + 1, Len(argv)))
<1> DEFINE Stops(r) == r.rc # "ok" \/ ~HasChildren(r.node)
           Reached(named) == First({d \in 1 .. Len(argv) : Stops(named[d])}, Len(argv))
           Of(named) ==
             {RunCommand(named[d], SubSeq(argv, d + 1, Len(argv))) : d \in {Reached(named)}}
           all == {Of(named) : named \in {Named(argv)}}
           one == RunCommand(Named(argv)[Halt(argv)], SubSeq(argv, Halt(argv) + 1, Len(argv)))
<1>1. ExecuteCommand(argv) = Only(UNION all)
  BY DEF ExecuteCommand
<1>2. Reached(Named(argv)) = Halt(argv)
  BY DEF Halt, StopsAt
<1> HIDE DEF Reached
<1>3. Of(Named(argv)) = {one}
  BY <1>2
<1> HIDE DEF Of, one
<1>4. all = {Of(Named(argv))}
  OBVIOUS
<1> HIDE DEF all
<1>5. UNION all = {one}
  BY <1>3, <1>4
<1>6. ExecuteCommand(argv) = one
  BY <1>1, <1>5, OnlyIs
<1> QED
  BY <1>6 DEF one

LEMMA SoundAs ==
  ASSUME NEW r, NEW q, r.path = q.path, r.offers = q.offers, Sound(q)
  PROVE  Sound(r)
  BY DEF Sound

LEMMA ExecuteCommandTells ==
  ASSUME menu \in Menus, NEW argv \in Seq(Seq(Letters)), argv # <<>>
  PROVE  LET r == Named(argv)[Halt(argv)]
         IN  /\ Sound(ExecuteCommand(argv))
             /\ r.rc # "ok" => ExecuteCommand(argv).kind = r.rc
             /\ r.rc = "ok" => ExecuteCommand(argv).kind \notin Errors
<1> DEFINE r == Named(argv)[Halt(argv)]
           h == Halt(argv)
           args == SubSeq(argv, h + 1, Len(argv))
<1>1. /\ h \in 1 .. Len(argv) /\ r \in Verdicts
      /\ r.rc = "ok" => \E level : r.node \in Selectable(level)
  BY HaltIs
<1>2. ExecuteCommand(argv) = RunCommand(r, args)
  BY ExecuteCommandIs
<1> HIDE DEF r, h
<1>3. args \in Seq(Seq(Letters))
  <2>1. Len(argv) \in Nat /\ \A i \in 1 .. Len(argv) : argv[i] \in Seq(Letters)
    BY LenProperties, ElementOfSeq
  <2>2. h + 1 \in Int /\ Len(argv) \in Int /\ \A i \in h + 1 .. Len(argv) : argv[i] \in Seq(Letters)
    BY <1>1, <2>1
  <2> QED
    BY <2>2, SubSeqProperties
<1> HIDE DEF args
<1>4. /\ Sound(RunCommand(r, args))
      /\ r.rc # "ok" => RunCommand(r, args).kind = r.rc
      /\ r.rc = "ok" => RunCommand(r, args).kind \notin Errors
  BY <1>1, <1>3, RunCommandIs
<1> QED
  BY <1>2, <1>4 DEF r

LEMMA ExecuteWordsIs ==
  ASSUME menu \in Menus, NEW t, t.argv \in Seq(Seq(Letters)), NEW filter
  PROVE  LET done == ExecuteWords(t, filter)
         IN  /\ Sound(done) /\ done.argv = t.argv
             /\ filter.type # "invalid" =>
                  /\ t.status # "ok" => done.kind = t.status
                  /\ t.status = "ok" =>
                       done.kind = IF t.argv = <<>> THEN "nothing" ELSE ExecuteCommand(t.argv).kind
<1> DEFINE did == CASE filter.type = "invalid" -> Shows("badFilter")
                    [] filter.type # "invalid" /\ t.status # "ok" -> Shows(t.status)
                    [] filter.type # "invalid" /\ t.status = "ok" ->
                         IF t.argv = <<>> THEN Nothing ELSE ExecuteCommand(t.argv)
           done == ExecuteWords(t, filter)
<1>1. done = [kind |-> did.kind, key |-> did.key, path |-> did.path, offers |-> did.offers,
              node |-> did.node, argv |-> t.argv, filter |-> filter]
  BY DEF ExecuteWords
<1>2. /\ filter.type = "invalid" => did = Shows("badFilter")
      /\ filter.type # "invalid" /\ t.status # "ok" => did = Shows(t.status)
      /\ filter.type # "invalid" /\ t.status = "ok" =>
           did = IF t.argv = <<>> THEN Nothing ELSE ExecuteCommand(t.argv)
  OBVIOUS
<1> HIDE DEF did
<1>3. Sound(did)
  <2>1. t.argv # <<>> => Sound(ExecuteCommand(t.argv))
    BY ExecuteCommandTells
  <2> QED
    BY <1>2, <2>1, ShowsSound
<1>4. done.kind = did.kind /\ done.argv = t.argv /\ done.path = did.path /\ done.offers = did.offers
  BY <1>1
<1> HIDE DEF done
<1>5. Sound(done)
  BY <1>3, <1>4, SoundAs
<1>6. ASSUME filter.type # "invalid"
      PROVE  /\ t.status # "ok" => done.kind = t.status
             /\ t.status = "ok" =>
                  done.kind = IF t.argv = <<>> THEN "nothing" ELSE ExecuteCommand(t.argv).kind
  BY <1>2, <1>4, <1>6, ShowsIs, ShowsSound
<1> QED
  BY <1>4, <1>5, <1>6 DEF done

LEMMA ExecuteSound ==
  ASSUME menu \in Menus, NEW s \in Seq(Letters)
  PROVE  Sound(Execute(s))
<1> DEFINE start == TrimEnd(SkipSpaces(s))
           pipe == FindPipe(start)
<1>1. start \in Seq(Letters)
  BY SkipIs, TrimIs
<1> HIDE DEF start
<1>2. pipe \in 0 .. Len(start) /\ Len(start) \in Nat
  BY <1>1, FindPipeIs, LenProperties
<1>3. Execute(s) = IF pipe = 0 THEN ExecuteWords(Tokenize(start), NoFilter)
                   ELSE ExecuteWords(Tokenize(SubSeq(start, 1, pipe - 1)),
                                     FilterOf(SubSeq(start, pipe + 1, Len(start))))
  BY ExecuteIs DEF start
<1> HIDE DEF pipe
<1>4. CASE pipe = 0
  <2>1. Tokenize(start).argv \in Seq(Seq(Letters))
    BY <1>1, TokenizeTyped
  <2> QED
    BY <1>3, <1>4, <2>1, ExecuteWordsIs
<1>5. CASE pipe # 0
  <2> DEFINE command == SubSeq(start, 1, pipe - 1)
  <2>1. command \in Seq(Letters)
    <3>1. pipe - 1 \in 0 .. Len(start)
      BY <1>2, <1>5
    <3> QED
      BY <1>1, <3>1, PrefixIs
  <2> HIDE DEF command
  <2>2. Tokenize(command).argv \in Seq(Seq(Letters))
    BY <2>1, TokenizeTyped
  <2>3. Execute(s) = ExecuteWords(Tokenize(command), FilterOf(SubSeq(start, pipe + 1, Len(start))))
    BY <1>3, <1>5 DEF command
  <2> QED
    BY <2>2, <2>3, ExecuteWordsIs
<1> QED
  BY <1>4, <1>5

-----------------------------------------------------------------------------
(* The words in front of the cursor                                        *)

LEMMA SplitIs ==
  ASSUME NEW head
  PROVE  LET t == Tokenize(head)
             typing == t.argv # <<>> /\ ~(head # <<>> /\ head[Len(head)] = SP)
         IN  Split(head) = [status |-> t.status,
                            path |-> IF typing THEN Front(t.argv) ELSE t.argv,
                            partial |-> IF typing THEN Last(t.argv) ELSE <<>>]
<1> DEFINE fresh == head # <<>> /\ head[Len(head)] = SP
           Parts(t) ==
             LET typing == t.argv # <<>> /\ ~fresh
             IN  [status |-> t.status,
                  path |-> IF typing THEN Front(t.argv) ELSE t.argv,
                  partial |-> IF typing THEN Last(t.argv) ELSE <<>>]
           all == {Parts(t) : t \in {Tokenize(head)}}
           one == Parts(Tokenize(head))
<1>1. Split(head) = Only(all)
  BY DEF Split
<1>2. all = {one}
  <2> HIDE DEF Parts
  <2> QED
    OBVIOUS
<1> HIDE DEF all, one
<1>3. Split(head) = one
  BY <1>1, <1>2, OnlyIs
<1> QED
  BY <1>3 DEF one

LEMMA SplitTyped ==
  ASSUME NEW head \in Seq(Letters)
  PROVE  Split(head).path \in Seq(Seq(Letters)) /\ Split(head).partial \in Seq(Letters)
<1> DEFINE argv == Tokenize(head).argv
           fresh == head # <<>> /\ head[Len(head)] = SP
           typing == argv # <<>> /\ ~fresh
<1>1. argv \in Seq(Seq(Letters)) /\ Len(argv) \in Nat
  BY TokenizeTyped, LenProperties
<1>2. /\ Split(head).path = IF typing THEN Front(argv) ELSE argv
      /\ Split(head).partial = IF typing THEN Last(argv) ELSE <<>>
  BY SplitIs
<1> HIDE DEF argv, fresh
<1>3. CASE typing
  <2>1. Len(argv) \in 1 .. Len(argv) /\ Len(argv) - 1 \in 0 .. Len(argv)
    BY <1>1, <1>3, EmptySeq
  <2>2. Front(argv) \in Seq(Seq(Letters))
    BY <1>1, <2>1, PrefixIs DEF Front
  <2>3. Last(argv) \in Seq(Letters)
    BY <1>1, <2>1, ElementOfSeq DEF Last
  <2> QED
    BY <1>2, <1>3, <2>2, <2>3
<1>4. CASE ~typing
  BY <1>1, <1>2, <1>4, EmptySeq
<1> QED
  BY <1>3, <1>4

\* A walk that goes to the end of the words.
LEMMA WalkEnds ==
  ASSUME menu \in Menus, NEW path \in Seq(Seq(Letters)),
         Walk(path).rc = "ok", ~Walk(path).args
  PROVE  Walk(path).level = LevelBehind(path)
<1>1. CASE path = <<>>
  BY <1>1 DEF Walk, LevelBehind
<1>2. CASE path # <<>>
  <2> DEFINE r == Named(path)[Halt(path)]
  <2>1. Walk(path) = [rc |-> r.rc, level |-> r.node, args |-> r.rc = "ok" /\ StopsAt(r)]
    BY <1>2, WalkIs
  <2>2. ~StopsAt(r) /\ Walk(path).level = r.node
    <3> DEFINE stops == r.rc = "ok" /\ StopsAt(r)
    <3> HIDE DEF r
    <3>1. Walk(path).rc = r.rc /\ Walk(path).level = r.node /\ Walk(path).args = stops
      BY <2>1
    <3>2. r.rc = "ok" /\ ~stops
      BY <3>1
    <3> QED
      BY <3>1, <3>2
  <2>3. Halt(path) = Len(path)
    BY <1>2, <2>2, HaltIs
  <2> QED
    BY <1>2, <2>2, <2>3 DEF LevelBehind
<1> QED
  BY <1>1, <1>2

\* cli_show_help_words, without the braces.
LEMMA HelpWordsIs ==
  ASSUME NEW head
  PROVE  LET s == Split(head)
             walk == Walk(s.path)
             found == Matches(s.partial, walk.level, s.path = <<>>)
         IN  /\ HelpWords(head) = HelpBehind(s, walk)
             /\ s.status = "tooMany" => HelpWords(head) = Shows("tooMany")
             /\ s.status # "tooMany" /\ walk.rc # "ok" => HelpWords(head) = Shows(walk.rc)
             /\ s.status # "tooMany" /\ walk.rc = "ok" /\ walk.args => HelpWords(head) = Shows("cr")
             /\ s.status # "tooMany" /\ walk.rc = "ok" /\ ~walk.args =>
                  HelpWords(head) =
                    IF found = <<>> THEN Shows(IF s.partial # <<>> THEN "unknown" ELSE "cr")
                    ELSE Listed(s.path, found)
<1> DEFINE s == Split(head)
           walk == Walk(s.path)
           found == Matches(s.partial, walk.level, s.path = <<>>)
           Of(x) == {HelpBehind(x, w) : w \in {Walk(x.path)}}
           all == {Of(x) : x \in {s}}
<1>1. HelpWords(head) = HelpBehind(s, walk)
  <2>1. HelpWords(head) = Only(UNION all)
    BY DEF HelpWords
  <2>2. Of(s) = {HelpBehind(s, walk)}
    OBVIOUS
  <2> HIDE DEF Of
  <2>3. all = {Of(s)}
    OBVIOUS
  <2> HIDE DEF all, s, walk
  <2>4. UNION all = {HelpBehind(s, walk)}
    BY <2>2, <2>3
  <2> QED
    BY <2>1, <2>4, OnlyIs
<1> DEFINE List(f) == IF f = <<>> THEN Shows(IF s.partial # <<>> THEN "unknown" ELSE "cr")
                      ELSE Listed(s.path, f)
           lists == {List(f) : f \in {found}}
<1>2. HelpBehind(s, walk) =
        CASE s.status = "tooMany" -> Shows("tooMany")
          [] s.status # "tooMany" /\ walk.rc # "ok" -> Shows(walk.rc)
          [] s.status # "tooMany" /\ walk.rc = "ok" -> IF walk.args THEN Shows("cr") ELSE Only(lists)
  BY DEF HelpBehind
<1>3. Only(lists) = List(found)
  <2> HIDE DEF List
  <2>1. lists = {List(found)}
    OBVIOUS
  <2> HIDE DEF lists
  <2> QED
    BY <2>1, OnlyIs
<1> HIDE DEF lists, s, walk, found
<1>4. /\ s.status = "tooMany" => HelpBehind(s, walk) = Shows("tooMany")
      /\ s.status # "tooMany" /\ walk.rc # "ok" => HelpBehind(s, walk) = Shows(walk.rc)
      /\ s.status # "tooMany" /\ walk.rc = "ok" /\ walk.args => HelpBehind(s, walk) = Shows("cr")
      /\ s.status # "tooMany" /\ walk.rc = "ok" /\ ~walk.args => HelpBehind(s, walk) = Only(lists)
  BY <1>2
<1> QED
  BY <1>1, <1>3, <1>4 DEF s, walk, found

-----------------------------------------------------------------------------
(* Completing a word                                                       *)

LEMMA FoldedIs ==
  ASSUME NEW word, Len(word) \in Nat
  PROVE  Len(Folded(word)) = Len(word)
<1> DEFINE N == Len(word)
<1>1. N \in Nat
  OBVIOUS
<1> HIDE DEF N
<1>2. Len([i \in 1 .. N |-> Lower(word[i])]) = N
  BY <1>1
<1> QED
  BY <1>2 DEF Folded, N

LEMMA EmptyStarts ==
  ASSUME NEW keyword \in Seq(Letters)
  PROVE  StartsWith(keyword, <<>>)
<1> DEFINE u == Folded(<<>>)
           v == Folded(keyword)
<1>1. Len(u) = 0 /\ Len(v) \in Nat
  <2>1. Len(<<>>) = 0 /\ Len(keyword) \in Nat
    BY LenProperties
  <2> QED
    BY <2>1, FoldedIs
<1> HIDE DEF u, v
<1>2. SubSeq(u, 1, 0) = <<>> /\ SubSeq(v, 1, 0) = <<>>
  BY SubSeqEmpty
<1>3. IsPrefix(u, v)
  BY <1>1, <1>2 DEF IsPrefix
<1> QED
  BY <1>3 DEF StartsWith, u, v

LEMMA CommonLengthIs ==
  ASSUME NEW texts \in Seq(Seq(Letters)), texts # <<>>
  PROVE  CommonLength(texts) \in 0 .. Len(texts[1])
<1> DEFINE M == Len(texts)
           first == texts[1]
           L == Len(first)
           Agree(n) == \A k \in 1 .. M : StartsWith(texts[k], SubSeq(first, 1, n))
           P(n) ==
             /\ Agree(n)
             /\ n < L => \E k \in 1 .. M : ~StartsWith(texts[k], SubSeq(first, 1, n + 1))
           S == {n \in 0 .. L : ~Agree(n)}
<1>1. M \in Nat /\ M # 0 /\ \A k \in 1 .. M : texts[k] \in Seq(Letters)
  BY LenProperties, EmptySeq, ElementOfSeq
<1>2. L \in Nat /\ SubSeq(first, 1, 0) = <<>>
  BY <1>1, LenProperties, SubSeqEmpty
<1>3. CommonLength(texts) = CHOOSE n \in 0 .. L : P(n)
  BY DEF CommonLength
<1>4. Agree(0)
  BY <1>1, <1>2, EmptyStarts
<1>5. \A n \in 0 .. L : n < L /\ Agree(n) /\ ~Agree(n + 1) => P(n)
  OBVIOUS
<1>6. Agree(L) => P(L)
  BY <1>2
<1> HIDE DEF Agree, P, L
<1>7. \E n \in 0 .. L : P(n)
  <2>1. CASE S = {}
    <3>1. L \in 0 .. L
      BY <1>2
    <3> QED
      BY <1>6, <2>1, <3>1
  <2>2. CASE S # {}
    <3> DEFINE x == First(S, 0)
    <3>1. S \subseteq Nat
      BY <1>2
    <3>2. x \in S /\ \A j \in S : x <= j
      <4> HIDE DEF S
      <4> QED
        BY <2>2, <3>1, FirstIs
    <3> HIDE DEF x
    <3>3. x \in 0 .. L /\ ~Agree(x)
      BY <3>2
    <3>4. x # 0
      BY <1>4, <3>3
    <3>5. x - 1 \in 0 .. L /\ x - 1 < L /\ x - 1 + 1 = x /\ ~(x <= x - 1)
      BY <1>2, <3>3, <3>4
    <3>6. Agree(x - 1)
      BY <3>2, <3>5
    <3>7. P(x - 1)
      BY <1>5, <3>3, <3>5, <3>6
    <3> QED
      BY <3>5, <3>7
  <2> QED
    BY <2>1, <2>2
<1>8. (CHOOSE n \in 0 .. L : P(n)) \in 0 .. L
  BY <1>7
<1> QED
  BY <1>3, <1>8 DEF L

LEMMA CompletionIs ==
  ASSUME NEW head \in Seq(Letters), NEW word \in Seq(Letters), NEW texts \in Seq(Seq(Letters))
  PROVE  Completion(head, word, texts).head \in Seq(Letters)
<1> DEFINE common == CommonLength(texts)
           text == IF Len(texts) = 1 THEN Append(texts[1], SP) ELSE SubSeq(texts[1], 1, common)
           rewrite == IsSuffix(word, head) /\ SubSeq(text, 1, Len(word)) # word
           whole == IF rewrite THEN SubSeq(head, 1, Len(head) - Len(word)) \o text
                    ELSE head \o SubSeq(text, Len(word) + 1, Len(text))
           large == Len(text) - Len(word) > Room
           c == Completion(head, word, texts)
<1>1. c = CASE texts = <<>> -> [kind |-> "bell", head |-> head]
            [] Len(texts) > 1 /\ common <= Len(word) -> [kind |-> "list", head |-> head]
            [] texts # <<>> /\ (Len(texts) > 1 => common > Len(word)) ->
                 IF large THEN [kind |-> "bell", head |-> head]
                 ELSE [kind |-> "completed", head |-> whole]
  BY DEF Completion
<1>2. /\ Len(texts) \in Nat /\ Len(word) \in Nat /\ Len(head) \in Nat
      /\ (texts = <<>> <=> Len(texts) = 0) /\ \A i \in 1 .. Len(head) : head[i] \in Letters
  BY LenProperties, EmptySeq, ElementOfSeq
<1>3. CASE texts = <<>>
  <2>1. Len(texts) = 0
    BY <1>2, <1>3
  <2> HIDE DEF c, common, large, whole
  <2>2. c.head = head
    BY <1>1, <1>3, <2>1
  <2> QED
    BY <2>2 DEF c
<1>4. CASE texts # <<>>
  <2>1. texts[1] \in Seq(Letters) /\ Len(texts[1]) \in Nat /\ common \in 0 .. Len(texts[1])
    <3>1. 1 \in 1 .. Len(texts)
      BY <1>2, <1>4
    <3>2. texts[1] \in Seq(Letters)
      BY <3>1, ElementOfSeq
    <3> QED
      BY <1>4, <3>2, LenProperties, CommonLengthIs
  <2>2. text \in Seq(Letters)
    <3>1. Append(texts[1], SP) \in Seq(Letters)
      BY <2>1, CharsAre, AppendProperties
    <3>2. SubSeq(texts[1], 1, common) \in Seq(Letters)
      BY <2>1, PrefixIs
    <3> QED
      BY <3>1, <3>2
  <2> HIDE DEF text, common
  <2>3. Len(text) \in Nat /\ \A i \in 1 .. Len(text) : text[i] \in Letters
    BY <2>2, LenProperties, ElementOfSeq
  <2>4. SubSeq(head, 1, Len(head) - Len(word)) \in Seq(Letters)
    <3>1. 1 \in Int /\ Len(head) - Len(word) \in Int
          /\ \A i \in 1 .. Len(head) - Len(word) : head[i] \in Letters
      BY <1>2
    <3> QED
      BY <3>1, SubSeqProperties
  <2>5. SubSeq(text, Len(word) + 1, Len(text)) \in Seq(Letters)
    <3>1. Len(word) + 1 \in Int /\ Len(text) \in Int
          /\ \A i \in Len(word) + 1 .. Len(text) : text[i] \in Letters
      BY <1>2, <2>3
    <3> QED
      BY <3>1, SubSeqProperties
  <2>6. whole \in Seq(Letters)
    <3>1. SubSeq(head, 1, Len(head) - Len(word)) \o text \in Seq(Letters)
      BY <2>2, <2>4, ConcatProperties
    <3>2. head \o SubSeq(text, Len(word) + 1, Len(text)) \in Seq(Letters)
      BY <2>5, ConcatProperties
    <3> HIDE DEF rewrite
    <3> QED
      BY <3>1, <3>2
  <2> HIDE DEF c, large, whole
  <2>7. CASE Len(texts) > 1 /\ common <= Len(word)
    <3>1. ~(Len(texts) > 1 => common > Len(word))
      BY <1>2, <2>1, <2>7
    <3>2. c.head = head
      BY <1>1, <1>4, <2>7, <3>1
    <3> QED
      BY <3>2 DEF c
  <2>8. CASE ~(Len(texts) > 1 /\ common <= Len(word))
    <3>1. Len(texts) > 1 => common > Len(word)
      BY <1>2, <2>1, <2>8
    <3>2. c.head \in {head, whole}
      BY <1>1, <1>4, <2>8, <3>1
    <3> QED
      BY <2>6, <3>2 DEF c
  <2> QED
    BY <2>7, <2>8
<1> QED
  BY <1>3, <1>4

LEMMA TextsTyped ==
  ASSUME menu \in Menus, NEW word, NEW level, NEW withRoot
  PROVE  TextsOf(Matches(word, level, withRoot)) \in Seq(Seq(Letters))
<1> DEFINE found == Matches(word, level, withRoot)
           N == Len(found)
<1>1. /\ N \in Nat
      /\ \A k \in 1 .. N :
           \E h \in Found(level, word) \cup Found(ROOT, word) :
             found[k].node = h /\ found[k].text = PrefixText(h, word)
  BY MatchesAre
<1> HIDE DEF found, N
<1>2. ASSUME NEW k \in 1 .. N PROVE found[k].text \in Seq(Letters)
  <2>1. PICK h \in Found(level, word) \cup Found(ROOT, word) : found[k].text = PrefixText(h, word)
    BY <1>1
  <2>2. PICK l : h \in Selectable(l) /\ PrefixText(h, word) # <<>>
    BY DEF Found
  <2>3. PICK j \in 1 .. Len(Keywords(h)) : PrefixText(h, word) = Keywords(h)[j]
    BY <2>2, PrefixTextIs
  <2> QED
    BY <2>1, <2>2, <2>3, SelectableIs
<1>3. TextsOf(found) = [k \in 1 .. N |-> found[k].text]
  BY DEF TextsOf, N
<1>4. [k \in 1 .. N |-> found[k].text] \in Seq(Seq(Letters))
  BY <1>1, <1>2, IsASeq
<1> QED
  BY <1>3, <1>4 DEF found

FilterTextsUpTo(word) ==
  LET upto[n \in 0 .. Len(Filters)] ==
        IF n = 0 THEN <<>>
        ELSE IF StartsWith(Filters[n].keyword, word) THEN Append(upto[n - 1], Filters[n].keyword)
        ELSE upto[n - 1]
  IN  upto

LEMMA FilterTextsTyped ==
  ASSUME NEW word
  PROVE  FilterTexts(word) \in Seq(Seq(Letters))
<1> DEFINE N == Len(Filters)
           D == Seq(Seq(Letters))
           e == <<>>
           More(n, s) ==
             IF StartsWith(Filters[n].keyword, word) THEN Append(s, Filters[n].keyword) ELSE s
           Eq(f) == f = [n \in 0 .. N |-> IF n = 0 THEN e ELSE More(n, f[n - 1])]
           step == [n \in 1 .. N |-> [s \in D |-> More(n, s)]]
           K == [keyword : Seq(Letters), type : {"grep", "exclude", "begin", "count"}]
<1>1. N \in Nat /\ \A n \in 1 .. N : Filters[n] \in K
  <2>1. Filters \in Seq(K)
    BY WordsAssumption
  <2> HIDE DEF K
  <2> QED
    BY <2>1, LenProperties, ElementOfSeq
<1>2. \A n \in 1 .. N : Filters[n].keyword \in Seq(Letters)
  BY <1>1
<1> HIDE DEF K
<1>3. FilterTextsUpTo(word) = CHOOSE f : Eq(f)
  BY DEF FilterTextsUpTo
<1>4. FilterTexts(word) = FilterTextsUpTo(word)[N]
  BY DEF FilterTexts, FilterTextsUpTo
<1>5. e \in D
  BY EmptySeq
<1>6. ASSUME NEW n \in 1 .. N, NEW s \in D PROVE More(n, s) \in D
  BY <1>2, AppendProperties
<1> HIDE DEF More, D, N, e
<1>7. Steps(step, N, D) /\ \A n \in 1 .. N, s \in D : step[n][s] = More(n, s)
  BY <1>6 DEF Steps
<1> HIDE DEF step
<1>8. PICK f : Built(f, N, D, e, step)
  BY <1>1, <1>5, <1>7, Recursion
<1>9. f \in [0 .. N -> D] /\ f[0] = e /\ \A n \in 1 .. N : f[n] = More(n, f[n - 1])
  <2>1. f \in [0 .. N -> D] /\ f[0] = e /\ \A n \in 1 .. N : f[n] = step[n][f[n - 1]]
    BY <1>8 DEF Built
  <2>2. \A n \in 1 .. N : f[n - 1] \in D
    BY <1>1, <2>1
  <2> QED
    BY <1>7, <2>1, <2>2
<1>10. Eq(f)
  <2>1. f = [n \in 0 .. N |-> f[n]]
    BY <1>9
  <2>2. \A n \in 0 .. N : f[n] = IF n = 0 THEN e ELSE More(n, f[n - 1])
    BY <1>1, <1>9
  <2> QED
    BY <2>1, <2>2
<1>11. PICK g : Eq(g) /\ g = FilterTextsUpTo(word)
  BY <1>3, <1>10
<1>12. g[0] = e /\ \A n \in 1 .. N : g[n] = More(n, g[n - 1])
  <2>1. \A n \in 0 .. N : g[n] = IF n = 0 THEN e ELSE More(n, g[n - 1])
    BY <1>11
  <2> QED
    BY <1>1, <2>1
<1> DEFINE T == {n \in 0 .. N : g[n] \in D}
<1>13. 0 \in T
  BY <1>1, <1>5, <1>12
<1>14. ASSUME NEW n \in 1 .. N, n - 1 \in T PROVE n \in T
  BY <1>1, <1>6, <1>12, <1>14
<1> HIDE DEF T
<1>15. \A n \in 0 .. N : n \in T
  BY <1>1, <1>13, <1>14, Induction
<1>16. N \in 0 .. N
  BY <1>1
<1>17. g[N] \in D
  BY <1>15, <1>16 DEF T
<1> QED
  BY <1>4, <1>11, <1>17 DEF D

\* What Tab leaves: the text in front of the cursor, and what it shows.
Completed(done) == done.head \in Seq(Letters) /\ Sound(done.shown)

LEMMA CompleteWordIs ==
  ASSUME menu \in Menus, NEW head \in Seq(Letters), NEW s,
         s.path \in Seq(Seq(Letters)), s.partial \in Seq(Letters)
  PROVE  Completed(CompleteWord(head, s, Matches(s.partial, LevelBehind(s.path), s.path = <<>>)))
<1> DEFINE found == Matches(s.partial, LevelBehind(s.path), s.path = <<>>)
           c == Completion(head, s.partial, TextsOf(found))
           only == c.kind = "completed" /\ Len(found) = 1
           shows == [Shows(c.kind) EXCEPT !.path = s.path,
                                          !.offers = IF c.kind = "list" \/ only THEN found ELSE <<>>]
           done == CompleteWord(head, s, found)
<1>1. done = [head |-> c.head, shown |-> shows]
  BY DEF CompleteWord
<1>2. c.head \in Seq(Letters)
  <2>1. TextsOf(found) \in Seq(Seq(Letters))
    BY TextsTyped
  <2> HIDE DEF found
  <2> QED
    BY <2>1, CompletionIs
<1>3. shows.path = s.path /\ shows.offers \in {found, <<>>}
  <2> HIDE DEF c, found, only
  <2> QED
    BY DEF Shows, Nothing
<1>4. Sound(shows)
  <2> DEFINE it == shows
  <2>1. it.path = s.path /\ it.offers \in {found, <<>>}
    BY <1>3
  <2> HIDE DEF it
  <2>2. ASSUME it.offers = found PROVE Sound(it)
    BY <2>1, <2>2, MatchesSound
  <2>3. ASSUME it.offers = <<>> PROVE Sound(it)
    BY <2>3, NoOffers
  <2>4. Sound(it)
    BY <2>1, <2>2, <2>3
  <2> QED
    BY <2>4 DEF it
<1> HIDE DEF c, shows, done
<1>5. Completed(done)
  BY <1>1, <1>2, <1>4 DEF Completed
<1> QED
  BY <1>5 DEF done

LEMMA BellIs ==
  ASSUME NEW head \in Seq(Letters), NEW kind
  PROVE  Completed([head |-> head, shown |-> Shows(kind)])
  BY ShowsSound DEF Completed

LEMMA TabWordsIs ==
  ASSUME menu \in Menus, NEW head \in Seq(Letters)
  PROVE  Completed(TabWords(head))
<1> DEFINE s == Split(head)
           walk == Walk(s.path)
           found == Matches(s.partial, walk.level, s.path = <<>>)
           stuck == s.status # "ok" \/ walk.rc # "ok" \/ walk.args
           Of(x) == {TabBelow(head, x, w) : w \in {Walk(x.path)}}
           all == {Of(x) : x \in {s}}
<1>1. TabWords(head) = TabBelow(head, s, walk)
  <2>1. TabWords(head) = Only(UNION all)
    BY DEF TabWords
  <2>2. Of(s) = {TabBelow(head, s, walk)}
    OBVIOUS
  <2> HIDE DEF Of
  <2>3. all = {Of(s)}
    OBVIOUS
  <2> HIDE DEF all, s, walk
  <2>4. UNION all = {TabBelow(head, s, walk)}
    BY <2>2, <2>3
  <2> QED
    BY <2>1, <2>4, OnlyIs
<1>2. TabBelow(head, s, walk) = IF stuck THEN [head |-> head, shown |-> Shows("bell")]
                                ELSE CompleteWord(head, s, found)
  <2> DEFINE one == {CompleteWord(head, s, f) : f \in {found}}
  <2>1. TabBelow(head, s, walk) =
          IF stuck THEN [head |-> head, shown |-> Shows("bell")] ELSE Only(one)
    BY DEF TabBelow
  <2>2. one = {CompleteWord(head, s, found)}
    OBVIOUS
  <2>3. Only(one) = CompleteWord(head, s, found)
    <3> HIDE DEF one
    <3> QED
      BY <2>2, OnlyIs
  <2> QED
    BY <2>1, <2>3
<1>3. s.path \in Seq(Seq(Letters)) /\ s.partial \in Seq(Letters)
  BY SplitTyped
<1>4. CASE stuck
  BY <1>1, <1>2, <1>4, BellIs
<1>5. CASE ~stuck
  <2>1. walk.level = LevelBehind(s.path)
    BY <1>3, <1>5, WalkEnds
  <2>2. TabWords(head) =
          CompleteWord(head, s, Matches(s.partial, LevelBehind(s.path), s.path = <<>>))
    BY <1>1, <1>2, <1>5, <2>1
  <2> HIDE DEF s
  <2> QED
    BY <1>3, <2>2, CompleteWordIs
<1> QED
  BY <1>4, <1>5

LEMMA FilterWordIs ==
  ASSUME NEW tail \in Seq(Letters)
  PROVE  FilterSplit(tail).kw \in Seq(Letters)
<1> DEFINE text == SkipSpaces(tail)
           S == {i \in 1 .. Len(text) : text[i] = SP}
           end == First(S, Len(text) + 1)
<1>1. text \in Seq(Letters) /\ Len(text) \in Nat
  BY SkipIs, LenProperties
<1>2. FilterSplit(tail).kw = SubSeq(text, 1, end - 1)
  BY DEF FilterSplit
<1> HIDE DEF text
<1>3. S \subseteq Nat /\ S \subseteq 1 .. Len(text)
  BY <1>1
<1> HIDE DEF S
<1>4. (S = {} => end = Len(text) + 1) /\ (S # {} => end \in S)
  BY <1>3, FirstIs
<1> HIDE DEF end
<1>5. end - 1 \in 0 .. Len(text)
  <2>1. CASE S = {}
    <3>1. end = Len(text) + 1
      BY <1>4, <2>1
    <3> QED
      BY <1>1, <3>1
  <2>2. CASE S # {}
    <3>1. end \in 1 .. Len(text)
      BY <1>3, <1>4, <2>2
    <3> QED
      BY <1>1, <3>1
  <2> QED
    BY <2>1, <2>2
<1> QED
  BY <1>1, <1>2, <1>5, PrefixIs

LEMMA TabFilterIs ==
  ASSUME NEW head \in Seq(Letters), NEW tail \in Seq(Letters)
  PROVE  Completed(TabFilter(head, tail))
<1> DEFINE kw == FilterSplit(tail).kw
           c == Completion(head, kw, FilterTexts(kw))
           stuck == ~FilterSplit(tail).atKeyword
<1>1. TabFilter(head, tail) = IF stuck THEN [head |-> head, shown |-> Shows("bell")]
                              ELSE [head |-> c.head, shown |-> Shows(c.kind)]
  BY DEF TabFilter
<1>2. c.head \in Seq(Letters)
  BY FilterWordIs, FilterTextsTyped, CompletionIs
<1> HIDE DEF c, stuck
<1>3. Completed([head |-> head, shown |-> Shows("bell")])
  BY BellIs
<1>4. Completed([head |-> c.head, shown |-> Shows(c.kind)])
  BY <1>2, BellIs
<1> QED
  BY <1>1, <1>3, <1>4

LEMMA HelpWordsSound ==
  ASSUME menu \in Menus, NEW head \in Seq(Letters)
  PROVE  Sound(HelpWords(head))
<1> DEFINE s == Split(head)
           walk == Walk(s.path)
           found == Matches(s.partial, walk.level, s.path = <<>>)
<1>1. s.path \in Seq(Seq(Letters)) /\ s.partial \in Seq(Letters)
  BY SplitTyped
<1>2. \/ \E kind : HelpWords(head) = Shows(kind)
      \/ walk.rc = "ok" /\ ~walk.args /\ HelpWords(head) = Listed(s.path, found)
  BY HelpWordsIs
<1>3. CASE \E kind : HelpWords(head) = Shows(kind)
  BY <1>3, ShowsSound
<1>4. CASE walk.rc = "ok" /\ ~walk.args /\ HelpWords(head) = Listed(s.path, found)
  <2>1. walk.level = LevelBehind(s.path)
    BY <1>1, <1>4, WalkEnds
  <2>2. HelpWords(head).path = s.path
        /\ HelpWords(head).offers = Matches(s.partial, LevelBehind(s.path), s.path = <<>>)
    BY <1>4, <2>1, ListedIs
  <2> HIDE DEF s
  <2> QED
    BY <1>1, <2>2, MatchesSound
<1> QED
  BY <1>2, <1>3, <1>4

LEMMA HelpFilterSound == ASSUME NEW tail PROVE Sound(HelpFilter(tail))
<1>1. \E kind : HelpFilter(tail) = Shows(kind)
  BY DEF HelpFilter
<1> QED
  BY <1>1, ShowsSound

-----------------------------------------------------------------------------
(* '?' behind complete words                                               *)

BehindWords(s) ==
  /\ s = <<>> \/ Last(s) = SP
  /\ FindPipe(s) = 0 /\ ~Quoted(Scanned(s)[Len(s)])

LEMMA NothingFollows ==
  ASSUME menu \in Menus, NEW level, Found(level, <<>>) = {}
  PROVE  \A h \in Selectable(level) : Node(h).hidden
<1> TAKE h \in Selectable(level)
<1>1. 1 \in 1 .. Len(Keywords(h)) /\ Keywords(h)[1] \in Seq(Letters)
  BY SelectableIs
<1>2. PrefixText(h, <<>>) # <<>>
  BY <1>1, EmptyStarts, PrefixTextIs
<1> QED
  BY <1>2, SelectableIs DEF Found, NodeType

LEMMA HelpTells ==
  ASSUME menu \in Menus, NEW s \in Seq(Letters), BehindWords(s)
  PROVE  LET help == HelpWords(s)
             enter == Execute(s)
         IN  /\ {enter.kind, help.kind} \cap Errors # {} => help.kind = enter.kind
             /\ help.kind = "cr" /\ enter.kind = "incomplete" =>
                  \A h \in Selectable(Walk(enter.argv).level) : Node(h).hidden
<1> DEFINE start == TrimEnd(SkipSpaces(s))
           t == Tokenize(s)
           argv == t.argv
           help == HelpWords(s)
           enter == Execute(s)
           walk == Walk(argv)
           found == Matches(<<>>, walk.level, argv = <<>>)
<1>1. /\ start \in Seq(Letters) /\ FindPipe(start) = 0 /\ Words(start) = Words(s)
      /\ ~Words(s).open
  BY TrimmedLine DEF BehindWords
<1>2. Tokenize(start) = t
  BY <1>1 DEF Tokenize
<1>3. enter = ExecuteWords(t, NoFilter)
  BY <1>1, <1>2, ExecuteIs
<1>4. argv \in Seq(Seq(Letters)) /\ t.status \in {"ok", "tooMany"}
  BY <1>1, TokenizeTyped
<1>5. Split(s) = [status |-> t.status, path |-> argv, partial |-> <<>>]
  <2>1. s # <<>> => s[Len(s)] = SP
    BY DEF BehindWords, Last
  <2>2. s = <<>> => argv = <<>>
    <3> SUFFICES ASSUME s = <<>> PROVE argv = <<>>
      OBVIOUS
    <3>1. Reads(Idle, s, Idle, {PIPE})
      BY ReadsNone, IdleIs
    <3>2. Idle = Between(<<>>) /\ Before(<<>>, <<>>)
      BY EmptySeq DEF Idle, Between, Before
    <3>3. Words(s) = [words |-> <<>>, open |-> FALSE]
      BY <3>1, <3>2, WordsOf
    <3>4. ~(Len(<<>>) > MaxArgs - 1)
      BY WordsAssumption
    <3> QED
      BY <3>3, <3>4 DEF Tokenize
  <2>3. ~(argv # <<>> /\ ~(s # <<>> /\ s[Len(s)] = SP))
    BY <2>1, <2>2
  <2> HIDE DEF t
  <2> QED
    BY <2>3, SplitIs DEF t
<1>6. /\ t.status = "tooMany" => help = Shows("tooMany")
      /\ t.status # "tooMany" /\ walk.rc # "ok" => help = Shows(walk.rc)
      /\ t.status # "tooMany" /\ walk.rc = "ok" /\ walk.args => help = Shows("cr")
      /\ t.status # "tooMany" /\ walk.rc = "ok" /\ ~walk.args =>
           help = IF found = <<>> THEN Shows("cr") ELSE Listed(argv, found)
  <2> DEFINE x == Split(s)
  <2>1. x.status = t.status /\ x.path = argv /\ x.partial = <<>>
    BY <1>5
  <2>2. LET w == Walk(x.path)
            f == Matches(x.partial, w.level, x.path = <<>>)
        IN  /\ x.status = "tooMany" => help = Shows("tooMany")
            /\ x.status # "tooMany" /\ w.rc # "ok" => help = Shows(w.rc)
            /\ x.status # "tooMany" /\ w.rc = "ok" /\ w.args => help = Shows("cr")
            /\ x.status # "tooMany" /\ w.rc = "ok" /\ ~w.args =>
                 help = IF f = <<>> THEN Shows(IF x.partial # <<>> THEN "unknown" ELSE "cr")
                        ELSE Listed(x.path, f)
    BY HelpWordsIs
  <2> HIDE DEF x, t, help
  <2> QED
    BY <2>1, <2>2
<1> HIDE DEF t
<1>7. /\ enter.argv = argv
      /\ t.status # "ok" => enter.kind = t.status
      /\ t.status = "ok" =>
           enter.kind = IF argv = <<>> THEN "nothing" ELSE ExecuteCommand(argv).kind
  <2>1. NoFilter.type # "invalid"
    BY DEF NoFilter
  <2> QED
    BY <1>3, <1>4, <2>1, ExecuteWordsIs
<1> HIDE DEF enter, help, argv
<1>8. CASE t.status = "tooMany"
  <2>1. help.kind = "tooMany" /\ enter.kind = "tooMany"
    BY <1>6, <1>7, <1>8, ShowsIs
  <2> QED
    BY <2>1 DEF help, enter
<1>9. CASE t.status = "ok" /\ argv = <<>>
  <2>1. walk.rc = "ok" /\ ~walk.args
    BY <1>9 DEF Walk
  <2>2. help = IF found = <<>> THEN Shows("cr") ELSE Listed(argv, found)
    BY <1>6, <1>9, <2>1
  <2> HIDE DEF found
  <2>3. help.kind \in {"cr", "list"} /\ enter.kind = "nothing"
    BY <1>7, <1>9, <2>2, ShowsIs, ListedIs
  <2> QED
    BY <2>3 DEF help, enter, Errors
<1>10. CASE t.status = "ok" /\ argv # <<>>
  <2> DEFINE r == Named(argv)[Halt(argv)]
             stops == r.rc = "ok" /\ StopsAt(r)
  <2>1. walk = [rc |-> r.rc, level |-> r.node, args |-> stops]
    BY <1>10, WalkIs
  <2>2. r \in Verdicts
    BY <1>4, <1>10, HaltIs
  <2>3. /\ r.rc # "ok" => ExecuteCommand(argv).kind = r.rc
        /\ r.rc = "ok" => ExecuteCommand(argv).kind \notin Errors
    BY <1>4, <1>10, ExecuteCommandTells
  <2>4. enter.kind = ExecuteCommand(argv).kind
    BY <1>7, <1>10
  <2>5. stops => ~HasChildren(r.node)
    BY DEF StopsAt
  <2> HIDE DEF r, stops, walk
  <2>6. walk.rc = r.rc /\ walk.level = r.node /\ walk.args = stops
    BY <2>1
  <2>7. CASE r.rc # "ok"
    <3>1. help.kind = r.rc /\ enter.kind = r.rc /\ r.rc \in {"unknown", "ambiguous"}
      <4>1. help = Shows(walk.rc)
        BY <1>6, <1>10, <2>6, <2>7
      <4>2. r.rc \in {"unknown", "ambiguous"}
        BY <2>2, <2>7 DEF Verdicts
      <4> QED
        BY <2>3, <2>4, <2>6, <2>7, <4>1, <4>2, ShowsIs
    <3> QED
      BY <3>1 DEF help, enter
  <2>8. CASE r.rc = "ok" /\ stops
    <3>1. help.kind = "cr"
      BY <1>6, <1>10, <2>6, <2>8, ShowsIs
    <3>2. enter.kind \notin Errors
      BY <2>3, <2>4, <2>8
    <3>3. Selectable(Walk(enter.argv).level) = {}
      BY <1>7, <2>5, <2>6, <2>8 DEF HasChildren, walk
    <3> QED
      BY <3>1, <3>2, <3>3 DEF help, enter, Errors
  <2>9. CASE r.rc = "ok" /\ ~stops
    <3>1. help = IF found = <<>> THEN Shows("cr") ELSE Listed(argv, found)
      BY <1>6, <1>10, <2>6, <2>9
    <3>2. found = <<>> => Found(walk.level, <<>>) = {}
      BY MatchesAre
    <3>3. found = <<>> => \A h \in Selectable(walk.level) : Node(h).hidden
      BY <3>2, NothingFollows
    <3> HIDE DEF found
    <3>4. help.kind \in {"cr", "list"} /\ (help.kind = "cr" => found = <<>>)
      BY <3>1, ShowsIs, ListedIs
    <3>5. enter.kind \notin Errors
      BY <2>3, <2>4, <2>9
    <3>6. Walk(enter.argv).level = walk.level
      BY <1>7 DEF walk
    <3> QED
      BY <3>3, <3>4, <3>5, <3>6 DEF help, enter, Errors
  <2> QED
    BY <2>7, <2>8, <2>9
<1> QED
  BY <1>4, <1>8, <1>9, <1>10

-----------------------------------------------------------------------------
(* The tree does not change                                                *)

LEMMA NodeKept ==
  ASSUME menu' = menu
  PROVE  /\ \A h : Node(h)' = Node(h) /\ Keywords(h)' = Keywords(h)
         /\ \A level : Selectable(level)' = Selectable(level)
         /\ \A h, word : Exact(h, word)' <=> Exact(h, word)
         /\ \A h : HasChildren(h)' <=> HasChildren(h)
<1>1. \A h : Node(h)' = Node(h)
  BY DEF Node
<1>2. \A h : Keywords(h)' = Keywords(h)
  BY <1>1 DEF Keywords
<1>3. \A level : Selectable(level)' = Selectable(level)
  BY <1>1 DEF Selectable
<1>4. \A h, word : Exact(h, word)' <=> Exact(h, word)
  BY <1>2 DEF Exact
<1>5. \A h : HasChildren(h)' <=> HasChildren(h)
  BY <1>3 DEF HasChildren
<1> QED
  BY <1>1, <1>2, <1>3, <1>4, <1>5

TextAt(keywords, word) ==
  LET same == {k \in 2 .. Len(keywords) : SameWord(keywords[k], word)}
      begun == {k \in 1 .. Len(keywords) : StartsWith(keywords[k], word)}
      k == First(same, First(begun, 0))
  IN  IF k = 0 THEN <<>> ELSE keywords[k]

LEMMA PrefixTextNow == \A h, word : PrefixText(h, word) = TextAt(Keywords(h), word)
  BY DEF PrefixText, TextAt

LEMMA PrefixTextNext == (\A h, word : PrefixText(h, word) = TextAt(Keywords(h), word))'
  BY PrefixTextNow, PTL

LEMMA PrefixTextKept ==
  ASSUME menu' = menu
  PROVE  \A h, word : PrefixText(h, word)' = PrefixText(h, word)
<1>1. \A h, word : PrefixText(h, word)' = TextAt(Keywords(h)', word)
  BY PrefixTextNext
<1> QED
  BY <1>1, PrefixTextNow, NodeKept

\* Resolve, from the commands that the word selects exactly and those that it begins.
ExactBelow(level, word) == {h \in IF word = <<>> THEN {} ELSE Selectable(level) : Exact(h, word)}
BegunBelow(level, word) ==
  {h \in IF word = <<>> THEN {} ELSE Selectable(level) :
     ~Node(h).hidden /\ PrefixText(h, word) # <<>>}

Verdict(exact, begun) ==
  CASE exact # {} -> [rc |-> "ok", node |-> First(exact, 0)]
    [] exact = {} /\ begun = {} -> [rc |-> "unknown", node |-> NO_CMD]
    [] exact = {} /\ Cardinality(begun) = 1 -> [rc |-> "ok", node |-> First(begun, 0)]
    [] OTHER -> [rc |-> "ambiguous", node |-> NO_CMD]

LEMMA ResolveNow ==
  \A level, word : Resolve(level, word) = Verdict(ExactBelow(level, word), BegunBelow(level, word))
  BY DEF Resolve, Verdict, ExactBelow, BegunBelow

LEMMA ResolveNext ==
  (\A level, word :
     Resolve(level, word) = Verdict(ExactBelow(level, word), BegunBelow(level, word)))'
  BY ResolveNow, PTL

LEMMA ResolveKept ==
  ASSUME menu' = menu
  PROVE  \A level, word : Resolve(level, word)' = Resolve(level, word)
<1>3. \A level, word :
        Resolve(level, word)' = Verdict(ExactBelow(level, word)', BegunBelow(level, word)')
  BY ResolveNext
<1>4. \A level, word : ExactBelow(level, word)' = ExactBelow(level, word)
  BY NodeKept DEF ExactBelow
<1>5. \A level, word : BegunBelow(level, word)' = BegunBelow(level, word)
  BY NodeKept, PrefixTextKept DEF BegunBelow
<1> QED
  BY <1>3, <1>4, <1>5, ResolveNow

LEMMA ParentKept ==
  ASSUME menu' = menu
  PROVE  /\ \A level, word : HasAnyMatch(level, word)' <=> HasAnyMatch(level, word)
         /\ \A word : FirstWordParent(word)' = FirstWordParent(word)
<1>1. \A level, word : HasAnyMatch(level, word)' <=> HasAnyMatch(level, word)
  BY ResolveKept DEF HasAnyMatch
<1>2. \A word : FirstWordParent(word)' = FirstWordParent(word)
  BY <1>1 DEF FirstWordParent
<1> QED
  BY <1>1, <1>2

LEMMA NamedNow ==
  \A argv, f : menu \in Menus /\ Len(argv) \in Nat /\ f = Named(argv) =>
    /\ f \in [0 .. Len(argv) -> Verdicts]
    /\ f[0] = [rc |-> "ok", node |-> FirstWordParent(argv[1])]
    /\ \A n \in 1 .. Len(argv) : f[n] = Resolve(f[n - 1].node, argv[n])
  BY NamedIs

LEMMA NamedNext ==
  (\A argv, f : menu \in Menus /\ Len(argv) \in Nat /\ f = Named(argv) =>
    /\ f \in [0 .. Len(argv) -> Verdicts]
    /\ f[0] = [rc |-> "ok", node |-> FirstWordParent(argv[1])]
    /\ \A n \in 1 .. Len(argv) : f[n] = Resolve(f[n - 1].node, argv[n]))'
  BY NamedNow, PTL

LEMMA NamedKept ==
  ASSUME menu' = menu, menu \in Menus, NEW argv, Len(argv) \in Nat
  PROVE  Named(argv)' = Named(argv)
<1> DEFINE N == Len(argv)
<1>1. PICK f : f = Named(argv)
  OBVIOUS
<1>2. PICK g : g = Named(argv)'
  OBVIOUS
<1>3. /\ f \in [0 .. N -> Verdicts]
      /\ f[0] = [rc |-> "ok", node |-> FirstWordParent(argv[1])]
      /\ \A n \in 1 .. N : f[n] = Resolve(f[n - 1].node, argv[n])
  BY <1>1, NamedNow
<1>4. /\ g \in [0 .. N -> Verdicts]
      /\ g[0] = [rc |-> "ok", node |-> FirstWordParent(argv[1])']
      /\ \A n \in 1 .. N : g[n] = Resolve(g[n - 1].node, argv[n])'
  BY <1>2, NamedNext
<1> HIDE DEF N
<1>5. g[0] = f[0] /\ \A n \in 1 .. N : g[n] = Resolve(g[n - 1].node, argv[n])
  BY <1>3, <1>4, ParentKept, ResolveKept
<1> DEFINE T == {n \in 0 .. N : g[n] = f[n]}
<1>6. N \in Nat
  BY DEF N
<1>7. 0 \in T
  BY <1>5, <1>6
<1>8. ASSUME NEW n \in 1 .. N, n - 1 \in T PROVE n \in T
  BY <1>3, <1>5, <1>6, <1>8
<1> HIDE DEF T
<1>9. \A n \in 0 .. N : n \in T
  BY <1>6, <1>7, <1>8, Induction
<1>10. \A n \in 0 .. N : g[n] = f[n]
  BY <1>9 DEF T
<1>11. g = f
  <2>1. f = [n \in 0 .. N |-> f[n]] /\ g = [n \in 0 .. N |-> g[n]]
    BY <1>3, <1>4
  <2> QED
    BY <1>10, <2>1
<1> QED
  BY <1>1, <1>2, <1>11

LEMMA SoundKept ==
  ASSUME menu' = menu, menu \in Menus, NEW r, Sound(r)
  PROVE  Sound(r)'
<1> SUFFICES ASSUME NEW k \in 1 .. Len(r.offers)
    PROVE  /\ r.path \in Seq(Seq(Letters))
           /\ LET words == Append(r.path, r.offers[k].text)
              IN  Named(words)'[Len(words)] = [rc |-> "ok", node |-> r.offers[k].node]
  BY DEF Sound
<1> DEFINE text == r.offers[k].text
           words == Append(r.path, text)
           S == Seq(Letters) \cup {text}
<1>1. r.path \in Seq(Seq(Letters))
      /\ Named(words)[Len(words)] = [rc |-> "ok", node |-> r.offers[k].node]
  BY DEF Sound
<1>2. Len(words) \in Nat
  <2>1. Seq(Letters) \subseteq S /\ text \in S
    OBVIOUS
  <2> HIDE DEF S, text
  <2>2. r.path \in Seq(S)
    BY <1>1, <2>1, SeqMonotonic
  <2>3. words \in Seq(S)
    BY <2>1, <2>2, AppendProperties
  <2> QED
    BY <2>3, LenProperties
<1>3. PICK w : w = words
  OBVIOUS
<1>4. Named(w)' = Named(w)
  BY <1>2, <1>3, NamedKept
<1> QED
  BY <1>1, <1>3, <1>4

-----------------------------------------------------------------------------
(* '?' in the next state                                                   *)

LEMMA OffersNone ==
  ASSUME menu \in Menus, NEW S, S \subseteq 1 .. Len(menu.nodes), NEW word
  PROVE  Offers(S, word) = <<>> <=> S = {}
<1> DEFINE o == Offers(S, word)
           R == OffersOf(S, word)
<1>1. o \in Seq(R) /\ (o = <<>> => S = {})
  BY OffersAre
<1>2. S = {} => R = {}
  BY DEF OffersOf
<1> HIDE DEF o, R
<1>3. ASSUME S = {} PROVE o = <<>>
  <2>1. Len(o) \in Nat /\ \A i \in 1 .. Len(o) : o[i] \in R
    BY <1>1, LenProperties, ElementOfSeq
  <2>2. Len(o) = 0
    <3>1. Len(o) > 0 => 1 \in 1 .. Len(o)
      BY <2>1
    <3> QED
      BY <1>2, <1>3, <2>1, <3>1
  <2> QED
    BY <1>1, <2>2, EmptySeq
<1> QED
  BY <1>1, <1>3 DEF o

RootOnly(level, word) == {h \in Found(ROOT, word) : ~HasAnyMatch(level, PrefixText(h, word))}

NoneFound(level, word, withRoot) ==
  Found(level, word) = {} /\ (withRoot /\ level # ROOT => RootOnly(level, word) = {})

LEMMA MatchesNone ==
  ASSUME menu \in Menus, NEW level, NEW word, NEW withRoot
  PROVE  Matches(word, level, withRoot) = <<>> <=> NoneFound(level, word, withRoot)
<1> DEFINE A == Found(level, word)
           B == RootOnly(level, word)
           a == Offers(A, word)
           b == IF withRoot /\ level # ROOT THEN Offers(B, word) ELSE <<>>
<1>1. A \subseteq 1 .. Len(menu.nodes) /\ B \subseteq 1 .. Len(menu.nodes)
  BY SelectableIs DEF Found, RootOnly
<1>2. Matches(word, level, withRoot) = a \o b
  BY DEF Matches, RootOnly
<1>3. (a = <<>> <=> A = {}) /\ (Offers(B, word) = <<>> <=> B = {})
  BY <1>1, OffersNone
<1>4. (\E S : a \in Seq(S)) /\ (\E S : Offers(B, word) \in Seq(S))
  BY <1>1, OffersAre
<1>5. \E S : b \in Seq(S)
  BY <1>4, EmptySeq
<1>6. b = <<>> <=> (withRoot /\ level # ROOT => B = {})
  BY <1>3
<1> HIDE DEF a, b
<1>7. a \o b = <<>> <=> a = <<>> /\ b = <<>>
  BY <1>4, <1>5, ConcatEmptySeq, ConcatProperties
<1> QED
  BY <1>2, <1>3, <1>6, <1>7 DEF NoneFound

LEMMA FoundKept ==
  ASSUME menu' = menu
  PROVE  \A level, word : Found(level, word)' = Found(level, word)
                          /\ RootOnly(level, word)' = RootOnly(level, word)
<1>1. \A level, word : Found(level, word)' = Found(level, word)
  BY NodeKept, PrefixTextKept DEF Found
<1>2. \A level, word : RootOnly(level, word)' = RootOnly(level, word)
  BY <1>1, ParentKept, PrefixTextKept DEF RootOnly
<1> QED
  BY <1>1, <1>2

LEMMA NoneFoundKept ==
  ASSUME menu' = menu
  PROVE  \A level, word, withRoot :
           NoneFound(level, word, withRoot)' <=> NoneFound(level, word, withRoot)
  BY FoundKept DEF NoneFound

StopIn(argv, f) == First({d \in 1 .. Len(argv) : StopsAt(f[d])}, Len(argv))

LEMMA StopsKept ==
  ASSUME menu' = menu
  PROVE  \A r : StopsAt(r)' <=> StopsAt(r)
  BY NodeKept DEF StopsAt

LEMMA StopInKept ==
  ASSUME menu' = menu
  PROVE  \A argv, f : StopIn(argv, f)' = StopIn(argv, f)
<1> DEFINE S(argv, f) == {d \in 1 .. Len(argv) : StopsAt(f[d])}
<1>1. \A argv, f : S(argv, f)' = S(argv, f)
  BY StopsKept
<1> HIDE DEF S
<1>2. \A argv, f : StopIn(argv, f) = First(S(argv, f), Len(argv))
  BY DEF StopIn, S
<1>3. \A argv, f : StopIn(argv, f)' = First(S(argv, f)', Len(argv))
  BY DEF StopIn, S
<1> QED
  BY <1>1, <1>2, <1>3

LEMMA WalkNow ==
  \A argv : argv # <<>> =>
    \E f, r : /\ f = Named(argv) /\ r = f[StopIn(argv, f)]
              /\ Walk(argv).rc = r.rc /\ Walk(argv).level = r.node
              /\ (Walk(argv).args <=> r.rc = "ok" /\ StopsAt(r))
<1> SUFFICES ASSUME NEW argv, argv # <<>>
    PROVE  \E f, r : /\ f = Named(argv) /\ r = f[StopIn(argv, f)]
                     /\ Walk(argv).rc = r.rc /\ Walk(argv).level = r.node
                     /\ (Walk(argv).args <=> r.rc = "ok" /\ StopsAt(r))
  OBVIOUS
<1>1. PICK f, r : f = Named(argv) /\ r = f[Halt(argv)]
  OBVIOUS
<1>2. r = f[StopIn(argv, f)]
  BY <1>1 DEF Halt, StopIn
<1> DEFINE stops == r.rc = "ok" /\ StopsAt(r)
<1>3. Walk(argv) = [rc |-> r.rc, level |-> r.node, args |-> stops]
  BY <1>1, WalkIs
<1>4. stops \in BOOLEAN
  OBVIOUS
<1> HIDE DEF stops
<1>5. Walk(argv).rc = r.rc /\ Walk(argv).level = r.node /\ (Walk(argv).args <=> stops)
  BY <1>3, <1>4
<1> QED
  BY <1>1, <1>2, <1>5 DEF stops

LEMMA WalkNext ==
  (\A argv : argv # <<>> =>
     \E f, r : /\ f = Named(argv) /\ r = f[StopIn(argv, f)]
               /\ Walk(argv).rc = r.rc /\ Walk(argv).level = r.node
               /\ (Walk(argv).args <=> r.rc = "ok" /\ StopsAt(r)))'
  BY WalkNow, PTL

LEMMA WalkKept ==
  ASSUME menu' = menu, menu \in Menus, NEW argv \in Seq(Seq(Letters))
  PROVE  /\ Walk(argv)'.rc = Walk(argv).rc /\ Walk(argv)'.level = Walk(argv).level
         /\ Walk(argv)'.args <=> Walk(argv).args
<1>1. CASE argv = <<>>
  <2>1. Walk(<<>>) = [rc |-> "ok", level |-> menu.context, args |-> FALSE]
    BY DEF Walk
  <2>2. Walk(<<>>)' = [rc |-> "ok", level |-> menu'.context, args |-> FALSE]
    BY DEF Walk
  <2> QED
    BY <1>1, <2>1, <2>2
<1>2. CASE argv # <<>>
  <2>1. PICK f, r : /\ f = Named(argv) /\ r = f[StopIn(argv, f)]
                    /\ Walk(argv).rc = r.rc /\ Walk(argv).level = r.node
                    /\ (Walk(argv).args <=> r.rc = "ok" /\ StopsAt(r))
    BY <1>2, WalkNow
  <2>2. PICK g, q : /\ g = Named(argv)' /\ q = g[StopIn(argv, g)']
                    /\ Walk(argv)'.rc = q.rc /\ Walk(argv)'.level = q.node
                    /\ (Walk(argv)'.args <=> q.rc = "ok" /\ StopsAt(q)')
    BY <1>2, WalkNext
  <2>3. f = g
    BY <2>1, <2>2, NamedKept, LenProperties
  <2>4. r = q /\ (StopsAt(q)' <=> StopsAt(r))
    BY <2>1, <2>2, <2>3, StopInKept, StopsKept
  <2> QED
    BY <2>1, <2>2, <2>4
<1> QED
  BY <1>1, <1>2

\* What '?' shows for words, in a word.
HelpSays(head, kind) ==
  LET s == Split(head)
      walk == Walk(s.path)
  IN  /\ s.status = "tooMany" => kind = "tooMany"
      /\ s.status # "tooMany" /\ walk.rc # "ok" => kind = walk.rc
      /\ s.status # "tooMany" /\ walk.rc = "ok" /\ walk.args => kind = "cr"
      /\ s.status # "tooMany" /\ walk.rc = "ok" /\ ~walk.args =>
           /\ NoneFound(walk.level, s.partial, s.path = <<>>) =>
                kind = IF s.partial # <<>> THEN "unknown" ELSE "cr"
           /\ ~NoneFound(walk.level, s.partial, s.path = <<>>) => kind = "list"

LEMMA HelpSaysNow == \A head : menu \in Menus => HelpSays(head, HelpWords(head).kind)
<1> SUFFICES ASSUME NEW head, menu \in Menus PROVE HelpSays(head, HelpWords(head).kind)
  OBVIOUS
<1> DEFINE s == Split(head)
           walk == Walk(s.path)
           found == Matches(s.partial, walk.level, s.path = <<>>)
           none == NoneFound(walk.level, s.partial, s.path = <<>>)
           help == HelpWords(head)
<1>1. /\ s.status = "tooMany" => help = Shows("tooMany")
      /\ s.status # "tooMany" /\ walk.rc # "ok" => help = Shows(walk.rc)
      /\ s.status # "tooMany" /\ walk.rc = "ok" /\ walk.args => help = Shows("cr")
      /\ s.status # "tooMany" /\ walk.rc = "ok" /\ ~walk.args =>
           help = IF found = <<>> THEN Shows(IF s.partial # <<>> THEN "unknown" ELSE "cr")
                  ELSE Listed(s.path, found)
  BY HelpWordsIs
<1>2. found = <<>> <=> none
  BY MatchesNone
<1> HIDE DEF found, none, help, walk
<1>3. /\ s.status = "tooMany" => help.kind = "tooMany"
      /\ s.status # "tooMany" /\ walk.rc # "ok" => help.kind = walk.rc
      /\ s.status # "tooMany" /\ walk.rc = "ok" /\ walk.args => help.kind = "cr"
      /\ s.status # "tooMany" /\ walk.rc = "ok" /\ ~walk.args =>
           /\ none => help.kind = IF s.partial # <<>> THEN "unknown" ELSE "cr"
           /\ ~none => help.kind = "list"
  BY <1>1, <1>2, ShowsIs, ListedIs
<1> QED
  BY <1>3 DEF HelpSays, help, none, walk

LEMMA HelpSaysNext == (\A head : menu \in Menus => HelpSays(head, HelpWords(head).kind))'
  BY HelpSaysNow, PTL

LEMMA HelpSaysOne ==
  \A head, k1, k2 : HelpSays(head, k1) /\ HelpSays(head, k2) => k1 = k2
  BY DEF HelpSays

LEMMA HelpKept ==
  ASSUME menu' = menu, menu \in Menus, NEW head \in Seq(Letters)
  PROVE  HelpWords(head)'.kind = HelpWords(head).kind
<1> DEFINE s == Split(head)
           walk == Walk(s.path)
           none == NoneFound(walk.level, s.partial, s.path = <<>>)
<1>1. PICK k1 : k1 = HelpWords(head).kind /\ HelpSays(head, k1)
  BY HelpSaysNow
<1>2. PICK k2 : k2 = HelpWords(head)'.kind /\ HelpSays(head, k2)'
  BY HelpSaysNext
<1>3. HelpSays(head, k2)
  <2>1. s' = s /\ s.path \in Seq(Seq(Letters))
    BY SplitTyped DEF Split, Tokenize, Words
  <2> QED
   BY <1>2, <2>1, WalkKept, NoneFoundKept DEF HelpSays
<1> QED
  BY <1>1, <1>2, <1>3, HelpSaysOne

-----------------------------------------------------------------------------
(* The line and the cursor                                                 *)

LineTyped == menu \in Menus /\ line \in Seq(Letters) /\ cursor \in 0 .. Len(line)

LEMMA CutAt ==
  ASSUME NEW s \in Seq(Letters), NEW n \in 0 .. Len(s)
  PROVE  /\ Len(s) \in Nat
         /\ UpTo(s, n) \in Seq(Letters) /\ Len(UpTo(s, n)) = n
         /\ Behind(s, n) \in Seq(Letters) /\ Len(Behind(s, n)) = Len(s) - n
<1>1. Len(s) \in Nat
  BY LenProperties
<1>2. UpTo(s, n) \in Seq(Letters) /\ Len(UpTo(s, n)) = n
  BY PrefixIs DEF UpTo
<1>3. Behind(s, n) \in Seq(Letters)
  BY CutIs DEF Behind
<1>4. n + 1 \in Int /\ Len(s) \in Int /\ \A i \in n + 1 .. Len(s) : s[i] \in Letters
  BY <1>1, ElementOfSeq
<1>5. Len(SubSeq(s, n + 1, Len(s))) = IF n + 1 <= Len(s) THEN Len(s) - (n + 1) + 1 ELSE 0
  BY <1>4, SubSeqProperties
<1>6. Len(Behind(s, n)) = Len(s) - n
  <2> DEFINE L == Len(s)
             B == Len(SubSeq(s, n + 1, Len(s)))
  <2>1. L \in Nat /\ n \in 0 .. L /\ B = IF n + 1 <= L THEN L - (n + 1) + 1 ELSE 0
    BY <1>1, <1>5
  <2> HIDE DEF L, B
  <2>2. B = L - n
    BY <2>1
  <2> QED
    BY <2>2 DEF L, B, Behind
<1> QED
  BY <1>1, <1>2, <1>3, <1>6

LEMMA TabAtIs ==
  ASSUME LineTyped
  PROVE  TabAt \in 0 .. Len(line)
<1> DEFINE rest == Behind(line, cursor)
           S == {i \in 1 .. Len(rest) : rest[i] \in {SP, PIPE} /\ ~Quoted(Scanned(rest)[i - 1])}
           N == Len(line)
           M == Len(rest)
           end == First(S, M + 1)
<1>1. N \in Nat /\ M = N - cursor /\ cursor \in 0 .. N
  BY CutAt DEF LineTyped
<1>2. TabAt = IF QuoteOpen(line, cursor) THEN cursor ELSE cursor + end - 1
  BY DEF TabAt
<1>3. S \subseteq 1 .. M
  OBVIOUS
<1> HIDE DEF N, M
<1>4. M \in Nat
  BY <1>1
<1>5. S \subseteq Nat
  BY <1>3, <1>4
<1> HIDE DEF S
<1>6. (S = {} => end = M + 1) /\ (S # {} => end \in S)
  BY <1>5, FirstIs
<1> HIDE DEF end
<1>7. end \in 1 .. M + 1
  <2>1. CASE S = {}
    <3>1. end = M + 1
      BY <1>6, <2>1
    <3> QED
      BY <1>4, <3>1
  <2>2. CASE S # {}
    <3>1. end \in 1 .. M
      BY <1>3, <1>6, <2>2
    <3> QED
      BY <1>4, <3>1
  <2> QED
    BY <2>1, <2>2
<1>8. cursor + end - 1 \in 0 .. N
  BY <1>1, <1>4, <1>7
<1> QED
  BY <1>1, <1>2, <1>8 DEF N

\* What Tab leaves of a typed line.
LEMMA TabIs ==
  ASSUME LineTyped, Tab
  PROVE  LineTyped' /\ shown'.key = "tab" /\ Sound(shown')
<1> DEFINE Done(head, pipe) ==
             IF pipe = 0 THEN TabWords(head) ELSE TabFilter(head, Behind(head, pipe))
<1>1. PICK at \in {TabAt}, head \in {UpTo(line, TabAt)} :
        \E done \in {Done(head, FindPipe(head))} :
          /\ line' = done.head \o Behind(line, at)
          /\ cursor' = Len(done.head)
          /\ shown' = By("tab", done.shown)
          /\ UNCHANGED menu
  BY DEF Tab
<1>2. PICK done \in {Done(head, FindPipe(head))} :
          /\ line' = done.head \o Behind(line, at)
          /\ cursor' = Len(done.head)
          /\ shown' = By("tab", done.shown)
          /\ UNCHANGED menu
  BY <1>1
<1>3. at \in 0 .. Len(line) /\ line \in Seq(Letters) /\ menu \in Menus
  BY TabAtIs DEF LineTyped
<1>4. head \in Seq(Letters) /\ Behind(line, at) \in Seq(Letters)
  BY <1>3, CutAt
<1>5. Completed(done)
  <2>1. CASE FindPipe(head) = 0
    <3>1. done = TabWords(head)
      BY <1>2, <2>1
    <3> QED
      BY <1>3, <1>4, <3>1, TabWordsIs
  <2>2. CASE FindPipe(head) # 0
    <3>1. done = TabFilter(head, Behind(head, FindPipe(head)))
      BY <1>2, <2>2
    <3>2. Behind(head, FindPipe(head)) \in Seq(Letters)
      BY <1>4, FindPipeIs, CutAt
    <3> QED
      BY <1>4, <3>1, <3>2, TabFilterIs
  <2> QED
    BY <2>1, <2>2
<1>6. done.head \in Seq(Letters) /\ Sound(done.shown)
  BY <1>5 DEF Completed
<1>7. shown'.key = "tab" /\ Sound(shown')
  <2>1. PICK r : r = By("tab", done.shown)
    OBVIOUS
  <2>2. r.key = "tab" /\ r.path = done.shown.path /\ r.offers = done.shown.offers
    BY <2>1, ByIs
  <2>3. Sound(r)
    BY <1>6, <2>2, SoundAs
  <2> QED
    BY <1>2, <2>1, <2>2, <2>3
<1>8. LineTyped'
  <2>1. /\ Len(done.head) \in Nat /\ Len(Behind(line, at)) \in Nat /\ line' \in Seq(Letters)
        /\ Len(line') = Len(done.head) + Len(Behind(line, at))
    BY <1>2, <1>4, <1>6, ConcatProperties, LenProperties
  <2>2. cursor' \in 0 .. Len(line')
    BY <1>2, <2>1
  <2> QED
    BY <1>2, <1>3, <2>1, <2>2 DEF LineTyped
<1> QED
  BY <1>7, <1>8

LEMMA InsertIs ==
  ASSUME LineTyped, NEW c \in Chars, Insert(c)
  PROVE  LineTyped' /\ shown'.key = "none"
<1> DEFINE a == UpTo(line, cursor)
           b == Behind(line, cursor)
<1>1. /\ a \in Seq(Letters) /\ Len(a) = cursor /\ b \in Seq(Letters) /\ Len(b) = Len(line) - cursor
      /\ Len(line) \in Nat /\ cursor \in 0 .. Len(line) /\ menu' = menu /\ menu \in Menus
  BY CutAt DEF LineTyped, Insert
<1>2. \/ shown' = Shows("bell") /\ UNCHANGED <<line, cursor>>
      \/ line' = a \o <<c>> \o b /\ cursor' = cursor + 1 /\ shown' = Nothing
  BY DEF Insert
<1> HIDE DEF a, b
<1>3. CASE shown' = Shows("bell") /\ UNCHANGED <<line, cursor>>
  <2>1. shown'.key = "none"
    BY <1>3, ShowsIs
  <2>2. line' = line /\ cursor' = cursor
    BY <1>3
  <2>3. LineTyped'
    BY <1>1, <2>2 DEF LineTyped
  <2> QED
    BY <2>1, <2>3
<1>4. CASE line' = a \o <<c>> \o b /\ cursor' = cursor + 1 /\ shown' = Nothing
  <2> DEFINE d == <<c>>
             e == a \o d
  <2>1. d \in Seq(Letters) /\ Len(d) = 1
    BY DEF Letters
  <2> HIDE DEF d
  <2>2. e \in Seq(Letters) /\ Len(e) = cursor + 1
    <3>1. a \in Seq(Letters) /\ d \in Seq(Letters)
      BY <1>1, <2>1
    <3>2. a \o d \in Seq(Letters) /\ Len(a \o d) = Len(a) + Len(d)
      BY <3>1, ConcatProperties
    <3> QED
      BY <1>1, <2>1, <3>2
  <2>3. line' = e \o b
    BY <1>4 DEF d
  <2> HIDE DEF e
  <2>4. line' \in Seq(Letters) /\ Len(line') = Len(line) + 1
    BY <1>1, <2>2, <2>3, ConcatProperties
  <2>5. shown'.key = "none" /\ cursor' = cursor + 1
    BY <1>4, ShowsIs
  <2>6. cursor' \in 0 .. Len(line')
    BY <1>1, <2>4, <2>5
  <2> QED
    BY <1>1, <2>4, <2>5, <2>6 DEF LineTyped
<1> QED
  BY <1>2, <1>3, <1>4

-----------------------------------------------------------------------------
(* '?', 'help', Tab and Enter agree                                        *)

Answering == {"help", "tab", "enter"}

OffersHold == shown.key \in Answering => Sound(shown)

HelpHolds ==
  shown.key = "help" /\ cursor = Len(line) /\ FindPipe(line) = 0 =>
    ~QuoteOpen(line, cursor) /\ shown.kind = HelpWords(line).kind

\* What holds between two keys: the line is typed, what was offered selects its command,
\* and what '?' said is still what it says.
AgreesInv == LineTyped /\ OffersHold /\ HelpHolds

LEMMA AgreesIs == AgreesInv => HelpAgreesWithEnter
<1> SUFFICES ASSUME AgreesInv PROVE HelpAgreesWithEnter
  OBVIOUS
<1>1. shown.key \in Answering =>
        \A k \in 1 .. Len(shown.offers) :
          \A words \in {Append(shown.path, shown.offers[k].text)} :
            Named(words)[Len(words)] = [rc |-> "ok", node |-> shown.offers[k].node]
  BY DEF AgreesInv, OffersHold, Sound
<1>2. ASSUME shown.key = "help", cursor = Len(line), line = <<>> \/ Last(line) = SP,
             FindPipe(line) = 0
      PROVE  \A enter \in {Execute(line)} :
               /\ {enter.kind, shown.kind} \cap Errors # {} => shown.kind = enter.kind
               /\ shown.kind = "cr" /\ enter.kind = "incomplete" =>
                    \A h \in Selectable(Walk(enter.argv).level) : Node(h).hidden
  <2>1. menu \in Menus /\ line \in Seq(Letters) /\ shown.kind = HelpWords(line).kind
        /\ ~QuoteOpen(line, cursor)
    BY <1>2 DEF AgreesInv, LineTyped, HelpHolds
  <2>2. BehindWords(line)
    <3>1. SubSeq(line, 1, cursor) = line
      BY <1>2, <2>1, PrefixIs
    <3> QED
      BY <1>2, <2>1, <3>1 DEF BehindWords, QuoteOpen
  <2> QED
    BY <2>1, <2>2, HelpTells
<1> QED
  BY <1>1, <1>2 DEF HelpAgreesWithEnter, Answering, Errors

LEMMA HelpHoldsKept ==
  ASSUME LineTyped, UNCHANGED <<menu, line, cursor>>, NEW kind, shown'.kind = kind,
         cursor = Len(line) /\ FindPipe(line) = 0 =>
           ~QuoteOpen(line, cursor) /\ kind = HelpWords(line).kind
  PROVE  HelpHolds'
<1>1. PICK l : l = line
  OBVIOUS
<1>2. HelpWords(l)'.kind = HelpWords(l).kind
  BY <1>1, HelpKept DEF LineTyped
<1>3. HelpWords(l)' = HelpWords(line)'
  BY <1>1
<1>4. line' = line /\ cursor' = cursor /\ (QuoteOpen(line, cursor)' <=> QuoteOpen(line, cursor))
      /\ FindPipe(line)' = FindPipe(line)
  OBVIOUS
<1> QED
  BY <1>1, <1>2, <1>3, <1>4 DEF HelpHolds

LEMMA QuietIs ==
  ASSUME shown'.key \notin Answering
  PROVE  OffersHold' /\ HelpHolds'
  BY DEF OffersHold, HelpHolds, Answering

LEMMA OffersNext ==
  ASSUME menu' = menu, menu \in Menus, NEW key, NEW r, Sound(r), shown' = By(key, r)
  PROVE  OffersHold'
<1>1. PICK q : q = shown'
  OBVIOUS
<1>2. q.path = r.path /\ q.offers = r.offers
  BY <1>1, ByIs
<1>3. Sound(q)
  BY <1>2, SoundAs
<1>4. Sound(q)'
  BY <1>3, SoundKept
<1> QED
  BY <1>1, <1>4 DEF OffersHold

LEMMA HelpNext ==
  ASSUME LineTyped, Help
  PROVE  OffersHold' /\ HelpHolds'
<1> DEFINE head == UpTo(line, cursor)
           pipe == FindPipe(head)
           r == IF pipe = 0 THEN HelpWords(head) ELSE HelpFilter(Behind(head, pipe))
<1>1. /\ ~QuoteOpen(line, cursor) /\ shown' = By("help", r)
      /\ menu' = menu /\ line' = line /\ cursor' = cursor
  BY DEF Help
<1>2. menu \in Menus /\ line \in Seq(Letters) /\ head \in Seq(Letters)
  BY CutAt DEF LineTyped
<1>3. Sound(r)
  <2>1. pipe # 0 => Sound(HelpFilter(Behind(head, pipe)))
    BY HelpFilterSound
  <2>2. Sound(HelpWords(head))
    BY <1>2, HelpWordsSound
  <2> QED
    BY <2>1, <2>2
<1> HIDE DEF r
<1>4. OffersHold'
  BY <1>1, <1>2, <1>3, OffersNext
<1>5. cursor = Len(line) /\ FindPipe(line) = 0 =>
        ~QuoteOpen(line, cursor) /\ shown'.kind = HelpWords(line).kind
  <2> SUFFICES ASSUME cursor = Len(line), FindPipe(line) = 0
      PROVE  ~QuoteOpen(line, cursor) /\ shown'.kind = HelpWords(line).kind
    OBVIOUS
  <2>1. head = line
    BY <1>2, PrefixIs DEF UpTo
  <2>2. r = HelpWords(line)
    BY <2>1 DEF r
  <2> QED
    BY <1>1, <2>2, ByIs
<1>6. HelpHolds'
  BY <1>1, <1>5, HelpHoldsKept
<1> QED
  BY <1>4, <1>6

\* What '?', 'help' and Tab say of a line is what running it does: an offered keyword
\* selects its command, '?' reports the errors of Enter, and shows <cr> where a command
\* runs (cli_show_help_words, cli_tab_complete_words, cli_foreach_match, cli_walk_words,
\* cli_execute_command).
THEOREM HelpIsTrue == Spec => []HelpAgreesWithEnter
<1>1. Init => AgreesInv
  <2> SUFFICES ASSUME Init PROVE AgreesInv
    OBVIOUS
  <2>1. LineTyped
    <3>1. Len(<<>>) = 0 /\ <<>> \in Seq(Letters)
      BY EmptySeq
    <3> QED
      BY <3>1 DEF Init, LineTyped
  <2>2. shown.key = "none"
    BY ShowsIs DEF Init
  <2> QED
    BY <2>1, <2>2 DEF AgreesInv, OffersHold, HelpHolds, Answering
<1>2. AgreesInv /\ [Next]_wordVars => AgreesInv'
  <2> SUFFICES ASSUME AgreesInv, [Next]_wordVars PROVE AgreesInv'
    OBVIOUS
  <2>0. LineTyped /\ OffersHold /\ HelpHolds
    BY DEF AgreesInv
  <2>1. ASSUME NEW n \in 0 .. MaxTyped, MoveCursor(n) PROVE AgreesInv'
    <3>1. LineTyped'
      <4>1. menu' = menu /\ line' = line /\ cursor' = n /\ n <= Len(line)
        BY <2>1 DEF MoveCursor
      <4>2. Len(line) \in Nat
        BY <2>0, LenProperties DEF LineTyped
      <4>3. n \in 0 .. Len(line)
        BY <2>1, <4>1, <4>2, WordsAssumption
      <4> QED
        BY <2>0, <4>1, <4>3 DEF LineTyped
    <3>2. shown'.key = "none"
      BY <2>1, ShowsIs DEF MoveCursor
    <3> QED
      BY <3>1, <3>2, QuietIs DEF AgreesInv, Answering
  <2>2. ASSUME NEW c \in Chars, Insert(c) PROVE AgreesInv'
    <3>1. LineTyped' /\ shown'.key = "none"
      BY <2>0, <2>2, InsertIs
    <3> QED
      BY <3>1, QuietIs DEF AgreesInv, Answering
  <2>3. CASE Help
    <3>1. LineTyped'
      <4>1. menu' = menu /\ line' = line /\ cursor' = cursor
        BY <2>3 DEF Help
      <4> QED
        BY <2>0, <4>1 DEF LineTyped
    <3> QED
      BY <2>0, <2>3, <3>1, HelpNext DEF AgreesInv
  <2>4. CASE Tab
    <3>1. LineTyped' /\ shown'.key = "tab" /\ Sound(shown')
      BY <2>0, <2>4, TabIs
    <3>2. PICK q : q = shown'
      OBVIOUS
    <3>3. Sound(q)'
      <4>1. menu' = menu /\ menu \in Menus /\ Sound(q)
        BY <2>0, <2>4, <3>1, <3>2 DEF Tab, LineTyped
      <4> QED
        BY <4>1, SoundKept
    <3>4. OffersHold'
      BY <3>2, <3>3 DEF OffersHold
    <3>5. HelpHolds'
      BY <3>1 DEF HelpHolds
    <3> QED
      BY <3>1, <3>4, <3>5 DEF AgreesInv
  <2>5. CASE Enter
    <3>1. shown' = By("enter", Execute(line)) /\ line' = <<>> /\ cursor' = 0 /\ menu' = menu
      BY <2>5 DEF Enter
    <3>2. menu \in Menus /\ Sound(Execute(line))
      BY <2>0, ExecuteSound DEF LineTyped
    <3>3. OffersHold'
      BY <3>1, <3>2, OffersNext
    <3>4. HelpHolds'
      <4>1. shown'.key = "enter"
        BY <3>1, ByIs
      <4> QED
        BY <4>1 DEF HelpHolds
    <3>5. LineTyped'
      <4>1. Len(<<>>) = 0 /\ <<>> \in Seq(Letters)
        BY EmptySeq
      <4> QED
        BY <3>1, <3>2, <4>1 DEF LineTyped
    <3> QED
      BY <3>3, <3>4, <3>5 DEF AgreesInv
  <2>6. ASSUME NEW words \in WordLists, ExecArgv(words) PROVE AgreesInv'
    <3>1. shown'.key = "exec" /\ menu' = menu /\ line' = line /\ cursor' = cursor
      <4>1. PICK done : shown' = [By("exec", done) EXCEPT !.path = words]
        BY <2>6 DEF ExecArgv
      <4> QED
        BY <2>6, <4>1 DEF ExecArgv, By
    <3>2. LineTyped'
      BY <2>0, <3>1 DEF LineTyped
    <3> QED
      BY <3>1, <3>2, QuietIs DEF AgreesInv, Answering
  <2>7. CASE UNCHANGED wordVars
    <3>1. menu' = menu /\ line' = line /\ cursor' = cursor /\ shown' = shown
      BY <2>7 DEF wordVars
    <3>2. LineTyped'
      BY <2>0, <3>1 DEF LineTyped
    <3>3. OffersHold'
      <4>1. PICK q : q = shown
        OBVIOUS
      <4>2. shown.key \in Answering => Sound(q)'
        BY <2>0, <3>1, <4>1, SoundKept DEF OffersHold, LineTyped
      <4> QED
        BY <3>1, <4>1, <4>2 DEF OffersHold
    <3>4. HelpHolds'
      <4>1. CASE shown.key = "help"
        BY <2>0, <3>1, <4>1, HelpHoldsKept DEF HelpHolds
      <4>2. CASE shown.key # "help"
        BY <3>1, <4>2 DEF HelpHolds
      <4> QED
        BY <4>1, <4>2
    <3> QED
      BY <3>2, <3>3, <3>4 DEF AgreesInv
  <2> QED
    BY <2>1, <2>2, <2>3, <2>4, <2>5, <2>6, <2>7 DEF Next
<1>3. AgreesInv => HelpAgreesWithEnter
  BY AgreesIs
<1> QED
  BY <1>1, <1>2, <1>3, PTL DEF Spec

==============================================================================
