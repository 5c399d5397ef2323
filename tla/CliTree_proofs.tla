--------------------------- MODULE CliTree_proofs ---------------------------
(***************************************************************************)
(* Proofs about the command tree, for any pool, any commands and any       *)
(* nesting of handlers: keywords stay unique, the tree has no cycle, the   *)
(* levels of the session are commands that exist, and a recursive removal  *)
(* takes one subtree and nothing else.                                     *)
(***************************************************************************)
EXTENDS CliTree, CliNav_proofs, FiniteSetTheorems

-----------------------------------------------------------------------------
(* Induction and functions that are built step by step                     *)

\* What holds of 0 and is handed on from n - 1 to n holds up to N.
LEMMA Induction ==
  ASSUME NEW N \in Nat, NEW S, 0 \in S, \A n \in 1 .. N : n - 1 \in S => n \in S
  PROVE  \A n \in 0 .. N : n \in S
<1> DEFINE T == (0 .. N) \ S
<1> SUFFICES ASSUME T # {} PROVE FALSE
  OBVIOUS
<1>1. T \subseteq Nat
  OBVIOUS
<1> HIDE DEF T
<1>2. PICK x \in T : \A y \in T : <<y, x>> \notin OpToRel(<, Nat)
  BY <1>1, WFMin, NatLessThanWellFounded
<1>3. \A y \in T : ~ (y < x)
  BY <1>1, <1>2 DEF OpToRel
<1> USE DEF T
<1>4. x \in 1 .. N /\ x - 1 \in 0 .. N
  OBVIOUS
<1>5. x - 1 \in S
  BY <1>3, <1>4
<1> QED
  BY <1>4, <1>5

\* f starts at x, and each value is made from the one before by the step of its number.
Built(f, N, D, x, step) ==
  /\ f \in [0 .. N -> D] /\ f[0] = x
  /\ \A n \in 1 .. N : f[n] = step[n][f[n - 1]]

Steps(step, N, D) == step \in [1 .. N -> [D -> D]]

LEMMA Recursion ==
  ASSUME NEW N \in Nat, NEW D, NEW x \in D, NEW step, Steps(step, N, D)
  PROVE  \E f : Built(f, N, D, x, step)
<1> DEFINE UpTo(k, f) == /\ f \in [0 .. N -> D] /\ f[0] = x
                         /\ \A n \in 1 .. k : f[n] = step[n][f[n - 1]]
           S == {k \in 0 .. N : \E f : UpTo(k, f)}
<1>1. 0 \in S
  <2> DEFINE f == [n \in 0 .. N |-> x]
  <2>1. UpTo(0, f)
    OBVIOUS
  <2> HIDE DEF f, UpTo
  <2> QED
    BY <2>1
<1>2. ASSUME NEW k \in 1 .. N, k - 1 \in S PROVE k \in S
  <2>1. PICK f : UpTo(k - 1, f)
    BY <1>2
  <2> DEFINE v == step[k][f[k - 1]]
  <2>2. k - 1 \in 0 .. N /\ f[k - 1] \in D
    BY <2>1
  <2>3. v \in D
    BY <2>2 DEF Steps
  <2> HIDE DEF v
  <2> DEFINE g == [f EXCEPT ![k] = v]
  <2>4. /\ g \in [0 .. N -> D] /\ g[k] = v
        /\ \A n \in 0 .. N : n # k => g[n] = f[n]
    BY <2>1, <2>3
  <2> HIDE DEF g
  <2>5. ASSUME NEW n \in 1 .. k PROVE g[n] = step[n][g[n - 1]]
    <3>1. n - 1 \in 0 .. N /\ n - 1 # k /\ n \in 0 .. N
      OBVIOUS
    <3>2. g[n - 1] = f[n - 1]
      BY <2>4, <3>1
    <3>3. CASE n = k
      BY <2>4, <3>2, <3>3 DEF v
    <3>4. CASE n # k
      <4>1. n \in 1 .. k - 1
        BY <3>4
      <4> QED
        BY <2>1, <2>4, <3>1, <3>2, <3>4, <4>1
    <3> QED
      BY <3>3, <3>4
  <2>6. g[0] = x
    BY <2>1, <2>4
  <2>7. UpTo(k, g)
    BY <2>4, <2>5, <2>6
  <2> QED
    BY <2>7
<1>3. N \in S
  <2> HIDE DEF S
  <2>1. \A n \in 0 .. N : n \in S
    BY <1>1, <1>2, Induction
  <2>2. N \in 0 .. N
    OBVIOUS
  <2> QED
    BY <2>1, <2>2
<1>4. PICK f : UpTo(N, f)
  BY <1>3
<1> QED
  BY <1>4 DEF Built

\* A non-empty set of numbers has a least one.
LEMMA Least ==
  ASSUME NEW S, S \subseteq Nat, S # {}
  PROVE  \E x \in S : \A y \in S : x <= y
<1>1. PICK x \in S : \A y \in S : <<y, x>> \notin OpToRel(<, Nat)
  BY WFMin, NatLessThanWellFounded
<1>2. \A y \in S : ~ (y < x)
  BY <1>1 DEF OpToRel
<1> QED
  BY <1>2

\* More numbers than handles: a function from 0 .. PoolSize to them repeats a value.
LEMMA Repeats ==
  ASSUME NEW f \in [0 .. PoolSize -> Handles]
  PROVE  \E m, n \in 0 .. PoolSize : m < n /\ f[m] = f[n]
<1>1. PoolSize \in Nat
  BY PoolAssumption
<1>2. /\ IsFiniteSet(0 .. PoolSize) /\ Cardinality(0 .. PoolSize) = PoolSize + 1
      /\ IsFiniteSet(Handles) /\ Cardinality(Handles) = PoolSize
  BY <1>1, FS_Interval DEF Handles
<1>3. \E m, n \in 0 .. PoolSize : m # n /\ f[m] = f[n]
  BY <1>1, <1>2, FS_PigeonHole
<1> QED
  BY <1>1, <1>3

-----------------------------------------------------------------------------
(* Types                                                                   *)

Places == Contexts \cup {INVALID}

Nodes ==
  [name : Keywords, aliases : SUBSET Keywords, mode : CmdModes, privilege : Privileges,
   handler : BOOLEAN, parent : Places]

Pools == [Handles -> Nodes \cup {Unused}]

LEMMA NodesAreUsed ==
  ASSUME NEW r \in Nodes PROVE r # Unused /\ r.parent \in Places
<1>1. DOMAIN r = {"name", "aliases", "mode", "privilege", "handler", "parent"}
  BY DEF Nodes
<1>2. DOMAIN Unused = {"inUse"}
  BY DEF Unused
<1> QED
  BY <1>1, <1>2 DEF Nodes

LEMMA InUseIs ==
  ASSUME NEW p \in Pools
  PROVE  InUse(p) \subseteq Handles /\ \A h \in InUse(p) : p[h] \in Nodes /\ p[h].parent \in Places
  BY NodesAreUsed DEF InUse, Pools

\* A handle, the root and CLI_CMD_INVALID are told apart.
LEMMA PlacesApart ==
  /\ Handles \subseteq Places /\ ROOT \in Places /\ INVALID \in Places
  /\ ROOT \notin Handles /\ INVALID \notin Handles /\ INVALID # ROOT
  /\ Places = Handles \cup {ROOT, INVALID} /\ Contexts = Handles \cup {ROOT}
  BY PoolAssumption DEF Places

-----------------------------------------------------------------------------
(* The way up and the way down                                             *)

Above(p, x) == IF x \in InUse(p) THEN p[x].parent ELSE x

LEMMA AboveIs ==
  ASSUME NEW p \in Pools, NEW x \in Places PROVE Above(p, x) \in Places
  BY InUseIs DEF Above

LEMMA ClimbIs ==
  ASSUME NEW p \in Pools, NEW node \in Places
  PROVE  /\ Climb(p, node) \in [0 .. PoolSize -> Places]
         /\ Climb(p, node)[0] = node
         /\ \A n \in 1 .. PoolSize : Climb(p, node)[n] = Above(p, Climb(p, node)[n - 1])
<1> DEFINE step == [n \in 1 .. PoolSize |-> [x \in Places |-> Above(p, x)]]
           Eq(up) == up = [n \in 0 .. PoolSize |->
                             IF n = 0 THEN node
                             ELSE LET below == up[n - 1]
                                  IN IF below \in InUse(p) THEN p[below].parent ELSE below]
<1>1. PoolSize \in Nat
  BY PoolAssumption
<1>2. Steps(step, PoolSize, Places)
  BY AboveIs DEF Steps
<1>3. \A n \in 1 .. PoolSize, x \in Places : step[n][x] = Above(p, x)
  OBVIOUS
<1> HIDE DEF step
<1>4. PICK f : Built(f, PoolSize, Places, node, step)
  BY <1>1, <1>2, Recursion
<1>5. Eq(f)
  <2>1. ASSUME NEW n \in 1 .. PoolSize PROVE f[n] = Above(p, f[n - 1])
    <3>1. f[n - 1] \in Places
      BY <1>1, <1>4 DEF Built
    <3> QED
      BY <1>3, <1>4, <3>1 DEF Built
  <2>2. f = [n \in 0 .. PoolSize |-> f[n]] /\ f[0] = node
    BY <1>4 DEF Built
  <2> QED
    BY <1>1, <2>1, <2>2 DEF Above
<1>6. Climb(p, node) = CHOOSE up : Eq(up)
  BY DEF Climb
<1> DEFINE up == Climb(p, node)
<1>7. Eq(up)
  BY <1>5, <1>6
<1> HIDE DEF up
<1>8. up[0] = node /\ \A n \in 1 .. PoolSize : up[n] = Above(p, up[n - 1])
  BY <1>1, <1>7 DEF Above
<1> DEFINE S == {n \in 0 .. PoolSize : up[n] \in Places}
<1>9. \A n \in 0 .. PoolSize : n \in S
  <2>1. 0 \in S
    BY <1>1, <1>8
  <2>2. ASSUME NEW n \in 1 .. PoolSize, n - 1 \in S PROVE n \in S
    BY <1>1, <1>8, <2>2, AboveIs
  <2> HIDE DEF S
  <2> QED
    BY <1>1, <2>1, <2>2, Induction
<1>10. up \in [0 .. PoolSize -> Places]
  BY <1>7, <1>9
<1> QED
  BY <1>8, <1>10 DEF up

\* A node that is not in use has nothing above it: the root, a detached parent.
LEMMA ClimbStops ==
  ASSUME NEW p \in Pools, NEW node \in Places, NEW m \in 0 .. PoolSize,
         Climb(p, node)[m] \notin InUse(p)
  PROVE  \A n \in 0 .. PoolSize : m <= n => Climb(p, node)[n] = Climb(p, node)[m]
<1> DEFINE up == Climb(p, node)
           S == {n \in 0 .. PoolSize : m <= n => up[n] = up[m]}
<1>1. PoolSize \in Nat
  BY PoolAssumption
<1>2. \A n \in 1 .. PoolSize : up[n] = Above(p, up[n - 1])
  BY ClimbIs
<1> HIDE DEF up
<1>3. 0 \in S
  BY <1>1
<1>4. ASSUME NEW n \in 1 .. PoolSize, n - 1 \in S PROVE n \in S
  <2>1. CASE m <= n - 1
    <3>1. up[n - 1] = up[m]
      BY <1>1, <1>4, <2>1
    <3>2. up[n - 1] \notin InUse(p)
      BY <3>1 DEF up
    <3> QED
      BY <1>1, <1>2, <3>1, <3>2 DEF Above
  <2>2. CASE ~ (m <= n - 1)
    BY <1>1, <2>2
  <2> QED
    BY <2>1, <2>2
<1>5. \A n \in 0 .. PoolSize : n \in S
  <2> HIDE DEF S
  <2> QED
    BY <1>1, <1>3, <1>4, Induction
<1> QED
  BY <1>5 DEF up

LEMMA WithinItself ==
  ASSUME NEW p \in Pools, NEW x \in Places PROVE Within(p, x, x)
<1>1. Climb(p, x)[0] = x /\ 0 \in 0 .. PoolSize
  BY ClimbIs, PoolAssumption
<1> QED
  BY <1>1 DEF Within

LEMMA OutsideIsNotWithin ==
  ASSUME NEW p \in Pools, NEW x \in Places, x \notin InUse(p), NEW h \in Places, h # x
  PROVE  ~ Within(p, x, h)
<1>1. 0 \in 0 .. PoolSize /\ Climb(p, x)[0] = x
  BY ClimbIs, PoolAssumption
<1>2. \A n \in 0 .. PoolSize : Climb(p, x)[n] = x
  BY <1>1, ClimbStops
<1> QED
  BY <1>2 DEF Within

-----------------------------------------------------------------------------
(* Levels that are dropped                                                 *)

\* What compacting does to the first i of the levels.
Compacted(kept, levels, i) ==
  LET s == Append(kept, levels[i])
  IN  /\ Len(kept) < i
      /\ s[1] = levels[1]
      /\ \A j \in 1 .. Len(s) : \E k \in 1 .. i : s[j] = levels[k]
      /\ \A k \in 1 .. i : \E j \in 1 .. Len(s) : s[j] = levels[k]
      /\ \A j \in 1 .. Len(kept) : s[j] # s[j + 1]

LEMMA CompactedNext ==
  ASSUME NEW levels \in Seq(Frames), NEW i \in 1 .. Len(levels) - 1,
         NEW kept \in Seq(Frames), Compacted(kept, levels, i)
  PROVE  /\ levels[i] = levels[i + 1] => Compacted(kept, levels, i + 1)
         /\ levels[i] # levels[i + 1] => Compacted(Append(kept, levels[i]), levels, i + 1)
<1>1. levels[i] \in Frames /\ levels[i + 1] \in Frames
  OBVIOUS
<1> DEFINE s == Append(kept, levels[i])
<1>2. /\ s \in Seq(Frames) /\ Len(s) = Len(kept) + 1 /\ Len(kept) \in Nat
      /\ s[Len(s)] = levels[i] /\ \A j \in 1 .. Len(kept) : s[j] = kept[j]
  BY <1>1
<1>3. /\ Len(kept) < i
      /\ s[1] = levels[1]
      /\ \A j \in 1 .. Len(s) : \E k \in 1 .. i : s[j] = levels[k]
      /\ \A k \in 1 .. i : \E j \in 1 .. Len(s) : s[j] = levels[k]
      /\ \A j \in 1 .. Len(kept) : s[j] # s[j + 1]
  BY DEF Compacted
<1> HIDE DEF s
<1>4. ASSUME levels[i] = levels[i + 1] PROVE Compacted(kept, levels, i + 1)
  <2>1. Append(kept, levels[i + 1]) = s
    BY <1>4 DEF s
  <2>2. \A j \in 1 .. Len(s) : \E k \in 1 .. i + 1 : s[j] = levels[k]
    BY <1>3
  <2>3. ASSUME NEW k \in 1 .. i + 1 PROVE \E j \in 1 .. Len(s) : s[j] = levels[k]
    <3>1. CASE k = i + 1
      BY <1>2, <1>4, <3>1
    <3>2. CASE k # i + 1
      BY <1>3, <3>2
    <3> QED
      BY <3>1, <3>2
  <2>4. Len(kept) < i + 1
    BY <1>2, <1>3
  <2> QED
    BY <1>3, <2>1, <2>2, <2>3, <2>4 DEF Compacted
<1>5. ASSUME levels[i] # levels[i + 1] PROVE Compacted(s, levels, i + 1)
  <2> DEFINE u == Append(s, levels[i + 1])
  <2>1. /\ Len(u) = Len(s) + 1 /\ u[Len(s) + 1] = levels[i + 1]
        /\ \A j \in 1 .. Len(s) : u[j] = s[j]
    BY <1>1, <1>2
  <2> HIDE DEF u
  <2>2. Len(s) < i + 1 /\ u[1] = levels[1]
    <3>1. 1 \in 1 .. Len(s)
      BY <1>2
    <3>2. u[1] = s[1]
      BY <2>1, <3>1
    <3>3. Len(s) < i + 1
      BY <1>2, <1>3
    <3> QED
      BY <1>3, <3>2, <3>3
  <2>3. ASSUME NEW j \in 1 .. Len(u) PROVE \E k \in 1 .. i + 1 : u[j] = levels[k]
    <3>1. CASE j = Len(s) + 1
      BY <2>1, <3>1
    <3>2. CASE j # Len(s) + 1
      <4>1. j \in 1 .. Len(s)
        BY <1>2, <2>1, <3>2
      <4>2. PICK k \in 1 .. i : s[j] = levels[k]
        BY <1>3, <4>1
      <4> QED
        BY <2>1, <4>1, <4>2
    <3> QED
      BY <3>1, <3>2
  <2>4. ASSUME NEW k \in 1 .. i + 1 PROVE \E j \in 1 .. Len(u) : u[j] = levels[k]
    <3>1. CASE k = i + 1
      BY <1>2, <2>1, <3>1
    <3>2. CASE k # i + 1
      <4>1. k \in 1 .. i
        BY <3>2
      <4>2. PICK j \in 1 .. Len(s) : s[j] = levels[k]
        BY <1>3, <4>1
      <4> QED
        BY <1>2, <2>1, <4>2
    <3> QED
      BY <3>1, <3>2
  <2>5. ASSUME NEW j \in 1 .. Len(s) PROVE u[j] # u[j + 1]
    <3>1. CASE j = Len(s)
      BY <1>2, <1>5, <2>1, <3>1
    <3>2. CASE j # Len(s)
      <4>1. j \in 1 .. Len(kept) /\ j + 1 \in 1 .. Len(s)
        BY <1>2, <3>2
      <4> QED
        BY <1>3, <2>1, <4>1
    <3> QED
      BY <3>1, <3>2
  <2> QED
    BY <2>2, <2>3, <2>4, <2>5 DEF Compacted, u
<1> QED
  BY <1>4, <1>5 DEF s

LEMMA KeptIs ==
  ASSUME NEW levels \in Seq(Frames), levels # <<>>
  PROVE  Kept(levels) \in Seq(Frames) /\ Compacted(Kept(levels), levels, Len(levels))
<1> DEFINE N == Len(levels) - 1
           Next1(i, x) == IF levels[i] = levels[i + 1] THEN x ELSE Append(x, levels[i])
           step == [i \in 1 .. N |-> [x \in Seq(Frames) |-> Next1(i, x)]]
           Eq(f) == f = [i \in 0 .. N |->
                           IF i = 0 THEN <<>>
                           ELSE IF levels[i] = levels[i + 1] THEN f[i - 1]
                           ELSE Append(f[i - 1], levels[i])]
<1>1. N \in Nat
  OBVIOUS
<1>2. \A i \in 1 .. N : levels[i] \in Frames /\ levels[i + 1] \in Frames
  OBVIOUS
<1>3. Steps(step, N, Seq(Frames))
  <2>1. \A i \in 1 .. N, x \in Seq(Frames) : Next1(i, x) \in Seq(Frames)
    BY <1>2
  <2> HIDE DEF Next1
  <2> QED
    BY <2>1 DEF Steps
<1>4. \A i \in 1 .. N, x \in Seq(Frames) : step[i][x] = Next1(i, x)
  OBVIOUS
<1>5. <<>> \in Seq(Frames)
  OBVIOUS
<1> HIDE DEF step, N
<1>6. PICK f : Built(f, N, Seq(Frames), <<>>, step)
  BY <1>1, <1>3, <1>5, Recursion
<1>7. \A i \in 1 .. N : f[i] = Next1(i, f[i - 1])
  <2>1. \A i \in 1 .. N : f[i - 1] \in Seq(Frames)
    BY <1>1, <1>6 DEF Built
  <2> QED
    BY <1>4, <1>6, <2>1 DEF Built
<1>8. Eq(f)
  <2>1. f = [i \in 0 .. N |-> f[i]] /\ f[0] = <<>>
    BY <1>6 DEF Built
  <2> QED
    BY <1>1, <1>7, <2>1
<1>9. ASSUME NEW g, Eq(g)
      PROVE  g[0] = <<>> /\ \A i \in 1 .. N : g[i] = Next1(i, g[i - 1])
  <2>1. \A i \in 0 .. N : g[i] = IF i = 0 THEN <<>>
                                 ELSE IF levels[i] = levels[i + 1] THEN g[i - 1]
                                 ELSE Append(g[i - 1], levels[i])
    BY <1>9
  <2> QED
    BY <1>1, <2>1
<1> DEFINE g == CHOOSE h : Eq(h)
<1>10. Eq(g) /\ Kept(levels) = g[N]
  BY <1>8 DEF Kept, N
<1> HIDE DEF g, Eq, Next1
<1>11. g[0] = <<>> /\ \A i \in 1 .. N : g[i] = Next1(i, g[i - 1])
  BY <1>9, <1>10
<1> DEFINE S == {i \in 0 .. N : g[i] \in Seq(Frames) /\ Compacted(g[i], levels, i + 1)}
<1>12. 0 \in S
  <2>1. levels[1] \in Frames
    OBVIOUS
  <2>2. Compacted(<<>>, levels, 1)
    <3>1. Append(<<>>, levels[1]) = <<levels[1]>>
      OBVIOUS
    <3> QED
      BY <3>1 DEF Compacted
  <2>3. 0 \in 0 .. N /\ 0 + 1 = 1
    BY <1>1
  <2> QED
    BY <1>5, <1>11, <2>2, <2>3
<1>13. ASSUME NEW i \in 1 .. N, i - 1 \in S PROVE i \in S
  <2>1. i \in 0 .. N /\ i \in 1 .. Len(levels) - 1 /\ i - 1 + 1 = i
    BY <1>1 DEF N
  <2>2. g[i - 1] \in Seq(Frames) /\ Compacted(g[i - 1], levels, i)
    BY <1>13, <2>1
  <2>3. /\ levels[i] = levels[i + 1] => Compacted(g[i - 1], levels, i + 1)
        /\ levels[i] # levels[i + 1] => Compacted(Append(g[i - 1], levels[i]), levels, i + 1)
    BY <2>1, <2>2, CompactedNext
  <2>4. Append(g[i - 1], levels[i]) \in Seq(Frames)
    BY <1>2, <2>2
  <2>5. g[i] = Next1(i, g[i - 1])
    BY <1>11
  <2>6. g[i] \in Seq(Frames) /\ Compacted(g[i], levels, i + 1)
    BY <2>2, <2>3, <2>4, <2>5 DEF Next1
  <2> QED
    BY <2>1, <2>6
<1>14. N \in S
  <2> HIDE DEF S
  <2>1. \A i \in 0 .. N : i \in S
    BY <1>1, <1>12, <1>13, Induction
  <2> QED
    BY <1>1, <2>1
<1>15. N + 1 = Len(levels)
  BY DEF N
<1> QED
  BY <1>10, <1>14, <1>15

LEMMA LevelsIs ==
  ASSUME NEW n, NavFits(n)
  PROVE  /\ Levels(n) \in Seq(Frames) /\ Len(Levels(n)) = Len(n.stack) + 1
         /\ Len(n.stack) \in Nat /\ Len(Levels(n)) <= MaxDepth + 1
         /\ Levels(n)[Len(n.stack) + 1] = Frame(n)
         /\ \A i \in 1 .. Len(n.stack) : Levels(n)[i] = n.stack[i]
<1>1. n.stack \in Seq(Frames) /\ Frame(n) \in Frames /\ Len(n.stack) <= MaxDepth
  BY DEF NavFits, Navs, Frame, Frames
<1> QED
  BY <1>1, MaxDepthAssumption DEF Levels

LEMMA RaisedTyped ==
  ASSUME NEW p, NEW f \in Frames, NEW h, NEW q \in Contexts
  PROVE  /\ Raised(p, f, h, q) \in Frames
         /\ Raised(p, f, h, q).mode = f.mode /\ Raised(p, f, h, q).privilege = f.privilege
         /\ Within(p, f.context, h) => Raised(p, f, h, q).context = q
         /\ ~ Within(p, f.context, h) => Raised(p, f, h, q) = f
  BY DEF Raised, Frames

\* The levels after a relocation are the old ones, raised, and none but repetitions is lost.
Relocated(old, new, p, h, q) ==
  /\ new[1] = Raised(p, old[1], h, q)
  /\ \A i \in 1 .. Len(new) : \E j \in 1 .. Len(old) : new[i] = Raised(p, old[j], h, q)
  /\ \A j \in 1 .. Len(old) : \E i \in 1 .. Len(new) : new[i] = Raised(p, old[j], h, q)
  /\ new # old => \A i \in 1 .. Len(new) - 1 : new[i] # new[i + 1]

LEMMA RelocateIs ==
  ASSUME NEW p, NEW n, NavFits(n), NEW h, NEW q \in Contexts
  PROVE  /\ NavFits(Relocate(p, n, h, q))
         /\ Relocated(Levels(n), Levels(Relocate(p, n, h, q)), p, h, q)
<1> DEFINE old == Levels(n)
           moved == [i \in 1 .. Len(old) |-> Raised(p, old[i], h, q)]
           new == Relocate(p, n, h, q)
<1>1. /\ old \in Seq(Frames) /\ Len(old) = Len(n.stack) + 1 /\ Len(n.stack) \in Nat
      /\ Len(n.stack) <= MaxDepth /\ old[Len(n.stack) + 1] = Frame(n)
  BY LevelsIs DEF NavFits
<1>2. /\ moved \in Seq(Frames) /\ Len(moved) = Len(old)
      /\ \A i \in 1 .. Len(old) : moved[i] = Raised(p, old[i], h, q)
  <2>1. \A i \in 1 .. Len(old) : Raised(p, old[i], h, q) \in Frames
    BY <1>1, RaisedTyped
  <2> HIDE DEF old
  <2> QED
    BY <1>1, <2>1
<1>3. new = IF moved = old THEN n
            ELSE [n EXCEPT !.context = moved[Len(moved)].context, !.stack = Kept(moved)]
  BY DEF Relocate
<1> HIDE DEF old, moved, new
<1>4. CASE moved = old
  <2>1. new = n /\ Levels(new) = old
    BY <1>3, <1>4 DEF old
  <2>2. \A i \in 1 .. Len(old) : old[i] = Raised(p, old[i], h, q)
    BY <1>2, <1>4
  <2>3. 1 \in 1 .. Len(old)
    BY <1>1
  <2> QED
    BY <2>1, <2>2, <2>3 DEF Relocated, new, old
<1>5. CASE moved # old
  <2> DEFINE kept == Kept(moved)
             last == moved[Len(moved)]
             N == Len(old)
  <2>1. N \in Nat /\ N >= 1 /\ moved # <<>> /\ last \in Frames
    BY <1>1, <1>2
  <2>2. kept \in Seq(Frames) /\ Compacted(kept, moved, N)
    BY <1>2, <2>1, KeptIs
  <2>3. new = [n EXCEPT !.context = last.context, !.stack = kept]
    BY <1>3, <1>5
  <2>4. last.mode = n.mode /\ last.privilege = n.privilege /\ last.context \in Contexts
    <3>1. last = Raised(p, Frame(n), h, q) /\ Frame(n) \in Frames
      BY <1>1, <1>2
    <3> QED
      BY <2>1, <3>1, RaisedTyped DEF Frame, Frames
  <2>5. Len(kept) \in Nat /\ Len(kept) < N
    BY <2>2 DEF Compacted
  <2> HIDE DEF kept, last
  <2>6. /\ NavFits(new) /\ new.stack = kept /\ Frame(new) = last
    <3>1. /\ new \in Navs /\ new.stack = kept /\ new.mode = n.mode
          /\ new.privilege = n.privilege /\ new.context = last.context
      BY <2>2, <2>3, <2>4 DEF NavFits, Navs
    <3>2. Frame(new) = last
      BY <2>1, <2>4, <3>1 DEF Frame, Frames
    <3>3. Len(kept) <= MaxDepth
      BY <1>1, <2>5, MaxDepthAssumption
    <3> QED
      BY <3>1, <3>2, <3>3 DEF NavFits
  <2>7. Levels(new) = Append(kept, last) /\ Len(Levels(new)) = Len(kept) + 1
    BY <2>1, <2>2, <2>6 DEF Levels
  <2> DEFINE s == Levels(new)
  <2>8. /\ s[1] = moved[1]
        /\ \A j \in 1 .. Len(s) : \E k \in 1 .. N : s[j] = moved[k]
        /\ \A k \in 1 .. N : \E j \in 1 .. Len(s) : s[j] = moved[k]
        /\ \A j \in 1 .. Len(kept) : s[j] # s[j + 1]
    <3>1. moved[N] = last
      BY <1>2 DEF last
    <3>2. s = Append(kept, moved[N])
      BY <2>7, <3>1
    <3> HIDE DEF s, N
    <3> QED
      BY <2>2, <3>2 DEF Compacted
  <2>9. Len(s) - 1 = Len(kept)
    BY <2>5, <2>7
  <2>10. 1 \in 1 .. N
    BY <2>1
  <2> HIDE DEF s
  <2>11. Relocated(old, s, p, h, q)
    <3>1. s[1] = Raised(p, old[1], h, q)
      BY <1>2, <2>8, <2>10
    <3>2. \A i \in 1 .. Len(s) : \E j \in 1 .. Len(old) : s[i] = Raised(p, old[j], h, q)
      BY <1>2, <2>8
    <3>3. \A j \in 1 .. Len(old) : \E i \in 1 .. Len(s) : s[i] = Raised(p, old[j], h, q)
      BY <1>2, <2>8
    <3> QED
      BY <2>8, <2>9, <3>1, <3>2, <3>3 DEF Relocated
  <2> QED
    BY <2>6, <2>11 DEF new, old, s
<1> QED
  BY <1>4, <1>5

-----------------------------------------------------------------------------
(* What makes a pool sound                                                 *)

\* No command hangs below a removed one: its slot may have been filled again.
Linked(p) == \A h \in InUse(p) : p[h].parent \in InUse(p) \cup {ROOT, INVALID}

\* Numbers that grow from every parent to its children.
Ranks(p, r) ==
  /\ r \in [Handles -> Nat]
  /\ \A h \in InUse(p) : p[h].parent \in InUse(p) => r[p[h].parent] < r[h]

Ranked(p) == \E r : Ranks(p, r)

Clash(g, h) ==
  /\ g.parent = h.parent /\ g.parent # INVALID /\ Overlap(g.mode, h.mode)
  /\ Words(g) \cap Words(h) # {}

Distinct(p) == \A g, h \in InUse(p) : g # h => ~ Clash(p[g], p[h])

PoolOK(p) == p \in Pools /\ Linked(p) /\ Ranked(p) /\ Distinct(p)

LEMMA UseIsFinite ==
  ASSUME NEW p \in Pools
  PROVE  /\ IsFiniteSet(InUse(p)) /\ Cardinality(InUse(p)) \in Nat
         /\ Cardinality(InUse(p)) <= PoolSize
         /\ InUse(p) # Handles => Cardinality(InUse(p)) < PoolSize
         /\ Cardinality(InUse(p)) < PoolSize => InUse(p) # Handles
<1>1. IsFiniteSet(Handles) /\ Cardinality(Handles) = PoolSize /\ PoolSize \in Nat
  BY PoolAssumption, FS_Interval DEF Handles
<1>2. InUse(p) \subseteq Handles
  BY InUseIs
<1>3. /\ IsFiniteSet(InUse(p)) /\ Cardinality(InUse(p)) <= Cardinality(Handles)
      /\ Cardinality(InUse(p)) = Cardinality(Handles) => InUse(p) = Handles
  BY <1>1, <1>2, FS_Subset
<1>4. Cardinality(InUse(p)) \in Nat
  BY <1>3, FS_CardinalityType
<1> QED
  BY <1>1, <1>3, <1>4

\* There is a free slot to take while the pool is not full.
LEMMA FreeSlotIs ==
  ASSUME NEW p \in Pools, Cardinality(InUse(p)) < PoolSize
  PROVE  FreeSlot(p) \in Handles \ InUse(p)
<1> DEFINE S == Handles \ InUse(p)
<1>1. S # {} /\ S \subseteq Nat
  <2>1. InUse(p) # Handles /\ InUse(p) \subseteq Handles
    BY UseIsFinite, InUseIs
  <2>2. Handles \subseteq Nat
    BY PoolAssumption DEF Handles
  <2> QED
    BY <2>1, <2>2
<1>2. \E x \in S : \A y \in S : x <= y
  BY <1>1, Least
<1> QED
  BY <1>2 DEF FreeSlot

\* The node that registration builds.
NewNode(parent, c) ==
  [name |-> c.name, aliases |-> {}, mode |-> c.mode, privilege |-> c.privilege,
   handler |-> c.handler, parent |-> parent]

Registrable(c) ==
  c.name \in Keywords /\ c.mode \in CmdModes /\ c.privilege \in Privileges /\ c.handler \in BOOLEAN

LEMMA NewNodeIs ==
  ASSUME NEW parent \in Places, NEW c, Registrable(c)
  PROVE  /\ NewNode(parent, c) \in Nodes /\ NewNode(parent, c).parent = parent
         /\ NewNode(parent, c).mode = c.mode /\ Words(NewNode(parent, c)) = {c.name}
  BY DEF NewNode, Registrable, Nodes, Words

LEMMA AddingKeeps ==
  ASSUME NEW p, PoolOK(p), NEW parent, NEW c, Registrable(c),
         CanAdd(p, Cardinality(InUse(p)), parent, c)
  PROVE  /\ PoolOK(Adding(p, parent, c))
         /\ InUse(p) \subseteq InUse(Adding(p, parent, c))
         /\ Cardinality(InUse(Adding(p, parent, c))) = Cardinality(InUse(p)) + 1
<1> DEFINE s == FreeSlot(p)
           v == NewNode(parent, c)
           q == [p EXCEPT ![s] = v]
<1>1. Adding(p, parent, c) = q
  BY DEF Adding, NewNode
<1>2. p \in Pools /\ InUse(p) \subseteq Handles
  BY InUseIs DEF PoolOK
<1>3. s \in Handles /\ s \notin InUse(p)
  BY <1>2, FreeSlotIs DEF CanAdd
<1>4. /\ parent \in InUse(p) \cup {ROOT} /\ parent # INVALID /\ parent \in Places /\ parent # s
  BY <1>2, <1>3, PlacesApart DEF CanAdd
<1>5. v \in Nodes /\ v.parent = parent /\ v.mode = c.mode /\ Words(v) = {c.name} /\ v # Unused
  BY <1>4, NewNodeIs, NodesAreUsed
<1> HIDE DEF s, v
<1>6. q \in Pools /\ q[s] = v /\ \A g \in Handles : g # s => q[g] = p[g]
  BY <1>2, <1>3, <1>5 DEF Pools
<1> HIDE DEF q
<1>7. InUse(q) = InUse(p) \cup {s}
  BY <1>2, <1>3, <1>5, <1>6 DEF InUse
<1>8. \A g \in InUse(p) : g # s /\ q[g] = p[g]
  BY <1>2, <1>3, <1>6
<1>9. Linked(q)
  BY <1>4, <1>5, <1>6, <1>7, <1>8 DEF Linked, PoolOK
<1>10. Ranked(q)
  <2>1. PICK r : Ranks(p, r)
    BY DEF PoolOK, Ranked
  <2> DEFINE k == IF parent \in Handles THEN r[parent] + 1 ELSE 0
             u == [r EXCEPT ![s] = k]
  <2>2. r \in [Handles -> Nat] /\ k \in Nat /\ (parent \in Handles => r[parent] < k)
    BY <2>1 DEF Ranks
  <2> HIDE DEF k
  <2>3. u \in [Handles -> Nat] /\ u[s] = k /\ \A g \in Handles : g # s => u[g] = r[g]
    BY <1>3, <2>1, <2>2 DEF Ranks
  <2> HIDE DEF u
  <2>4. ASSUME NEW h \in InUse(q), q[h].parent \in InUse(q)
        PROVE  u[q[h].parent] < u[h]
    <3>1. CASE h = s
      <4>1. parent \in Handles /\ q[h].parent = parent
        BY <1>2, <1>3, <1>5, <1>6, <1>7, <2>4, <3>1
      <4> QED
        BY <1>4, <2>1, <2>2, <2>3, <3>1, <4>1 DEF Ranks
    <3>2. CASE h # s
      <4>1. h \in InUse(p) /\ q[h].parent = p[h].parent
        BY <1>7, <1>8, <3>2
      <4>2. p[h].parent \in InUse(p)
        BY <1>2, <1>3, <1>7, <1>8, <2>4, <4>1, PlacesApart DEF PoolOK, Linked
      <4>3. r[p[h].parent] < r[h] /\ p[h].parent # s /\ h # s
        BY <1>3, <2>1, <4>1, <4>2 DEF Ranks
      <4> QED
        BY <1>2, <2>3, <4>1, <4>2, <4>3
    <3> QED
      BY <3>1, <3>2
  <2>5. Ranks(q, u)
    BY <2>3, <2>4 DEF Ranks
  <2> QED
    BY <2>5 DEF Ranked
<1>11. Distinct(q)
  <2>1. ASSUME NEW g \in InUse(p) PROVE ~ Clash(p[g], v) /\ ~ Clash(v, p[g])
    <3>1. g \in Handles /\ g # INVALID
      BY <1>2, PlacesApart
    <3>2. ~ (p[g].parent = parent /\ Overlap(p[g].mode, c.mode) /\ c.name \in Words(p[g]))
      BY <2>1, <3>1 DEF CanAdd, NameTaken, Children, Exact
    <3> QED
      BY <1>5, <3>2 DEF Clash, Overlap
  <2>2. \A g, h \in InUse(p) : g # h => ~ Clash(p[g], p[h])
    BY DEF PoolOK, Distinct
  <2> QED
    BY <1>6, <1>7, <1>8, <2>1, <2>2 DEF Distinct
<1>12. Cardinality(InUse(q)) = Cardinality(InUse(p)) + 1
  BY <1>2, <1>3, <1>7, UseIsFinite, FS_AddElement
<1> QED
  BY <1>1, <1>6, <1>7, <1>9, <1>10, <1>11, <1>12 DEF PoolOK

LEMMA AliasKeeps ==
  ASSUME NEW p, PoolOK(p), NEW h \in InUse(p), NEW word \in Keywords,
         ~ NameTaken(p, p[h].parent, p[h].mode, word, h),
         NEW q, q = [p EXCEPT ![h].aliases = @ \cup {word}]
  PROVE  PoolOK(q) /\ InUse(q) = InUse(p)
<1> DEFINE v == [p[h] EXCEPT !.aliases = p[h].aliases \cup {word}]
<1>1. p \in Pools /\ h \in Handles /\ p[h] \in Nodes /\ q = [p EXCEPT ![h] = v]
  BY InUseIs DEF PoolOK
<1>2. /\ v \in Nodes /\ v.parent = p[h].parent /\ v.mode = p[h].mode
      /\ Words(v) = Words(p[h]) \cup {word}
  BY <1>1 DEF Nodes, Words
<1>3. v # Unused
  BY <1>2, NodesAreUsed
<1> HIDE DEF v
<1>4. q \in Pools /\ q[h] = v /\ \A g \in Handles : g # h => q[g] = p[g]
  BY <1>1, <1>2 DEF Pools
<1>5. InUse(q) = InUse(p) /\ \A g \in InUse(p) : q[g].parent = p[g].parent
  <2>1. \A g \in Handles : q[g] # Unused <=> p[g] # Unused
    BY <1>1, <1>3, <1>4 DEF InUse
  <2> QED
    BY <1>2, <1>4, <2>1 DEF InUse
<1>6. Linked(q)
  BY <1>5 DEF Linked, PoolOK
<1>7. Ranked(q)
  <2>1. PICK r : Ranks(p, r)
    BY DEF PoolOK, Ranked
  <2>2. Ranks(q, r)
    BY <1>5, <2>1 DEF Ranks
  <2> QED
    BY <2>2 DEF Ranked
<1>8. Distinct(q)
  <2>1. ASSUME NEW g \in InUse(p), g # h PROVE ~ Clash(p[g], v) /\ ~ Clash(v, p[g])
    <3>1. ~ (p[g].parent = p[h].parent /\ Overlap(p[g].mode, p[h].mode) /\ word \in Words(p[g]))
      BY <2>1 DEF NameTaken, Children, Exact
    <3>2. ~ Clash(p[g], p[h])
      BY <2>1 DEF PoolOK, Distinct
    <3> QED
      BY <1>2, <3>1, <3>2 DEF Clash, Overlap
  <2>2. \A g, k \in InUse(p) : g # k => ~ Clash(p[g], p[k])
    BY DEF PoolOK, Distinct
  <2>3. \A g \in InUse(p) : g \in Handles
    BY <1>1, InUseIs
  <2> QED
    BY <1>4, <1>5, <2>1, <2>2, <2>3 DEF Distinct
<1> QED
  BY <1>4, <1>5, <1>6, <1>7, <1>8 DEF PoolOK

\* The pool cli_remove_command leaves.
Without(p, h) ==
  [g \in Handles |-> IF g = h THEN Unused
                     ELSE IF g \in Children(p, h) THEN [p[g] EXCEPT !.parent = INVALID]
                     ELSE p[g]]

LEMMA DetachedIs ==
  ASSUME NEW v \in Nodes
  PROVE  LET u == [v EXCEPT !.parent = INVALID]
         IN  /\ u \in Nodes /\ u.parent = INVALID /\ u.mode = v.mode /\ Words(u) = Words(v)
  BY PlacesApart DEF Nodes, Words

LEMMA WithoutKeeps ==
  ASSUME NEW p, PoolOK(p), NEW h \in InUse(p)
  PROVE  /\ PoolOK(Without(p, h)) /\ InUse(Without(p, h)) = InUse(p) \ {h}
         /\ Cardinality(InUse(Without(p, h))) = Cardinality(InUse(p)) - 1
         /\ \A g \in InUse(p) \ {h} :
              p[g].parent # h => Without(p, h)[g] = p[g]
         /\ \A g \in InUse(p) \ {h} :
              p[g].parent = h => Without(p, h)[g].parent = INVALID
<1> DEFINE q == Without(p, h)
<1>1. /\ p \in Pools /\ InUse(p) \subseteq Handles /\ h \in Handles
      /\ \A g \in InUse(p) : p[g] \in Nodes
  BY InUseIs DEF PoolOK
<1>2. \A g \in Handles : q[g] = IF g = h THEN Unused
                                ELSE IF g \in Children(p, h) THEN [p[g] EXCEPT !.parent = INVALID]
                                ELSE p[g]
  BY DEF Without
<1>3. q = [g \in Handles |-> q[g]]
  BY DEF Without
<1> HIDE DEF q
<1>4. ASSUME NEW g \in InUse(p) \ {h}, p[g].parent # h PROVE q[g] = p[g]
  BY <1>1, <1>2, <1>4 DEF Children
<1>5. ASSUME NEW g \in InUse(p) \ {h}, p[g].parent = h
      PROVE  /\ q[g] \in Nodes /\ q[g].parent = INVALID /\ q[g].mode = p[g].mode
             /\ Words(q[g]) = Words(p[g])
  <2>1. q[g] = [p[g] EXCEPT !.parent = INVALID]
    BY <1>1, <1>2, <1>5 DEF Children
  <2>2. p[g] \in Nodes
    BY <1>1
  <2> QED
    BY <2>1, <2>2, DetachedIs
<1>6. \A g \in InUse(p) \ {h} : q[g] \in Nodes /\ q[g] # Unused
  BY <1>1, <1>4, <1>5, NodesAreUsed
<1>7. \A g \in Handles : g \notin InUse(p) => q[g] = Unused
  BY <1>2 DEF InUse, Children
<1>8. q \in Pools /\ InUse(q) = InUse(p) \ {h}
  <2>1. \A g \in Handles : q[g] \in Nodes \cup {Unused}
    BY <1>2, <1>6, <1>7
  <2>2. q[h] = Unused
    BY <1>1, <1>2
  <2> QED
    BY <1>1, <1>3, <1>6, <1>7, <2>1, <2>2 DEF Pools, InUse
<1>9. Linked(q)
  BY <1>4, <1>5, <1>8 DEF PoolOK, Linked
<1>10. Ranked(q)
  <2>1. PICK r : Ranks(p, r)
    BY DEF PoolOK, Ranked
  <2>2. ASSUME NEW g \in InUse(q), q[g].parent \in InUse(q) PROVE r[q[g].parent] < r[g]
    <3>1. q[g].parent # INVALID
      BY <1>1, <1>8, <2>2, PlacesApart
    <3>2. q[g] = p[g] /\ g \in InUse(p) /\ p[g].parent \in InUse(p)
      BY <1>4, <1>5, <1>8, <2>2, <3>1
    <3> QED
      BY <2>1, <3>2 DEF Ranks
  <2>3. Ranks(q, r)
    BY <2>1, <2>2 DEF Ranks
  <2> QED
    BY <2>3 DEF Ranked
<1>11. Distinct(q)
  <2>1. ASSUME NEW g \in InUse(q), NEW k \in InUse(q), g # k, Clash(q[g], q[k]) PROVE FALSE
    <3>1. q[g].parent # INVALID /\ q[k].parent # INVALID
      BY <2>1 DEF Clash
    <3>2. q[g] = p[g] /\ q[k] = p[k] /\ g \in InUse(p) /\ k \in InUse(p)
      BY <1>4, <1>5, <1>8, <3>1
    <3> QED
      BY <2>1, <3>2 DEF PoolOK, Distinct
  <2> QED
    BY <2>1 DEF Distinct
<1>12. Cardinality(InUse(q)) = Cardinality(InUse(p)) - 1
  BY <1>1, <1>8, UseIsFinite, FS_RemoveElement
<1> QED
  BY <1>4, <1>5, <1>8, <1>9, <1>10, <1>11, <1>12 DEF PoolOK, q

-----------------------------------------------------------------------------
(* No way up and no way down is endless                                    *)

\* A walk through commands, each ranked below the one before, ends within PoolSize steps.
LEMMA NoEndlessWalk ==
  ASSUME NEW f \in [0 .. PoolSize -> Handles], NEW r \in [Handles -> Nat],
         \A n \in 1 .. PoolSize : r[f[n]] < r[f[n - 1]]
  PROVE  FALSE
<1>1. PoolSize \in Nat
  BY PoolAssumption
<1>2. PICK m, k \in 0 .. PoolSize : m < k /\ f[m] = f[k]
  BY Repeats
<1> DEFINE S == {n \in 0 .. PoolSize : m < n => r[f[n]] < r[f[m]]}
<1>3. 0 \in S
  BY <1>1
<1>4. ASSUME NEW n \in 1 .. PoolSize, n - 1 \in S PROVE n \in S
  <2>1. SUFFICES ASSUME m < n PROVE r[f[n]] < r[f[m]]
    BY <1>1
  <2>2. n \in 0 .. PoolSize /\ n - 1 \in 0 .. PoolSize
    BY <1>1
  <2>3. r[f[n]] \in Nat /\ r[f[n - 1]] \in Nat /\ r[f[m]] \in Nat
    BY <2>2
  <2>4. CASE m = n - 1
    BY <2>4
  <2>5. CASE m # n - 1
    <3>1. m < n - 1
      BY <1>1, <2>1, <2>5
    <3>2. r[f[n - 1]] < r[f[m]]
      BY <1>4, <3>1
    <3> QED
      BY <2>3, <3>2
  <2> QED
    BY <2>4, <2>5
<1>5. \A n \in 0 .. PoolSize : n \in S
  <2> HIDE DEF S
  <2> QED
    BY <1>1, <1>3, <1>4, Induction
<1>6. r[f[k]] < r[f[m]] /\ r[f[m]] \in Nat
  BY <1>2, <1>5
<1> QED
  BY <1>2, <1>6

\* The same for a walk through commands of a pool, from parents to children.
LEMMA NoEndlessDescent ==
  ASSUME NEW f \in [0 .. PoolSize -> Handles], NEW r \in [Handles -> Nat],
         \A n \in 1 .. PoolSize : r[f[n - 1]] < r[f[n]]
  PROVE  FALSE
<1> DEFINE g == [n \in 0 .. PoolSize |-> f[PoolSize - n]]
<1>1. PoolSize \in Nat
  BY PoolAssumption
<1>2. \A n \in 0 .. PoolSize : PoolSize - n \in 0 .. PoolSize /\ g[n] = f[PoolSize - n]
  BY <1>1
<1>3. g \in [0 .. PoolSize -> Handles]
  BY <1>2
<1> HIDE DEF g
<1>4. ASSUME NEW n \in 1 .. PoolSize PROVE r[g[n]] < r[g[n - 1]]
  <2>1. /\ n \in 0 .. PoolSize /\ n - 1 \in 0 .. PoolSize
        /\ PoolSize - (n - 1) \in 1 .. PoolSize
        /\ PoolSize - (n - 1) - 1 = PoolSize - n
    BY <1>1
  <2>2. r[f[PoolSize - n]] < r[f[PoolSize - (n - 1)]]
    BY <2>1
  <2> QED
    BY <1>2, <2>1, <2>2
<1> QED
  BY <1>3, <1>4, NoEndlessWalk

\* The way up from anywhere stays on commands, the root and CLI_CMD_INVALID, and ends
\* at one of the last two.
LEMMA ClimbEnds ==
  ASSUME NEW p, PoolOK(p), NEW node \in InUse(p) \cup {ROOT, INVALID}
  PROVE  /\ \A n \in 0 .. PoolSize : Climb(p, node)[n] \in InUse(p) \cup {ROOT, INVALID}
         /\ Climb(p, node)[PoolSize] \in {ROOT, INVALID}
<1> DEFINE up == Climb(p, node)
           S == {n \in 0 .. PoolSize : up[n] \in InUse(p) \cup {ROOT, INVALID}}
<1>1. /\ PoolSize \in Nat /\ p \in Pools /\ InUse(p) \subseteq Handles /\ node \in Places
      /\ ROOT \notin InUse(p) /\ INVALID \notin InUse(p)
  BY PoolAssumption, PlacesApart, InUseIs DEF PoolOK
<1>2. /\ up \in [0 .. PoolSize -> Places] /\ up[0] = node
      /\ \A n \in 1 .. PoolSize : up[n] = Above(p, up[n - 1])
  BY <1>1, ClimbIs
<1> HIDE DEF up
<1>3. 0 \in S
  BY <1>1, <1>2
<1>4. ASSUME NEW n \in 1 .. PoolSize, n - 1 \in S PROVE n \in S
  BY <1>1, <1>2, <1>4 DEF Above, PoolOK, Linked
<1>5. \A n \in 0 .. PoolSize : n \in S
  <2> HIDE DEF S
  <2> QED
    BY <1>1, <1>3, <1>4, Induction
<1>6. PoolSize \in 0 .. PoolSize
  BY <1>1
<1>7. up[PoolSize] \notin InUse(p)
  <2>1. SUFFICES ASSUME up[PoolSize] \in InUse(p) PROVE FALSE
    OBVIOUS
  <2>2. ASSUME NEW n \in 0 .. PoolSize PROVE up[n] \in InUse(p)
    <3>1. up[n] \notin InUse(p) => up[PoolSize] = up[n]
      BY <1>1, <1>6, ClimbStops DEF up
    <3> QED
      BY <2>1, <3>1
  <2>3. up \in [0 .. PoolSize -> Handles]
    BY <1>1, <1>2, <2>2
  <2>4. PICK r : Ranks(p, r)
    BY DEF PoolOK, Ranked
  <2>5. \A n \in 1 .. PoolSize : r[up[n]] < r[up[n - 1]]
    <3>1. \A n \in 1 .. PoolSize : n - 1 \in 0 .. PoolSize /\ n \in 0 .. PoolSize
      BY <1>1
    <3> QED
      BY <1>2, <2>2, <2>4, <3>1 DEF Ranks, Above
  <2> QED
    BY <2>3, <2>4, <2>5, NoEndlessWalk DEF Ranks
<1> QED
  BY <1>5, <1>6, <1>7 DEF up

-----------------------------------------------------------------------------
(* Trees: a sound pool, its counter, and levels that lie in it             *)

Live(n, p) == \A i \in 1 .. Len(Levels(n)) : Levels(n)[i].context \in InUse(p) \cup {ROOT}

\* 'exit' leads out of every level in the end.
Floored(n) == Levels(n)[1].context = ROOT /\ Levels(n)[1].mode = "exec"

NavOK(n, p) == NavFits(n) /\ Live(n, p) /\ Floored(n)

TreeOK(t) ==
  PoolOK(t.pool) /\ t.count = Cardinality(InUse(t.pool)) /\ NavOK(t.nav, t.pool)

Trees == {t \in [pool : Pools, count : Nat, nav : Navs] : TreeOK(t)}

LEMMA TreesAre ==
  ASSUME NEW p, NEW k, NEW n, PoolOK(p), k = Cardinality(InUse(p)), NavOK(n, p)
  PROVE  [pool |-> p, count |-> k, nav |-> n] \in Trees
<1>1. p \in Pools /\ k \in Nat /\ n \in Navs
  BY UseIsFinite DEF PoolOK, NavOK, NavFits
<1> QED
  BY <1>1 DEF Trees, TreeOK

\* A level at the top of the array is the last saved one; without any, the current one.
LEMMA FloorIs ==
  ASSUME NEW n, NavFits(n)
  PROVE  /\ n.stack = <<>> => Levels(n)[1] = Frame(n)
         /\ n.stack # <<>> => Levels(n)[1] = n.stack[1]
<1>1. Len(n.stack) \in Nat /\ n.stack \in Seq(Frames)
  BY DEF NavFits, Navs
<1>2. n.stack # <<>> => 1 \in 1 .. Len(n.stack)
  BY <1>1
<1>3. n.stack = <<>> => Len(n.stack) = 0
  OBVIOUS
<1> QED
  BY <1>1, <1>2, <1>3, LevelsIs

\* Live and Floored in terms of the record's own fields.
LEMMA NavOKIs ==
  ASSUME NEW n, NavFits(n), NEW p
  PROVE  NavOK(n, p) <=>
           /\ n.context \in InUse(p) \cup {ROOT}
           /\ \A i \in 1 .. Len(n.stack) : n.stack[i].context \in InUse(p) \cup {ROOT}
           /\ n.stack = <<>> => n.context = ROOT /\ n.mode = "exec"
           /\ n.stack # <<>> => n.stack[1].context = ROOT /\ n.stack[1].mode = "exec"
<1> DEFINE L == Levels(n)
           K == Len(n.stack)
<1>1. /\ Len(L) = K + 1 /\ K \in Nat /\ L[K + 1] = Frame(n)
      /\ \A i \in 1 .. K : L[i] = n.stack[i]
  BY LevelsIs
<1>2. Frame(n).context = n.context /\ Frame(n).mode = n.mode
  BY DEF Frame
<1>3. /\ n.stack = <<>> => L[1] = Frame(n)
      /\ n.stack # <<>> => L[1] = n.stack[1]
  BY FloorIs
<1> HIDE DEF L, K
<1>4. (\A i \in 1 .. Len(L) : L[i].context \in InUse(p) \cup {ROOT}) <=>
        /\ n.context \in InUse(p) \cup {ROOT}
        /\ \A i \in 1 .. K : n.stack[i].context \in InUse(p) \cup {ROOT}
  <2>1. \A i \in 1 .. Len(L) : i = K + 1 \/ i \in 1 .. K
    BY <1>1
  <2>2. K + 1 \in 1 .. Len(L) /\ \A i \in 1 .. K : i \in 1 .. Len(L)
    BY <1>1
  <2> QED
    BY <1>1, <1>2, <2>1, <2>2
<1>5. Live(n, p) <=> \A i \in 1 .. Len(L) : L[i].context \in InUse(p) \cup {ROOT}
  BY DEF Live, L
<1>6. Floored(n) <=> /\ n.stack = <<>> => n.context = ROOT /\ n.mode = "exec"
                     /\ n.stack # <<>> => n.stack[1].context = ROOT /\ n.stack[1].mode = "exec"
  BY <1>2, <1>3 DEF Floored, L
<1> QED
  BY <1>4, <1>5, <1>6 DEF NavOK, K

LEMMA NavInitOK ==
  ASSUME NEW p PROVE NavOK(NavInit, p)
<1>1. NavFits(NavInit)
  BY NavInitFits
<1>2. NavInit.stack = <<>> /\ NavInit.context = ROOT /\ NavInit.mode = "exec"
  BY DEF NavInit
<1>3. \A i \in 1 .. Len(NavInit.stack) : FALSE
  BY <1>2
<1> QED
  BY <1>1, <1>2, <1>3, NavOKIs

LEMMA PushOK ==
  ASSUME NEW n, NEW p, NavOK(n, p), CanPush(n),
         NEW m \in Modes, NEW x \in InUse(p) \cup {ROOT}, InUse(p) \subseteq Handles
  PROVE  NavOK([NavPush(n) EXCEPT !.mode = m, !.context = x], p)
<1> DEFINE e == [NavPush(n) EXCEPT !.mode = m, !.context = x]
           s == Append(n.stack, Frame(n))
<1>1. NavFits(n) /\ NavFits(NavPush(n)) /\ n.stack \in Seq(Frames) /\ Frame(n) \in Frames
  BY NavPushFits DEF NavOK
<1>2. x \in Contexts
  BY PoolAssumption
<1>3. NavPush(n).stack = s
  BY <1>1 DEF NavPush, NavFits, Navs
<1>4. e \in Navs /\ e.stack = s /\ e.mode = m /\ e.context = x
  BY <1>1, <1>2, <1>3 DEF NavFits, Navs
<1>5. NavFits(e)
  BY <1>1, <1>3, <1>4 DEF NavFits
<1>6. /\ Len(s) = Len(n.stack) + 1 /\ Len(n.stack) \in Nat /\ s # <<>>
      /\ s[Len(n.stack) + 1] = Frame(n) /\ \A i \in 1 .. Len(n.stack) : s[i] = n.stack[i]
  BY <1>1
<1>7. Frame(n).context = n.context /\ Frame(n).mode = n.mode
  BY DEF Frame
<1> HIDE DEF e, s
<1>8. /\ n.context \in InUse(p) \cup {ROOT}
      /\ \A i \in 1 .. Len(n.stack) : n.stack[i].context \in InUse(p) \cup {ROOT}
      /\ n.stack = <<>> => n.context = ROOT /\ n.mode = "exec"
      /\ n.stack # <<>> => n.stack[1].context = ROOT /\ n.stack[1].mode = "exec"
  BY <1>1, NavOKIs
<1>9. \A i \in 1 .. Len(s) : s[i].context \in InUse(p) \cup {ROOT}
  BY <1>6, <1>7, <1>8
<1>10. s[1].context = ROOT /\ s[1].mode = "exec"
  <2>1. CASE n.stack = <<>>
    <3>1. s[1] = Frame(n)
      BY <1>6, <2>1
    <3> QED
      BY <1>7, <1>8, <2>1, <3>1
  <2>2. CASE n.stack # <<>>
    <3>1. 1 \in 1 .. Len(n.stack)
      BY <1>1, <2>2
    <3> QED
      BY <1>6, <1>8, <2>2, <3>1
  <2> QED
    BY <2>1, <2>2
<1> QED
  BY <1>4, <1>5, <1>6, <1>9, <1>10, NavOKIs DEF e

LEMMA ReturnOK ==
  ASSUME NEW n, NEW p, NavOK(n, p), NEW i \in 1 .. Len(n.stack)
  PROVE  NavOK(NavReturn(n, i), p)
<1> DEFINE e == NavReturn(n, i)
           s == SubSeq(n.stack, 1, i - 1)
<1>1. NavFits(n) /\ NavFits(e) /\ n.stack \in Seq(Frames)
  BY NavReturnFits DEF NavOK, NavFits, Navs
<1>2. e.stack = s /\ e.mode = n.stack[i].mode /\ e.context = n.stack[i].context
  BY DEF NavReturn
<1>3. /\ Len(s) = i - 1 /\ \A j \in 1 .. i - 1 : s[j] = n.stack[j]
      /\ s = <<>> <=> i = 1
  BY <1>1
<1>4. /\ \A j \in 1 .. Len(n.stack) : n.stack[j].context \in InUse(p) \cup {ROOT}
      /\ n.stack # <<>> => n.stack[1].context = ROOT /\ n.stack[1].mode = "exec"
  BY <1>1, NavOKIs
<1>5. n.stack # <<>> /\ Len(n.stack) \in Nat
  BY <1>1
<1> HIDE DEF e, s
<1>6. \A j \in 1 .. Len(s) : s[j].context \in InUse(p) \cup {ROOT}
  BY <1>3, <1>4, <1>5
<1>7. s # <<>> => s[1] = n.stack[1]
  BY <1>3, <1>5
<1> QED
  BY <1>1, <1>2, <1>3, <1>4, <1>5, <1>6, <1>7, NavOKIs DEF e

LEMMA SetModeOK ==
  ASSUME NEW n, NEW p, NavOK(n, p), NEW m \in Modes, InUse(p) \subseteq Handles
  PROVE  NavOK(SetMode(n, m), p)
<1>1. CASE m = n.mode \/ ~CanSetMode(n, m)
  BY <1>1 DEF SetMode
<1>2. CASE ~(m = n.mode \/ ~CanSetMode(n, m)) /\ LevelsIn(n, m) # {}
  <2>1. Topmost(n, m) \in 1 .. Len(n.stack)
    BY <1>2, TopmostIsALevel DEF LevelsIn, NavFits, NavOK
  <2> QED
    BY <1>2, <2>1, ReturnOK DEF SetMode
<1>3. CASE ~(m = n.mode \/ ~CanSetMode(n, m)) /\ LevelsIn(n, m) = {}
  <2>1. CanPush(n)
    BY <1>3 DEF CanSetMode
  <2>2. NavOK([NavPush(n) EXCEPT !.mode = m, !.context = ROOT], p)
    BY <2>1, PushOK
  <2> QED
    BY <1>3, <2>2 DEF SetMode
<1> QED
  BY <1>1, <1>2, <1>3

LEMMA SetPrivilegeOK ==
  ASSUME NEW n, NEW p, NavOK(n, p), NEW v \in Privileges
  PROVE  NavOK(SetPrivilege(n, v), p)
<1> DEFINE e == SetPrivilege(n, v)
<1>1. NavFits(n) /\ NavFits(e)
  BY SetPrivilegeFits DEF NavOK
<1>2. e.stack = n.stack /\ e.mode = n.mode /\ e.context = n.context
  BY <1>1 DEF SetPrivilege, NavFits, Navs
<1> HIDE DEF e
<1>3. NavOK(e, p) <=> NavOK(n, p)
  BY <1>1, <1>2, NavOKIs
<1> QED
  BY <1>3 DEF e

LEMMA ResetOK ==
  ASSUME NEW n, NEW p, NavOK(n, p)
  PROVE  NavOK(NavReset(n), p)
<1> DEFINE e == NavReset(n)
<1>1. NavFits(n) /\ NavFits(e)
  BY NavResetFits DEF NavOK
<1>2. e.stack = <<>> /\ e.mode = "exec" /\ e.context = ROOT
  BY <1>1 DEF NavReset, NavFits, Navs
<1> HIDE DEF e
<1>3. \A i \in 1 .. Len(e.stack) : FALSE
  BY <1>2
<1>4. NavOK(e, p)
  BY <1>1, <1>2, <1>3, NavOKIs
<1> QED
  BY <1>4 DEF e

\* The depth a command started at is at least 0: with more levels now, the first is
\* a saved one.
LEMMA EnterContextOK ==
  ASSUME NEW n, NEW p, NavOK(n, p), NEW x \in InUse(p), NEW d \in Nat, InUse(p) \subseteq Handles
  PROVE  NavOK(EnterContext(n, x, d), p)
<1> DEFINE e == [n EXCEPT !.context = x]
<1>1. CASE n.context = x \/ ~CanEnterContext(n, x, d)
  BY <1>1 DEF EnterContext
<1>2. CASE ~(n.context = x \/ ~CanEnterContext(n, x, d)) /\ Len(n.stack) > d
  <2>1. NavFits(n) /\ x \in Contexts
    BY PoolAssumption DEF NavOK
  <2>2. e.stack = n.stack /\ e.context = x /\ NavFits(e)
    BY <2>1 DEF NavFits, Navs
  <2>3. n.stack # <<>>
    BY <1>2, <2>1 DEF NavFits, Navs
  <2>4. EnterContext(n, x, d) = e
    BY <1>2 DEF EnterContext
  <2> HIDE DEF e
  <2>5. NavOK(e, p)
    BY <2>1, <2>2, <2>3, NavOKIs
  <2> QED
    BY <2>4, <2>5
<1>3. CASE ~(n.context = x \/ ~CanEnterContext(n, x, d)) /\ ~(Len(n.stack) > d)
  <2>1. CanPush(n) /\ NavFits(n)
    BY <1>3 DEF CanEnterContext, NavOK
  <2>2. NavPush(n).mode = n.mode /\ n.mode \in Modes /\ NavPush(n) \in Navs
    BY <2>1, NavPushFits DEF NavPush, NavFits, Navs
  <2>3. [NavPush(n) EXCEPT !.mode = n.mode, !.context = x] = [NavPush(n) EXCEPT !.context = x]
    BY <2>2 DEF Navs
  <2>4. NavOK([NavPush(n) EXCEPT !.mode = n.mode, !.context = x], p)
    BY <2>1, <2>2, PushOK
  <2> QED
    BY <1>3, <2>3, <2>4 DEF EnterContext
<1> QED
  BY <1>1, <1>2, <1>3

-----------------------------------------------------------------------------
(* Removal                                                                 *)

\* Where the levels in a removed command go.
Replacement(p, h) == IF p[h].parent \in InUse(p) THEN p[h].parent ELSE ROOT

LEMMA RemoveIs ==
  ASSUME NEW t, NEW h
  PROVE  /\ Remove(t, h).pool = Without(t.pool, h) /\ Remove(t, h).count = t.count - 1
         /\ Remove(t, h).nav = Relocate(t.pool, t.nav, h, Replacement(t.pool, h))
         /\ Remove(t, h) = [pool |-> Remove(t, h).pool, count |-> Remove(t, h).count,
                            nav |-> Remove(t, h).nav]
  BY DEF Remove, Without, Replacement

LEMMA ParentIsOther ==
  ASSUME NEW p, PoolOK(p), NEW h \in InUse(p)
  PROVE  /\ p[h].parent # h /\ Replacement(p, h) \in (InUse(p) \ {h}) \cup {ROOT}
         /\ Replacement(p, h) \in Contexts
<1>1. PICK r : Ranks(p, r)
  BY DEF PoolOK, Ranked
<1>2. h \in Handles /\ InUse(p) \subseteq Handles
  BY InUseIs DEF PoolOK
<1>3. p[h].parent # h
  <2>1. SUFFICES ASSUME p[h].parent = h PROVE FALSE
    OBVIOUS
  <2>2. r[h] < r[h] /\ r[h] \in Nat
    BY <1>1, <1>2, <2>1 DEF Ranks
  <2> QED
    BY <2>2
<1> QED
  BY <1>2, <1>3, PoolAssumption DEF Replacement

LEMMA RaisedIsLive ==
  ASSUME NEW p, PoolOK(p), NEW h \in InUse(p), NEW f \in Frames, f.context \in InUse(p) \cup {ROOT}
  PROVE  /\ Raised(p, f, h, Replacement(p, h)).context \in (InUse(p) \ {h}) \cup {ROOT}
         /\ f.context = ROOT => Raised(p, f, h, Replacement(p, h)) = f
<1> DEFINE q == Replacement(p, h)
<1>1. q \in Contexts /\ q \in (InUse(p) \ {h}) \cup {ROOT}
  BY ParentIsOther
<1>2. /\ Within(p, f.context, h) => Raised(p, f, h, q).context = q
      /\ ~ Within(p, f.context, h) => Raised(p, f, h, q) = f
  BY <1>1, RaisedTyped
<1>3. p \in Pools /\ h \in Places /\ h # ROOT /\ ROOT \notin InUse(p) /\ ROOT \in Places
  BY InUseIs, PlacesApart DEF PoolOK
<1>4. f.context = h => Within(p, f.context, h)
  BY <1>3, WithinItself
<1>5. f.context = ROOT => ~ Within(p, f.context, h)
  BY <1>3, OutsideIsNotWithin
<1> HIDE DEF q
<1>6. Raised(p, f, h, q).context \in (InUse(p) \ {h}) \cup {ROOT}
  BY <1>1, <1>2, <1>4
<1>7. f.context = ROOT => Raised(p, f, h, q) = f
  BY <1>2, <1>5
<1> QED
  BY <1>6, <1>7 DEF q

LEMMA RelocateOK ==
  ASSUME NEW p, PoolOK(p), NEW h \in InUse(p), NEW n, NavOK(n, p), NEW w, InUse(w) = InUse(p) \ {h}
  PROVE  NavOK(Relocate(p, n, h, Replacement(p, h)), w)
<1> DEFINE q == Replacement(p, h)
           e == Relocate(p, n, h, q)
           old == Levels(n)
           new == Levels(e)
<1>1. NavFits(n) /\ q \in Contexts
  BY ParentIsOther DEF NavOK
<1>2. NavFits(e) /\ Relocated(old, new, p, h, q)
  BY <1>1, RelocateIs
<1>3. /\ \A j \in 1 .. Len(old) : old[j] \in Frames /\ old[j].context \in InUse(p) \cup {ROOT}
      /\ 1 \in 1 .. Len(old) /\ old[1].context = ROOT /\ old[1].mode = "exec"
  BY <1>1, LevelsIs DEF NavOK, Live, Floored
<1>4. /\ new[1] = Raised(p, old[1], h, q)
      /\ \A i \in 1 .. Len(new) : \E j \in 1 .. Len(old) : new[i] = Raised(p, old[j], h, q)
  BY <1>2 DEF Relocated
<1> HIDE DEF old, new
<1>5. \A j \in 1 .. Len(old) :
        /\ Raised(p, old[j], h, q).context \in (InUse(p) \ {h}) \cup {ROOT}
        /\ old[j].context = ROOT => Raised(p, old[j], h, q) = old[j]
  BY <1>3, RaisedIsLive
<1>6. new[1] = old[1]
  BY <1>3, <1>4, <1>5
<1>7. \A i \in 1 .. Len(new) : new[i].context \in InUse(w) \cup {ROOT}
  BY <1>4, <1>5
<1> QED
  BY <1>2, <1>3, <1>6, <1>7 DEF NavOK, Live, Floored, new

LEMMA RemoveOK ==
  ASSUME NEW t \in Trees, NEW h \in InUse(t.pool)
  PROVE  Remove(t, h) \in Trees /\ InUse(Remove(t, h).pool) = InUse(t.pool) \ {h}
<1> DEFINE p == t.pool
           w == Without(p, h)
           e == Relocate(p, t.nav, h, Replacement(p, h))
<1>1. PoolOK(p) /\ t.count = Cardinality(InUse(p)) /\ NavOK(t.nav, p)
  BY DEF Trees, TreeOK
<1>2. PoolOK(w) /\ InUse(w) = InUse(p) \ {h} /\ Cardinality(InUse(w)) = Cardinality(InUse(p)) - 1
  BY <1>1, WithoutKeeps
<1>3. NavOK(e, w)
  <2> HIDE DEF w
  <2> QED
    BY <1>1, <1>2, RelocateOK
<1>4. Remove(t, h).pool = w /\ Remove(t, h) = [pool |-> w, count |-> t.count - 1, nav |-> e]
  BY RemoveIs
<1> HIDE DEF p, w, e
<1>5. t.count - 1 = Cardinality(InUse(w))
  BY <1>1, <1>2
<1>6. Remove(t, h) \in Trees
  BY <1>2, <1>3, <1>4, <1>5, TreesAre
<1> QED
  BY <1>2, <1>4, <1>6 DEF p

-----------------------------------------------------------------------------
(* Removal of a subtree: leaf by leaf                                      *)

LEMMA BelowIs ==
  ASSUME NEW p \in Pools, NEW x \in InUse(p)
  PROVE  /\ Below(p, x) \in InUse(p)
         /\ Children(p, x) # {} => p[Below(p, x)].parent = x
         /\ Children(p, x) = {} => Below(p, x) = x
<1>1. Children(p, x) \subseteq InUse(p) /\ InUse(p) \subseteq Nat
  BY InUseIs, PoolAssumption DEF Children, Handles
<1>2. CASE Children(p, x) # {}
  <2> DEFINE S == Children(p, x)
  <2>1. \E c \in S : \A d \in S : c <= d
    BY <1>1, <1>2, Least
  <2>2. Below(p, x) \in S
    BY <1>2, <2>1 DEF Below
  <2> QED
    BY <1>1, <1>2, <2>2 DEF Children
<1>3. CASE Children(p, x) = {}
  BY <1>3 DEF Below
<1> QED
  BY <1>2, <1>3

\* The way up from a node that the way up from another meets is the rest of that one.
LEMMA RestOfTheWay ==
  ASSUME NEW p \in Pools, NEW x \in Places, NEW m \in 0 .. PoolSize
  PROVE  \A n \in m .. PoolSize : Climb(p, Climb(p, x)[m])[n - m] = Climb(p, x)[n]
<1> DEFINE up == Climb(p, x)
           y == up[m]
           uy == Climb(p, y)
           S == {n \in 0 .. PoolSize : m <= n => uy[n - m] = up[n]}
<1>1. PoolSize \in Nat /\ up \in [0 .. PoolSize -> Places]
  BY PoolAssumption, ClimbIs
<1>2. y \in Places
  BY <1>1
<1>3. \A n \in 1 .. PoolSize : up[n] = Above(p, up[n - 1])
  BY ClimbIs
<1> HIDE DEF up, y
<1>4. uy[0] = y /\ \A n \in 1 .. PoolSize : uy[n] = Above(p, uy[n - 1])
  BY <1>2, ClimbIs
<1> HIDE DEF uy
<1>5. 0 \in S
  BY <1>1, <1>4 DEF y
<1>6. ASSUME NEW n \in 1 .. PoolSize, n - 1 \in S PROVE n \in S
  <2>1. CASE m <= n - 1
    <3>1. n - m \in 1 .. PoolSize /\ n - m - 1 = n - 1 - m
      BY <1>1, <2>1
    <3>2. uy[n - m] = Above(p, uy[n - m - 1]) /\ uy[n - 1 - m] = up[n - 1]
      BY <1>4, <1>6, <2>1, <3>1
    <3> QED
      BY <1>1, <1>3, <3>1, <3>2
  <2>2. CASE m = n
    <3>1. n - m = 0 /\ up[n] = y
      BY <1>1, <2>2 DEF y
    <3> QED
      BY <1>1, <1>4, <3>1
  <2>3. CASE n < m
    BY <1>1, <2>3
  <2> QED
    BY <1>1, <2>1, <2>2, <2>3
<1>7. \A n \in 0 .. PoolSize : n \in S
  <2> HIDE DEF S
  <2> QED
    BY <1>1, <1>5, <1>6, Induction
<1> QED
  BY <1>1, <1>7 DEF up, y, uy

\* Such a node is within exactly the commands that the rest of the way meets.
LEMMA WithinFrom ==
  ASSUME NEW p, PoolOK(p), NEW x \in InUse(p) \cup {ROOT, INVALID}, NEW m \in 0 .. PoolSize,
         NEW h \in InUse(p)
  PROVE  Within(p, Climb(p, x)[m], h) <=> \E n \in m .. PoolSize : Climb(p, x)[n] = h
<1> DEFINE up == Climb(p, x)
           y == up[m]
           uy == Climb(p, y)
<1>1. /\ PoolSize \in Nat /\ p \in Pools /\ x \in Places
      /\ ROOT \notin InUse(p) /\ INVALID \notin InUse(p)
  BY PoolAssumption, InUseIs, PlacesApart DEF PoolOK
<1>2. up \in [0 .. PoolSize -> Places]
  BY <1>1, ClimbIs
<1>3. \A n \in m .. PoolSize : uy[n - m] = up[n]
  BY <1>1, RestOfTheWay
<1>4. up[PoolSize] \notin InUse(p)
  BY <1>1, ClimbEnds
<1>5. y \in Places
  BY <1>2
<1> HIDE DEF up, y
<1>6. ASSUME NEW n \in m .. PoolSize, up[n] = h PROVE Within(p, y, h)
  <2>1. n - m \in 0 .. PoolSize
    BY <1>1
  <2> QED
    BY <1>3, <1>6, <2>1 DEF Within
<1>7. ASSUME Within(p, y, h) PROVE \E n \in m .. PoolSize : up[n] = h
  <2>1. PICK i \in 0 .. PoolSize : uy[i] = h
    BY <1>7 DEF Within
  <2>2. PoolSize \in m .. PoolSize /\ PoolSize - m \in 0 .. PoolSize
    BY <1>1
  <2>3. uy[PoolSize - m] \notin InUse(p)
    BY <1>3, <1>4, <2>2
  <2>4. PoolSize - m <= i => uy[i] = uy[PoolSize - m]
    BY <1>1, <1>5, <2>2, <2>3, ClimbStops
  <2> HIDE DEF uy
  <2>5. i < PoolSize - m
    BY <1>1, <2>1, <2>2, <2>3, <2>4
  <2>6. m + i \in m .. PoolSize /\ m + i - m = i
    BY <1>1, <2>5
  <2> QED
    BY <1>3, <2>1, <2>6
<1> QED
  BY <1>6, <1>7 DEF up, y

\* What is below a node is within whatever the node is within.
LEMMA ChildIsWithin ==
  ASSUME NEW p, PoolOK(p), NEW x \in InUse(p), NEW c \in InUse(p), p[c].parent = x,
         NEW h \in InUse(p), Within(p, x, h)
  PROVE  Within(p, c, h)
<1>1. PoolSize \in Nat /\ p \in Pools /\ c \in Places /\ h # ROOT /\ h # INVALID
  BY PoolAssumption, InUseIs, PlacesApart DEF PoolOK
<1>2. Climb(p, c)[0] = c /\ \A n \in 1 .. PoolSize : Climb(p, c)[n] = Above(p, Climb(p, c)[n - 1])
  BY <1>1, ClimbIs
<1>3. Climb(p, c)[PoolSize] # c
  BY <1>1, ClimbEnds, InUseIs, PlacesApart
<1>4. 1 \in 0 .. PoolSize /\ 1 \in 1 .. PoolSize /\ 1 - 1 = 0
  BY <1>1, <1>2, <1>3
<1>5. Climb(p, c)[1] = x
  BY <1>2, <1>4 DEF Above
<1>6. PICK n \in 1 .. PoolSize : Climb(p, c)[n] = h
  BY <1>4, <1>5, WithinFrom
<1> QED
  BY <1>1, <1>6 DEF Within

LEMMA FirstLeafIs ==
  ASSUME NEW p, PoolOK(p), NEW h \in InUse(p)
  PROVE  /\ FirstLeaf(p, h) \in InUse(p) /\ Children(p, FirstLeaf(p, h)) = {}
         /\ Within(p, FirstLeaf(p, h), h)
<1> DEFINE step == [n \in 1 .. PoolSize |-> [x \in InUse(p) |-> Below(p, x)]]
           Eq(down) == down = [n \in 0 .. PoolSize |->
                                 IF n = 0 THEN h ELSE Below(p, down[n - 1])]
<1>1. PoolSize \in Nat /\ p \in Pools /\ InUse(p) \subseteq Handles /\ h \in Places
  BY PoolAssumption, InUseIs, PlacesApart DEF PoolOK
<1>2. Steps(step, PoolSize, InUse(p))
  BY <1>1, BelowIs DEF Steps
<1>3. \A n \in 1 .. PoolSize, x \in InUse(p) : step[n][x] = Below(p, x)
  OBVIOUS
<1> HIDE DEF step
<1>4. PICK f : Built(f, PoolSize, InUse(p), h, step)
  BY <1>1, <1>2, Recursion
<1>5. Eq(f)
  <2>1. ASSUME NEW n \in 1 .. PoolSize PROVE f[n] = Below(p, f[n - 1])
    <3>1. f[n - 1] \in InUse(p)
      BY <1>1, <1>4 DEF Built
    <3> QED
      BY <1>3, <1>4, <3>1 DEF Built
  <2>2. f = [n \in 0 .. PoolSize |-> f[n]] /\ f[0] = h
    BY <1>4 DEF Built
  <2>3. \A n \in 0 .. PoolSize : n = 0 \/ n \in 1 .. PoolSize
    BY <1>1
  <2>4. \A n \in 0 .. PoolSize : f[n] = IF n = 0 THEN h ELSE Below(p, f[n - 1])
    BY <2>1, <2>2, <2>3
  <2> QED
    BY <2>2, <2>4
<1> DEFINE down == CHOOSE g : Eq(g)
<1>6. Eq(down) /\ FirstLeaf(p, h) = down[PoolSize]
  BY <1>5 DEF FirstLeaf
<1> HIDE DEF down
<1>7. down[0] = h /\ \A n \in 1 .. PoolSize : down[n] = Below(p, down[n - 1])
  BY <1>1, <1>6
<1> DEFINE S == {n \in 0 .. PoolSize : down[n] \in InUse(p) /\ Within(p, down[n], h)}
<1>8. 0 \in S
  BY <1>1, <1>7, WithinItself
<1>9. ASSUME NEW n \in 1 .. PoolSize, n - 1 \in S PROVE n \in S
  <2> DEFINE x == down[n - 1]
             y == down[n]
  <2>1. x \in InUse(p) /\ Within(p, x, h) /\ y = Below(p, x)
    BY <1>7, <1>9
  <2> HIDE DEF x, y
  <2>2. /\ y \in InUse(p) /\ (Children(p, x) # {} => p[y].parent = x)
        /\ (Children(p, x) = {} => y = x)
    BY <1>1, <2>1, BelowIs
  <2>3. Within(p, y, h)
    BY <2>1, <2>2, ChildIsWithin
  <2> QED
    BY <1>1, <2>2, <2>3 DEF y
<1>10. \A n \in 0 .. PoolSize : n \in S
  <2> HIDE DEF S
  <2> QED
    BY <1>1, <1>8, <1>9, Induction
<1>11. ASSUME NEW m \in 0 .. PoolSize, Children(p, down[m]) = {}
       PROVE  Children(p, down[PoolSize]) = {}
  <2> DEFINE T == {n \in 0 .. PoolSize : m <= n => Children(p, down[n]) = {}}
  <2>1. 0 \in T
    BY <1>1, <1>11
  <2>2. ASSUME NEW n \in 1 .. PoolSize, n - 1 \in T PROVE n \in T
    <3>1. CASE m <= n - 1
      <4>1. Children(p, down[n - 1]) = {}
        BY <2>2, <3>1
      <4>2. down[n] = down[n - 1]
        BY <1>7, <4>1 DEF Below
      <4> QED
        BY <1>1, <4>1, <4>2
    <3>2. CASE m = n
      BY <1>1, <1>11, <3>2
    <3>3. CASE n < m
      BY <1>1, <3>3
    <3> QED
      BY <1>1, <3>1, <3>2, <3>3
  <2>3. \A n \in 0 .. PoolSize : n \in T
    <3> HIDE DEF T
    <3> QED
      BY <1>1, <2>1, <2>2, Induction
  <2> QED
    BY <1>1, <2>3
<1>12. Children(p, down[PoolSize]) = {}
  <2>1. SUFFICES ASSUME Children(p, down[PoolSize]) # {} PROVE FALSE
    OBVIOUS
  <2>2. PICK r : Ranks(p, r)
    BY DEF PoolOK, Ranked
  <2>3. down \in [0 .. PoolSize -> Handles]
    <3>1. \A n \in 0 .. PoolSize : down[n] \in Handles
      BY <1>1, <1>10
    <3>2. down = [n \in 0 .. PoolSize |-> down[n]]
      BY <1>6
    <3> QED
      BY <3>1, <3>2
  <2>4. ASSUME NEW n \in 1 .. PoolSize PROVE r[down[n - 1]] < r[down[n]]
    <3>1. n - 1 \in 0 .. PoolSize /\ n \in 0 .. PoolSize
      BY <1>1
    <3>2. Children(p, down[n - 1]) # {} /\ down[n - 1] \in InUse(p) /\ down[n] \in InUse(p)
      BY <1>10, <1>11, <2>1, <3>1
    <3>3. p[down[n]].parent = down[n - 1]
      BY <1>1, <1>7, <3>2, BelowIs
    <3> QED
      BY <2>2, <3>2, <3>3 DEF Ranks
  <2> QED
    BY <2>2, <2>3, <2>4, NoEndlessDescent DEF Ranks
<1>13. PoolSize \in 0 .. PoolSize
  BY <1>1
<1> QED
  BY <1>6, <1>10, <1>12, <1>13

-----------------------------------------------------------------------------
(* What is left of a pool while a subtree is removed from the leaves up    *)

Remains(p, q) ==
  /\ PoolOK(p) /\ PoolOK(q) /\ InUse(q) \subseteq InUse(p)
  /\ \A g \in InUse(q) : q[g] = p[g]

LEMMA SameWay ==
  ASSUME NEW p, NEW q, Remains(p, q), NEW x \in InUse(q) \cup {ROOT, INVALID}
  PROVE  \A n \in 0 .. PoolSize : Climb(q, x)[n] = Climb(p, x)[n]
<1> DEFINE up == Climb(p, x)
           uq == Climb(q, x)
           S == {n \in 0 .. PoolSize : uq[n] = up[n]}
<1>1. /\ PoolSize \in Nat /\ p \in Pools /\ q \in Pools /\ PoolOK(q) /\ x \in Places
      /\ ROOT \notin InUse(p) /\ INVALID \notin InUse(p) /\ InUse(q) \subseteq InUse(p)
      /\ \A g \in InUse(q) : q[g] = p[g]
  BY PoolAssumption, InUseIs, PlacesApart DEF PoolOK, Remains
<1>2. /\ up[0] = x /\ \A n \in 1 .. PoolSize : up[n] = Above(p, up[n - 1])
      /\ uq[0] = x /\ \A n \in 1 .. PoolSize : uq[n] = Above(q, uq[n - 1])
  BY <1>1, ClimbIs
<1>3. \A n \in 0 .. PoolSize : uq[n] \in InUse(q) \cup {ROOT, INVALID}
  BY <1>1, ClimbEnds
<1> HIDE DEF up, uq
<1>4. 0 \in S
  BY <1>1, <1>2
<1>5. ASSUME NEW n \in 1 .. PoolSize, n - 1 \in S PROVE n \in S
  <2>1. n \in 0 .. PoolSize /\ n - 1 \in 0 .. PoolSize
    BY <1>1
  <2>2. uq[n - 1] = up[n - 1] /\ uq[n - 1] \in InUse(q) \cup {ROOT, INVALID}
    BY <1>3, <1>5, <2>1
  <2>3. Above(q, uq[n - 1]) = Above(p, up[n - 1])
    BY <1>1, <2>2 DEF Above
  <2> QED
    BY <1>2, <2>1, <2>3
<1>6. \A n \in 0 .. PoolSize : n \in S
  <2> HIDE DEF S
  <2> QED
    BY <1>1, <1>4, <1>5, Induction
<1> QED
  BY <1>6 DEF up, uq

LEMMA SameWithin ==
  ASSUME NEW p, NEW q, Remains(p, q), NEW x \in InUse(q) \cup {ROOT, INVALID}, NEW h
  PROVE  Within(q, x, h) <=> Within(p, x, h)
  BY SameWay DEF Within

LEMMA LeafRemains ==
  ASSUME NEW p, NEW q, Remains(p, q), NEW l \in InUse(q), Children(q, l) = {}
  PROVE  Remains(p, Without(q, l))
<1>1. PoolOK(q) /\ PoolOK(p) /\ InUse(q) \subseteq InUse(p) /\ \A g \in InUse(q) : q[g] = p[g]
  BY DEF Remains
<1>2. /\ PoolOK(Without(q, l)) /\ InUse(Without(q, l)) = InUse(q) \ {l}
      /\ \A g \in InUse(q) \ {l} : q[g].parent # l => Without(q, l)[g] = q[g]
  BY <1>1, WithoutKeeps
<1>3. \A g \in InUse(q) : q[g].parent # l
  BY DEF Children
<1> QED
  BY <1>1, <1>2, <1>3 DEF Remains

\* One round of cli_remove_command_recursive.
LeafOff(t, h) == IF h \in InUse(t.pool) THEN Remove(t, FirstLeaf(t.pool, h)) ELSE t

\* What holds after n rounds.
Leaves(t, h, n, left) ==
  /\ left \in Trees /\ Remains(t.pool, left.pool)
  /\ \A g \in InUse(t.pool) \ InUse(left.pool) : Within(t.pool, g, h)
  /\ h \in InUse(left.pool) => Cardinality(InUse(left.pool)) + n <= Cardinality(InUse(t.pool))

LEMMA LeafOffIs ==
  ASSUME NEW t \in Trees
  PROVE  \A h \in InUse(t.pool) :
           LET l == FirstLeaf(t.pool, h)
           IN  /\ l \in InUse(t.pool) /\ Children(t.pool, l) = {} /\ Within(t.pool, l, h)
               /\ LeafOff(t, h) = Remove(t, l) /\ LeafOff(t, h) \in Trees
               /\ LeafOff(t, h).pool = Without(t.pool, l)
               /\ LeafOff(t, h).nav = Relocate(t.pool, t.nav, l, Replacement(t.pool, l))
<1> TAKE h \in InUse(t.pool)
<1> DEFINE l == FirstLeaf(t.pool, h)
<1>1. PoolOK(t.pool)
  BY DEF Trees, TreeOK
<1>2. l \in InUse(t.pool) /\ Children(t.pool, l) = {} /\ Within(t.pool, l, h)
  BY <1>1, FirstLeafIs
<1>3. LeafOff(t, h) = Remove(t, l)
  BY DEF LeafOff
<1> HIDE DEF l
<1>4. /\ Remove(t, l) \in Trees /\ Remove(t, l).pool = Without(t.pool, l)
      /\ Remove(t, l).nav = Relocate(t.pool, t.nav, l, Replacement(t.pool, l))
  BY <1>2, RemoveOK, RemoveIs
<1> QED
  BY <1>2, <1>3, <1>4 DEF l

LEMMA LeavesNext ==
  ASSUME NEW t \in Trees, NEW h \in InUse(t.pool), NEW n \in Nat, NEW left, Leaves(t, h, n, left)
  PROVE  Leaves(t, h, n + 1, LeafOff(left, h))
<1>1. /\ left \in Trees /\ Remains(t.pool, left.pool)
      /\ \A g \in InUse(t.pool) \ InUse(left.pool) : Within(t.pool, g, h)
      /\ h \in InUse(left.pool) =>
           Cardinality(InUse(left.pool)) + n <= Cardinality(InUse(t.pool))
  BY DEF Leaves
<1>2. CASE h \notin InUse(left.pool)
  BY <1>1, <1>2 DEF Leaves, LeafOff
<1>3. CASE h \in InUse(left.pool)
  <2> DEFINE p == t.pool
             q == left.pool
             l == FirstLeaf(q, h)
             u == LeafOff(left, h)
  <2>1. /\ l \in InUse(q) /\ Children(q, l) = {} /\ Within(q, l, h)
        /\ u \in Trees /\ u.pool = Without(q, l)
    BY <1>1, <1>3, LeafOffIs
  <2> HIDE DEF p, q, l, u
  <2>2. PoolOK(q) /\ PoolOK(p) /\ q \in Pools /\ p \in Pools /\ InUse(q) \subseteq InUse(p)
    BY <1>1 DEF Remains, PoolOK, p, q
  <2>3. Remains(p, q)
    BY <1>1 DEF p, q
  <2>4. Remains(p, Without(q, l))
    BY <2>1, <2>3, LeafRemains
  <2>5. /\ InUse(Without(q, l)) = InUse(q) \ {l}
        /\ Cardinality(InUse(Without(q, l))) = Cardinality(InUse(q)) - 1
    BY <2>1, <2>2, WithoutKeeps
  <2>6. Within(p, l, h)
    BY <2>1, <2>3, SameWithin
  <2>7. \A g \in InUse(p) \ InUse(u.pool) : Within(p, g, h)
    BY <1>1, <2>1, <2>5, <2>6 DEF p, q
  <2>8. Cardinality(InUse(u.pool)) + (n + 1) <= Cardinality(InUse(p))
    <3>1. Cardinality(InUse(q)) + n <= Cardinality(InUse(p))
      BY <1>1, <1>3 DEF p, q
    <3>2. Cardinality(InUse(q)) \in Nat /\ Cardinality(InUse(p)) \in Nat
      BY <2>2, UseIsFinite
    <3> QED
      BY <2>1, <2>5, <3>1, <3>2
  <2>9. Leaves(t, h, n + 1, u)
    BY <2>1, <2>4, <2>7, <2>8 DEF Leaves, p
  <2> QED
    BY <2>9 DEF u
<1> QED
  BY <1>2, <1>3

\* The rounds of a recursive removal: a chain of trees from the first to the last.
Rounds(f, t, h) ==
  /\ f[0] = t /\ \A n \in 1 .. PoolSize : f[n] = LeafOff(f[n - 1], h)
  /\ f[PoolSize] = RemoveRecursive(t, h)

LEMMA RoundsAre ==
  ASSUME NEW t \in Trees, NEW h
  PROVE  \E f \in [0 .. PoolSize -> Trees] : Rounds(f, t, h)
<1> DEFINE step == [n \in 1 .. PoolSize |-> [x \in Trees |-> LeafOff(x, h)]]
           Eq(after) == after = [n \in 0 .. PoolSize |->
                                   IF n = 0 THEN t
                                   ELSE LET left == after[n - 1]
                                        IN IF h \in InUse(left.pool)
                                           THEN Remove(left, FirstLeaf(left.pool, h)) ELSE left]
<1>1. PoolSize \in Nat
  BY PoolAssumption
<1>2. \A x \in Trees : LeafOff(x, h) \in Trees
  <2> TAKE x \in Trees
  <2>1. CASE h \in InUse(x.pool)
    BY <2>1, LeafOffIs
  <2>2. CASE h \notin InUse(x.pool)
    BY <2>2 DEF LeafOff
  <2> QED
    BY <2>1, <2>2
<1>3. Steps(step, PoolSize, Trees)
  BY <1>2 DEF Steps
<1>4. \A n \in 1 .. PoolSize, x \in Trees : step[n][x] = LeafOff(x, h)
  OBVIOUS
<1> HIDE DEF step
<1>5. PICK f : Built(f, PoolSize, Trees, t, step)
  BY <1>1, <1>3, Recursion
<1>6. Eq(f)
  <2>1. ASSUME NEW n \in 1 .. PoolSize PROVE f[n] = LeafOff(f[n - 1], h)
    <3>1. f[n - 1] \in Trees
      BY <1>1, <1>5 DEF Built
    <3> QED
      BY <1>4, <1>5, <3>1 DEF Built
  <2>2. f = [n \in 0 .. PoolSize |-> f[n]] /\ f[0] = t
    BY <1>5 DEF Built
  <2>3. \A n \in 0 .. PoolSize : n = 0 \/ n \in 1 .. PoolSize
    BY <1>1
  <2> QED
    BY <2>1, <2>2, <2>3 DEF LeafOff
<1> DEFINE after == CHOOSE g : Eq(g)
<1>7. Eq(after) /\ RemoveRecursive(t, h) = after[PoolSize]
  BY <1>6 DEF RemoveRecursive
<1> HIDE DEF after
<1>8. after[0] = t /\ \A n \in 1 .. PoolSize : after[n] = LeafOff(after[n - 1], h)
  BY <1>1, <1>7 DEF LeafOff
<1>9. after = [n \in 0 .. PoolSize |-> after[n]]
  BY <1>7
<1> HIDE DEF Eq
<1> DEFINE S == {n \in 0 .. PoolSize : after[n] \in Trees}
<1>10. 0 \in S
  BY <1>1, <1>8
<1>11. ASSUME NEW n \in 1 .. PoolSize, n - 1 \in S PROVE n \in S
  BY <1>1, <1>2, <1>8, <1>11
<1>12. \A n \in 0 .. PoolSize : n \in S
  <2> HIDE DEF S
  <2> QED
    BY <1>1, <1>10, <1>11, Induction
<1>13. after \in [0 .. PoolSize -> Trees]
  BY <1>9, <1>12
<1> QED
  BY <1>7, <1>8, <1>13 DEF Rounds

LEMMA LeavesAre ==
  ASSUME NEW t \in Trees, NEW h \in InUse(t.pool),
         NEW f \in [0 .. PoolSize -> Trees], Rounds(f, t, h)
  PROVE  \A n \in 0 .. PoolSize : Leaves(t, h, n, f[n])
<1> DEFINE S == {n \in 0 .. PoolSize : Leaves(t, h, n, f[n])}
<1>1. PoolSize \in Nat /\ PoolOK(t.pool) /\ t.pool \in Pools
  BY PoolAssumption DEF Trees, TreeOK, PoolOK
<1>2. f[0] = t /\ \A n \in 1 .. PoolSize : f[n] = LeafOff(f[n - 1], h)
  BY DEF Rounds
<1>3. 0 \in S
  <2>1. Cardinality(InUse(t.pool)) \in Nat
    BY <1>1, UseIsFinite
  <2>2. Leaves(t, h, 0, t)
    BY <1>1, <2>1 DEF Leaves, Remains
  <2> QED
    BY <1>1, <1>2, <2>2
<1>4. ASSUME NEW n \in 1 .. PoolSize, n - 1 \in S PROVE n \in S
  <2>1. n - 1 \in Nat /\ n - 1 + 1 = n /\ n \in 0 .. PoolSize
    BY <1>1
  <2>2. Leaves(t, h, n - 1, f[n - 1])
    BY <1>4
  <2>3. Leaves(t, h, n - 1 + 1, LeafOff(f[n - 1], h))
    BY <2>1, <2>2, LeavesNext
  <2> QED
    BY <1>2, <2>1, <2>3
<1>5. \A n \in 0 .. PoolSize : n \in S
  <2> HIDE DEF S
  <2> QED
    BY <1>1, <1>3, <1>4, Induction
<1> QED
  BY <1>5

\* A recursive removal leaves a sound tree without the subtree, and nothing else is gone.
LEMMA RemoveRecursiveIs ==
  ASSUME NEW t \in Trees, NEW h \in InUse(t.pool)
  PROVE  /\ RemoveRecursive(t, h) \in Trees
         /\ InUse(RemoveRecursive(t, h).pool) \subseteq InUse(t.pool)
         /\ InUse(t.pool) \ InUse(RemoveRecursive(t, h).pool) =
              {g \in InUse(t.pool) : Within(t.pool, g, h)}
         /\ h \notin InUse(RemoveRecursive(t, h).pool)
<1> DEFINE p == t.pool
           u == RemoveRecursive(t, h)
           q == u.pool
<1>1. PoolSize \in Nat /\ PoolOK(p) /\ p \in Pools
  BY PoolAssumption DEF Trees, TreeOK, PoolOK
<1>2. PICK f \in [0 .. PoolSize -> Trees] : Rounds(f, t, h)
  BY RoundsAre
<1>3. PoolSize \in 0 .. PoolSize /\ f[PoolSize] = u
  BY <1>1, <1>2 DEF Rounds
<1>4. Leaves(t, h, PoolSize, u)
  BY <1>2, <1>3, LeavesAre
<1> HIDE DEF u
<1>5. /\ u \in Trees /\ Remains(p, q)
      /\ \A g \in InUse(p) \ InUse(q) : Within(p, g, h)
      /\ h \in InUse(q) => Cardinality(InUse(q)) + PoolSize <= Cardinality(InUse(p))
  BY <1>4 DEF Leaves
<1>6. InUse(q) \subseteq InUse(p) /\ PoolOK(q) /\ q \in Pools
  BY <1>5 DEF Remains, PoolOK
<1> HIDE DEF p, q
<1>7. h \notin InUse(q)
  <2>1. SUFFICES ASSUME h \in InUse(q) PROVE FALSE
    OBVIOUS
  <2>2. /\ Cardinality(InUse(p)) <= PoolSize /\ Cardinality(InUse(p)) \in Nat
        /\ Cardinality(InUse(q)) \in Nat /\ IsFiniteSet(InUse(q))
    BY <1>1, <1>6, UseIsFinite
  <2>3. Cardinality(InUse(q)) # 0
    BY <2>1, <2>2, FS_EmptySet
  <2> QED
    BY <1>1, <1>5, <2>1, <2>2, <2>3
<1>8. ASSUME NEW g \in InUse(p), Within(p, g, h) PROVE g \notin InUse(q)
  <2>1. SUFFICES ASSUME g \in InUse(q) PROVE FALSE
    OBVIOUS
  <2>2. PICK n \in 0 .. PoolSize : Climb(p, g)[n] = h
    BY <1>8 DEF Within
  <2>3. Climb(q, g)[n] = h
    BY <1>5, <2>1, <2>2, SameWay
  <2>4. Climb(q, g)[n] \in InUse(q) \cup {ROOT, INVALID}
    BY <1>6, <2>1, ClimbEnds
  <2>5. h # ROOT /\ h # INVALID
    BY <1>1, InUseIs, PlacesApart DEF p
  <2> QED
    BY <1>7, <2>3, <2>4, <2>5
<1>9. InUse(p) \ InUse(q) = {g \in InUse(p) : Within(p, g, h)}
  BY <1>5, <1>8
<1> QED
  BY <1>5, <1>6, <1>7, <1>9 DEF p, q, u

-----------------------------------------------------------------------------
(* The inductive invariant                                                 *)

\* What cli_execute_command keeps over a handler.
Calls == [node : Handles, depth : Nat, bare : BOOLEAN, session : {"RUN", "RESTARTED"}]

TreeInv ==
  Tree \in Trees /\ running \in Seq(Calls) /\ session \in {"RUN", "RESTARTED"}

LEMMA TreeInvIs ==
  ASSUME TreeInv
  PROVE  /\ PoolOK(pool) /\ pool \in Pools /\ InUse(pool) \subseteq Handles
         /\ count = Cardinality(InUse(pool)) /\ NavOK(nav, pool)
         /\ Tree.pool = pool /\ Tree.count = count /\ Tree.nav = nav
<1>1. Tree.pool = pool /\ Tree.count = count /\ Tree.nav = nav
  BY DEF Tree
<1>2. PoolOK(pool) /\ count = Cardinality(InUse(pool)) /\ NavOK(nav, pool)
  BY <1>1 DEF TreeInv, Trees, TreeOK
<1> QED
  BY <1>1, <1>2, InUseIs DEF PoolOK

\* A new node and no change of the levels keeps the tree sound.
LEMMA AddCommandKeeps ==
  ASSUME TreeInv, NEW parent, NEW c, Registrable(c), AddCommand(parent, c)
  PROVE  TreeInv' /\ InUse(pool) \subseteq InUse(pool')
<1> DEFINE q == Adding(pool, parent, c)
<1>1. /\ PoolOK(pool) /\ InUse(pool) \subseteq Handles /\ NavOK(nav, pool)
      /\ count = Cardinality(InUse(pool))
  BY TreeInvIs
<1>2. /\ PoolOK(q) /\ InUse(pool) \subseteq InUse(q)
      /\ Cardinality(InUse(q)) = Cardinality(InUse(pool)) + 1
  BY <1>1, AddingKeeps DEF AddCommand
<1>3. pool' = q /\ count' = count + 1 /\ nav' = nav /\ UNCHANGED <<running, session>>
  BY DEF AddCommand
<1> HIDE DEF q
<1>4. NavOK(nav, q)
  BY <1>1, <1>2 DEF NavOK, Live
<1>5. count + 1 = Cardinality(InUse(q))
  BY <1>1, <1>2
<1>6. [pool |-> q, count |-> count + 1, nav |-> nav] \in Trees
  BY <1>2, <1>4, <1>5, TreesAre
<1> QED
  BY <1>2, <1>3, <1>6 DEF TreeInv, Tree

LEMMA NavigateKeeps ==
  ASSUME TreeInv, NEW n, NavOK(n, pool), nav' = n, pool' = pool, count' = count,
         running' \in Seq(Calls), session' \in {"RUN", "RESTARTED"}
  PROVE  TreeInv'
<1>1. [pool |-> pool, count |-> count, nav |-> n] \in Trees
  BY TreeInvIs, TreesAre
<1> QED
  BY <1>1 DEF TreeInv, Tree

LEMMA BecomesKeeps ==
  ASSUME TreeInv, NEW t \in Trees, Becomes(t)
  PROVE  TreeInv' /\ Tree' = t
<1>1. t = [pool |-> t.pool, count |-> t.count, nav |-> t.nav]
  BY DEF Trees
<1> QED
  BY <1>1 DEF TreeInv, Becomes, Tree

\* Of the steps, only the two removals free a slot.
Removed(t, u) == \E h \in InUse(t.pool) : u = Remove(t, h) \/ u = RemoveRecursive(t, h)

LEMMA RegistrationKeeps ==
  ASSUME TreeInv, Registration
  PROVE  TreeInv' /\ InUse(pool) \subseteq InUse(pool')
<1>1. ASSUME NEW parent, NEW c \in Commands, AddCommand(parent, c)
      PROVE  TreeInv' /\ InUse(pool) \subseteq InUse(pool')
  <2>1. Registrable(c)
    BY CommandsAssumption DEF Registrable, Keywords
  <2> QED
    BY <1>1, <2>1, AddCommandKeeps
<1>2. ASSUME NEW h \in Handles, NEW word \in Synonyms, AddDuplicate(h, word)
      PROVE  TreeInv' /\ InUse(pool) \subseteq InUse(pool')
  <2> DEFINE c == [pool[h] EXCEPT !.name = word]
  <2>1. pool[h] \in Nodes
    BY <1>2, TreeInvIs, InUseIs DEF AddDuplicate
  <2>2. Registrable(c)
    BY <2>1 DEF Registrable, Keywords, Nodes
  <2>3. AddCommand(pool[h].parent, c)
    BY <1>2 DEF AddDuplicate
  <2> HIDE DEF c
  <2> QED
    BY <2>2, <2>3, AddCommandKeeps
<1>3. ASSUME NEW h \in Handles, NEW word \in Synonyms, AddAlias(h, word)
      PROVE  TreeInv' /\ InUse(pool) \subseteq InUse(pool')
  <2>1. h \in InUse(pool) /\ word \in Keywords
    BY <1>3 DEF AddAlias, Keywords
  <2>2. /\ pool' = [pool EXCEPT ![h].aliases = @ \cup {word}]
        /\ UNCHANGED <<count, nav, running, session>>
    BY <1>3 DEF AddAlias
  <2>3. /\ PoolOK(pool) /\ count = Cardinality(InUse(pool)) /\ NavOK(nav, pool)
    BY TreeInvIs
  <2>4. ~ NameTaken(pool, pool[h].parent, pool[h].mode, word, h)
    BY <1>3 DEF AddAlias
  <2>5. PoolOK(pool') /\ InUse(pool') = InUse(pool)
    BY <2>1, <2>2, <2>3, <2>4, AliasKeeps
  <2>6. NavOK(nav, pool')
    BY <2>3, <2>5 DEF NavOK, Live
  <2>7. [pool |-> pool', count |-> count, nav |-> nav] \in Trees
    BY <2>3, <2>5, <2>6, TreesAre
  <2> QED
    BY <2>2, <2>5, <2>7 DEF TreeInv, Tree
<1> QED
  BY <1>1, <1>2, <1>3 DEF Registration

LEMMA RemovalKeeps ==
  ASSUME TreeInv, Removal
  PROVE  TreeInv' /\ Removed(Tree, Tree')
<1>1. ASSUME NEW h \in Handles, RemoveCommand(h)
      PROVE  TreeInv' /\ Removed(Tree, Tree')
  <2>1. Tree \in Trees /\ h \in InUse(Tree.pool) /\ Becomes(Remove(Tree, h))
    BY <1>1, TreeInvIs DEF TreeInv, RemoveCommand
  <2>2. Remove(Tree, h) \in Trees
    BY <2>1, RemoveOK
  <2>3. TreeInv' /\ Tree' = Remove(Tree, h)
    BY <2>1, <2>2, BecomesKeeps
  <2> QED
    BY <2>1, <2>3 DEF Removed
<1>2. ASSUME NEW h \in Handles, RemoveCommandRecursive(h)
      PROVE  TreeInv' /\ Removed(Tree, Tree')
  <2>1. Tree \in Trees /\ h \in InUse(Tree.pool) /\ Becomes(RemoveRecursive(Tree, h))
    BY <1>2, TreeInvIs DEF TreeInv, RemoveCommandRecursive
  <2>2. RemoveRecursive(Tree, h) \in Trees
    BY <2>1, RemoveRecursiveIs
  <2>3. TreeInv' /\ Tree' = RemoveRecursive(Tree, h)
    BY <2>1, <2>2, BecomesKeeps
  <2> QED
    BY <2>1, <2>3 DEF Removed
<1> QED
  BY <1>1, <1>2 DEF Removal

LEMMA RunKeeps ==
  ASSUME TreeInv, NEW h \in Handles, NEW bare \in BOOLEAN, Run(h, bare)
  PROVE  TreeInv' /\ UNCHANGED <<pool, count>>
<1> DEFINE f == [node |-> h, depth |-> Len(nav.stack), bare |-> bare, session |-> session]
<1>1. NavOK(nav, pool)
  BY TreeInvIs
<1>2. Len(nav.stack) \in Nat
  BY <1>1 DEF NavOK, NavFits, Navs
<1>3. f \in Calls
  BY <1>2 DEF Calls, TreeInv
<1>4. running' = Append(running, f) /\ UNCHANGED <<pool, count, nav, session>>
  BY DEF Run
<1> HIDE DEF f
<1>5. running' \in Seq(Calls) /\ session' \in {"RUN", "RESTARTED"}
  BY <1>3, <1>4 DEF TreeInv
<1> QED
  BY <1>1, <1>4, <1>5, NavigateKeeps

LEMMA ReturnKeeps ==
  ASSUME TreeInv, NEW ok \in BOOLEAN, Return(ok)
  PROVE  TreeInv' /\ UNCHANGED <<pool, count>>
<1> DEFINE f == running[Len(running)]
           n == IF ok /\ Enters(f) THEN EnterContext(nav, f.node, f.depth) ELSE nav
<1>1. running \in Seq(Calls) /\ running # <<>>
  BY DEF TreeInv, Return
<1>2. f \in Calls
  BY <1>1
<1>3. /\ nav' = n /\ running' = SubSeq(running, 1, Len(running) - 1)
      /\ UNCHANGED <<pool, count, session>>
  BY DEF Return
<1> HIDE DEF f
<1>4. NavOK(n, pool)
  <2>1. NavOK(nav, pool) /\ InUse(pool) \subseteq Handles
    BY TreeInvIs
  <2>2. CASE ok /\ Enters(f)
    <3>1. f.node \in InUse(pool) /\ f.depth \in Nat
      BY <1>2, <2>2 DEF Enters, Calls
    <3>2. NavOK(EnterContext(nav, f.node, f.depth), pool)
      BY <2>1, <3>1, EnterContextOK
    <3> QED
      BY <2>2, <3>2
  <2>3. CASE ~ (ok /\ Enters(f))
    BY <2>1, <2>3
  <2> QED
    BY <2>2, <2>3
<1>5. running' \in Seq(Calls) /\ session' \in {"RUN", "RESTARTED"}
  BY <1>1, <1>3 DEF TreeInv
<1> HIDE DEF n
<1> QED
  BY <1>3, <1>4, <1>5, NavigateKeeps

\* The commands a handler or the engine runs that only navigate.
LEMMA NavigationKeeps ==
  ASSUME TreeInv,
         \/ \E m \in AppModes : AppSetMode(m)
         \/ \E p \in AppPrivileges : AppSetPrivilege(p)
         \/ Exit \/ RestartSession \/ Banner
  PROVE  TreeInv' /\ UNCHANGED <<pool, count>>
<1>1. /\ NavOK(nav, pool) /\ InUse(pool) \subseteq Handles
      /\ running \in Seq(Calls) /\ session \in {"RUN", "RESTARTED"}
  BY TreeInvIs DEF TreeInv
<1>2. ASSUME NEW m \in AppModes, AppSetMode(m) PROVE TreeInv' /\ UNCHANGED <<pool, count>>
  <2>1. NavOK(SetMode(nav, m), pool)
    BY <1>1, SetModeOK, PoolAssumption
  <2> QED
    BY <1>1, <1>2, <2>1, NavigateKeeps DEF AppSetMode, Navigate
<1>3. ASSUME NEW p \in AppPrivileges, AppSetPrivilege(p)
      PROVE  TreeInv' /\ UNCHANGED <<pool, count>>
  <2>1. NavOK(SetPrivilege(nav, p), pool)
    BY <1>1, SetPrivilegeOK, PoolAssumption
  <2> QED
    BY <1>1, <1>3, <2>1, NavigateKeeps DEF AppSetPrivilege, Navigate
<1>4. ASSUME Exit PROVE TreeInv' /\ UNCHANGED <<pool, count>>
  <2>1. Len(nav.stack) \in 1 .. Len(nav.stack)
    BY <1>1, <1>4 DEF Exit, AtFloor, NavOK, NavFits, Navs
  <2>2. NavOK(LeaveLevel(nav), pool)
    BY <1>1, <2>1, ReturnOK DEF LeaveLevel
  <2> QED
    BY <1>1, <1>4, <2>2, NavigateKeeps DEF Exit, Navigate
<1>5. ASSUME RestartSession PROVE TreeInv' /\ UNCHANGED <<pool, count>>
  <2>1. NavOK(SetPrivilege(NavReset(nav), PrivUser), pool)
    BY <1>1, ResetOK, SetPrivilegeOK, PrivilegesAssumption
  <2> QED
    BY <1>1, <1>5, <2>1, NavigateKeeps DEF RestartSession
<1>6. ASSUME Banner PROVE TreeInv' /\ UNCHANGED <<pool, count>>
  BY <1>1, <1>6, NavigateKeeps DEF Banner
<1> QED
  BY <1>2, <1>3, <1>4, <1>5, <1>6

LEMMA TreeInvInit == Init => TreeInv
<1> SUFFICES ASSUME Init PROVE TreeInv
  OBVIOUS
<1>1. InUse(pool) = {}
  BY DEF Init, InUse
<1>2. pool \in Pools
  BY DEF Init, Pools
<1>3. Ranked(pool)
  <2>1. Ranks(pool, [h \in Handles |-> 0])
    BY <1>1 DEF Ranks
  <2> QED
    BY <2>1 DEF Ranked
<1>4. PoolOK(pool)
  BY <1>1, <1>2, <1>3 DEF PoolOK, Linked, Distinct
<1>5. count = Cardinality(InUse(pool))
  BY <1>1, FS_EmptySet DEF Init
<1>6. NavOK(nav, pool)
  BY NavInitOK DEF Init
<1>7. [pool |-> pool, count |-> count, nav |-> nav] \in Trees
  BY <1>4, <1>5, <1>6, TreesAre
<1> QED
  BY <1>7 DEF TreeInv, Tree, Init

LEMMA TreeInvNext ==
  TreeInv /\ [Next]_vars => TreeInv' /\ (Removed(Tree, Tree') \/ InUse(pool) \subseteq InUse(pool'))
<1> SUFFICES ASSUME TreeInv, [Next]_vars
             PROVE  TreeInv' /\ (Removed(Tree, Tree') \/ InUse(pool) \subseteq InUse(pool'))
  OBVIOUS
<1>1. CASE Registration
  BY <1>1, RegistrationKeeps
<1>2. CASE Removal
  BY <1>2, RemovalKeeps
<1>3. CASE \/ \E m \in AppModes : AppSetMode(m)
           \/ \E p \in AppPrivileges : AppSetPrivilege(p)
           \/ Exit \/ RestartSession \/ Banner
  BY <1>3, NavigationKeeps
<1>4. CASE \E h \in Handles, bare \in BOOLEAN : Run(h, bare)
  BY <1>4, RunKeeps
<1>5. CASE \E ok \in BOOLEAN : Return(ok)
  BY <1>5, ReturnKeeps
<1>6. CASE UNCHANGED vars
  BY <1>6 DEF vars, TreeInv, Tree
<1> QED
  BY <1>1, <1>2, <1>3, <1>4, <1>5, <1>6 DEF Next

LEMMA TreeIsSound == Spec => []TreeInv
<1>1. TreeInv /\ [Next]_vars => TreeInv'
  BY TreeInvNext
<1> QED
  BY <1>1, TreeInvInit, PTL DEF Spec

-----------------------------------------------------------------------------
(* Theorems                                                                *)

\* However handlers register, remove, navigate and nest: no level of the session is a
\* removed command, the stack of levels fits its array, 'exit' leads out of all of them to
\* exec mode at the root, and the command tree has no cycle.
THEOREM LevelsStayLive == Spec => []LevelsAreLive
<1>1. TreeInv => LevelsAreLive
  <2> SUFFICES ASSUME TreeInv PROVE LevelsAreLive
    OBVIOUS
  <2>1. PoolOK(pool) /\ NavOK(nav, pool)
    BY TreeInvIs
  <2>2. \A h \in InUse(pool) : Climb(pool, h)[PoolSize] \in {ROOT, INVALID}
    BY <2>1, ClimbEnds
  <2>3. Len(Levels(nav)) <= MaxDepth + 1
    BY <2>1, LevelsIs DEF NavOK
  <2> QED
    BY <2>1, <2>2, <2>3 DEF LevelsAreLive, NavOK, Live, Floored
<1> QED
  BY <1>1, TreeIsSound, PTL

\* No registration, duplicate or alias ever hides a command behind an earlier sibling
\* that is visible in the same mode and answers to one of its words.
THEOREM KeywordsStayUnique == Spec => []KeywordsAreUnique
<1>1. TreeInv => KeywordsAreUnique
  BY TreeInvIs DEF KeywordsAreUnique, PoolOK, Distinct, Clash
<1> QED
  BY <1>1, TreeIsSound, PTL

LEMMA RemovedIs ==
  ASSUME TreeInv, TreeInv', Removed(Tree, Tree')
  PROVE  \E h \in InUse(pool) :
           \/ InUse(pool') = InUse(pool) \ {h}
           \/ /\ InUse(pool) \ InUse(pool') = {g \in InUse(pool) : Within(pool, g, h)}
              /\ h \notin InUse(pool')
<1>1. PICK h \in InUse(pool) : Tree' = Remove(Tree, h) \/ Tree' = RemoveRecursive(Tree, h)
  BY TreeInvIs DEF Removed
<1>2. Tree \in Trees /\ Tree.pool = pool /\ (Tree').pool = pool'
  BY TreeInvIs DEF TreeInv, Tree
<1>3. CASE Tree' = Remove(Tree, h)
  BY <1>2, <1>3, RemoveOK
<1>4. CASE Tree' = RemoveRecursive(Tree, h)
  BY <1>2, <1>4, RemoveRecursiveIs
<1> QED
  BY <1>1, <1>3, <1>4

\* A step that frees several slots frees one whole subtree, and cmd_pool_count counts
\* exactly the slots in use, before and after every step.
THEOREM SubtreesGoWhole == Spec => RecursiveRemovalIsExact
<1>1. TreeInv /\ TreeInv' /\ [Next]_vars =>
        LET freed == InUse(pool) \ InUse(pool')
        IN  /\ count' - count = Cardinality(InUse(pool')) - Cardinality(InUse(pool))
            /\ Cardinality(freed) > 1 =>
                 \E h \in freed : freed = {g \in InUse(pool) : Within(pool, g, h)}
  <2> SUFFICES ASSUME TreeInv, TreeInv', [Next]_vars
               PROVE  LET freed == InUse(pool) \ InUse(pool')
                      IN  /\ count' - count =
                               Cardinality(InUse(pool')) - Cardinality(InUse(pool))
                          /\ Cardinality(freed) > 1 =>
                               \E h \in freed : freed = {g \in InUse(pool) : Within(pool, g, h)}
    OBVIOUS
  <2> DEFINE freed == InUse(pool) \ InUse(pool')
  <2>1. count = Cardinality(InUse(pool)) /\ count' = Cardinality(InUse(pool'))
    <3>1. (Tree').count = count' /\ (Tree').pool = pool' /\ Tree' \in Trees
      BY DEF Tree, TreeInv
    <3> QED
      BY <3>1, TreeInvIs DEF Trees, TreeOK
  <2>2. Cardinality({}) = 0 /\ \A h : Cardinality({h}) = 1
    BY FS_EmptySet, FS_Singleton
  <2>3. Removed(Tree, Tree') \/ InUse(pool) \subseteq InUse(pool')
    BY TreeInvNext
  <2>4. ASSUME Cardinality(freed) > 1
        PROVE  \E h \in freed : freed = {g \in InUse(pool) : Within(pool, g, h)}
    <3>1. CASE InUse(pool) \subseteq InUse(pool')
      <4>1. freed = {}
        BY <3>1
      <4> QED
        BY <2>2, <2>4, <4>1
    <3>2. CASE Removed(Tree, Tree')
      <4>1. PICK h \in InUse(pool) :
              \/ InUse(pool') = InUse(pool) \ {h}
              \/ /\ freed = {g \in InUse(pool) : Within(pool, g, h)}
                 /\ h \notin InUse(pool')
        BY <3>2, RemovedIs
      <4>2. CASE InUse(pool') = InUse(pool) \ {h}
        <5>1. freed = {h}
          BY <4>2
        <5> QED
          BY <2>2, <2>4, <5>1
      <4>3. CASE InUse(pool') # InUse(pool) \ {h}
        BY <4>1, <4>3
      <4> QED
        BY <4>2, <4>3
    <3> QED
      BY <2>3, <3>1, <3>2
  <2> QED
    BY <2>1, <2>4
<1>2. TreeInv /\ [Next]_vars => TreeInv'
  BY TreeInvNext
<1> QED
  BY <1>1, <1>2, TreeIsSound, PTL DEF Spec, RecursiveRemovalIsExact

-----------------------------------------------------------------------------
(* Where the levels go                                                     *)

\* The positions on the way up from x that survive when only the commands in u are left.
Survive(p, u, x) ==
  {n \in 0 .. PoolSize : Climb(p, x)[n] \in InUse(p) /\
     \A k \in n .. PoolSize : Climb(p, x)[k] \in InUse(p) => Climb(p, x)[k] \in u}

Nearest(p, u, x) ==
  IF Survive(p, u, x) = {} THEN ROOT
  ELSE Climb(p, x)[CHOOSE n \in Survive(p, u, x) : \A k \in Survive(p, u, x) : n <= k]

LEMMA NearestLeftIs ==
  ASSUME NEW x PROVE NearestLeft(x) = Nearest(pool, InUse(pool'), x)
  BY DEF NearestLeft, Nearest, Survive

\* The nearest is the first of the positions.
LEMMA NearestIs ==
  ASSUME NEW p, NEW u, NEW x, NEW n \in Survive(p, u, x), \A k \in Survive(p, u, x) : n <= k
  PROVE  Nearest(p, u, x) = Climb(p, x)[n]
<1> DEFINE S == Survive(p, u, x)
           m == CHOOSE i \in S : \A k \in S : i <= k
<1>1. m \in S /\ \A k \in S : m <= k
  OBVIOUS
<1>2. S \subseteq Int
  BY PoolAssumption DEF Survive
<1>3. S # {} /\ Nearest(p, u, x) = Climb(p, x)[m]
  BY DEF Nearest
<1> HIDE DEF S, m
<1>4. n \in S /\ \A k \in S : n <= k
  BY DEF S
<1>5. m = n
  BY <1>1, <1>2, <1>4
<1> QED
  BY <1>3, <1>5

\* There is a first one, when there is any.
LEMMA NearestExists ==
  ASSUME NEW p, NEW u, NEW x, Survive(p, u, x) # {}
  PROVE  \E n \in Survive(p, u, x) :
           (\A k \in Survive(p, u, x) : n <= k) /\ Nearest(p, u, x) = Climb(p, x)[n]
<1>1. Survive(p, u, x) \subseteq Nat
  BY PoolAssumption DEF Survive
<1>2. PICK n \in Survive(p, u, x) : \A k \in Survive(p, u, x) : n <= k
  BY <1>1, Least
<1> QED
  BY <1>2, NearestIs

\* Before anything is removed a level is where it is.
LEMMA NearestAtFirst ==
  ASSUME NEW p, PoolOK(p), NEW x \in InUse(p) \cup {ROOT}
  PROVE  Nearest(p, InUse(p), x) = x
<1>1. /\ PoolSize \in Nat /\ p \in Pools /\ x \in Places /\ ROOT \notin InUse(p)
      /\ 0 \in 0 .. PoolSize
  BY PoolAssumption, InUseIs, PlacesApart DEF PoolOK
<1>2. Climb(p, x)[0] = x
  BY <1>1, ClimbIs
<1>3. CASE x \in InUse(p)
  <2>1. 0 \in Survive(p, InUse(p), x)
    BY <1>1, <1>2, <1>3 DEF Survive
  <2>2. \A k \in Survive(p, InUse(p), x) : 0 <= k
    BY <1>1 DEF Survive
  <2> QED
    BY <1>2, <2>1, <2>2, NearestIs
<1>4. CASE x = ROOT
  <2>1. \A n \in 0 .. PoolSize : Climb(p, x)[n] = x
    BY <1>1, <1>2, <1>4, ClimbStops
  <2>2. Survive(p, InUse(p), x) = {}
    BY <1>1, <1>4, <2>1 DEF Survive
  <2> QED
    BY <1>4, <2>2 DEF Nearest
<1> QED
  BY <1>3, <1>4

\* Where a level goes when one command is removed.
Lifted(p, l, x) == IF Within(p, x, l) THEN Replacement(p, l) ELSE x

\* The way up from a command does not come back to it.
LEMMA NoWayBack ==
  ASSUME NEW p, PoolOK(p), NEW x \in InUse(p) \cup {ROOT, INVALID}, NEW l \in InUse(p),
         NEW m \in 0 .. PoolSize, Climb(p, x)[m] = l
  PROVE  /\ m + 1 \in 0 .. PoolSize /\ Climb(p, x)[m + 1] = p[l].parent
         /\ \A n \in 0 .. PoolSize : m < n => Climb(p, x)[n] # l
<1> DEFINE up == Climb(p, x)
<1>1. /\ PoolSize \in Nat /\ p \in Pools /\ InUse(p) \subseteq Handles /\ x \in Places
      /\ ROOT \notin InUse(p) /\ INVALID \notin InUse(p)
  BY PoolAssumption, InUseIs, PlacesApart DEF PoolOK
<1>2. \A n \in 1 .. PoolSize : up[n] = Above(p, up[n - 1])
  BY <1>1, ClimbIs
<1>3. /\ \A n \in 0 .. PoolSize : up[n] \in InUse(p) \cup {ROOT, INVALID}
      /\ up[PoolSize] \notin InUse(p)
  BY <1>1, ClimbEnds
<1> HIDE DEF up
<1>4. up[m] = l
  BY DEF up
<1>5. m + 1 \in 1 .. PoolSize /\ m + 1 - 1 = m
  BY <1>1, <1>3, <1>4
<1>6. up[m + 1] = p[l].parent
  <2>1. up[m + 1] = Above(p, up[m])
    BY <1>2, <1>5
  <2> QED
    BY <1>4, <2>1 DEF Above
<1>7. PICK r : Ranks(p, r)
  BY DEF PoolOK, Ranked
<1> DEFINE S == {n \in 0 .. PoolSize : m < n /\ up[n] \in InUse(p) => r[up[n]] < r[l]}
<1>8. 0 \in S
  BY <1>1
<1>9. ASSUME NEW n \in 1 .. PoolSize, n - 1 \in S PROVE n \in S
  <2>1. SUFFICES ASSUME m < n, up[n] \in InUse(p) PROVE r[up[n]] < r[l]
    BY <1>1
  <2>2. n - 1 \in 0 .. PoolSize
    BY <1>1
  <2>3. up[n - 1] \in InUse(p)
    BY <1>1, <1>2, <1>3, <2>1, <2>2 DEF Above
  <2>4. r[up[n]] < r[up[n - 1]]
    BY <1>2, <1>7, <2>1, <2>3 DEF Above, Ranks
  <2>5. CASE m = n - 1
    BY <1>4, <2>4, <2>5
  <2>6. CASE m # n - 1
    <3>1. m < n - 1
      BY <1>1, <2>1, <2>6
    <3>2. r[up[n - 1]] < r[l]
      BY <1>9, <2>3, <3>1
    <3>3. r[up[n]] \in Nat /\ r[up[n - 1]] \in Nat /\ r[l] \in Nat
      BY <1>1, <1>7, <2>1, <2>3 DEF Ranks
    <3> QED
      BY <2>4, <3>2, <3>3
  <2> QED
    BY <2>5, <2>6
<1>10. \A n \in 0 .. PoolSize : n \in S
  <2> HIDE DEF S
  <2> QED
    BY <1>1, <1>8, <1>9, Induction
<1>11. ASSUME NEW n \in 0 .. PoolSize, m < n PROVE up[n] # l
  <2>1. SUFFICES ASSUME up[n] = l PROVE FALSE
    OBVIOUS
  <2>2. r[l] < r[l] /\ r[l] \in Nat
    BY <1>1, <1>7, <1>10, <1>11, <2>1 DEF Ranks
  <2> QED
    BY <2>2
<1> QED
  BY <1>5, <1>6, <1>11 DEF up

\* One more command goes: the nearest one left is the nearest before, lifted.
LEMMA NearestNext ==
  ASSUME NEW p, NEW q, Remains(p, q), NEW l \in InUse(q), NEW x \in InUse(p) \cup {ROOT}
  PROVE  Nearest(p, InUse(q) \ {l}, x) = Lifted(q, l, Nearest(p, InUse(q), x))
<1> DEFINE up == Climb(p, x)
           U == InUse(q)
           A == Survive(p, U, x)
           B == Survive(p, U \ {l}, x)
           y == Nearest(p, U, x)
<1>1. /\ PoolSize \in Nat /\ PoolOK(p) /\ PoolOK(q) /\ p \in Pools /\ q \in Pools
      /\ U \subseteq InUse(p) /\ \A g \in U : q[g] = p[g]
  BY PoolAssumption DEF Remains, PoolOK
<1>2. /\ x \in Places /\ l \in InUse(p) /\ l \in Places /\ l # ROOT
      /\ ROOT \notin InUse(p) /\ INVALID \notin InUse(p) /\ ROOT \notin InUse(q) /\ ROOT \in Places
  BY <1>1, InUseIs, PlacesApart
<1>3. /\ \A n \in 0 .. PoolSize : up[n] \in InUse(p) \cup {ROOT, INVALID}
      /\ up \in [0 .. PoolSize -> Places]
  BY <1>1, <1>2, ClimbEnds, ClimbIs
<1>4. A = {n \in 0 .. PoolSize : up[n] \in InUse(p) /\
             \A k \in n .. PoolSize : up[k] \in InUse(p) => up[k] \in U}
  BY DEF Survive
<1>5. B = {n \in A : \A k \in n .. PoolSize : up[k] # l}
  BY <1>2, <1>4 DEF Survive
<1>6. \A n \in A : n \in 0 .. PoolSize /\ n \in n .. PoolSize /\ up[n] \in U
  BY <1>1, <1>4
<1> HIDE DEF up, A, B, U, y
<1>7. ASSUME NEW n \in A PROVE Within(q, up[n], l) <=> \E k \in n .. PoolSize : up[k] = l
  <2>1. n \in 0 .. PoolSize /\ up[n] \in U
    BY <1>6
  <2>2. Within(p, up[n], l) <=> \E k \in n .. PoolSize : up[k] = l
    BY <1>1, <1>2, <2>1, WithinFrom DEF up
  <2>3. Within(q, up[n], l) <=> Within(p, up[n], l)
    BY <2>1, SameWithin DEF U
  <2> QED
    BY <2>2, <2>3
<1>8. A = {} => y = ROOT /\ Lifted(q, l, y) = ROOT
  <2>1. ~ Within(q, ROOT, l)
    BY <1>1, <1>2, OutsideIsNotWithin
  <2>2. A = {} => y = ROOT
    BY DEF Nearest, A, y
  <2> QED
    BY <2>1, <2>2 DEF Lifted
<1>9. A # {} => \E n \in A : (\A k \in A : n <= k) /\ y = up[n]
  BY NearestExists DEF A, y, up
<1>10. CASE \A k \in 0 .. PoolSize : up[k] # l
  <2>1. B = A
    BY <1>1, <1>5, <1>6, <1>10
  <2>2. Nearest(p, U \ {l}, x) = y
    <3>1. CASE A = {}
      BY <1>8, <2>1, <3>1 DEF Nearest, B
    <3>2. CASE A # {}
      <4>1. PICK n \in A : (\A k \in A : n <= k) /\ y = up[n]
        BY <1>9, <3>2
      <4>2. Nearest(p, U \ {l}, x) = up[n]
        BY <2>1, <4>1, NearestIs DEF B, up
      <4> QED
        BY <4>1, <4>2
    <3> QED
      BY <3>1, <3>2
  <2>3. CASE A = {}
    BY <1>8, <2>2, <2>3 DEF U, y
  <2>4. CASE A # {}
    <3>1. PICK n \in A : y = up[n]
      BY <1>9, <2>4
    <3>2. ~ Within(q, y, l)
      BY <1>1, <1>6, <1>7, <1>10, <3>1
    <3> QED
      BY <2>2, <3>2 DEF Lifted, U, y
  <2> QED
    BY <2>3, <2>4
<1>11. CASE \E k \in 0 .. PoolSize : up[k] = l
  <2>1. PICK m \in 0 .. PoolSize : up[m] = l
    BY <1>11
  <2> DEFINE d == p[l].parent
  <2>2. /\ m + 1 \in 0 .. PoolSize /\ up[m + 1] = d
        /\ \A n \in 0 .. PoolSize : m < n => up[n] # l
    BY <1>1, <1>2, <2>1, NoWayBack DEF up
  <2>3. ASSUME NEW k \in m .. PoolSize PROVE up[k] \in U \cup {ROOT, INVALID}
    <3>1. Climb(p, l)[k - m] = up[k]
      BY <1>1, <1>2, <2>1, <2>3, RestOfTheWay DEF up
    <3>2. k - m \in 0 .. PoolSize
      BY <1>1
    <3>3. Climb(q, l)[k - m] = Climb(p, l)[k - m]
      BY <3>2, SameWay DEF U
    <3>4. Climb(q, l)[k - m] \in U \cup {ROOT, INVALID}
      BY <1>1, <3>2, ClimbEnds DEF U
    <3> QED
      BY <3>1, <3>3, <3>4
  <2>4. ASSUME NEW n \in m .. PoolSize, up[n] \in InUse(p) PROVE n \in A
    <3>1. \A k \in n .. PoolSize : k \in m .. PoolSize
      BY <1>1
    <3>2. n \in 0 .. PoolSize
      BY <1>1
    <3>3. \A k \in n .. PoolSize : up[k] \in InUse(p) => up[k] \in U
      BY <1>2, <2>3, <3>1
    <3> QED
      BY <1>4, <2>4, <3>2, <3>3
  <2>5. m \in A
    BY <1>1, <1>2, <2>1, <2>4
  <2>6. PICK n \in A : (\A k \in A : n <= k) /\ y = up[n]
    BY <1>9, <2>5
  <2>7. Within(q, y, l)
    <3>1. m \in n .. PoolSize
      BY <1>1, <1>6, <2>5, <2>6
    <3> QED
      BY <1>7, <2>1, <2>6, <3>1
  <2>8. Lifted(q, l, y) = IF d \in U THEN d ELSE ROOT
    BY <1>1, <2>7 DEF Lifted, Replacement, U
  <2>9. \A k \in B : m < k /\ k \in A
    <3>1. ASSUME NEW k \in B PROVE m < k /\ k \in A
      <4>1. k \in A /\ k \in 0 .. PoolSize /\ \A i \in k .. PoolSize : up[i] # l
        BY <1>5, <1>6
      <4>2. m \notin k .. PoolSize
        BY <2>1, <4>1
      <4> QED
        BY <1>1, <4>1, <4>2
    <3> QED
      BY <3>1
  <2> HIDE DEF d
  <2>10. CASE d \in U
    <3>1. m + 1 \in m .. PoolSize /\ up[m + 1] \in InUse(p)
      BY <1>1, <2>2, <2>10
    <3>2. m + 1 \in A
      BY <2>4, <3>1
    <3>3. \A k \in m + 1 .. PoolSize : up[k] # l
      BY <1>1, <2>2
    <3>4. m + 1 \in B
      BY <1>5, <3>2, <3>3
    <3>5. \A k \in B : m + 1 <= k
      BY <1>1, <1>6, <2>9
    <3>6. Nearest(p, U \ {l}, x) = up[m + 1]
      BY <3>4, <3>5, NearestIs DEF B, up
    <3> QED
      BY <2>2, <2>8, <2>10, <3>6 DEF U, y
  <2>11. CASE d \notin U
    <3>1. d \in {ROOT, INVALID}
      <4>1. m + 1 \in m .. PoolSize
        BY <1>1, <2>2
      <4> QED
        BY <2>2, <2>3, <2>11, <4>1
    <3>2. up[m + 1] \notin InUse(p)
      BY <1>2, <2>2, <3>1
    <3>3. \A k \in 0 .. PoolSize : m + 1 <= k => up[k] = up[m + 1]
      BY <1>1, <1>2, <2>2, <3>2, ClimbStops DEF up
    <3>4. B = {}
      <4>1. ASSUME NEW k \in B PROVE FALSE
        <5>1. k \in 0 .. PoolSize /\ m + 1 <= k /\ up[k] \in U
          BY <1>1, <1>6, <2>9
        <5> QED
          BY <1>1, <3>2, <3>3, <5>1
      <4> QED
        BY <4>1
    <3>5. Nearest(p, U \ {l}, x) = ROOT
      BY <3>4 DEF Nearest, B
    <3> QED
      BY <2>8, <2>11, <3>5 DEF U, y
  <2> QED
    BY <2>10, <2>11
<1> QED
  BY <1>10, <1>11

-----------------------------------------------------------------------------
(* What removal makes of the levels                                        *)

\* A level whose submenu is replaced.
At(f, x) == [f EXCEPT !.context = x]

LEMMA AtIs ==
  ASSUME NEW f \in Frames, NEW x \in Contexts
  PROVE  /\ At(f, x) \in Frames /\ At(f, x).context = x
         /\ \A y \in Contexts : At(At(f, x), y) = At(f, y)
         /\ At(f, f.context) = f
  BY DEF At, Frames

LEMMA RaisedIs ==
  ASSUME NEW p, NEW f \in Frames, NEW l
  PROVE  Raised(p, f, l, Replacement(p, l)) = At(f, Lifted(p, l, f.context))
<1>1. f = At(f, f.context)
  BY AtIs DEF Frames
<1> QED
  BY <1>1 DEF Raised, Lifted, At

\* The old levels have moved up to what is left of the pool, none is lost, and if
\* anything has changed no level repeats the one below it.
MovedUp(old, new, p, u) ==
  /\ \A i \in 1 .. Len(new) : \E j \in 1 .. Len(old) :
       new[i] = At(old[j], Nearest(p, u, old[j].context))
  /\ \A j \in 1 .. Len(old) : \E i \in 1 .. Len(new) :
       new[i] = At(old[j], Nearest(p, u, old[j].context))
  /\ new # old => \A i \in 1 .. Len(new) - 1 : new[i] # new[i + 1]

LEMMA MovedUpAtFirst ==
  ASSUME NEW t \in Trees
  PROVE  MovedUp(Levels(t.nav), Levels(t.nav), t.pool, InUse(t.pool))
<1> DEFINE old == Levels(t.nav)
<1>1. PoolOK(t.pool) /\ NavOK(t.nav, t.pool)
  BY DEF Trees, TreeOK
<1>2. \A j \in 1 .. Len(old) : old[j] \in Frames /\ old[j].context \in InUse(t.pool) \cup {ROOT}
  BY <1>1, LevelsIs DEF NavOK, Live
<1> HIDE DEF old
<1>3. \A j \in 1 .. Len(old) : old[j] = At(old[j], Nearest(t.pool, InUse(t.pool), old[j].context))
  BY <1>1, <1>2, NearestAtFirst, AtIs, PoolAssumption DEF Frames
<1> QED
  BY <1>3 DEF MovedUp, old

LEMMA NearestTyped ==
  ASSUME NEW p, PoolOK(p), NEW u, NEW x \in InUse(p) \cup {ROOT}
  PROVE  Nearest(p, u, x) \in Contexts
<1>1. \A n \in Survive(p, u, x) : Climb(p, x)[n] \in InUse(p)
  BY DEF Survive
<1>2. InUse(p) \subseteq Contexts /\ ROOT \in Contexts
  BY InUseIs, PlacesApart DEF PoolOK
<1>3. CASE Survive(p, u, x) = {}
  BY <1>2, <1>3 DEF Nearest
<1>4. CASE Survive(p, u, x) # {}
  BY <1>1, <1>2, <1>4, NearestExists
<1> QED
  BY <1>3, <1>4

LEMMA MovedUpNext ==
  ASSUME NEW old \in Seq(Frames), NEW p, NEW n, NavFits(n), NEW q, Remains(p, q),
         \A j \in 1 .. Len(old) : old[j].context \in InUse(p) \cup {ROOT},
         MovedUp(old, Levels(n), p, InUse(q)), NEW l \in InUse(q),
         NEW m, m = Relocate(q, n, l, Replacement(q, l))
  PROVE  MovedUp(old, Levels(m), p, InUse(q) \ {l})
<1> DEFINE mid == Levels(n)
           new == Levels(m)
           R(f) == Raised(q, f, l, Replacement(q, l))
           To(j) == At(old[j], Nearest(p, InUse(q), old[j].context))
           Up(j) == At(old[j], Nearest(p, InUse(q) \ {l}, old[j].context))
<1>1. PoolOK(p) /\ PoolOK(q)
  BY DEF Remains
<1>2. Relocated(mid, new, q, l, Replacement(q, l))
  BY <1>1, ParentIsOther, RelocateIs
<1>3. /\ \A i \in 1 .. Len(new) : \E j \in 1 .. Len(mid) : new[i] = R(mid[j])
      /\ \A j \in 1 .. Len(mid) : \E i \in 1 .. Len(new) : new[i] = R(mid[j])
      /\ new # mid => \A i \in 1 .. Len(new) - 1 : new[i] # new[i + 1]
  BY <1>2 DEF Relocated
<1>4. /\ \A i \in 1 .. Len(mid) : \E j \in 1 .. Len(old) : mid[i] = To(j)
      /\ \A j \in 1 .. Len(old) : \E i \in 1 .. Len(mid) : mid[i] = To(j)
      /\ mid # old => \A i \in 1 .. Len(mid) - 1 : mid[i] # mid[i + 1]
  BY DEF MovedUp
<1>5. ASSUME NEW j \in 1 .. Len(old) PROVE R(To(j)) = Up(j)
  <2> DEFINE f == old[j]
             x == Nearest(p, InUse(q), f.context)
             y == Nearest(p, InUse(q) \ {l}, f.context)
  <2>1. f \in Frames /\ f.context \in InUse(p) \cup {ROOT}
    OBVIOUS
  <2> HIDE DEF f
  <2>2. x \in Contexts /\ y \in Contexts
    BY <1>1, <2>1, NearestTyped
  <2>3. y = Lifted(q, l, x)
    BY <2>1, NearestNext
  <2> HIDE DEF x, y
  <2>4. At(f, x) \in Frames /\ At(f, x).context = x /\ At(At(f, x), y) = At(f, y)
    BY <2>1, <2>2, AtIs
  <2>5. R(At(f, x)) = At(At(f, x), Lifted(q, l, x))
    BY <2>4, RaisedIs
  <2> QED
    BY <2>3, <2>4, <2>5 DEF f, x, y
<1> HIDE DEF mid, new, R, To
<1>6. \A i \in 1 .. Len(new) : \E j \in 1 .. Len(old) : new[i] = Up(j)
  <2> TAKE i \in 1 .. Len(new)
  <2>1. PICK k \in 1 .. Len(mid) : new[i] = R(mid[k])
    BY <1>3
  <2>2. PICK j \in 1 .. Len(old) : mid[k] = To(j)
    BY <1>4
  <2> QED
    BY <1>5, <2>1, <2>2
<1>7. \A j \in 1 .. Len(old) : \E i \in 1 .. Len(new) : new[i] = Up(j)
  <2> TAKE j \in 1 .. Len(old)
  <2>1. PICK k \in 1 .. Len(mid) : mid[k] = To(j)
    BY <1>4
  <2>2. PICK i \in 1 .. Len(new) : new[i] = R(mid[k])
    BY <1>3
  <2> QED
    BY <1>5, <2>1, <2>2
<1>8. new # old => \A i \in 1 .. Len(new) - 1 : new[i] # new[i + 1]
  BY <1>3, <1>4
<1> QED
  BY <1>6, <1>7, <1>8 DEF MovedUp, new

LEMMA RemoveMovesUp ==
  ASSUME NEW t \in Trees, NEW h \in InUse(t.pool)
  PROVE  MovedUp(Levels(t.nav), Levels(Remove(t, h).nav), t.pool, InUse(Remove(t, h).pool))
<1>1. PoolOK(t.pool) /\ NavOK(t.nav, t.pool)
  BY DEF Trees, TreeOK
<1>2. Remains(t.pool, t.pool)
  BY <1>1 DEF Remains
<1>3. /\ NavFits(t.nav) /\ Levels(t.nav) \in Seq(Frames)
      /\ \A j \in 1 .. Len(Levels(t.nav)) : Levels(t.nav)[j].context \in InUse(t.pool) \cup {ROOT}
  BY <1>1, LevelsIs DEF NavOK, Live
<1>4. MovedUp(Levels(t.nav), Levels(t.nav), t.pool, InUse(t.pool))
  BY MovedUpAtFirst
<1>5. Remove(t, h).nav = Relocate(t.pool, t.nav, h, Replacement(t.pool, h))
  BY RemoveIs
<1>6. InUse(Remove(t, h).pool) = InUse(t.pool) \ {h}
  BY RemoveOK
<1> QED
  BY <1>2, <1>3, <1>4, <1>5, <1>6, MovedUpNext

LEMMA RemoveRecursiveMovesUp ==
  ASSUME NEW t \in Trees, NEW h \in InUse(t.pool)
  PROVE  MovedUp(Levels(t.nav), Levels(RemoveRecursive(t, h).nav), t.pool,
                 InUse(RemoveRecursive(t, h).pool))
<1> DEFINE old == Levels(t.nav)
           p == t.pool
<1>1. PoolSize \in Nat /\ PoolSize \in 0 .. PoolSize
  BY PoolAssumption
<1>2. PICK f \in [0 .. PoolSize -> Trees] : Rounds(f, t, h)
  BY RoundsAre
<1>3. \A n \in 0 .. PoolSize : Leaves(t, h, n, f[n])
  BY <1>2, LeavesAre
<1>4. /\ f[0] = t /\ \A n \in 1 .. PoolSize : f[n] = LeafOff(f[n - 1], h)
      /\ f[PoolSize] = RemoveRecursive(t, h)
  BY <1>2 DEF Rounds
<1>5. /\ old \in Seq(Frames)
      /\ \A j \in 1 .. Len(old) : old[j].context \in InUse(p) \cup {ROOT}
  BY LevelsIs DEF Trees, TreeOK, NavOK, Live
<1>6. MovedUp(old, old, p, InUse(p))
  BY MovedUpAtFirst
<1> DEFINE S == {n \in 0 .. PoolSize : MovedUp(old, Levels(f[n].nav), p, InUse(f[n].pool))}
<1>7. 0 \in S
  BY <1>1, <1>4, <1>6
<1> HIDE DEF old, p
<1>8. ASSUME NEW n \in 1 .. PoolSize, n - 1 \in S PROVE n \in S
  <2> DEFINE c == f[n - 1]
             d == f[n]
  <2>1. n \in 0 .. PoolSize /\ n - 1 \in 0 .. PoolSize
    BY <1>1
  <2>2. c \in Trees /\ d = LeafOff(c, h) /\ Remains(p, c.pool)
    BY <1>3, <1>4, <2>1 DEF Leaves, p
  <2>3. MovedUp(old, Levels(c.nav), p, InUse(c.pool))
    BY <1>8
  <2> HIDE DEF c, d
  <2>4. PoolOK(c.pool) /\ NavFits(c.nav)
    BY <2>2 DEF Trees, TreeOK, NavOK
  <2>5. MovedUp(old, Levels(d.nav), p, InUse(d.pool))
    <3>1. CASE h \notin InUse(c.pool)
      BY <2>2, <2>3, <3>1 DEF LeafOff
    <3>2. CASE h \in InUse(c.pool)
      <4> DEFINE l == FirstLeaf(c.pool, h)
      <4>1. /\ l \in InUse(c.pool) /\ d.pool = Without(c.pool, l)
            /\ d.nav = Relocate(c.pool, c.nav, l, Replacement(c.pool, l))
        BY <2>2, <3>2, LeafOffIs
      <4> HIDE DEF l
      <4>2. InUse(d.pool) = InUse(c.pool) \ {l}
        BY <2>4, <4>1, WithoutKeeps
      <4> DEFINE m == d.nav
      <4>3. m = Relocate(c.pool, c.nav, l, Replacement(c.pool, l))
        BY <4>1
      <4> HIDE DEF m
      <4>4. MovedUp(old, Levels(m), p, InUse(c.pool) \ {l})
        BY <1>5, <2>2, <2>3, <2>4, <4>1, <4>3, MovedUpNext
      <4> QED
        BY <4>2, <4>4 DEF m
    <3> QED
      BY <3>1, <3>2
  <2> QED
    BY <2>1, <2>5 DEF c, d
<1>9. \A n \in 0 .. PoolSize : n \in S
  <2> HIDE DEF S
  <2> QED
    BY <1>1, <1>7, <1>8, Induction
<1> QED
  BY <1>1, <1>4, <1>9 DEF old, p

\* A removal moves every level in what it removes up to the nearest command left, keeps
\* its mode and privilege, loses no other level and leaves no two equal neighbours.
THEOREM LevelsMoveUp == Spec => RemovalMovesUp
<1> DEFINE old == Levels(nav)
           new == Levels(nav')
           up == [i \in 1 .. Len(old) |-> [old[i] EXCEPT !.context = NearestLeft(old[i].context)]]
           Moves == /\ {new[i] : i \in 1 .. Len(new)} = {up[i] : i \in 1 .. Len(up)}
                    /\ new # old => \A i \in 1 .. Len(nav'.stack) : new[i] # new[i + 1]
<1>1. TreeInv /\ TreeInv' /\ [Next]_vars => (count' < count => Moves)
  <2> SUFFICES ASSUME TreeInv, TreeInv', [Next]_vars, count' < count PROVE Moves
    OBVIOUS
  <2>1. /\ Tree \in Trees /\ Tree.pool = pool /\ Tree.nav = nav
        /\ Tree' \in Trees /\ (Tree').pool = pool' /\ (Tree').nav = nav' /\ (Tree').count = count'
    BY DEF Tree, TreeInv
  <2>2. /\ count = Cardinality(InUse(pool)) /\ count' = Cardinality(InUse(pool'))
        /\ pool \in Pools /\ pool' \in Pools
    BY <2>1, TreeInvIs DEF Trees, TreeOK, PoolOK
  <2>3. ~ (InUse(pool) \subseteq InUse(pool'))
    <3>1. SUFFICES ASSUME InUse(pool) \subseteq InUse(pool') PROVE FALSE
      OBVIOUS
    <3>2. IsFiniteSet(InUse(pool')) /\ count \in Nat /\ count' \in Nat
      BY <2>2, UseIsFinite
    <3>3. Cardinality(InUse(pool)) <= Cardinality(InUse(pool'))
      BY <3>1, <3>2, FS_Subset
    <3> QED
      BY <2>2, <3>2, <3>3
  <2>4. PICK h \in InUse(pool) : Tree' = Remove(Tree, h) \/ Tree' = RemoveRecursive(Tree, h)
    BY <2>1, <2>3, TreeInvNext DEF Removed
  <2>5. MovedUp(old, new, pool, InUse(pool'))
    <3>1. CASE Tree' = Remove(Tree, h)
      BY <2>1, <3>1, RemoveMovesUp
    <3>2. CASE Tree' = RemoveRecursive(Tree, h)
      BY <2>1, <3>2, RemoveRecursiveMovesUp
    <3> QED
      BY <2>4, <3>1, <3>2
  <2>6. NavFits(nav) /\ NavFits(nav')
    BY <2>1 DEF Trees, TreeOK, NavOK
  <2>7. Len(new) - 1 = Len(nav'.stack) /\ Len(old) \in Nat
    <3>1. Len(new) = Len(nav'.stack) + 1 /\ Len(nav'.stack) \in Nat
      BY <2>6, LevelsIs
    <3>2. old \in Seq(Frames)
      BY <2>6, LevelsIs
    <3> QED
      BY <3>1, <3>2
  <2> HIDE DEF old, new
  <2>8. /\ Len(up) = Len(old)
        /\ \A j \in 1 .. Len(old) : up[j] = At(old[j], Nearest(pool, InUse(pool'), old[j].context))
    BY <2>7, NearestLeftIs DEF At
  <2> HIDE DEF up
  <2>9. /\ \A i \in 1 .. Len(new) : \E j \in 1 .. Len(old) : new[i] = up[j]
        /\ \A j \in 1 .. Len(old) : \E i \in 1 .. Len(new) : new[i] = up[j]
        /\ new # old => \A i \in 1 .. Len(new) - 1 : new[i] # new[i + 1]
    BY <2>5, <2>8 DEF MovedUp
  <2>10. {new[i] : i \in 1 .. Len(new)} = {up[i] : i \in 1 .. Len(up)}
    <3> DEFINE O == 1 .. Len(old)
               N == 1 .. Len(new)
    <3>1. \A i \in N : \E j \in O : new[i] = up[j]
      BY <2>9
    <3>2. \A j \in O : \E i \in N : new[i] = up[j]
      BY <2>9
    <3> HIDE DEF O, N
    <3>3. {new[i] : i \in N} = {up[j] : j \in O}
      BY <3>1, <3>2
    <3> QED
      BY <2>8, <3>3 DEF O, N
  <2>11. new # old => \A i \in 1 .. Len(nav'.stack) : new[i] # new[i + 1]
    BY <2>7, <2>9
  <2> QED
    BY <2>10, <2>11
<1>2. TreeInv /\ [Next]_vars => TreeInv'
  BY TreeInvNext
<1> QED
  BY <1>1, <1>2, TreeIsSound, PTL DEF Spec, RemovalMovesUp

=============================================================================
