---------------------------- MODULE CliNav_proofs ----------------------------
(***************************************************************************)
(* What the navigation operators of CliNav preserve, proved for every stack*)
(* size, set of privileges and set of contexts.                            *)
(***************************************************************************)
EXTENDS CliNav, WellFoundedInduction, TLAPS

\* A navigation record whose stack fits the array.
NavFits(n) == n \in Navs /\ Len(n.stack) <= MaxDepth

\* No level, current or saved, has a privilege above p.
NavBelow(n, p) ==
  /\ n.privilege <= p
  /\ \A i \in 1 .. Len(n.stack) : n.stack[i].privilege <= p

\* A non-empty set of positions has a last one: what cli_set_mode's search from the
\* top of the stack relies on.
LEMMA LastPosition ==
  ASSUME NEW k \in Nat, NEW S, S \subseteq 1 .. k, S # {}
  PROVE  \E i \in S : \A j \in S : j <= i
<1> DEFINE T == {k - i : i \in S}
<1>1. T \subseteq Nat /\ T # {}
  <2>1. ASSUME NEW i \in S PROVE k - i \in Nat
    OBVIOUS
  <2>2. T \subseteq Nat
    BY <2>1
  <2>3. PICK i \in S : TRUE
    OBVIOUS
  <2> QED BY <2>2, <2>3
<1>2. PICK x \in T : \A y \in T : <<y, x>> \notin OpToRel(<, Nat)
  BY <1>1, WFMin, NatLessThanWellFounded
<1>3. \A y \in T : ~ (y < x)
  BY <1>1, <1>2 DEF OpToRel
<1>4. PICK i \in S : x = k - i
  OBVIOUS
<1>5. ASSUME NEW j \in S PROVE j <= i
  <2>1. k - j \in T
    OBVIOUS
  <2>2. ~ (k - j < k - i)
    BY <1>3, <1>4, <2>1
  <2> QED BY <2>2
<1> QED BY <1>5

LEMMA TopmostIsALevel ==
  ASSUME NEW n \in Navs, NEW m, LevelsIn(n, m) # {}
  PROVE  Topmost(n, m) \in LevelsIn(n, m)
<1>1. Len(n.stack) \in Nat
  BY DEF Navs
<1>2. LevelsIn(n, m) \subseteq 1 .. Len(n.stack)
  BY DEF LevelsIn
<1>3. \E i \in LevelsIn(n, m) : \A j \in LevelsIn(n, m) : j <= i
  BY <1>1, <1>2, LastPosition
<1> QED BY <1>3 DEF Topmost

-----------------------------------------------------------------------------
(* Every operator keeps the record well-formed and within the array.       *)

LEMMA NavInitFits == NavFits(NavInit)
BY MaxDepthAssumption, PrivilegesAssumption, ContextsAssumption
   DEF NavFits, Navs, NavInit, Frames, Modes

LEMMA NavPushFits ==
  ASSUME NEW n, NavFits(n), CanPush(n)
  PROVE  NavFits(NavPush(n)) /\ n.stack \in Seq(Frames) /\ Frame(n) \in Frames
<1>1. Frame(n) \in Frames /\ n.stack \in Seq(Frames) /\ Len(n.stack) \in Nat
  BY DEF NavFits, Navs, Frame, Frames
<1>2. Append(n.stack, Frame(n)) \in Seq(Frames)
      /\ Len(Append(n.stack, Frame(n))) = Len(n.stack) + 1
  BY <1>1
<1>3. NavPush(n) \in Navs /\ NavPush(n).stack = Append(n.stack, Frame(n))
  BY <1>2 DEF NavFits, Navs, NavPush
<1> QED BY <1>1, <1>2, <1>3, MaxDepthAssumption DEF CanPush, NavFits

LEMMA NavReturnFits ==
  ASSUME NEW n, NavFits(n), NEW i \in 1 .. Len(n.stack)
  PROVE  NavFits(NavReturn(n, i))
<1>1. n.stack[i] \in Frames
  BY DEF NavFits, Navs
<1>2. SubSeq(n.stack, 1, i - 1) \in Seq(Frames) /\ Len(SubSeq(n.stack, 1, i - 1)) = i - 1
  BY DEF NavFits, Navs
<1> QED BY <1>1, <1>2, MaxDepthAssumption DEF NavFits, Navs, NavReturn, Frames

LEMMA NavResetFits ==
  ASSUME NEW n, NavFits(n)
  PROVE  NavFits(NavReset(n))
<1>1. <<>> \in Seq(Frames) /\ Len(<<>>) = 0
  OBVIOUS
<1>2. NavReset(n) \in Navs /\ NavReset(n).stack = <<>>
  BY <1>1, ContextsAssumption DEF NavFits, Navs, NavReset, Modes
<1> QED BY <1>1, <1>2, MaxDepthAssumption DEF NavFits

LEMMA SetPrivilegeFits ==
  ASSUME NEW n, NavFits(n), NEW p \in Privileges
  PROVE  NavFits(SetPrivilege(n, p))
BY DEF NavFits, Navs, SetPrivilege

LEMMA SetModeFits ==
  ASSUME NEW n, NavFits(n), NEW m \in Modes
  PROVE  NavFits(SetMode(n, m))
<1>1. CASE m = n.mode \/ ~CanSetMode(n, m)
  BY <1>1 DEF SetMode
<1>2. CASE ~(m = n.mode \/ ~CanSetMode(n, m)) /\ LevelsIn(n, m) # {}
  <2>1. Topmost(n, m) \in 1 .. Len(n.stack)
    BY <1>2, TopmostIsALevel DEF LevelsIn, NavFits
  <2> QED BY <1>2, <2>1, NavReturnFits DEF SetMode
<1>3. CASE ~(m = n.mode \/ ~CanSetMode(n, m)) /\ LevelsIn(n, m) = {}
  <2>1. CanPush(n)
    BY <1>3 DEF CanSetMode
  <2>2. NavFits(NavPush(n))
    BY <2>1, NavPushFits
  <2> QED BY <1>3, <2>2, ContextsAssumption DEF SetMode, NavFits, Navs
<1> QED BY <1>1, <1>2, <1>3

LEMMA EnterContextFits ==
  ASSUME NEW n, NavFits(n), NEW node \in Contexts, NEW d
  PROVE  NavFits(EnterContext(n, node, d))
<1>1. CASE n.context = node \/ ~CanEnterContext(n, node, d)
  BY <1>1 DEF EnterContext
<1>2. CASE ~(n.context = node \/ ~CanEnterContext(n, node, d)) /\ Len(n.stack) > d
  BY <1>2 DEF EnterContext, NavFits, Navs
<1>3. CASE ~(n.context = node \/ ~CanEnterContext(n, node, d)) /\ ~(Len(n.stack) > d)
  <2>1. NavFits(NavPush(n))
    BY <1>3, NavPushFits DEF CanEnterContext
  <2> QED BY <1>3, <2>1 DEF EnterContext, NavFits, Navs
<1> QED BY <1>1, <1>2, <1>3

LEMMA EnableFits ==
  ASSUME NEW n, NavFits(n)
  PROVE  NavFits(EnableAtOnce(n)) /\ NavFits(EnableGranted(n))
<1>1. NavFits(SetMode(n, "enable"))
  BY SetModeFits DEF Modes
<1>2. PrivPrivileged \in Privileges
  BY PrivilegesAssumption
<1> QED BY <1>1, <1>2, SetPrivilegeFits DEF EnableAtOnce, EnableGranted

-----------------------------------------------------------------------------
(* No operator but SetPrivilege raises the privilege of a level.           *)

LEMMA NavReturnBelow ==
  ASSUME NEW n, NavFits(n), NEW p \in Nat, NavBelow(n, p), NEW i \in 1 .. Len(n.stack)
  PROVE  NavBelow(NavReturn(n, i), p)
<1>1. n.stack \in Seq(Frames)
  BY DEF NavFits, Navs
<1>2. Len(SubSeq(n.stack, 1, i - 1)) = i - 1
      /\ \A j \in 1 .. i - 1 : SubSeq(n.stack, 1, i - 1)[j] = n.stack[j]
  BY <1>1
<1> QED BY <1>1, <1>2 DEF NavBelow, NavReturn

LEMMA NavPushBelow ==
  ASSUME NEW n, NavFits(n), NEW p \in Nat, NavBelow(n, p)
  PROVE  NavBelow(NavPush(n), p)
<1>1. n.stack \in Seq(Frames)
  BY DEF NavFits, Navs
<1>2. NavPush(n).stack = Append(n.stack, Frame(n)) /\ NavPush(n).privilege = n.privilege
  BY DEF NavPush, NavFits, Navs
<1>3. \A i \in 1 .. Len(n.stack) + 1 :
        Append(n.stack, Frame(n))[i] = IF i = Len(n.stack) + 1 THEN Frame(n) ELSE n.stack[i]
  BY <1>1
<1>4. Len(Append(n.stack, Frame(n))) = Len(n.stack) + 1
  BY <1>1
<1>5. Frame(n).privilege = n.privilege
  BY DEF Frame
<1> QED BY <1>2, <1>3, <1>4, <1>5 DEF NavBelow

LEMMA SetModeBelow ==
  ASSUME NEW n, NavFits(n), NEW p \in Nat, NavBelow(n, p), NEW m
  PROVE  NavBelow(SetMode(n, m), p)
<1>1. CASE m = n.mode \/ ~CanSetMode(n, m)
  BY <1>1 DEF SetMode
<1>2. CASE ~(m = n.mode \/ ~CanSetMode(n, m)) /\ LevelsIn(n, m) # {}
  <2>1. Topmost(n, m) \in 1 .. Len(n.stack)
    BY <1>2, TopmostIsALevel DEF LevelsIn, NavFits
  <2> QED BY <1>2, <2>1, NavReturnBelow DEF SetMode
<1>3. CASE ~(m = n.mode \/ ~CanSetMode(n, m)) /\ LevelsIn(n, m) = {}
  <2>1. NavBelow(NavPush(n), p) /\ NavFits(NavPush(n))
    BY <1>3, NavPushBelow, NavPushFits DEF CanSetMode
  <2>2. SetMode(n, m) = [NavPush(n) EXCEPT !.mode = m, !.context = ROOT]
    BY <1>3 DEF SetMode
  <2>3. SetMode(n, m).privilege = NavPush(n).privilege
        /\ SetMode(n, m).stack = NavPush(n).stack
    BY <2>1, <2>2 DEF NavFits, Navs
  <2> QED BY <2>1, <2>3 DEF NavBelow
<1> QED BY <1>1, <1>2, <1>3

LEMMA BelowMore ==
  ASSUME NEW n, NavFits(n), NEW p \in Nat, NavBelow(n, p), NEW r \in Nat, p <= r
  PROVE  NavBelow(n, r)
<1>1. \A i \in 1 .. Len(n.stack) : n.stack[i] \in Frames
  BY DEF NavFits, Navs
<1>2. \A f \in Frames : f.privilege \in Nat
  BY PrivilegesAssumption DEF Frames
<1>3. n.privilege \in Nat
  BY PrivilegesAssumption DEF NavFits, Navs
<1> QED BY <1>1, <1>2, <1>3 DEF NavBelow

LEMMA SetPrivilegeBelow ==
  ASSUME NEW n, NavFits(n), NEW p \in Nat, NavBelow(n, p), NEW q \in Nat, NEW r \in Nat,
         q <= r, p <= r
  PROVE  NavBelow(SetPrivilege(n, q), r)
<1>1. SetPrivilege(n, q).stack = n.stack /\ SetPrivilege(n, q).privilege = q
  BY DEF SetPrivilege, NavFits, Navs
<1> QED BY <1>1, BelowMore DEF NavBelow

LEMMA UnprivilegedBelow ==
  ASSUME NEW n, NavFits(n), NEW p \in Nat
  PROVE  NavBelow(SetPrivilege(NavReset(n), PrivUser), p)
BY DEF NavBelow, SetPrivilege, NavReset, NavFits, Navs, PrivUser

LEMMA EnterContextBelow ==
  ASSUME NEW n, NavFits(n), NEW p \in Nat, NavBelow(n, p), NEW node, NEW d
  PROVE  NavBelow(EnterContext(n, node, d), p)
<1>1. CASE n.context = node \/ ~CanEnterContext(n, node, d)
  BY <1>1 DEF EnterContext
<1>2. CASE ~(n.context = node \/ ~CanEnterContext(n, node, d)) /\ Len(n.stack) > d
  BY <1>2 DEF EnterContext, NavFits, Navs, NavBelow
<1>3. CASE ~(n.context = node \/ ~CanEnterContext(n, node, d)) /\ ~(Len(n.stack) > d)
  <2>1. NavBelow(NavPush(n), p) /\ NavFits(NavPush(n))
    BY <1>3, NavPushBelow, NavPushFits DEF CanEnterContext
  <2> QED BY <1>3, <2>1 DEF EnterContext, NavFits, Navs, NavBelow
<1> QED BY <1>1, <1>2, <1>3

LEMMA EnableBelow ==
  ASSUME NEW n, NavFits(n), NEW p \in Nat, NavBelow(n, p), p >= PrivPrivileged
  PROVE  NavBelow(EnableAtOnce(n), p) /\ NavBelow(EnableGranted(n), p)
<1>1. NavFits(SetMode(n, "enable")) /\ NavBelow(SetMode(n, "enable"), p)
  BY SetModeFits, SetModeBelow DEF Modes
<1>2. NavBelow(SetPrivilege(SetMode(n, "enable"), PrivPrivileged), p)
  BY <1>1, SetPrivilegeBelow DEF PrivPrivileged
<1> QED BY <1>1, <1>2 DEF EnableAtOnce, EnableGranted

=============================================================================
