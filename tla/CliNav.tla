------------------------------- MODULE CliNav -------------------------------
(***************************************************************************)
(* Navigation of a CLI session: the current mode, submenu and privilege,   *)
(* and the stack of levels that 'exit' returns to (nav_stack / nav_depth). *)
(*                                                                         *)
(* The operators are pure: each maps the navigation record of a session to *)
(* the one the C function of the same name leaves behind.  A record is     *)
(* [mode, context, privilege, stack]; the C array index i of nav_stack is  *)
(* position i + 1 of the sequence, so nav_depth is Len(stack).             *)
(***************************************************************************)
EXTENDS Integers, Sequences

CONSTANTS
  MaxDepth,    \* CLI_MAX_CONTEXT_DEPTH
  Privileges,  \* the privilege levels in use (cli_priv_t)
  Contexts,    \* CLI_CMD_ROOT and the command nodes that can be a submenu
  ROOT         \* CLI_CMD_ROOT

PrivUser == 0          \* CLI_PRIV_USER
PrivPrivileged == 10   \* CLI_PRIV_PRIVILEGED

ASSUME MaxDepthAssumption == MaxDepth \in Nat
ASSUME PrivilegesAssumption ==
  /\ Privileges \subseteq Nat
  /\ {PrivUser, PrivPrivileged} \subseteq Privileges
ASSUME ContextsAssumption == ROOT \in Contexts

Modes == {"exec", "enable", "config"}

Frames == [mode : Modes, context : Contexts, privilege : Privileges]

Navs == [mode : Modes, context : Contexts, privilege : Privileges, stack : Seq(Frames)]

-----------------------------------------------------------------------------

NavInit == [mode |-> "exec", context |-> ROOT, privilege |-> PrivUser, stack |-> <<>>]

Frame(n) == [mode |-> n.mode, context |-> n.context, privilege |-> n.privilege]

(* Mutant: one level more than the array has.                              *)
CanPushOneMore(n) == Len(n.stack) <= MaxDepth

\* cli_nav_push fails (CLI_ERR_NOMEM) when the stack is full.
CanPush(n) == Len(n.stack) < MaxDepth

NavPush(n) == [n EXCEPT !.stack = Append(n.stack, Frame(n))]

\* Restore the level saved at position i and drop it with everything above.
NavReturn(n, i) ==
  [mode |-> n.stack[i].mode, context |-> n.stack[i].context,
   privilege |-> n.stack[i].privilege, stack |-> SubSeq(n.stack, 1, i - 1)]

\* The privilege is not part of it: every caller sets it right after.
NavReset(n) == [n EXCEPT !.mode = "exec", !.context = ROOT, !.stack = <<>>]

SetPrivilege(n, p) == [n EXCEPT !.privilege = p]

\* The saved levels in mode m; cli_set_mode returns to the topmost of them.
LevelsIn(n, m) == {i \in 1 .. Len(n.stack) : n.stack[i].mode = m}

Topmost(n, m) == CHOOSE i \in LevelsIn(n, m) : \A j \in LevelsIn(n, m) : j <= i

\* cli_set_mode is refused (CLI_ERR_NOMEM) only when it has to push and cannot.
CanSetMode(n, m) == m = n.mode \/ LevelsIn(n, m) # {} \/ CanPush(n)

SetMode(n, m) ==
  IF m = n.mode \/ ~CanSetMode(n, m) THEN n
  ELSE IF LevelsIn(n, m) # {} THEN NavReturn(n, Topmost(n, m))
  ELSE [NavPush(n) EXCEPT !.mode = m, !.context = ROOT]

\* The built-in 'enable' with nothing to ask for: the mode is entered first, so
\* that the saved level is the unprivileged one; the privilege is raised, never
\* lowered, and nothing changes when the mode cannot be entered.
EnableAtOnce(n) ==
  LET e == SetMode(n, "enable")
  IN  IF CanSetMode(n, "enable") /\ e.privilege < PrivPrivileged
      THEN SetPrivilege(e, PrivPrivileged)
      ELSE e

\* An accepted enable password sets the privilege to exactly CLI_PRIV_PRIVILEGED.
EnableGranted(n) ==
  IF CanSetMode(n, "enable") THEN SetPrivilege(SetMode(n, "enable"), PrivPrivileged) ELSE n

AtFloor(n) == n.stack = <<>>

\* 'exit' above the floor: back to the level below.
LeaveLevel(n) == NavReturn(n, Len(n.stack))

\* A bare submenu command enters its node once its callback returned OK; a level
\* the callback itself pushed (a mode change) is shared, not pushed again.
CanEnterContext(n, node, depthBefore) ==
  n.context = node \/ Len(n.stack) > depthBefore \/ CanPush(n)

EnterContext(n, node, depthBefore) ==
  IF n.context = node \/ ~CanEnterContext(n, node, depthBefore) THEN n
  ELSE IF Len(n.stack) > depthBefore THEN [n EXCEPT !.context = node]
  ELSE [NavPush(n) EXCEPT !.context = node]

=============================================================================
