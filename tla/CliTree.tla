------------------------------- MODULE CliTree -------------------------------
(***************************************************************************)
(* The command tree of a session: the pool of command nodes, registration  *)
(* and removal, the submenu a session is in, and the execution of commands *)
(* whose handlers change the tree they were found in.                      *)
(*                                                                         *)
(* A handle is a slot number: nothing tells an old handle from a new one   *)
(* for the same slot.  Handlers (running, outermost first) may call any of *)
(* the registration functions and may run further commands; the engine     *)
(* goes on with the handle and the depth it kept over the call.            *)
(***************************************************************************)
EXTENDS CliNav, FiniteSets

CONSTANTS
  PoolSize,     \* cmd_pool_size
  INVALID,      \* CLI_CMD_INVALID
  Commands,     \* what the application registers: name, mode, privilege, handler
  Synonyms,     \* further keywords, for aliases and duplicates
  MaxAliases,   \* CLI_MAX_ALIASES
  MaxNesting,   \* how deep handlers nest through cli_exec
  AppModes,     \* the modes commands switch to
  AppPrivileges \* the privileges commands set

Handles == 0 .. PoolSize - 1
Keywords == {c.name : c \in Commands} \cup Synonyms
CmdModes == Modes \cup {"any"}

ASSUME PoolAssumption ==
  /\ PoolSize \in Nat /\ MaxAliases \in Nat /\ MaxNesting \in Nat
  /\ AppModes \subseteq Modes /\ AppPrivileges \subseteq Privileges
  /\ Contexts = Handles \cup {ROOT} /\ ROOT \notin Handles
  /\ INVALID \notin Contexts
ASSUME CommandsAssumption ==
  \A c \in Commands : c.mode \in CmdModes /\ c.privilege \in Privileges /\ c.handler \in BOOLEAN

VARIABLES
  pool,     \* cmd_pool: a node, or Unused, in every slot
  count,    \* cmd_pool_count
  nav,      \* mode, context, privilege and nav_stack
  running,  \* what cli_execute_command keeps for each handler that has not returned
  session   \* "RUN", or "RESTARTED" until the engine has shown the banner again

vars == <<pool, count, nav, running, session>>

-----------------------------------------------------------------------------
(* The pool                                                                *)

\* A zeroed slot.
Unused == [inUse |-> FALSE]

InUse(p) == {h \in Handles : p[h] # Unused}

Children(p, h) == {c \in InUse(p) : p[c].parent = h}

Words(node) == {node.name} \cup node.aliases

Exact(node, word) == word \in Words(node)

Overlap(m1, m2) == m1 = m2 \/ "any" \in {m1, m2}

(* Mutant: a keyword is only compared with the names, not the aliases.     *)
NameTakenByName(p, parent, mode, word, ignore) ==
  \E h \in Children(p, parent) \ {ignore} : Overlap(p[h].mode, mode) /\ p[h].name = word

NameTaken(p, parent, mode, word, ignore) ==
  \E h \in Children(p, parent) \ {ignore} : Overlap(p[h].mode, mode) /\ Exact(p[h], word)

FreeSlot(p) == CHOOSE h \in Handles \ InUse(p) : \A g \in Handles \ InUse(p) : h <= g

CanAdd(p, n, parent, node) ==
  /\ parent \in InUse(p) \cup {ROOT}
  /\ n < PoolSize
  /\ ~NameTaken(p, parent, node.mode, node.name, INVALID)

Adding(p, parent, c) ==
  [p EXCEPT ![FreeSlot(p)] =
     [name |-> c.name, aliases |-> {}, mode |-> c.mode, privilege |-> c.privilege,
      handler |-> c.handler, parent |-> parent]]

\* cli_is_within: the nodes met from node upwards, as far as parent links lead.
Climb(p, node) ==
  LET up[n \in 0 .. PoolSize] ==
        IF n = 0 THEN node
        ELSE LET below == up[n - 1] IN IF below \in InUse(p) THEN p[below].parent ELSE below
  IN  up

Within(p, node, ancestor) ==
  LET path == Climb(p, node) IN \E n \in 0 .. PoolSize : path[n] = ancestor

\* The saved levels and, last, the current one.
Levels(n) == Append(n.stack, Frame(n))

(* Mutant: levels that differ in privilege only are dropped as well.       *)
KeptByPlace(levels) ==
  LET kept[i \in 0 .. Len(levels) - 1] ==
        IF i = 0 THEN <<>>
        ELSE IF /\ levels[i].mode = levels[i + 1].mode
                /\ levels[i].context = levels[i + 1].context
             THEN kept[i - 1] ELSE Append(kept[i - 1], levels[i])
  IN  kept[Len(levels) - 1]

\* The saved levels that differ from the one above them.
Kept(levels) ==
  LET kept[i \in 0 .. Len(levels) - 1] ==
        IF i = 0 THEN <<>>
        ELSE IF levels[i] = levels[i + 1] THEN kept[i - 1] ELSE Append(kept[i - 1], levels[i])
  IN  kept[Len(levels) - 1]

Raised(p, f, removed, replacement) ==
  IF Within(p, f.context, removed) THEN [f EXCEPT !.context = replacement] ELSE f

(* cli_nav_relocate: levels at or below the removed node move up to its    *)
(* parent; levels that have become equal to the one above are dropped.     *)
Relocate(p, n, removed, replacement) ==
  LET levels == Levels(n)
      moved == [i \in 1 .. Len(levels) |-> Raised(p, levels[i], removed, replacement)]
  IN  IF moved = levels THEN n
      ELSE [n EXCEPT !.context = moved[Len(moved)].context, !.stack = Kept(moved)]

(* A tree is a pool with its counter and the navigation into it.           *)
(* cli_remove_command: the children stay, detached.                        *)
Remove(t, h) ==
  [pool |-> [g \in Handles |->
      IF g = h THEN Unused
      ELSE IF g \in Children(t.pool, h) THEN [t.pool[g] EXCEPT !.parent = INVALID]
      ELSE t.pool[g]],
   count |-> t.count - 1,
   nav |-> Relocate(t.pool, t.nav, h,
                    IF t.pool[h].parent \in InUse(t.pool) THEN t.pool[h].parent ELSE ROOT)]

\* One step down from x: to its first child, if it has any.
Below(p, x) ==
  LET below == Children(p, x)
  IN  IF below = {} THEN x ELSE CHOOSE c \in below : \A d \in below : c <= d

\* The leaf cli_remove_command_recursive comes to first below h.
FirstLeaf(p, h) ==
  LET down[n \in 0 .. PoolSize] == IF n = 0 THEN h ELSE Below(p, down[n - 1])
  IN  down[PoolSize]

(* Mutant: one level of children is removed, not the whole subtree.        *)
RemoveRecursiveOnce(t, h) ==
  LET after[n \in 0 .. PoolSize] ==
        IF n = 0 THEN t
        ELSE LET left == after[n - 1]
             IN  IF Children(left.pool, h) = {} THEN left
                 ELSE Remove(left, Below(left.pool, h))
  IN  Remove(after[PoolSize], h)

RemoveRecursive(t, h) ==
  LET after[n \in 0 .. PoolSize] ==
        IF n = 0 THEN t
        ELSE LET left == after[n - 1]
             IN  IF h \in InUse(left.pool) THEN Remove(left, FirstLeaf(left.pool, h)) ELSE left
  IN  after[PoolSize]

Tree == [pool |-> pool, count |-> count, nav |-> nav]

-----------------------------------------------------------------------------
(* Which commands the session may use                                      *)

Allowed(h) ==
  /\ h \in InUse(pool) /\ pool[h].privilege <= nav.privilege
  /\ pool[h].mode \in {"any", nav.mode}

\* A node without a handler counts only while one of its subcommands does.
Selectable ==
  LET usable[n \in 0 .. PoolSize] ==
        IF n = 0 THEN {h \in Handles : Allowed(h) /\ pool[h].handler}
        ELSE LET below == usable[n - 1]
             IN  below \cup {h \in Handles : Allowed(h) /\ Children(pool, h) \cap below # {}}
  IN  usable[PoolSize]

HasChildren(h) == Children(pool, h) \cap Selectable # {}

(* A line names a command through selectable ones, from the submenu or from*)
(* the root.                                                               *)
Typeable(h) ==
  /\ h \in Selectable
  /\ LET path == Climb(pool, h)
     IN  \E n \in 1 .. PoolSize :
           /\ path[n] \in {nav.context, ROOT}
           /\ \A k \in 0 .. n - 1 : path[k] \in Selectable

-----------------------------------------------------------------------------

Init ==
  /\ pool = [h \in Handles |-> Unused] /\ count = 0
  /\ nav = NavInit /\ running = <<>> /\ session = "RUN"

Becomes(t) ==
  /\ pool' = t.pool /\ count' = t.count /\ nav' = t.nav
  /\ UNCHANGED <<running, session>>

AddCommand(parent, c) ==
  /\ CanAdd(pool, count, parent, c)
  /\ pool' = Adding(pool, parent, c) /\ count' = count + 1
  /\ UNCHANGED <<nav, running, session>>

\* Subcommands are not shared, so a node that has some is not duplicated.
AddDuplicate(h, word) ==
  /\ h \in InUse(pool) /\ Children(pool, h) = {}
  /\ AddCommand(pool[h].parent, [pool[h] EXCEPT !.name = word])

AddAlias(h, word) ==
  /\ h \in InUse(pool) /\ Cardinality(pool[h].aliases) < MaxAliases
  /\ ~Exact(pool[h], word) /\ ~NameTaken(pool, pool[h].parent, pool[h].mode, word, h)
  /\ pool' = [pool EXCEPT ![h].aliases = @ \cup {word}]
  /\ UNCHANGED <<count, nav, running, session>>

RemoveCommand(h) == h \in InUse(pool) /\ Becomes(Remove(Tree, h))

RemoveCommandRecursive(h) == h \in InUse(pool) /\ Becomes(RemoveRecursive(Tree, h))

Navigate(n) == nav' = n /\ UNCHANGED <<pool, count, running, session>>

AppSetMode(m) == Navigate(SetMode(nav, m))

AppSetPrivilege(p) == Navigate(SetPrivilege(nav, p))

(* The built-in 'exit', typed or run by a handler.                         *)
Exit == ~AtFloor(nav) /\ Navigate(LeaveLevel(nav))

RestartSession ==
  /\ nav' = SetPrivilege(NavReset(nav), PrivUser) /\ session' = "RESTARTED"
  /\ UNCHANGED <<pool, count, running>>

(* The engine shows the banner before it reads another line.               *)
Banner ==
  /\ running = <<>> /\ session' = "RUN"
  /\ UNCHANGED <<pool, count, nav, running>>

\* A word that follows a command with subcommands names one of them.
Run(h, bare) ==
  /\ running = <<>> => session = "RUN"
  /\ Len(running) < MaxNesting
  /\ Typeable(h) /\ pool[h].handler
  /\ bare \/ ~HasChildren(h)
  /\ running' = Append(running, [node |-> h, depth |-> Len(nav.stack), bare |-> bare,
                                 session |-> session])
  /\ UNCHANGED <<pool, count, nav, session>>

(* Mutant: the submenu is entered although its node may be gone.           *)
EntersBlindly(f) == f.bare /\ session = f.session

(* The handle is checked again, and its subcommands are looked up again.   *)
Enters(f) ==
  f.bare /\ session = f.session /\ f.node \in InUse(pool) /\ HasChildren(f.node)

Return(ok) ==
  /\ running # <<>>
  /\ LET f == running[Len(running)]
     IN  nav' = IF ok /\ Enters(f) THEN EnterContext(nav, f.node, f.depth) ELSE nav
  /\ running' = SubSeq(running, 1, Len(running) - 1)
  /\ UNCHANGED <<pool, count, session>>

Registration ==
  \/ \E parent \in Handles \cup {ROOT, INVALID}, c \in Commands : AddCommand(parent, c)
  \/ \E h \in Handles, word \in Synonyms : AddDuplicate(h, word) \/ AddAlias(h, word)

Removal == \E h \in Handles : RemoveCommand(h) \/ RemoveCommandRecursive(h)

Next ==
  \/ Registration \/ Removal
  \/ \E m \in AppModes : AppSetMode(m)
  \/ \E p \in AppPrivileges : AppSetPrivilege(p)
  \/ Exit \/ RestartSession \/ Banner
  \/ \E h \in Handles, bare \in BOOLEAN : Run(h, bare)
  \/ \E ok \in BOOLEAN : Return(ok)

Spec == Init /\ [][Next]_vars

-----------------------------------------------------------------------------
(* Correctness                                                             *)

\* Neither the submenu the session is in nor one that 'exit' returns to is a removed
\* command, and 'exit' leads out of every one: the outermost level is exec mode at the
\* root, however handlers change the navigation under the submenu their command opens.
\* The tree they lie in has no cycle, on which cli_cmd_has_children would recurse without
\* end: a slot that is reused adopts none of its former children.
LevelsAreLive ==
  LET levels == Levels(nav)
  IN  /\ Len(levels) <= MaxDepth + 1
      /\ \A i \in 1 .. Len(levels) : levels[i].context \in InUse(pool) \cup {ROOT}
      /\ levels[1].context = ROOT /\ levels[1].mode = "exec"
      /\ \A h \in InUse(pool) : Climb(pool, h)[PoolSize] \in {ROOT, INVALID}

\* No command is out of reach because an earlier sibling, visible in the same
\* mode, has its keyword as name or alias.
KeywordsAreUnique ==
  \A g, h \in InUse(pool) :
    g # h /\ pool[g].parent = pool[h].parent /\ pool[g].parent # INVALID
      /\ Overlap(pool[g].mode, pool[h].mode)
    => Words(pool[g]) \cap Words(pool[h]) = {}

\* What is left of the way from node upwards once the removed nodes, and all that
\* is below them, are out of reach: its first node, or the root.
NearestLeft(node) ==
  LET path == Climb(pool, node)
      left == {n \in 0 .. PoolSize : path[n] \in InUse(pool) /\
                 \A k \in n .. PoolSize : path[k] \in InUse(pool) => path[k] \in InUse(pool')}
  IN  IF left = {} THEN ROOT ELSE path[CHOOSE n \in left : \A k \in left : n <= k]

\* A removal moves every level that was in the removed subtree up to what is
\* left above it, keeps its mode and privilege, loses no other level, and leaves
\* none that 'exit' could leave without changing anything.
RemovalMovesUp ==
  [][count' < count =>
       LET old == Levels(nav)
           new == Levels(nav')
           up == [i \in 1 .. Len(old) |-> [old[i] EXCEPT !.context = NearestLeft(old[i].context)]]
       IN  /\ {new[i] : i \in 1 .. Len(new)} = {up[i] : i \in 1 .. Len(up)}
           /\ new # old => \A i \in 1 .. Len(nav'.stack) : new[i] # new[i + 1]]_vars

\* Several commands go at once only in a recursive removal, which frees one whole
\* subtree: no descendant is left behind and no bystander goes.  cmd_pool_count follows
\* every addition, duplicate and removal: no slot leaks and none is filled twice.
RecursiveRemovalIsExact ==
  [][LET freed == InUse(pool) \ InUse(pool')
     IN  /\ count' - count = Cardinality(InUse(pool')) - Cardinality(InUse(pool))
         /\ Cardinality(freed) > 1 =>
              \E h \in freed : freed = {g \in InUse(pool) : Within(pool, g, h)}]_vars

\* cli.h, cli_remove_command: the children of a removed command "stay unreachable".
DetachedUnreachable ==
  \A i \in 1 .. Len(Levels(nav)) : Climb(pool, Levels(nav)[i].context)[PoolSize] = ROOT

=============================================================================
