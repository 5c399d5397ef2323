------------------------------ MODULE MCCliTree ------------------------------
(***************************************************************************)
(* Instances of CliTree for TLC.  Two are checked in one run; which one is *)
(* chosen in the initial state and never changes:                          *)
(*   menus   three slots, aliases and duplicates, handlers that do not     *)
(*           nest, one mode and one privilege: the tree changes under the  *)
(*           session;                                                      *)
(*   levels  two slots, handlers that nest, two modes and two privileges:  *)
(*           the levels change under the handlers.                         *)
(***************************************************************************)
EXTENDS CliTree

MCRoot == -2
MCInvalid == -1
MCContexts == Handles \cup {MCRoot}

Cmd(name, mode, privilege, handler) ==
  [name |-> name, mode |-> mode, privilege |-> privilege, handler |-> handler]

\* Two commands that can both be menus, one of them only in exec mode.
MenuCommands == {Cmd("a", "any", 0, TRUE), Cmd("b", "exec", 0, TRUE)}

\* A privileged command, and a container for one mode: each can hold the other.
LevelCommands == {Cmd("a", "any", 10, TRUE), Cmd("c", "enable", 0, FALSE)}

MCCommands == MenuCommands \cup LevelCommands

VARIABLE instance

InInstance ==
  \/ /\ instance = "menus"
     /\ Len(running') <= 1 /\ nav'.mode = "exec" /\ nav'.privilege = 0
     /\ \A h \in InUse(pool') : pool'[h].handler /\ pool'[h].privilege = 0
  \/ /\ instance = "levels"
     /\ count' <= 2
     /\ \A h \in InUse(pool') :
          /\ pool'[h].aliases = {}
          /\ \E c \in LevelCommands :
               /\ pool'[h].name = c.name /\ pool'[h].mode = c.mode
               /\ pool'[h].privilege = c.privilege

MCInit == Init /\ instance \in {"menus", "levels"}

MCNext == Next /\ InInstance /\ UNCHANGED instance

MCSpec == MCInit /\ [][MCNext]_<<vars, instance>>

=============================================================================
