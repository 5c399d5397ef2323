----------------------------- MODULE MCCliWords -----------------------------
(***************************************************************************)
(* Instances of CliWords and CliNumbers for TLC.  One run looks at both,    *)
(* at either on its own; which one is chosen in the initial state.         *)
(***************************************************************************)
EXTENDS CliWords, CliNumbers

MCChars == {"a", "b", "A", " ", "\"", "\\", "|", "?"}

MCFilters == <<[keyword |-> <<"a", "b">>, type |-> "grep"], [keyword |-> <<"b">>, type |-> "count"]>>

Cmd(name, aliases, parent, handler) ==
  [name |-> name, aliases |-> aliases, parent |-> parent, handler |-> handler,
   hidden |-> FALSE, allowed |-> TRUE]
Hidden(cmd) == [cmd EXCEPT !.hidden = TRUE]

\* A submenu with a visible and a hidden command, a root command whose keyword the
\* hidden one takes, one with aliases, a container with a hidden command only, 'help'.
MCNodes ==
  <<Cmd(<<"a">>, <<>>, ROOT, "app"),
    Cmd(<<"b">>, <<>>, 1, "app"),
    Hidden(Cmd(<<"a", "b">>, <<>>, 1, "app")),
    Cmd(<<"a", "b">>, <<>>, ROOT, "app"),
    Cmd(<<"b", "A">>, <<<<"A", "a">>, <<"b", "b">>>>, ROOT, "none"),
    Hidden(Cmd(<<"a">>, <<>>, 5, "app")),
    Cmd(<<"b", "a", "b">>, <<>>, ROOT, "help")>>

\* 'help' with a keyword so short that words fit behind it, also an ambiguous one.
MCHelpNodes ==
  <<Cmd(<<"b">>, <<>>, ROOT, "help"),
    Cmd(<<"a", "a">>, <<>>, ROOT, "none"),
    Cmd(<<"a", "b">>, <<<<"b", "a">>>>, ROOT, "app"),
    Cmd(<<"b">>, <<>>, 2, "app")>>

MCMenus ==
  {[nodes |-> MCNodes, context |-> c, size |-> 7] : c \in {ROOT, 1}}
    \cup {[nodes |-> MCHelpNodes, context |-> ROOT, size |-> 7]}
    \cup {[nodes |-> MCNodes, context |-> ROOT, size |-> 14]}

\* One and two words of up to two characters, and one word too many.
ShortWords == UNION {[1 .. k -> MCChars \ {"b", "A"}] : k \in 0 .. 2}
MCWordLists == UNION {[1 .. k -> ShortWords] : k \in 1 .. 2} \cup {<<<<"a">>, <<"a">>, <<"a">>>>}

\* Bytes: the limits of 8 and 4 bits in decimal, octal and hexadecimal.
MCArguments ==
  UNION {[1 .. k -> {0, 1, 2, 5, 6, 9, LETTER_E, MINUS, PLUS, LETTER_X, BLANK, POINT}] :
           k \in 0 .. 4}

MCValues == {0, 1, 7, 8, 9, 10, 15, 16, 99, 100, 127, 128, 254, 255,
             -1, -8, -9, -10, -99, -100, -127, -128}

VARIABLE part

MCInit ==
  \/ part = "words" /\ Init /\ NumbersInit
  \/ part = "numbers" /\ Init /\ NumbersInit /\ menu = CHOOSE m \in Menus : TRUE

MCNext ==
  /\ UNCHANGED part
  /\ \/ part = "words" /\ Next /\ UNCHANGED numberVars
     \/ part = "numbers" /\ NumbersNext /\ UNCHANGED wordVars

MCSpec == MCInit /\ [][MCNext]_<<part, wordVars, numberVars>>

=============================================================================
