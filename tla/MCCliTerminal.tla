---------------------------- MODULE MCCliTerminal ----------------------------
(***************************************************************************)
(* Instances for TLC of what goes to and from a terminal: the line being   *)
(* edited, the output of commands, and the Telnet connection between them. *)
(* A behaviour is about one of them; the others stay as they were.         *)
(***************************************************************************)
EXTENDS CliEditor, CliOutput, CliWire

\* Every control key once, one letter and the space.
AllKeys == {97, 32, 63, 27, 13, 10, 9, 8, 1, 5, 2, 6, 11, 23, 21, 4, 12, 16, 14}

\* A digit, a separator, a private marker, the final bytes of the keys, and bytes that
\* end or restart a sequence: a letter, a control byte, Enter and ESC.
KeySequences == {51, 59, 60, 65, 66, 67, 68, 70, 72, 126, 97, 23, 13, 27}

\* The filters look for a word of two letters, which a line cut into pieces may lose.
TwoLetters == <<97, 98>>

\* Calls that leave the line open, or end with a line ending once they are cut.
CommonTexts == {<<97>>, <<98>>, <<98, 97, 98>>, <<13, 97, 10, 98>>}

\* And text followed by a carriage return alone, as a progress indicator prints it.
ProgressTexts == {<<97>>, <<97, 13>>, <<97, 13, 10>>}

\* What the user, the option negotiation and the session may add to a connection.
Budget(sends, changes, writes) == [sends |-> sends, changes |-> changes, writes |-> writes]
NoBudget == Budget(0, 0, 0)
TheBudgets == {NoBudget, Budget(2, 0, 0), Budget(0, 2, 0), Budget(1, 1, 0), Budget(1, 0, 1)}

VARIABLE part

MCInit ==
  /\ part \in {"editor", "output", "telnet"}
  /\ Init /\ OutputInit /\ WireInit
  /\ part = "editor" \/ (~ansi /\ asking = "command")
  /\ part = "output" \/ ~lineCb
  /\ part = "telnet" <=> peer.left # NoBudget

\* Nothing is in flight and nobody has anything left to add.
Silence ==
  /\ toServer = <<>> /\ toClient = <<>> /\ telnet.rx = <<>> /\ peer.left = NoBudget
  /\ UNCHANGED wireVars

MCNext ==
  /\ UNCHANGED part
  /\ \/ part = "editor" /\ Next /\ UNCHANGED <<outputVars, wireVars>>
     \/ part = "output" /\ OutputNext /\ UNCHANGED <<vars, wireVars>>
     \/ part = "telnet" /\ (WireNext \/ Silence) /\ UNCHANGED <<vars, outputVars>>

MCSpec == MCInit /\ [][MCNext]_<<vars, outputVars, wireVars, part>>

=============================================================================
