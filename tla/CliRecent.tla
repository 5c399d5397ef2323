------------------------------ MODULE CliRecent ------------------------------
(***************************************************************************)
(* What the command history promises: the most recent lines, oldest first, *)
(* without repetition of the newest; browsing them with Up and Down, and   *)
(* the line that was being typed when browsing began, restored at the end. *)
(* The ring in its flat buffer (CliHistory) implements this.               *)
(***************************************************************************)
EXTENDS Integers, Sequences

CONSTANTS
  Lines,          \* what may be typed: non-empty sequences of bytes
  MaxHistory,     \* CLI_MAX_HISTORY
  BufSize         \* CLI_HISTORY_BUF_SIZE

VARIABLES
  recent,     \* the lines kept, oldest first
  input,      \* the line in the editor, <<>> when empty
  browse,     \* how far back the entry shown is, 0 at the tip
  draft,      \* the line that returns at the tip
  executing,  \* the typed line that runs, <<>> if none does
  cleared,    \* the line that runs has cleared the history
  indexed     \* CLI_HISTORY_INDEX_SELECTION: recorded after it ran, and recalled by number

vars == <<recent, input, browse, draft, executing, cleared, indexed>>

\* Each line takes a byte more than its text, and the end of the buffer may stay
\* unused for want of room: lines that fit nevertheless are never given up.
Sizes(s) == [i \in 1 .. Len(s) |-> Len(s[i]) + 1]

Total(s) ==
  LET sum[n \in 0 .. Len(s)] == IF n = 0 THEN 0 ELSE sum[n - 1] + Sizes(s)[n] IN sum[Len(s)]

Fits(s) ==
  /\ Len(s) <= MaxHistory
  /\ \A i \in 1 .. Len(s) : Total(s) + Sizes(s)[i] - 1 <= BufSize

Add(line) ==
  LET all == Append(recent, line)
  IN  IF recent # <<>> /\ recent[Len(recent)] = line THEN recent' = recent
      ELSE \E i \in 1 .. Len(all) :
             /\ recent' = SubSeq(all, i, Len(all)) /\ Len(recent') <= MaxHistory
             /\ i > 1 => ~Fits(SubSeq(all, i - 1, Len(all)))

Back(n) == recent[Len(recent) - n + 1]

Init ==
  /\ recent = <<>> /\ input = <<>> /\ browse = 0 /\ draft = <<>>
  /\ executing = <<>> /\ cleared = FALSE /\ indexed \in BOOLEAN

Edit ==
  /\ executing = <<>>
  /\ input' \in Lines \cup {<<>>}
  /\ draft' = IF browse > 0 THEN input' ELSE draft
  /\ UNCHANGED <<recent, browse, executing, cleared, indexed>>

Up ==
  /\ executing = <<>>
  /\ draft' = IF browse = 0 THEN input ELSE draft
  /\ IF browse < Len(recent)
     THEN browse' = browse + 1 /\ input' = Back(browse + 1)
     ELSE UNCHANGED <<browse, input>>
  /\ UNCHANGED <<recent, executing, cleared, indexed>>

Down ==
  /\ executing = <<>> /\ browse > 0
  /\ browse' = browse - 1
  /\ input' = IF browse = 1 THEN draft ELSE Back(browse - 1)
  /\ UNCHANGED <<recent, draft, executing, cleared, indexed>>

Submit ==
  /\ executing = <<>>
  /\ executing' = input /\ browse' = 0 /\ draft' = <<>>
  /\ IF input # <<>> /\ ~indexed THEN Add(input) ELSE UNCHANGED recent
  /\ cleared' = (input = <<>> /\ cleared)
  /\ UNCHANGED <<input, indexed>>

Finish ==
  /\ executing # <<>>
  /\ IF indexed /\ ~cleared THEN Add(executing) ELSE UNCHANGED recent
  /\ input' = <<>> /\ executing' = <<>>
  /\ UNCHANGED <<browse, draft, cleared, indexed>>

\* 'history n', typed or run from outside any command with the editor empty.
Recall(n) ==
  /\ indexed /\ n <= Len(recent)
  /\ executing # <<>> \/ input = <<>>
  /\ input' = recent[n] /\ executing' = <<>>
  /\ UNCHANGED <<recent, browse, draft, cleared, indexed>>

Clear ==
  /\ recent' = <<>> /\ browse' = 0 /\ draft' = <<>> /\ cleared' = TRUE
  /\ UNCHANGED <<input, executing, indexed>>

Next ==
  \/ Edit \/ Up \/ Down \/ Submit \/ Finish \/ Clear
  \/ \E n \in 1 .. MaxHistory : Recall(n)

Spec == Init /\ [][Next]_vars

=============================================================================
