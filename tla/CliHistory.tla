----------------------------- MODULE CliHistory -----------------------------
(***************************************************************************)
(* The command history of a session: a ring of offsets into a flat buffer  *)
(* of NUL-terminated entries (history_buf, history_off, history_head,      *)
(* history_count), and browsing it from the line editor (history_nav,      *)
(* history_saved).  It implements CliRecent.                               *)
(***************************************************************************)
EXTENDS Integers, Sequences

CONSTANTS
  Typable,          \* what may be typed: non-empty sequences of bytes
  MaxHistory,     \* CLI_MAX_HISTORY
  BufSize         \* CLI_HISTORY_BUF_SIZE

ASSUME HistoryAssumption ==
  /\ MaxHistory \in Nat \ {0} /\ BufSize \in Nat
  /\ \A l \in Typable : l \in Seq(Nat \ {0}) /\ l # <<>> /\ Len(l) < BufSize

VARIABLES
  ring,       \* buf, off, head and count of the history
  edited,      \* the editor's line
  nav,        \* history_nav
  saved,      \* history_saved
  executing,  \* the typed line that runs, <<>> if none does
  cleared,    \* history_cleared
  typed,      \* what the user last typed; for a property only
  indexed     \* CLI_HISTORY_INDEX_SELECTION, as the program was built

historyVars == <<ring, edited, nav, saved, executing, cleared, typed, indexed>>

Nul == 0
Texts == Typable \cup {<<>>}

\* The NUL-terminated string at offset o.
Text(r, o) ==
  LET ends == {e \in o .. BufSize - 1 : r.buf[e] = Nul}
      end == IF ends = {} THEN BufSize ELSE CHOOSE e \in ends : \A f \in ends : e <= f
  IN  [i \in 1 .. end - o |-> r.buf[o + i - 1]]

\* cli_history_index: the slot of the k-th newest entry.
Index(r, k) == (r.head - k + MaxHistory * 2) % MaxHistory

Entry(r, k) == Text(r, r.off[Index(r, k)])

EntryEnd(r, k) == r.off[Index(r, k)] + Len(Entry(r, k)) + 1

(* Mutant: the terminating NUL of the new entry is not counted.            *)
OverlapsText(r, k, o, needed) ==
  o < EntryEnd(r, k) /\ r.off[Index(r, k)] < o + needed - 1

Overlaps(r, k, o, needed) == o < EntryEnd(r, k) /\ r.off[Index(r, k)] < o + needed

\* Behind the newest entry, or at 0 where it would cross the buffer's end.
Place(r, needed) ==
  LET o == IF r.count > 0 THEN EntryEnd(r, 1) ELSE 0
  IN  IF o + needed > BufSize THEN 0 ELSE o

\* How many entries stay: the oldest go until none that is left is overwritten.
Evicted(r, o, needed) ==
  LET room == IF r.count = MaxHistory THEN MaxHistory - 1 ELSE r.count
      clear == {c \in 0 .. room : \A k \in 1 .. c : ~Overlaps(r, k, o, needed)}
  IN  CHOOSE c \in clear : \A d \in clear : d <= c

Store(r, line) ==
  LET needed == Len(line) + 1
      o == Place(r, needed)
  IN  [buf |-> [i \in 0 .. BufSize - 1 |->
                  IF i \notin o .. o + needed - 1 THEN r.buf[i]
                  ELSE IF i = o + needed - 1 THEN Nul ELSE line[i - o + 1]],
       off |-> [r.off EXCEPT ![r.head] = o],
       head |-> (r.head + 1) % MaxHistory,
       count |-> Evicted(r, o, needed) + 1]

HistoryAdd(r, line) ==
  IF Len(line) + 1 > BufSize \/ (r.count > 0 /\ Entry(r, 1) = line) THEN r
  ELSE Store(r, line)

Emptied(r) == [r EXCEPT !.head = 0, !.count = 0, !.buf[0] = Nul]

-----------------------------------------------------------------------------

HistoryInit ==
  /\ ring = [buf |-> [i \in 0 .. BufSize - 1 |-> Nul],
             off |-> [i \in 0 .. MaxHistory - 1 |-> 0], head |-> 0, count |-> 0]
  /\ edited = <<>> /\ nav = 0 /\ saved = <<>>
  /\ executing = <<>> /\ cleared = FALSE /\ typed = <<>> /\ indexed \in BOOLEAN

Prompt == executing = <<>>

(* Mutant: an edit of a recalled entry is not kept.                        *)
CaptureNothing(line) == saved

\* cli_history_capture_edited_preview
Capture(line) == IF nav > 0 THEN line ELSE saved

Edit ==
  /\ Prompt
  /\ edited' \in Texts /\ typed' = edited'
  /\ saved' = Capture(edited')
  /\ UNCHANGED <<ring, nav, executing, cleared, indexed>>

Up ==
  /\ Prompt
  /\ saved' = IF nav = 0 THEN edited ELSE saved
  /\ IF nav >= ring.count THEN UNCHANGED <<nav, edited>>
     ELSE nav' = nav + 1 /\ edited' = Entry(ring, nav')
  /\ UNCHANGED <<ring, executing, cleared, typed, indexed>>

Down ==
  /\ Prompt /\ nav > 0
  /\ nav' = nav - 1
  /\ edited' = IF nav' = 0 THEN saved ELSE Entry(ring, nav')
  /\ UNCHANGED <<ring, saved, executing, cleared, typed, indexed>>

\* cli_submit_line and cli_execute up to the command; an empty line runs nothing.
Submit ==
  /\ Prompt
  /\ nav' = 0 /\ saved' = <<>>
  /\ executing' = edited
  /\ ring' = IF edited # <<>> /\ ~indexed THEN HistoryAdd(ring, edited) ELSE ring
  /\ cleared' = (edited = <<>> /\ cleared)
  /\ typed' = edited
  /\ UNCHANGED <<edited, indexed>>

Recorded == IF indexed /\ ~cleared THEN HistoryAdd(ring, executing) ELSE ring

Finish ==
  /\ ~Prompt
  /\ ring' = Recorded
  /\ edited' = <<>> /\ typed' = <<>> /\ executing' = <<>>
  /\ UNCHANGED <<nav, saved, cleared, indexed>>

\* cli_cmd_builtin_history: entries are numbered from the oldest.
SlotOf(n) == Index(ring, ring.count - n + 1)

\* 'history n': the line is not recorded, the entry is loaded into the editor.
Recall(n) ==
  /\ indexed /\ n <= ring.count
  /\ Prompt => edited = <<>>
  /\ edited' = Text(ring, ring.off[SlotOf(n)])
  /\ typed' = IF nav = 0 THEN edited' ELSE typed
  /\ executing' = <<>>
  /\ UNCHANGED <<ring, nav, saved, cleared, indexed>>

Clear == ring' = Emptied(ring) /\ nav' = 0 /\ saved' = <<>>

\* cli_clear_history, at any time.
ClearHistory ==
  /\ Clear /\ cleared' = TRUE /\ typed' = edited
  /\ UNCHANGED <<edited, executing, indexed>>

HistoryNext ==
  \/ Edit \/ Up \/ Down \/ Submit \/ Finish \/ ClearHistory
  \/ \E n \in 1 .. MaxHistory : Recall(n)

HistorySpec == HistoryInit /\ [][HistoryNext]_historyVars

-----------------------------------------------------------------------------
(* Correctness                                                             *)

\* Whatever the user browses, what he last typed is in the editor or comes back
\* at the tip.
TypedIsKept == Prompt => typed \in {edited, saved}

\* The k-th newest entry, as the abstract history has it.
Recent == INSTANCE CliRecent WITH
  Lines <- Typable, input <- edited,
  recent <- [i \in 1 .. ring.count |-> Entry(ring, ring.count - i + 1)],
  browse <- nav, draft <- saved

\* The ring implements the list of recent lines: what is read back is what was
\* typed, in order, whatever was overwritten in between; nothing that fits is lost.
ImplementsRecent == Recent!Spec

=============================================================================
