------------------------------ MODULE CliEditor ------------------------------
(***************************************************************************)
(* The line editor of a session and the terminal at the other end: bytes   *)
(* are parsed into keys (cli_feed, cli_process_escape, cli_eol_pair), keys *)
(* edit the line in place, and every edit writes just the characters and   *)
(* backspaces that should bring the terminal's row up to date.  Commands,  *)
(* credential prompts, history and the lines callbacks run through         *)
(* cli_exec() redraw it.                                                   *)
(*                                                                         *)
(* Bytes and cells are ASCII codes; a prompt is one cell; what a command   *)
(* prints is nothing, whole lines, or a last line left open.  A line has   *)
(* no quotes and no pipe.                                                  *)
(***************************************************************************)
EXTENDS Integers, Sequences

CONSTANTS
  Size,             \* CLI_MAX_INPUT_LEN
  CredentialLimit,  \* the longest username, password or secret a prompt accepts
  MaxHistory,       \* CLI_MAX_HISTORY
  ParamMax,         \* ESC_PARAM_MAX
  Keys,             \* bytes the peer sends
  SequenceBytes,    \* bytes it sends inside an escape sequence
  MaxSequence,      \* bound: bytes of an escape sequence
  Width             \* columns of the terminal, enough for every row

VARIABLES
  ed,        \* input, cursor, nav (history_nav) and saved (history_saved); the terminal's row
             \* and col, and whether the application has printed into that row outside a
             \* command: such a row is not tracked, it stays blank here
  recent,    \* the history, oldest first
  asking,    \* what the prompt asks for
  esc,       \* esc_state and esc_param
  eol,       \* eol_prev
  ansi,      \* ansi_supported
  received   \* the bytes of the unfinished escape sequence

vars == <<ed, recent, asking, esc, eol, ansi, received>>

SPACE == 32
ESC == 27
Endings == {13, 10}
Printable == 32 .. 126
Chars == (Keys \cap Printable) \ {63}
Letters == Chars \ {SPACE}
Columns == 0 .. Width - 1

ASSUME EditorAssumption ==
  /\ Size \in Nat \ {0} /\ CredentialLimit \in 0 .. Size - 1
  /\ Width \in Nat /\ Width >= Size + 3
  /\ MaxHistory \in Nat \ {0} /\ MaxSequence \in Nat /\ ParamMax \in Nat
  /\ Keys \subseteq (0 .. 127) \ {34, 124} /\ SequenceBytes \subseteq 0 .. 127

-----------------------------------------------------------------------------
(* The terminal: external                                                  *)

Blank == [i \in Columns |-> SPACE]

Written(row, col, s) ==
  [i \in Columns |-> IF i \in col .. col + Len(s) - 1 THEN s[i - col + 1] ELSE row[i]]

Write(e, s) ==
  IF e.printed THEN e
  ELSE [e EXCEPT !.row = Written(e.row, e.col, s), !.col = e.col + Len(s)]

Back(e, n) == [e EXCEPT !.col = IF n > e.col THEN 0 ELSE e.col - n]

EraseToEnd(e) == [e EXCEPT !.row = [i \in Columns |-> IF i < e.col THEN e.row[i] ELSE SPACE]]

\* CR LF, and what clears the screen.
NewRow(e) == [e EXCEPT !.row = Blank, !.col = 0, !.printed = FALSE]

-----------------------------------------------------------------------------
(* Editing                                                                 *)

Behind(e) == SubSeq(e.input, e.cursor + 1, Len(e.input))
InFront(e) == SubSeq(e.input, 1, e.cursor)

Spaces(n) == [i \in 1 .. n |-> SPACE]

PromptOf == [command |-> <<62>>, username |-> <<85>>, secret |-> <<80>>, lockout |-> <<>>]

\* cli_redraw_line
Redraw(e) ==
  LET shown == Write([e EXCEPT !.col = 0], PromptOf["command"] \o e.input)
  IN  Back(IF ansi THEN EraseToEnd(shown) ELSE shown, Len(e.input) - e.cursor)

\* cli_redisplay_input; a password is not shown.
Redisplay(e, what) ==
  IF what = "command" /\ e.input # <<>> THEN Redraw(e)
  ELSE Write(e, IF what = "username" THEN PromptOf[what] \o e.input ELSE PromptOf[what])

MoveTo(e, pos) ==
  IF pos >= e.cursor THEN [Write(e, SubSeq(e.input, e.cursor + 1, pos)) EXCEPT !.cursor = pos]
  ELSE [Back(e, e.cursor - pos) EXCEPT !.cursor = pos]

\* cli_history_capture_edited_preview
Capture(e) == IF e.nav > 0 THEN [e EXCEPT !.saved = e.input] ELSE e

InsertChar(e, c) ==
  IF Len(e.input) >= Size - 1 THEN e
  ELSE LET new == [e EXCEPT !.input = InFront(e) \o <<c>> \o Behind(e)]
           shown == Back(Write(new, Behind(new)), Len(Behind(new)) - 1)
       IN  Capture([shown EXCEPT !.cursor = e.cursor + 1])

DeleteChar(e) ==
  IF e.cursor = Len(e.input) THEN e
  ELSE LET new == [e EXCEPT !.input = InFront(e) \o Tail(Behind(e))]
       IN  Capture(Back(Write(new, Behind(new) \o <<SPACE>>), Len(Behind(new)) + 1))

Backspace(e) ==
  IF e.cursor = 0 THEN e ELSE DeleteChar([Back(e, 1) EXCEPT !.cursor = e.cursor - 1])

KillLine(e) ==
  LET n == Len(Behind(e)) IN Capture([Back(Write(e, Spaces(n)), n) EXCEPT !.input = InFront(e)])

Backspaces(e, n) ==
  LET done[i \in 0 .. n] == IF i = 0 THEN e ELSE Backspace(done[i - 1]) IN done[n]

\* Where the run of spaces, or of other characters, that ends at pos begins.
RunStart(e, pos, spaces) ==
  CHOOSE i \in 0 .. pos :
    /\ \A j \in i + 1 .. pos : (e.input[j] = SPACE) = spaces
    /\ i > 0 => (e.input[i] = SPACE) # spaces

InWord(c) == c # SPACE

KillWord(e) ==
  Backspaces(e, e.cursor - RunStart(e, RunStart(e, e.cursor, TRUE), FALSE))

ClearInput(e) == Backspaces(MoveTo(e, Len(e.input)), Len(e.input))

\* cli_history_clear_displayed_input
EraseInput(e) ==
  LET n == Len(e.input)
  IN  [Back(Write(Back(e, e.cursor), Spaces(n)), n) EXCEPT !.input = <<>>, !.cursor = 0]

Loaded(e, line) == [e EXCEPT !.input = line, !.cursor = Len(line)]

Show(e, line) == Write(Loaded(EraseInput(e), line), line)

HistoryUp(e) ==
  LET kept == IF e.nav = 0 THEN [e EXCEPT !.saved = e.input] ELSE e
  IN  IF e.nav >= Len(recent) THEN kept
      ELSE Show([kept EXCEPT !.nav = e.nav + 1], recent[Len(recent) - e.nav])

HistoryDown(e) ==
  IF e.nav = 0 THEN e
  ELSE Show([e EXCEPT !.nav = e.nav - 1],
            IF e.nav = 1 THEN e.saved ELSE recent[Len(recent) - e.nav + 2])

\* '?': echoed behind the line; the help follows, and the line again.
ShowHelp(e) == Redraw(NewRow(Write(e, Append(Behind(e), 63))))

ClearScreen(e) == Redraw(NewRow(e))

(* Mutant: the word is completed where the cursor is.                      *)
WordEndAtCursor(e) == e.cursor

\* A completion moves to the word's end, then rings the bell, lists the candidates,
\* or adds text (with a space after a unique match) if all of it fits, retyping the
\* word when its case differs.
WordEnd(e) ==
  CHOOSE i \in e.cursor .. Len(e.input) :
    /\ \A j \in e.cursor + 1 .. i : InWord(e.input[j])
    /\ i < Len(e.input) => ~InWord(e.input[i + 1])

Texts == UNION {[1 .. n -> Letters] : n \in 0 .. Size - 1}

Insert(e, s) ==
  LET done[i \in 0 .. Len(s)] == IF i = 0 THEN e ELSE InsertChar(done[i - 1], s[i])
  IN  done[Len(s)]

Completions(e) ==
  LET at == MoveTo(e, WordEnd(e))
      typed == at.cursor - RunStart(at, at.cursor, FALSE)
      room == Size - 1 - Len(e.input)
      added == {s \in Texts : s # <<>> /\ Len(s) <= room}
               \cup {Append(s, SPACE) : s \in {t \in Texts : Len(t) < room}}
  IN  {at, Redraw(NewRow(at))}
      \cup {Insert(at, s) : s \in added}
      \cup {Insert(Backspaces(at, typed), word \o s) :
              word \in [1 .. typed -> Letters], s \in added}

-----------------------------------------------------------------------------
(* Escape sequences                                                        *)

CsiStates == {"CSI", "CSI_REST", "CSI_IGNORE"}
IsDigit(b) == b \in 48 .. 57
IsInter(b) == b \in 32 .. 47
IsFinal(b) == b \in 64 .. 126

(* Mutant: a digit that does not fit is dropped.                           *)
WithDigitDropped(n, digit) == IF n <= (ParamMax - digit) \div 10 THEN n * 10 + digit ELSE n

WithDigit(n, digit) == IF n <= (ParamMax - digit) \div 10 THEN n * 10 + digit ELSE ParamMax

To(state, param, consumed) == [state |-> state, param |-> param, consumed |-> consumed, key |-> 0]

Completed(b) == [state |-> "NORMAL", param |-> 0, consumed |-> TRUE, key |-> b]

\* A parameter, intermediate or final byte of a CSI sequence; any other byte aborts it.
CsiByte(b) ==
  CASE IsDigit(b) /\ esc.state = "CSI" -> To("CSI", WithDigit(esc.param, b - 48), TRUE)
    [] b \in {58, 59} -> To(IF esc.state = "CSI" THEN "CSI_REST" ELSE esc.state, esc.param, TRUE)
    [] b \in 60 .. 63 \/ IsInter(b) -> To("CSI_IGNORE", esc.param, TRUE)
    [] IsDigit(b) /\ esc.state # "CSI" -> To(esc.state, esc.param, TRUE)
    [] IsFinal(b) -> IF esc.state = "CSI_IGNORE" THEN To("NORMAL", 0, TRUE) ELSE Completed(b)
    [] b = ESC -> To("ESC", 0, TRUE)
    [] OTHER -> To("NORMAL", 0, FALSE)

NormalByte(b) == IF b = ESC THEN To("ESC", 0, TRUE) ELSE To("NORMAL", esc.param, FALSE)

\* The byte behind ESC.
EscByte(b) ==
  CASE b = 91 -> To("CSI", esc.param, TRUE) [] b = 79 -> To("SS3", esc.param, TRUE)
    [] b = ESC -> To("ESC", esc.param, TRUE) [] OTHER -> To("NORMAL", esc.param, FALSE)

Ss3Byte(b) ==
  CASE IsFinal(b) -> Completed(b) [] b = ESC -> To("ESC", 0, TRUE)
    [] OTHER -> To("NORMAL", 0, b \in 32 .. 126)

\* cli_process_escape
Parsed(b) ==
  CASE esc.state = "NORMAL" -> NormalByte(b) [] esc.state = "ESC" -> EscByte(b)
    [] esc.state \in CsiStates -> CsiByte(b) [] esc.state = "SS3" -> Ss3Byte(b)

\* handle_csi
HandleCsi(e, final, param) ==
  CASE final = 65 -> HistoryUp(e)
    [] final = 66 -> HistoryDown(e)
    [] final = 67 /\ e.cursor < Len(e.input) -> MoveTo(e, e.cursor + 1)
    [] final = 68 /\ e.cursor > 0 -> MoveTo(e, e.cursor - 1)
    [] final = 72 \/ (final = 126 /\ param \in {1, 7}) -> MoveTo(e, 0)
    [] final = 70 \/ (final = 126 /\ param \in {4, 8}) -> MoveTo(e, Len(e.input))
    [] final = 126 /\ param = 3 -> DeleteChar(e)
    [] OTHER -> e

-----------------------------------------------------------------------------
(* Bytes                                                                   *)

\* The second byte of CR LF or LF CR.
EndsPair(b) == b \in Endings /\ eol # 0 /\ b # eol

EndOfPair(b) ==
  /\ asking # "lockout" /\ EndsPair(b) /\ eol' = 0
  /\ UNCHANGED <<ed, recent, asking, esc, ansi, received>>

\* Any other byte goes through the parser.
Parse(b) ==
  /\ asking # "lockout" /\ ~EndsPair(b)
  /\ eol' = IF b \in Endings THEN b ELSE 0
  /\ esc' = [state |-> Parsed(b).state, param |-> Parsed(b).param]
  /\ received' = IF esc'.state = "NORMAL" THEN <<>>
                 ELSE Append(IF b = ESC THEN <<>> ELSE received, b)
  /\ Len(received') <= MaxSequence
  /\ UNCHANGED ansi

SequenceByte(b) ==
  /\ Parse(b) /\ Parsed(b).consumed
  /\ ed' = IF asking = "command" /\ Parsed(b).key # 0 THEN HandleCsi(ed, b, esc.param) ELSE ed
  /\ UNCHANGED <<recent, asking>>

Key(b) == Parse(b) /\ ~Parsed(b).consumed

\* The keys of cli_feed that edit the line.
Edited(e, b) ==
  CASE b \in {8, 127} -> Backspace(e)
    [] b = 1 -> MoveTo(e, 0)
    [] b = 5 -> MoveTo(e, Len(e.input))
    [] b = 2 /\ e.cursor > 0 -> MoveTo(e, e.cursor - 1)
    [] b = 6 /\ e.cursor < Len(e.input) -> MoveTo(e, e.cursor + 1)
    [] b = 11 -> KillLine(e)
    [] b = 23 -> KillWord(e)
    [] b = 21 -> ClearInput(e)
    [] b = 4 -> DeleteChar(e)
    [] b = 12 -> ClearScreen(e)
    [] b = 16 -> HistoryUp(e)
    [] b = 14 -> HistoryDown(e)
    [] b = 63 -> ShowHelp(e)
    [] b \in Chars -> InsertChar(e, b)
    [] OTHER -> e

EditKey(b) ==
  /\ asking = "command" /\ Key(b)
  /\ b \notin Endings /\ b # 9 /\ ~(b = 4 /\ ed.input = <<>>)
  /\ ed' = Edited(ed, b)
  /\ UNCHANGED <<recent, asking>>

TabKey(b) ==
  /\ asking = "command" /\ b = 9 /\ Key(b)
  /\ ed' \in Completions(ed)
  /\ UNCHANGED <<recent, asking>>

-----------------------------------------------------------------------------
(* Commands and prompts                                                    *)

(* Mutant: the output's last line stays open.                              *)
OutputLeftOpen(e, open) == IF open THEN Write(e, <<120>>) ELSE e

\* What a command prints; cli_output_end_line ends a line left open.
Output(e, open) == IF open THEN NewRow(Write(e, <<120>>)) ELSE e

Emptied(e) == Loaded(e, <<>>)

Forgotten(e) == [e EXCEPT !.nav = 0, !.saved = <<>>]

\* What a line typed or run from outside may have done: nothing to the session, clear
\* the history, or ask for a login (which clears it too) or the enable secret.
Outcome(e, kept, now) ==
  \/ asking' = now /\ recent' = kept /\ ed' = Redisplay(e, now)
  \/ asking' = now /\ recent' = <<>> /\ ed' = Redisplay(Forgotten(e), now)
  \/ asking' = "username" /\ recent' = <<>>
     /\ ed' = Redisplay(Emptied(Forgotten(e)), "username")
  \/ now = "command" /\ asking' = "secret" /\ recent' = kept
     /\ ed' = Redisplay(Emptied(e), "secret")

\* 'history n'
Recalled(e) ==
  /\ \E i \in 1 .. Len(recent) : ed' = Redraw(Loaded(e, recent[i]))
  /\ UNCHANGED <<recent, asking>>

Trimmed(s) ==
  IF \A i \in 1 .. Len(s) : s[i] = SPACE THEN <<>>
  ELSE LET words == {i \in 1 .. Len(s) : s[i] # SPACE}
       IN  SubSeq(s, CHOOSE i \in words : \A j \in words : i <= j, CHOOSE i \in words : \A j \in words : j <= i)

Recorded(line) ==
  IF recent # <<>> /\ recent[Len(recent)] = line THEN recent
  ELSE IF Len(recent) < MaxHistory THEN Append(recent, line)
  ELSE Append(Tail(recent), line)

EnterKey(b) ==
  /\ asking = "command" /\ b \in Endings /\ Key(b)
  /\ LET line == Trimmed(ed.input)
     IN  \/ line = <<>> /\ ed' = Redisplay(Emptied(Forgotten(NewRow(ed))), "command")
            /\ UNCHANGED <<recent, asking>>
         \/ line # <<>> /\ \E open \in BOOLEAN :
              \/ Outcome(Emptied(Forgotten(Output(NewRow(ed), open))), Recorded(line), "command")
              \/ Recalled(Forgotten(Output(NewRow(ed), open)))

\* Ctrl-D on the empty line, when the quit policy or its hook keeps the session.
QuitKey(b) ==
  /\ asking = "command" /\ b = 4 /\ ed.input = <<>> /\ Key(b)
  /\ \E open \in BOOLEAN : Outcome(Output(NewRow(ed), open), recent, "command")

\* The last n characters of a row disappear, if the row shows them.
Rubbed(e, n) ==
  LET done[i \in 0 .. n] == IF i = 0 THEN e ELSE Back(Write(Back(done[i - 1], 1), <<SPACE>>), 1)
  IN  done[n]

\* cli_auth_handle; the cursor is at the end of the line.
CredentialKey(b) ==
  /\ asking \in {"username", "secret"} /\ b \notin Endings /\ Key(b)
  /\ LET shown == asking = "username"
         n == Len(ed.input)
     IN  CASE b \in {8, 127} /\ n > 0 ->
                ed' = Loaded(IF shown THEN Rubbed(ed, 1) ELSE ed, SubSeq(ed.input, 1, n - 1))
           [] b \in {11, 21} -> ed' = Emptied(IF shown THEN Rubbed(ed, n) ELSE ed)
           [] b \in Chars /\ n < CredentialLimit ->
                ed' = Loaded(IF shown THEN Write(ed, <<b>>) ELSE ed, Append(ed.input, b))
           [] OTHER -> ed' = ed
  /\ UNCHANGED <<recent, asking>>

UsernameEnter(b) ==
  /\ asking = "username" /\ b \in Endings /\ Key(b)
  /\ asking' = "secret" /\ ed' = Redisplay(Emptied(NewRow(ed)), "secret")
  /\ UNCHANGED recent

\* The check may run application code; its verdict, or a login the callback asks
\* for, decides what is prompted next.
SecretEnter(b) ==
  /\ asking = "secret" /\ b \in Endings /\ Key(b)
  /\ \E open \in BOOLEAN, now \in {"command", "username", "lockout"} :
       Outcome(Emptied(Output(NewRow(ed), open)), recent, now) /\ asking' # "secret"

LockoutEnd ==
  /\ asking = "lockout" /\ asking' \in {"username", "command"}
  /\ ed' = Redisplay(Emptied(ed), asking')
  /\ UNCHANGED <<recent, esc, eol, ansi, received>>

-----------------------------------------------------------------------------
(* What callbacks and the main loop may do at a prompt                     *)

\* cli_exec, from outside any command.
AppExec ==
  /\ \E open \in BOOLEAN :
       LET e == Output(NewRow(ed), open)
       IN  Outcome(e, recent, asking) \/ (asking = "command" /\ ed.input = <<>> /\ Recalled(e))
  /\ UNCHANGED <<esc, eol, ansi, received>>

AppRequestAuth ==
  /\ asking' = "username" /\ recent' = <<>>
  /\ ed' = Redisplay(Emptied(Forgotten(NewRow(ed))), "username")
  /\ UNCHANGED <<esc, eol, ansi, received>>

AppClearHistory ==
  /\ recent' = <<>> /\ ed' = Forgotten(ed)
  /\ UNCHANGED <<asking, esc, eol, ansi, received>>

\* cli_print and cli_error outside any command: the text goes where the cursor is, or
\* on lines of its own; the prompt is not shown again.
AppPrint ==
  /\ ed' = [NewRow(ed) EXCEPT !.printed = TRUE]
  /\ UNCHANGED <<recent, asking, esc, eol, ansi, received>>

Sendable ==
  CASE esc.state = "NORMAL" -> Keys [] esc.state = "ESC" -> (Keys \cap SequenceBytes) \cup {91, 79}
    [] OTHER -> SequenceBytes

Init ==
  /\ ansi \in BOOLEAN /\ asking \in {"command", "username"}
  /\ recent = <<>> /\ esc = [state |-> "NORMAL", param |-> 0] /\ eol = 0 /\ received = <<>>
  /\ ed = Redisplay([input |-> <<>>, cursor |-> 0, nav |-> 0, saved |-> <<>>,
                     row |-> Blank, col |-> 0, printed |-> FALSE], asking)

Next ==
  \/ \E b \in Sendable :
       \/ EndOfPair(b) \/ SequenceByte(b) \/ EditKey(b) \/ TabKey(b) \/ EnterKey(b)
       \/ QuitKey(b) \/ CredentialKey(b) \/ UsernameEnter(b) \/ SecretEnter(b)
  \/ LockoutEnd \/ AppExec \/ AppRequestAuth \/ AppClearHistory \/ AppPrint

EditorSpec == Init /\ [][Next]_vars

-----------------------------------------------------------------------------
(* Correctness                                                             *)

\* What the terminal should show of the line, and where its cursor should be.
Shown == PromptOf[asking] \o (IF asking \in {"command", "username"} THEN ed.input ELSE <<>>)

ShownCursor ==
  Len(PromptOf[asking]) + (IF asking \in {"command", "username"} THEN ed.cursor ELSE 0)

\* The terminal shows the prompt, the line that would be submitted and nothing else,
\* its cursor where the next key takes effect, and never a password: after any
\* edits, completions, history, help, commands and lines run meanwhile, on terminals
\* with and without ANSI sequences, unless the application prints into the row.
ScreenShowsLine ==
  ~ed.printed =>
    /\ \A i \in Columns : ed.row[i] = (IF i < Len(Shown) THEN Shown[i + 1] ELSE SPACE)
    /\ ed.col = ShownCursor

\* The parser's state is what the bytes of the unfinished sequence make of it: an
\* introducer, one parameter with the value of its digits however many there are,
\* further parameters, and private or intermediate bytes.
SequenceIsParsed ==
  LET tail == SubSeq(received, 3, Len(received))
      inCsi == Len(received) >= 2 /\ received[2] = 91
      digits == CHOOSE n \in 0 .. Len(tail) :
                  /\ \A i \in 1 .. n : IsDigit(tail[i])
                  /\ n < Len(tail) => ~IsDigit(tail[n + 1])
      value[i \in 0 .. Len(tail)] == IF i = 0 THEN 0 ELSE 10 * value[i - 1] + tail[i] - 48
      number == value[digits]
      odd == \E i \in 1 .. Len(tail) : tail[i] \in 60 .. 63 \/ IsInter(tail[i])
  IN  /\ (esc.state = "NORMAL") = (received = <<>>)
      /\ (esc.state = "ESC") = (received = <<ESC>>)
      /\ (esc.state = "SS3") = (received = <<ESC, 79>>)
      /\ (esc.state \in CsiStates) = inCsi
      /\ inCsi => (esc.state = "CSI_IGNORE") = odd
      /\ inCsi => (esc.state = "CSI") = (digits = Len(tail))
      /\ esc.param = (IF ~inCsi THEN 0 ELSE IF number < ParamMax THEN number ELSE ParamMax)

\* The text in front of the cursor and the text behind it, and what may replace them.
Line == INSTANCE CliLine WITH
  before <- InFront(ed), after <- Behind(ed), Capacity <- Size - 1,
  remembered <- {ed.saved} \cup {recent[i] : i \in DOMAIN recent}

\* Byte by byte, whatever sequences, prompts and other lines come between, the line
\* changes as an editor's line does: a byte is at most one editing command.
ImplementsLine == Line!Spec

=============================================================================
