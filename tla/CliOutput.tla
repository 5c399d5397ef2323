------------------------------ MODULE CliOutput ------------------------------
(***************************************************************************)
(* The output path of a session: text printed by command handlers and      *)
(* callbacks is written straight to the terminal, or collected per line    *)
(* while a pipe filter is active or a per-line callback is installed       *)
(* (filter_line_buf, filter_type, out_open, exec_depth).                   *)
(*                                                                         *)
(* A pattern and a text are sequences over two letters and the two line    *)
(* endings.  An error line and the total of the count filter are one item  *)
(* each.  What reaches the terminal and what reaches the callback are one  *)
(* sequence.  The messages of the engine itself, which it writes past this *)
(* path as whole lines, and print_cb, which replaces it, are left out.     *)
(***************************************************************************)
EXTENDS Integers, Sequences, SequencesExt

CONSTANTS
  MaxLine,    \* CLI_MAX_OUTPUT_BUF - 1
  MaxCount,   \* UINT32_MAX, where filter_count stops
  MaxNesting, \* CLI_MAX_EXEC_DEPTH
  Pattern,    \* what the filters look for
  Prints,     \* what one call prints
  MaxOutput,  \* bound: how much a command prints
  MaxAside    \* bound: how much is printed between commands

NL == 10
CR == 13
Alphabet == {97, 98}
ERROR == 1      \* a line of cli_error
FLUSH == 2      \* a call of cli_print_flush
COUNT == 1000   \* COUNT + n: the total of the count filter

FilterTypes == {"none", "grep", "exclude", "begin", "count"}

ASSUME OutputAssumption ==
  /\ MaxLine \in Nat \ {0} /\ MaxCount \in Nat \ {0} /\ MaxNesting \in Nat \ {0}
  /\ Pattern \in Seq(Alphabet) \ {<<>>}
  /\ \A s \in Prints : s \in Seq(Alphabet \cup {NL, CR}) /\ s # <<>>
  /\ MaxOutput \in Nat /\ MaxAside \in Nat

VARIABLES
  out,     \* filter_line_buf, out_open, the filter, and what has been delivered
  lineCb,  \* whether print_transport_cb is set
  depth,   \* exec_depth
  session, \* "RUN", or "RESTARTED" until the session runs again
  shown,   \* whether the prompt has been shown since the last command
  made,    \* what was printed since the command began, or since the last one
  before,  \* what was collected when the command began
  asked,   \* the filter of the command
  mixed    \* whether the callback was set or removed during the command

\* made, before, asked and mixed record history for the properties only.
outputVars == <<out, lineCb, depth, session, shown, made, before, asked, mixed>>

NoFilter == [type |-> "none", count |-> 0, begun |-> FALSE]

InCommand == depth > 0

-----------------------------------------------------------------------------
(* Lines and filters                                                       *)

\* The elements of s that are in S.
Only(s, S) ==
  LET only[i \in 0 .. Len(s)] ==
        IF i = 0 THEN <<>>
        ELSE IF s[i] \in S THEN Append(only[i - 1], s[i]) ELSE only[i - 1]
  IN  only[Len(s)]

Matches(line) ==
  \E i \in 1 .. Len(line) - Len(Pattern) + 1 : SubSeq(line, i, i + Len(Pattern) - 1) = Pattern

\* cli_filter_line: whether a line passes, and what the filter remembers of it.
Passes(f, line) ==
  \/ f.type = "none"
  \/ f.type = "grep" /\ Matches(line)
  \/ f.type = "exclude" /\ ~Matches(line)
  \/ f.type = "begin" /\ (f.begun \/ Matches(line))

Judged(f, line) ==
  CASE f.type = "begin" -> [f EXCEPT !.begun = Passes(f, line)]
    [] f.type = "count" /\ f.count < MaxCount -> [f EXCEPT !.count = @ + 1]
    [] OTHER -> f

Deliver(o, s) == [o EXCEPT !.delivered = @ \o s]

\* cli_line_buffer_emit and cli_print_emit
Emit(o) ==
  LET line == o.buf
      e == [o EXCEPT !.buf = <<>>, !.filter = Judged(o.filter, line)]
  IN  IF Passes(o.filter, line) THEN Deliver(e, Append(line, NL)) ELSE e

EmitPartial(o) == IF o.buf # <<>> THEN Emit(o) ELSE o

\* A character of a line that is collected; a full buffer is emitted first.
Collect(o, c) ==
  CASE c = NL -> Emit(o)
    [] c = CR -> o
    [] OTHER -> LET room == IF Len(o.buf) >= MaxLine THEN Emit(o) ELSE o
                IN  [room EXCEPT !.buf = Append(@, c)]

\* cli_write_text: only text behind the last line ending leaves the line open.
WriteText(o, s) ==
  LET sent == Deliver(o, Only(s, Alphabet \cup {NL}))
      ended == s[Len(s)] \in {NL, CR}
  IN  CASE ~ended -> [sent EXCEPT !.open = InCommand]
        [] ended /\ NL \in ToSet(s) -> [sent EXCEPT !.open = FALSE]
        [] OTHER -> sent

LineMode(o) == o.buf # <<>> \/ o.filter.type # "none" \/ lineCb

CollectAll(o, s) ==
  LET collected[i \in 0 .. Len(s)] ==
        IF i = 0 THEN o ELSE Collect(collected[i - 1], s[i])
  IN  collected[Len(s)]

\* cli_print_process_stream: how a call goes on is decided once, where it begins.
Stream(o, s) == IF LineMode(o) THEN CollectAll(o, s) ELSE WriteText(o, s)

(* Mutant: a line that is open on the terminal stays open.                 *)
EndLineBuffered(o) == EmitPartial(o)

\* cli_output_end_line
EndLine(o) ==
  LET e == EmitPartial(o)
  IN  IF e.open THEN [Deliver(e, <<NL>>) EXCEPT !.open = FALSE] ELSE e

\* cli_filter_flush and cli_filter_reset
Total(o) ==
  LET o2 == IF o.filter.type = "count" THEN Deliver(o, <<COUNT + o.filter.count, NL>>) ELSE o
  IN  [o2 EXCEPT !.filter = NoFilter]

-----------------------------------------------------------------------------
(* What handlers and callbacks call                                        *)

Application == InCommand \/ shown

Made(s) ==
  made' = made \o s /\ Len(made') <= IF InCommand THEN MaxOutput ELSE MaxAside

\* What is formatted is cut to the size of its buffer.
Formatted(s) == IF Len(s) > MaxLine THEN SubSeq(s, 1, MaxLine) ELSE s

CliPrint(s) ==
  /\ Application /\ Made(Formatted(s))
  /\ out' = Stream(out, Formatted(s))
  /\ UNCHANGED <<lineCb, depth, session, shown, before, asked, mixed>>

CliPrintln(s) ==
  /\ Application /\ Made(Append(Formatted(s), NL))
  /\ out' = Stream(Stream(out, Formatted(s)), <<NL>>)
  /\ UNCHANGED <<lineCb, depth, session, shown, before, asked, mixed>>

\* cli_print_str, which the built-in commands use, prints a text of any length.
PrintStr(s) ==
  /\ InCommand /\ Made(s)
  /\ out' = Stream(out, s)
  /\ UNCHANGED <<lineCb, depth, session, shown, before, asked, mixed>>

\* Behind what was printed before it; outside a command on a new row.
ErrorLine(o) ==
  LET e == EndLine(o)
  IN  Deliver(e, IF InCommand \/ lineCb THEN <<ERROR>> ELSE <<NL, ERROR>>)

Error ==
  /\ Application /\ Made(<<ERROR>>)
  /\ out' = ErrorLine(out)
  /\ UNCHANGED <<lineCb, depth, session, shown, before, asked, mixed>>

Flush ==
  /\ Application /\ Made(<<FLUSH>>)
  /\ out' = EmitPartial(out)
  /\ UNCHANGED <<lineCb, depth, session, shown, before, asked, mixed>>

\* Bound: at most once in a command.
SetPrintTransportCb ==
  /\ Application /\ ~mixed
  /\ lineCb' = ~lineCb /\ mixed' = (mixed \/ InCommand)
  /\ UNCHANGED <<out, depth, session, shown, made, before, asked>>

(* Mutant: a running command's output state is reset, too.                 *)
OutputResetAlways(o) == [o EXCEPT !.buf = <<>>, !.open = FALSE, !.filter = NoFilter]

\* cli_session_reset: while a command runs, the output is its own.
OutputReset(o) ==
  IF InCommand THEN o ELSE [o EXCEPT !.buf = <<>>, !.open = FALSE, !.filter = NoFilter]

\* cli_restart_session.  Outside a command it delivers what was printed, but a second
\* one before the session runs drops what was printed since the first.
RestartRunning ==
  /\ Application /\ (InCommand \/ session = "RUN")
  /\ session' = "RESTARTED"
  /\ out' = OutputReset(IF InCommand THEN out ELSE Deliver(EmitPartial(out), <<NL>>))
  /\ UNCHANGED <<lineCb, depth, shown, made, before, asked, mixed>>

RestartAgain ==
  /\ ~InCommand /\ shown /\ session = "RESTARTED"
  /\ out' = [OutputReset(out) EXCEPT !.delivered = <<>>] /\ made' = <<>>
  /\ UNCHANGED <<lineCb, depth, session, shown, before, asked, mixed>>

-----------------------------------------------------------------------------
(* Commands                                                                *)

(* Mutant: the filter is set before what was collected is delivered.       *)
CommandBeginFiltered(type) ==
  EmitPartial([out EXCEPT !.delivered = <<>>, !.filter = [NoFilter EXCEPT !.type = type]])

\* cli_command_begin, and the filter parsed from the line.
CommandBegin(type) ==
  [EmitPartial([out EXCEPT !.delivered = <<>>]) EXCEPT
     !.filter = [NoFilter EXCEPT !.type = type]]

\* A typed line, Ctrl-D, a credential check, or a line run from outside a command;
\* it starts on a fresh row.
Command(type) ==
  /\ ~InCommand /\ shown
  /\ out' = CommandBegin(type)
  /\ depth' = 1 /\ shown' = FALSE
  /\ made' = <<>> /\ before' = out.buf /\ asked' = type /\ mixed' = FALSE
  /\ UNCHANGED <<lineCb, session>>

\* cli_exec in a handler: the nested command shares the output state.
Nested ==
  /\ InCommand /\ depth < MaxNesting
  /\ depth' = depth + 1
  /\ UNCHANGED <<out, lineCb, session, shown, made, before, asked, mixed>>

\* cli_command_end
CommandEnd ==
  /\ InCommand /\ depth' = depth - 1
  /\ out' = IF depth = 1 THEN Total(EndLine(out)) ELSE out
  /\ UNCHANGED <<lineCb, session, shown, made, before, asked, mixed>>

\* What comes after a command: the prompt, or the banner and a login.
Prompt ==
  /\ ~InCommand /\ ~shown
  /\ shown' = TRUE
  /\ out' = [out EXCEPT !.delivered = <<>>] /\ made' = <<>> /\ before' = <<>>
  /\ asked' = "none" /\ mixed' = FALSE
  /\ UNCHANGED <<lineCb, depth, session>>

\* The restarted session has shown its banner and, where it asks for one, had a login.
Resume ==
  /\ ~InCommand /\ shown /\ session = "RESTARTED"
  /\ session' = "RUN"
  /\ out' = [out EXCEPT !.delivered = <<>>] /\ made' = out.buf
  /\ UNCHANGED <<lineCb, depth, shown, before, asked, mixed>>

OutputInit ==
  /\ out = [buf |-> <<>>, open |-> FALSE, filter |-> NoFilter, delivered |-> <<>>]
  /\ lineCb \in BOOLEAN /\ depth = 0 /\ session = "RUN" /\ shown = TRUE
  /\ made = <<>> /\ before = <<>> /\ asked = "none" /\ mixed = FALSE

OutputNext ==
  \/ \E s \in Prints : CliPrint(s) \/ CliPrintln(s) \/ PrintStr(s)
  \/ Error \/ Flush \/ SetPrintTransportCb
  \/ RestartRunning \/ RestartAgain
  \/ \E type \in FilterTypes : Command(type)
  \/ Nested \/ CommandEnd \/ Prompt \/ Resume

OutputSpec == OutputInit /\ [][OutputNext]_outputVars

-----------------------------------------------------------------------------
(* Correctness                                                             *)

LettersOf(s) == Only(s, Alphabet)

\* Reading what was printed: the lines so far, and the one that is not over.  An error or
\* a flush ends the line before it.
EndRow(a) == IF a.line = <<>> THEN a ELSE [lines |-> Append(a.lines, a.line), line |-> <<>>]

NextItem(a, c) ==
  CASE c = NL -> [lines |-> Append(a.lines, a.line), line |-> <<>>]
    [] c = FLUSH -> EndRow(a)
    [] c = ERROR -> [lines |-> Append(EndRow(a).lines, <<ERROR>>), line |-> <<>>]
    [] c = CR -> a
    [] OTHER -> [a EXCEPT !.line = Append(@, c)]

ReadItems(items) ==
  LET read[i \in 0 .. Len(items)] ==
        IF i = 0 THEN [lines |-> <<>>, line |-> <<>>] ELSE NextItem(read[i - 1], items[i])
  IN  read[Len(items)]

LinesOf(items) == EndRow(ReadItems(items)).lines

\* A long line comes in pieces.
Pieces(line) ==
  LET n == IF line = <<>> THEN 1 ELSE ((Len(line) - 1) \div MaxLine) + 1
  IN  [k \in 1 .. n |-> SubSeq(line, (k - 1) * MaxLine + 1,
                               IF k = n THEN Len(line) ELSE k * MaxLine)]

Cut(lines) ==
  LET cut[i \in 0 .. Len(lines)] == IF i = 0 THEN <<>> ELSE cut[i - 1] \o Pieces(lines[i])
  IN  cut[Len(lines)]

IsError(line) == line = <<ERROR>>

Hit(line) == ~IsError(line) /\ Matches(line)

\* The lines at the places in the set.
Those(lines, places) ==
  LET those[i \in 0 .. Len(lines)] ==
        IF i = 0 THEN <<>>
        ELSE IF i \in places THEN Append(those[i - 1], lines[i]) ELSE those[i - 1]
  IN  those[Len(lines)]

\* What a filter lets through of a command's lines; errors always pass.
Passed(type, lines) ==
  Those(lines, {i \in 1 .. Len(lines) :
                  \/ IsError(lines[i]) \/ type = "none"
                  \/ type = "grep" /\ Hit(lines[i])
                  \/ type = "exclude" /\ ~Hit(lines[i])
                  \/ type = "begin" /\ \E j \in 1 .. i : Hit(lines[j])})

Counted(lines) ==
  LET n == Len(Those(lines, {i \in 1 .. Len(lines) : ~IsError(lines[i])}))
  IN  IF n < MaxCount THEN n ELSE MaxCount

Filtered(type, lines) ==
  IF type = "count" THEN Append(Passed(type, lines), <<COUNT + Counted(lines)>>)
  ELSE Passed(type, lines)

Layout(lines) ==
  LET laid[i \in 0 .. Len(lines)] ==
        IF i = 0 THEN <<>>
        ELSE laid[i - 1] \o (IF IsError(lines[i]) THEN lines[i] ELSE Append(lines[i], NL))
  IN  laid[Len(lines)]

\* When a command is over, its filter has been applied to the whole of its output and
\* to nothing else: to every line once, cut where it is too long, the last one and
\* those of nested commands included, but not to what a callback had begun to print,
\* which comes first; errors stand where they were reported.
OutputIsFiltered ==
  ~InCommand /\ ~shown /\ (asked # "none" \/ ~mixed) =>
    LET lines == IF asked # "none" \/ lineCb THEN Cut(LinesOf(made))
                 ELSE LinesOf(Only(made, Int \ {FLUSH}))
    IN  out.delivered =
          (IF before = <<>> THEN <<>> ELSE Append(before, NL)) \o Layout(Filtered(asked, lines))

\* Without a filter everything printed has been delivered or is still collected, once
\* and in order, in commands and outside them, while callbacks are set and removed.
NothingLost ==
  asked = "none" => LettersOf(out.delivered) \o out.buf =
                      (IF InCommand \/ ~shown THEN before ELSE <<>>) \o LettersOf(made)

\* cli_output_end_line: whatever follows a command, the prompt above all, "starts on a
\* fresh line in every output mode".
FreshLine ==
  ~InCommand /\ ~shown /\ out.delivered # <<>> =>
    Last(out.delivered) \in {NL, ERROR}

=============================================================================
