# OpenLibCLI in TLA+

OpenLibCLI is a single-threaded command-line engine in C: an application gives
it three transport functions, registers commands, and calls
`cli_session_engine()` again and again. This directory models the engine
(`src/cli/cli.c`, `src/cli/cli.h`), its argument parsers (`src/cli/utils`) and the
example endpoints with a protocol of their own (UNIX socket, named pipes, Telnet, in
`src/examples`), checks the models with TLC on small instances, and proves the most
important safety properties for every instance with TLAPS. Line numbers below
are of `src/cli/cli.c` unless another file is named. `PROJECT.json` maps each
definition to the lines it stands for.

## The system

| Component | State it keeps | Operations | What makes it correct |
|---|---|---|---|
| Session engine | `session_state`, `tx_error`, tick budget, clock | `cli_start`, `cli_session_engine`, `cli_restart_session` | a tick ends; an ended session is reported; input is read only while the session runs; a lost peer ends it |
| Authentication | `auth_state`, `auth_resume`, attempt counters, lockout time, username | credential prompts, user table, login / enable callbacks, `cli_request_auth` | no prompt without a login, no attempt beyond the limit, a lockout is held and ends, an answer is never applied to another attempt |
| Idle timeout | `last_action_ts`, `idle_armed` | the check at the start of a tick, `cli_set_idle_timeout`, `cli_set_time_source` | never early, once per use, wraps with the clock |
| Navigation | mode, context, privilege, `nav_stack[]` | `exit`, `enable`, `disable`, `end`, `configure`, `cli_set_mode`, `cli_set_privilege`, submenu entry | saved levels stay inside the array, hold no privilege that was not granted, lead to the root |
| Command tree | `cmd_pool[]`, `cmd_pool_count`, parents, aliases | `cli_add_command*`, `cli_add_alias`, `cli_add_duplicate`, `cli_remove_command*`, execution of a handler | unique keywords, no cycles, exact removal, no session inside a removed submenu |
| History | `history_buf`, `history_off`, head, count, `history_nav`, `history_saved` | record, browse, `history n`, clear | entries never overlap, nothing that fits is lost, the draft comes back, no line of an earlier identity |
| Programmatic execution | `input[]`, `input_len`, `exec_used`, `exec_depth` | `cli_exec`, `cli_exec_argv`, the line being typed | a line in use is never overwritten, a secret never stays |
| Line editor | line, cursor, escape parser, `eol_prev` | every key, completion, help, redraws | the terminal shows the line, split sequences are parsed, a key is one editing command |
| Output | `filter_line_buf[]`, filter and its count, `out_open`, `exec_depth` | `cli_print*`, `cli_error`, `cli_print_flush`, `cli_set_print_transport_cb`, pipe filters, begin and end of a command | nothing printed is lost or reordered, a filter sees the whole output of its command and nothing else, the prompt starts on a fresh row |
| Tokenizer and matching | none (writes NULs into the line) | `cli_tokenize`, quotes, escapes, the pipe; keywords, abbreviations, ambiguity; Tab, `?`, `help`; joining in `cli_exec_argv` | help, completion and execution agree on what a word names; joined words are split again |
| Tick statistics | counter, minimum, maximum, running mean | end of a tick, reset | the mean stays between minimum and maximum at every limit |
| Argument parsers (`src/cli/utils`) | none | text to integer and back, with ranges | accepts exactly the numbers of the type, and nothing wraps |
| UNIX-socket example | lock file, socket file, self-pipe, backlog; a reader and a writer thread in the client | bind, listen, accept, session, stop signal, close; connect, relay, shut down | the path names the server that serves; a stop is never missed; piped commands get all replies |
| Named-pipe example | lock file, two FIFOs made anew for each session | reserve, create, open, wait, remove; the client's checks and deadline | the names are those of the waiting server; nothing is left behind; a useless session ends |
| Telnet example | parser state, options enabled and pending, receive buffer | `process_byte`, option answers, escaping | text survives any cut; both ends agree on every option |
| TCP, serial, anonymous pipes, demo commands | file descriptors | one system call each | not modelled |

**How they interact.** There is one thread and one `cli_struct_t`. What
interleaves is application code, which runs in the middle of the engine: command
handlers, exit and quit hooks, login and enable callbacks in the middle of the
input loop, periodic and idle callbacks at the start of a tick, the main loop
between ticks. Each of them may call the public API: restart the session, ask
for a new login, run another line (which runs further handlers), change mode,
privilege, clock or configuration, add and remove commands. The engine then goes
on with what it kept: a handle, a depth, an `auth` result, a position in
`input[]`. The editor, the credential prompts and `cli_exec` share `input[]`;
commands, prompts and the editor share the terminal's row; the login, the idle
policy and handlers share the history. At the example endpoints the concurrency is
real: several server and client processes meet at one path, signals arrive
between any two system calls, and processes are killed.

**What is hard to test** is listed as `hazards` in `PROJECT.json`, each at its
line with the properties that watch it. The families are: an answer applied to a
later question (verdicts, handles, depths), state that survives an identity,
unsigned clock arithmetic that wraps or is rebased, pools and stacks at their
limit, an entry placed in a flat buffer in use, a write that fails half-way,
terminals updated by differences, three walks over the same words that must agree,
names in the file system that are checked and then used, and option requests
that cross.

## Modules

| Module | Models |
|---|---|
| `CliNav` | mode, context, privilege and the stack of saved levels, as functions of one navigation state: `cli_nav_push`, `cli_nav_return`, `cli_nav_reset`, `cli_set_mode`, `cli_set_privilege`, `cli_context_enter`, and what `exit` and `enable` do to it |
| `CliSession` | the engine, authentication, idle timeout, clock, built-in navigation commands; EXTENDS `CliNav` |
| `CliTree` | the command pool, removal with relocation of the session, handlers that change the tree they were found in; EXTENDS `CliNav` |
| `CliRecent` | what the history promises: a list of recent lines (abstract) |
| `CliHistory` | the ring of offsets into the flat buffer; implements `CliRecent` |
| `CliExecArena` | `input[]` as the arena of the edited line, executing lines and secrets |
| `CliLine` | what an editor promises: text in front of and behind a cursor, changed by one classical command at a time (abstract) |
| `CliEditor` | keys, escape sequences, redraws and the terminal; implements `CliLine` |
| `CliOutput` | the line buffer, pipe filters and open rows that commands, nested commands and callbacks share |
| `CliWords` | from a line to a command: quoting, the pipe, words, abbreviations; what Enter, Tab, `?`, `help` and `cli_exec_argv` make of them |
| `CliNumbers` | the integer parsers and formatters and the tick statistics, in words of a chosen width |
| `CliSocket` | the UNIX-socket transport with its server and client processes |
| `CliPipe` | the named-pipe transport (POSIX) with its server and client processes |
| `CliWire` | the Telnet transport against a client that follows RFC 1143 |
| `MCCli*` | the instances TLC checks; `MCCliTerminal`, `MCCliMemory`, `MCCliWords` and `MCCliEndpoints` hold two or three modules that share no variable side by side, and each behaviour is about one of them, chosen in the initial state |
| `Cli*_proofs` | lemmas and theorems about `CliNav`, `CliSession`, `CliTree`, `CliEditor`, `CliOutput`, `CliWords`, about `CliHistory` and `CliExecArena` (`CliMemory_proofs`), and about `CliSocket`, `CliPipe` and `CliWire` (`CliTransports_proofs`) |

### CliSession

`cli` is the session struct as one record, and each C function that changes it is
an operator from one record to the next under the function's name
(`SessionReset`, `RequestAuth`, `LockoutEnd`, `EnterPrivileged`). `run` says
where the single thread is: `run.at` is `loop` between two ticks, `idle`, `lockout`,
`rx` and `end` at the stages of a tick, and `periodic`, `idleCb`, `authCb`,
`enableCb`, `handler` and `hook` while application code runs; its other fields
are the locals the engine keeps across that call. Hence every place where C code
calls out is a state in which any sequence of API calls (`AppStep`) may happen
before the call returns (`CallbackReturns`) and the engine acts on what it
kept. A typed line is one byte that carries what the line says. The four fields
`granted`, `who`, `mustLogin` and `line` only record history for the properties:
no guard reads them. `age` is real time, kept beside the clock the code reads
(which wraps, and may be replaced or removed), so that "not early" means seconds
and not readings.

### CliTree

A handle is a slot number, as in the code: an old handle cannot be told from a
new one of the same slot. `running` holds, for each handler that has not returned,
what `cli_execute_command` kept (handle, depth, whether words followed). All
registration and removal functions are enabled while handlers run. Words are
matched exactly; abbreviations are in `CliWords`. `LevelsAreLive` says that the
session's context and every saved level name a node in use or the root, that the lowest
level is the root's, and that parents lead to the root, or out of the tree, without a
cycle. Removing a submenu in use relocates the session and every saved level,
as lines 5679-5745 do.

### CliHistory and CliRecent

The buffer is an array of bytes. An entry is read back by scanning for its
NUL, so an entry that were overwritten would be read back wrong. `CliRecent`
leaves the eviction free except for one promise: at most as many lines go as are
needed for the rest to fit. Whether lines are recorded before they ran or
afterwards (`CLI_HISTORY_INDEX_SELECTION`) is chosen in the initial state.

### CliExecArena

A byte is abstracted to its owner: `NUL`, typed, secret, or the depth of the
`cli_exec` that wrote it. That is enough for "nobody writes into a line in use"
and "no secret stays" and nothing else is asked. Tokenizing only writes inside
the line's own bytes and is left out; a stop is not distinguished from running.

### CliEditor and CliLine

The terminal (a row of cells and a column) is external; it understands
characters, backspace, CR LF and, where `ansi` is set, erase to end of line.
Every key writes what the C code writes and nothing else, and
`ScreenShowsLine` compares the row with the line. Which words match a completion
is left open: any letters, with or without the space of a unique match, if they
fit; a letter also stands for its other case. A command's output is nothing,
whole lines, or a last line left open. `remembered` in `CliLine` are the lines a
replacement may come from: the history and the saved draft.

### CliOutput

`out` holds what the output path keeps (`filter_line_buf`, `out_open`, the filter)
and `delivered`, what has reached the terminal or the per-line callback since the
command began. An operator on that record is a C function on the session
(`Emit`, `Stream`, `EndLine`, `Total`). `made` records what was printed, so that
the properties can compare: `OutputIsFiltered` computes from it what the
command should have delivered, by cutting it into lines and filtering the list,
without a buffer. Text is a sequence of two letters and the two line endings; a
pattern is a word of two letters, so that cutting a line may hide it. The model
has every way text may come to the buffer: inside a command or outside, before a
filter is set, behind a callback that was set or removed, around a restart. Left
out are `print_cb` and `print_cb_v`, which take the text away from this path
without a trace in the session; messages the engine writes past the buffer (`%
Unknown command`), which may overtake text that is still collected and end their
own line; and the words of a filter (4602-4672), of which only the outcome, a
filter or none, is kept. A per-line callback that prints is excluded by its
contract in `cli.h`.

### CliWords

A line is typed character by character with the cursor anywhere, or joined by
`cli_exec_argv`; `shown` is what the last key made the engine do. The tree is
fixed (changing it is `CliTree`'s matter), a node carries whether mode and privilege
allow it. Execution, completion and help are three translations of three walks in
the code (`cli_execute_command`, 4887; `cli_tab_complete_words`, 4053;
`cli_show_help_words`, 4215), and `HelpAgreesWithEnter` compares them. The tokenizer and
`cli_quote_open` are one walk over the characters (`Scan`). What the `help` command itself
complains of (780-787) is a result of its own (`noHelp`): behind `help x ` with an unknown `x`,
`?` shows `<cr>`, since `help` takes arguments and runs, and it is `help` that then says
"% Unknown command.".

### CliNumbers

Widths are constants: 8 bits stand for 32 or 64, 4 for a narrower type parsed through
a wider one, 12 for `long`, and every product and sum wraps where the C type
does. Every text of up to four characters out of twelve is parsed and compared
with the mathematical value; every number is printed into buffers that are too
small as well. The mean of the ticks moves through its limits, its counter included.
`NumbersAreExact` is about all of them.

### CliSocket, CliPipe

A step is a system call; what a process is about to do is its `pc`. Any call that may fail
may fail. A stop signal comes between any two steps, as `on_stop_signal` writes a
flag and a byte; a crash closes what the kernel closes and leaves names behind. A
session is abstracted to answering lines. A process of another user (`Others`) meets
the checks of both ends. In `CliPipe` FIFOs are numbered, so that an end opened
earlier keeps denoting the FIFO that has since been removed and replaced; `output`
says which of them hold output nobody has read, and `robbed` marks a listen
whose names the stop signal of another server has removed (see the notes below).

### CliWire

The transport parses byte by byte, so what a read returns is any prefix of what is
under way. The other end sends text, commands, window sizes with the byte 255
doubled, blocks that never end, and option requests of its own accord, and keeps one of the
states "no", "want yes", "yes" and "want no" of RFC 1143 per option (it waits for an
answer before it asks again). `due` and `owed` record what the user meant and
what the session wrote.

## Runs

All passing runs finish within five minutes with two workers.

| Run | Instance | Shows |
|---|---|---|
| `session_login` | two accounts (one of them between user and privileged), 3 attempts, stack of 2, 8 configurations, all navigation commands, handlers with every result, a clock of 4 readings that is replaced or removed, 2 second lockouts and idle periods of every policy (2.5 million states) | `NoExtraAttempt`, `LockoutHeld`, `IdleNotEarly`: nothing that can be typed passes the limits, and no clock ends a lockout or an idle period early |
| `session_callbacks` | one account, 2 attempts, a stack of 2, all callbacks, a transport that may fail, application calls at every place (1.5 million states) | `LoginRequired`, `SameUser`, `NothingUngranted`, `HistoryIsOwn`, `InputOnlyWhileRunning`, `EndIsReported` against applications that restart, re-authenticate and navigate under the engine |
| `session_live` | fair engine, a clock of 5 readings, 2 second lockouts, 3 second idle periods | `LockoutEnds`, `TickReturns`, `WriteFailureEnds`, `IdleCloses` |
| `tree` | *menus*: pool of 3, two commands, one synonym, one alias each, one handler at a time; *levels*: pool of 2, two nested handlers, both privileges, mode changes | `LevelsAreLive`, `KeywordsAreUnique`, `RemovalMovesUp`, `RecursiveRemovalIsExact` while handlers register and remove, their own command among them |
| `memory` | history: lines of 1 to 4 bytes (with NUL) in 8 bytes, at most 3 entries; arena: 7 bytes, 3 nested lines, secrets up to 3 bytes | `ImplementsRecent`: the ring implements the list; `TypedIsKept`; `ArgumentsStay`, `SecretErased`, `EditedLineStays` |
| `terminal` | editor: 3 characters, every key, sequences of up to 4 bytes; output: a buffer of 2, a pattern of 2, 5 characters or lines in a command and 3 outside, 2 nested commands, all filters, a count that stops at 2; Telnet: two texts, commands, requests or written bytes at a time, a receive buffer of 3 (3.1 million states) | `ScreenShowsLine`, `SequenceIsParsed`, `ImplementsLine`; `OutputIsFiltered`, `NothingLost`, `FreshLine`; `TextIsDecoded`, `OptionsAgree` |
| `words` | lines of 4 characters out of 8 typed, one or two words of up to 2 joined, a tree of 7 nodes with a submenu, aliases and hidden commands, and one of 4 in which words behind `help` fit the bound; texts of up to 4 characters in 8 bits | `HelpAgreesWithEnter`, `TabOnlyExtends`, `JoinedIsSplit`, `NumbersAreExact` |
| `endpoints` | 2 servers, 2 clients, 2 starts (UNIX socket) or 2 listens (pipes), a backlog of 1, 2 lines (534 000 states) | `SocketIsReachable`, `StopIsHeeded`, `RepliesAreShown`; `NamesAreTheListeners`, `ServerIsFreed` |
| `doc_ok_means_active` | | violation: see finding 1 |
| `doc_fresh_line` | text followed by a carriage return alone | violation: see finding 2 |
| `doc_detached_unreachable` | | violation: see finding 3 |
| `doc_one_client` | | violation: see finding 4 |

A type invariant is run where it carries more than types (`CliSession`, where it
bounds the saved levels); elsewhere TLC would reject a value of the wrong kind at once,
and the properties above depend on the ranges.

**The bounds, and why they are enough.** `MaxAttempts` of 2 and 3 lets attempts
be spent partly at a login and partly at an enable prompt. `MaxDepth`
of 2 is filled, so the full stack is met; `MaxRx` of 1 and 2 ends ticks in the middle
of a line and at its end. The clock wraps inside a lockout, an idle
period and a pause between them; ages are counted to `AgeCap`, the longest period
a configuration asks for, beyond which they differ in nothing. The pool of three
nodes holds a node, its child and grandchild, or siblings, and is full. In the
history's buffer an entry may meet the end, be wrapped, and evict one or two
others, and the end may stay unused. In the output a line is cut into up to three
pieces, a cut may hide the pattern, and the count passes its limit. In the arena the edited line, a typed
line and two further ones meet, and any of them may not fit. In the editor a line
has a text on both sides of the cursor and may be full; with `ParamMax` 20 a
parameter of two digits overflows, as a long one does in the code.

In `words` four characters hold a quote with an escape in it, a pipe with a filter
and its pattern, or two words with a cursor inside either; buffers of 7 and 14 bytes are too
small and large enough for what is joined. Eight bits hold a limit that ends in each base
in the middle of a digit; the counter of the ticks stops at 3. At the endpoints two
servers and two starts let one start, crash or stop while the other one is at
any step, and a client of another user may come first or last. In the pipes two clients may meet at the
first FIFOs and stay while the second are made; who comes later comes alone
(`LateClientIsAlone`), and since clients are alike the order in which they come is fixed
(`ClientsInOrder`).

Deadlock is checked in every run except `words` and `endpoints`: after a session
has ended, `cli_start` and the engine can still be called. A line of `words` is
typed once and is full or has been run; at the endpoints all starts are used up,
and all processes have ended or wait for somebody who does not come.

**Fairness.** `FairSpec`, for `session_live`. `WF(EngineStep)`: the
application goes on calling `cli_session_engine`, and a function that has been
called goes on. `WF(CallbackReturns)`: application code returns.
`SF(ClockTick)`: time passes; strong, because under `SlowClock` the action is
enabled only between ticks. `SlowClock` says that the engine is called at least
once per clock second; a clock that wraps unobserved would otherwise hide a whole
period, which the code cannot and does not claim to notice. Nothing is assumed of
the peer.
`SocketFairness` and `PipeFairness`, for `endpoints`: a server process that can take a
step takes it (`WF` of `ServerStep` and `ServerStepsOf`), and the idle timeout comes
while nobody can type. No signal, crash, failure or client has to come.

## Findings

1. **A stopped session can be reported as active.** A handler stops the session
   and a write of the same round fails: the `tx_error` branch (1039) leaves the
   loop before the one that reports a stop (1042-1047), and the check at 1065
   skips a session that has already stopped. The tick returns `CLI_OK`, of which
   `cli.h:1533` says "session active, call again next tick". The next tick
   reports the end. (`OkMeansActive`)
2. **The prompt can follow on the row a command left open.** `cli_write_text`
   notices an open row only for text behind the last line ending of a call (2567).
   `cli_print(cli, "working\r")` writes the text, drops the `\r` and leaves
   `out_open` as it was, so no line ending is added before the prompt. The
   comment at 2811 says that whatever follows "starts on a fresh line in every output
   mode". Text without the `\r` behaves as documented, and so does collected
   text: `FreshLine` holds in the run `terminal`, where no call ends that way.
3. **A detached submenu can be entered.** If the handler of a submenu command
   removes the command's parent, the submenu is detached but still a valid handle
   with children, and 4924-4926 enter it. `cli.h:1457-1458` says that detached
   children "stay unreachable". (`DetachedUnreachable`)
4. **Two clients can join one session of the named pipes.** The server removes the two
   names after its blocking `open` has returned (`cli_transport_pipe.c:386`,
   406-407). A second client that opens both FIFOs before that relays to the
   same session, although 403-404 there says that a later client cannot
   join it. (`OneClientPerSession`)

Differences between comments and code met on the way that no run is devoted to:
`exit` out of privileged exec returns to the saved level's privilege (553), which for
an account between the two levels is its own, where `cli.h:1861-1862` says that
it drops to `CLI_PRIV_USER`; the comment on the level that is the floor of a login (5266) does not hold if the
login callback has called `cli_set_mode`; the handle checked after a handler
(3934) may be of a slot that was reused meanwhile; the running mean (1088-1089)
truncates; a byte remembered before a lockout (1026) can pair with the first line
ending after it, which is not "the very next byte" of 5471; a restart out of the
periodic callback with an empty banner shows the prompt without a fresh line
(919-942); what was collected between two restarts is dropped by the second
(1243-1251); the eviction comment of the history (3230); `?` shows `<cr>` for a container
all of whose usable commands are hidden, where Enter says "% Incomplete command.", behind the
words of a `help` command, which then does not know them,
and for a filter with the pattern `""`, which Enter refuses; the stop signal of a
second pipe server removes the names of the first, since `on_stop_signal` does not
ask whose they are (hence `robbed`); a pipe client that opens the `.in` of one
session and the `.out` of the next holds a session nobody can type into until its
idle timeout (`ServerIsFreed`); a named-pipe client whose `.out` has just been removed fails
at once instead of waiting for its deadline.

Hazards met that no property covers: an enable callback that raises the privilege
itself and then refuses (5393); a handler that runs longer than the idle timeout
(4705), as time does not pass inside a tick; a restart that revives a session
stopped in the same tick (1241), which is allowed; a CR remembered across a lockout (1026); and two saved
levels that name the same submenu (3946).

## Proofs

| Module | Theorem | Proves |
|---|---|---|
| `CliSession_proofs` | `Typing` | `Spec => []TypeOK` |
| | `Attempts` | `Spec => []NoExtraAttempt` |
| | `Login` | `Spec => []LoginRequired` |
| | `Identity` | `Spec => []SameUser` |
| | `Privilege` | `Spec => []NothingUngranted` |
| | `History` | `Spec => []HistoryIsOwn` |
| | `InputWaits` | `Spec => []InputOnlyWhileRunning` |
| | `Reports` | the action property `EndIsReported` |
| | `LockoutServed` | the action property `LockoutHeld` |
| | `IdleWaits` | the action property `IdleNotEarly` |
| `CliTree_proofs` | `LevelsStayLive` | `Spec => []LevelsAreLive` |
| | `KeywordsStayUnique` | `Spec => []KeywordsAreUnique` |
| | `SubtreesGoWhole` | the action property `RecursiveRemovalIsExact` |
| | `LevelsMoveUp` | the action property `RemovalMovesUp` |
| `CliMemory_proofs` | `TypedStays` | `HistorySpec => []TypedIsKept` |
| | `RingIsTheList` | `HistorySpec => ImplementsRecent`: the refinement of `CliRecent` |
| | `ArenaTyping` | the type invariant of `CliExecArena` |
| | `Arguments`, `Secrets`, `EditedLine` | the three arena invariants of `memory` |
| `CliEditor_proofs` | `ScreenIsTheLine` | `EditorSpec => []ScreenShowsLine` |
| | `EditorImplementsLine` | `EditorSpec => ImplementsLine`: the refinement of `CliLine` |
| | `SequencesAreParsed` | `EditorSpec => []SequenceIsParsed` |
| `CliOutput_proofs` | `OutputIsKept` | `OutputSpec => []OutputInv`, the inductive invariant |
| | `AllIsPrinted` | `OutputSpec => []NothingLost` |
| | `FiltersOutput` | `TextsSettle => (OutputSpec => []OutputIsFiltered)` |
| | `StartsFresh` | `TextsSettle => (OutputSpec => []FreshLine)` |
| `CliWords_proofs` | `WordsArrive` | `Spec => []JoinedIsSplit` |
| | `HelpIsTrue` | `Spec => []HelpAgreesWithEnter` |
| `CliTransports_proofs` | `Reachable` | `SocketSpec => []SocketIsReachable` |
| | `Replies` | `SocketSpec => []RepliesAreShown` |
| | `PipeListeners` | `PipeSpec => []NamesAreTheListeners` |
| | `OneServer` | at most one server holds a reserved name |
| | `WireIsKept` | `WireSpec => []WireInv`, the inductive invariant |
| | `TextSurvives` | `WireSpec => []TextIsDecoded` |
| | `NegotiationSettles` | `WireSpec => []OptionsAgree` |

They hold for every value of the constants: any depth, attempt limit, budget,
clock width, accounts and configurations; any pool size, set of commands and nesting of
handlers; any number of history entries and size of its buffer; any line
length, set of keys, parameter limit and terminal at least three columns wider than the
longest line; any alphabet, trees of commands, filter keywords, words, and limits of a line; any
texts, line buffer, filter pattern and nesting of printing commands; any
set of servers and clients, backlog and number of lines; any receive buffer, bound of a
Telnet subnegotiation and budgets of the Telnet client.
What they assume is the named `ASSUME`s of the modules, which TLC evaluates in every
run of these modules, and one hypothesis, `TextsSettle`. The `ASSUME`s that say more than the kind of a value: a history line with its
NUL fits the buffer (`HistoryAssumption`), a credential is shorter than a line
and no key is a quote or a pipe (`EditorAssumption`), `ROOT` and `INVALID` are no
slots of the pool (`PoolAssumption`), a pattern and a text are not empty
(`OutputAssumption`), a Telnet subnegotiation may carry at least three bytes
(`WireAssumption`), no keyword is empty, and two commands that mode and privilege allow at one
place share none (`MenusAssumption`, which `KeywordsStayUnique` proves of the tree and
`cli_name_taken` refuses otherwise). `TextsSettle` is about what a handler prints: a text that ends with a
carriage return, whole or cut to the line buffer, has a line feed behind its last letter.
Only `StartsFresh` and `FiltersOutput` have it; `doc_fresh_line` shows that
`FreshLine` is false of a text without it (a progress display that ends with `\r`).

**Session.** None of the properties is inductive: `LoginRequired` rests on what an
enable prompt or a lockout will return to, `SameUser` on who will be restored
after a refused secret, `NothingUngranted` on every saved level. The invariant is
`IInv == DataOK /\ RunOK`. `DataOK` says that `cli` is *good*
(`Good`): typed, with counters below the limit or the session out of reach of
a prompt, and with login, user, privilege and history related also where the
session is only going to resume. `RunOK` relates the place of the thread to the
record: input is read in a running session only, what a tick is about to report
agrees with the state it leaves, a login callback starts from a cleared
navigation. Since application code may do anything at any place, the proof has two
layers: every operator maps a good record to a good record (one lemma per C
function, resting on the lemmas of `CliNav_proofs` on the stack), and then every
action of `Next` re-establishes `RunOK`, which mostly follows from the place it
goes to.

**Clock.** `LockoutHeld` and `IdleNotEarly` compare ages with limits, the code
compares readings. `ClockOK` relates them: what the clock shows of a period, the
wrapped difference of `now` and the time stamp, never exceeds the age of the
period, unless that has reached `AgeCap`. Passing time adds the same to both, modulo
the clock only on one side; a new time source starts both again. One lemma per operator says that
a period goes on or begins now (`Steady`, `Fresh`), so that no
operator can leave a time stamp older than the period it stands for.

**Command tree.** `TreeInv` says that every operator finds one of the `Trees`: no
command hangs below a removed one (`Linked`), numbers exist that grow from each parent
to its children (`Ranked`, which excludes cycles without a path being mentioned), no two
commands at one place share a keyword (`Distinct`), the counter is the number of slots in
use, and the levels of the session fit, name live nodes and begin in exec mode at the
root. A recursive removal is the code's own: the first leaf goes, again and
again. `Rounds` counts what is left, which gives the end, and `Leaves` says
that each round takes one command of the subtree, so that what remains is exactly the
rest (`Remains`). For `RemovalMovesUp` the levels are followed through all rounds:
the nearest place above that survives the first leaf and then all the others is the
nearest one that survives them all (`Nearest`, `Lifted`); no level is lost on the
way and none comes to repeat the one below it (`MovedUp`).

**History.** `HistoryInv` holds a ring to be `Sound`: every entry
can be read back as a line inside the buffer (`Intact`), no byte belongs to two
entries (`Apart`), and each entry begins behind the older one, or at 0 where
it would have crossed the end (`Chained`). The last one is what the eviction rests on:
without it a gap in front of the head could hide an entry that need not go.
`List` reads the ring as the list of `CliRecent`; recording a line is shown to be
a step of that list that gives up no line which could have stayed beside all newer ones.

**Arena.** `IInv` adds to the properties how the lines lie in the buffer
(`Placement`: each line begins at or behind the end of the one around it), that
`exec_used` is the end of the innermost line in use and returns to the one before it
(`Reserved`), and
what is true of a line that was forgotten while it was executing (`LeftEditor`).
That is the argument of `cli_exec_area`: the free part it hands out begins
behind both.

**Line editor.** `EditorInv` (`Proper`) says that the cursor is in the line, that browsing is
within the history, that a credential is edited at its end only, and what the row shows
under each prompt (`Display`): all of the line, none of a password, nothing in a
lockout. The lemmas follow the code from the bottom: what a written character, a
backspace or an erase does to row and column, then a redraw of the rest of a line and the walk
back, then each editing function, then each key. For the refinement each of
those lemmas also says what becomes of the text in front of and behind the cursor, which is an
action of `CliLine` or none. For completions and recalled lines it is
the same argument with a text that is left open. `ParserInv` says that the parser's
state is a function of the bytes received since ESC: which of them led to the parameter
(`Leads`), what its digits amount to (`Values`) and that the parameter is that
value or the limit (`Held`), and that one odd byte makes the rest of a sequence ignored
(`Odd`). Saturation is one lemma of arithmetic, `DigitHeld`.

**UNIX socket.** `LockInv` says that from the lock to its release a server is the only
one that touches the path, and that from `bind` to the close the path is its
socket; `SocketIsReachable` follows. For `RepliesAreShown`, `QueueInv` says that a
client waits or is served in at most one place, and then is connected and not yet disconnected (which
needs `LockInv`: two servers never serve at once), and `CountInv` that a client's
lines, those under way, the replies under way and those shown add up until the server
closes the connection, and also after it if the end of the input made it close. The proof
has one lemma per invariant and, below it, a step per action.

**Named pipes.** `PipeInv` has the reservation (`LockInv`), that the names made by
a listen stay until they are removed or robbed (`NamesKept`), which of the two a server has at each
step (`HasMade`, `NamesTaken`), and who is accountable for a name that exists
(`Accounted`): a server that is going to remove it, or a killed one. The hard
steps are those in which another process acts between the check of a name and
its use: the stop signal of a server whose listen has failed, and a listen that
replaces what a killed server left.

**Output.** `OutputInv` has the types, that a filter is active only inside the command it was
typed with, that nothing is left in the line buffer between the end of a command and the
next prompt (`Ordered`), and `Kept`: without a filter the delivered items followed by
the collected ones are the printed ones. `NothingLost` is its last part. For `FreshLine`,
`FreshInv` adds that at every moment of a command the row is either fresh or known to be
open (`Tidy`), which a text of `TextsSettle` keeps. `OutputIsFiltered` compares the terminal
with what the filter makes of the whole output of the command, an operator that reads
all of it at once, where the code reads one byte after the other. The proof
first shows how every part of that operator grows by one item
(`ReadAppend`, `CutAppend`, `LayoutAppend`, `PassedAppend`), then that
the code's step on one byte does the same to what is shown and collected. While a line is being
collected (`Collects`) the complete rows have been emitted as the filter says and
the buffer holds the beginning of the open one; while lines go straight through
(`Direct`) the terminal shows exactly the lines read. A row is cut where the
buffer is full, in the operator as in the code, so the two also agree on a line that is longer
than the buffer. For `count`, `CountedAppend` does the same to the number that the end of the
command shows. In the course of this proof `WriteText` was found to have two
overlapping cases, of which the evaluator took the first; they are now disjoint, as the
`if` of the code is.

**Words.** Both theorems rest on what one character does to the scanner (`Scan`): a piece of text
*reads* from one state of it to another without a pipe outside quotes (`Reads`), and pieces are
put together (`ReadsBoth`). For `WordsArrive`, a word that `cli_exec_argv` writes, quoted or
not, reads from between two words to the end of that word, whatever characters are in it (`JoinedWordIs`,
`WordRead`), so that the whole line reads to the list of words (`JoinedRead`), and trimming
takes nothing off it. For `HelpIsTrue` every answer is shown to be `Sound`: a keyword that is
offered for a word names the command it is offered for, because no other command at its
place has that keyword (`KeywordNames`), and behind the words in front of it that is the
place where execution looks (`WalkEnds`, `LastNamed`); in a submenu the root's offers are those the submenu
does not answer to, which is the condition on which execution falls back to the root
(`OfferedIsNamed`). `HelpTells` compares `?` behind complete words with Enter: the blanks
that `cli_execute` cuts off change no word (`TrimmedLine`), both walks stop at the same word
(`HaltIs`, `WalkIs`), and if nothing is offered there, all that could follow is hidden
(`NothingFollows`). The invariant `AgreesInv` keeps `Sound` answers and "what `?` showed is
what it would show now"; since the tree does not change, what words name does not either
(`NamedKept`, `HelpKept`). The attempt to prove it found `HelpAgreesWithEnter` false in the
form it had, on lines longer than those that were checked: `help x ` above, where the
complaint of the `help` command was taken for an error of the line.

**Telnet.** Each end reads bytes and says words on several channels: text on one, the
requests about an option on one channel per option, anything unexpected on another
(`Reads`). The text is independent of the options in between because they are
on different channels, although the bytes are mixed. `WireInv` says that what lies before the server,
read from the state its scanner is in, spells the text the user meant and the session has not
got, that what lies before the client spells what it has yet to show, and that the requests
under way in the two directions explain what both ends hold of every option: `Linked` for an option the server
tracks, twelve combinations of the two states and of what is in flight, and `Denied` for one it
refuses. Nothing in flight says nothing, so `OptionsAgree` is what is left of `Linked` and
`Denied` then, and `TextIsDecoded` follows in the same way from what is said as text. The
hard part is that bytes arrive in pieces: a piece may end in the middle of a command, and a
subnegotiation may never end. A reading is therefore split at any byte (`ReadsBoth`),
each phrase of the client is shown to take the scanner from a normal state to
a normal state and to say what it means (`PhrasesRead`), and the loop over a received block is
followed byte by byte (`ProcessIs`).

**Model-checked only.** Liveness, as fairness is out of the prover's reach:
`LockoutEnds`, `TickReturns`, `WriteFailureEnds`, `IdleCloses`, `StopIsHeeded` and
`ServerIsFreed`. `TabOnlyExtends` of `CliWords`, which compares the
meaning of two lines whose common text is cut inside a word, on both sides of a quote or a
pipe. `NumbersAreExact` of `CliNumbers`, a module of pure functions applied to enumerated
inputs: there is no step of the program over which an invariant would be kept, and it would
need the arithmetic of powers of two for an arbitrary width, which is not in the
library. No module declares a `RECURSIVE` operator.

## What is abstracted

- `CliSession`: tokens, formatting, host name and banner text; time does not
  pass inside a tick, so a handler that runs longer than the idle period is not
  covered; a second session is not modelled, as sessions share nothing. A
  command's words are the node it names. The default of
  `CLI_HISTORY_RESTORE_PREBROWSE_LINE` is assumed in `CliHistory`.
- `CliEditor`: lines without quotes and pipes; a terminal that never wraps; a row
  the application has printed into outside a command is not tracked until the next
  fresh row; bytes received during a lockout are discarded; session restarts are in
  `CliSession` and `CliExecArena`, not here.
- `CliWords`: two letters stand for the alphabet, one of them in both cases; the columns of the
  help listing, descriptions and hints. `CliNumbers`: the value of a floating-point
  text (only which texts reach `strtod`), and the parsers of addresses.
- `CliSocket`, `CliPipe`: what a session does besides answering a line, terminal modes, and
  Windows. `CliWire`: listening, accepting and socket errors, which end the session
  as any transport error does in `CliSession`.
- **Not modelled**: the TCP and serial transports and anonymous pipes, which map the three transport
  calls to system calls and keep no state between them; the accept loops of the TCP
  and Telnet servers, which have no stop protocol; the demo commands; compile-time
  configuration other than the limits that are CONSTANTS here; tests and scripts.
- Composition: `CliNav` is shared by `CliSession` and `CliTree`. The tree is
  kept out of the session run and the session out of the tree run (a restart is all the
  tree sees of it), because their product is out of TLC's reach and they meet only in
  the navigation state.

## Plan

Done: navigation, session, tree, history, arena, editor, output, words, numbers, both
local endpoints and Telnet; proofs of all safety properties of session, tree, history,
arena, editor, output, both local endpoints and Telnet, both refinements among them, and of the
invariants of the words. To come, the most important first:

1. Proofs: `TabOnlyExtends` of `CliWords` on the lemmas about `Reads`, and `NumbersAreExact` of
   `CliNumbers`.
2. `CliEditor` on lines with quotes and pipes, with the completion of `CliWords` in the place
   of the open one.
3. Time inside a tick in `CliSession`, for a handler that outlasts the idle period.
