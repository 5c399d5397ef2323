------------------------------ MODULE CliWords ------------------------------
(***************************************************************************)
(* From a line to a command: quoting, the pipe, words, keywords and their  *)
(* abbreviations, and the three that must agree on them: execution, Tab    *)
(* completion and the help of '?' and the 'help' command.                  *)
(*                                                                         *)
(* Characters are one-letter strings.  A tab counts as a space; two        *)
(* letters, one of them in both cases, stand for the alphabet.  The tree   *)
(* does not change here (CliTree does that); a node carries whether mode   *)
(* and privilege allow it.  What a key makes the terminal show is          *)
(* abstracted to shown; the redrawing of the line is in CliEditor.         *)
(***************************************************************************)
EXTENDS Integers, Sequences, FiniteSets, SequencesExt

CONSTANTS
  Chars,      \* what is typed
  MaxTyped,   \* bound: the longest line typed by hand
  MaxArgs,    \* CLI_MAX_ARGS
  Filters,    \* s_filter_keywords: keyword and type, in the order of the table
  Menus,      \* the trees: nodes in pool order, the submenu of the session, CLI_MAX_INPUT_LEN
  WordLists   \* what the application passes to cli_exec_argv

SP == " "
QUOTE == "\""
BACKSLASH == "\\"
PIPE == "|"
HELP == "?"

Letters == Chars \cup {SP, QUOTE, BACKSLASH, PIPE, HELP}

ASSUME WordsAssumption ==
  /\ MaxTyped \in Nat /\ MaxArgs \in Nat \ {0}
  /\ Filters \in Seq([keyword : Seq(Letters), type : {"grep", "exclude", "begin", "count"}])
  /\ WordLists \subseteq Seq(Seq(Letters))

ROOT == 0
NO_CMD == -1

VARIABLES
  menu,    \* one of Menus
  line,    \* input
  cursor,  \* cursor
  shown    \* what the last key, or line, made the engine do

wordVars == <<menu, line, cursor, shown>>

-----------------------------------------------------------------------------
(* Characters and words                                                    *)

Lower(c) == IF c = "A" THEN "a" ELSE c
Folded(word) == [i \in 1 .. Len(word) |-> Lower(word[i])]

\* cli_case_equal, cli_case_prefix_match
SameWord(u, v) == Folded(u) = Folded(v)
StartsWith(keyword, word) == IsPrefix(Folded(word), Folded(keyword))

\* cli_tokenize, on one character.  quote is "in" or "out", or "esc" behind a backslash in
\* quotes, which stands for itself unless a quote or a backslash follows.
Idle == [quote |-> "out", within |-> FALSE, word |-> <<>>, words |-> <<>>]

EndWord(r) ==
  IF r.within THEN [r EXCEPT !.within = FALSE, !.word = <<>>, !.words = Append(@, r.word)]
  ELSE r

Scan(r, c) ==
  CASE r.quote = "esc" ->
         [r EXCEPT !.quote = "in",
                   !.word = @ \o (IF c \in {QUOTE, BACKSLASH} THEN <<c>> ELSE <<BACKSLASH, c>>)]
    [] r.quote = "in" /\ c = BACKSLASH -> [r EXCEPT !.quote = "esc"]
    [] r.quote # "esc" /\ c = QUOTE ->
         [r EXCEPT !.quote = IF @ = "in" THEN "out" ELSE "in", !.within = TRUE]
    [] r.quote = "out" /\ c = SP -> EndWord(r)
    [] OTHER -> [r EXCEPT !.within = TRUE, !.word = Append(@, c)]

\* What is known behind the first n characters, for each n.
Scanned(s) ==
  LET behind[n \in 0 .. Len(s)] == IF n = 0 THEN Idle ELSE Scan(behind[n - 1], s[n])
  IN  behind

Quoted(r) == r.quote # "out"

\* cli_quote_open: the scan sees only the characters in front of the cursor.
QuoteOpen(s, n) == Quoted(Scanned(SubSeq(s, 1, n))[n])

\* The element of a set of one: Only({F(x) : x \in {e}}) is F(e), with e evaluated once.
Only(S) == CHOOSE x \in S : TRUE

First(S, default) == IF S = {} THEN default ELSE CHOOSE i \in S : \A j \in S : i <= j

(* Mutant: a backslash does not protect a quote.                           *)
FindPipeUnescaped(s) ==
  First({i \in 1 .. Len(s) :
           s[i] = PIPE /\ Cardinality({j \in 1 .. i : s[j] = QUOTE}) % 2 = 0}, 0)

\* cli_find_pipe: the first pipe outside quotes, or 0.
FindPipe(s) ==
  LET r == Scanned(s) IN First({i \in 1 .. Len(s) : s[i] = PIPE /\ ~Quoted(r[i - 1])}, 0)

SkipSpaces(s) ==
  SubSeq(s, First({i \in 1 .. Len(s) : s[i] # SP}, Len(s) + 1), Len(s))

TrimEnd(s) ==
  SubSeq(s, 1, CHOOSE n \in 0 .. Len(s) : /\ n > 0 => s[n] # SP
                                          /\ \A i \in n + 1 .. Len(s) : s[i] = SP)

\* cli_tokenize without its limit: the words, unquoted, and whether the last is open.
Words(s) ==
  LET r == Scanned(s)[Len(s)]
      rest == IF r.quote = "esc" THEN <<BACKSLASH>> ELSE <<>>
  IN  [words |-> EndWord([r EXCEPT !.word = @ \o rest]).words, open |-> Quoted(r)]

\* cli_tokenize: one place of argv is kept for the NULL.
Tokenize(s) ==
  LET all == Words(s)
      many == Len(all.words) > MaxArgs - 1
  IN  [argv |-> IF many THEN SubSeq(all.words, 1, MaxArgs - 1) ELSE all.words,
       status |-> IF many THEN "tooMany" ELSE IF all.open THEN "unterminated" ELSE "ok"]

-----------------------------------------------------------------------------
(* Keywords                                                                *)

Node(h) == menu.nodes[h]

KeywordsOf(cmd) == <<cmd.name>> \o cmd.aliases
Keywords(h) == KeywordsOf(Node(h))

NodeType == [name : Seq(Letters), aliases : Seq(Seq(Letters)), parent : Nat,
             handler : {"none", "help", "app"}, hidden : BOOLEAN, allowed : BOOLEAN]

\* cli_name_taken: two commands below one parent share no keyword, unless their modes differ.
SharesKeyword(c, d) ==
  \E j \in 1 .. Len(KeywordsOf(c)), k \in 1 .. Len(KeywordsOf(d)) :
    SameWord(KeywordsOf(c)[j], KeywordsOf(d)[k])

ASSUME MenusAssumption ==
  \A m \in Menus :
    /\ m.nodes \in Seq(NodeType) /\ m.context \in 0 .. Len(m.nodes) /\ m.size \in Nat
    /\ \A h \in 1 .. Len(m.nodes) :
         \A k \in 1 .. Len(KeywordsOf(m.nodes[h])) : KeywordsOf(m.nodes[h])[k] # <<>>
    /\ \A g, h \in 1 .. Len(m.nodes) :
         /\ m.nodes[g].allowed /\ m.nodes[h].allowed /\ m.nodes[g].parent = m.nodes[h].parent
         /\ SharesKeyword(m.nodes[g], m.nodes[h])
         => g = h

\* The commands of each tree that mode and privilege allow: a node without a handler
\* counts only while a subcommand does.
Usable ==
  [m \in Menus |->
     LET Permitted == {h \in 1 .. Len(m.nodes) : m.nodes[h].allowed}
         within[n \in 0 .. Len(m.nodes)] ==
           IF n = 0 THEN {h \in Permitted : m.nodes[h].handler # "none"}
           ELSE LET below == within[n - 1]
                IN  below \cup {h \in Permitted : \E c \in below : m.nodes[c].parent = h}
     IN  within[Len(m.nodes)]]

\* cli_cmd_selectable, for the commands below a node.
Selectable(level) == {h \in Usable[menu] : Node(h).parent = level}

HasChildren(h) == Selectable(h) # {}

Exact(h, word) == \E k \in 1 .. Len(Keywords(h)) : SameWord(Keywords(h)[k], word)

\* cli_cmd_prefix_text: the alias equal to the word, else the first keyword it begins.
PrefixText(h, word) ==
  LET same == {k \in 2 .. Len(Keywords(h)) : SameWord(Keywords(h)[k], word)}
      begun == {k \in 1 .. Len(Keywords(h)) : StartsWith(Keywords(h)[k], word)}
      k == First(same, First(begun, 0))
  IN  IF k = 0 THEN <<>> ELSE Keywords(h)[k]

\* cli_resolve_one: hidden commands answer to their exact keyword only.
Resolve(level, word) ==
  LET here == IF word = <<>> THEN {} ELSE Selectable(level)
      exact == {h \in here : Exact(h, word)}
      begun == {h \in here : ~Node(h).hidden /\ PrefixText(h, word) # <<>>}
  IN  CASE exact # {} -> [rc |-> "ok", node |-> First(exact, 0)]
        [] exact = {} /\ begun = {} -> [rc |-> "unknown", node |-> NO_CMD]
        [] exact = {} /\ Cardinality(begun) = 1 -> [rc |-> "ok", node |-> First(begun, 0)]
        [] OTHER -> [rc |-> "ambiguous", node |-> NO_CMD]

HasAnyMatch(level, word) == Resolve(level, word).rc # "unknown"

\* cli_first_word_parent: root commands stay usable in a submenu that has no match.
FirstWordParent(word) ==
  IF menu.context # ROOT /\ ~HasAnyMatch(menu.context, word) /\ HasAnyMatch(ROOT, word)
  THEN ROOT ELSE menu.context

\* What each word names below the one before it.
Named(argv) ==
  LET named[n \in 0 .. Len(argv)] ==
        IF n = 0 THEN [rc |-> "ok", node |-> FirstWordParent(argv[1])]
        ELSE Resolve(named[n - 1].node, argv[n])
  IN  named

\* cli_walk_words: up to an error, or to a command that takes arguments.
Walk(argv) ==
  LET Stops(r) == r.rc # "ok" \/ ~HasChildren(r.node)
      At(named) == named[First({d \in 1 .. Len(argv) : Stops(named[d])}, Len(argv))]
      Reached(r) == [rc |-> r.rc, level |-> r.node, args |-> r.rc = "ok" /\ Stops(r)]
  IN  IF argv = <<>> THEN [rc |-> "ok", level |-> menu.context, args |-> FALSE]
      ELSE Only({Reached(At(named)) : named \in {Named(argv)}})

Found(level, word) ==
  {h \in Selectable(level) : ~Node(h).hidden /\ PrefixText(h, word) # <<>>}

\* The commands in the set, in the order of the pool.
Offers(S, word) ==
  LET upto[n \in 0 .. Len(menu.nodes)] ==
        IF n = 0 THEN <<>>
        ELSE IF n \in S THEN Append(upto[n - 1], [node |-> n, text |-> PrefixText(n, word)])
        ELSE upto[n - 1]
  IN  upto[Len(menu.nodes)]

(* Mutant: root commands are offered although the submenu takes the word.  *)
MatchesAll(word, level, withRoot) ==
  Offers(Found(level, word), word)
    \o IF withRoot /\ level # ROOT THEN Offers(Found(ROOT, word), word) ELSE <<>>

\* cli_foreach_match: the commands that begin with the word and the keyword that does;
\* of the root's only those whose keyword the submenu does not take.
Matches(word, level, withRoot) ==
  Offers(Found(level, word), word)
    \o IF withRoot /\ level # ROOT
       THEN Offers({h \in Found(ROOT, word) : ~HasAnyMatch(level, PrefixText(h, word))}, word)
       ELSE <<>>

-----------------------------------------------------------------------------
(* Execution                                                               *)

NoFilter == [type |-> "none", pattern |-> <<>>]

Nothing == [kind |-> "nothing", key |-> "none", path |-> <<>>, offers |-> <<>>, node |-> NO_CMD,
            argv |-> <<>>, filter |-> NoFilter]

Shows(kind) == [Nothing EXCEPT !.kind = kind]

\* The key that made the engine do r.
By(key, r) == [kind |-> r.kind, key |-> key, path |-> r.path, offers |-> r.offers,
               node |-> r.node, argv |-> r.argv, filter |-> r.filter]

\* cli_filter_lookup
FilterTypes(kw) ==
  {Filters[i].type : i \in {j \in 1 .. Len(Filters) : kw # <<>> /\ StartsWith(Filters[j].keyword, kw)}}

\* What follows the pipe: the keyword, and the rest.
FilterSplit(tail) ==
  LET text == SkipSpaces(tail)
      end == First({i \in 1 .. Len(text) : text[i] = SP}, Len(text) + 1)
  IN  [kw |-> SubSeq(text, 1, end - 1), pattern |-> SkipSpaces(SubSeq(text, end, Len(text))),
       atKeyword |-> end > Len(text)]

\* cli_parse_filter, behind the pipe; an invalid filter has no pattern.
FilterOf(tail) ==
  LET split == FilterSplit(tail)
      types == FilterTypes(split.kw)
      pattern == TrimEnd(split.pattern)
      quoted == Words(pattern)
      Valid(text) == [type |-> CHOOSE t \in types : TRUE, pattern |-> text]
      Bad == [type |-> "invalid", pattern |-> <<>>]
  IN  IF Cardinality(types) # 1 \/ (types = {"count"}) # (pattern = <<>>) THEN Bad
      ELSE IF pattern = <<>> \/ pattern[1] # QUOTE THEN Valid(pattern)
      ELSE IF Len(quoted.words) = 1 /\ ~quoted.open /\ quoted.words[1] # <<>>
      THEN Valid(quoted.words[1]) ELSE Bad

Listed(path, found) ==
  [Shows(IF found = <<>> THEN "cr" ELSE "list") EXCEPT !.path = path, !.offers = found]

\* The 'help' command: the words behind it are looked up as execution does; what it
\* complains of is told apart from the errors of the line.
HelpBelow(args, named) ==
  LET wrong == First({d \in 1 .. Len(args) : named[d].rc # "ok"}, 0)
  IN  IF wrong # 0 THEN Shows("noHelp")
      ELSE Only({Listed(args, found) : found \in {Matches(<<>>, named[Len(args)].node, FALSE)}})

HelpCommand(args) ==
  IF args = <<>> THEN Only({Listed(<<>>, found) : found \in {Matches(<<>>, menu.context, TRUE)}})
  ELSE Only({HelpBelow(args, named) : named \in {Named(args)}})

RunCommand(r, args) ==
  CASE r.rc # "ok" -> Shows(r.rc)
    [] r.rc = "ok" /\ Node(r.node).handler = "none" -> Shows("incomplete")
    [] r.rc = "ok" /\ Node(r.node).handler = "help" -> HelpCommand(args)
    [] r.rc = "ok" /\ Node(r.node).handler = "app" -> [Shows("run") EXCEPT !.node = r.node]

\* cli_execute_command: down to a command without subcommands, or to the last word.
ExecuteCommand(argv) ==
  LET Stops(r) == r.rc # "ok" \/ ~HasChildren(r.node)
      Reached(named) == First({d \in 1 .. Len(argv) : Stops(named[d])}, Len(argv))
  IN  Only(UNION {{RunCommand(named[d], SubSeq(argv, d + 1, Len(argv))) : d \in {Reached(named)}} :
                    named \in {Named(argv)}})

\* cli_execute, with the words and the filter of the line.
ExecuteWords(t, filter) ==
  LET done == CASE filter.type = "invalid" -> Shows("badFilter")
                [] filter.type # "invalid" /\ t.status # "ok" -> Shows(t.status)
                [] filter.type # "invalid" /\ t.status = "ok" ->
                     IF t.argv = <<>> THEN Nothing ELSE ExecuteCommand(t.argv)
  IN  [kind |-> done.kind, key |-> done.key, path |-> done.path, offers |-> done.offers,
       node |-> done.node, argv |-> t.argv, filter |-> filter]

Execute(text) ==
  LET CommandIn(start, pipe) == IF pipe = 0 THEN start ELSE SubSeq(start, 1, pipe - 1)
      FilterIn(start, pipe) ==
        IF pipe = 0 THEN NoFilter ELSE FilterOf(SubSeq(start, pipe + 1, Len(start)))
  IN  Only(UNION {{ExecuteWords(t, filter) : t \in {Tokenize(CommandIn(start, FindPipe(start)))},
                                             filter \in {FilterIn(start, FindPipe(start))}} :
                    start \in {TrimEnd(SkipSpaces(text))}})

\* cli_exec_argv: one line of the words, quoted where a character asks for it.
JoinedWord(word) ==
  LET quoted == word = <<>> \/ \E i \in 1 .. Len(word) : word[i] \in {SP, QUOTE, PIPE, HELP}
      upto[n \in 0 .. Len(word)] ==
        IF n = 0 THEN <<QUOTE>>
        ELSE upto[n - 1] \o (IF word[n] \in {QUOTE, BACKSLASH} THEN <<BACKSLASH, word[n]>>
                             ELSE <<word[n]>>)
  IN  IF quoted THEN Append(upto[Len(word)], QUOTE) ELSE word

Joined(words) ==
  LET upto[n \in 0 .. Len(words)] ==
        IF n = 0 THEN <<>>
        ELSE (IF n = 1 THEN <<>> ELSE Append(upto[n - 1], SP)) \o JoinedWord(words[n])
  IN  upto[Len(words)]

-----------------------------------------------------------------------------
(* Completion and help, for the text in front of the cursor                *)

\* The words that are complete, and the one being typed.
Split(head) ==
  LET fresh == head # <<>> /\ head[Len(head)] = SP
      Parts(t) ==
        LET typing == t.argv # <<>> /\ ~fresh
        IN  [status |-> t.status,
             path |-> IF typing THEN Front(t.argv) ELSE t.argv,
             partial |-> IF typing THEN Last(t.argv) ELSE <<>>]
  IN  Only({Parts(t) : t \in {Tokenize(head)}})

\* cli_complete_cb: how far the keywords agree.
CommonLength(texts) ==
  CHOOSE n \in 0 .. Len(texts[1]) :
    /\ \A k \in 1 .. Len(texts) : StartsWith(texts[k], SubSeq(texts[1], 1, n))
    /\ n < Len(texts[1]) =>
         \E k \in 1 .. Len(texts) : ~StartsWith(texts[k], SubSeq(texts[1], 1, n + 1))

Room == menu.size - 1 - Len(line)

\* The completion of word at the end of head to the only text and a space, or to what all
\* texts have in common: in full or not at all.  A word typed plainly in another case is
\* rewritten.
Completion(head, word, texts) ==
  LET common == CommonLength(texts)
      text == IF Len(texts) = 1 THEN Append(texts[1], SP) ELSE SubSeq(texts[1], 1, common)
      rewrite == IsSuffix(word, head) /\ SubSeq(text, 1, Len(word)) # word
  IN  CASE texts = <<>> -> [kind |-> "bell", head |-> head]
        [] Len(texts) > 1 /\ common <= Len(word) -> [kind |-> "list", head |-> head]
        [] texts # <<>> /\ (Len(texts) > 1 => common > Len(word)) ->
             IF Len(text) - Len(word) > Room THEN [kind |-> "bell", head |-> head]
             ELSE [kind |-> "completed",
                   head |-> IF rewrite THEN SubSeq(head, 1, Len(head) - Len(word)) \o text
                            ELSE head \o SubSeq(text, Len(word) + 1, Len(text))]

TextsOf(found) == [k \in 1 .. Len(found) |-> found[k].text]

\* cli_tab_complete_words
CompleteWord(head, s, found) ==
  LET c == Completion(head, s.partial, TextsOf(found))
      only == c.kind = "completed" /\ Len(found) = 1
  IN  [head |-> c.head,
       shown |-> [Shows(c.kind) EXCEPT !.path = s.path,
                                       !.offers = IF c.kind = "list" \/ only THEN found ELSE <<>>]]

TabBelow(head, s, walk) ==
  IF s.status # "ok" \/ walk.rc # "ok" \/ walk.args
  THEN [head |-> head, shown |-> Shows("bell")]
  ELSE Only({CompleteWord(head, s, found) :
               found \in {Matches(s.partial, walk.level, s.path = <<>>)}})

TabWords(head) ==
  Only(UNION {{TabBelow(head, s, walk) : walk \in {Walk(s.path)}} : s \in {Split(head)}})

\* The keywords of the table that the word begins.
FilterTexts(word) ==
  LET upto[n \in 0 .. Len(Filters)] ==
        IF n = 0 THEN <<>>
        ELSE IF StartsWith(Filters[n].keyword, word) THEN Append(upto[n - 1], Filters[n].keyword)
        ELSE upto[n - 1]
  IN  upto[Len(Filters)]

\* cli_filter_tab_complete: the keyword only.
TabFilter(head, tail) ==
  LET s == FilterSplit(tail)
      c == Completion(head, s.kw, FilterTexts(s.kw))
  IN  IF ~s.atKeyword THEN [head |-> head, shown |-> Shows("bell")]
      ELSE [head |-> c.head, shown |-> Shows(c.kind)]

\* cli_show_help_words
HelpBehind(s, walk) ==
  LET List(found) ==
        IF found = <<>> THEN Shows(IF s.partial # <<>> THEN "unknown" ELSE "cr")
        ELSE Listed(s.path, found)
  IN  CASE s.status = "tooMany" -> Shows("tooMany")
        [] s.status # "tooMany" /\ walk.rc # "ok" -> Shows(walk.rc)
        [] s.status # "tooMany" /\ walk.rc = "ok" ->
             IF walk.args THEN Shows("cr")
             ELSE Only({List(found) :
                          found \in {Matches(s.partial, walk.level, s.path = <<>>)}})

HelpWords(head) ==
  Only(UNION {{HelpBehind(s, walk) : walk \in {Walk(s.path)}} : s \in {Split(head)}})

\* cli_filter_show_help
HelpFilter(tail) ==
  LET s == FilterSplit(tail)
      types == FilterTypes(s.kw)
      any == \E k \in 1 .. Len(Filters) : StartsWith(Filters[k].keyword, s.kw)
  IN  IF s.atKeyword THEN Shows(IF any THEN "list" ELSE "badFilter")
      ELSE IF Cardinality(types) # 1 THEN Shows("badFilter")
      ELSE IF types = {"count"} THEN Shows(IF s.pattern = <<>> THEN "cr" ELSE "badFilter")
      ELSE Shows(IF s.pattern = <<>> THEN "pattern" ELSE "cr")

-----------------------------------------------------------------------------
(* The keys                                                                *)

Init ==
  /\ menu \in Menus
  /\ line = <<>> /\ cursor = 0 /\ shown = Nothing

UpTo(s, n) == SubSeq(s, 1, n)
Behind(s, n) == SubSeq(s, n + 1, Len(s))

MoveCursor(n) ==
  /\ n # cursor /\ n <= Len(line)
  /\ cursor' = n /\ shown' = Nothing
  /\ UNCHANGED <<menu, line>>

Insert(c) ==
  /\ Len(line) < MaxTyped
  /\ c = HELP => QuoteOpen(line, cursor)
  /\ IF Len(line) >= menu.size - 1 THEN shown' = Shows("bell") /\ UNCHANGED <<line, cursor>>
     ELSE /\ line' = UpTo(line, cursor) \o <<c>> \o Behind(line, cursor)
          /\ cursor' = cursor + 1 /\ shown' = Nothing
  /\ UNCHANGED menu

Help ==
  /\ ~QuoteOpen(line, cursor)
  /\ LET head == UpTo(line, cursor)
         pipe == FindPipe(head)
     IN  shown' = By("help", IF pipe = 0 THEN HelpWords(head) ELSE HelpFilter(Behind(head, pipe)))
  /\ UNCHANGED <<menu, line, cursor>>

(* Mutant: the completion is made where the cursor is, inside a word.      *)
TabAtCursor == cursor

\* The cursor moves to the end of its word first; inside an open quote it stays.
TabAt ==
  LET rest == Behind(line, cursor)
      r == Scanned(rest)
  IN  IF QuoteOpen(line, cursor) THEN cursor
      ELSE cursor + First({i \in 1 .. Len(rest) : rest[i] \in {SP, PIPE} /\ ~Quoted(r[i - 1])},
                          Len(rest) + 1) - 1

Tab ==
  LET Completed(head, pipe) ==
        IF pipe = 0 THEN TabWords(head) ELSE TabFilter(head, Behind(head, pipe))
  IN  \E at \in {TabAt}, head \in {UpTo(line, TabAt)} :
        \E done \in {Completed(head, FindPipe(head))} :
          /\ line' = done.head \o Behind(line, at)
          /\ cursor' = Len(done.head)
          /\ shown' = By("tab", done.shown)
          /\ UNCHANGED menu

Enter ==
  /\ shown' = By("enter", Execute(line))
  /\ line' = <<>> /\ cursor' = 0
  /\ UNCHANGED menu

\* cli_exec_argv: the line is built behind the editor's and its NUL, and keeps a byte for
\* its own.  Bound: only while the editor is empty and no key has been pressed.
ExecArgv(words) ==
  /\ line = <<>> /\ shown = Nothing
  /\ \E text \in {Joined(words)} :
       LET done == IF Len(text) + 1 <= menu.size - 1 THEN Execute(text) ELSE Shows("noRoom")
       IN  shown' = [By("exec", done) EXCEPT !.path = words]
  /\ UNCHANGED <<menu, line, cursor>>

Next ==
  \/ \E n \in 0 .. MaxTyped : MoveCursor(n)
  \/ \E c \in Chars : Insert(c)
  \/ Help \/ Tab \/ Enter
  \/ line = <<>> /\ \E words \in WordLists : ExecArgv(words)

Spec == Init /\ [][Next]_wordVars

-----------------------------------------------------------------------------
(* Correctness                                                             *)

\* What Enter would make of a line: the words, also of an unfinished one, and the filter.
Meaning(s) ==
  LET pipe == FindPipe(s)
  IN  [words |-> Words(IF pipe = 0 THEN s ELSE UpTo(s, pipe - 1)),
       filter |-> IF pipe = 0 THEN <<>> ELSE <<FilterSplit(Behind(s, pipe))>>]

Extends(new, old) ==
  /\ Len(old) <= Len(new) /\ Len(new) <= Len(old) + 1
  /\ \E i \in 1 .. Len(new) :
       \/ Len(new) = Len(old) /\ StartsWith(new[i], old[i]) /\
            \A j \in 1 .. Len(new) : j # i => new[j] = old[j]
       \/ Len(new) = Len(old) + 1 /\ RemoveAt(new, i) = old

\* Tab completes one word and changes nothing else that the line means, wherever the
\* cursor is and whatever is quoted around it; the line stays within its buffer.
TabOnlyExtends ==
  [][shown'.key = "tab" /\ line' # line =>
       LET old == Meaning(line)
           new == Meaning(line')
       IN  /\ Len(line') < menu.size
           /\ \/ new.filter = old.filter /\ new.words.open = old.words.open
                   /\ Extends(new.words.words, old.words.words)
              \/ new.words = old.words /\ new.filter # <<>> /\ old.filter # <<>>
                   /\ LET kw == old.filter[1].kw
                      IN  kw # <<>> /\ FindPipe(kw) = 0 =>
                            /\ StartsWith(new.filter[1].kw, kw)
                            /\ new.filter[1].pattern = old.filter[1].pattern]_wordVars

\* What '?', 'help' and Tab say of a line agrees with what running it does.  Whatever they
\* offer, or complete, for a word is what the keyword in full selects when the line runs:
\* in a submenu, where root commands are offered as well, and with hidden commands,
\* aliases and abbreviations around it.  '?' behind complete words reports the error that
\* Enter reports, other than one of 'help' itself; where it shows <cr>, Enter runs a command,
\* unless all that could follow is hidden.
HelpAgreesWithEnter ==
  LET behindWords == cursor = Len(line) /\ (line = <<>> \/ Last(line) = SP) /\ FindPipe(line) = 0
      Errors == {"unknown", "ambiguous", "tooMany"}
  IN  /\ shown.key \in {"help", "tab", "enter"} =>
           \A k \in 1 .. Len(shown.offers) :
             \A words \in {Append(shown.path, shown.offers[k].text)} :
               Named(words)[Len(words)] = [rc |-> "ok", node |-> shown.offers[k].node]
      /\ shown.key = "help" /\ behindWords => \A enter \in {Execute(line)} :
           /\ {enter.kind, shown.kind} \cap Errors # {} => shown.kind = enter.kind
           /\ shown.kind = "cr" /\ enter.kind = "incomplete" =>
                \A h \in Selectable(Walk(enter.argv).level) : Node(h).hidden

\* The handler gets the very words that the application passed, whatever characters are
\* in them, and no pipe filter; a line that does not fit is not run.
JoinedIsSplit ==
  shown.key = "exec" =>
    \/ shown.kind = "noRoom"
    \/ shown.kind = "tooMany" /\ Len(shown.path) >= MaxArgs
    \/ shown.argv = shown.path /\ shown.filter = NoFilter

=============================================================================
