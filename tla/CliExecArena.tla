---------------------------- MODULE CliExecArena ----------------------------
(***************************************************************************)
(* The input buffer of a session as the arena its command lines share      *)
(* (input, input_len, exec_used, exec_depth).                              *)
(*                                                                         *)
(* The head of input[] holds the line being edited, which may be a         *)
(* password; a typed line is executed in place, and every cli_exec() puts  *)
(* its line behind the lines in use.  The argv strings of a handler point  *)
(* into its line until it returns, and handlers may restart the session,   *)
(* ask for a login or for the enable password, which forget the edited     *)
(* line.                                                                   *)
(*                                                                         *)
(* A byte of the buffer is abstracted to who wrote it.                     *)
(***************************************************************************)
EXTENDS Integers, Sequences

CONSTANTS
  Size,             \* CLI_MAX_INPUT_LEN
  CredentialLimit,  \* the longest username, password or secret a prompt accepts
  MaxExecDepth      \* CLI_MAX_EXEC_DEPTH

ASSUME ArenaAssumption ==
  /\ Size \in Nat \ {0} /\ CredentialLimit \in 0 .. Size - 1
  /\ MaxExecDepth \in Nat \ {0}

VARIABLES
  input,    \* input[]: whose byte each one is
  len,      \* input_len
  asking,   \* what the prompt asks for (auth_state)
  session,  \* "RUN", or "RESTARTED" until the engine has shown the banner
  running,  \* the executing lines, outermost first; exec_depth is its length
  used      \* exec_used

vars == <<input, len, asking, session, running, used>>

NUL == 0
TYPED == -1    \* a command line or username in the editor
SECRET == -2   \* a password or enable secret

\* A line run by cli_exec is told by its depth.
Owners == {NUL, TYPED, SECRET} \cup 1 .. MaxExecDepth

Positions == 0 .. Size - 1

Lines == [kind : {"typed", "key", "check", "exec"}, at : Positions, len : Positions,
          saved : 0 .. Size]

End(line) == line.at + line.len + 1

Last(s) == s[Len(s)]

Idle == running = <<>>

Fill(b, from, to, owner) == [i \in Positions |-> IF i \in from .. to - 1 THEN owner ELSE b[i]]

Terminated(b, i) == [b EXCEPT ![i] = NUL]

\* A line of n bytes and its NUL at position at.
Placed(b, at, n, owner) == Terminated(Fill(b, at, at + n, owner), at + n)

-----------------------------------------------------------------------------

Init ==
  /\ input = [i \in Positions |-> NUL] /\ len = 0
  /\ asking = "command" /\ session = "RESTARTED"
  /\ running = <<>> /\ used = 0

(* cli_reset_input: a secret is erased; the bytes of executing lines stay. *)
(* Mutant: the editor only forgets a secret.                               *)
ForgottenOnly == IF Idle THEN Terminated(input, 0) ELSE input

Forgotten ==
  LET erased == IF asking = "secret" THEN Fill(input, 0, len, NUL) ELSE input
  IN  IF Idle THEN Terminated(erased, 0) ELSE erased

ResetInput == input' = Forgotten /\ len' = 0

Prompting == Idle /\ session = "RUN" /\ asking # "lockout"

EditedBy == IF asking = "secret" THEN SECRET ELSE TYPED

Limit == IF asking = "command" THEN Size - 1 ELSE CredentialLimit

Insert ==
  /\ Prompting /\ len < Limit
  /\ input' = Terminated([input EXCEPT ![len] = EditedBy], len + 1) /\ len' = len + 1
  /\ UNCHANGED <<asking, session, running, used>>

\* Backspace, delete, kill word and kill line shorten the line from its end.
Shorten ==
  /\ Prompting /\ len > 0
  /\ \E n \in 0 .. len - 1 :
       /\ n < len - 1 => asking = "command"
       /\ input' = Terminated(input, n) /\ len' = n
  /\ UNCHANGED <<asking, session, running, used>>

\* Browsing the history replaces the edited line.
Browse(n) ==
  /\ Prompting /\ asking = "command"
  /\ input' = Placed(input, 0, n, TYPED) /\ len' = n
  /\ UNCHANGED <<asking, session, running, used>>

\* Ctrl-U at a credential prompt.
ClearCredential ==
  /\ Prompting /\ asking # "command"
  /\ ResetInput
  /\ UNCHANGED <<asking, session, running, used>>

Begin(line) == running' = Append(running, line) /\ used' = End(line)

\* The typed line runs where it is.
SubmitLine ==
  /\ Prompting /\ asking = "command"
  /\ Begin([kind |-> "typed", at |-> 0, len |-> len, saved |-> used])
  /\ UNCHANGED <<input, len, asking, session>>

\* Ctrl-D on the empty line: the quit hook runs with nothing in the line.
QuitKey ==
  /\ Prompting /\ asking = "command" /\ len = 0
  /\ Begin([kind |-> "key", at |-> 0, len |-> 0, saved |-> used])
  /\ UNCHANGED <<input, len, asking, session>>

SubmitUsername ==
  /\ Prompting /\ asking = "username"
  /\ ResetInput /\ asking' = "secret"
  /\ UNCHANGED <<session, running, used>>

WipeInput == input' = [i \in Positions |-> NUL] /\ len' = 0

Verdict == asking' \in {"command", "username", "lockout"}

\* Checked by the table or against the stored secret: no application code runs.
SubmitSecret ==
  /\ Prompting /\ asking = "secret"
  /\ WipeInput /\ Verdict
  /\ UNCHANGED <<session, running, used>>

\* Checked by the application's callback, which is given the secret in place.
CheckSecret ==
  /\ Prompting /\ asking = "secret"
  /\ Begin([kind |-> "check", at |-> 0, len |-> len, saved |-> used])
  /\ UNCHANGED <<input, len, asking, session>>

LockoutEnd ==
  /\ Idle /\ session = "RUN" /\ asking = "lockout"
  /\ ResetInput /\ asking' \in {"username", "command"}
  /\ UNCHANGED <<session, running, used>>

-----------------------------------------------------------------------------
(* What handlers, callbacks and the main loop may call                     *)

(* Mutant: a nested line is placed behind the edited line.                 *)
BaseOfEditor == len + 1

Base == IF Idle THEN len + 1 ELSE used

Fits(n) == Base < Size /\ n < Size - Base

MayNest == Len(running) < MaxExecDepth

\* cli_exec and cli_exec_argv, from anywhere.
Exec(n) ==
  /\ MayNest /\ Fits(n)
  /\ input' = Placed(input, Base, n, Len(running) + 1)
  /\ Begin([kind |-> "exec", at |-> Base, len |-> n, saved |-> used])
  /\ UNCHANGED <<len, asking, session>>

\* cli_exec_argv joins its words in the free part before it knows that they fit.
JoinTooLong(n) ==
  /\ MayNest
  /\ input' = Fill(input, Base, Base + n, Len(running) + 1)
  /\ UNCHANGED <<len, asking, session, running, used>>

RestartSession ==
  /\ ResetInput /\ asking' = "command" /\ session' = "RESTARTED"
  /\ UNCHANGED <<running, used>>

\* While the session restarts, the request is only remembered.
RequestAuth ==
  /\ session = "RUN"
  /\ ResetInput /\ asking' = "username"
  /\ UNCHANGED <<session, running, used>>

\* The built-in 'enable', when it needs a secret.
AskEnableSecret ==
  /\ ~Idle /\ asking = "command"
  /\ ResetInput /\ asking' = "secret"
  /\ UNCHANGED <<session, running, used>>

\* The engine shows the banner and the first prompt.
Banner ==
  /\ Idle /\ session = "RESTARTED" /\ session' = "RUN"
  /\ \/ asking' = "command" /\ UNCHANGED <<input, len>>
     \/ asking' = "username" /\ ResetInput
  /\ UNCHANGED <<running, used>>

-----------------------------------------------------------------------------
(* The innermost line returns                                              *)

Returns(kind) ==
  /\ ~Idle /\ Last(running).kind = kind
  /\ running' = SubSeq(running, 1, Len(running) - 1)

\* exec_depth is down before cli_reset_input, so the line's bytes are free.
ForgottenAfter ==
  Terminated(IF asking = "secret" THEN Fill(input, 0, len, NUL) ELSE input, 0)

TypedReturns ==
  /\ Returns("typed")
  /\ input' = ForgottenAfter /\ len' = 0
  /\ UNCHANGED <<asking, session, used>>

\* 'history n' loads an entry of n bytes into the editor, over the line that ran.
TypedRecalls(n) ==
  /\ Returns("typed") /\ n > 0
  /\ asking = "command" /\ session = "RUN" /\ len = Last(running).len
  /\ input' = Placed(input, 0, n, TYPED) /\ len' = n
  /\ UNCHANGED <<asking, session, used>>

KeyReturns == Returns("key") /\ UNCHANGED <<input, len, asking, session, used>>

CheckReturns ==
  /\ Returns("check")
  /\ WipeInput
  /\ IF asking = "secret" /\ session = "RUN" THEN Verdict ELSE UNCHANGED asking
  /\ UNCHANGED <<session, used>>

(* Mutant: the editor's line is not terminated when the last line returns. *)
AfterExecAsIs == input

\* The command may have forgotten the edited line while its bytes were in use.
AfterExec == IF Len(running) = 1 THEN Terminated(input, len) ELSE input

ExecReturns ==
  /\ Returns("exec")
  /\ used' = Last(running).saved
  /\ input' = AfterExec
  /\ UNCHANGED <<len, asking, session>>

\* A top-level 'history n' recalls into the editor only when that is empty.
ExecRecalls(n) ==
  /\ Returns("exec") /\ n > 0
  /\ Len(running) = 1 /\ asking = "command" /\ len = 0
  /\ used' = Last(running).saved
  /\ input' = Placed(input, 0, n, TYPED) /\ len' = n
  /\ UNCHANGED <<asking, session>>

-----------------------------------------------------------------------------

Next ==
  \/ Insert \/ Shorten \/ ClearCredential
  \/ SubmitLine \/ QuitKey \/ SubmitUsername \/ SubmitSecret \/ CheckSecret \/ LockoutEnd
  \/ \E n \in Positions : Browse(n) \/ TypedRecalls(n) \/ ExecRecalls(n)
  \/ \E n \in Positions : Exec(n) \/ JoinTooLong(n)
  \/ RestartSession \/ RequestAuth \/ AskEnableSecret \/ Banner
  \/ TypedReturns \/ KeyReturns \/ CheckReturns \/ ExecReturns

Spec == Init /\ [][Next]_vars

-----------------------------------------------------------------------------
(* Correctness                                                             *)

\* Every variable has its type: every line, with its NUL, ends inside input[].
TypeOK ==
  /\ input \in [Positions -> Owners]
  /\ len \in Positions
  /\ asking \in {"command", "username", "secret", "lockout"}
  /\ session \in {"RUN", "RESTARTED"}
  /\ running \in Seq(Lines) /\ Len(running) <= MaxExecDepth
  /\ \A d \in 1 .. Len(running) : End(running[d]) <= Size
  /\ used \in 0 .. Size

\* Whose bytes the line at depth d consists of.
OwnerOf(d) == IF running[d].kind = "exec" THEN d ELSE TYPED

\* The argv strings of every handler that has not returned keep their text,
\* whatever further lines run, and whatever forgets the edited line meanwhile:
\* cli_exec_area never hands out a byte of a line that is still in use.
ArgumentsStay ==
  \A d \in 1 .. Len(running) :
    running[d].kind # "check" =>
      /\ \A i \in running[d].at .. End(running[d]) - 2 : input[i] = OwnerOf(d)
      /\ input[End(running[d]) - 1] = NUL

\* A password or enable secret is only in the buffer while it is asked for, and
\* only in the part the next reset erases: none survives a check, a restart or a
\* new login, also when lines were run while it was being typed.
SecretErased ==
  \A i \in Positions : input[i] = SECRET => asking = "secret" /\ i < len

\* What was typed is never overwritten by a line that callbacks or the main loop
\* run meanwhile, and at the prompt the edited line ends where it should.
EditedLineStays ==
  /\ \A i \in 0 .. len - 1 : input[i] = EditedBy
  /\ Idle => input[len] = NUL

=============================================================================
