----------------------------- MODULE CliSession -----------------------------
(***************************************************************************)
(* The session engine of cli.c: lifecycle, login, enable password, lockout,*)
(* idle timeout, navigation and history ownership of one cli_struct_t.     *)
(*                                                                         *)
(* The engine is single-threaded, but application code runs in the middle  *)
(* of it: the main loop between two ticks, the periodic and idle           *)
(* callbacks at the start of one, command handlers, exit / quit hooks and  *)
(* login / enable callbacks in the middle of the input loop.  Each of      *)
(* these is a place (run.at) where the application may make any sequence   *)
(* of API calls before the engine goes on.                                 *)
(*                                                                         *)
(* cli is the session struct; operators map one value of it to the next,   *)
(* as the C functions of the same names do.  The typed text is abstracted: *)
(* the byte that ends a line carries what the line says.                   *)
(***************************************************************************)
EXTENDS CliNav

CONSTANTS
  Users,         \* the usernames of the local table (cli_add_user)
  UserPriv,      \* their privilege levels
  NoUser,        \* an empty or unknown username
  MaxAttempts,   \* CLI_AUTH_MAX_ATTEMPTS
  MaxRx,         \* CLI_MAX_RX_BYTES_PER_TICK
  ClockMod,      \* the clock wraps at this value (2^32 in the code)
  Configs,       \* the configurations the application may choose
  Commands,      \* the command lines a user may type
  AppCalls,      \* the API functions application code may call
  HandlerResults, \* the result codes application handlers return
  IndexSelection, \* CLI_HISTORY_INDEX_SELECTION: a line is recorded after it ran
  PeerMayVanish, \* whether a transport read or write may fail
  AgeCap,        \* ages are counted up to this many seconds
  SlowClock      \* TRUE: the engine runs at least once per clock second

ASSUME UsersAssumption == NoUser \notin Users /\ UserPriv \in [Users -> Privileges]
ASSUME BoundsAssumption ==
  /\ MaxAttempts \in Nat \ {0} /\ MaxRx \in Nat \ {0} /\ ClockMod \in Nat \ {0}
  /\ IndexSelection \in BOOLEAN /\ PeerMayVanish \in BOOLEAN /\ SlowClock \in BOOLEAN

ConfigType == [requireAuth : BOOLEAN, secret : BOOLEAN, callbacks : BOOLEAN,
               lockout : BOOLEAN, lockSecs : Nat,
               idle : {"ignore", "reset", "close", "callback"}, idleTimeout : Nat,
               exitPolicy : {"close", "reset", "ignore"},
               quitPolicy : {"close", "reset", "ignore"}]
ASSUME ConfigsAssumption == Configs \subseteq ConfigType
ASSUME AgeCapAssumption ==
  AgeCap \in Nat /\ \A c \in Configs : c.lockSecs <= AgeCap /\ c.idleTimeout <= AgeCap

Results == {"OK", "ERR", "QUIT", "AUTH"}
ASSUME HandlerResultsAssumption == HandlerResults \subseteq Results

VARIABLES
  cli,     \* the session struct
  config,  \* what the configuration setters stored in it
  run,     \* where the engine or application code is, and its locals
  now,     \* the reading of the session's clock
  age      \* real seconds since the last key / since the lockout began

vars == <<cli, config, run, now, age>>

-----------------------------------------------------------------------------
(* The session struct                                                      *)

Sessions == {"INIT", "SHOW_BANNER", "RUN", "STOP"}
PromptStates == {"NONE", "AUTHENTICATED"}
AuthInputs == {"USERNAME", "PASSWORD", "ENABLE_MODE_PASSWORD", "LOCKOUT"}
AuthStates == PromptStates \cup AuthInputs
Times == 0 .. ClockMod - 1
Names == Users \cup {NoUser}

(* Four fields record history for the properties only: the code has no     *)
(* counterpart, and no guard reads them.                                   *)
(*   granted: the highest privilege granted to the current identity        *)
(*   who:     the user whose login was accepted, {} if none was            *)
(*   mustLogin: this session began, or was sent back, to a login prompt    *)
(*   line:    whose the line being executed is, "own" to the present user  *)
CliType ==
  [session : Sessions, auth : AuthStates, resume : PromptStates \cup {"USERNAME"},
   attempts : Nat, enableAttempts : Nat,
   authRequested : BOOLEAN, username : Names, nav : Navs,
   history : SUBSET {"own", "other"}, historyCleared : BOOLEAN,
   idleArmed : BOOLEAN, lastAction : Times, lockTs : Times, hasClock : BOOLEAN,
   txError : BOOLEAN,
   granted : Nat, who : SUBSET Names, mustLogin : BOOLEAN, line : {"own", "other"}]

Elapsed(ts) == (now - ts) % ClockMod

IdlePeriodRestart(s) == IF s.hasClock THEN [s EXCEPT !.lastAction = now] ELSE s

TouchActivity(s) == IdlePeriodRestart([s EXCEPT !.idleArmed = TRUE])

SetNav(s, n) == [s EXCEPT !.nav = n]

Larger(a, b) == IF a < b THEN b ELSE a

Grant(s, p) == [s EXCEPT !.granted = Larger(s.granted, p)]

Granting(s, p) == Grant(SetNav(s, SetPrivilege(s.nav, p)), p)

(* Whoever was using the session is gone: what the history still holds     *)
(* belongs to somebody else (bookkeeping for the properties).              *)
EndIdentity(s) ==
  [s EXCEPT !.granted = PrivUser, !.who = {}, !.mustLogin = FALSE, !.line = "other",
            !.history = IF s.history = {} THEN {} ELSE {"other"}]

ClearHistory(s) == [s EXCEPT !.history = {}, !.historyCleared = TRUE]

(* A typed line is recorded before it runs, or with IndexSelection after it*)
(* ran, unless it cleared the history.                                     *)
Submitted(s) ==
  IF IndexSelection THEN [s EXCEPT !.historyCleared = FALSE, !.line = "own"]
  ELSE [s EXCEPT !.history = @ \cup {"own"}, !.line = "own"]

(* Mutant: a line that cleared the history is recorded all the same.       *)
ExecutedAlways(s) == IF IndexSelection THEN [s EXCEPT !.history = @ \cup {s.line}] ELSE s

Executed(s) ==
  IF IndexSelection /\ ~s.historyCleared THEN [s EXCEPT !.history = @ \cup {s.line}] ELSE s

UnprivilegedNav(n) == SetPrivilege(NavReset(n), PrivUser)

SessionReset(s) ==
  ClearHistory([EndIdentity(s) EXCEPT
    !.nav = UnprivilegedNav(s.nav), !.idleArmed = FALSE,
    !.auth = "NONE", !.attempts = 0, !.enableAttempts = 0, !.lockTs = 0,
    !.username = NoUser])

CliStart(s) ==
  IdlePeriodRestart([SessionReset(s) EXCEPT
    !.txError = FALSE, !.authRequested = FALSE, !.session = "INIT"])

RestartSession(s) == [SessionReset(s) EXCEPT !.session = "SHOW_BANNER"]

PromptUsername(s) == [s EXCEPT !.username = NoUser, !.auth = "USERNAME"]

(* Mutant: a request made before the banner is not remembered.             *)
RequestAuthAtOnce(s) ==
  ClearHistory([EndIdentity(s) EXCEPT
    !.nav = UnprivilegedNav(s.nav), !.attempts = 0, !.enableAttempts = 0,
    !.lockTs = 0, !.username = NoUser, !.auth = "USERNAME", !.mustLogin = TRUE])

RequestAuth(s) ==
  IF s.session \in {"INIT", "SHOW_BANNER"} THEN [s EXCEPT !.authRequested = TRUE]
  ELSE ClearHistory([EndIdentity(s) EXCEPT
         !.nav = UnprivilegedNav(s.nav), !.attempts = 0, !.enableAttempts = 0,
         !.lockTs = 0, !.username = NoUser, !.auth = "USERNAME", !.mustLogin = TRUE])

Stopped(s) == [s EXCEPT !.session = "STOP"]

IsAuthInput(s) == s.auth \in AuthInputs

-----------------------------------------------------------------------------
(* Login, enable password and lockout                                      *)

CanLock(s) == config.lockout /\ (config.lockSecs = 0 \/ s.hasClock)

LimitReached(s, resumeState) ==
  IF CanLock(s)
  THEN [s EXCEPT !.auth = "LOCKOUT", !.resume = resumeState,
                 !.lockTs = IF s.hasClock THEN now ELSE s.lockTs]
  ELSE Stopped(s)

LockoutUnending(s) == config.lockSecs # 0 /\ ~s.hasClock

(* Mutant: the elapsed time is compared without the clock's wrap.          *)
LockoutExpiredUnwrapped(s) ==
  config.lockSecs # 0 /\ s.hasClock => now >= s.lockTs + config.lockSecs

LockoutExpired(s) ==
  config.lockSecs # 0 /\ s.hasClock => Elapsed(s.lockTs) >= config.lockSecs

(* Mutant: the attempts of the login stay used up.                         *)
LockoutEndKeepsAttempts(s) ==
  LET e == IdlePeriodRestart([s EXCEPT !.lockTs = 0])
  IN  IF s.resume = "USERNAME" THEN PromptUsername(e)
      ELSE [e EXCEPT !.enableAttempts = 0, !.auth = s.resume]

(* Mutant: the locked out seconds count as idle.                           *)
LockoutEndWithoutRestart(s) ==
  LET e == [s EXCEPT !.lockTs = 0]
  IN  IF s.resume = "USERNAME" THEN PromptUsername([e EXCEPT !.attempts = 0])
      ELSE [e EXCEPT !.enableAttempts = 0, !.auth = s.resume]

LockoutEnd(s) ==
  LET e == IdlePeriodRestart([s EXCEPT !.lockTs = 0])
  IN  IF s.resume = "USERNAME"
      THEN PromptUsername([e EXCEPT !.attempts = 0])
      ELSE [e EXCEPT !.enableAttempts = 0, !.auth = s.resume]

(* Mutant: the login keeps the navigation it finds.                        *)
LoginBeginKeepsNav(s) ==
  [s EXCEPT !.nav.privilege = PrivUser, !.granted = PrivUser]

(* cli_auth_verify up to the check of the credentials: every login starts  *)
(* unprivileged at the root.                                               *)
LoginBegin(s) == [s EXCEPT !.nav = UnprivilegedNav(s.nav), !.granted = PrivUser]

LoginAccepted(s) ==
  [s EXCEPT !.auth = "AUTHENTICATED", !.attempts = 0, !.who = {s.username},
            !.nav.mode = IF s.nav.privilege >= PrivPrivileged THEN "enable" ELSE @]

LoginRejected(s) ==
  LET r == [s EXCEPT !.nav.privilege = PrivUser, !.attempts = s.attempts + 1,
                     !.granted = PrivUser]
  IN  IF r.attempts >= MaxAttempts THEN LimitReached(r, "USERNAME") ELSE PromptUsername(r)

(* cli_auth_verify after it: the callback may have restarted, stopped or   *)
(* re-requested the login, which replaces this attempt.                    *)
LoginVerdict(s, ok) ==
  IF s.session # "RUN" \/ s.auth # "PASSWORD" THEN s
  ELSE IF ok THEN LoginAccepted(s) ELSE LoginRejected(s)

(* Privileged exec is entered, unless the navigation stack is full.        *)
EnterPrivileged(s, n) ==
  IF CanSetMode(s.nav, "enable") THEN Grant(SetNav(s, n), PrivPrivileged) ELSE s

EnableResult(s, ok) ==
  IF ok THEN EnterPrivileged([s EXCEPT !.enableAttempts = 0], EnableGranted(s.nav))
  ELSE LET r == [s EXCEPT !.enableAttempts = s.enableAttempts + 1]
       IN  IF r.enableAttempts >= MaxAttempts THEN LimitReached(r, s.resume) ELSE r

(* Mutant: the password's verdict counts whatever the callback did.        *)
EnableVerdictAlways(s, ok) ==
  IF s.session # "RUN" THEN s ELSE EnableResult([s EXCEPT !.auth = s.resume], ok)

EnableVerdict(s, ok) ==
  IF s.session # "RUN" \/ s.auth # "ENABLE_MODE_PASSWORD" THEN s
  ELSE EnableResult([s EXCEPT !.auth = s.resume], ok)

-----------------------------------------------------------------------------
(* Built-in commands                                                       *)

Ending(s, policy) ==
  CASE policy = "reset"  -> RestartSession(s)
    [] policy = "ignore" -> s
    [] policy = "close"  -> Stopped(s)

CmdExit(s) ==
  IF AtFloor(s.nav) THEN Ending(s, config.exitPolicy) ELSE SetNav(s, LeaveLevel(s.nav))

CmdQuit(s) == Ending(s, config.quitPolicy)

(* cli_cmd_builtin_exit / _quit return CLI_ERR_QUIT when they close.       *)
Closes(s, c) ==
  \/ c = "exit" /\ AtFloor(s.nav) /\ config.exitPolicy = "close"
  \/ c = "quit" /\ config.quitPolicy = "close"

CmdEnable(s) ==
  IF IsAuthInput(s) THEN s
  ELSE IF s.nav.privilege >= PrivPrivileged \/ ~config.secret
  THEN EnterPrivileged(s, EnableAtOnce(s.nav))
  ELSE [s EXCEPT !.resume = s.auth, !.auth = "ENABLE_MODE_PASSWORD"]

CmdDisable(s) == [s EXCEPT !.nav = UnprivilegedNav(s.nav), !.granted = PrivUser]

CmdEnd(s) == SetNav(s, SetMode(s.nav, "enable"))

CmdConfigure(s) == SetNav(s, SetMode(s.nav, "config"))

Builtin(s, c) ==
  CASE c = "exit"      -> CmdExit(s)
    [] c = "quit"      -> CmdQuit(s)
    [] c = "enable"    -> CmdEnable(s)
    [] c = "disable"   -> CmdDisable(s)
    [] c = "end"       -> CmdEnd(s)
    [] c = "configure" -> CmdConfigure(s)

Builtins == {"exit", "quit", "enable", "disable", "end", "configure"}

(* The mode and privilege the built-ins are registered with; a command that*)
(* is not selectable is unknown to the session.                            *)
Selectable(n, c) ==
  /\ c = "enable" => n.mode = "exec"
  /\ c \in {"disable", "configure"} => n.mode = "enable" /\ n.privilege >= PrivPrivileged
  /\ c = "end" => n.mode = "config" /\ n.privilege >= PrivPrivileged

-----------------------------------------------------------------------------
(* The engine and the places where application code runs                   *)

AppPlaces == {"loop", "periodic", "idleCb", "handler", "hook", "authCb", "enableCb"}
EnginePlaces == {"idle", "lockout", "rx", "end"}

(* polled: a tick was completed since the clock last advanced.             *)
(* node and depth are the locals cli_execute_command keeps over a callback:*)
(* the submenu the command opens (ROOT if none) and depth_before; command  *)
(* is the built-in whose hook runs ("key": the quit of Ctrl-D).            *)
RunType == [at : AppPlaces \cup EnginePlaces, result : Results, budget : 0 .. MaxRx,
            polled : BOOLEAN, node : Contexts, depth : Nat,
            command : {"none", "exit", "quit", "key"}]

At(place) == run.at = place

GoTo(place) == run' = [run EXCEPT !.at = place]

Finish(result) == run' = [run EXCEPT !.at = "end", !.result = result]

(* Ages: idle restarts with everything that is activity for the user, lock *)
(* with every new lockout.                                                 *)
Aged(s, active) ==
  age' = [idle |-> IF active THEN 0 ELSE age.idle,
          lock |-> IF s.auth = "LOCKOUT" /\ cli.auth # "LOCKOUT" THEN 0 ELSE age.lock]

(* Anything written may find the peer gone (cli_raw_write).                *)
AfterOutput(s) == {s} \cup (IF PeerMayVanish THEN {[s EXCEPT !.txError = TRUE]} ELSE {})

Becomes(s) == cli' = s /\ Aged(s, FALSE) /\ UNCHANGED <<config, now>>

BecomesActive(s) == cli' = s /\ Aged(s, TRUE) /\ UNCHANGED <<config, now>>

CliInit(clock) ==
  [session |-> "STOP", auth |-> "NONE", resume |-> "NONE", attempts |-> 0,
   enableAttempts |-> 0, authRequested |-> FALSE, username |-> NoUser, nav |-> NavInit,
   history |-> {}, historyCleared |-> FALSE, idleArmed |-> FALSE, lastAction |-> 0,
   lockTs |-> 0, hasClock |-> clock, txError |-> FALSE, granted |-> PrivUser,
   who |-> {}, mustLogin |-> FALSE, line |-> "own"]

Init ==
  /\ \E clock \in BOOLEAN : cli = CliInit(clock)
  /\ config \in Configs
  /\ run = [at |-> "loop", result |-> "OK", budget |-> 0, polled |-> TRUE,
            node |-> ROOT, depth |-> 0, command |-> "none"]
  /\ now = 0
  /\ age = [idle |-> 0, lock |-> 0]

-----------------------------------------------------------------------------
(* One engine tick                                                         *)

TickStopped ==
  /\ At("loop") /\ cli.session = "STOP"
  /\ Finish("QUIT")
  /\ UNCHANGED <<cli, config, now, age>>

TickInit ==
  /\ At("loop") /\ cli.session = "INIT"
  /\ Finish("OK")
  /\ Becomes([cli EXCEPT !.session = "SHOW_BANNER"])

Banner(s) ==
  IF config.requireAuth \/ s.authRequested
  THEN PromptUsername([s EXCEPT !.authRequested = FALSE, !.attempts = 0, !.lockTs = 0,
                                !.session = "RUN", !.mustLogin = TRUE])
  ELSE [s EXCEPT !.auth = "NONE", !.session = "RUN"]

TickBanner ==
  /\ At("loop") /\ cli.session = "SHOW_BANNER"
  /\ Finish("OK")
  /\ \E s \in AfterOutput(Banner(cli)) : Becomes(s)

(* Whether the periodic callback is due is left open.                      *)
TickRun ==
  /\ At("loop") /\ cli.session = "RUN"
  /\ \E place \in IF config.callbacks /\ cli.hasClock THEN {"periodic", "idle"} ELSE {"idle"} :
       run' = [run EXCEPT !.at = place, !.result = "OK", !.budget = MaxRx]
  /\ UNCHANGED <<cli, config, now, age>>

PeriodicReturns ==
  /\ At("periodic")
  /\ \/ GoTo("idle") /\ UNCHANGED <<cli, config, now, age>>
     \/ Finish("ERR") /\ Becomes(Stopped(cli))

(* Mutant: no policy acts on a session in which nobody has typed.          *)
IdleDueArmed(s) ==
  /\ config.idleTimeout # 0 /\ s.hasClock /\ s.auth # "LOCKOUT"
  /\ config.idle # "ignore" /\ s.idleArmed
  /\ Elapsed(s.lastAction) >= config.idleTimeout

IdleDue(s) ==
  /\ config.idleTimeout # 0 /\ s.hasClock /\ s.auth # "LOCKOUT"
  /\ \/ config.idle \in {"callback", "close"}
     \/ config.idle = "reset" /\ s.idleArmed
  /\ Elapsed(s.lastAction) >= config.idleTimeout

(* cli_handle_idle_timeout without a callback.                             *)
IdleOutcome(s) == IF config.idle = "reset" THEN RestartSession(s) ELSE Stopped(s)

(* Callbacks may have stopped or restarted the session: the input waits    *)
(* until the banner and the prompt have been shown.                        *)
(* Mutant: the input is read whatever the callbacks did.                   *)
InputAlways(s) == GoTo("lockout")

InputIf(s) ==
  IF s.session = "RUN" THEN GoTo("lockout")
  ELSE Finish(IF s.session = "STOP" THEN "QUIT" ELSE "OK")

IdleCheck ==
  /\ At("idle")
  /\ IF ~IdleDue(cli) THEN InputIf(cli) /\ UNCHANGED <<cli, config, now, age>>
     ELSE IF config.idle = "callback"
     THEN GoTo("idleCb") /\ UNCHANGED <<cli, config, now, age>>
     ELSE \E s \in AfterOutput(IdleOutcome(cli)) : InputIf(s) /\ Becomes(s)

IdleCallbackReturns ==
  /\ At("idleCb")
  /\ \/ InputIf(cli) /\ BecomesActive(IdlePeriodRestart(cli))
     \/ Finish("ERR") /\ Becomes(Stopped(cli))

LockoutCheck ==
  /\ At("lockout")
  /\ IF cli.auth # "LOCKOUT" THEN GoTo("rx") /\ UNCHANGED <<cli, config, now, age>>
     ELSE IF LockoutUnending(cli)
     THEN Finish("AUTH") /\ \E s \in AfterOutput(Stopped(cli)) : Becomes(s)
     ELSE /\ GoTo("rx")
          /\ IF LockoutExpired(cli)
             THEN \E s \in AfterOutput(LockoutEnd(cli)) : BecomesActive(s)
             ELSE UNCHANGED <<cli, config, now, age>>

(* Nothing to read, or this tick's budget is used up.                      *)
InputDone ==
  /\ At("rx")
  /\ GoTo("end")
  /\ UNCHANGED <<cli, config, now, age>>

(* Mutant: the failure is reported but the session goes on.                *)
TransportFailsOpen ==
  /\ At("rx") /\ PeerMayVanish
  /\ Finish("ERR")
  /\ Becomes(cli)

TransportFails ==
  /\ At("rx") /\ PeerMayVanish
  /\ Finish("ERR")
  /\ Becomes(Stopped(cli))

(* The end of one round of the input loop: s and rc are what the byte led  *)
(* to, left is the budget that remains.  Either the byte is handled in this*)
(* step, or (not at "rx") a callback it led to has returned.               *)
RoundDone(s, rc, left) ==
  \E w \in AfterOutput(s) :
    LET e == IF rc = "OK" THEN w ELSE Stopped(w)
    IN  /\ cli' = e /\ UNCHANGED <<config, now>>
        /\ run' = [run EXCEPT
             !.budget = left, !.node = ROOT, !.depth = 0, !.command = "none",
             !.at = IF rc = "OK" /\ ~e.txError /\ e.session = "RUN" THEN "rx" ELSE "end",
             !.result = IF rc # "OK" THEN rc
                        ELSE IF ~e.txError /\ e.session = "STOP" THEN "QUIT" ELSE @]
        /\ Aged(e, At("rx"))

Reads == At("rx") /\ run.budget > 0

(* Mutant: the budget is never used up.                                    *)
BudgetKept == run.budget

BudgetLeft == run.budget - 1

(* A byte typed during a lockout, or the second byte of a CR LF pair.      *)
ByteDiscarded ==
  /\ Reads
  /\ run' = [run EXCEPT !.budget = BudgetLeft, !.at = IF cli.txError THEN "end" ELSE "rx"]
  /\ UNCHANGED <<cli, config, now, age>>

ReadsWhen(state) == Reads /\ cli.auth = state

(* A key that submits nothing: it is edited into the line, or the line it  *)
(* ends is empty.                                                          *)
KeyTyped ==
  /\ Reads /\ cli.auth # "LOCKOUT"
  /\ RoundDone(TouchActivity(cli), "OK", BudgetLeft)

UsernameEntered ==
  /\ ReadsWhen("USERNAME")
  /\ \E u \in Names :
       RoundDone([TouchActivity(cli) EXCEPT !.username = u, !.auth = "PASSWORD"],
                "OK", BudgetLeft)

EnterCallback(s, place, node, left) ==
  /\ BecomesActive(s)
  /\ run' = [run EXCEPT !.at = place, !.node = node, !.depth = Len(s.nav.stack),
                        !.budget = left]

(* cli_auth_submit_line ends with CLI_ERR_AUTH when the limit closed it.   *)
AuthRc(before, after) ==
  IF after.session = "STOP" /\ before.session = "RUN" THEN "AUTH" ELSE "OK"

TableVerdict(s, ok) ==
  IF ok /\ s.username \in Users
  THEN LoginVerdict(Granting(s, UserPriv[s.username]), TRUE)
  ELSE LoginVerdict(s, FALSE)

PasswordEntered ==
  /\ ReadsWhen("PASSWORD")
  /\ LET s == LoginBegin(TouchActivity(cli))
     IN  IF config.callbacks THEN EnterCallback(s, "authCb", ROOT, BudgetLeft)
         ELSE \E ok \in BOOLEAN :
                RoundDone(TableVerdict(s, ok), AuthRc(s, TableVerdict(s, ok)), BudgetLeft)

AuthCallbackReturns ==
  /\ At("authCb")
  /\ \E ok \in BOOLEAN :
       RoundDone(LoginVerdict(cli, ok), AuthRc(cli, LoginVerdict(cli, ok)), run.budget)

EnablePasswordEntered ==
  /\ ReadsWhen("ENABLE_MODE_PASSWORD")
  /\ LET s == TouchActivity(cli)
     IN  IF config.callbacks THEN EnterCallback(s, "enableCb", ROOT, BudgetLeft)
         ELSE \E ok \in BOOLEAN :
                RoundDone(EnableVerdict(s, ok), AuthRc(s, EnableVerdict(s, ok)), BudgetLeft)

EnableCallbackReturns ==
  /\ At("enableCb")
  /\ \E ok \in BOOLEAN :
       RoundDone(EnableVerdict(cli, ok), AuthRc(cli, EnableVerdict(cli, ok)), run.budget)

ReadsCommand == Reads /\ cli.auth \in PromptStates

HasHook(c) == c \in {"exit", "quit"} /\ config.callbacks

(* cli_cmd_builtin_exit / _quit first ask the hook.                        *)
AskHook(s, command) ==
  /\ BecomesActive(s)
  /\ run' = [run EXCEPT !.at = "hook", !.command = command, !.budget = BudgetLeft]

BuiltinRc(s, c) == IF Closes(s, c) THEN "QUIT" ELSE "OK"

BuiltinTyped(c) ==
  /\ ReadsCommand /\ Selectable(cli.nav, c)
  /\ LET s == Submitted(TouchActivity(cli))
     IN  IF HasHook(c) THEN AskHook(s, c)
         ELSE RoundDone(Executed(Builtin(s, c)), BuiltinRc(s, c), BudgetLeft)

(* Ctrl-D on an empty line runs 'quit' without recording a line.           *)
QuitKey ==
  /\ ReadsCommand
  /\ LET s == TouchActivity(cli)
     IN  IF HasHook("quit") THEN AskHook(s, "key")
         ELSE RoundDone(CmdQuit(s), BuiltinRc(s, "quit"), BudgetLeft)

(* The result of a command matters to the engine only if it ends the session.*)
CommandRc(rc) == IF rc = "ERR" THEN "OK" ELSE rc

(* The hook's result takes precedence over the policy.                     *)
HookReturns ==
  /\ At("hook")
  /\ \E rc \in HandlerResults :
       LET c == IF run.command = "exit" THEN "exit" ELSE "quit"
           s == IF rc = "OK" THEN Builtin(cli, c) ELSE cli
       IN  RoundDone(IF run.command = "key" THEN s ELSE Executed(s),
                     IF rc = "OK" THEN BuiltinRc(cli, c) ELSE CommandRc(rc), run.budget)

(* A command of the application; node is the submenu it opens, or ROOT.    *)
CommandTyped(node) ==
  /\ ReadsCommand
  /\ EnterCallback(Submitted(TouchActivity(cli)), "handler", node, BudgetLeft)

(* Whether the submenu has a command the session may use is left open.     *)
HandlerReturns ==
  /\ At("handler")
  /\ \E rc \in HandlerResults, children \in BOOLEAN :
       LET enters == rc = "OK" /\ run.node # ROOT /\ cli.session = "RUN" /\ children
           s == IF enters THEN SetNav(cli, EnterContext(cli.nav, run.node, run.depth)) ELSE cli
       IN  RoundDone(Executed(s), CommandRc(rc), run.budget)

(* Mutant: a failed write is not noticed.                                  *)
TickEndIgnoresWrite ==
  /\ At("end")
  /\ run' = [run EXCEPT !.at = "loop", !.polled = TRUE]
  /\ Becomes(cli)

(* A write that failed ends the session, whoever wrote.                    *)
TickEnd ==
  /\ At("end")
  /\ LET lost == cli.txError /\ cli.session # "STOP"
     IN  /\ run' = [run EXCEPT !.at = "loop", !.polled = TRUE,
                                 !.result = IF lost THEN "ERR" ELSE @]
         /\ Becomes(IF lost THEN Stopped(cli) ELSE cli)

-----------------------------------------------------------------------------
(* Calls the application makes                                             *)

InApp == run.at \in AppPlaces

Calls(f) == f \in AppCalls /\ InApp /\ UNCHANGED run

AppStart ==
  /\ At("loop") /\ UNCHANGED run
  /\ BecomesActive(CliStart(cli))

AppRestart == Calls("restart") /\ Becomes(RestartSession(cli))

AppRequestAuth == Calls("requestAuth") /\ Becomes(RequestAuth(cli))

(* cli_exec of a built-in: its result is the caller's to act on.           *)
AppExec ==
  /\ Calls("exec")
  /\ \E c \in Builtins \cap Commands :
       Selectable(cli.nav, c) /\ Becomes(Builtin(cli, c))

AppSetPrivilege ==
  /\ Calls("setPrivilege")
  /\ \E p \in Privileges : Becomes(Granting(cli, p))

AppSetMode ==
  /\ Calls("setMode")
  /\ \E m \in Modes : Becomes(SetNav(cli, SetMode(cli.nav, m)))

AppClearHistory == Calls("clearHistory") /\ Becomes(ClearHistory(cli))

(* cli_set_idle_timeout restarts the idle period; the other setters do not.*)
AppConfigure ==
  /\ Calls("configure")
  /\ config' \in Configs
  /\ LET restarts == config'.idleTimeout # config.idleTimeout \/ config'.idle # config.idle
         s == IF restarts THEN IdlePeriodRestart(cli) ELSE cli
     IN  cli' = s /\ Aged(s, restarts)
  /\ UNCHANGED now

(* cli_set_time_source: a running period keeps the time it has run.        *)
(* Mutant: a running period keeps its old timestamp.                       *)
RebasedNever(s, ts, t) == IF s.hasClock THEN ts ELSE t

Rebased(s, ts, t) == IF s.hasClock THEN (t - (now - ts)) % ClockMod ELSE t

WithClock(s, present, t) ==
  [s EXCEPT !.hasClock = present,
            !.lastAction = Rebased(s, @, t),
            !.lockTs = IF s.auth = "LOCKOUT" THEN Rebased(s, @, t) ELSE @]

AppSetClock ==
  /\ Calls("clock")
  /\ \E t \in Times :
       cli' = WithClock(cli, TRUE, t) /\ now' = t
  /\ UNCHANGED <<config, age>>

AppRemoveClock ==
  /\ Calls("clock")
  /\ cli' = WithClock(cli, FALSE, 0) /\ now' = 0
  /\ UNCHANGED <<config, age>>

-----------------------------------------------------------------------------

(* A second passes, under SlowClock only after a whole engine tick.        *)
ClockTick ==
  /\ SlowClock => At("loop") /\ run.polled
  /\ run' = [run EXCEPT !.polled = ~SlowClock]
  /\ now' = IF cli.hasClock THEN (now + 1) % ClockMod ELSE now
  /\ age' = [idle |-> IF age.idle < AgeCap THEN age.idle + 1 ELSE AgeCap,
             lock |-> IF age.lock < AgeCap THEN age.lock + 1 ELSE AgeCap]
  /\ UNCHANGED <<cli, config>>

EngineStep ==
  \/ TickStopped \/ TickInit \/ TickBanner \/ TickRun \/ IdleCheck \/ LockoutCheck
  \/ InputDone \/ TransportFails \/ ByteDiscarded \/ KeyTyped
  \/ UsernameEntered \/ PasswordEntered \/ EnablePasswordEntered \/ QuitKey
  \/ \E c \in Builtins \cap Commands : BuiltinTyped(c)
  \/ \E node \in Contexts : CommandTyped(node)
  \/ TickEnd

CallbackReturns ==
  \/ PeriodicReturns \/ IdleCallbackReturns \/ AuthCallbackReturns
  \/ EnableCallbackReturns \/ HandlerReturns \/ HookReturns

AppStep ==
  \/ AppStart \/ AppRestart \/ AppRequestAuth \/ AppExec \/ AppSetPrivilege \/ AppSetMode
  \/ AppClearHistory \/ AppConfigure \/ AppSetClock \/ AppRemoveClock

Next == EngineStep \/ CallbackReturns \/ AppStep \/ ClockTick

Spec == Init /\ [][Next]_vars

FairSpec ==
  /\ Spec
  /\ WF_vars(EngineStep) /\ WF_vars(CallbackReturns) /\ SF_vars(ClockTick)

-----------------------------------------------------------------------------
(* Correctness                                                             *)

\* Every variable has its type, and the navigation stack fits its array
\* whatever callbacks and commands push.
TypeOK ==
  /\ cli \in CliType /\ Len(cli.nav.stack) <= MaxDepth
  /\ config \in Configs
  /\ run \in RunType
  /\ now \in Times
  /\ age \in [idle : 0 .. AgeCap, lock : 0 .. AgeCap]

\* cli_auth_limit_reached: nobody is asked for a password with the attempts
\* already used up; both counters reach the limit only in a lockout or a
\* session that is over.
NoExtraAttempt ==
  cli.session = "RUN" /\ cli.auth # "LOCKOUT" =>
    cli.attempts < MaxAttempts /\ cli.enableAttempts < MaxAttempts

\* A session that began at a login prompt never shows the command prompt to
\* somebody who has not logged in, whichever way it got there: a lockout that
\* ends, a refused enable password, a callback that asks for a new login.
LoginRequired ==
  cli.session = "RUN" /\ cli.mustLogin => cli.auth # "NONE"

\* An authenticated session rests on an accepted login of the present identity,
\* and the username kept for the enable callback is the one that was accepted:
\* a login that was asked for again is not undone by the answer to an older one.
SameUser ==
  cli.session = "RUN" /\ cli.auth = "AUTHENTICATED" => cli.who = {cli.username}

\* Neither the current level nor any level 'exit' can return to has a privilege
\* that was not granted to the present identity: not one left by an earlier
\* identity, nor one a rejecting login callback had set.
NothingUngranted ==
  cli.session = "RUN" /\ cli.auth \in PromptStates /\ run.at # "authCb" =>
    /\ cli.nav.privilege <= cli.granted
    /\ \A i \in 1 .. Len(cli.nav.stack) : cli.nav.stack[i].privilege <= cli.granted

\* The history never holds a line somebody else typed.
HistoryIsOwn == "other" \notin cli.history

\* Input is only read while the session runs: what was typed behind a 'quit' or
\* an idle reset waits for the next banner and prompt, and nothing follows a stop.
InputOnlyWhileRunning == At("rx") => cli.session = "RUN"

\* A lockout ends by its time being served, by the application restarting the
\* session or asking for a new login, or with the session: not by input, not by
\* the idle policy, and not earlier because the clock wrapped or was replaced.
LockoutHeld ==
  [][cli.session = "RUN" /\ cli.auth = "LOCKOUT" /\ ~InApp =>
       \/ cli'.auth = "LOCKOUT" \/ cli'.session = "STOP"
       \/ age.lock >= config.lockSecs]_vars

\* The idle timeout never fires before idleTimeout seconds without activity have
\* passed: after the last key, the end of a lockout, or a callback that kept the
\* session, with the clock wrapping or replaced in between.  And it restarts no session
\* in which nobody has typed since it last started.
IdleNotEarly ==
  [][At("idle") =>
       /\ run'.at = "idleCb" \/ cli' # cli => age.idle >= config.idleTimeout
       /\ cli'.session = "SHOW_BANNER" /\ cli.session # "SHOW_BANNER" => cli.idleArmed]_vars

\* A tick reports the end of the session: one that returns an error has ended it,
\* and one that leaves it stopped returns an error, unless the peer has vanished.
EndIsReported ==
  [][At("end") /\ run'.at = "loop" =>
       /\ run'.result # "OK" => cli'.session = "STOP"
       /\ cli'.session = "STOP" /\ ~cli.txError => run'.result # "OK"]_vars

\* cli.h, cli_session_engine: CLI_OK means "session active, call again next tick".
OkMeansActive ==
  [][At("end") /\ run'.at = "loop" /\ run'.result = "OK" => cli'.session # "STOP"]_vars

\* A timed lockout ends, as long as the clock runs and the engine is called.
LockoutEnds ==
  cli.auth = "LOCKOUT" /\ cli.session = "RUN" ~>
    cli.auth # "LOCKOUT" \/ cli.session = "STOP"

\* A tick returns even when input never runs dry (CLI_MAX_RX_BYTES_PER_TICK).
TickReturns == run.at # "loop" ~> run.at = "loop"

\* A vanished peer ends the session.
WriteFailureEnds == cli.txError ~> cli.session = "STOP" \/ ~cli.txError

\* With the close policy a session nobody uses ends: again and again there is
\* activity, or the session is over.
IdleCloses ==
  config.idle = "close" /\ config.idleTimeout > 0 /\ cli.hasClock =>
    []<>(age.idle = 0 \/ cli.session = "STOP")

=============================================================================
