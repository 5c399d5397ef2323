--------------------------- MODULE MCCliSession ---------------------------
(***************************************************************************)
(* Instances of CliSession for TLC.                                        *)
(***************************************************************************)
EXTENDS CliSession

\* Two accounts of the local table: an operator with an intermediate level and
\* an administrator.
MCUserPriv == [u \in Users |-> IF u = "admin" THEN 10 ELSE 5]

Plain == [requireAuth |-> TRUE, secret |-> TRUE, callbacks |-> FALSE,
          lockout |-> TRUE, lockSecs |-> 0, idle |-> "ignore", idleTimeout |-> 0,
          exitPolicy |-> "close", quitPolicy |-> "reset"]

\* Login with the table, lockout or close, and sessions without a login.
LoginConfigs ==
  {Plain,
   [Plain EXCEPT !.lockout = FALSE, !.exitPolicy = "reset", !.quitPolicy = "close"],
   [Plain EXCEPT !.requireAuth = FALSE, !.exitPolicy = "ignore"],
   [Plain EXCEPT !.requireAuth = FALSE, !.secret = FALSE, !.quitPolicy = "ignore"]}

\* Login, enable and periodic callbacks.
CallbackConfigs ==
  {[Plain EXCEPT !.callbacks = TRUE],
   [Plain EXCEPT !.callbacks = TRUE, !.requireAuth = FALSE, !.exitPolicy = "reset"]}

\* Timed lockouts and idle periods of every policy.
TimedConfigs ==
  {[Plain EXCEPT !.lockSecs = 2, !.idle = i, !.idleTimeout = 2, !.secret = FALSE] :
     i \in {"reset", "close", "callback"}}
  \cup {[Plain EXCEPT !.secret = FALSE]}

\* Every way to log in by the table, timed and untimed.
TableConfigs == LoginConfigs \cup TimedConfigs

\* No login; 'quit' closes the session.
HandlerConfigs == {[Plain EXCEPT !.requireAuth = FALSE, !.quitPolicy = "close"]}

\* The configurations whose liveness is checked.
LiveConfigs ==
  {[Plain EXCEPT !.lockSecs = 2, !.idle = i, !.idleTimeout = 3, !.secret = FALSE] :
     i \in {"reset", "close"}}
=============================================================================
