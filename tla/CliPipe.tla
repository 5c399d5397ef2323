------------------------------ MODULE CliPipe ------------------------------
(***************************************************************************)
(* The named-pipe endpoint on POSIX: how a server and a client meet over   *)
(* the FIFOs <name>.in and <name>.out, which the server makes anew for     *)
(* every session and takes away once a client has opened them.             *)
(*                                                                         *)
(* Each step is a system call.  FIFOs are numbered by the listen that made *)
(* them, so an end that was opened earlier keeps denoting the old FIFO.  A *)
(* session is abstracted to whether its output is in the FIFO.             *)
(***************************************************************************)
EXTENDS Integers, FiniteSets

CONSTANTS
  PipeServers,   \* processes that run run_named_server
  PipeClients,   \* processes that run run_named_client
  MaxListens     \* bound: FIFO pairs made altogether

ASSUME PipeAssumption == MaxListens \in Nat

Ways == {"in", "out"}

VARIABLES
  pipeLock,   \* the server that holds "<name>.lock", as a set
  fifo,       \* what <name>.in and <name>.out name: a FIFO, none, or another file
  listens,    \* FIFO pairs numbered so far
  left,       \* FIFOs whose server was killed: the next listen replaces them
  output,     \* the FIFOs <name>.out that hold output
  pserver,    \* each server process
  pclient     \* each client process

pipeVars == <<pipeLock, fifo, listens, left, output, pserver, pclient>>

None == 0
Regular == -1

\* made: the FIFOs this listen created (in_created, out_created); read and write: the
\* open ends; met: the ways a client has opened since; robbed: another server's stop
\* signal has removed one of its names.
NoServer == [pc |-> "off", listen |-> None, made |-> {}, read |-> None, write |-> None,
             met |-> {}, robbed |-> FALSE]

NoClient == [pc |-> "idle", read |-> None, write |-> None]

PipeInit ==
  /\ pipeLock = {} /\ listens = 0 /\ left = {} /\ output = {}
  /\ \E f \in {None, Regular} : fifo = [w \in Ways |-> IF w = "in" THEN f ELSE None]
  /\ pserver = [s \in PipeServers |-> NoServer]
  /\ pclient = [c \in PipeClients |-> NoClient]

PAt(s, pc) == pserver[s].pc = pc

PGoto(s, pc) == pserver' = [pserver EXCEPT ![s].pc = pc]

Readers(w, f) ==
  IF w = "in" THEN {s \in PipeServers : pserver[s].read = f}
  ELSE {c \in PipeClients : pclient[c].read = f}

Writers(w, f) ==
  IF w = "in" THEN {c \in PipeClients : pclient[c].write = f}
  ELSE {s \in PipeServers : pserver[s].write = f}

-----------------------------------------------------------------------------
(* The server: cli_named_pipe_listen and the loop around it                *)

StartServer(s) ==
  /\ PAt(s, "off") /\ listens < MaxListens
  /\ PGoto(s, "reserve")
  /\ UNCHANGED <<pipeLock, fifo, listens, left, output, pclient>>

\* fifo_reserve_name.
Reserve(s) ==
  /\ PAt(s, "reserve")
  /\ \/ pipeLock = {} /\ pipeLock' = {s} /\ PGoto(s, "listen")
     \/ pipeLock # {} /\ UNCHANGED pipeLock /\ PGoto(s, "clean in")
  /\ UNCHANGED <<fifo, listens, left, output, pclient>>

\* The lock is kept from session to session.
BeginListen(s) ==
  /\ PAt(s, "listen") /\ listens < MaxListens
  /\ listens' = listens + 1
  /\ pserver' = [pserver EXCEPT ![s] = [NoServer EXCEPT !.pc = "create in", !.listen = listens']]
  /\ UNCHANGED <<pipeLock, fifo, left, output, pclient>>

\* fifo_create: a FIFO left behind is replaced, anything else is kept.
Create(s, w, now, next) ==
  /\ PAt(s, now)
  /\ \/ /\ fifo[w] # Regular
        /\ fifo' = [fifo EXCEPT ![w] = pserver[s].listen]
        /\ pserver' = [pserver EXCEPT ![s] = [pserver[s] EXCEPT !.pc = next, !.made = @ \cup {w}]]
     \/ fifo[w] # Regular /\ fifo' = [fifo EXCEPT ![w] = None] /\ PGoto(s, "clean in")
     \/ UNCHANGED fifo /\ PGoto(s, "clean in")
  /\ UNCHANGED <<pipeLock, listens, left, output, pclient>>

CreateIn(s) == Create(s, "in", "create in", "create out")
CreateOut(s) == Create(s, "out", "create out", "open in")

\* Without waiting for a writer.
OpenIn(s) ==
  /\ PAt(s, "open in")
  /\ \/ /\ fifo["in"] # None
        /\ pserver' = [pserver EXCEPT ![s] = [@ EXCEPT !.pc = "open out", !.read = fifo["in"]]]
     \/ PGoto(s, "clean in")
  /\ UNCHANGED <<pipeLock, fifo, listens, left, output, pclient>>

\* open finds the FIFO, and then blocks until a client opens that same FIFO.
OpenOut(s) ==
  /\ PAt(s, "open out")
  /\ \/ /\ fifo["out"] # None
        /\ pserver' = [pserver EXCEPT ![s] = [@ EXCEPT !.pc = "blocked", !.write = fifo["out"]]]
     \/ PGoto(s, "clean in")
  /\ UNCHANGED <<pipeLock, fifo, listens, left, output, pclient>>

ClientIsThere(s) ==
  /\ PAt(s, "blocked") /\ ("out" \in pserver[s].met \/ Readers("out", pserver[s].write) # {})
  /\ \/ PGoto(s, "unlink in")
     \/ PGoto(s, "clean in")      \* fcntl failed
  /\ UNCHANGED <<pipeLock, fifo, listens, left, output, pclient>>

TakeName(s, w, now, next) ==
  /\ PAt(s, now)
  /\ fifo' = [fifo EXCEPT ![w] = None]
  /\ PGoto(s, next)
  /\ UNCHANGED <<pipeLock, listens, left, output, pclient>>

TakeNames(s) == TakeName(s, "in", "unlink in", "unlink out") \/ TakeName(s, "out", "unlink out", "session")

(* Mutant: the cleanup removes both names, whoever made them.              *)
CleanWhatever(s, w, now, next) ==
  /\ PAt(s, now)
  /\ fifo' = [fifo EXCEPT ![w] = None]
  /\ pserver' = [pserver EXCEPT ![s] = [@ EXCEPT !.pc = next, !.read = None, !.write = None]]
  /\ UNCHANGED <<pipeLock, listens, left, output, pclient>>

\* A failed listen closes its ends and removes what it made.
Clean(s, w, now, next) ==
  /\ PAt(s, now)
  /\ fifo' = IF w \in pserver[s].made THEN [fifo EXCEPT ![w] = None] ELSE fifo
  /\ pserver' = [pserver EXCEPT ![s] = [@ EXCEPT !.pc = next, !.read = None, !.write = None]]
  /\ UNCHANGED <<pipeLock, listens, left, output, pclient>>

\* The loop ends and cli_pipe_close releases the name.
Fail(s) ==
  \/ Clean(s, "in", "clean in", "clean out") \/ Clean(s, "out", "clean out", "close")
  \/ /\ PAt(s, "close")
     /\ pipeLock' = pipeLock \ {s}
     /\ pserver' = [pserver EXCEPT ![s] = NoServer]
     /\ UNCHANGED <<fifo, listens, left, output, pclient>>

\* The banner, a prompt or an answer; a write that nobody can read ends the session.
Output(s) ==
  /\ PAt(s, "session")
  /\ IF Readers("out", pserver[s].write) # {}
     THEN output' = output \cup {pserver[s].write} /\ UNCHANGED pserver
     ELSE UNCHANGED output /\ PGoto(s, "disconnect")
  /\ UNCHANGED <<pipeLock, fifo, listens, left, pclient>>

CanType(s) == Writers("in", pserver[s].read) # {}

\* End of file is seen only after a client has had the FIFO open.
ReadEnd(s) ==
  /\ PAt(s, "session") /\ ~CanType(s) /\ "in" \in pserver[s].met
  /\ PGoto(s, "disconnect")
  /\ UNCHANGED <<pipeLock, fifo, listens, left, output, pclient>>

(* Mutant: the idle timeout only logs the user out.                        *)
IdleLogsOut(s) == PAt(s, "session") /\ UNCHANGED pipeVars

\* CLI_IDLE_TIMEOUT_POLICY_CLOSE.
IdleTimeout(s) ==
  /\ PAt(s, "session")
  /\ PGoto(s, "disconnect")
  /\ UNCHANGED <<pipeLock, fifo, listens, left, output, pclient>>

\* cli_named_pipe_disconnect.
Disconnect(s) ==
  /\ PAt(s, "disconnect")
  /\ pserver' = [pserver EXCEPT ![s] = [NoServer EXCEPT !.pc = "listen"]]
  /\ UNCHANGED <<pipeLock, fifo, listens, left, output, pclient>>

ServerStepsOf(s) ==
  \/ Reserve(s) \/ BeginListen(s) \/ CreateIn(s) \/ CreateOut(s) \/ OpenIn(s) \/ OpenOut(s)
  \/ ClientIsThere(s) \/ TakeNames(s) \/ Fail(s) \/ ReadEnd(s) \/ Disconnect(s)

\* on_stop_signal removes both names, whosever they are, and the process ends.
StopSignalled(s) ==
  /\ pserver[s].pc \notin {"off", "stop in", "stop out"}
  /\ PGoto(s, "stop in")
  /\ UNCHANGED <<pipeLock, fifo, listens, left, output, pclient>>

Dead(s) == [pserver EXCEPT ![s] = NoServer]

Robbed(s, w, after) ==
  [t \in PipeServers |->
    [after[t] EXCEPT !.robbed = @ \/ (t # s /\ w \in pserver[t].made /\ fifo[w] = pserver[t].listen)]]

RemoveIn(s) ==
  /\ PAt(s, "stop in")
  /\ fifo' = [fifo EXCEPT !["in"] = None]
  /\ pserver' = Robbed(s, "in", [pserver EXCEPT ![s].pc = "stop out"])
  /\ UNCHANGED <<pipeLock, listens, left, output, pclient>>

RemoveOut(s) ==
  /\ PAt(s, "stop out")
  /\ fifo' = [fifo EXCEPT !["out"] = None]
  /\ pserver' = Robbed(s, "out", Dead(s))
  /\ pipeLock' = pipeLock \ {s}
  /\ UNCHANGED <<listens, left, output, pclient>>

\* Killed: its names stay.
KillServer(s) ==
  /\ ~PAt(s, "off")
  /\ left' = (left \cup {pserver[s].listen}) \cap {fifo["in"], fifo["out"]}
  /\ pipeLock' = pipeLock \ {s}
  /\ pserver' = Dead(s)
  /\ UNCHANGED <<fifo, listens, output, pclient>>

-----------------------------------------------------------------------------
(* The client: cli_named_pipe_connect and the relay                        *)

SetClient(c, r) == pclient' = [pclient EXCEPT ![c] = r]

GiveUp(c) == SetClient(c, [NoClient EXCEPT !.pc = "done"])

\* The servers that have the other end see that somebody opened it.
Meet(w, f) ==
  pserver' = [s \in PipeServers |->
               IF f = (IF w = "in" THEN pserver[s].read ELSE pserver[s].write)
               THEN [pserver[s] EXCEPT !.met = @ \cup {w}] ELSE pserver[s]]

\* Retried, without an effect, while there is no FIFO or nobody reads it.
OpenToWrite(c) ==
  /\ pclient[c].pc = "idle"
  /\ \/ /\ fifo["in"] = Regular \/ (fifo["in"] # None /\ Readers("in", fifo["in"]) # {})
        /\ SetClient(c, [pclient[c] EXCEPT !.pc = "half", !.write = fifo["in"]])
        /\ Meet("in", fifo["in"])
     \/ GiveUp(c) /\ UNCHANGED pserver      \* the deadline
  /\ UNCHANGED <<pipeLock, fifo, listens, left, output>>

\* Tried once; then fifo_is_private.
OpenToRead(c) ==
  /\ pclient[c].pc = "half"
  /\ IF fifo["out"] = None THEN GiveUp(c) /\ UNCHANGED pserver
     ELSE /\ Meet("out", fifo["out"])
          /\ IF pclient[c].write = Regular \/ fifo["out"] = Regular THEN GiveUp(c)
             ELSE SetClient(c, [pclient[c] EXCEPT !.pc = "wait", !.read = fifo["out"]])
  /\ UNCHANGED <<pipeLock, fifo, listens, left, output>>

\* fifo_wait_connected: output comes first; else the server is gone, or time is up.
WaitConnected(c) ==
  /\ pclient[c].pc = "wait"
  /\ \/ pclient[c].read \in output /\ SetClient(c, [pclient[c] EXCEPT !.pc = "relay"])
     \/ pclient[c].read \notin output /\ GiveUp(c)
  /\ UNCHANGED <<pipeLock, fifo, listens, left, output, pserver>>

\* relay_reader_fn.
RelayOutput(c) ==
  /\ pclient[c].pc = "relay"
  /\ \/ /\ pclient[c].read \in output
        /\ output' = output \ {pclient[c].read}
        /\ UNCHANGED pclient
     \/ /\ pclient[c].read \notin output /\ Writers("out", pclient[c].read) = {}
        /\ SetClient(c, [NoClient EXCEPT !.pc = "done"])
        /\ UNCHANGED output
  /\ UNCHANGED <<pipeLock, fifo, listens, left, pserver>>

\* relay_writer_fn at the end of its input.
CloseWrite(c) ==
  /\ pclient[c].pc = "relay" /\ pclient[c].write # None
  /\ SetClient(c, [pclient[c] EXCEPT !.write = None])
  /\ UNCHANGED <<pipeLock, fifo, listens, left, output, pserver>>

KillClient(c) ==
  /\ pclient[c].pc \in {"half", "wait", "relay"}
  /\ SetClient(c, [NoClient EXCEPT !.pc = "done"])
  /\ UNCHANGED <<pipeLock, fifo, listens, left, output, pserver>>

PipeNext ==
  \/ \E s \in PipeServers : \/ ServerStepsOf(s) \/ StartServer(s) \/ Output(s) \/ IdleTimeout(s)
                            \/ StopSignalled(s) \/ RemoveIn(s) \/ RemoveOut(s)
                            \/ KillServer(s)
  \/ \E c \in PipeClients : \/ OpenToWrite(c) \/ OpenToRead(c) \/ WaitConnected(c)
                            \/ RelayOutput(c) \/ CloseWrite(c) \/ KillClient(c)

\* A server takes the steps it can take, and the idle timer of a session runs out when
\* nobody can type.  Nothing is assumed of clients, signals and crashes.
PipeFairness ==
  \A s \in PipeServers : /\ WF_pipeVars(ServerStepsOf(s))
                         /\ WF_pipeVars(IdleTimeout(s) /\ ~CanType(s))

PipeSpec == PipeInit /\ [][PipeNext]_pipeVars /\ PipeFairness

-----------------------------------------------------------------------------
(* Correctness                                                             *)

\* A server that waits for its client waits behind the two names: whatever other servers
\* try, fail or leave behind meanwhile, a client that opens the names meets this server.
\* (A stop signal to another server removes them: on_stop_signal does not look whose
\* they are.)  And a name lasts no longer than the listen that made it: no session,
\* failed listen or stopped server leaves one behind, only a killed server does.
NamesAreTheListeners ==
  /\ \A s \in PipeServers :
       PAt(s, "blocked") /\ ~pserver[s].robbed =>
         /\ pipeLock = {s}
         /\ fifo["in"] = pserver[s].read /\ pserver[s].read = pserver[s].listen
         /\ fifo["out"] = pserver[s].write /\ pserver[s].write = pserver[s].listen
  /\ \A w \in Ways : fifo[w] \in {None, Regular} \cup left \/
       \E s \in PipeServers : /\ w \in pserver[s].made /\ pserver[s].listen = fifo[w]
                              /\ pserver[s].pc \notin {"off", "session", "disconnect", "listen"}

\* A session that nobody can type into any more ends, so the next client can get in:
\* also that of a client which opened <name>.in of one session and <name>.out of the next.
ServerIsFreed ==
  \A s \in PipeServers : PAt(s, "session") /\ ~CanType(s) ~> ~PAt(s, "session")

\* cli_transport_pipe.c: "A later client cannot join this session": no two clients relay
\* to the same session.
OneClientPerSession ==
  \A s \in PipeServers :
    PAt(s, "session") =>
      Cardinality({c \in PipeClients : /\ pclient[c].pc = "relay"
                                       /\ c \in Writers("in", pserver[s].read)
                                       /\ c \in Readers("out", pserver[s].write)}) <= 1

=============================================================================
