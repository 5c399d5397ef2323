----------------------------- MODULE CliSocket -----------------------------
(***************************************************************************)
(* The UNIX-socket endpoint: servers of one path in several processes, the *)
(* lock file, the socket file, stop signals and crashes, and the clients   *)
(* that relay a terminal, or piped commands, with a reader and a writer    *)
(* thread.                                                                 *)
(*                                                                         *)
(* Each step is a system call, as the processes interleave between them.   *)
(* A session is abstracted to answering lines; the engine is in CliSession.*)
(* A process of another user is one of Others.                             *)
(***************************************************************************)
EXTENDS Integers, Sequences, FiniteSets

CONSTANTS
  Servers,     \* processes that run run_server
  Clients,     \* processes that run run_client
  Others,      \* those of them that belong to another user
  Lines,       \* what the input of a client may hold: a number of lines
  Backlog,     \* clients that may wait to be accepted
  MaxStarts    \* bound: how often servers are started altogether

NONE == "none"

ASSUME SocketAssumption ==
  /\ NONE \notin Servers \cup Clients
  /\ Others \subseteq Servers \cup Clients /\ Servers \cap Clients = {}
  /\ Lines \subseteq Nat /\ Backlog \in Nat \ {0} /\ MaxStarts \in Nat

\* What the path may name besides the number of a socket.
NoFile == 0
Foreign == -1

VARIABLES
  sockLock,   \* the server that holds "<path>.lock"
  path,       \* what the path names: NoFile, a Foreign file, or the number of a socket
  starts,     \* servers started so far
  server,     \* each server process
  backlog,    \* clients of the listening socket, not yet accepted
  client      \* each client process

socketVars == <<sockLock, path, starts, server, backlog, client>>

\* number tells the runs of run_server apart; sock is the socket of listener.fd, 0 if it
\* is closed; woken says whether the self-pipe holds a byte.
Off == [pc |-> "off", number |-> 0, sock |-> 0, stop |-> FALSE, woken |-> FALSE, conn |-> NONE]

\* sent and replies are in flight; ended is why the server closed the connection.
Idle(n) == [pc |-> "idle", sock |-> 0, input |-> n, all |-> n, sent |-> 0, replies |-> 0,
         shown |-> 0, writer |-> "open", ended |-> NONE]

\* A line is written, run and answered, and the reply shown.
Written(r) == [r EXCEPT !.input = r.input - 1, !.sent = r.sent + 1]
Answered(r) == [r EXCEPT !.sent = r.sent - 1, !.replies = r.replies + 1]
Shown(r) == [r EXCEPT !.replies = r.replies - 1, !.shown = r.shown + 1]

SocketInit ==
  /\ sockLock = NONE /\ path \in {NoFile, Foreign} /\ starts = 0
  /\ server = [s \in Servers |-> Off]
  /\ backlog = <<>>
  /\ \E n \in Lines : client = [c \in Clients |-> Idle(n)]

Goto(s, pc) == server' = [server EXCEPT ![s].pc = pc]

At(s, pc) == server[s].pc = pc

(* Connections                                                             *)

SameUser(p, q) == (p \in Others) <=> (q \in Others)

Gone(c) == client[c].pc \in {"done", "failed", "killed"}

\* What a client sees when the other end closes: what was sent before, then the end.
Closed(c, why) == client' = [client EXCEPT ![c].ended = why]

\* The listening socket is closed: those that wait are disconnected.
Disconnected(C) ==
  client' = [c \in Clients |-> IF c \in C THEN [client[c] EXCEPT !.ended = "reset"] ELSE client[c]]

\* The servers that have called listen.
Listeners == {s \in Servers : server[s].sock # 0 /\ server[s].pc # "listen"}

Waiting == {backlog[i] : i \in 1 .. Len(backlog)}

-----------------------------------------------------------------------------
(* The server                                                              *)

\* stop_signals_install comes first.
Start(s) ==
  /\ At(s, "off") /\ starts < MaxStarts
  /\ starts' = starts + 1
  /\ server' = [server EXCEPT ![s] = [Off EXCEPT !.pc = "lock", !.number = starts']]
  /\ UNCHANGED <<sockLock, path, backlog, client>>

\* cli_unix_lock_path: EADDRINUSE while another server has the lock.
Lock(s) ==
  /\ At(s, "lock")
  /\ \/ sockLock = NONE /\ sockLock' = s /\ Goto(s, "stale")
     \/ sockLock # NONE /\ UNCHANGED sockLock /\ server' = [server EXCEPT ![s] = Off]
  /\ UNCHANGED <<path, starts, backlog, client>>

\* cli_unix_remove_stale: only a socket is removed.
RemoveStale(s) ==
  /\ At(s, "stale")
  /\ IF path = Foreign THEN UNCHANGED path /\ Goto(s, "release")
     ELSE path' = NoFile /\ Goto(s, "bind")
  /\ UNCHANGED <<sockLock, starts, backlog, client>>

Bind(s) ==
  /\ At(s, "bind")
  /\ \/ path = NoFile /\ path' = server[s].number
        /\ server' = [server EXCEPT ![s] = [@ EXCEPT !.pc = "listen", !.sock = server[s].number]]
     \/ UNCHANGED path /\ Goto(s, "release")
  /\ UNCHANGED <<sockLock, starts, backlog, client>>

\* chmod and listen; the failure closes the socket and removes what was bound.
Listen(s) ==
  /\ At(s, "listen")
  /\ \/ Goto(s, "check")
     \/ server' = [server EXCEPT ![s] = [@ EXCEPT !.pc = "unlink", !.sock = 0]]
  /\ UNCHANGED <<sockLock, path, starts, backlog, client>>

\* while (!s_stop)
CheckStop(s) ==
  /\ At(s, "check")
  /\ Goto(s, IF server[s].stop THEN "close" ELSE "wait")
  /\ UNCHANGED <<sockLock, path, starts, backlog, client>>

(* Mutant: only the listening socket is waited for.                        *)
ReadyOnInput(s, readable) == readable

\* wait_readable_or_stop without a timeout: poll of the descriptor and of the self-pipe.
Ready(s, readable) == readable \/ server[s].woken

WaitForClient(s) ==
  /\ At(s, "wait") /\ Ready(s, backlog # <<>>)
  /\ Goto(s, IF backlog # <<>> THEN "accept" ELSE "check")
  /\ UNCHANGED <<sockLock, path, starts, backlog, client>>

\* The signal may interrupt the poll itself (EINTR).
Interrupted(s) ==
  /\ At(s, "wait") /\ server[s].stop
  /\ Goto(s, "check")
  /\ UNCHANGED <<sockLock, path, starts, backlog, client>>

\* cli_unix_accept and cli_unix_peer_is_self; accept may fail.
Accept(s) ==
  /\ At(s, "accept")
  /\ \/ UNCHANGED <<backlog, client>> /\ Goto(s, "check")
     \/ /\ backlog # <<>> /\ backlog' = Tail(backlog)
        /\ IF SameUser(s, Head(backlog))
           THEN /\ server' = [server EXCEPT ![s] = [@ EXCEPT !.pc = "session", !.conn = Head(backlog)]]
                /\ UNCHANGED client
           ELSE Closed(Head(backlog), "refused") /\ Goto(s, "check")
  /\ UNCHANGED <<sockLock, path, starts>>

EndSession(s, why) ==
  /\ Closed(server[s].conn, why)
  /\ server' = [server EXCEPT ![s] = [@ EXCEPT !.pc = "check", !.conn = NONE]]
  /\ UNCHANGED <<sockLock, path, starts, backlog>>

Served(s) == client[server[s].conn]

EndOfInput(c) == c.sent = 0 /\ (c.writer = "shut" \/ c.pc \in {"done", "killed"})

\* A line is read and answered.  A write to a client that is gone ends the session.
Answer(s) ==
  /\ At(s, "session") /\ ~server[s].stop /\ Served(s).sent > 0
  /\ IF Gone(server[s].conn) THEN EndSession(s, "broken")
     ELSE /\ client' = [client EXCEPT ![server[s].conn] = Answered(Served(s))]
          /\ UNCHANGED <<sockLock, path, starts, server, backlog>>

EndOfSession(s) ==
  /\ At(s, "session") /\ ~server[s].stop /\ EndOfInput(Served(s))
  /\ EndSession(s, "eof")

\* cli_server_loop: the wait of the session ends with the self-pipe, too.
StopSession(s) ==
  /\ At(s, "session") /\ server[s].stop
  /\ EndSession(s, "stop")

\* 'exit', the idle timeout (CLI_IDLE_TIMEOUT_POLICY_CLOSE) or an error.
OtherEnd(s) ==
  /\ At(s, "session") /\ ~server[s].stop
  /\ EndSession(s, "other")

\* cli_unix_listener_close, and the failures of cli_unix_listen.
CloseListener(s) ==
  /\ At(s, "close")
  /\ server' = [server EXCEPT ![s] = [@ EXCEPT !.pc = "unlink", !.sock = 0]]
  /\ Disconnected(Waiting) /\ backlog' = <<>>
  /\ UNCHANGED <<sockLock, path, starts>>

(* Mutant: the lock is released before the name is removed.                *)
UnlinkUnlocked(s) ==
  /\ At(s, "unlink")
  /\ IF sockLock = s THEN sockLock' = NONE /\ UNCHANGED <<path, server>>
     ELSE path' = NoFile /\ server' = [server EXCEPT ![s] = Off] /\ UNCHANGED sockLock
  /\ UNCHANGED <<starts, backlog, client>>

\* While the lock is held.
Unlink(s) ==
  /\ At(s, "unlink")
  /\ path' = NoFile
  /\ Goto(s, "release")
  /\ UNCHANGED <<sockLock, starts, backlog, client>>

Release(s) ==
  /\ At(s, "release")
  /\ sockLock' = NONE
  /\ server' = [server EXCEPT ![s] = Off]
  /\ UNCHANGED <<path, starts, backlog, client>>

\* on_stop_signal, between any two steps.
StopSignal(s) ==
  /\ ~At(s, "off") /\ ~server[s].stop
  /\ server' = [server EXCEPT ![s] = [@ EXCEPT !.stop = TRUE, !.woken = TRUE]]
  /\ UNCHANGED <<sockLock, path, starts, backlog, client>>

\* The kernel closes everything the process had; the name stays.
Crash(s) ==
  /\ ~At(s, "off")
  /\ server' = [server EXCEPT ![s] = Off]
  /\ sockLock' = IF sockLock = s THEN NONE ELSE sockLock
  /\ IF s \in Listeners
     THEN Disconnected({server[s].conn} \cup Waiting) /\ backlog' = <<>>
     ELSE Disconnected({server[s].conn}) /\ UNCHANGED backlog
  /\ UNCHANGED <<path, starts>>

ServerStep(s) ==
  \/ Lock(s) \/ RemoveStale(s) \/ Bind(s) \/ Listen(s) \/ CheckStop(s) \/ WaitForClient(s)
  \/ Accept(s) \/ Answer(s) \/ EndOfSession(s) \/ StopSession(s)
  \/ CloseListener(s) \/ Unlink(s) \/ Release(s)

-----------------------------------------------------------------------------
(* The client                                                              *)

\* cli_unix_connect; cli_unix_peer_is_self turns another user's server down.  connect
\* waits while the backlog is full.
Connect(c) ==
  /\ client[c].pc = "idle"
  /\ \/ /\ ~\E s \in Listeners : server[s].sock = path
        /\ client' = [client EXCEPT ![c].pc = "failed"]
        /\ UNCHANGED backlog
     \/ \E s \in Listeners :
          /\ server[s].sock = path /\ Len(backlog) < Backlog
          /\ backlog' = Append(backlog, c)
          /\ client' = [client EXCEPT ![c] =
                          [@ EXCEPT !.pc = IF SameUser(s, c) THEN "relay" ELSE "failed", !.sock = path]]
  /\ UNCHANGED <<sockLock, path, starts, server>>

Writes(c) == client[c].pc = "relay" /\ client[c].writer = "open"

\* relay_writer_fn: a write to a closed connection ends the thread.
WriteLine(c) ==
  /\ Writes(c) /\ client[c].input > 0
  /\ \/ /\ client[c].ended = NONE
        /\ client' = [client EXCEPT ![c] = Written(client[c])]
     \/ /\ client[c].ended # NONE
        /\ client' = [client EXCEPT ![c].writer = "failed"]
  /\ UNCHANGED <<sockLock, path, starts, server, backlog>>

(* Mutant: the client closes the connection at the end of its input.       *)
WriteEndCloses(c) ==
  /\ Writes(c) /\ client[c].input = 0
  /\ client' = [client EXCEPT ![c] = [@ EXCEPT !.writer = "shut", !.pc = "done"]]
  /\ UNCHANGED <<sockLock, path, starts, server, backlog>>

\* shutdown(SHUT_WR): the reader goes on.
WriteEnd(c) ==
  /\ Writes(c) /\ client[c].input = 0
  /\ client' = [client EXCEPT ![c].writer = "shut"]
  /\ UNCHANGED <<sockLock, path, starts, server, backlog>>

\* relay_reader_fn; at the end the writer is cancelled and the connection closed.
Read(c) ==
  /\ client[c].pc = "relay"
  /\ \/ /\ client[c].replies > 0
        /\ client' = [client EXCEPT ![c] = Shown(client[c])]
     \/ /\ client[c].replies = 0 /\ client[c].ended # NONE
        /\ client' = [client EXCEPT ![c].pc = "done"]
  /\ UNCHANGED <<sockLock, path, starts, server, backlog>>

Kill(c) ==
  /\ client[c].pc = "relay"
  /\ client' = [client EXCEPT ![c].pc = "killed"]
  /\ UNCHANGED <<sockLock, path, starts, server, backlog>>

ClientStep(c) == Connect(c) \/ WriteLine(c) \/ WriteEnd(c) \/ Read(c)

SocketNext ==
  \/ \E s \in Servers : \/ ServerStep(s) \/ Start(s) \/ Interrupted(s) \/ OtherEnd(s)
                        \/ StopSignal(s) \/ Crash(s)
  \/ \E c \in Clients : ClientStep(c) \/ Kill(c)

\* A process that can take a step takes it; nothing makes a signal, a crash, a failure or
\* the end of a session come.
SocketFairness == \A s \in Servers : WF_socketVars(ServerStep(s))

SocketSpec == SocketInit /\ [][SocketNext]_socketVars /\ SocketFairness

-----------------------------------------------------------------------------
(* Correctness                                                             *)

Serving == {"check", "wait", "accept", "session"}

\* From the first look at the stop flag to the close of the listener, the path names the
\* server's own socket, so clients reach it, however other servers start, fail, stop or
\* crash meanwhile; and it is the only one.
SocketIsReachable ==
  \A s \in Servers : At(s, "close") \/ server[s].pc \in Serving =>
    sockLock = s /\ path = server[s].sock

\* A stop signal ends the server whenever it comes: also between the look at the flag
\* and the wait for a client.
StopIsHeeded == \A s \in Servers : server[s].stop ~> At(s, "off")

\* Commands piped into a client are all run, and all replies are shown, if the session
\* ended because the input did.
RepliesAreShown ==
  \A c \in Clients : client[c].pc = "done" /\ client[c].ended \in {"eof", NONE} =>
    client[c].shown = client[c].all

=============================================================================
