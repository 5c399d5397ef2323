----------------------- MODULE CliTransports_proofs -----------------------
(***************************************************************************)
(* Proofs about the transports of the examples.                            *)
(*                                                                         *)
(* The two local endpoints, for any number of servers and clients of one   *)
(* path or name.  The UNIX socket: the path names the server that serves,  *)
(* and piped commands get all their replies.  The named pipes: the lock    *)
(* excludes, the names a waiting server is behind are its own, and only a  *)
(* killed server leaves a name behind.                                     *)
(*                                                                         *)
(* Telnet, for any receive buffer, any limit of a block and any number of  *)
(* things said: text survives both ways, and both ends agree on every      *)
(* option once nothing is in flight.                                       *)
(***************************************************************************)
EXTENDS CliSocket, CliPipe, CliWire, SequenceTheorems, WellFoundedInduction, TLAPS

-----------------------------------------------------------------------------
(* The UNIX socket                                                         *)

Places == {"off", "lock", "stale", "bind", "listen", "unlink", "release", "close"} \cup Serving

ServerRecord ==
  [pc : Places, number : Nat, sock : Nat, stop : BOOLEAN, woken : BOOLEAN,
   conn : Clients \cup {NONE}]

ClientRecord ==
  [pc : {"idle", "relay", "done", "failed", "killed"}, sock : Int, input : Nat, all : Nat,
   sent : Nat, replies : Nat, shown : Nat, writer : {"open", "shut", "failed"},
   ended : {NONE, "eof", "stop", "other", "broken", "refused", "reset"}]

SocketType ==
  /\ starts \in Nat
  /\ server \in [Servers -> ServerRecord]
  /\ client \in [Clients -> ClientRecord]
  /\ backlog \in Seq(Clients)

-----------------------------------------------------------------------------
(* The lock and the path                                                   *)

HasLock(s) == server[s].pc \notin {"off", "lock"}

IsBound(s) == server[s].pc \in {"listen", "close"} \cup Serving

\* From the lock to its release a server is the only one that touches the path.
LockInv ==
  /\ \A s \in Servers : HasLock(s) => sockLock = s
  /\ \A s \in Servers : IsBound(s) => path = server[s].sock

LEMMA LockImplies == LockInv => SocketIsReachable
  BY DEF LockInv, SocketIsReachable, HasLock, IsBound, At, Serving

LEMMA IdleTyped ==
  ASSUME NEW n \in Nat PROVE Idle(n) \in ClientRecord
  BY DEF Idle, ClientRecord

LEMMA TypeInit == SocketInit => SocketType
<1> SUFFICES ASSUME SocketInit PROVE SocketType
  OBVIOUS
<1>1. starts \in Nat /\ backlog \in Seq(Clients)
  BY DEF SocketInit
<1>2. server \in [Servers -> ServerRecord]
  BY DEF SocketInit, Off, ServerRecord, Places
<1>3. client \in [Clients -> ClientRecord]
  <2> PICK n \in Lines : client = [c \in Clients |-> Idle(n)]
    BY DEF SocketInit
  <2> n \in Nat
    BY SocketAssumption
  <2>1. Idle(n) \in ClientRecord
    BY IdleTyped
  <2> QED
    BY <2>1
<1> QED
  BY <1>1, <1>2, <1>3 DEF SocketType

LEMMA LockInit == SocketInit => LockInv
  BY DEF SocketInit, LockInv, HasLock, IsBound, Off, Serving
-----------------------------------------------------------------------------
(* Clients                                                                 *)

\* Who waits, or is served, is connected, and no client is in two places.
Open(c) == client[c].pc # "idle" /\ client[c].ended = NONE

QueueInv ==
  /\ \A i, j \in 1 .. Len(backlog) : backlog[i] = backlog[j] => i = j
  /\ \A c \in Clients : client[c].pc = "idle" => client[c].ended = NONE
  /\ \A c \in Waiting : Open(c)
  /\ \A s \in Servers : server[s].conn # NONE => At(s, "session")
  /\ \A s \in Servers : At(s, "session") =>
       server[s].conn \in Clients \ Waiting /\ Open(server[s].conn)

\* No line and no reply is lost before the server closes the connection, nor after it if
\* the end of the input made it do so.
Counted(r) ==
  /\ r.ended = NONE => r.input + r.sent + r.replies + r.shown = r.all
  /\ r.ended = "eof" => r.pc = "killed" \/ (r.input = 0 /\ r.sent = 0 /\ r.replies + r.shown = r.all)
  /\ r.writer = "shut" => r.input = 0
  /\ r.pc = "done" => r.ended # NONE /\ r.replies = 0

CountInv == \A c \in Clients : Counted(client[c])

-----------------------------------------------------------------------------
(* Types                                                                   *)

LEMMA ServerPcTyped ==
  ASSUME NEW r \in ServerRecord, NEW p \in Places
  PROVE  [r EXCEPT !.pc = p] \in ServerRecord
  BY DEF ServerRecord

LEMMA GotoTyped ==
  ASSUME SocketType, NEW s \in Servers, NEW p \in Places, Goto(s, p)
  PROVE  server' \in [Servers -> ServerRecord]
  BY ServerPcTyped DEF Goto, SocketType

LEMMA OffTyped == Off \in ServerRecord
  BY DEF Off, ServerRecord, Places

LEMMA EndSessionTyped ==
  ASSUME SocketType, NEW s \in Servers,
         server' = [server EXCEPT ![s] = [@ EXCEPT !.pc = "check", !.conn = NONE]]
  PROVE  server' \in [Servers -> ServerRecord]
<1>1. [server[s] EXCEPT !.pc = "check", !.conn = NONE] \in ServerRecord
  BY DEF SocketType, ServerRecord, Places, Serving
<1> QED
  BY <1>1 DEF SocketType

LEMMA ServerStepTyped ==
  ASSUME SocketType, SocketNext PROVE server' \in [Servers -> ServerRecord]
<1> USE DEF SocketType
<1>1. ASSUME NEW s \in Servers, Start(s) PROVE server' \in [Servers -> ServerRecord]
  <2>1. starts' \in Nat /\ server' = [server EXCEPT ![s] = [Off EXCEPT !.pc = "lock", !.number = starts']]
    BY <1>1 DEF Start
  <2>2. [Off EXCEPT !.pc = "lock", !.number = starts'] \in ServerRecord
    BY <2>1 DEF Off, ServerRecord, Places
  <2> QED
    BY <2>1, <2>2
<1>2. ASSUME NEW s \in Servers, Lock(s) \/ Release(s) \/ Crash(s)
      PROVE  server' \in [Servers -> ServerRecord]
  <2>1. CASE Goto(s, "stale")
    BY <2>1, GotoTyped DEF Places
  <2>2. CASE server' = [server EXCEPT ![s] = Off]
    BY <2>2, OffTyped
  <2> QED
    BY <1>2, <2>1, <2>2 DEF Lock, Release, Crash
<1>3. ASSUME NEW s \in Servers, RemoveStale(s) \/ Unlink(s)
      PROVE  server' \in [Servers -> ServerRecord]
  BY <1>3, GotoTyped DEF RemoveStale, Unlink, Places
<1>4. ASSUME NEW s \in Servers, Bind(s) PROVE server' \in [Servers -> ServerRecord]
  <2>1. CASE Goto(s, "release")
    BY <2>1, GotoTyped DEF Places
  <2>2. [server[s] EXCEPT !.pc = "listen", !.sock = server[s].number] \in ServerRecord
    BY DEF ServerRecord, Places
  <2>3. CASE server' = [server EXCEPT ![s] = [@ EXCEPT !.pc = "listen", !.sock = server[s].number]]
    BY <2>2, <2>3
  <2> QED
    BY <1>4, <2>1, <2>3 DEF Bind
<1>5. ASSUME NEW s \in Servers, Listen(s) \/ CloseListener(s)
      PROVE  server' \in [Servers -> ServerRecord]
  <2>1. CASE Goto(s, "check")
    BY <2>1, GotoTyped DEF Places, Serving
  <2>2. [server[s] EXCEPT !.pc = "unlink", !.sock = 0] \in ServerRecord
    BY DEF ServerRecord, Places
  <2>3. CASE server' = [server EXCEPT ![s] = [@ EXCEPT !.pc = "unlink", !.sock = 0]]
    BY <2>2, <2>3
  <2> QED
    BY <1>5, <2>1, <2>3 DEF Listen, CloseListener
<1>6. ASSUME NEW s \in Servers, CheckStop(s) \/ WaitForClient(s) \/ Interrupted(s)
      PROVE  server' \in [Servers -> ServerRecord]
  BY <1>6, GotoTyped DEF CheckStop, WaitForClient, Interrupted, Places, Serving
<1>7. ASSUME NEW s \in Servers, Accept(s) PROVE server' \in [Servers -> ServerRecord]
  <2>1. CASE Goto(s, "check")
    BY <2>1, GotoTyped DEF Places, Serving
  <2>2. CASE backlog # <<>> /\ server' = [server EXCEPT ![s] = [@ EXCEPT !.pc = "session", !.conn = Head(backlog)]]
    <3>1. Head(backlog) \in Clients
      BY <2>2
    <3>2. [server[s] EXCEPT !.pc = "session", !.conn = Head(backlog)] \in ServerRecord
      BY <3>1 DEF ServerRecord, Places, Serving
    <3> QED
      BY <2>2, <3>2
  <2> QED
    BY <1>7, <2>1, <2>2 DEF Accept
<1>8. ASSUME NEW s \in Servers, Answer(s) \/ EndOfSession(s) \/ StopSession(s) \/ OtherEnd(s)
      PROVE  server' \in [Servers -> ServerRecord]
  BY <1>8, EndSessionTyped DEF Answer, EndOfSession, StopSession, OtherEnd, EndSession
<1>9. ASSUME NEW s \in Servers, StopSignal(s) PROVE server' \in [Servers -> ServerRecord]
  <2>1. [server[s] EXCEPT !.stop = TRUE, !.woken = TRUE] \in ServerRecord
    BY DEF ServerRecord
  <2> QED
    BY <1>9, <2>1 DEF StopSignal
<1>10. ASSUME NEW c \in Clients, ClientStep(c) \/ Kill(c)
       PROVE  server' \in [Servers -> ServerRecord]
  BY <1>10 DEF ClientStep, Connect, WriteLine, WriteEnd, Read, Kill
<1> QED
  BY <1>1, <1>2, <1>3, <1>4, <1>5, <1>6, <1>7, <1>8, <1>9, <1>10 DEF SocketNext, ServerStep

LEMMA ClientPcTyped ==
  ASSUME NEW r \in ClientRecord, NEW p \in {"idle", "relay", "done", "failed", "killed"}
  PROVE  [r EXCEPT !.pc = p] \in ClientRecord
  BY DEF ClientRecord

LEMMA ShiftedTyped ==
  ASSUME NEW r \in ClientRecord
  PROVE  /\ r.input > 0 => Written(r) \in ClientRecord
         /\ r.sent > 0 => Answered(r) \in ClientRecord
         /\ r.replies > 0 => Shown(r) \in ClientRecord
<1>1. /\ r.input > 0 => r.input - 1 \in Nat
      /\ r.sent > 0 => r.sent - 1 \in Nat
      /\ r.replies > 0 => r.replies - 1 \in Nat
      /\ r.sent + 1 \in Nat /\ r.replies + 1 \in Nat /\ r.shown + 1 \in Nat
  BY DEF ClientRecord
<1> QED
  BY <1>1 DEF Written, Answered, Shown, ClientRecord

LEMMA EndedTyped ==
  ASSUME NEW r \in ClientRecord, NEW why \in {"eof", "stop", "other", "broken", "refused", "reset"}
  PROVE  [r EXCEPT !.ended = why] \in ClientRecord
  BY DEF ClientRecord

LEMMA ClosedTyped ==
  ASSUME SocketType, NEW c, NEW why \in {"eof", "stop", "other", "broken", "refused", "reset"},
         Closed(c, why)
  PROVE  client' \in [Clients -> ClientRecord]
  BY EndedTyped DEF SocketType, Closed

LEMMA DisconnectedTyped ==
  ASSUME SocketType, NEW C, Disconnected(C)
  PROVE  client' \in [Clients -> ClientRecord]
  BY EndedTyped DEF SocketType, Disconnected

LEMMA ClientStepTyped ==
  ASSUME SocketType, SocketNext PROVE client' \in [Clients -> ClientRecord]
<1>1. ASSUME NEW s \in Servers, Accept(s) PROVE client' \in [Clients -> ClientRecord]
  BY <1>1, ClosedTyped DEF Accept, SocketType
<1>2. ASSUME NEW s \in Servers, Answer(s) PROVE client' \in [Clients -> ClientRecord]
  <2>1. CASE Gone(server[s].conn)
    BY <1>2, <2>1, ClosedTyped DEF Answer, EndSession
  <2>2. CASE ~Gone(server[s].conn)
    <3> DEFINE c == server[s].conn
    <3>1. client' = [client EXCEPT ![c] = Answered(client[c])]
      BY <1>2, <2>2 DEF Answer, Served
    <3>2. CASE c \in Clients
      <4>1. Answered(client[c]) \in ClientRecord
        BY <1>2, <3>2, ShiftedTyped DEF SocketType, Answer, Served
      <4> QED
        BY <3>1, <3>2, <4>1 DEF SocketType
    <3>3. CASE c \notin Clients
      BY <3>1, <3>3 DEF SocketType
    <3> QED
      BY <3>2, <3>3
  <2> QED
    BY <2>1, <2>2
<1>3. ASSUME NEW s \in Servers, EndOfSession(s) \/ StopSession(s) \/ OtherEnd(s)
      PROVE  client' \in [Clients -> ClientRecord]
  BY <1>3, ClosedTyped DEF EndOfSession, StopSession, OtherEnd, EndSession
<1>4. ASSUME NEW s \in Servers, CloseListener(s) \/ Crash(s)
      PROVE  client' \in [Clients -> ClientRecord]
  BY <1>4, DisconnectedTyped DEF CloseListener, Crash
<1>5. ASSUME NEW s \in Servers,
             \/ Start(s) \/ Lock(s) \/ RemoveStale(s) \/ Bind(s) \/ Listen(s) \/ CheckStop(s)
             \/ WaitForClient(s) \/ Interrupted(s) \/ Unlink(s) \/ Release(s) \/ StopSignal(s)
      PROVE  client' \in [Clients -> ClientRecord]
  BY <1>5 DEF SocketType, Start, Lock, RemoveStale, Bind, Listen, CheckStop, WaitForClient,
              Interrupted, Unlink, Release, StopSignal
<1>6. ASSUME NEW c \in Clients, Connect(c) PROVE client' \in [Clients -> ClientRecord]
  <2>1. CASE client' = [client EXCEPT ![c].pc = "failed"]
    BY <2>1, ClientPcTyped DEF SocketType
  <2>2. ASSUME NEW s \in Servers, server[s].sock = path, NEW p \in {"relay", "failed"},
               client' = [client EXCEPT ![c] = [client[c] EXCEPT !.pc = p, !.sock = path]]
        PROVE  client' \in [Clients -> ClientRecord]
    <3>1. path \in Int
      BY <2>2 DEF SocketType, ServerRecord
    <3>2. [client[c] EXCEPT !.pc = p, !.sock = path] \in ClientRecord
      BY <3>1 DEF SocketType, ClientRecord
    <3> QED
      BY <2>2, <3>2 DEF SocketType
  <2>3. ASSUME NEW s \in Servers, server[s].sock = path,
               client' = [client EXCEPT ![c] =
                            [@ EXCEPT !.pc = IF SameUser(s, c) THEN "relay" ELSE "failed", !.sock = path]]
        PROVE  client' \in [Clients -> ClientRecord]
    <3>1. CASE SameUser(s, c)
      BY <2>2, <2>3, <3>1
    <3>2. CASE ~SameUser(s, c)
      BY <2>2, <2>3, <3>2
    <3> QED
      BY <3>1, <3>2
  <2> QED
    BY <1>6, <2>1, <2>3 DEF Connect, Listeners
<1>7. ASSUME NEW c \in Clients, WriteLine(c) PROVE client' \in [Clients -> ClientRecord]
  <2>1. client[c].input > 0 /\ client' = [client EXCEPT ![c] = Written(client[c])]
          => client' \in [Clients -> ClientRecord]
    BY ShiftedTyped DEF SocketType
  <2>2. [client[c] EXCEPT !.writer = "failed"] \in ClientRecord
    BY DEF ClientRecord, SocketType
  <2> QED
    BY <1>7, <2>1, <2>2 DEF WriteLine, SocketType
<1>8. ASSUME NEW c \in Clients, WriteEnd(c) PROVE client' \in [Clients -> ClientRecord]
  <2>1. [client[c] EXCEPT !.writer = "shut"] \in ClientRecord
    BY DEF SocketType, ClientRecord
  <2> QED
    BY <1>8, <2>1 DEF WriteEnd, SocketType
<1>9. ASSUME NEW c \in Clients, Read(c) PROVE client' \in [Clients -> ClientRecord]
  <2>1. CASE client' = [client EXCEPT ![c].pc = "done"]
    BY <2>1, ClientPcTyped DEF SocketType
  <2>2. CASE client[c].replies > 0 /\ client' = [client EXCEPT ![c] = Shown(client[c])]
    BY <2>2, ShiftedTyped DEF SocketType
  <2> QED
    BY <1>9, <2>1, <2>2 DEF Read
<1>10. ASSUME NEW c \in Clients, Kill(c) PROVE client' \in [Clients -> ClientRecord]
  BY <1>10, ClientPcTyped DEF Kill, SocketType
<1> QED
  BY <1>1, <1>2, <1>3, <1>4, <1>5, <1>6, <1>7, <1>8, <1>9, <1>10
     DEF SocketNext, ServerStep, ClientStep

LEMMA RestTyped ==
  ASSUME SocketType, SocketNext PROVE starts' \in Nat /\ backlog' \in Seq(Clients)
<1> USE DEF SocketType
<1>1. ASSUME NEW s \in Servers, Start(s) PROVE starts' \in Nat /\ backlog' \in Seq(Clients)
  BY <1>1 DEF Start
<1>2. ASSUME NEW s \in Servers, Accept(s) \/ CloseListener(s) \/ Crash(s)
      PROVE  starts' \in Nat /\ backlog' \in Seq(Clients)
  <2>1. starts' \in Nat
    BY <1>2 DEF Accept, CloseListener, Crash
  <2>2. backlog # <<>> => Tail(backlog) \in Seq(Clients)
    OBVIOUS
  <2>3. backlog' = backlog \/ (backlog # <<>> /\ backlog' = Tail(backlog)) \/ backlog' = <<>>
    BY <1>2 DEF Accept, CloseListener, Crash
  <2>4. CASE backlog' = backlog
    BY <2>1, <2>4
  <2>5. CASE backlog # <<>> /\ backlog' = Tail(backlog)
    BY <2>1, <2>2, <2>5
  <2>6. CASE backlog' = <<>>
    <3> <<>> \in Seq(Clients)
      OBVIOUS
    <3> QED
      BY <2>1, <2>6
  <2> QED
    BY <2>3, <2>4, <2>5, <2>6
<1>3. ASSUME NEW s \in Servers,
             \/ Lock(s) \/ RemoveStale(s) \/ Bind(s) \/ Listen(s) \/ CheckStop(s)
             \/ WaitForClient(s) \/ Interrupted(s) \/ Answer(s) \/ EndOfSession(s)
             \/ StopSession(s) \/ OtherEnd(s) \/ Unlink(s) \/ Release(s) \/ StopSignal(s)
      PROVE  UNCHANGED <<starts, backlog>>
  BY <1>3 DEF Lock, RemoveStale, Bind, Listen, CheckStop, WaitForClient, Interrupted, Answer,
              EndOfSession, StopSession, OtherEnd, EndSession, Unlink, Release, StopSignal
<1>4. ASSUME NEW c \in Clients, Connect(c) PROVE starts' \in Nat /\ backlog' \in Seq(Clients)
  <2>1. starts' = starts /\ (backlog' = backlog \/ backlog' = Append(backlog, c))
    BY <1>4 DEF Connect
  <2>2. Append(backlog, c) \in Seq(Clients)
    OBVIOUS
  <2> QED
    BY <2>1, <2>2
<1>5. ASSUME NEW c \in Clients, WriteLine(c) \/ WriteEnd(c) \/ Read(c) \/ Kill(c)
      PROVE  UNCHANGED <<starts, backlog>>
  BY <1>5 DEF WriteLine, WriteEnd, Read, Kill
<1> QED
  BY <1>1, <1>2, <1>3, <1>4, <1>5 DEF SocketNext, ServerStep, ClientStep

LEMMA TypeStep == ASSUME SocketType, SocketNext PROVE SocketType'
  BY ServerStepTyped, ClientStepTyped, RestTyped DEF SocketType

-----------------------------------------------------------------------------
(* Each step keeps the lock and the path                                   *)

LEMMA LockStep == ASSUME SocketType, LockInv, SocketNext PROVE LockInv'
<1> USE DEF LockInv, HasLock, IsBound, Serving, At, Goto
<1> server \in [Servers -> ServerRecord]
  BY DEF SocketType
<1>1. ASSUME NEW s \in Servers, Start(s) PROVE LockInv'
  BY <1>1 DEF Start, Off, ServerRecord
<1>2. ASSUME NEW s \in Servers, Lock(s) PROVE LockInv'
  BY <1>2, SocketAssumption DEF Lock, Off, ServerRecord
<1>3. ASSUME NEW s \in Servers, RemoveStale(s) PROVE LockInv'
  BY <1>3 DEF RemoveStale, ServerRecord
<1>4. ASSUME NEW s \in Servers, Bind(s) PROVE LockInv'
  BY <1>4 DEF Bind, ServerRecord
<1>5. ASSUME NEW s \in Servers, Listen(s) PROVE LockInv'
  <2>1. CASE server' = [server EXCEPT ![s].pc = "check"]
    BY <1>5, <2>1 DEF Listen, ServerRecord
  <2>2. CASE server' = [server EXCEPT ![s] = [@ EXCEPT !.pc = "unlink", !.sock = 0]]
    BY <1>5, <2>2 DEF Listen, ServerRecord
  <2> QED
    BY <1>5, <2>1, <2>2 DEF Listen
<1>6. ASSUME NEW s \in Servers, CheckStop(s) \/ WaitForClient(s) \/ Interrupted(s) PROVE LockInv'
  BY <1>6 DEF CheckStop, WaitForClient, Interrupted, ServerRecord
<1>7. ASSUME NEW s \in Servers, Accept(s) PROVE LockInv'
  <2>1. CASE server' = [server EXCEPT ![s].pc = "check"]
    BY <1>7, <2>1 DEF Accept, ServerRecord
  <2>2. CASE server' = [server EXCEPT ![s] = [@ EXCEPT !.pc = "session", !.conn = Head(backlog)]]
    BY <1>7, <2>2 DEF Accept, ServerRecord
  <2> QED
    BY <1>7, <2>1, <2>2 DEF Accept
<1>8. ASSUME NEW s \in Servers,
             At(s, "session"), UNCHANGED <<sockLock, path>>, UNCHANGED server \/
             server' = [server EXCEPT ![s] = [@ EXCEPT !.pc = "check", !.conn = NONE]]
      PROVE  LockInv'
  BY <1>8 DEF ServerRecord
<1>9. ASSUME NEW s \in Servers, Answer(s) \/ EndOfSession(s) \/ StopSession(s) \/ OtherEnd(s)
      PROVE  LockInv'
  BY <1>8, <1>9 DEF Answer, EndOfSession, StopSession, OtherEnd, EndSession
<1>10. ASSUME NEW s \in Servers, CloseListener(s) PROVE LockInv'
  BY <1>10 DEF CloseListener, ServerRecord
<1>11. ASSUME NEW s \in Servers, Unlink(s) PROVE LockInv'
  BY <1>11 DEF Unlink, ServerRecord
<1>12. ASSUME NEW s \in Servers, Release(s) PROVE LockInv'
  BY <1>12, SocketAssumption DEF Release, Off, ServerRecord
<1>13. ASSUME NEW s \in Servers, StopSignal(s) PROVE LockInv'
  BY <1>13 DEF StopSignal, ServerRecord
<1>14. ASSUME NEW s \in Servers, Crash(s) PROVE LockInv'
  BY <1>14, SocketAssumption DEF Crash, Off, ServerRecord
<1>15. ASSUME NEW c \in Clients, ClientStep(c) \/ Kill(c) PROVE LockInv'
  BY <1>15 DEF ClientStep, Connect, WriteLine, WriteEnd, Read, Kill
<1> QED
  BY <1>1, <1>2, <1>3, <1>4, <1>5, <1>6, <1>7, <1>9, <1>10, <1>11, <1>12, <1>13, <1>14, <1>15
     DEF SocketNext, ServerStep

-----------------------------------------------------------------------------
(* Each step keeps the queue                                               *)

LEMMA QueueInit == SocketInit => QueueInv
<1> SUFFICES ASSUME SocketInit PROVE QueueInv
  OBVIOUS
<1> PICK n \in Lines : client = [c \in Clients |-> Idle(n)]
  BY DEF SocketInit
<1> QED
  BY DEF SocketInit, QueueInv, Waiting, Idle, Off, At

\* Those that wait, after the first was accepted, and after another one connected.
LEMMA WaitingTyped == SocketType => Waiting \subseteq Clients
  BY DEF SocketType, Waiting

LEMMA WaitingTail ==
  ASSUME SocketType, QueueInv, backlog # <<>>, backlog' = Tail(backlog)
  PROVE  /\ Head(backlog) \in Waiting /\ Waiting' = Waiting \ {Head(backlog)}
         /\ \A i, j \in 1 .. Len(backlog') : backlog'[i] = backlog'[j] => i = j
<1>1. /\ Head(backlog) = backlog[1] /\ Len(backlog) \in Nat \ {0}
      /\ Len(backlog') = Len(backlog) - 1
      /\ \A i \in 1 .. Len(backlog') : backlog'[i] = backlog[i + 1]
  BY DEF SocketType
<1>2. \A i, j \in 1 .. Len(backlog) : backlog[i] = backlog[j] => i = j
  BY DEF QueueInv
<1>3. Waiting' \subseteq Waiting \ {Head(backlog)}
  <2> SUFFICES ASSUME NEW i \in 1 .. Len(backlog') PROVE backlog'[i] \in Waiting \ {Head(backlog)}
    BY DEF Waiting
  <2>1. i + 1 \in 1 .. Len(backlog) /\ i + 1 # 1 /\ 1 \in 1 .. Len(backlog)
    BY <1>1
  <2> QED
    BY <1>1, <1>2, <2>1 DEF Waiting
<1>4. Waiting \ {Head(backlog)} \subseteq Waiting'
  <2> SUFFICES ASSUME NEW i \in 1 .. Len(backlog), backlog[i] # Head(backlog)
               PROVE  backlog[i] \in Waiting'
    BY DEF Waiting
  <2>1. i - 1 \in 1 .. Len(backlog') /\ (i - 1) + 1 = i
    BY <1>1
  <2>2. backlog'[i - 1] = backlog[i]
    BY <1>1, <2>1
  <2> QED
    BY <2>1, <2>2 DEF Waiting
<1>5. Head(backlog) \in Waiting
  BY <1>1 DEF Waiting
<1>6. ASSUME NEW i \in 1 .. Len(backlog'), NEW j \in 1 .. Len(backlog'), backlog'[i] = backlog'[j]
      PROVE  i = j
  <2>1. i + 1 \in 1 .. Len(backlog) /\ j + 1 \in 1 .. Len(backlog)
    BY <1>1
  <2>2. i + 1 = j + 1
    BY <1>1, <1>2, <1>6, <2>1
  <2> QED
    BY <2>2
<1> QED
  BY <1>3, <1>4, <1>5, <1>6

LEMMA WaitingAppend ==
  ASSUME SocketType, QueueInv, NEW c \in Clients \ Waiting, backlog' = Append(backlog, c)
  PROVE  /\ Waiting' = Waiting \cup {c}
         /\ \A i, j \in 1 .. Len(backlog') : backlog'[i] = backlog'[j] => i = j
<1>1. /\ Len(backlog) \in Nat /\ Len(backlog') = Len(backlog) + 1
      /\ backlog'[Len(backlog) + 1] = c
      /\ \A i \in 1 .. Len(backlog) : backlog'[i] = backlog[i]
  BY DEF SocketType
<1>2. \A i \in 1 .. Len(backlog') : i \in 1 .. Len(backlog) \/ i = Len(backlog) + 1
  BY <1>1
<1>3. \A i \in 1 .. Len(backlog) : i \in 1 .. Len(backlog')
  BY <1>1
<1>4. Len(backlog) + 1 \in 1 .. Len(backlog')
  BY <1>1
<1>5. \A i \in 1 .. Len(backlog) : backlog[i] # c
  BY DEF Waiting
<1>6. Waiting' \subseteq Waiting \cup {c}
  BY <1>1, <1>2 DEF Waiting
<1>7. Waiting \cup {c} \subseteq Waiting'
  BY <1>1, <1>3, <1>4 DEF Waiting
<1>8. \A i, j \in 1 .. Len(backlog') : backlog'[i] = backlog'[j] => i = j
  BY <1>1, <1>2, <1>5 DEF QueueInv
<1> QED
  BY <1>6, <1>7, <1>8

\* One server is in a session.
LEMMA OneSession ==
  ASSUME LockInv, NEW s \in Servers, NEW t \in Servers, HasLock(s), At(t, "session")
  PROVE  s = t
  BY DEF LockInv, HasLock, At

\* What a server does besides accepting, ending a session and closing the listener.
LEMMA QueueKept ==
  ASSUME SocketType, QueueInv, UNCHANGED <<backlog, client>>,
         \A s \in Servers :
           \/ server'[s].conn = server[s].conn /\ (server'[s].pc = "session" <=> At(s, "session"))
           \/ server'[s].conn = NONE /\ server'[s].pc # "session"
  PROVE  QueueInv'
  BY DEF QueueInv, At, Waiting, Open

LEMMA QueueServer ==
  ASSUME SocketType, QueueInv, NEW s \in Servers,
         \/ Start(s) \/ Lock(s) \/ RemoveStale(s) \/ Bind(s) \/ Listen(s) \/ CheckStop(s)
         \/ WaitForClient(s) \/ Interrupted(s) \/ Unlink(s) \/ Release(s) \/ StopSignal(s)
  PROVE  QueueInv'
<1> USE DEF SocketType, ServerRecord, At, Goto
<1>1. UNCHANGED <<backlog, client>>
  BY DEF Start, Lock, RemoveStale, Bind, Listen, CheckStop, WaitForClient, Interrupted,
         Unlink, Release, StopSignal
<1>2. ASSUME NEW p \in Places \ {"session"}, ~At(s, "session"), Goto(s, p) PROVE QueueInv'
  BY <1>1, <1>2, QueueKept
<1>3. CASE server' = [server EXCEPT ![s] = Off]
  BY <1>1, <1>3, QueueKept DEF Off
<1>4. CASE Start(s)
  BY <1>1, <1>4, QueueKept DEF Start, Off
<1>5. CASE Bind(s)
  <2>1. CASE server' = [server EXCEPT ![s] = [@ EXCEPT !.pc = "listen", !.sock = server[s].number]]
    BY <1>1, <1>5, <2>1, QueueKept DEF Bind
  <2> QED
    BY <1>2, <1>5, <2>1 DEF Bind, Places
<1>6. CASE Listen(s)
  <2>1. CASE server' = [server EXCEPT ![s] = [@ EXCEPT !.pc = "unlink", !.sock = 0]]
    BY <1>1, <1>6, <2>1, QueueKept DEF Listen
  <2> QED
    BY <1>2, <1>6, <2>1 DEF Listen, Places, Serving
<1>7. CASE StopSignal(s)
  BY <1>1, <1>7, QueueKept DEF StopSignal
<1>8. CASE Lock(s) \/ Release(s)
  BY <1>2, <1>3, <1>8 DEF Lock, Release, Places
<1>9. CASE RemoveStale(s) \/ Unlink(s) \/ CheckStop(s) \/ WaitForClient(s) \/ Interrupted(s)
  BY <1>2, <1>9 DEF RemoveStale, Unlink, CheckStop, WaitForClient, Interrupted, Places, Serving
<1> QED
  BY <1>4, <1>5, <1>6, <1>7, <1>8, <1>9

\* The connection of a client ends.
LEMMA EndsOnly ==
  ASSUME SocketType, NEW C, \/ Disconnected(C)
                            \/ \E c, why : C = {c} /\ Closed(c, why)
  PROVE  /\ \A c \in Clients : client'[c].pc = client[c].pc
         /\ \A c \in Clients \ C : client'[c].ended = client[c].ended
<1>1. CASE Disconnected(C)
  BY <1>1 DEF Disconnected, SocketType, ClientRecord
<1>2. ASSUME NEW c, NEW why, C = {c}, Closed(c, why)
      PROVE  /\ \A d \in Clients : client'[d].pc = client[d].pc
             /\ \A d \in Clients \ C : client'[d].ended = client[d].ended
  BY <1>2 DEF Closed, SocketType, ClientRecord
<1> QED
  BY <1>1, <1>2

LEMMA QueueAccept ==
  ASSUME SocketType, QueueInv, LockInv, NEW s \in Servers, Accept(s)
  PROVE  QueueInv'
<1>1. /\ At(s, "accept") /\ server[s].conn = NONE
      /\ \A t \in Servers : ~At(t, "session") /\ server[t].conn = NONE
  BY OneSession DEF Accept, QueueInv, HasLock, At
<1>2. CASE UNCHANGED <<backlog, client>> /\ Goto(s, "check")
  BY <1>1, <1>2, QueueKept DEF Goto, At, SocketType, ServerRecord
<1>3. CASE /\ backlog # <<>> /\ backlog' = Tail(backlog) /\ UNCHANGED client
           /\ server' = [server EXCEPT ![s] = [@ EXCEPT !.pc = "session", !.conn = Head(backlog)]]
  <2>1. /\ server'[s].pc = "session" /\ server'[s].conn = Head(backlog)
        /\ \A t \in Servers \ {s} : server'[t] = server[t]
    BY <1>3 DEF SocketType, ServerRecord
  <2> QED
    BY <1>1, <1>3, <2>1, WaitingTail, WaitingTyped DEF QueueInv, Open, At
<1>4. CASE /\ backlog # <<>> /\ backlog' = Tail(backlog)
           /\ Closed(Head(backlog), "refused") /\ Goto(s, "check")
  <2>1. /\ \A c \in Clients : client'[c].pc = client[c].pc
        /\ \A c \in Clients \ {Head(backlog)} : client'[c].ended = client[c].ended
    BY <1>4, EndsOnly
  <2>2. \A t \in Servers : server'[t].conn = NONE /\ server'[t].pc # "session"
    BY <1>1, <1>4 DEF Goto, At, SocketType, ServerRecord
  <2> QED
    BY <1>4, <2>1, <2>2, WaitingTail, WaitingTyped DEF QueueInv, Open, At
<1> QED
  BY <1>2, <1>3, <1>4 DEF Accept

LEMMA QueueSession ==
  ASSUME SocketType, QueueInv, LockInv, NEW s \in Servers,
         Answer(s) \/ EndOfSession(s) \/ StopSession(s) \/ OtherEnd(s)
  PROVE  QueueInv'
<1> DEFINE c == server[s].conn
<1>1. /\ At(s, "session") /\ c \in Clients \ Waiting /\ client[c].pc # "idle"
      /\ \A t \in Servers \ {s} : ~At(t, "session")
  BY OneSession DEF Answer, EndOfSession, StopSession, OtherEnd, QueueInv, Open, HasLock, At
<1>2. ASSUME NEW why, EndSession(s, why) PROVE QueueInv'
  <2>1. /\ \A d \in Clients : client'[d].pc = client[d].pc
        /\ \A d \in Clients \ {c} : client'[d].ended = client[d].ended
    BY <1>2, EndsOnly DEF EndSession
  <2>2. /\ server'[s].pc = "check" /\ server'[s].conn = NONE
        /\ \A t \in Servers \ {s} : server'[t] = server[t]
    BY <1>2 DEF EndSession, SocketType, ServerRecord
  <2>3. backlog' = backlog /\ Waiting' = Waiting
    BY <1>2 DEF EndSession, Waiting
  <2> QED
    BY <1>1, <2>1, <2>2, <2>3, WaitingTyped DEF QueueInv, Open, At
<1>3. CASE client' = [client EXCEPT ![c] = Answered(client[c])] /\ UNCHANGED <<server, backlog>>
  <2>1. \A d \in Clients : client'[d].pc = client[d].pc /\ client'[d].ended = client[d].ended
    BY <1>1, <1>3 DEF Answered, SocketType, ClientRecord
  <2>2. backlog' = backlog /\ Waiting' = Waiting
    BY <1>3 DEF Waiting
  <2> QED
    BY <1>3, <2>1, <2>2, WaitingTyped DEF QueueInv, Open, At
<1> QED
  BY <1>2, <1>3 DEF Answer, EndOfSession, StopSession, OtherEnd, Served

LEMMA QueueClose ==
  ASSUME SocketType, QueueInv, LockInv, NEW s \in Servers, CloseListener(s) \/ Crash(s)
  PROVE  QueueInv'
<1>1. Waiting \subseteq Clients
  BY WaitingTyped
<1>2. CASE CloseListener(s)
  <2>1. \A t \in Servers : ~At(t, "session") /\ server[t].conn = NONE
    BY <1>2, OneSession DEF CloseListener, QueueInv, HasLock, At
  <2>2. \A t \in Servers : server'[t].conn = NONE /\ server'[t].pc # "session"
    BY <1>2, <2>1 DEF CloseListener, At, SocketType, ServerRecord
  <2>3. /\ \A c \in Clients : client'[c].pc = client[c].pc
        /\ \A c \in Clients \ Waiting : client'[c].ended = client[c].ended
    BY <1>2, EndsOnly DEF CloseListener
  <2>4. backlog' = <<>> /\ Waiting' = {}
    BY <1>2 DEF CloseListener, Waiting
  <2> QED
    BY <1>1, <2>2, <2>3, <2>4 DEF QueueInv, Open, At
<1>3. CASE Crash(s)
  <2> DEFINE c == server[s].conn
  <2>1. /\ server'[s].pc = "off" /\ server'[s].conn = NONE
        /\ \A t \in Servers \ {s} : server'[t] = server[t]
    BY <1>3 DEF Crash, Off, SocketType
  <2>2. CASE At(s, "session")
    <3>1. \A t \in Servers \ {s} : ~At(t, "session")
      BY <2>2, OneSession DEF HasLock, At
    <3>2. c \in Clients \ Waiting /\ client[c].pc # "idle"
      BY <2>2 DEF QueueInv, Open
    <3>3. CASE Disconnected({c} \cup Waiting) /\ backlog' = <<>>
      <4>1. /\ \A d \in Clients : client'[d].pc = client[d].pc
            /\ \A d \in Clients \ ({c} \cup Waiting) : client'[d].ended = client[d].ended
        BY <3>3, EndsOnly
      <4>2. Waiting' = {}
        BY <3>3 DEF Waiting
      <4> QED
        BY <1>1, <2>1, <3>1, <3>2, <3>3, <4>1, <4>2 DEF QueueInv, Open, At
    <3>4. CASE Disconnected({c}) /\ UNCHANGED backlog
      <4>1. /\ \A d \in Clients : client'[d].pc = client[d].pc
            /\ \A d \in Clients \ {c} : client'[d].ended = client[d].ended
        BY <3>4, EndsOnly
      <4>2. Waiting' = Waiting
        BY <3>4 DEF Waiting
      <4> QED
        BY <1>1, <2>1, <3>1, <3>2, <3>4, <4>1, <4>2 DEF QueueInv, Open, At
    <3> QED
      BY <1>3, <3>3, <3>4 DEF Crash
  <2>3. CASE ~At(s, "session")
    <3>1. c = NONE /\ c \notin Clients
      BY <2>3, SocketAssumption DEF QueueInv
    <3>2. CASE Disconnected({c} \cup Waiting) /\ backlog' = <<>>
      <4>1. /\ \A d \in Clients : client'[d].pc = client[d].pc
            /\ \A d \in Clients \ Waiting : client'[d].ended = client[d].ended
        BY <3>1, <3>2, EndsOnly
      <4>2. Waiting' = {}
        BY <3>2 DEF Waiting
      <4> QED
        BY <1>1, <2>1, <3>1, <3>2, <4>1, <4>2 DEF QueueInv, Open, At
    <3>3. CASE Disconnected({c}) /\ UNCHANGED backlog
      <4>1. \A d \in Clients : client'[d].pc = client[d].pc /\ client'[d].ended = client[d].ended
        BY <3>1, <3>3, EndsOnly
      <4>2. Waiting' = Waiting
        BY <3>3 DEF Waiting
      <4> QED
        BY <1>1, <2>1, <3>1, <3>3, <4>1, <4>2 DEF QueueInv, Open, At
    <3> QED
      BY <1>3, <3>2, <3>3 DEF Crash
  <2> QED
    BY <2>2, <2>3
<1> QED
  BY <1>2, <1>3

\* A client whose connection stays as it is.
LEMMA QueueSame ==
  ASSUME SocketType, QueueInv, NEW c \in Clients, UNCHANGED <<server, backlog>>,
         NEW r, client' = [client EXCEPT ![c] = r], r.ended = client[c].ended, r.pc # "idle"
  PROVE  QueueInv'
<1>1. /\ \A d \in Clients : client'[d].ended = client[d].ended
      /\ \A d \in Clients : client'[d].pc = "idle" => client[d].pc = "idle"
  BY DEF SocketType
<1>2. backlog' = backlog /\ Waiting' = Waiting
  BY DEF Waiting
<1> QED
  BY <1>1, <1>2, WaitingTyped DEF QueueInv, Open, At

LEMMA QueueClient ==
  ASSUME SocketType, QueueInv, NEW c \in Clients, ClientStep(c) \/ Kill(c)
  PROVE  QueueInv'
<1>1. client[c] \in ClientRecord
  BY DEF SocketType
<1>2. ASSUME NEW p \in {"done", "failed", "killed"},
             client' = [client EXCEPT ![c].pc = p], UNCHANGED <<server, backlog>>
      PROVE  QueueInv'
  <2>1. /\ [client[c] EXCEPT !.pc = p].pc # "idle"
        /\ [client[c] EXCEPT !.pc = p].ended = client[c].ended
    BY <1>1 DEF ClientRecord
  <2> QED
    BY <1>2, <2>1, QueueSame
<1>3. ASSUME NEW p \in {"relay", "failed"}, backlog' = Append(backlog, c),
             client[c].pc = "idle", UNCHANGED server,
             client' = [client EXCEPT ![c] = [client[c] EXCEPT !.pc = p, !.sock = path]]
      PROVE  QueueInv'
  <2>1. /\ client'[c].pc # "idle" /\ client'[c].ended = client[c].ended
        /\ \A d \in Clients \ {c} : client'[d] = client[d]
    BY <1>3 DEF SocketType, ClientRecord
  <2>2. c \notin Waiting /\ \A s \in Servers : At(s, "session") => server[s].conn # c
    BY <1>3 DEF QueueInv, Open
  <2> QED
    BY <1>3, <2>1, <2>2, WaitingAppend, WaitingTyped DEF QueueInv, Open, At
<1>4. CASE Connect(c)
  <2>1. ASSUME NEW s \in Listeners, backlog' = Append(backlog, c),
               client' = [client EXCEPT ![c] =
                            [@ EXCEPT !.pc = IF SameUser(s, c) THEN "relay" ELSE "failed", !.sock = path]]
        PROVE  QueueInv'
    <3>1. CASE SameUser(s, c)
      BY <1>3, <1>4, <2>1, <3>1 DEF Connect
    <3>2. CASE ~SameUser(s, c)
      BY <1>3, <1>4, <2>1, <3>2 DEF Connect
    <3> QED
      BY <3>1, <3>2
  <2> QED
    BY <1>2, <1>4, <2>1 DEF Connect
<1>5. CASE WriteLine(c)
  <2>1. /\ Written(client[c]).pc # "idle" /\ Written(client[c]).ended = client[c].ended
        /\ [client[c] EXCEPT !.writer = "failed"].pc # "idle"
        /\ [client[c] EXCEPT !.writer = "failed"].ended = client[c].ended
    BY <1>1, <1>5 DEF WriteLine, Writes, Written, ClientRecord
  <2> QED
    BY <1>5, <2>1, QueueSame DEF WriteLine
<1>6. CASE WriteEnd(c)
  <2>1. /\ [client[c] EXCEPT !.writer = "shut"].pc # "idle"
        /\ [client[c] EXCEPT !.writer = "shut"].ended = client[c].ended
    BY <1>1, <1>6 DEF WriteEnd, Writes, ClientRecord
  <2> QED
    BY <1>6, <2>1, QueueSame DEF WriteEnd
<1>7. CASE Read(c)
  <2>1. Shown(client[c]).pc # "idle" /\ Shown(client[c]).ended = client[c].ended
    BY <1>1, <1>7 DEF Read, Shown, ClientRecord
  <2> QED
    BY <1>2, <1>7, <2>1, QueueSame DEF Read
<1>8. CASE Kill(c)
  BY <1>2, <1>8 DEF Kill
<1> QED
  BY <1>4, <1>5, <1>6, <1>7, <1>8 DEF ClientStep

LEMMA QueueStep == ASSUME SocketType, LockInv, QueueInv, SocketNext PROVE QueueInv'
  BY QueueServer, QueueAccept, QueueSession, QueueClose, QueueClient DEF SocketNext, ServerStep

-----------------------------------------------------------------------------
(* Each step keeps the count                                               *)

LEMMA CountInit == SocketInit => CountInv
<1> SUFFICES ASSUME SocketInit PROVE CountInv
  OBVIOUS
<1> PICK n \in Lines : client = [c \in Clients |-> Idle(n)]
  BY DEF SocketInit
<1>1. n \in Nat
  BY SocketAssumption
<1>2. Counted(Idle(n))
  BY <1>1 DEF Counted, Idle, NONE
<1> QED
  BY <1>2 DEF CountInv

\* What may happen to the record of a client.
LEMMA CountedWritten ==
  ASSUME NEW r \in ClientRecord, Counted(r), r.input > 0, r.ended = NONE,
         r.pc = "relay", r.writer = "open"
  PROVE  Counted(Written(r))
<1>1. /\ Written(r).input = r.input - 1 /\ Written(r).sent = r.sent + 1
      /\ Written(r).replies = r.replies /\ Written(r).shown = r.shown
      /\ Written(r).all = r.all /\ Written(r).ended = NONE
      /\ Written(r).writer = "open" /\ Written(r).pc = "relay"
  BY DEF Written, ClientRecord
<1>2. r.input \in Nat /\ r.sent \in Nat /\ r.replies \in Nat /\ r.shown \in Nat /\ r.all \in Nat
  BY DEF ClientRecord
<1>3. (r.input - 1) + (r.sent + 1) + r.replies + r.shown = r.all
  BY <1>2 DEF Counted
<1> QED
  BY <1>1, <1>3 DEF Counted, NONE

LEMMA CountedAnswered ==
  ASSUME NEW r \in ClientRecord, Counted(r), r.sent > 0, r.ended = NONE
  PROVE  Counted(Answered(r))
<1>1. /\ Answered(r).input = r.input /\ Answered(r).sent = r.sent - 1
      /\ Answered(r).replies = r.replies + 1 /\ Answered(r).shown = r.shown
      /\ Answered(r).all = r.all /\ Answered(r).ended = NONE
      /\ Answered(r).writer = r.writer /\ Answered(r).pc = r.pc
  BY DEF Answered, ClientRecord
<1>2. r.input \in Nat /\ r.sent \in Nat /\ r.replies \in Nat /\ r.shown \in Nat /\ r.all \in Nat
  BY DEF ClientRecord
<1>3. r.input + (r.sent - 1) + (r.replies + 1) + r.shown = r.all
  BY <1>2 DEF Counted
<1> QED
  BY <1>1, <1>3 DEF Counted, NONE

LEMMA CountedShown ==
  ASSUME NEW r \in ClientRecord, Counted(r), r.replies > 0, r.pc = "relay"
  PROVE  Counted(Shown(r))
<1>1. /\ Shown(r).input = r.input /\ Shown(r).sent = r.sent
      /\ Shown(r).replies = r.replies - 1 /\ Shown(r).shown = r.shown + 1
      /\ Shown(r).all = r.all /\ Shown(r).ended = r.ended
      /\ Shown(r).writer = r.writer /\ Shown(r).pc = "relay"
  BY DEF Shown, ClientRecord
<1>2. r.input \in Nat /\ r.sent \in Nat /\ r.replies \in Nat /\ r.shown \in Nat /\ r.all \in Nat
  BY DEF ClientRecord
<1>3. /\ r.input + r.sent + (r.replies - 1) + (r.shown + 1) = r.input + r.sent + r.replies + r.shown
      /\ (r.replies - 1) + (r.shown + 1) = r.replies + r.shown
  BY <1>2
<1> QED
  BY <1>1, <1>3 DEF Counted

\* Only the end of the input ends a session with "eof", and then nothing is in flight.
LEMMA CountedAtEnd ==
  ASSUME NEW r \in ClientRecord, Counted(r), r.ended = NONE, EndOfInput(r)
  PROVE  Counted([r EXCEPT !.ended = "eof"])
<1> DEFINE e == [r EXCEPT !.ended = "eof"]
<1>1. /\ e.input = r.input /\ e.sent = r.sent /\ e.replies = r.replies /\ e.shown = r.shown
      /\ e.all = r.all /\ e.ended = "eof" /\ e.writer = r.writer /\ e.pc = r.pc
  BY DEF ClientRecord
<1>2. r.input \in Nat /\ r.sent \in Nat /\ r.replies \in Nat /\ r.shown \in Nat /\ r.all \in Nat
  BY DEF ClientRecord
<1>3. "eof" # NONE /\ r.pc # "done"
  BY DEF NONE, Counted
<1>4. r.sent = 0 /\ (r.pc = "killed" \/ r.input = 0)
  BY <1>3 DEF EndOfInput, Counted
<1>5. r.sent = 0 /\ r.input = 0 => r.replies + r.shown = r.all
  BY <1>2 DEF Counted
<1> QED
  BY <1>1, <1>3, <1>4, <1>5 DEF Counted

LEMMA CountedCut ==
  ASSUME NEW r \in ClientRecord, Counted(r), r.ended = NONE,
         NEW why \in {"stop", "other", "broken", "refused", "reset"}
  PROVE  Counted([r EXCEPT !.ended = why])
<1> DEFINE e == [r EXCEPT !.ended = why]
<1>1. /\ e.input = r.input /\ e.sent = r.sent /\ e.replies = r.replies /\ e.shown = r.shown
      /\ e.all = r.all /\ e.ended = why /\ e.writer = r.writer /\ e.pc = r.pc
  BY DEF ClientRecord
<1>2. why # NONE /\ why # "eof" /\ r.pc # "done"
  BY DEF NONE, Counted
<1> QED
  BY <1>1, <1>2 DEF Counted

LEMMA CountDisconnected ==
  ASSUME SocketType, CountInv, NEW C, \A c \in Clients \cap C : client[c].ended = NONE,
         Disconnected(C)
  PROVE  CountInv'
<1> SUFFICES ASSUME NEW c \in Clients PROVE Counted(client'[c])
  BY DEF CountInv
<1>1. client[c] \in ClientRecord /\ Counted(client[c])
  BY DEF CountInv, SocketType
<1>2. CASE c \in C
  <2>1. client'[c] = [client[c] EXCEPT !.ended = "reset"]
    BY <1>2 DEF Disconnected
  <2>2. Counted([client[c] EXCEPT !.ended = "reset"])
    <3>1. client[c].ended = NONE
      BY <1>2
    <3> QED
      BY <1>1, <3>1, CountedCut
  <2> QED
    BY <2>1, <2>2
<1>3. CASE c \notin C
  BY <1>1, <1>3 DEF Disconnected
<1> QED
  BY <1>2, <1>3

LEMMA CountClosed ==
  ASSUME SocketType, CountInv, NEW c \in Clients, client[c].ended = NONE,
         NEW why \in {"stop", "other", "broken", "refused"}, Closed(c, why)
  PROVE  CountInv'
<1>1. Counted([client[c] EXCEPT !.ended = why])
  BY CountedCut DEF CountInv, SocketType
<1> QED
  BY <1>1 DEF CountInv, Closed, SocketType

LEMMA CountAtEnd ==
  ASSUME SocketType, CountInv, NEW c \in Clients, client[c].ended = NONE,
         EndOfInput(client[c]), Closed(c, "eof")
  PROVE  CountInv'
<1>1. Counted([client[c] EXCEPT !.ended = "eof"])
  BY CountedAtEnd DEF CountInv, SocketType
<1> QED
  BY <1>1 DEF CountInv, Closed, SocketType

\* The record of one client changes.
LEMMA CountOne ==
  ASSUME SocketType, CountInv, NEW c \in Clients, NEW r, Counted(r),
         client' = [client EXCEPT ![c] = r]
  PROVE  CountInv'
  BY DEF CountInv, SocketType

LEMMA CountServer ==
  ASSUME SocketType, QueueInv, CountInv, NEW s \in Servers,
         ServerStep(s) \/ Start(s) \/ Interrupted(s) \/ OtherEnd(s) \/ StopSignal(s) \/ Crash(s)
  PROVE  CountInv'
<1> DEFINE c == server[s].conn
<1>1. At(s, "session") => c \in Clients /\ client[c].ended = NONE
  BY DEF QueueInv, Open
<1>2. \A d \in Waiting : d \in Clients /\ client[d].ended = NONE
  BY WaitingTyped DEF QueueInv, Open
<1>3. c \in Clients => client[c].ended = NONE
  BY <1>1, SocketAssumption DEF QueueInv
<1>4. CASE UNCHANGED client
  BY <1>4 DEF CountInv
<1>5. CASE Accept(s)
  <2>1. CASE backlog # <<>> /\ Closed(Head(backlog), "refused")
    <3>1. Head(backlog) \in Waiting
      BY <2>1 DEF Waiting, SocketType
    <3> QED
      BY <1>2, <2>1, <3>1, CountClosed
  <2> QED
    BY <1>4, <1>5, <2>1 DEF Accept
<1>6. CASE Answer(s)
  <2>1. At(s, "session") /\ client[c].sent > 0
    BY <1>6 DEF Answer, Served
  <2>2. CASE EndSession(s, "broken")
    BY <1>1, <2>1, <2>2, CountClosed DEF EndSession
  <2>3. CASE client' = [client EXCEPT ![c] = Answered(client[c])]
    <3>1. Counted(Answered(client[c]))
      BY <1>1, <2>1, CountedAnswered DEF CountInv, SocketType
    <3> QED
      BY <1>1, <2>1, <2>3, <3>1, CountOne
  <2> QED
    BY <1>6, <2>2, <2>3 DEF Answer, Served
<1>7. CASE StopSession(s) \/ OtherEnd(s)
  BY <1>1, <1>7, CountClosed DEF StopSession, OtherEnd, EndSession
<1>11. CASE EndOfSession(s)
  BY <1>1, <1>11, CountAtEnd DEF EndOfSession, EndSession, Served
<1>8. CASE CloseListener(s)
  BY <1>2, <1>8, CountDisconnected DEF CloseListener
<1>9. CASE Crash(s)
  <2>1. \A d \in Clients \cap ({c} \cup Waiting) : client[d].ended = NONE
    BY <1>2, <1>3
  <2> QED
    BY <1>9, <2>1, CountDisconnected DEF Crash
<1>10. CASE \/ Start(s) \/ Lock(s) \/ RemoveStale(s) \/ Bind(s) \/ Listen(s) \/ CheckStop(s)
            \/ WaitForClient(s) \/ Interrupted(s) \/ Unlink(s) \/ Release(s) \/ StopSignal(s)
  BY <1>4, <1>10 DEF Start, Lock, RemoveStale, Bind, Listen, CheckStop, WaitForClient,
                     Interrupted, Unlink, Release, StopSignal
<1> QED
  BY <1>5, <1>6, <1>7, <1>8, <1>9, <1>10, <1>11 DEF ServerStep

LEMMA CountClient ==
  ASSUME SocketType, QueueInv, CountInv, NEW c \in Clients, ClientStep(c) \/ Kill(c)
  PROVE  CountInv'
<1>1. client[c] \in ClientRecord /\ Counted(client[c])
  BY DEF SocketType, CountInv
<1>2. client[c].pc = "idle" => client[c].ended = NONE
  BY DEF QueueInv
<1>3. ASSUME NEW p \in {"relay", "failed", "killed"}
      PROVE  /\ Counted([client[c] EXCEPT !.pc = p, !.sock = path]) \/ client[c].ended # NONE
             /\ client[c].ended = NONE \/ p = "killed" => Counted([client[c] EXCEPT !.pc = p])
  BY <1>1 DEF Counted, ClientRecord, NONE
<1>4. CASE Connect(c)
  <2>1. CASE client' = [client EXCEPT ![c].pc = "failed"]
    BY <1>2, <1>3, <1>4, <2>1, CountOne DEF Connect
  <2>2. ASSUME NEW s \in Listeners,
               client' = [client EXCEPT ![c] =
                            [@ EXCEPT !.pc = IF SameUser(s, c) THEN "relay" ELSE "failed", !.sock = path]]
        PROVE  CountInv'
    <3>1. CASE SameUser(s, c)
      BY <1>2, <1>3, <1>4, <2>2, <3>1, CountOne DEF Connect
    <3>2. CASE ~SameUser(s, c)
      BY <1>2, <1>3, <1>4, <2>2, <3>2, CountOne DEF Connect
    <3> QED
      BY <3>1, <3>2
  <2> QED
    BY <1>4, <2>1, <2>2 DEF Connect
<1>5. CASE WriteLine(c)
  <2>1. CASE client[c].ended = NONE /\ client' = [client EXCEPT ![c] = Written(client[c])]
    BY <1>1, <1>5, <2>1, CountedWritten, CountOne DEF WriteLine, Writes
  <2>2. CASE client' = [client EXCEPT ![c].writer = "failed"]
    <3>1. Counted([client[c] EXCEPT !.writer = "failed"])
      BY <1>1 DEF Counted, ClientRecord
    <3> QED
      BY <2>2, <3>1, CountOne
  <2> QED
    BY <1>5, <2>1, <2>2 DEF WriteLine
<1>6. CASE WriteEnd(c)
  <2>1. Counted([client[c] EXCEPT !.writer = "shut"])
    BY <1>1, <1>6 DEF WriteEnd, Counted, ClientRecord
  <2> QED
    BY <1>6, <2>1, CountOne DEF WriteEnd
<1>7. CASE Read(c)
  <2>1. CASE client[c].replies > 0 /\ client' = [client EXCEPT ![c] = Shown(client[c])]
    BY <1>1, <1>7, <2>1, CountedShown, CountOne DEF Read
  <2>2. CASE /\ client[c].replies = 0 /\ client[c].ended # NONE
             /\ client' = [client EXCEPT ![c].pc = "done"]
    <3>1. Counted([client[c] EXCEPT !.pc = "done"])
      BY <1>1, <1>7, <2>2 DEF Read, Counted, ClientRecord
    <3> QED
      BY <2>2, <3>1, CountOne
  <2> QED
    BY <1>7, <2>1, <2>2 DEF Read
<1>8. CASE Kill(c)
  BY <1>3, <1>8, CountOne DEF Kill
<1> QED
  BY <1>4, <1>5, <1>6, <1>7, <1>8 DEF ClientStep

LEMMA CountStep == ASSUME SocketType, QueueInv, CountInv, SocketNext PROVE CountInv'
  BY CountServer, CountClient DEF SocketNext

\* Nothing is in flight when a client has shown the last reply and seen the end.
LEMMA CountImplies == SocketType /\ CountInv => RepliesAreShown
<1> SUFFICES ASSUME SocketType, CountInv, NEW c \in Clients,
                    client[c].pc = "done", client[c].ended \in {"eof", NONE}
             PROVE  client[c].shown = client[c].all
  BY DEF RepliesAreShown
<1>1. client[c].shown \in Nat /\ client[c].all \in Nat
  BY DEF SocketType, ClientRecord
<1>2. client[c].replies = 0 /\ client[c].replies + client[c].shown = client[c].all
  BY DEF CountInv, Counted
<1> QED
  BY <1>1, <1>2

-----------------------------------------------------------------------------
(* The theorems                                                            *)

\* The path of a server that serves names its own socket and no other server has the
\* lock, for any number of servers that start, stop and crash.
THEOREM Reachable == SocketSpec => []SocketIsReachable
<1> DEFINE Inv == SocketType /\ LockInv
<1>1. SocketInit => Inv
  BY TypeInit, LockInit
<1>2. Inv /\ [SocketNext]_socketVars => Inv'
  <2>1. ASSUME Inv, UNCHANGED socketVars PROVE Inv'
    BY <2>1 DEF socketVars, SocketType, LockInv, HasLock, IsBound
  <2> QED
    BY <2>1, TypeStep, LockStep
<1>3. Inv => SocketIsReachable
  BY LockImplies
<1> QED
  BY <1>1, <1>2, <1>3, PTL DEF SocketSpec

\* A client whose session ended because its input did has shown every reply, for any
\* number of servers, clients and lines.
THEOREM Replies == SocketSpec => []RepliesAreShown
<1> DEFINE Inv == SocketType /\ LockInv /\ QueueInv /\ CountInv
<1>1. SocketInit => Inv
  BY TypeInit, LockInit, QueueInit, CountInit
<1>2. Inv /\ [SocketNext]_socketVars => Inv'
  <2>1. ASSUME Inv, UNCHANGED socketVars PROVE Inv'
    BY <2>1 DEF socketVars, SocketType, LockInv, HasLock, IsBound, QueueInv, Waiting, Open, At, CountInv
  <2> QED
    BY <2>1, TypeStep, LockStep, QueueStep, CountStep
<1>3. Inv => RepliesAreShown
  BY CountImplies
<1> QED
  BY <1>1, <1>2, <1>3, PTL DEF SocketSpec

-----------------------------------------------------------------------------
(* The named pipes                                                         *)

ServerPlaces ==
  {"off", "reserve", "listen", "create in", "create out", "open in", "open out", "blocked",
   "unlink in", "unlink out", "session", "disconnect", "clean in", "clean out", "close",
   "stop in", "stop out"}

PServerRecord ==
  [pc : ServerPlaces, listen : Nat, made : SUBSET Ways, read : Int, write : Int,
   met : SUBSET Ways, robbed : BOOLEAN]

PipeType ==
  /\ pipeLock \in SUBSET PipeServers
  /\ fifo \in [Ways -> Int]
  /\ listens \in Nat
  /\ pserver \in [PipeServers -> PServerRecord]

-----------------------------------------------------------------------------
(* The inductive invariant                                                 *)

\* Between fifo_reserve_name and cli_pipe_close, unless the listen fails.
HoldsName(s) ==
  pserver[s].pc \in {"listen", "create in", "create out", "open in", "open out", "blocked",
                     "unlink in", "unlink out", "session", "disconnect"}

\* Only the server that holds the lock makes names; a server that was refused has none.
NameLockInv ==
  \A s \in PipeServers :
    /\ HoldsName(s) \/ pserver[s].made # {} => pipeLock = {s}
    /\ pserver[s].pc \in {"off", "reserve"} => s \notin pipeLock
    /\ pserver[s].pc \in {"off", "reserve", "listen", "create in"} => pserver[s].made = {}

\* Until it is robbed, what a listening server has made is still there.
NamesKept ==
  \A s \in PipeServers : ~pserver[s].robbed =>
    /\ pserver[s].pc \in {"create out", "open in", "open out", "blocked"} =>
         fifo["in"] = pserver[s].listen
    /\ pserver[s].pc \in {"open in", "open out", "blocked"} => fifo["out"] = pserver[s].listen
    /\ pserver[s].pc \in {"open out", "blocked"} => pserver[s].read = pserver[s].listen
    /\ pserver[s].pc = "blocked" => pserver[s].write = pserver[s].listen

HasMade ==
  \A s \in PipeServers :
    /\ pserver[s].pc \in {"create out", "open in", "open out", "blocked"} => "in" \in pserver[s].made
    /\ pserver[s].pc \in {"open in", "open out", "blocked"} => "out" \in pserver[s].made

\* What a server has taken back by then.
NamesTaken ==
  \A s \in PipeServers :
    /\ pserver[s].pc = "unlink out" => fifo["in"] = None
    /\ pserver[s].pc \in {"clean out", "close", "stop out"} /\ "in" \in pserver[s].made =>
         fifo["in"] = None
    /\ pserver[s].pc = "close" /\ "out" \in pserver[s].made => fifo["out"] = None

\* The second part of NamesAreTheListeners, for one name.
Accounted(w) ==
  fifo[w] \in {None, Regular} \cup left \/
    \E s \in PipeServers : /\ w \in pserver[s].made /\ pserver[s].listen = fifo[w]
                           /\ pserver[s].pc \notin {"off", "session", "disconnect", "listen"}

PipeInv ==
  /\ PipeType /\ NameLockInv /\ NamesKept /\ HasMade /\ NamesTaken
  /\ \A w \in Ways : Accounted(w)


-----------------------------------------------------------------------------
(* What the steps do to the servers                                        *)

Rest(s) == \A t \in PipeServers \ {s} : pserver'[t] = pserver[t]

\* Server s goes on to pc; nothing else the invariant reads of a server changes.
Moved(s, pc) ==
  /\ pserver'[s].pc = pc
  /\ pserver'[s].made = pserver[s].made /\ pserver'[s].listen = pserver[s].listen
  /\ pserver'[s].read = pserver[s].read /\ pserver'[s].write = pserver[s].write
  /\ pserver'[s].robbed = pserver[s].robbed
  /\ Rest(s)

LEMMA Assigned ==
  ASSUME PipeType, NEW s \in PipeServers, NEW r \in PServerRecord,
         pserver' = [pserver EXCEPT ![s] = r]
  PROVE  /\ pserver' \in [PipeServers -> PServerRecord]
         /\ pserver'[s] = r /\ Rest(s)
  BY DEF PipeType, Rest

LEMMA PcTyped ==
  ASSUME NEW r \in PServerRecord, NEW pc \in ServerPlaces
  PROVE  /\ [r EXCEPT !.pc = pc] \in PServerRecord
         /\ LET q == [r EXCEPT !.pc = pc]
            IN  /\ q.pc = pc /\ q.made = r.made /\ q.listen = r.listen /\ q.read = r.read
                /\ q.write = r.write /\ q.robbed = r.robbed
  BY DEF PServerRecord

LEMMA GotoMoves ==
  ASSUME PipeType, NEW s \in PipeServers, NEW pc \in ServerPlaces, PGoto(s, pc)
  PROVE  pserver' \in [PipeServers -> PServerRecord] /\ Moved(s, pc)
<1> DEFINE r == [pserver[s] EXCEPT !.pc = pc]
<1>1. pserver[s] \in PServerRecord
  BY DEF PipeType
<1>2. r \in PServerRecord /\ r.pc = pc /\ r.made = pserver[s].made
      /\ r.listen = pserver[s].listen /\ r.read = pserver[s].read
      /\ r.write = pserver[s].write /\ r.robbed = pserver[s].robbed
  BY <1>1, PcTyped
<1>3. pserver' = [pserver EXCEPT ![s] = r]
  BY DEF PGoto
<1> HIDE DEF r
<1> QED
  BY <1>2, <1>3, Assigned DEF Moved

LEMMA NoServerTyped ==
  /\ NoServer \in PServerRecord /\ NoServer.pc = "off" /\ NoServer.made = {}
  BY DEF NoServer, PServerRecord, ServerPlaces, None, Ways

\* Giving up, being signalled, and the moves that need nothing of the names.
LEMMA MoveKeeps ==
  ASSUME PipeInv, NEW s \in PipeServers, NEW pc \in ServerPlaces, PGoto(s, pc),
         \/ pc \in {"clean in", "stop in"}
         \/ pserver[s].pc = "off" /\ pc = "reserve"
         \/ pserver[s].pc = "blocked" /\ pc = "unlink in"
         \/ pserver[s].pc = "session" /\ pc = "disconnect",
         UNCHANGED <<pipeLock, fifo, listens, left>>
  PROVE  PipeInv'
<1> USE DEF PipeInv
<1>1. pserver' \in [PipeServers -> PServerRecord] /\ Moved(s, pc)
  BY GotoMoves
<1>2. PipeType'
  BY <1>1 DEF PipeType
<1>3. NameLockInv'
  BY <1>1 DEF NameLockInv, HoldsName, Moved, Rest
<1>4. NamesKept'
  BY <1>1 DEF NamesKept, Moved, Rest
<1>5. HasMade'
  BY <1>1 DEF HasMade, Moved, Rest
<1>6. NamesTaken'
  BY <1>1 DEF NamesTaken, Moved, Rest
<1>7. ASSUME NEW w \in Ways PROVE Accounted(w)'
  <2>1. CASE fifo[w] \in {None, Regular} \cup left
    BY <2>1 DEF Accounted
  <2>2. ASSUME NEW t \in PipeServers, w \in pserver[t].made, pserver[t].listen = fifo[w],
               pserver[t].pc \notin {"off", "session", "disconnect", "listen"}
        PROVE  Accounted(w)'
    <3>1. pserver'[t].made = pserver[t].made /\ pserver'[t].listen = pserver[t].listen
          /\ pserver'[t].pc \notin {"off", "session", "disconnect", "listen"}
      BY <1>1, <2>2 DEF Moved, Rest
    <3> QED
      BY <2>2, <3>1 DEF Accounted
  <2> QED
    BY <2>1, <2>2 DEF Accounted
<1> QED
  BY <1>2, <1>3, <1>4, <1>5, <1>6, <1>7

LEMMA NumbersTyped ==
  ASSUME PipeType PROVE None \in Int /\ \A s \in PipeServers : pserver[s].listen \in Int
  BY DEF PipeType, PServerRecord, None

LEMMA NamedTyped ==
  ASSUME PipeType, NEW w \in Ways, NEW f \in Int, fifo' = [fifo EXCEPT ![w] = f]
  PROVE  /\ fifo' \in [Ways -> Int] /\ fifo'[w] = f
         /\ \A v \in Ways \ {w} : fifo'[v] = fifo[v]
  BY DEF PipeType

-----------------------------------------------------------------------------
(* The server's steps                                                      *)

\* An account lasts while its server keeps it, and a name that is removed needs none.
LEMMA AccountKept ==
  ASSUME NEW w \in Ways, Accounted(w),
         \/ fifo'[w] = None
         \/ /\ fifo'[w] = fifo[w]
            /\ fifo[w] \in left => fifo[w] \in left'
            /\ \A t \in PipeServers :
                 /\ w \in pserver[t].made /\ pserver[t].listen = fifo[w]
                 /\ pserver[t].pc \notin {"off", "session", "disconnect", "listen"}
                 => \/ fifo[w] \in left'
                    \/ /\ w \in pserver'[t].made /\ pserver'[t].listen = fifo[w]
                       /\ pserver'[t].pc \notin {"off", "session", "disconnect", "listen"}
  PROVE  Accounted(w)'
  BY DEF Accounted

LEMMA ReserveKeeps ==
  ASSUME PipeInv, NEW s \in PipeServers, Reserve(s) PROVE PipeInv'
<1> USE DEF PipeInv
<1>1. CASE pipeLock = {} /\ pipeLock' = {s} /\ PGoto(s, "listen")
  <2>1. pserver' \in [PipeServers -> PServerRecord] /\ Moved(s, "listen")
    BY <1>1, GotoMoves DEF ServerPlaces
  <2>2. UNCHANGED <<fifo, listens, left>> /\ pserver[s].pc = "reserve"
    BY DEF Reserve, PAt
  <2>3. pserver[s].made = {}
    BY <2>2 DEF NameLockInv
  <2>4. PipeType'
    BY <1>1, <2>1, <2>2 DEF PipeType
  <2>5. NameLockInv'
    BY <1>1, <2>1, <2>3 DEF NameLockInv, HoldsName, Moved, Rest
  <2>6. NamesKept'
    BY <2>1, <2>2 DEF NamesKept, Moved, Rest
  <2>7. HasMade'
    BY <2>1 DEF HasMade, Moved, Rest
  <2>8. NamesTaken'
    BY <2>1, <2>2 DEF NamesTaken, Moved, Rest
  <2>9. ASSUME NEW w \in Ways PROVE Accounted(w)'
    BY <2>1, <2>2, <2>3, AccountKept DEF Moved, Rest
  <2> QED
    BY <2>4, <2>5, <2>6, <2>7, <2>8, <2>9
<1>2. CASE UNCHANGED pipeLock /\ PGoto(s, "clean in")
  BY <1>2, MoveKeeps DEF Reserve, ServerPlaces
<1> QED
  BY <1>1, <1>2 DEF Reserve

\* A new listen starts with no name made, under the lock it already has.
LEMMA BeginListenKeeps ==
  ASSUME PipeInv, NEW s \in PipeServers, BeginListen(s) PROVE PipeInv'
<1> USE DEF PipeInv
<1> DEFINE r == [NoServer EXCEPT !.pc = "create in", !.listen = listens']
<1>1. /\ pserver[s].pc = "listen" /\ listens' \in Nat
      /\ UNCHANGED <<pipeLock, fifo, left>>
  BY DEF BeginListen, PAt, PipeType
<1>2. r \in PServerRecord /\ r.pc = "create in" /\ r.made = {}
  BY <1>1, NoServerTyped DEF PServerRecord, ServerPlaces
<1>3. pserver' = [pserver EXCEPT ![s] = r]
  BY DEF BeginListen
<1> HIDE DEF r
<1>4. pserver' \in [PipeServers -> PServerRecord] /\ pserver'[s] = r /\ Rest(s)
  BY <1>2, <1>3, Assigned
<1>5. PipeType'
  BY <1>1, <1>4 DEF PipeType
<1>6. NameLockInv'
  BY <1>1, <1>2, <1>4 DEF NameLockInv, HoldsName, Rest
<1>7. NamesKept'
  BY <1>1, <1>2, <1>4 DEF NamesKept, Rest
<1>8. HasMade'
  BY <1>2, <1>4 DEF HasMade, Rest
<1>9. NamesTaken'
  BY <1>1, <1>2, <1>4 DEF NamesTaken, Rest
<1>10. ASSUME NEW w \in Ways PROVE Accounted(w)'
  BY <1>1, <1>4, AccountKept DEF Rest
<1> QED
  BY <1>5, <1>6, <1>7, <1>8, <1>9, <1>10

\* Whoever makes a name holds the lock: no other server has made one.
LEMMA MadeAlone ==
  ASSUME PipeInv, NEW s \in PipeServers, HoldsName(s)
  PROVE  \A t \in PipeServers \ {s} : ~HoldsName(t) /\ pserver[t].made = {}
  BY DEF PipeInv, NameLockInv

LEMMA CreateKeeps ==
  ASSUME PipeInv, NEW s \in PipeServers, CreateIn(s) \/ CreateOut(s) PROVE PipeInv'
<1> USE DEF PipeInv
<1> DEFINE Creating(w, now, next) ==
      \/ w = "in" /\ now = "create in" /\ next = "create out"
      \/ w = "out" /\ now = "create out" /\ next = "open in"
<1> SUFFICES ASSUME NEW w \in Ways, NEW now \in ServerPlaces, NEW next \in ServerPlaces,
                    Creating(w, now, next), Create(s, w, now, next)
             PROVE  PipeInv'
  BY DEF CreateIn, CreateOut, ServerPlaces, Ways
<1>1. /\ pserver[s].pc = now /\ UNCHANGED <<pipeLock, listens, left>>
      /\ HoldsName(s) /\ pserver[s] \in PServerRecord
  BY DEF Create, PAt, HoldsName, PipeType
<1>2. \A t \in PipeServers \ {s} : ~HoldsName(t) /\ pserver[t].made = {}
  BY <1>1, MadeAlone
<1>3. CASE fifo' = [fifo EXCEPT ![w] = None] /\ PGoto(s, "clean in")
  <2>1. pserver' \in [PipeServers -> PServerRecord] /\ Moved(s, "clean in")
    BY <1>3, GotoMoves DEF ServerPlaces
  <2>2. /\ fifo' \in [Ways -> Int] /\ fifo'[w] = None
        /\ \A v \in Ways \ {w} : fifo'[v] = fifo[v]
    BY <1>3, NumbersTyped, NamedTyped
  <2> PipeType'
    BY <1>1, <2>1, <2>2 DEF PipeType
  <2>3. NameLockInv'
    BY <1>1, <2>1 DEF NameLockInv, HoldsName, Moved, Rest
  <2>4. NamesKept'
    BY <1>2, <2>1 DEF NamesKept, Moved, Rest, HoldsName
  <2>5. HasMade'
    BY <2>1 DEF HasMade, Moved, Rest
  <2>6. NamesTaken'
    BY <1>2, <2>1, <2>2 DEF NamesTaken, Moved, Rest, HoldsName, Ways
  <2>7. ASSUME NEW v \in Ways PROVE Accounted(v)'
    BY <1>1, <2>1, <2>2, AccountKept DEF Moved, Rest
  <2> QED
    BY <2>2, <2>3, <2>4, <2>5, <2>6, <2>7
<1>4. CASE UNCHANGED fifo /\ PGoto(s, "clean in")
  BY <1>1, <1>4, MoveKeeps DEF ServerPlaces
<1>5. CASE /\ fifo' = [fifo EXCEPT ![w] = pserver[s].listen]
           /\ pserver' = [pserver EXCEPT ![s] = [pserver[s] EXCEPT !.pc = next, !.made = @ \cup {w}]]
  <2> DEFINE r == [pserver[s] EXCEPT !.pc = next, !.made = @ \cup {w}]
  <2>1. /\ r \in PServerRecord /\ r.pc = next /\ r.made = pserver[s].made \cup {w}
        /\ r.listen = pserver[s].listen /\ r.robbed = pserver[s].robbed
    BY <1>1 DEF PServerRecord
  <2>2. pserver' = [pserver EXCEPT ![s] = r]
    BY <1>5
  <2> HIDE DEF r
  <2>3. pserver' \in [PipeServers -> PServerRecord] /\ pserver'[s] = r /\ Rest(s)
    BY <2>1, <2>2, Assigned
  <2>4. /\ fifo' \in [Ways -> Int] /\ fifo'[w] = pserver[s].listen
        /\ \A v \in Ways \ {w} : fifo'[v] = fifo[v]
    BY <1>5, NumbersTyped, NamedTyped
  <2>5. PipeType'
    BY <1>1, <2>3, <2>4 DEF PipeType
  <2>6. NameLockInv'
    BY <1>1, <2>1, <2>3 DEF NameLockInv, HoldsName, Rest
  <2>7. NamesKept'
    <3>1. ASSUME NEW t \in PipeServers, t # s
          PROVE  pserver'[t].pc \notin {"create out", "open in", "open out", "blocked"}
      BY <1>2, <2>3, <3>1 DEF Rest, HoldsName
    <3>2. ~pserver'[s].robbed => /\ next = "create out" => fifo'["in"] = pserver'[s].listen
                                 /\ next = "open in" => /\ fifo'["in"] = pserver'[s].listen
                                                        /\ fifo'["out"] = pserver'[s].listen
      BY <1>1, <2>1, <2>3, <2>4 DEF NamesKept, Ways
    <3> QED
      BY <2>1, <2>3, <3>1, <3>2 DEF NamesKept
  <2>8. HasMade'
    BY <1>1, <2>1, <2>3 DEF HasMade, Rest
  <2>9. NamesTaken'
    <3>1. ASSUME NEW t \in PipeServers, t # s
          PROVE  pserver'[t].made = {} /\ pserver'[t].pc # "unlink out"
      BY <1>2, <2>3, <3>1 DEF Rest, HoldsName
    <3> QED
      BY <2>1, <2>3, <3>1 DEF NamesTaken
  <2>10. ASSUME NEW v \in Ways PROVE Accounted(v)'
    <3>1. CASE v = w
      BY <2>1, <2>3, <2>4, <3>1 DEF Accounted
    <3>2. CASE v # w
      BY <1>1, <2>1, <2>3, <2>4, <3>2, AccountKept DEF Rest
    <3> QED
      BY <3>1, <3>2
  <2> QED
    BY <2>5, <2>6, <2>7, <2>8, <2>9, <2>10
<1> QED
  BY <1>3, <1>4, <1>5 DEF Create

\* open gives the server the FIFO that has the name now.
LEMMA OpenKeeps ==
  ASSUME PipeInv, NEW s \in PipeServers, OpenIn(s) \/ OpenOut(s) PROVE PipeInv'
<1> USE DEF PipeInv
<1>1. /\ UNCHANGED <<pipeLock, fifo, listens, left>> /\ pserver[s] \in PServerRecord
      /\ \A w \in Ways : fifo[w] \in Int
  BY DEF OpenIn, OpenOut, PipeType
<1>2. CASE PGoto(s, "clean in")
  BY <1>1, <1>2, MoveKeeps DEF ServerPlaces
<1>3. ASSUME NEW r \in PServerRecord, pserver' = [pserver EXCEPT ![s] = r],
             r.made = pserver[s].made, r.listen = pserver[s].listen, r.robbed = pserver[s].robbed,
             \/ pserver[s].pc = "open in" /\ r.pc = "open out" /\ r.read = fifo["in"]
             \/ /\ pserver[s].pc = "open out" /\ r.pc = "blocked"
                /\ r.read = pserver[s].read /\ r.write = fifo["out"]
      PROVE  PipeInv'
  <2>1. pserver' \in [PipeServers -> PServerRecord] /\ pserver'[s] = r /\ Rest(s)
    BY <1>3, Assigned
  <2>2. PipeType'
    BY <1>1, <2>1 DEF PipeType
  <2>3. NameLockInv'
    BY <1>1, <1>3, <2>1 DEF NameLockInv, HoldsName, Rest
  <2>4. NamesKept'
    BY <1>1, <1>3, <2>1 DEF NamesKept, Rest
  <2>5. HasMade'
    BY <1>3, <2>1 DEF HasMade, Rest
  <2>6. NamesTaken'
    BY <1>1, <1>3, <2>1 DEF NamesTaken, Rest
  <2>7. ASSUME NEW w \in Ways PROVE Accounted(w)'
    BY <1>1, <1>3, <2>1, AccountKept DEF Rest
  <2> QED
    BY <2>2, <2>3, <2>4, <2>5, <2>6, <2>7
<1>4. CASE /\ PAt(s, "open in")
           /\ pserver' = [pserver EXCEPT ![s] = [@ EXCEPT !.pc = "open out", !.read = fifo["in"]]]
  <2> DEFINE r == [pserver[s] EXCEPT !.pc = "open out", !.read = fifo["in"]]
  <2>1. /\ r \in PServerRecord /\ r.pc = "open out" /\ r.made = pserver[s].made
        /\ r.listen = pserver[s].listen /\ r.robbed = pserver[s].robbed /\ r.read = fifo["in"]
    BY <1>1 DEF PServerRecord, ServerPlaces, Ways
  <2>2. pserver' = [pserver EXCEPT ![s] = r] /\ pserver[s].pc = "open in"
    BY <1>4 DEF PAt
  <2> HIDE DEF r
  <2> QED
    BY <1>3, <2>1, <2>2
<1>5. CASE /\ PAt(s, "open out")
           /\ pserver' = [pserver EXCEPT ![s] = [@ EXCEPT !.pc = "blocked", !.write = fifo["out"]]]
  <2> DEFINE r == [pserver[s] EXCEPT !.pc = "blocked", !.write = fifo["out"]]
  <2>1. /\ r \in PServerRecord /\ r.pc = "blocked" /\ r.made = pserver[s].made
        /\ r.listen = pserver[s].listen /\ r.robbed = pserver[s].robbed
        /\ r.read = pserver[s].read /\ r.write = fifo["out"]
    BY <1>1 DEF PServerRecord, ServerPlaces, Ways
  <2>2. pserver' = [pserver EXCEPT ![s] = r] /\ pserver[s].pc = "open out"
    BY <1>5 DEF PAt
  <2> HIDE DEF r
  <2> QED
    BY <1>3, <2>1, <2>2
<1> QED
  BY <1>2, <1>4, <1>5 DEF OpenIn, OpenOut

LEMMA TakeKeeps ==
  ASSUME PipeInv, NEW s \in PipeServers, TakeNames(s) PROVE PipeInv'
<1> USE DEF PipeInv
<1> DEFINE OneOf(w, now, next) == \/ w = "in" /\ now = "unlink in" /\ next = "unlink out"
                                  \/ w = "out" /\ now = "unlink out" /\ next = "session"
<1> SUFFICES ASSUME NEW w \in Ways, NEW now \in ServerPlaces, NEW next \in ServerPlaces,
                    OneOf(w, now, next), TakeName(s, w, now, next)
             PROVE  PipeInv'
  BY DEF TakeNames, ServerPlaces, Ways
<1>1. /\ pserver[s].pc = now /\ UNCHANGED <<pipeLock, listens, left>> /\ HoldsName(s)
      /\ fifo' = [fifo EXCEPT ![w] = None] /\ PGoto(s, next)
  BY DEF TakeName, PAt, HoldsName
<1>2. \A t \in PipeServers \ {s} : ~HoldsName(t) /\ pserver[t].made = {}
  BY <1>1, MadeAlone
<1>3. pserver' \in [PipeServers -> PServerRecord] /\ Moved(s, next)
  BY <1>1, GotoMoves
<1>4. /\ fifo' \in [Ways -> Int] /\ fifo'[w] = None
      /\ \A v \in Ways \ {w} : fifo'[v] = fifo[v]
  BY <1>1, NumbersTyped, NamedTyped
<1>5. PipeType'
  BY <1>1, <1>3, <1>4 DEF PipeType
<1>6. NameLockInv'
  BY <1>1, <1>3 DEF NameLockInv, HoldsName, Moved, Rest
<1>7. NamesKept'
  BY <1>2, <1>3 DEF NamesKept, Moved, Rest, HoldsName
<1>8. HasMade'
  BY <1>3 DEF HasMade, Moved, Rest
<1>9. NamesTaken'
  BY <1>2, <1>3, <1>4 DEF NamesTaken, Moved, Rest, HoldsName
<1>10. ASSUME NEW v \in Ways PROVE Accounted(v)'
  <2>1. next = "session" => \A u \in Ways : fifo'[u] = None
    BY <1>1, <1>4 DEF NamesTaken, Ways
  <2>2. CASE fifo'[v] = None
    BY <2>2 DEF Accounted
  <2>3. CASE fifo'[v] # None
    <3>1. fifo'[v] = fifo[v] /\ next = "unlink out" /\ left' = left
      BY <1>1, <1>4, <2>1, <2>3
    <3>2. ASSUME NEW t \in PipeServers
          PROVE  /\ pserver'[t].made = pserver[t].made /\ pserver'[t].listen = pserver[t].listen
                 /\ pserver'[t].pc = pserver[t].pc \/ pserver'[t].pc = "unlink out"
      BY <1>3, <3>1 DEF Moved, Rest
    <3>3. CASE fifo[v] \in {None, Regular} \cup left
      BY <3>1, <3>3 DEF Accounted
    <3>4. CASE \E t \in PipeServers :
                 /\ v \in pserver[t].made /\ pserver[t].listen = fifo[v]
                 /\ pserver[t].pc \notin {"off", "session", "disconnect", "listen"}
      BY <3>1, <3>2, <3>4 DEF Accounted
    <3> QED
      BY <3>3, <3>4 DEF Accounted
  <2> QED
    BY <2>2, <2>3
<1> QED
  BY <1>5, <1>6, <1>7, <1>8, <1>9, <1>10

LEMMA PClosedTyped ==
  ASSUME NEW q \in PServerRecord, NEW pc \in ServerPlaces
  PROVE  LET r == [q EXCEPT !.pc = pc, !.read = None, !.write = None]
         IN  /\ r \in PServerRecord /\ r.pc = pc /\ r.made = q.made /\ r.listen = q.listen
<1> None \in Int
  BY DEF None
<1> QED
  BY DEF PServerRecord

\* A failed listen removes only names it has made, so nobody else waits behind them.
LEMMA CleanKeeps ==
  ASSUME PipeInv, NEW s \in PipeServers,
         Clean(s, "in", "clean in", "clean out") \/ Clean(s, "out", "clean out", "close")
  PROVE  PipeInv'
<1> USE DEF PipeInv
<1> DEFINE OneOf(w, now, next) == \/ w = "in" /\ now = "clean in" /\ next = "clean out"
                                  \/ w = "out" /\ now = "clean out" /\ next = "close"
<1> SUFFICES ASSUME NEW w \in Ways, NEW now \in ServerPlaces, NEW next \in ServerPlaces,
                    OneOf(w, now, next), Clean(s, w, now, next)
             PROVE  PipeInv'
  BY DEF ServerPlaces, Ways
<1> DEFINE r == [pserver[s] EXCEPT !.pc = next, !.read = None, !.write = None]
<1>1. /\ pserver[s].pc = now /\ UNCHANGED <<pipeLock, listens, left>>
      /\ fifo' = IF w \in pserver[s].made THEN [fifo EXCEPT ![w] = None] ELSE fifo
      /\ pserver' = [pserver EXCEPT ![s] = r]
  BY DEF Clean, PAt
<1>2. pserver[s].made # {} => \A t \in PipeServers \ {s} : ~HoldsName(t) /\ pserver[t].made = {}
  BY DEF NameLockInv
<1>3. pserver[s] \in PServerRecord
  BY DEF PipeType
<1>4. /\ r \in PServerRecord /\ r.pc = next /\ r.made = pserver[s].made
      /\ r.listen = pserver[s].listen
  BY <1>3, PClosedTyped
<1> HIDE DEF r
<1>5. pserver' \in [PipeServers -> PServerRecord] /\ pserver'[s] = r /\ Rest(s)
  BY <1>1, <1>4, Assigned
<1>6. /\ fifo' \in [Ways -> Int] /\ (w \in pserver[s].made => fifo'[w] = None)
      /\ \A v \in Ways : v # w \/ w \notin pserver[s].made => fifo'[v] = fifo[v]
  <2>1. CASE w \in pserver[s].made
    BY <1>1, <2>1, NumbersTyped, NamedTyped
  <2>2. CASE w \notin pserver[s].made
    BY <1>1, <2>2 DEF PipeType
  <2> QED
    BY <2>1, <2>2
<1>7. PipeType'
  BY <1>1, <1>5, <1>6 DEF PipeType
<1>8. NameLockInv'
  BY <1>1, <1>4, <1>5 DEF NameLockInv, HoldsName, Rest
<1>9. NamesKept'
  <2>1. ASSUME NEW t \in PipeServers, t # s, HoldsName(t)
        PROVE  pserver'[t] = pserver[t] /\ \A v \in Ways : fifo'[v] = fifo[v]
    BY <1>2, <1>5, <1>6, <2>1 DEF Rest
  <2>2. ASSUME NEW t \in PipeServers, ~HoldsName(t) \/ t = s PROVE ~HoldsName(t)'
    BY <1>4, <1>5, <2>2 DEF Rest, HoldsName
  <2> QED
    BY <2>1, <2>2 DEF NamesKept, HoldsName, Ways
<1>10. HasMade'
  BY <1>4, <1>5 DEF HasMade, Rest
<1>11. NamesTaken'
  <2>1. ASSUME NEW v \in Ways, fifo[v] = None PROVE fifo'[v] = None
    BY <1>6, <2>1
  <2>2. ASSUME NEW t \in PipeServers, t # s PROVE pserver'[t] = pserver[t]
    BY <1>5, <2>2 DEF Rest
  <2>3. /\ r.pc \in {"clean out", "close"} /\ "in" \in r.made => fifo'["in"] = None
        /\ r.pc = "close" /\ "out" \in r.made => fifo'["out"] = None
    BY <1>1, <1>4, <1>6, <2>1 DEF NamesTaken, Ways
  <2>4. r.pc \notin {"unlink out", "stop out"}
    BY <1>4
  <2> QED
    BY <1>5, <2>1, <2>2, <2>3, <2>4 DEF NamesTaken, Ways
<1>12. ASSUME NEW v \in Ways PROVE Accounted(v)'
  BY <1>1, <1>4, <1>5, <1>6, AccountKept DEF Rest
<1> QED
  BY <1>7, <1>8, <1>9, <1>10, <1>11, <1>12

\* The end of a server, of its listen or of its session: what it had made is gone, or it
\* was killed and its names are marked as left.
LEMMA EndKeeps ==
  ASSUME PipeInv, NEW s \in PipeServers, NEW r \in PServerRecord,
         pserver' = [pserver EXCEPT ![s] = r], r.made = {},
         \/ r.pc = "off" /\ pipeLock' = pipeLock \ {s}
         \/ r.pc = "listen" /\ HoldsName(s) /\ UNCHANGED pipeLock,
         UNCHANGED <<fifo, listens>>,
         \A w \in Ways : fifo[w] \in left => fifo[w] \in left',
         \A w \in Ways : \/ w \notin pserver[s].made \/ fifo[w] = None
                         \/ pserver[s].pc \in {"off", "session", "disconnect", "listen"}
                         \/ pserver[s].listen # fifo[w]
                         \/ fifo[w] \in left'
  PROVE  PipeInv'
<1> USE DEF PipeInv
<1>1. pserver' \in [PipeServers -> PServerRecord] /\ pserver'[s] = r /\ Rest(s)
  BY Assigned
<1>2. PipeType'
  BY <1>1 DEF PipeType
<1>3. NameLockInv'
  BY <1>1 DEF NameLockInv, HoldsName, Rest
<1>4. NamesKept'
  BY <1>1 DEF NamesKept, Rest
<1>5. HasMade'
  BY <1>1 DEF HasMade, Rest
<1>6. NamesTaken'
  BY <1>1 DEF NamesTaken, Rest
<1>7. ASSUME NEW w \in Ways PROVE Accounted(w)'
  <2>1. CASE fifo[w] = None
    BY <2>1 DEF Accounted
  <2>2. CASE fifo[w] # None
    BY <1>1, <2>2, AccountKept DEF Rest
  <2> QED
    BY <2>1, <2>2
<1> QED
  BY <1>2, <1>3, <1>4, <1>5, <1>6, <1>7

LEMMA CloseKeeps ==
  ASSUME PipeInv, NEW s \in PipeServers, Fail(s) PROVE PipeInv'
<1>1. CASE Clean(s, "in", "clean in", "clean out") \/ Clean(s, "out", "clean out", "close")
  BY <1>1, CleanKeeps
<1>2. CASE /\ PAt(s, "close") /\ pipeLock' = pipeLock \ {s}
           /\ pserver' = [pserver EXCEPT ![s] = NoServer]
           /\ UNCHANGED <<fifo, listens, left>>
  <2>1. \A w \in Ways : w \in pserver[s].made => fifo[w] = None
    BY <1>2 DEF PipeInv, NamesTaken, PAt, Ways
  <2> QED
    BY <1>2, <2>1, NoServerTyped, EndKeeps
<1> QED
  BY <1>1, <1>2 DEF Fail

LEMMA DisconnectKeeps ==
  ASSUME PipeInv, NEW s \in PipeServers, Disconnect(s) PROVE PipeInv'
<1> DEFINE r == [NoServer EXCEPT !.pc = "listen"]
<1>1. r \in PServerRecord /\ r.pc = "listen" /\ r.made = {}
  BY NoServerTyped DEF PServerRecord, ServerPlaces
<1>2. pserver[s].pc = "disconnect" /\ HoldsName(s)
  BY DEF Disconnect, PAt, HoldsName
<1>3. pserver' = [pserver EXCEPT ![s] = r] /\ UNCHANGED <<pipeLock, fifo, listens, left>>
  BY DEF Disconnect
<1> HIDE DEF r
<1> QED
  BY <1>1, <1>2, <1>3, EndKeeps

LEMMA KillKeeps ==
  ASSUME PipeInv, NEW s \in PipeServers, KillServer(s) PROVE PipeInv'
<1>1. /\ pserver' = [pserver EXCEPT ![s] = NoServer] /\ pipeLock' = pipeLock \ {s}
      /\ UNCHANGED <<fifo, listens>>
      /\ left' = (left \cup {pserver[s].listen}) \cap {fifo["in"], fifo["out"]}
  BY DEF KillServer, Dead
<1>2. \A w \in Ways : fifo[w] \in left \cup {pserver[s].listen} => fifo[w] \in left'
  BY <1>1 DEF Ways
<1> QED
  BY <1>1, <1>2, NoServerTyped, EndKeeps

-----------------------------------------------------------------------------
(* The stop signal                                                         *)

RobbedFrom(t, s, w, after) ==
  /\ pserver'[t].pc = after[t].pc /\ pserver'[t].made = after[t].made
  /\ pserver'[t].listen = after[t].listen
  /\ pserver'[t].read = after[t].read /\ pserver'[t].write = after[t].write
  /\ ~pserver'[t].robbed =>
       /\ ~after[t].robbed
       /\ t # s /\ w \in pserver[t].made => fifo[w] # pserver[t].listen

LEMMA RobbedIs ==
  ASSUME NEW s \in PipeServers, NEW w \in Ways,
         NEW after \in [PipeServers -> PServerRecord],
         pserver' = Robbed(s, w, after)
  PROVE  /\ pserver' \in [PipeServers -> PServerRecord]
         /\ \A t \in PipeServers : RobbedFrom(t, s, w, after)
<1> DEFINE Taken(t) == t # s /\ w \in pserver[t].made /\ fifo[w] = pserver[t].listen
<1>1. pserver' = [t \in PipeServers |-> [after[t] EXCEPT !.robbed = @ \/ Taken(t)]]
  BY DEF Robbed
<1>2. ASSUME NEW t \in PipeServers
      PROVE  /\ pserver'[t] \in PServerRecord
             /\ pserver'[t].pc = after[t].pc /\ pserver'[t].made = after[t].made
             /\ pserver'[t].listen = after[t].listen
             /\ pserver'[t].read = after[t].read /\ pserver'[t].write = after[t].write
             /\ pserver'[t].robbed = (after[t].robbed \/ Taken(t))
  <2> DEFINE b == after[t].robbed \/ Taken(t)
  <2>1. pserver'[t] = [after[t] EXCEPT !.robbed = b]
    BY <1>1
  <2>2. b \in BOOLEAN /\ after[t] \in PServerRecord
    OBVIOUS
  <2> HIDE DEF b
  <2>3. /\ pserver'[t] \in PServerRecord /\ pserver'[t].robbed = b
        /\ pserver'[t].pc = after[t].pc /\ pserver'[t].made = after[t].made
        /\ pserver'[t].listen = after[t].listen
        /\ pserver'[t].read = after[t].read /\ pserver'[t].write = after[t].write
    BY <2>1, <2>2 DEF PServerRecord
  <2> QED
    BY <2>3 DEF b
<1>3. pserver' \in [PipeServers -> PServerRecord]
  BY <1>1, <1>2
<1> QED
  BY <1>2, <1>3 DEF RobbedFrom

\* Whose names are removed is robbed, unless they are the signalled server's own.
LEMMA RemoveKeeps ==
  ASSUME PipeInv, NEW s \in PipeServers, NEW w \in Ways,
         NEW after \in [PipeServers -> PServerRecord],
         \A t \in PipeServers \ {s} : after[t] = pserver[t],
         \/ w = "in" /\ after[s].pc = "stop out" /\ after[s].made = pserver[s].made
            /\ after[s].listen = pserver[s].listen /\ UNCHANGED pipeLock
         \/ after[s].pc = "off" /\ after[s].made = {} /\ pipeLock' = pipeLock \ {s}
            /\ (w = "out" /\ pserver[s].pc = "stop out"),
         pserver' = Robbed(s, w, after),
         fifo' = [fifo EXCEPT ![w] = None], UNCHANGED <<listens, left>>
  PROVE  PipeInv'
<1> USE DEF PipeInv
<1>1. pserver' \in [PipeServers -> PServerRecord] /\ \A t \in PipeServers : RobbedFrom(t, s, w, after)
  BY RobbedIs
<1>2. /\ fifo' \in [Ways -> Int] /\ fifo'[w] = None
      /\ \A v \in Ways \ {w} : fifo'[v] = fifo[v]
  BY NumbersTyped, NamedTyped
<1>3. ASSUME NEW t \in PipeServers, t # s
      PROVE  /\ pserver'[t].pc = pserver[t].pc /\ pserver'[t].made = pserver[t].made
             /\ pserver'[t].listen = pserver[t].listen
             /\ pserver'[t].read = pserver[t].read /\ pserver'[t].write = pserver[t].write
             /\ ~pserver'[t].robbed =>
                  /\ ~pserver[t].robbed
                  /\ w \in pserver[t].made => fifo[w] # pserver[t].listen
  BY <1>1, <1>3 DEF RobbedFrom
<1>4. /\ pserver'[s].pc \in {"off", "stop out"}
      /\ pserver'[s].pc = "off" =>
           /\ pserver'[s].made = {} /\ pipeLock' = pipeLock \ {s}
           /\ w = "out" /\ pserver[s].pc = "stop out"
      /\ pserver'[s].pc = "stop out" =>
           /\ w = "in" /\ pserver'[s].made = pserver[s].made /\ UNCHANGED pipeLock
           /\ pserver'[s].listen = pserver[s].listen
  BY <1>1 DEF RobbedFrom
<1>5. PipeType'
  BY <1>1, <1>2 DEF PipeType
<1>6. NameLockInv'
  BY <1>3, <1>4 DEF NameLockInv, HoldsName
<1>7. NamesKept'
  <2>1. ASSUME NEW t \in PipeServers, t # s, ~pserver'[t].robbed
        PROVE  /\ pserver[t].pc \in {"create out", "open in", "open out", "blocked"} => w # "in"
               /\ pserver[t].pc \in {"open in", "open out", "blocked"} => w # "out"
    BY <1>3, <2>1 DEF NamesKept, HasMade
  <2>2. ASSUME NEW t \in PipeServers, t # s, ~pserver'[t].robbed
        PROVE  /\ pserver[t].pc \in {"create out", "open in", "open out", "blocked"} =>
                    fifo'["in"] = fifo["in"]
               /\ pserver[t].pc \in {"open in", "open out", "blocked"} =>
                    fifo'["out"] = fifo["out"]
    BY <1>2, <2>1, <2>2 DEF Ways
  <2> QED
    <3> SUFFICES ASSUME NEW t \in PipeServers, ~pserver'[t].robbed
                 PROVE  /\ pserver'[t].pc \in {"create out", "open in", "open out", "blocked"} =>
                             fifo'["in"] = pserver'[t].listen
                        /\ pserver'[t].pc \in {"open in", "open out", "blocked"} =>
                             fifo'["out"] = pserver'[t].listen
                        /\ pserver'[t].pc \in {"open out", "blocked"} =>
                             pserver'[t].read = pserver'[t].listen
                        /\ pserver'[t].pc = "blocked" => pserver'[t].write = pserver'[t].listen
      BY DEF NamesKept
    <3>1. CASE t = s
      BY <1>4, <3>1
    <3>2. CASE t # s
      <4>1. ~pserver[t].robbed
        BY <1>3, <3>2
      <4>2. /\ pserver[t].pc \in {"create out", "open in", "open out", "blocked"} =>
                 fifo["in"] = pserver[t].listen
            /\ pserver[t].pc \in {"open in", "open out", "blocked"} => fifo["out"] = pserver[t].listen
            /\ pserver[t].pc \in {"open out", "blocked"} => pserver[t].read = pserver[t].listen
            /\ pserver[t].pc = "blocked" => pserver[t].write = pserver[t].listen
        BY <4>1 DEF NamesKept
      <4> QED
        BY <1>3, <2>2, <3>2, <4>2
    <3> QED
      BY <3>1, <3>2
<1>8. HasMade'
  BY <1>3, <1>4 DEF HasMade
<1>9. NamesTaken'
  <2>1. \A v \in Ways : fifo[v] = None => fifo'[v] = None
    BY <1>2
  <2>2. pserver'[s].pc = "stop out" => fifo'["in"] = None
    BY <1>2, <1>4
  <2> QED
    BY <1>3, <1>4, <2>1, <2>2 DEF NamesTaken, Ways
<1>10. ASSUME NEW v \in Ways PROVE Accounted(v)'
  <2>1. CASE v = w
    BY <1>2, <2>1, AccountKept
  <2>2. CASE v # w
    <3>1. pserver'[s].pc = "off" => v = "in"
      BY <1>4, <2>2 DEF Ways
    <3>2. pserver'[s].pc = "off" /\ v \in pserver[s].made => fifo[v] = None
      BY <3>1, <1>4 DEF NamesTaken
    <3>3. CASE fifo[v] = None
      BY <1>2, <2>2, <3>3 DEF Accounted
    <3>4. ASSUME NEW t \in PipeServers, v \in pserver[t].made, pserver[t].listen = fifo[v],
                 pserver[t].pc \notin {"off", "session", "disconnect", "listen"}, fifo[v] # None
          PROVE  /\ v \in pserver'[t].made /\ pserver'[t].listen = fifo[v]
                 /\ pserver'[t].pc \notin {"off", "session", "disconnect", "listen"}
      <4>1. CASE t # s
        BY <1>3, <3>4, <4>1
      <4>2. CASE t = s
        BY <1>4, <3>2, <3>4, <4>2
      <4> QED
        BY <4>1, <4>2
    <3>5. CASE fifo[v] # None
      BY <1>2, <2>2, <3>4, <3>5, AccountKept
    <3> QED
      BY <3>3, <3>5
  <2> QED
    BY <2>1, <2>2
<1> QED
  BY <1>5, <1>6, <1>7, <1>8, <1>9, <1>10

LEMMA StopKeeps ==
  ASSUME PipeInv, NEW s \in PipeServers, RemoveIn(s) \/ RemoveOut(s) PROVE PipeInv'
<1>1. pserver \in [PipeServers -> PServerRecord]
  BY DEF PipeInv, PipeType
<1>2. CASE RemoveIn(s)
  <2> DEFINE q == [pserver[s] EXCEPT !.pc = "stop out"]
             after == [pserver EXCEPT ![s] = q]
  <2>1. /\ q \in PServerRecord /\ q.pc = "stop out" /\ q.made = pserver[s].made
        /\ q.listen = pserver[s].listen
    BY <1>1, PcTyped DEF ServerPlaces
  <2>2. [pserver EXCEPT ![s].pc = "stop out"] = after
    OBVIOUS
  <2> HIDE DEF q
  <2>3. /\ after[s] = q /\ \A t \in PipeServers \ {s} : after[t] = pserver[t]
        /\ after \in [PipeServers -> PServerRecord]
    BY <1>1, <2>1
  <2>4. /\ pserver' = Robbed(s, "in", after) /\ fifo' = [fifo EXCEPT !["in"] = None]
        /\ UNCHANGED <<pipeLock, listens, left>> /\ "in" \in Ways
    BY <1>2, <2>2 DEF RemoveIn, Ways
  <2> HIDE DEF after
  <2> QED
    BY <2>1, <2>3, <2>4, RemoveKeeps
<1>3. CASE RemoveOut(s)
  <2> DEFINE after == Dead(s)
  <2>1. /\ after[s] = NoServer /\ \A t \in PipeServers \ {s} : after[t] = pserver[t]
        /\ after \in [PipeServers -> PServerRecord]
    BY <1>1, NoServerTyped DEF Dead
  <2>2. /\ pserver' = Robbed(s, "out", after) /\ fifo' = [fifo EXCEPT !["out"] = None]
        /\ pipeLock' = pipeLock \ {s}
        /\ UNCHANGED <<listens, left>> /\ "out" \in Ways /\ pserver[s].pc = "stop out"
    BY <1>3 DEF RemoveOut, Ways, PAt
  <2> HIDE DEF after
  <2> QED
    BY <2>1, <2>2, NoServerTyped, RemoveKeeps
<1> QED
  BY <1>2, <1>3

-----------------------------------------------------------------------------
(* The clients                                                             *)

\* A client only marks that it has met a server.
LEMMA MeetIs ==
  ASSUME PipeType, NEW w \in Ways, NEW f, Meet(w, f)
  PROVE  /\ pserver' \in [PipeServers -> PServerRecord]
         /\ \A t \in PipeServers :
              /\ pserver'[t].pc = pserver[t].pc /\ pserver'[t].made = pserver[t].made
              /\ pserver'[t].listen = pserver[t].listen /\ pserver'[t].robbed = pserver[t].robbed
              /\ pserver'[t].read = pserver[t].read /\ pserver'[t].write = pserver[t].write
<1>1. ASSUME NEW t \in PipeServers
      PROVE  LET r == [pserver[t] EXCEPT !.met = @ \cup {w}]
             IN  /\ r \in PServerRecord
                 /\ r.pc = pserver[t].pc /\ r.made = pserver[t].made
                 /\ r.listen = pserver[t].listen /\ r.robbed = pserver[t].robbed
                 /\ r.read = pserver[t].read /\ r.write = pserver[t].write
  <2>1. pserver[t] \in PServerRecord /\ pserver[t].met \cup {w} \in SUBSET Ways
    BY DEF PipeType, PServerRecord
  <2> QED
    BY <2>1 DEF PServerRecord
<1>2. ASSUME NEW t \in PipeServers
      PROVE  \/ pserver'[t] = [pserver[t] EXCEPT !.met = @ \cup {w}]
             \/ pserver'[t] = pserver[t]
  BY DEF Meet
<1>3. pserver \in [PipeServers -> PServerRecord]
  BY DEF PipeType
<1>4. ASSUME NEW t \in PipeServers
      PROVE  /\ pserver'[t] \in PServerRecord
             /\ pserver'[t].pc = pserver[t].pc /\ pserver'[t].made = pserver[t].made
             /\ pserver'[t].listen = pserver[t].listen /\ pserver'[t].robbed = pserver[t].robbed
             /\ pserver'[t].read = pserver[t].read /\ pserver'[t].write = pserver[t].write
  <2>1. CASE pserver'[t] = pserver[t]
    BY <1>3, <2>1
  <2>2. CASE pserver'[t] = [pserver[t] EXCEPT !.met = @ \cup {w}]
    <3> DEFINE r == [pserver[t] EXCEPT !.met = @ \cup {w}]
    <3>1. /\ r \in PServerRecord
          /\ r.pc = pserver[t].pc /\ r.made = pserver[t].made
          /\ r.listen = pserver[t].listen /\ r.robbed = pserver[t].robbed
          /\ r.read = pserver[t].read /\ r.write = pserver[t].write
      BY <1>1
    <3> HIDE DEF r
    <3>2. pserver'[t] = r
      BY <2>2 DEF r
    <3> QED
      BY <3>1, <3>2
  <2> QED
    BY <1>2, <2>1, <2>2
<1>5. DOMAIN pserver' = PipeServers /\ pserver' = [t \in PipeServers |-> pserver'[t]]
  BY DEF Meet
<1> QED
  BY <1>4, <1>5

LEMMA ClientKeeps ==
  ASSUME PipeInv, UNCHANGED <<pipeLock, fifo, listens, left>>,
         UNCHANGED pserver \/ \E w \in Ways, f \in Int : Meet(w, f)
  PROVE  PipeInv'
<1> USE DEF PipeInv
<1>1. /\ pserver' \in [PipeServers -> PServerRecord]
      /\ \A t \in PipeServers :
           /\ pserver'[t].pc = pserver[t].pc /\ pserver'[t].made = pserver[t].made
           /\ pserver'[t].listen = pserver[t].listen /\ pserver'[t].robbed = pserver[t].robbed
           /\ pserver'[t].read = pserver[t].read /\ pserver'[t].write = pserver[t].write
  BY MeetIs DEF PipeType
<1>2. PipeType'
  BY <1>1 DEF PipeType
<1>3. NameLockInv'
  BY <1>1 DEF NameLockInv, HoldsName
<1>4. NamesKept'
  BY <1>1 DEF NamesKept
<1>5. HasMade'
  BY <1>1 DEF HasMade
<1>6. NamesTaken'
  BY <1>1 DEF NamesTaken
<1>7. ASSUME NEW w \in Ways PROVE Accounted(w)'
  BY <1>1, AccountKept
<1> QED
  BY <1>2, <1>3, <1>4, <1>5, <1>6, <1>7

LEMMA OpenToWriteKeeps ==
  ASSUME PipeInv, NEW c \in PipeClients, OpenToWrite(c) \/ OpenToRead(c) PROVE PipeInv'
<1>1. UNCHANGED <<pipeLock, fifo, listens, left>>
  BY DEF OpenToWrite, OpenToRead
<1>2. fifo["in"] \in Int /\ fifo["out"] \in Int /\ "in" \in Ways /\ "out" \in Ways
  BY DEF PipeInv, PipeType, Ways
<1>3. UNCHANGED pserver \/ Meet("in", fifo["in"]) \/ Meet("out", fifo["out"])
  BY DEF OpenToWrite, OpenToRead
<1> QED
  BY <1>1, <1>2, <1>3, ClientKeeps

-----------------------------------------------------------------------------
(* Init, Next and the theorems                                             *)

LEMMA PipeInitInv == PipeInit => PipeInv
<1> SUFFICES ASSUME PipeInit PROVE PipeInv
  OBVIOUS
<1>1. /\ pipeLock = {} /\ listens = 0
      /\ pserver \in [PipeServers -> PServerRecord]
      /\ \A s \in PipeServers : pserver[s].pc = "off" /\ pserver[s].made = {}
  BY NoServerTyped DEF PipeInit
<1>2. fifo \in [Ways -> Int] /\ \A w \in Ways : fifo[w] \in {None, Regular}
  BY DEF PipeInit, None, Regular
<1>3. PipeType
  BY <1>1, <1>2 DEF PipeType
<1>4. NameLockInv
  BY <1>1 DEF NameLockInv, HoldsName
<1>5. NamesKept /\ HasMade
  BY <1>1 DEF NamesKept, HasMade
<1>6. NamesTaken
  BY <1>1 DEF NamesTaken
<1>7. \A w \in Ways : Accounted(w)
  BY <1>2 DEF Accounted
<1> QED
  BY <1>3, <1>4, <1>5, <1>6, <1>7 DEF PipeInv

LEMMA PipeStepInv == ASSUME PipeInv, [PipeNext]_pipeVars PROVE PipeInv'
<1>1. ASSUME NEW s \in PipeServers, StartServer(s) PROVE PipeInv'
  BY <1>1, MoveKeeps DEF StartServer, PAt, ServerPlaces
<1>2. ASSUME NEW s \in PipeServers, Reserve(s) PROVE PipeInv'
  BY <1>2, ReserveKeeps
<1>3. ASSUME NEW s \in PipeServers, BeginListen(s) PROVE PipeInv'
  BY <1>3, BeginListenKeeps
<1>4. ASSUME NEW s \in PipeServers, CreateIn(s) \/ CreateOut(s) PROVE PipeInv'
  BY <1>4, CreateKeeps
<1>5. ASSUME NEW s \in PipeServers, OpenIn(s) \/ OpenOut(s) PROVE PipeInv'
  BY <1>5, OpenKeeps
<1>6. ASSUME NEW s \in PipeServers, ClientIsThere(s) PROVE PipeInv'
  BY <1>6, MoveKeeps DEF ClientIsThere, PAt, ServerPlaces
<1>7. ASSUME NEW s \in PipeServers, TakeNames(s) PROVE PipeInv'
  BY <1>7, TakeKeeps
<1>8. ASSUME NEW s \in PipeServers, Fail(s) PROVE PipeInv'
  BY <1>8, CloseKeeps
<1>9. ASSUME NEW s \in PipeServers, ReadEnd(s) \/ IdleTimeout(s) PROVE PipeInv'
  BY <1>9, MoveKeeps DEF ReadEnd, IdleTimeout, PAt, ServerPlaces
<1>10. ASSUME NEW s \in PipeServers, Output(s) PROVE PipeInv'
  <2>1. UNCHANGED <<pipeLock, fifo, listens, left>> /\ pserver[s].pc = "session"
    BY <1>10 DEF Output, PAt
  <2>2. UNCHANGED pserver \/ PGoto(s, "disconnect")
    BY <1>10 DEF Output
  <2> QED
    BY <2>1, <2>2, ClientKeeps, MoveKeeps DEF ServerPlaces
<1>11. ASSUME NEW s \in PipeServers, Disconnect(s) PROVE PipeInv'
  BY <1>11, DisconnectKeeps
<1>12. ASSUME NEW s \in PipeServers, StopSignalled(s) PROVE PipeInv'
  BY <1>12, MoveKeeps DEF StopSignalled, ServerPlaces
<1>13. ASSUME NEW s \in PipeServers, RemoveIn(s) \/ RemoveOut(s) PROVE PipeInv'
  BY <1>13, StopKeeps
<1>14. ASSUME NEW s \in PipeServers, KillServer(s) PROVE PipeInv'
  BY <1>14, KillKeeps
<1>15. ASSUME NEW c \in PipeClients, OpenToWrite(c) \/ OpenToRead(c) PROVE PipeInv'
  BY <1>15, OpenToWriteKeeps
<1>16. ASSUME NEW c \in PipeClients,
              WaitConnected(c) \/ RelayOutput(c) \/ CloseWrite(c) \/ KillClient(c)
       PROVE  PipeInv'
  BY <1>16, ClientKeeps DEF WaitConnected, RelayOutput, CloseWrite, KillClient
<1>17. ASSUME UNCHANGED pipeVars PROVE PipeInv'
  BY <1>17, ClientKeeps DEF pipeVars
<1> QED
  BY <1>1, <1>2, <1>3, <1>4, <1>5, <1>6, <1>7, <1>8, <1>9, <1>10, <1>11, <1>12, <1>13, <1>14,
     <1>15, <1>16, <1>17 DEF PipeNext, ServerStepsOf

LEMMA PipeInvImplies == PipeInv => NamesAreTheListeners
<1> SUFFICES ASSUME PipeInv PROVE NamesAreTheListeners
  OBVIOUS
<1>1. ASSUME NEW s \in PipeServers, PAt(s, "blocked"), ~pserver[s].robbed
      PROVE  /\ pipeLock = {s}
             /\ fifo["in"] = pserver[s].read /\ pserver[s].read = pserver[s].listen
             /\ fifo["out"] = pserver[s].write /\ pserver[s].write = pserver[s].listen
  BY <1>1 DEF PipeInv, NameLockInv, HoldsName, NamesKept, PAt
<1> QED
  BY <1>1 DEF PipeInv, Accounted, NamesAreTheListeners

\* The names a waiting server is behind are its own unless another server's stop signal
\* took them, and only a killed server leaves a name behind (fifo_create, the cleanup of
\* a failed listen, on_stop_signal): for any number of servers, clients and listens.
THEOREM PipeListeners == PipeSpec => []NamesAreTheListeners
<1>1. PipeInv /\ [PipeNext]_pipeVars => PipeInv'
  BY PipeStepInv
<1> QED
  BY <1>1, PipeInitInv, PipeInvImplies, PTL DEF PipeSpec

\* fifo_reserve_name: of all processes that run a server of this name, at most one is
\* between its first listen and its close, so no two ever make names or serve.
THEOREM OneServer ==
  PipeSpec => [](\A s, t \in PipeServers : HoldsName(s) /\ HoldsName(t) => s = t)
<1>1. PipeInv /\ [PipeNext]_pipeVars => PipeInv'
  BY PipeStepInv
<1>2. PipeInv => \A s, t \in PipeServers : HoldsName(s) /\ HoldsName(t) => s = t
  BY DEF PipeInv, NameLockInv
<1> QED
  BY <1>1, <1>2, PipeInitInv, PTL DEF PipeSpec

-----------------------------------------------------------------------------
(* Readers: machines that take a sequence of bytes, one at a time, and say *)
(* something on each of their channels.                                    *)

Byte == 0 .. 255

(* What is said on the channels: text, requests about each option, and     *)
(* requests about anything else.                                           *)
Plain == 256
Stray == 257

Channels == {Plain, Stray} \cup Options

Words == Int \cup {"on", "off", "odd"}

Saying == [Channels -> Seq(Words)]

Nothing == [k \in Channels |-> <<>>]

One(k, word) == [j \in Channels |-> IF j = k THEN <<word>> ELSE <<>>]

Join(u, v) == [k \in Channels |-> u[k] \o v[k]]

\* m.step: where a byte leads; m.out: what it says.
IsReader(m) ==
  /\ m.step \in [m.states -> [Byte -> m.states]]
  /\ m.out \in [m.states -> [Byte -> Saying]]

\* From state x the bytes s lead to state y and say w: g are the states on the way, and
\* r is what remains to be said.
Way(m, g, r, x, s, y, w) ==
  /\ g \in [0 .. Len(s) -> m.states] /\ r \in [0 .. Len(s) -> Saying]
  /\ g[0] = x /\ r[0] = w /\ g[Len(s)] = y /\ r[Len(s)] = Nothing
  /\ \A i \in 1 .. Len(s) : /\ g[i] = m.step[g[i - 1]][s[i]]
                            /\ r[i - 1] = Join(m.out[g[i - 1]][s[i]], r[i])

Reads(m, x, s, y, w) == s \in Seq(Byte) /\ \E g, r : Way(m, g, r, x, s, y, w)

LEMMA NothingIs == Nothing \in Saying /\ \A k \in Channels : Nothing[k] = <<>>
  BY EmptySeq DEF Nothing, Saying

LEMMA OneIs ==
  ASSUME NEW k \in Channels, NEW word \in Words
  PROVE  One(k, word) \in Saying
<1>1. <<>> \in Seq(Words) /\ <<word>> \in Seq(Words)
  BY EmptySeq
<1> QED
  BY <1>1 DEF One, Saying

LEMMA JoinIs ==
  ASSUME NEW u \in Saying, NEW v \in Saying
  PROVE  /\ Join(u, v) \in Saying /\ \A k \in Channels : Join(u, v)[k] = u[k] \o v[k]
         /\ Join(u, Nothing) = u /\ Join(Nothing, v) = v
<1>1. \A k \in Channels : u[k] \in Seq(Words) /\ v[k] \in Seq(Words)
  BY DEF Saying
<1>2. \A k \in Channels : u[k] \o v[k] \in Seq(Words)
  BY <1>1, ConcatProperties
<1>3. Join(u, v) \in Saying /\ \A k \in Channels : Join(u, v)[k] = u[k] \o v[k]
  BY <1>2 DEF Join, Saying
<1>4. \A k \in Channels : u[k] \o <<>> = u[k] /\ <<>> \o v[k] = v[k]
  BY <1>1, ConcatEmptySeq
<1>5. Join(u, Nothing) = [k \in Channels |-> u[k]] /\ Join(Nothing, v) = [k \in Channels |-> v[k]]
  BY <1>4, NothingIs DEF Join
<1>6. u = [k \in Channels |-> u[k]] /\ v = [k \in Channels |-> v[k]]
  BY DEF Saying
<1> QED
  BY <1>3, <1>5, <1>6

LEMMA JoinTwice ==
  ASSUME NEW t \in Saying, NEW u \in Saying, NEW v \in Saying
  PROVE  Join(Join(t, u), v) = Join(t, Join(u, v))
<1>1. \A k \in Channels : t[k] \in Seq(Words) /\ u[k] \in Seq(Words) /\ v[k] \in Seq(Words)
  BY DEF Saying
<1> DEFINE S == Seq(Words)
<1>2. \A a, b, c \in S : (a \o b) \o c = a \o (b \o c)
  BY ConcatAssociative
<1>4. \A k \in Channels : t[k] \in S /\ u[k] \in S /\ v[k] \in S
  BY <1>1
<1> HIDE DEF S
<1>5. \A k \in Channels : (t[k] \o u[k]) \o v[k] = t[k] \o (u[k] \o v[k])
  BY <1>2, <1>4
<1>3. \A k \in Channels : Join(t, u)[k] = t[k] \o u[k] /\ Join(u, v)[k] = u[k] \o v[k]
  BY JoinIs
<1> QED
  BY <1>5, <1>3 DEF Join

\* Without bytes nothing is said.
LEMMA ReadsNothing ==
  ASSUME NEW m, IsReader(m), NEW x \in m.states
  PROVE  /\ Reads(m, x, <<>>, x, Nothing)
         /\ \A y, w : Reads(m, x, <<>>, y, w) => y = x /\ w = Nothing
<1>1. <<>> \in Seq(Byte) /\ Len(<<>>) = 0
  BY EmptySeq
<1>2. Reads(m, x, <<>>, x, Nothing)
  <2> DEFINE g == [i \in 0 .. 0 |-> x]
             r == [i \in 0 .. 0 |-> Nothing]
  <2>1. Way(m, g, r, x, <<>>, x, Nothing)
    BY <1>1, NothingIs DEF Way
  <2> QED
    BY <1>1, <2>1 DEF Reads
<1>3. ASSUME NEW y, NEW w, Reads(m, x, <<>>, y, w) PROVE y = x /\ w = Nothing
  BY <1>1, <1>3 DEF Reads, Way
<1> QED
  BY <1>2, <1>3

LEMMA ReadsTyped ==
  ASSUME NEW m, NEW x, NEW s, NEW y, NEW w, Reads(m, x, s, y, w)
  PROVE  x \in m.states /\ y \in m.states /\ w \in Saying /\ s \in Seq(Byte)
<1>1. PICK g, r : Way(m, g, r, x, s, y, w)
  BY DEF Reads
<1>2. Len(s) \in Nat /\ s \in Seq(Byte)
  BY LenProperties DEF Reads
<1> QED
  BY <1>1, <1>2 DEF Way

\* The first byte.
LEMMA ReadsFirst ==
  ASSUME NEW m, IsReader(m), NEW x, NEW s, NEW y, NEW w, Reads(m, x, s, y, w), s # <<>>
  PROVE  \E v \in Saying : /\ w = Join(m.out[x][s[1]], v)
                           /\ Reads(m, m.step[x][s[1]], Tail(s), y, v)
<1>1. PICK g, r : Way(m, g, r, x, s, y, w)
  BY DEF Reads
<1>2. s \in Seq(Byte) /\ Len(s) \in Nat /\ Len(s) >= 1
  BY EmptySeq, LenProperties DEF Reads
<1> DEFINE t == Tail(s)
           n == Len(s) - 1
           f == [i \in 0 .. n |-> g[i + 1]]
           q == [i \in 0 .. n |-> r[i + 1]]
<1>3. t \in Seq(Byte) /\ Len(t) = n /\ \A i \in 1 .. n : t[i] = s[i + 1]
  BY <1>2, HeadTailProperties
<1>4. /\ g \in [0 .. Len(s) -> m.states] /\ r \in [0 .. Len(s) -> Saying]
      /\ g[0] = x /\ r[0] = w /\ g[Len(s)] = y /\ r[Len(s)] = Nothing
      /\ \A i \in 1 .. Len(s) : /\ g[i] = m.step[g[i - 1]][s[i]]
                                /\ r[i - 1] = Join(m.out[g[i - 1]][s[i]], r[i])
  BY <1>1 DEF Way
<1>5. f \in [0 .. n -> m.states] /\ q \in [0 .. n -> Saying]
  BY <1>2, <1>4
<1>6. f[0] = g[1] /\ q[0] = r[1] /\ f[n] = y /\ q[n] = Nothing
  BY <1>2, <1>4
<1>7. ASSUME NEW i \in 1 .. n
      PROVE  f[i] = m.step[f[i - 1]][t[i]] /\ q[i - 1] = Join(m.out[f[i - 1]][t[i]], q[i])
  <2>1. /\ f[i] = g[i + 1] /\ f[i - 1] = g[i] /\ q[i] = r[i + 1] /\ q[i - 1] = r[i]
        /\ t[i] = s[i + 1] /\ i + 1 \in 1 .. Len(s)
    BY <1>2, <1>3
  <2>2. g[i + 1] = m.step[g[i]][s[i + 1]] /\ r[i] = Join(m.out[g[i]][s[i + 1]], r[i + 1])
    BY <1>4, <2>1
  <2> QED
    BY <2>1, <2>2
<1>8. g[1] = m.step[x][s[1]] /\ w = Join(m.out[x][s[1]], r[1]) /\ r[1] \in Saying
  BY <1>2, <1>4
<1> HIDE DEF t, n, f, q
<1>9. Way(m, f, q, m.step[x][s[1]], t, y, r[1])
  BY <1>3, <1>5, <1>6, <1>7, <1>8 DEF Way
<1>10. Reads(m, m.step[x][s[1]], t, y, r[1])
  BY <1>3, <1>9 DEF Reads
<1> QED
  BY <1>8, <1>10 DEF t

\* One byte more in front.
LEMMA ReadsOneMore ==
  ASSUME NEW m, IsReader(m), NEW x \in m.states, NEW b \in Byte, NEW s, NEW y, NEW w,
         Reads(m, m.step[x][b], s, y, w)
  PROVE  Reads(m, x, <<b>> \o s, y, Join(m.out[x][b], w))
<1>1. PICK g, r : Way(m, g, r, m.step[x][b], s, y, w)
  BY DEF Reads
<1>2. s \in Seq(Byte) /\ Len(s) \in Nat /\ <<b>> \in Seq(Byte) /\ Len(<<b>>) = 1 /\ <<b>>[1] = b
  BY LenProperties DEF Reads
<1> DEFINE t == <<b>> \o s
           n == Len(s) + 1
           u == Join(m.out[x][b], w)
           f == [i \in 0 .. n |-> IF i = 0 THEN x ELSE g[i - 1]]
           q == [i \in 0 .. n |-> IF i = 0 THEN u ELSE r[i - 1]]
<1>3. t \in Seq(Byte) /\ Len(t) = n /\ t[1] = b /\ \A i \in 2 .. n : t[i] = s[i - 1]
  BY <1>2, ConcatProperties
<1>4. /\ g \in [0 .. Len(s) -> m.states] /\ r \in [0 .. Len(s) -> Saying]
      /\ g[0] = m.step[x][b] /\ r[0] = w /\ g[Len(s)] = y /\ r[Len(s)] = Nothing
      /\ \A i \in 1 .. Len(s) : /\ g[i] = m.step[g[i - 1]][s[i]]
                                /\ r[i - 1] = Join(m.out[g[i - 1]][s[i]], r[i])
  BY <1>1 DEF Way
<1>5. u \in Saying
  <2>1. w \in Saying
    BY <1>2, <1>4
  <2>2. m.out[x][b] \in Saying
    BY DEF IsReader
  <2> QED
    BY <2>1, <2>2, JoinIs
<1> HIDE DEF u
<1>6. f \in [0 .. n -> m.states] /\ q \in [0 .. n -> Saying]
  BY <1>2, <1>4, <1>5
<1>7. f[0] = x /\ q[0] = u /\ f[n] = y /\ q[n] = Nothing
  BY <1>2, <1>4
<1>8. ASSUME NEW i \in 1 .. n
      PROVE  f[i] = m.step[f[i - 1]][t[i]] /\ q[i - 1] = Join(m.out[f[i - 1]][t[i]], q[i])
  <2>1. CASE i = 1
    <3>1. f[i] = g[0] /\ f[i - 1] = x /\ q[i - 1] = u /\ q[i] = r[0] /\ t[i] = b
      BY <1>2, <1>3, <2>1
    <3> QED
      BY <1>4, <3>1 DEF u
  <2>2. CASE i # 1
    <3>1. /\ f[i] = g[i - 1] /\ f[i - 1] = g[i - 2] /\ q[i] = r[i - 1] /\ q[i - 1] = r[i - 2]
          /\ t[i] = s[i - 1] /\ i - 1 \in 1 .. Len(s) /\ (i - 1) - 1 = i - 2
      BY <1>2, <1>3, <2>2
    <3>2. /\ g[i - 1] = m.step[g[i - 2]][s[i - 1]]
          /\ r[i - 2] = Join(m.out[g[i - 2]][s[i - 1]], r[i - 1])
      BY <1>4, <3>1
    <3> QED
      BY <3>1, <3>2
  <2> QED
    BY <2>1, <2>2
<1> HIDE DEF t, n, f, q
<1>9. Way(m, f, q, x, t, y, u)
  BY <1>3, <1>6, <1>7, <1>8 DEF Way
<1> QED
  BY <1>3, <1>9 DEF Reads, t, u

\* One text behind the other.
LEMMA ReadsBoth ==
  ASSUME NEW m, IsReader(m), NEW x, NEW s, NEW y, NEW w, NEW t, NEW z, NEW v,
         Reads(m, x, s, y, w), Reads(m, y, t, z, v)
  PROVE  Reads(m, x, s \o t, z, Join(w, v))
<1>1. PICK g, r : Way(m, g, r, x, s, y, w)
  BY DEF Reads
<1>2. PICK h, o : Way(m, h, o, y, t, z, v)
  BY DEF Reads
<1>3. s \in Seq(Byte) /\ t \in Seq(Byte) /\ Len(s) \in Nat /\ Len(t) \in Nat
  BY LenProperties DEF Reads
<1> DEFINE c == s \o t
           k == Len(s)
           n == Len(s) + Len(t)
           f == [i \in 0 .. n |-> IF i <= k THEN g[i] ELSE h[i - k]]
           q == [i \in 0 .. n |-> IF i <= k THEN Join(r[i], v) ELSE o[i - k]]
<1>4. /\ c \in Seq(Byte) /\ Len(c) = n /\ \A i \in 1 .. k : c[i] = s[i]
      /\ \A i \in k + 1 .. n : c[i] = t[i - k]
  BY <1>3, ConcatProperties
<1>5. /\ g \in [0 .. k -> m.states] /\ r \in [0 .. k -> Saying]
      /\ g[0] = x /\ r[0] = w /\ g[k] = y /\ r[k] = Nothing
      /\ \A i \in 1 .. k : /\ g[i] = m.step[g[i - 1]][s[i]]
                           /\ r[i - 1] = Join(m.out[g[i - 1]][s[i]], r[i])
  BY <1>1 DEF Way
<1>6. /\ h \in [0 .. Len(t) -> m.states] /\ o \in [0 .. Len(t) -> Saying]
      /\ h[0] = y /\ o[0] = v /\ h[Len(t)] = z /\ o[Len(t)] = Nothing
      /\ \A i \in 1 .. Len(t) : /\ h[i] = m.step[h[i - 1]][t[i]]
                                /\ o[i - 1] = Join(m.out[h[i - 1]][t[i]], o[i])
  BY <1>2 DEF Way
<1>7. v \in Saying /\ \A i \in 0 .. k : Join(r[i], v) \in Saying
  <2>1. v \in Saying
    BY <1>3, <1>6
  <2>2. \A i \in 0 .. k : r[i] \in Saying
    BY <1>3, <1>5
  <2> QED
    BY <2>1, <2>2, JoinIs
<1>8. Join(r[k], v) = v
  BY <1>5, <1>7, JoinIs
<1>9. f \in [0 .. n -> m.states] /\ q \in [0 .. n -> Saying]
  <2>1. ASSUME NEW i \in 0 .. n PROVE f[i] \in m.states /\ q[i] \in Saying
    <3>1. CASE i <= k
      BY <1>3, <1>5, <1>7, <3>1
    <3>2. CASE ~(i <= k)
      <4>1. i - k \in 0 .. Len(t)
        BY <1>3, <3>2
      <4> QED
        BY <1>6, <3>2, <4>1
    <3> QED
      BY <3>1, <3>2
  <2> QED
    BY <2>1
<1>10. f[0] = x /\ q[0] = Join(w, v) /\ f[n] = z /\ q[n] = Nothing
  <2>1. f[0] = x /\ q[0] = Join(w, v)
    BY <1>3, <1>5
  <2>2. CASE Len(t) = 0
    BY <1>3, <1>5, <1>6, <1>8, <2>2
  <2>3. CASE Len(t) # 0
    <3>1. n \in 0 .. n /\ ~(n <= k) /\ n - k = Len(t)
      BY <1>3, <2>3
    <3> QED
      BY <1>6, <2>1, <3>1
  <2> QED
    BY <2>1, <2>2, <2>3
<1>11. \A i \in k .. n : f[i] = h[i - k] /\ q[i] = o[i - k]
  <2> SUFFICES ASSUME NEW i \in k .. n PROVE f[i] = h[i - k] /\ q[i] = o[i - k]
    OBVIOUS
  <2>1. CASE i = k
    BY <1>3, <1>5, <1>6, <1>8, <2>1
  <2>2. CASE i # k
    BY <1>3, <2>2
  <2> QED
    BY <2>1, <2>2
<1>12. ASSUME NEW i \in 1 .. n
       PROVE  f[i] = m.step[f[i - 1]][c[i]] /\ q[i - 1] = Join(m.out[f[i - 1]][c[i]], q[i])
  <2>1. CASE i <= k
    <3>1. /\ f[i] = g[i] /\ f[i - 1] = g[i - 1] /\ q[i] = Join(r[i], v)
          /\ q[i - 1] = Join(r[i - 1], v) /\ c[i] = s[i]
      BY <1>3, <1>4, <2>1
    <3>5. i \in 1 .. k /\ i - 1 \in 0 .. k /\ i \in 0 .. k
      BY <1>3, <2>1
    <3>6. s[i] \in Byte
      BY <1>3, <3>5, ElementOfSeq
    <3>2. /\ g[i] = m.step[g[i - 1]][s[i]] /\ r[i - 1] = Join(m.out[g[i - 1]][s[i]], r[i])
          /\ r[i] \in Saying /\ g[i - 1] \in m.states /\ s[i] \in Byte
      BY <1>5, <3>5, <3>6
    <3>3. m.out[g[i - 1]][s[i]] \in Saying
      BY <3>2 DEF IsReader
    <3>4. Join(Join(m.out[g[i - 1]][s[i]], r[i]), v) = Join(m.out[g[i - 1]][s[i]], Join(r[i], v))
      BY <1>7, <3>2, <3>3, JoinTwice
    <3> QED
      BY <3>1, <3>2, <3>4
  <2>2. CASE ~(i <= k)
    <3>1. /\ i \in k .. n /\ i - 1 \in k .. n /\ i - k \in 1 .. Len(t) /\ (i - 1) - k = (i - k) - 1
          /\ c[i] = t[i - k]
      BY <1>3, <1>4, <2>2
    <3>2. /\ f[i] = h[i - k] /\ f[i - 1] = h[(i - k) - 1]
          /\ q[i] = o[i - k] /\ q[i - 1] = o[(i - k) - 1]
      BY <1>11, <3>1
    <3> QED
      BY <1>6, <3>1, <3>2
  <2> QED
    BY <2>1, <2>2
<1> HIDE DEF c, k, n, f, q
<1>13. Way(m, f, q, x, c, z, Join(w, v))
  BY <1>4, <1>9, <1>10, <1>12 DEF Way
<1> QED
  BY <1>4, <1>13 DEF Reads, c

-----------------------------------------------------------------------------
(* The two ends as readers                                                 *)

ParserStates == {"normal", "iac", "verb", "sb", "sb iac"}

Scanners == [state : ParserStates, verb : Byte, sb_len : Nat]

Contexts ==
  [state : ParserStates, verb : Byte, sb_len : Nat, rx : Seq(Byte),
   enabled : [Tracked -> BOOLEAN], pending : SUBSET Tracked]

Scanner(ctx) == [state |-> ctx.state, verb |-> ctx.verb, sb_len |-> ctx.sb_len]

\* A context whose scanner is p.
Whole(p) == [Negotiated EXCEPT !.state = p.state, !.verb = p.verb, !.sb_len = p.sb_len]

Asked(verb, opt) ==
  CASE verb = Verb(opt, TRUE) -> "on" [] verb = Verb(opt, FALSE) -> "off" [] OTHER -> "odd"

About(b) == IF b \in Options THEN b ELSE Stray

\* What a byte means to the server: text, or a request.
Heard(p, b) ==
  [k \in Channels |->
     IF k = Plain THEN ProcessByte(Whole(p), b).text
     ELSE IF p.state = "verb" /\ k = About(b) THEN <<Asked(p.verb, b)>> ELSE <<>>]

Server ==
  [states |-> Scanners,
   step   |-> [p \in Scanners |-> [b \in Byte |-> Scanner(ProcessByte(Whole(p), b).ctx)]],
   out    |-> [p \in Scanners |-> [b \in Byte |-> Heard(p, b)]]]

\* The client: "text", behind IAC, or behind a request that says on or off.
ClientStates == {"text", "iac", "on", "off"}

ClientParses(p, b) ==
  IF p = "text" THEN (IF b = IAC THEN "iac" ELSE "text")
  ELSE IF p = "iac" THEN (IF b = IAC THEN "text" ELSE IF b \in {WILL, DO} THEN "on" ELSE "off")
  ELSE "text"

ClientHears(p, b) ==
  IF p = "text" THEN (IF b = IAC THEN Nothing ELSE One(Plain, b))
  ELSE IF p = "iac" THEN (IF b = IAC THEN One(Plain, b) ELSE Nothing)
  ELSE One(About(b), p)

Client ==
  [states |-> ClientStates,
   step   |-> [p \in ClientStates |-> [b \in Byte |-> ClientParses(p, b)]],
   out    |-> [p \in ClientStates |-> [b \in Byte |-> ClientHears(p, b)]]]

LEMMA CodesAre ==
  /\ IAC = 255 /\ DONT = 254 /\ DO = 253 /\ WONT = 252 /\ WILL = 251 /\ SB = 250
  /\ EL = 248 /\ EC = 247 /\ AYT = 246 /\ SE = 240 /\ NOP = 241
  /\ ECHO = 1 /\ SGA = 3 /\ NAWS = 31 /\ LINEMODE = 34 /\ BINARY = 0
  /\ EraseKey = 8 /\ KillKey = 21 /\ BellByte = 7 /\ Plain = 256 /\ Stray = 257
  BY DEF IAC, DONT, DO, WONT, WILL, SB, EL, EC, AYT, SE, NOP, ECHO, SGA, NAWS, LINEMODE, BINARY,
         EraseKey, KillKey, BellByte, Plain, Stray

LEMMA OptionsAre ==
  /\ Tracked = {1, 3, 31} /\ Refused = {34, 0} /\ Remote = {31, 34} /\ Options = {1, 3, 31, 34, 0}
  /\ Options \subseteq Byte /\ Plain \in Channels
  /\ Stray \in Channels /\ Plain \notin Byte /\ Plain # Stray /\ Stray \notin Byte
  /\ \A b \in Byte : About(b) \in Channels /\ About(b) # Plain
                     /\ (b \notin Options => About(b) = Stray)
  /\ \A o \in Options : About(o) = o /\ o \in Channels /\ o # Plain /\ o # Stray
<1>1. Tracked = {1, 3, 31} /\ Refused = {34, 0} /\ Remote = {31, 34} /\ Options = {1, 3, 31, 34, 0}
  BY CodesAre DEF Tracked, Refused, Remote, Options
<1>2. Plain = 256 /\ Stray = 257
  BY CodesAre
<1>3. Channels = {256, 257, 1, 3, 31, 34, 0}
  BY <1>1, <1>2 DEF Channels
<1>4. Options \subseteq Byte
  BY <1>1 DEF Byte
<1>5. \A b \in Byte : b # 256 /\ b # 257
  BY DEF Byte
<1>6. \A b \in Byte : About(b) \in Channels /\ About(b) # Plain
                     /\ (b \notin Options => About(b) = Stray)
  BY <1>2, <1>4, <1>5 DEF About, Channels
<1>7. \A o \in Options : About(o) = o /\ o \in Channels /\ o # Plain /\ o # Stray
  BY <1>2, <1>4, <1>5 DEF About, Channels
<1> QED
  BY <1>1, <1>2, <1>3, <1>4, <1>5, <1>6, <1>7

InState(ctx, state, verb, n) == [ctx EXCEPT !.state = state, !.verb = verb, !.sb_len = n]

LEMMA AtIs ==
  ASSUME NEW ctx \in Contexts, NEW state \in ParserStates, NEW verb \in Byte, NEW n \in Nat
  PROVE  /\ InState(ctx, state, verb, n) \in Contexts
         /\ Scanner(InState(ctx, state, verb, n)) = [state |-> state, verb |-> verb, sb_len |-> n]
         /\ InState(ctx, state, verb, n).rx = ctx.rx
         /\ InState(ctx, state, verb, n).enabled = ctx.enabled
         /\ InState(ctx, state, verb, n).pending = ctx.pending
  BY DEF Contexts, InState, Scanner

LEMMA ChangesAre ==
  ASSUME NEW ctx \in Contexts
  PROVE  /\ ctx = InState(ctx, ctx.state, ctx.verb, ctx.sb_len)
         /\ \A s : [ctx EXCEPT !.state = s] = InState(ctx, s, ctx.verb, ctx.sb_len)
         /\ \A s, v : [ctx EXCEPT !.state = s, !.verb = v] = InState(ctx, s, v, ctx.sb_len)
         /\ \A s, n : [ctx EXCEPT !.state = s, !.sb_len = n] = InState(ctx, s, ctx.verb, n)
         /\ \A s, n : [ctx EXCEPT !.sb_len = n, !.state = s] = InState(ctx, s, ctx.verb, n)
<1>1. ctx = InState(ctx, ctx.state, ctx.verb, ctx.sb_len)
  BY DEF InState, Contexts
<1>2. \A s : [ctx EXCEPT !.state = s] = InState(ctx, s, ctx.verb, ctx.sb_len)
  BY DEF InState, Contexts
<1>3. \A s, v : [ctx EXCEPT !.state = s, !.verb = v] = InState(ctx, s, v, ctx.sb_len)
  BY DEF InState, Contexts
<1>4. \A s, n : [ctx EXCEPT !.state = s, !.sb_len = n] = InState(ctx, s, ctx.verb, n)
  BY DEF InState, Contexts
<1>5. \A s, n : [ctx EXCEPT !.sb_len = n, !.state = s] = InState(ctx, s, ctx.verb, n)
  BY DEF InState, Contexts
<1> QED
  BY <1>1, <1>2, <1>3, <1>4, <1>5

\* What the byte behind IAC leads to, and what it means.
IacState(b) == IF b \in {DO, DONT, WILL, WONT} THEN "verb" ELSE IF b = SB THEN "sb" ELSE "normal"
IacText(b) ==
  IF b = IAC THEN <<255>> ELSE IF b = EC THEN <<EraseKey>> ELSE IF b = EL THEN <<KillKey>> ELSE <<>>
IacSent(b) == IF b = AYT THEN <<BellByte>> ELSE <<>>

LEMMA AfterIacIs ==
  ASSUME NEW ctx \in Contexts, NEW b \in Byte
  PROVE  /\ AfterIac(ctx, b).ctx =
              InState(ctx, IacState(b), IF IacState(b) = "verb" THEN b ELSE ctx.verb,
                 IF IacState(b) = "sb" THEN 0 ELSE ctx.sb_len)
         /\ AfterIac(ctx, b).text = IacText(b) /\ AfterIac(ctx, b).sent = IacSent(b)
<1>0. \A c, t, u : /\ Result(c, t, u).ctx = c /\ Result(c, t, u).text = t
                   /\ Result(c, t, u).sent = u /\ Quiet(c) = Result(c, <<>>, <<>>)
  BY DEF Result, Quiet
<1> DEFINE normal == InState(ctx, "normal", ctx.verb, ctx.sb_len)
<1>1. CASE b \in {DO, DONT, WILL, WONT}
  <2>1. AfterIac(ctx, b) = Quiet([ctx EXCEPT !.state = "verb", !.verb = b])
    BY <1>1, CodesAre DEF AfterIac
  <2>2. AfterIac(ctx, b) = Quiet(InState(ctx, "verb", b, ctx.sb_len))
    BY <2>1, ChangesAre
  <2>3. IacState(b) = "verb" /\ IacText(b) = <<>> /\ IacSent(b) = <<>>
    BY <1>1, CodesAre DEF IacState, IacText, IacSent
  <2> QED
    BY <1>0, <2>2, <2>3
<1>2. CASE b = SB
  <2>1. AfterIac(ctx, b) = Quiet([ctx EXCEPT !.state = "sb", !.sb_len = 0])
    BY <1>2, CodesAre DEF AfterIac
  <2>4. [ctx EXCEPT !.state = "sb", !.sb_len = 0] = InState(ctx, "sb", ctx.verb, 0)
    BY DEF InState, Contexts
  <2>2. AfterIac(ctx, b) = Quiet(InState(ctx, "sb", ctx.verb, 0))
    BY <2>1, <2>4
  <2>3. IacState(b) = "sb" /\ IacText(b) = <<>> /\ IacSent(b) = <<>>
    BY <1>2, CodesAre DEF IacState, IacText, IacSent
  <2> QED
    BY <1>0, <2>2, <2>3
<1>3. CASE b \notin {DO, DONT, WILL, WONT, SB}
  <2>1. [ctx EXCEPT !.state = "normal"] = normal
    BY ChangesAre
  <2> HIDE DEF normal
  <2>2. AfterIac(ctx, b) = Result(normal, IacText(b), IacSent(b))
    <3>1. CASE b = IAC
      BY <2>1, <3>1, CodesAre DEF AfterIac, IacText, IacSent
    <3>2. CASE b = EC
      BY <2>1, <3>2, CodesAre DEF AfterIac, IacText, IacSent
    <3>3. CASE b = EL
      BY <2>1, <3>3, CodesAre DEF AfterIac, IacText, IacSent
    <3>4. CASE b = AYT
      BY <2>1, <3>4, CodesAre DEF AfterIac, IacText, IacSent
    <3>5. CASE b \notin {IAC, EC, EL, AYT}
      <4>1. AfterIac(ctx, b) = Quiet(normal)
        BY <1>3, <2>1, <3>5, CodesAre DEF AfterIac
      <4> QED
        BY <1>0, <3>5, <4>1 DEF IacText, IacSent
    <3> QED
      BY <3>1, <3>2, <3>3, <3>4, <3>5
  <2>3. IacState(b) = "normal"
    BY <1>3 DEF IacState
  <2> QED
    BY <1>0, <2>2, <2>3 DEF normal
<1> QED
  BY <1>1, <1>2, <1>3

\* Where a byte leads unless it ends a request.
NextState(p, b) ==
  IF p.state = "normal" THEN (IF b = IAC THEN "iac" ELSE "normal")
  ELSE IF p.state = "iac" THEN IacState(b)
  ELSE IF p.state = "sb" 
  THEN (IF b = IAC THEN "sb iac" ELSE IF p.sb_len >= MaxSbLen THEN "normal" ELSE "sb")
  ELSE IF b = SE THEN "normal" ELSE IF b = IAC THEN "sb" ELSE IacState(b)
Behind(p, b) == p.state = "iac" \/ (p.state = "sb iac" /\ b \notin {SE, IAC})
NextText(p, b) ==
  IF p.state = "normal" THEN (IF b = IAC \/ b = 0 THEN <<>> ELSE <<b>>)
  ELSE IF Behind(p, b) THEN IacText(b) ELSE <<>>
NextSent(p, b) == IF Behind(p, b) THEN IacSent(b) ELSE <<>>
NextVerb(p, b) == IF Behind(p, b) /\ IacState(b) = "verb" THEN b ELSE p.verb
NextLen(p, b) ==
  IF Behind(p, b) /\ IacState(b) = "sb" THEN 0
  ELSE IF p.state = "sb" /\ b # IAC THEN p.sb_len + 1 ELSE p.sb_len

LEMMA ResultIs ==
  ASSUME NEW c, NEW t, NEW u
  PROVE  /\ Result(c, t, u).ctx = c /\ Result(c, t, u).text = t /\ Result(c, t, u).sent = u
         /\ Quiet(c).ctx = c /\ Quiet(c).text = <<>> /\ Quiet(c).sent = <<>>
  BY DEF Result, Quiet

LEMMA ByteIs ==
  ASSUME NEW ctx \in Contexts, NEW b \in Byte, ctx.state # "verb"
  PROVE  /\ ProcessByte(ctx, b).ctx =
              InState(ctx, NextState(ctx, b), NextVerb(ctx, b), NextLen(ctx, b))
         /\ ProcessByte(ctx, b).text = NextText(ctx, b)
         /\ ProcessByte(ctx, b).sent = NextSent(ctx, b)
<1>0. ctx.state \in ParserStates \ {"verb"} /\ MaxSbLen \in Nat /\ ctx.sb_len \in Nat
  BY WireAssumption DEF Contexts
<1> DEFINE p == ProcessByte(ctx, b)
<1>1. CASE ctx.state = "normal"
  <2>1. NextVerb(ctx, b) = ctx.verb /\ NextLen(ctx, b) = ctx.sb_len /\ NextSent(ctx, b) = <<>>
        /\ ~Behind(ctx, b)
    BY <1>1 DEF NextVerb, NextLen, NextSent, Behind
  <2>2. CASE b = IAC
    <3>1. p = Quiet([ctx EXCEPT !.state = "iac"])
      BY <1>1, <2>2 DEF ProcessByte
    <3>2. [ctx EXCEPT !.state = "iac"] = InState(ctx, "iac", ctx.verb, ctx.sb_len)
      BY DEF InState, Contexts
    <3>3. NextState(ctx, b) = "iac" /\ NextText(ctx, b) = <<>>
      BY <1>1, <2>2 DEF NextState, NextText
    <3> QED
      BY <2>1, <3>1, <3>2, <3>3, ResultIs
  <2>3. CASE b # IAC
    <3>1. p = Result(ctx, IF b = 0 THEN <<>> ELSE <<b>>, <<>>)
      BY <1>1, <2>3 DEF ProcessByte
    <3>2. ctx = InState(ctx, "normal", ctx.verb, ctx.sb_len)
      BY <1>1 DEF InState, Contexts
    <3>3. NextState(ctx, b) = "normal" /\ NextText(ctx, b) = IF b = 0 THEN <<>> ELSE <<b>>
      BY <1>1, <2>3 DEF NextState, NextText
    <3> QED
      BY <2>1, <3>1, <3>2, <3>3, ResultIs
  <2> QED
    BY <2>2, <2>3
<1>2. CASE ctx.state = "iac"
  <2>1. p = AfterIac(ctx, b)
    BY <1>2 DEF ProcessByte
  <2>2. Behind(ctx, b) /\ NextState(ctx, b) = IacState(b)
    BY <1>2 DEF Behind, NextState
  <2>3. /\ NextText(ctx, b) = IacText(b) /\ NextSent(ctx, b) = IacSent(b)
        /\ NextVerb(ctx, b) = IF IacState(b) = "verb" THEN b ELSE ctx.verb
        /\ NextLen(ctx, b) = IF IacState(b) = "sb" THEN 0 ELSE ctx.sb_len
    BY <1>2, <2>2 DEF NextVerb, NextLen, NextText, NextSent
  <2> QED
    BY <2>1, <2>2, <2>3, AfterIacIs
<1>3. CASE ctx.state = "sb"
  <2>1. NextVerb(ctx, b) = ctx.verb /\ NextText(ctx, b) = <<>> /\ NextSent(ctx, b) = <<>>
        /\ ~Behind(ctx, b)
    BY <1>3 DEF NextVerb, NextText, NextSent, Behind
  <2>2. CASE b = IAC
    <3>1. p = Quiet([ctx EXCEPT !.state = "sb iac"])
      BY <1>3, <2>2 DEF ProcessByte, InSb
    <3>2. [ctx EXCEPT !.state = "sb iac"] = InState(ctx, "sb iac", ctx.verb, ctx.sb_len)
      BY DEF InState, Contexts
    <3>3. NextState(ctx, b) = "sb iac" /\ NextLen(ctx, b) = ctx.sb_len
      BY <1>3, <2>1, <2>2 DEF NextState, NextLen
    <3>4. p = Quiet(InState(ctx, "sb iac", ctx.verb, ctx.sb_len))
      BY <3>1, <3>2
    <3> HIDE DEF p
    <3>5. p.ctx = InState(ctx, "sb iac", ctx.verb, ctx.sb_len) /\ p.text = <<>> /\ p.sent = <<>>
      BY <3>4, ResultIs
    <3> QED
      BY <2>1, <3>3, <3>5 DEF p
  <2>3. CASE b # IAC
    <3> DEFINE s == IF ctx.sb_len >= MaxSbLen THEN "normal" ELSE "sb"
    <3>1. p = Quiet([ctx EXCEPT !.sb_len = @ + 1,
                                !.state = IF ctx.sb_len >= MaxSbLen THEN "normal" ELSE @])
      BY <1>3, <2>3 DEF ProcessByte, InSb
    <3>2. [ctx EXCEPT !.sb_len = @ + 1,
                      !.state = IF ctx.sb_len >= MaxSbLen THEN "normal" ELSE @] =
            InState(ctx, s, ctx.verb, ctx.sb_len + 1)
      <4>1. CASE ctx.sb_len >= MaxSbLen
        BY <4>1 DEF InState, Contexts
      <4>2. CASE ~(ctx.sb_len >= MaxSbLen)
        BY <1>3, <4>2 DEF InState, Contexts
      <4> QED
        BY <4>1, <4>2
    <3>3. NextState(ctx, b) = s /\ NextLen(ctx, b) = ctx.sb_len + 1
      BY <1>3, <2>1, <2>3 DEF NextState, NextLen
    <3> HIDE DEF s
    <3> QED
      BY <2>1, <3>1, <3>2, <3>3, ResultIs
  <2> QED
    BY <2>2, <2>3
<1>4. CASE ctx.state = "sb iac"
  <2>1. p = InSb(ctx, b)
    BY <1>4 DEF ProcessByte
  <2>2. CASE b \in {SE, IAC}
    <3> DEFINE s == IF b = SE THEN "normal" ELSE "sb"
    <3>1. InSb(ctx, b) = Quiet([ctx EXCEPT !.state = s])
      <4>3. ctx.state # "sb"
        BY <1>4
      <4>4. InSb(ctx, b) = CASE b = SE -> Quiet([ctx EXCEPT !.state = "normal"])
                             [] b = IAC -> Quiet([ctx EXCEPT !.state = "sb"])
                             [] OTHER -> AfterIac(ctx, b)
        BY <4>3 DEF InSb
      <4>1. CASE b = SE
        <5>1. InSb(ctx, b) = Quiet([ctx EXCEPT !.state = "normal"])
          BY <4>1, <4>4, CodesAre
        <5> QED
          BY <4>1, <5>1
      <4>2. CASE b = IAC
        <5>1. InSb(ctx, b) = Quiet([ctx EXCEPT !.state = "sb"])
          BY <4>2, <4>4, CodesAre
        <5>2. s = "sb"
          BY <4>2, CodesAre
        <5> QED
          BY <5>1, <5>2
      <4> QED
        BY <2>2, <4>1, <4>2
    <3>2. [ctx EXCEPT !.state = s] = InState(ctx, s, ctx.verb, ctx.sb_len)
      BY DEF InState, Contexts
    <3>3. NextState(ctx, b) = s /\ ~Behind(ctx, b)
      BY <1>4, <2>2, CodesAre DEF NextState, Behind
    <3>4. /\ NextVerb(ctx, b) = ctx.verb /\ NextLen(ctx, b) = ctx.sb_len
          /\ NextText(ctx, b) = <<>> /\ NextSent(ctx, b) = <<>>
      BY <1>4, <3>3 DEF NextVerb, NextLen, NextText, NextSent
    <3> HIDE DEF s
    <3> QED
      BY <2>1, <3>1, <3>2, <3>3, <3>4, ResultIs
  <2>3. CASE b \notin {SE, IAC}
    <3>1. InSb(ctx, b) = AfterIac(ctx, b)
      BY <1>4, <2>3 DEF InSb
    <3>2. Behind(ctx, b) /\ NextState(ctx, b) = IacState(b)
      BY <1>4, <2>3 DEF Behind, NextState
    <3>3. /\ NextText(ctx, b) = IacText(b) /\ NextSent(ctx, b) = IacSent(b)
          /\ NextVerb(ctx, b) = IF IacState(b) = "verb" THEN b ELSE ctx.verb
          /\ NextLen(ctx, b) = IF IacState(b) = "sb" THEN 0 ELSE ctx.sb_len
      BY <1>4, <3>2 DEF NextVerb, NextLen, NextText, NextSent
    <3> QED
      BY <2>1, <3>1, <3>2, <3>3, AfterIacIs
  <2> QED
    BY <2>2, <2>3
<1> QED
  BY <1>0, <1>1, <1>2, <1>3, <1>4 DEF ParserStates

LEMMA NextTyped ==
  ASSUME NEW ctx \in Contexts, NEW b \in Byte, ctx.state # "verb"
  PROVE  /\ NextState(ctx, b) \in ParserStates /\ NextVerb(ctx, b) \in Byte
         /\ NextLen(ctx, b) \in Nat /\ NextText(ctx, b) \in Seq(Byte)
         /\ NextSent(ctx, b) \in {<<>>, <<BellByte>>}
<1>1. \A w \in Byte : <<w>> \in Seq(Byte)
  OBVIOUS
<1>2. <<>> \in Seq(Byte)
  BY EmptySeq
<1>3. ctx.verb \in Byte /\ ctx.sb_len \in Nat
  BY DEF Contexts
<1>4. IacState(b) \in {"verb", "sb", "normal"} /\ IacSent(b) \in {<<>>, <<BellByte>>}
  BY DEF IacState, IacSent
<1>5. IacText(b) \in Seq(Byte)
  <2>1. 255 \in Byte /\ EraseKey \in Byte /\ KillKey \in Byte
    BY CodesAre DEF Byte
  <2> QED
    BY <1>1, <1>2, <2>1 DEF IacText
<1>6. NextState(ctx, b) \in ParserStates
  BY <1>4 DEF NextState, ParserStates
<1>7. NextVerb(ctx, b) \in Byte
  BY <1>3 DEF NextVerb
<1>8. NextLen(ctx, b) \in Nat
  BY <1>3 DEF NextLen
<1>9. NextText(ctx, b) \in Seq(Byte)
  BY <1>1, <1>2, <1>5 DEF NextText
<1> QED
  BY <1>4, <1>6, <1>7, <1>8, <1>9 DEF NextSent

-----------------------------------------------------------------------------
(* The transport reads as Server does, and the client as Client            *)

LEMMA WholeIs ==
  ASSUME NEW p \in Scanners
  PROVE  /\ Whole(p) \in Contexts /\ Whole(p).state = p.state /\ Whole(p).verb = p.verb
         /\ Whole(p).sb_len = p.sb_len
<1>1. <<>> \in Seq(Byte)
  BY EmptySeq
<1> QED
  BY <1>1 DEF Whole, Negotiated, Scanners, Contexts

LEMMA ScannerIs ==
  ASSUME NEW ctx \in Contexts
  PROVE  /\ Scanner(ctx) \in Scanners /\ Scanner(ctx).state = ctx.state
         /\ Scanner(ctx).verb = ctx.verb /\ Scanner(ctx).sb_len = ctx.sb_len
  BY DEF Scanner, Scanners, Contexts

\* What a request comes to.
Update(ctx, verb, opt) ==
  IF TrackedHere(verb, opt) THEN OptionUpdate(ctx, opt, verb \in {DO, WILL})
  ELSE [ctx |-> ctx, reply |-> verb \in {DO, WILL}]
OptionAnswer(verb, opt) ==
  LET on == TrackedHere(verb, opt) /\ verb \in {DO, WILL}
  IN  IF verb \in {DO, DONT} THEN (IF on THEN WILL ELSE WONT) ELSE (IF on THEN DO ELSE DONT)

LEMMA RequestIs ==
  ASSUME NEW ctx \in Contexts, NEW b \in Byte, ctx.state = "verb"
  PROVE  LET u == Update(InState(ctx, "normal", ctx.verb, ctx.sb_len), ctx.verb, b)
         IN  /\ ProcessByte(ctx, b).ctx = u.ctx /\ ProcessByte(ctx, b).text = <<>>
             /\ ProcessByte(ctx, b).sent =
                  IF u.reply THEN <<IAC, OptionAnswer(ctx.verb, b), b>> ELSE <<>>
<1> DEFINE c == InState(ctx, "normal", ctx.verb, ctx.sb_len)
<1>1. [ctx EXCEPT !.state = "normal"] = c
  BY DEF InState, Contexts
<1> HIDE DEF c
<1>2. ProcessByte(ctx, b) = Respond(c, ctx.verb, b)
  BY <1>1 DEF ProcessByte
<1>3. Respond(c, ctx.verb, b) =
        Result(Update(c, ctx.verb, b).ctx, <<>>,
               IF Update(c, ctx.verb, b).reply THEN <<IAC, OptionAnswer(ctx.verb, b), b>> ELSE <<>>)
  BY DEF Respond, Update, OptionAnswer
<1> QED
  BY <1>2, <1>3, ResultIs DEF c

LEMMA UpdateIs ==
  ASSUME NEW ctx \in Contexts, NEW opt, NEW verb
  PROVE  LET u == Update(ctx, verb, opt)
         IN  /\ u.ctx \in Contexts /\ Scanner(u.ctx) = Scanner(ctx) /\ u.ctx.rx = ctx.rx
             /\ \A o \in Tracked \ {opt} : u.ctx.enabled[o] = ctx.enabled[o]
             /\ u.ctx.pending \ {opt} = ctx.pending \ {opt}
             /\ ~TrackedHere(verb, opt) => u.ctx = ctx /\ u.reply = (verb \in {DO, WILL})
             /\ TrackedHere(verb, opt) =>
                  /\ opt \in Tracked /\ u.ctx.enabled[opt] = (verb \in {DO, WILL})
                  /\ opt \notin u.ctx.pending
                  /\ u.reply <=> opt \notin ctx.pending /\ ctx.enabled[opt] # (verb \in {DO, WILL})
<1> DEFINE on == verb \in {DO, WILL}
           d == [ctx EXCEPT !.enabled[opt] = on, !.pending = @ \ {opt}]
<1>1. CASE TrackedHere(verb, opt)
  <2>1. opt \in Tracked
    BY <1>1 DEF TrackedHere, Tracked
  <2>2. /\ Update(ctx, verb, opt).ctx = d
        /\ Update(ctx, verb, opt).reply = (opt \notin ctx.pending /\ ctx.enabled[opt] # on)
    BY <1>1 DEF Update, OptionUpdate
  <2>3. on \in BOOLEAN
    OBVIOUS
  <2> HIDE DEF on
  <2>4. /\ ctx.enabled \in [Tracked -> BOOLEAN] /\ ctx.pending \in SUBSET Tracked
        /\ [ctx.enabled EXCEPT ![opt] = on] \in [Tracked -> BOOLEAN]
    BY <2>3 DEF Contexts
  <2>5. /\ d \in Contexts /\ d.state = ctx.state /\ d.verb = ctx.verb /\ d.sb_len = ctx.sb_len
        /\ d.rx = ctx.rx /\ d.enabled = [ctx.enabled EXCEPT ![opt] = on]
        /\ d.pending = ctx.pending \ {opt}
    BY <2>4 DEF Contexts
  <2> HIDE DEF d
  <2>6. Scanner(d) = Scanner(ctx)
    BY <2>5 DEF Scanner
  <2>7. d.enabled[opt] = on /\ \A o \in Tracked \ {opt} : d.enabled[o] = ctx.enabled[o]
    BY <2>1, <2>4, <2>5
  <2> QED
    BY <1>1, <2>1, <2>2, <2>5, <2>6, <2>7 DEF on
<1>2. CASE ~TrackedHere(verb, opt)
  BY <1>2 DEF Update
<1> QED
  BY <1>1, <1>2

\* Every byte is read as Server reads it.
LEMMA ByteRead ==
  ASSUME NEW ctx \in Contexts, NEW b \in Byte
  PROVE  /\ ProcessByte(ctx, b).ctx \in Contexts /\ ProcessByte(ctx, b).ctx.rx = ctx.rx
         /\ Server.step[Scanner(ctx)][b] = Scanner(ProcessByte(ctx, b).ctx)
         /\ Server.out[Scanner(ctx)][b][Plain] = ProcessByte(ctx, b).text
         /\ ProcessByte(ctx, b).text \in Seq(Byte)
<1> DEFINE p == Scanner(ctx)
           w == Whole(p)
<1>1. p \in Scanners /\ p.state = ctx.state /\ p.verb = ctx.verb /\ p.sb_len = ctx.sb_len
  BY ScannerIs
<1>2. w \in Contexts /\ w.state = ctx.state /\ w.verb = ctx.verb /\ w.sb_len = ctx.sb_len
  BY <1>1, WholeIs
<1>3. Server.step[p][b] = Scanner(ProcessByte(w, b).ctx)
  BY <1>1 DEF Server
<1>4. Server.out[p][b][Plain] = ProcessByte(w, b).text
  BY <1>1, OptionsAre DEF Server, Heard
<1> HIDE DEF p, w
<1>5. CASE ctx.state = "verb"
  <2>0. "normal" \in ParserStates /\ \A v \in Contexts : v.verb \in Byte /\ v.sb_len \in Nat
    BY DEF Contexts, ParserStates
  <2>1. \A v \in Contexts : InState(v, "normal", v.verb, v.sb_len) \in Contexts
    BY <2>0, AtIs
  <2>2. \A v \in Contexts :
          Scanner(InState(v, "normal", v.verb, v.sb_len)) =
            [state |-> "normal", verb |-> v.verb, sb_len |-> v.sb_len]
    <3> TAKE v \in Contexts
    <3>1. v.verb \in Byte /\ v.sb_len \in Nat
      BY <2>0
    <3> QED
      BY <2>0, <3>1, AtIs
  <2>3. InState(ctx, "normal", ctx.verb, ctx.sb_len).rx = ctx.rx
    <3>1. ctx.verb \in Byte /\ ctx.sb_len \in Nat
      BY <2>0
    <3> QED
      BY <2>0, <3>1, AtIs
  <2>4. /\ ProcessByte(ctx, b).ctx =
             Update(InState(ctx, "normal", ctx.verb, ctx.sb_len), ctx.verb, b).ctx
        /\ ProcessByte(ctx, b).text = <<>>
    BY <1>5, RequestIs
  <2>5. /\ ProcessByte(w, b).ctx = Update(InState(w, "normal", w.verb, w.sb_len), w.verb, b).ctx
        /\ ProcessByte(w, b).text = <<>>
    BY <1>2, <1>5, RequestIs
  <2>6. /\ ProcessByte(ctx, b).ctx \in Contexts /\ ProcessByte(ctx, b).ctx.rx = ctx.rx
        /\ Scanner(ProcessByte(ctx, b).ctx) =
             [state |-> "normal", verb |-> ctx.verb, sb_len |-> ctx.sb_len]
    BY <2>1, <2>2, <2>3, <2>4, UpdateIs
  <2>7. Scanner(ProcessByte(w, b).ctx) =
          [state |-> "normal", verb |-> w.verb, sb_len |-> w.sb_len]
    BY <1>2, <2>1, <2>2, <2>5, UpdateIs
  <2>8. <<>> \in Seq(Byte)
    BY EmptySeq
  <2> QED
    BY <1>2, <1>3, <1>4, <2>4, <2>5, <2>6, <2>7, <2>8 DEF p
<1>6. CASE ctx.state # "verb"
  <2>1. /\ NextState(w, b) = NextState(ctx, b) /\ NextVerb(w, b) = NextVerb(ctx, b)
        /\ NextLen(w, b) = NextLen(ctx, b) /\ NextText(w, b) = NextText(ctx, b)
    BY <1>2 DEF NextState, NextVerb, NextLen, NextText, Behind
  <2>2. /\ NextState(ctx, b) \in ParserStates /\ NextVerb(ctx, b) \in Byte
        /\ NextLen(ctx, b) \in Nat /\ NextText(ctx, b) \in Seq(Byte)
    BY <1>6, NextTyped
  <2>3. /\ ProcessByte(ctx, b).ctx =
             InState(ctx, NextState(ctx, b), NextVerb(ctx, b), NextLen(ctx, b))
        /\ ProcessByte(ctx, b).text = NextText(ctx, b)
    BY <1>6, ByteIs
  <2>4. /\ ProcessByte(w, b).ctx = InState(w, NextState(ctx, b), NextVerb(ctx, b), NextLen(ctx, b))
        /\ ProcessByte(w, b).text = NextText(ctx, b)
    BY <1>2, <1>6, <2>1, ByteIs
  <2>5. /\ ProcessByte(ctx, b).ctx \in Contexts /\ ProcessByte(ctx, b).ctx.rx = ctx.rx
        /\ Scanner(ProcessByte(ctx, b).ctx) =
             [state |-> NextState(ctx, b), verb |-> NextVerb(ctx, b), sb_len |-> NextLen(ctx, b)]
    BY <2>2, <2>3, AtIs
  <2>6. Scanner(ProcessByte(w, b).ctx) =
          [state |-> NextState(ctx, b), verb |-> NextVerb(ctx, b), sb_len |-> NextLen(ctx, b)]
    BY <1>2, <2>2, <2>4, AtIs
  <2> QED
    BY <1>3, <1>4, <2>2, <2>3, <2>4, <2>5, <2>6 DEF p
<1> QED
  BY <1>5, <1>6

LEMMA ServerReads == IsReader(Server) /\ Server.states = Scanners
<1>1. \A p \in Scanners : \A b \in Byte : Scanner(ProcessByte(Whole(p), b).ctx) \in Scanners
  BY WholeIs, ByteRead, ScannerIs
<1>2. Server.step \in [Scanners -> [Byte -> Scanners]] /\ Server.states = Scanners
  BY <1>1 DEF Server
<1>3. ASSUME NEW p \in Scanners, NEW b \in Byte PROVE Heard(p, b) \in Saying
  <2>1. ProcessByte(Whole(p), b).text \in Seq(Byte)
    BY WholeIs, ByteRead
  <2>2. Byte \subseteq Words
    BY DEF Byte, Words
  <2>3. ProcessByte(Whole(p), b).text \in Seq(Words)
    BY <2>1, <2>2, SeqMonotonic
  <2>4. Asked(p.verb, b) \in Words
    BY DEF Asked, Words
  <2>5. <<Asked(p.verb, b)>> \in Seq(Words) /\ <<>> \in Seq(Words)
    BY <2>4, EmptySeq
  <2> QED
    BY <2>3, <2>5 DEF Heard, Saying
<1>4. Server.out \in [Scanners -> [Byte -> Saying]]
  BY <1>3 DEF Server
<1> QED
  BY <1>2, <1>4 DEF IsReader

LEMMA ClientReads == IsReader(Client) /\ Client.states = ClientStates
<1>1. ASSUME NEW p \in ClientStates, NEW b \in Byte
      PROVE  ClientParses(p, b) \in ClientStates /\ ClientHears(p, b) \in Saying
  <2>1. ClientParses(p, b) \in ClientStates
    BY DEF ClientParses, ClientStates
  <2>2. b \in Words /\ Plain \in Channels /\ About(b) \in Channels
    BY OptionsAre DEF Byte, Words
  <2>3. One(Plain, b) \in Saying
    BY <2>2, OneIs
  <2>4. p \in {"on", "off"} => One(About(b), p) \in Saying
    BY <2>2, OneIs DEF Words
  <2>5. p \in {"text", "iac", "on", "off"}
    BY DEF ClientStates
  <2> QED
    BY <2>1, <2>3, <2>4, <2>5, NothingIs DEF ClientHears
<1>2. Client.step \in [ClientStates -> [Byte -> ClientStates]] /\ Client.states = ClientStates
  BY <1>1 DEF Client
<1>3. Client.out \in [ClientStates -> [Byte -> Saying]]
  BY <1>1 DEF Client
<1> QED
  BY <1>2, <1>3 DEF IsReader

-----------------------------------------------------------------------------
(* What the units that are sent say                                        *)

LEMMA ReadsOne ==
  ASSUME NEW m, IsReader(m), NEW x \in m.states, NEW b \in Byte
  PROVE  Reads(m, x, <<b>>, m.step[x][b], m.out[x][b])
<1>1. m.step[x][b] \in m.states /\ m.out[x][b] \in Saying
  BY DEF IsReader
<1>2. Reads(m, m.step[x][b], <<>>, m.step[x][b], Nothing)
  BY <1>1, ReadsNothing
<1>3. Reads(m, x, <<b>> \o <<>>, m.step[x][b], Join(m.out[x][b], Nothing))
  BY <1>2, ReadsOneMore
<1>4. <<b>> \o <<>> = <<b>> /\ Join(m.out[x][b], Nothing) = m.out[x][b]
  <2>1. <<b>> \in Seq(Byte)
    OBVIOUS
  <2> QED
    BY <1>1, <2>1, ConcatEmptySeq, JoinIs
<1> QED
  BY <1>3, <1>4

\* From the first byte on.
LEMMA ReadsFrom ==
  ASSUME NEW m, IsReader(m), NEW x \in m.states, NEW t \in Seq(Byte), t # <<>>, NEW y, NEW w,
         Reads(m, m.step[x][t[1]], Tail(t), y, w)
  PROVE  Reads(m, x, t, y, Join(m.out[x][t[1]], w))
<1>1. t[1] \in Byte /\ t = <<t[1]>> \o Tail(t)
  BY HeadTailProperties
<1>2. Reads(m, x, <<t[1]>> \o Tail(t), y, Join(m.out[x][t[1]], w))
  BY <1>1, ReadsOneMore
<1> QED
  BY <1>1, <1>2

\* The first byte says nothing.
LEMMA ReadsQuietly ==
  ASSUME NEW m, IsReader(m), NEW x \in m.states, NEW t \in Seq(Byte), t # <<>>, NEW y, NEW w,
         m.out[x][t[1]] = Nothing, Reads(m, m.step[x][t[1]], Tail(t), y, w)
  PROVE  Reads(m, x, t, y, w)
<1>1. Reads(m, x, t, y, Join(m.out[x][t[1]], w))
  BY ReadsFrom
<1>2. w \in Saying
  BY ReadsTyped
<1> QED
  BY <1>1, <1>2, JoinIs

\* One of the client's readings: a byte, a doubled 255, an answer.
LEMMA ClientByte ==
  ASSUME NEW b \in Byte, b # IAC
  PROVE  Reads(Client, "text", <<b>>, "text", One(Plain, b))
<1>1. "text" \in ClientStates /\ Client.step["text"][b] = "text"
      /\ Client.out["text"][b] = One(Plain, b)
  BY DEF Client, ClientStates, ClientParses, ClientHears
<1> QED
  BY <1>1, ClientReads, ReadsOne

LEMMA ClientDoubled == Reads(Client, "text", <<IAC, IAC>>, "text", One(Plain, 255))
<1>1. IAC \in Byte /\ IAC = 255
  BY CodesAre DEF Byte
<1>2. /\ "text" \in ClientStates /\ "iac" \in ClientStates
      /\ Client.step["text"][IAC] = "iac" /\ Client.out["text"][IAC] = Nothing
      /\ Client.step["iac"][IAC] = "text" /\ Client.out["iac"][IAC] = One(Plain, 255)
  BY <1>1 DEF Client, ClientStates, ClientParses, ClientHears
<1>3. Reads(Client, "iac", <<IAC>>, "text", One(Plain, 255))
  BY <1>1, <1>2, ClientReads, ReadsOne
<1> DEFINE t == <<IAC, IAC>>
<1>4. t \in Seq(Byte) /\ t # <<>> /\ t[1] = IAC /\ Tail(t) = <<IAC>>
  BY <1>1
<1> HIDE DEF t
<1>5. Reads(Client, "text", t, "text", One(Plain, 255))
  BY <1>2, <1>3, <1>4, ClientReads, ReadsQuietly
<1> QED
  BY <1>5 DEF t

OnOff(on) == IF on THEN "on" ELSE "off"

LEMMA ClientAnswer ==
  ASSUME NEW verb \in {DO, DONT, WILL, WONT}, NEW o \in Byte
  PROVE  Reads(Client, "text", <<IAC, verb, o>>, "text", One(About(o), OnOff(verb \in {WILL, DO})))
<1>1. IAC \in Byte /\ verb \in Byte /\ verb # IAC
  BY CodesAre DEF Byte
<1> DEFINE p == OnOff(verb \in {WILL, DO})
<1>2. /\ "text" \in ClientStates /\ "iac" \in ClientStates /\ p \in {"on", "off"}
      /\ p \in ClientStates
      /\ Client.step["text"][IAC] = "iac" /\ Client.out["text"][IAC] = Nothing
      /\ Client.step["iac"][verb] = p /\ Client.out["iac"][verb] = Nothing
  BY <1>1 DEF Client, ClientStates, ClientParses, ClientHears, OnOff
<1> HIDE DEF p
<1>3. Client.step[p][o] = "text" /\ Client.out[p][o] = One(About(o), p)
  BY <1>1, <1>2 DEF Client, ClientStates, ClientParses, ClientHears
<1>4. Reads(Client, p, <<o>>, "text", One(About(o), p))
  BY <1>1, <1>2, <1>3, ClientReads, ReadsOne
<1> DEFINE t == <<verb, o>>
           u == <<IAC, verb, o>>
<1>5. /\ t \in Seq(Byte) /\ t # <<>> /\ t[1] = verb /\ Tail(t) = <<o>>
      /\ u \in Seq(Byte) /\ u # <<>> /\ u[1] = IAC /\ Tail(u) = t
  BY <1>1
<1> HIDE DEF t, u
<1>6. Reads(Client, "iac", t, "text", One(About(o), p))
  BY <1>2, <1>4, <1>5, ClientReads, ReadsQuietly
<1>7. Reads(Client, "text", u, "text", One(About(o), p))
  BY <1>2, <1>5, <1>6, ClientReads, ReadsQuietly
<1> QED
  BY <1>7 DEF p, u

\* What the server makes of a byte, state by state.
LEMMA ServerParses ==
  ASSUME NEW p \in Scanners, NEW b \in Byte, p.state # "verb"
  PROVE  /\ Server.step[p][b] =
              [state |-> NextState(p, b), verb |-> NextVerb(p, b), sb_len |-> NextLen(p, b)]
         /\ Server.step[p][b] \in Scanners
         /\ Server.out[p][b] = [k \in Channels |-> IF k = Plain THEN NextText(p, b) ELSE <<>>]
<1> DEFINE w == Whole(p)
<1>1. w \in Contexts /\ w.state = p.state /\ w.verb = p.verb /\ w.sb_len = p.sb_len
  BY WholeIs
<1>2. Server.step[p][b] = Scanner(ProcessByte(w, b).ctx) /\ Server.out[p][b] = Heard(p, b)
  BY DEF Server
<1>3. Heard(p, b) = [k \in Channels |-> IF k = Plain THEN ProcessByte(w, b).text ELSE <<>>]
  BY DEF Heard
<1> HIDE DEF w
<1>4. /\ NextState(w, b) = NextState(p, b) /\ NextVerb(w, b) = NextVerb(p, b)
      /\ NextLen(w, b) = NextLen(p, b) /\ NextText(w, b) = NextText(p, b)
  BY <1>1 DEF NextState, NextVerb, NextLen, NextText, Behind
<1>5. /\ NextState(p, b) \in ParserStates /\ NextVerb(p, b) \in Byte /\ NextLen(p, b) \in Nat
  BY <1>1, <1>4, NextTyped
<1>6. /\ ProcessByte(w, b).ctx = InState(w, NextState(p, b), NextVerb(p, b), NextLen(p, b))
      /\ ProcessByte(w, b).text = NextText(p, b)
  BY <1>1, <1>4, ByteIs
<1>7. Scanner(ProcessByte(w, b).ctx) =
        [state |-> NextState(p, b), verb |-> NextVerb(p, b), sb_len |-> NextLen(p, b)]
  BY <1>1, <1>5, <1>6, AtIs
<1>8. Server.step[p][b] \in Scanners
  BY <1>2, <1>5, <1>7 DEF Scanners
<1> QED
  BY <1>2, <1>3, <1>6, <1>7, <1>8

LEMMA ServerRequest ==
  ASSUME NEW p \in Scanners, NEW b \in Byte, p.state = "verb"
  PROVE  /\ Server.step[p][b] = [state |-> "normal", verb |-> p.verb, sb_len |-> p.sb_len]
         /\ Server.step[p][b] \in Scanners
         /\ Server.out[p][b] = One(About(b), Asked(p.verb, b))
<1> DEFINE w == Whole(p)
           c == InState(w, "normal", w.verb, w.sb_len)
<1>1. w \in Contexts /\ w.state = p.state /\ w.verb = p.verb /\ w.sb_len = p.sb_len
  BY WholeIs
<1>2. Server.step[p][b] = Scanner(ProcessByte(w, b).ctx) /\ Server.out[p][b] = Heard(p, b)
  BY DEF Server
<1> HIDE DEF w
<1>3. w.verb \in Byte /\ w.sb_len \in Nat /\ "normal" \in ParserStates
  BY <1>1 DEF Contexts, ParserStates
<1>4. c \in Contexts /\ Scanner(c) = [state |-> "normal", verb |-> w.verb, sb_len |-> w.sb_len]
  BY <1>1, <1>3, AtIs
<1>5. ProcessByte(w, b).ctx = Update(c, w.verb, b).ctx /\ ProcessByte(w, b).text = <<>>
  BY <1>1, RequestIs
<1> HIDE DEF c
<1>6. Scanner(ProcessByte(w, b).ctx) = Scanner(c)
  BY <1>4, <1>5, UpdateIs
<1>7. Scanner(c) \in Scanners
  BY <1>4, ScannerIs
<1>8. Heard(p, b) = One(About(b), Asked(p.verb, b))
  <2>1. About(b) # Plain /\ About(b) \in Channels
    BY OptionsAre
  <2>2. Heard(p, b) = [k \in Channels |->
                         IF k = Plain THEN ProcessByte(w, b).text
                         ELSE IF k = About(b) THEN <<Asked(p.verb, b)>> ELSE <<>>]
    BY DEF Heard, w
  <2>3. \A k \in Channels :
          (IF k = Plain THEN ProcessByte(w, b).text
           ELSE IF k = About(b) THEN <<Asked(p.verb, b)>> ELSE <<>>) =
          IF k = About(b) THEN <<Asked(p.verb, b)>> ELSE <<>>
    BY <1>5, <2>1
  <2> QED
    BY <2>2, <2>3 DEF One
<1> QED
  BY <1>1, <1>2, <1>4, <1>6, <1>7, <1>8

-----------------------------------------------------------------------------
(* The client's phrases, as the server reads them                          *)

Normal == {p \in Scanners : p.state = "normal"}
Commanded == {p \in Scanners : p.state = "iac"}
Verbs(v) == {p \in Scanners : p.state = "verb" /\ p.verb = v}
Block(n) == {p \in Scanners : p.state = "sb" /\ p.sb_len = n}
BlockIac(n) == {p \in Scanners : p.state = "sb iac" /\ p.sb_len = n}

\* From a state in P the bytes s say w and end in a normal state.
From(P, s, w) == \A p \in P : \E q \in Normal : Reads(Server, p, s, q, w)

LEMMA FromNothing == From(Normal, <<>>, Nothing)
  BY ServerReads, ReadsNothing DEF From, Normal

LEMMA FromQuietly ==
  ASSUME NEW P \in SUBSET Scanners, NEW Q, NEW s \in Seq(Byte), s # <<>>,
         NEW w, From(Q, Tail(s), w),
         \A p \in P : Server.out[p][s[1]] = Nothing /\ Server.step[p][s[1]] \in Q
  PROVE  From(P, s, w)
<1> SUFFICES ASSUME NEW p \in P PROVE \E q \in Normal : Reads(Server, p, s, q, w)
  BY DEF From
<1>1. PICK q \in Normal : Reads(Server, Server.step[p][s[1]], Tail(s), q, w)
  BY DEF From
<1>2. p \in Server.states /\ Server.out[p][s[1]] = Nothing
  BY ServerReads
<1>3. Reads(Server, p, s, q, w)
  BY <1>1, <1>2, ServerReads, ReadsQuietly
<1> QED
  BY <1>3

LEMMA FromOne ==
  ASSUME NEW P \in SUBSET Scanners, NEW b \in Byte, NEW w,
         \A p \in P : Server.out[p][b] = w /\ Server.step[p][b] \in Normal
  PROVE  From(P, <<b>>, w)
  BY ServerReads, ReadsOne DEF From

LEMMA Apart ==
  /\ \A n : Block(n) \subseteq Scanners /\ BlockIac(n) \subseteq Scanners
  /\ \A v : Verbs(v) \subseteq Scanners
  /\ Normal \subseteq Scanners /\ Commanded \subseteq Scanners
  BY DEF Block, BlockIac, Verbs, Normal, Commanded

OfText(t) == [k \in Channels |-> IF k = Plain THEN t ELSE <<>>]

LEMMA OfTextIs ==
  /\ OfText(<<>>) = Nothing /\ \A b : OfText(<<b>>) = One(Plain, b)
  BY DEF OfText, Nothing, One

LEMMA StepIs ==
  ASSUME NEW p \in Scanners, NEW b \in Byte, p.state # "verb"
  PROVE  /\ Server.step[p][b] \in Scanners /\ Server.step[p][b].state = NextState(p, b)
         /\ Server.step[p][b].verb = NextVerb(p, b) /\ Server.step[p][b].sb_len = NextLen(p, b)
         /\ Server.out[p][b] = OfText(NextText(p, b))
<1>1. /\ Server.step[p][b] =
           [state |-> NextState(p, b), verb |-> NextVerb(p, b), sb_len |-> NextLen(p, b)]
      /\ Server.step[p][b] \in Scanners
  BY ServerParses
<1>2. Server.out[p][b] = [k \in Channels |-> IF k = Plain THEN NextText(p, b) ELSE <<>>]
  BY ServerParses
<1> QED
  BY <1>1, <1>2 DEF OfText

\* One byte in each state.
LEMMA InNormal ==
  ASSUME NEW p \in Normal, NEW b \in Byte
  PROVE  /\ b = IAC => Server.out[p][b] = Nothing /\ Server.step[p][b] \in Commanded
         /\ b = 0 => Server.out[p][b] = Nothing /\ Server.step[p][b] \in Normal
         /\ b \notin {IAC, 0} => /\ Server.out[p][b] = OfText(<<b>>)
                                 /\ Server.step[p][b] \in Normal
<1>1. p \in Scanners /\ p.state = "normal"
  BY DEF Normal
<1>2. /\ NextState(p, b) = IF b = IAC THEN "iac" ELSE "normal"
      /\ NextText(p, b) = IF b = IAC \/ b = 0 THEN <<>> ELSE <<b>>
  BY <1>1 DEF NextState, NextText
<1>3. /\ Server.step[p][b] \in Scanners /\ Server.step[p][b].state = NextState(p, b)
      /\ Server.out[p][b] = OfText(NextText(p, b))
  BY <1>1, StepIs
<1>4. IAC # 0
  BY CodesAre
<1> QED
  BY <1>2, <1>3, <1>4, OfTextIs DEF Normal, Commanded

LEMMA InCommanded ==
  ASSUME NEW p \in Commanded, NEW b \in Byte
  PROVE  /\ b \notin {DO, DONT, WILL, WONT, SB} =>
              /\ Server.out[p][b] = OfText(IacText(b)) /\ Server.step[p][b] \in Normal
         /\ b = SB => Server.out[p][b] = Nothing /\ Server.step[p][b] \in Block(0)
         /\ b \in {DO, DONT, WILL, WONT} =>
              Server.out[p][b] = Nothing /\ Server.step[p][b] \in Verbs(b)
<1>1. p \in Scanners /\ p.state = "iac"
  BY DEF Commanded
<1>2. /\ NextState(p, b) = IacState(b) /\ NextText(p, b) = IacText(b)
      /\ NextVerb(p, b) = IF IacState(b) = "verb" THEN b ELSE p.verb
      /\ NextLen(p, b) = IF IacState(b) = "sb" THEN 0 ELSE p.sb_len
  BY <1>1 DEF NextState, NextText, NextVerb, NextLen, Behind
<1>3. /\ Server.step[p][b] \in Scanners /\ Server.step[p][b].state = NextState(p, b)
      /\ Server.step[p][b].verb = NextVerb(p, b) /\ Server.step[p][b].sb_len = NextLen(p, b)
      /\ Server.out[p][b] = OfText(NextText(p, b))
  BY <1>1, StepIs
<1>4. b \notin {DO, DONT, WILL, WONT, SB} => IacState(b) = "normal"
  BY DEF IacState
<1>5. b = SB => IacState(b) = "sb" /\ IacText(b) = <<>>
  BY CodesAre DEF IacState, IacText
<1>6. b \in {DO, DONT, WILL, WONT} => IacState(b) = "verb" /\ IacText(b) = <<>>
  BY CodesAre DEF IacState, IacText
<1>7. ASSUME b \notin {DO, DONT, WILL, WONT, SB}
      PROVE  Server.out[p][b] = OfText(IacText(b)) /\ Server.step[p][b] \in Normal
  BY <1>2, <1>3, <1>4, <1>7 DEF Normal
<1>8. ASSUME b = SB PROVE Server.out[p][b] = Nothing /\ Server.step[p][b] \in Block(0)
  BY <1>2, <1>3, <1>5, <1>8, OfTextIs DEF Block
<1>9. ASSUME b \in {DO, DONT, WILL, WONT}
      PROVE  Server.out[p][b] = Nothing /\ Server.step[p][b] \in Verbs(b)
  BY <1>2, <1>3, <1>6, <1>9, OfTextIs DEF Verbs
<1> QED
  BY <1>7, <1>8, <1>9

LEMMA InBlock ==
  ASSUME NEW n \in Nat, NEW p \in Block(n), NEW b \in Byte
  PROVE  /\ Server.out[p][b] = Nothing
         /\ b = IAC => Server.step[p][b] \in BlockIac(n)
         /\ b # IAC /\ n < MaxSbLen => Server.step[p][b] \in Block(n + 1)
         /\ b # IAC /\ n >= MaxSbLen => Server.step[p][b] \in Normal
         /\ Server.step[p][b].verb = p.verb
         /\ b # IAC => Server.step[p][b].sb_len = n + 1
<1>1. p \in Scanners /\ p.state = "sb" /\ p.sb_len = n /\ MaxSbLen \in Nat
  BY WireAssumption DEF Block
<1>2. /\ NextState(p, b) = IF b = IAC THEN "sb iac" ELSE IF n >= MaxSbLen THEN "normal" ELSE "sb"
      /\ NextText(p, b) = <<>> /\ NextVerb(p, b) = p.verb
      /\ NextLen(p, b) = IF b # IAC THEN n + 1 ELSE n
  BY <1>1 DEF NextState, NextText, NextVerb, NextLen, Behind
<1>3. /\ Server.step[p][b] \in Scanners /\ Server.step[p][b].state = NextState(p, b)
      /\ Server.step[p][b].verb = NextVerb(p, b) /\ Server.step[p][b].sb_len = NextLen(p, b)
      /\ Server.out[p][b] = OfText(NextText(p, b))
  BY <1>1, StepIs
<1>4. Server.out[p][b] = Nothing
  BY <1>2, <1>3, OfTextIs
<1>5. b = IAC => Server.step[p][b] \in BlockIac(n)
  BY <1>2, <1>3 DEF BlockIac
<1>6. b # IAC => /\ n < MaxSbLen => Server.step[p][b] \in Block(n + 1)
                 /\ n >= MaxSbLen => Server.step[p][b] \in Normal
  BY <1>1, <1>2, <1>3 DEF Block, Normal
<1> QED
  BY <1>2, <1>3, <1>4, <1>5, <1>6

LEMMA InBlockIac ==
  ASSUME NEW n \in Nat, NEW p \in BlockIac(n)
  PROVE  /\ Server.out[p][SE] = Nothing /\ Server.step[p][SE] \in Normal
         /\ Server.out[p][IAC] = Nothing /\ Server.step[p][IAC] \in Block(n)
         /\ Server.out[p][EC] = OfText(<<EraseKey>>) /\ Server.step[p][EC] \in Normal
<1>1. p \in Scanners /\ p.state = "sb iac" /\ p.sb_len = n
  BY DEF BlockIac
<1>2. SE \in Byte /\ IAC \in Byte /\ EC \in Byte
  BY CodesAre DEF Byte
<1>3. /\ NextState(p, SE) = "normal" /\ NextText(p, SE) = <<>>
      /\ NextState(p, IAC) = "sb" /\ NextText(p, IAC) = <<>> /\ NextLen(p, IAC) = n
  <2>5. SE # IAC
    BY CodesAre
  <2>1. SE # IAC /\ ~Behind(p, SE) /\ ~Behind(p, IAC)
    BY <1>1, <2>5 DEF Behind
  <2>2. NextState(p, SE) = "normal" /\ NextText(p, SE) = <<>>
    BY <1>1, <2>1 DEF NextState, NextText
  <2>3. NextState(p, IAC) = "sb" /\ NextText(p, IAC) = <<>>
    BY <1>1, <2>1 DEF NextState, NextText
  <2>4. NextLen(p, IAC) = n
    BY <1>1, <2>1 DEF NextLen
  <2> QED
    BY <2>2, <2>3, <2>4
<1>5. Behind(p, EC) /\ IacState(EC) = "normal" /\ IacText(EC) = <<EraseKey>>
  <2>1. EC \notin {SE, IAC, DO, DONT, WILL, WONT, SB}
    BY CodesAre
  <2> QED
    BY <1>1, <2>1 DEF Behind, IacState, IacText
<1>6. NextState(p, EC) = "normal" /\ NextText(p, EC) = <<EraseKey>>
  <2>1. EC # SE /\ EC # IAC
    BY CodesAre
  <2> QED
    BY <1>1, <1>5, <2>1 DEF NextState, NextText
<1>4. \A b \in Byte :
        /\ Server.step[p][b] \in Scanners
        /\ Server.step[p][b].state = NextState(p, b) /\ Server.step[p][b].sb_len = NextLen(p, b)
        /\ Server.out[p][b] = OfText(NextText(p, b))
  BY <1>1, StepIs
<1> QED
  BY <1>2, <1>3, <1>4, <1>6, OfTextIs DEF Normal, Block

\* A request.
LEMMA RequestRead ==
  ASSUME NEW v \in {DO, DONT, WILL, WONT}, NEW o \in Options
  PROVE  From(Normal, <<IAC, v, o>>, One(o, Asked(v, o))) /\ <<IAC, v, o>> \in Seq(Byte)
<1>1. v \in Byte /\ IAC \in Byte /\ o \in Byte
  BY CodesAre, OptionsAre DEF Byte
<1> DEFINE s == <<IAC, v, o>>
           t == <<v, o>>
<1>2. /\ s \in Seq(Byte) /\ s # <<>> /\ s[1] = IAC /\ Tail(s) = t
      /\ t \in Seq(Byte) /\ t # <<>> /\ t[1] = v /\ Tail(t) = <<o>>
  BY <1>1
<1>3. ASSUME NEW p \in Verbs(v)
      PROVE  Server.out[p][o] = One(o, Asked(v, o)) /\ Server.step[p][o] \in Normal
  <2>1. p \in Scanners /\ p.state = "verb" /\ p.verb = v
    BY DEF Verbs
  <2>2. /\ Server.step[p][o] = [state |-> "normal", verb |-> p.verb, sb_len |-> p.sb_len]
        /\ Server.step[p][o] \in Scanners
    BY <1>1, <2>1, ServerRequest
  <2>3. Server.out[p][o] = One(About(o), Asked(p.verb, o))
    BY <1>1, <2>1, ServerRequest
  <2>4. About(o) = o
    BY OptionsAre
  <2> QED
    BY <2>1, <2>2, <2>3, <2>4 DEF Normal
<1>4. From(Verbs(v), <<o>>, One(o, Asked(v, o)))
  BY <1>1, <1>3, FromOne, Apart
<1> HIDE DEF s, t
<1>5. From(Commanded, t, One(o, Asked(v, o)))
  <2>1. \A p \in Commanded : Server.out[p][v] = Nothing /\ Server.step[p][v] \in Verbs(v)
    BY <1>1, InCommanded
  <2> QED
    BY <1>2, <1>4, <2>1, FromQuietly, Apart
<1>6. From(Normal, s, One(o, Asked(v, o)))
  BY <1>1, <1>2, <1>5, FromQuietly, InNormal, Apart
<1> QED
  BY <1>2, <1>6 DEF s

LEMMA NormalByte ==
  ASSUME NEW b \in Byte, b \notin {IAC, 0}
  PROVE  From(Normal, <<b>>, OfText(<<b>>))
  BY InNormal, FromOne, Apart

\* A command of two bytes.
LEMMA CommandRead ==
  ASSUME NEW b \in Byte, b \notin {DO, DONT, WILL, WONT, SB}
  PROVE  From(Normal, <<IAC, b>>, OfText(IacText(b))) /\ <<IAC, b>> \in Seq(Byte)
<1>1. IAC \in Byte
  BY CodesAre DEF Byte
<1> DEFINE s == <<IAC, b>>
<1>2. s \in Seq(Byte) /\ s # <<>> /\ s[1] = IAC /\ Tail(s) = <<b>>
  BY <1>1
<1>3. From(Commanded, <<b>>, OfText(IacText(b)))
  BY InCommanded, FromOne, Apart
<1> HIDE DEF s
<1>4. \A p \in Normal : Server.out[p][IAC] = Nothing /\ Server.step[p][IAC] \in Commanded
  BY <1>1, InNormal
<1>5. From(Normal, s, OfText(IacText(b)))
  <2>1. <<b>> \in Seq(Byte)
    OBVIOUS
  <2> QED
    BY <1>2, <1>3, <1>4, <2>1, FromQuietly, Apart
<1> QED
  BY <1>2, <1>5 DEF s

LEMMA ReturnRead ==
  From(Normal, <<13, 0>>, OfText(<<13>>)) /\ <<13, 0>> \in Seq(Byte)
<1>1. 13 \in Byte /\ 0 \in Byte /\ 13 \notin {IAC, 0}
  BY CodesAre DEF Byte
<1> DEFINE s == <<13, 0>>
<1>2. s \in Seq(Byte) /\ s # <<>> /\ s[1] = 13 /\ Tail(s) = <<0>> /\ <<0>> \in Seq(Byte)
  BY <1>1
<1>3. From(Normal, <<0>>, Nothing)
  <2>1. \A p \in Normal : Server.out[p][0] = Nothing /\ Server.step[p][0] \in Normal
    BY <1>1, InNormal
  <2> QED
    BY <1>1, <2>1, FromOne, Apart
<1>4. \A p \in Normal : Server.out[p][13] = OfText(<<13>>) /\ Server.step[p][13] \in Normal
  BY <1>1, InNormal
<1> HIDE DEF s
<1>5. ASSUME NEW p \in Normal PROVE \E q \in Normal : Reads(Server, p, s, q, OfText(<<13>>))
  <2>1. Server.out[p][13] = OfText(<<13>>) /\ Server.step[p][13] \in Normal /\ p \in Server.states
    BY <1>4, Apart, ServerReads
  <2>2. PICK q \in Normal : Reads(Server, Server.step[p][s[1]], Tail(s), q, Nothing)
    BY <1>2, <1>3, <2>1 DEF From
  <2>3. Reads(Server, p, s, q, Join(Server.out[p][s[1]], Nothing))
    BY <1>2, <2>1, <2>2, ServerReads, ReadsFrom
  <2>4. OfText(<<13>>) \in Saying
    BY <1>1, <2>1, ServerReads, Apart DEF IsReader
  <2>5. Join(Server.out[p][s[1]], Nothing) = OfText(<<13>>)
    BY <1>2, <2>1, <2>4, JoinIs
  <2> QED
    BY <2>3, <2>5
<1> QED
  BY <1>2, <1>5 DEF From, s

-----------------------------------------------------------------------------
(* Blocks: from inside one to its end                                      *)

Deeper(n, m) == n \in Nat /\ m = n + 1 /\ n < MaxSbLen

LEMMA Depths == Deeper(0, 1) /\ Deeper(1, 2) /\ Deeper(2, 3)
  BY WireAssumption DEF Deeper

LEMMA BlockByte ==
  ASSUME NEW n, NEW m, Deeper(n, m), NEW t \in Seq(Byte), t # <<>>, t[1] # IAC, NEW w,
         From(Block(m), Tail(t), w)
  PROVE  From(Block(n), t, w)
<1>1. t[1] \in Byte /\ Tail(t) \in Seq(Byte)
  BY HeadTailProperties
<1>2. \A p \in Block(n) : Server.out[p][t[1]] = Nothing /\ Server.step[p][t[1]] \in Block(m)
  BY <1>1, InBlock DEF Deeper
<1> QED
  BY <1>1, <1>2, FromQuietly, Apart

LEMMA BlockMarked ==
  ASSUME NEW n \in Nat, NEW t \in Seq(Byte), t # <<>>, t[1] = IAC, NEW w,
         From(BlockIac(n), Tail(t), w)
  PROVE  From(Block(n), t, w)
<1>1. t[1] \in Byte /\ Tail(t) \in Seq(Byte)
  BY HeadTailProperties
<1>2. \A p \in Block(n) : Server.out[p][t[1]] = Nothing /\ Server.step[p][t[1]] \in BlockIac(n)
  BY <1>1, InBlock
<1> QED
  BY <1>1, <1>2, FromQuietly, Apart

LEMMA BlockUnmarked ==
  ASSUME NEW n \in Nat, NEW t \in Seq(Byte), t # <<>>, t[1] = IAC, NEW w,
         From(Block(n), Tail(t), w)
  PROVE  From(BlockIac(n), t, w)
<1>1. t[1] \in Byte /\ Tail(t) \in Seq(Byte)
  BY HeadTailProperties
<1>2. \A p \in BlockIac(n) : Server.out[p][t[1]] = Nothing /\ Server.step[p][t[1]] \in Block(n)
  BY <1>1, InBlockIac
<1> QED
  BY <1>1, <1>2, FromQuietly, Apart

LEMMA BlockEnds ==
  ASSUME NEW n \in Nat
  PROVE  From(BlockIac(n), <<SE>>, Nothing) /\ From(BlockIac(n), <<EC>>, OfText(<<EraseKey>>))
<1>1. SE \in Byte /\ EC \in Byte
  BY CodesAre DEF Byte
<1>2. From(BlockIac(n), <<SE>>, Nothing)
  <2>1. \A p \in BlockIac(n) : Server.out[p][SE] = Nothing /\ Server.step[p][SE] \in Normal
    BY InBlockIac
  <2> QED
    BY <1>1, <2>1, FromOne, Apart
<1>3. From(BlockIac(n), <<EC>>, OfText(<<EraseKey>>))
  <2>1. \A p \in BlockIac(n) : /\ Server.out[p][EC] = OfText(<<EraseKey>>)
                               /\ Server.step[p][EC] \in Normal
    BY InBlockIac
  <2> QED
    BY <1>1, <2>1, FromOne, Apart
<1> QED
  BY <1>2, <1>3

LEMMA BlockBegins ==
  ASSUME NEW s \in Seq(Byte), NEW w, From(Block(0), s, w), NEW t \in Seq(Byte), t # <<>>, t[1] = SB,
         Tail(t) = s, NEW u \in Seq(Byte), u # <<>>, u[1] = IAC, Tail(u) = t
  PROVE  From(Normal, u, w)
<1>1. IAC \in Byte /\ SB \in Byte
  BY CodesAre DEF Byte
<1>2. From(Commanded, t, w)
  <2>1. \A p \in Commanded : Server.out[p][SB] = Nothing /\ Server.step[p][SB] \in Block(0)
    BY <1>1, InCommanded
  <2> QED
    BY <1>1, <2>1, FromQuietly, Apart
<1>3. \A p \in Normal : Server.out[p][IAC] = Nothing /\ Server.step[p][IAC] \in Commanded
  BY <1>1, InNormal
<1> QED
  BY <1>2, <1>3, FromQuietly, Apart

\* A window size.
LEMMA SizeRead ==
  LET s == <<IAC, SB, NAWS, 0, 80, IAC, SE>>
  IN  From(Normal, s, Nothing) /\ s \in Seq(Byte)
<1>1. /\ IAC \in Byte /\ SB \in Byte /\ NAWS \in Byte /\ 0 \in Byte /\ 80 \in Byte /\ SE \in Byte
      /\ NAWS # IAC /\ 0 # IAC /\ 80 # IAC /\ SE # IAC
      /\ MaxSbLen \in Nat /\ MaxSbLen >= 3
  BY CodesAre, WireAssumption DEF Byte
<1> DEFINE a == <<SE>>
           b == <<IAC, SE>>
           c == <<80, IAC, SE>>
           d == <<0, 80, IAC, SE>>
           e == <<NAWS, 0, 80, IAC, SE>>
           f == <<SB, NAWS, 0, 80, IAC, SE>>
           g == <<IAC, SB, NAWS, 0, 80, IAC, SE>>
<1>2. /\ b \in Seq(Byte) /\ b # <<>> /\ b[1] = IAC /\ Tail(b) = a
      /\ c \in Seq(Byte) /\ c # <<>> /\ c[1] = 80 /\ Tail(c) = b
      /\ d \in Seq(Byte) /\ d # <<>> /\ d[1] = 0 /\ Tail(d) = c
  BY <1>1
<1>3. /\ e \in Seq(Byte) /\ e # <<>> /\ e[1] = NAWS /\ Tail(e) = d
      /\ f \in Seq(Byte) /\ f # <<>> /\ f[1] = SB /\ Tail(f) = e
      /\ g \in Seq(Byte) /\ g # <<>> /\ g[1] = IAC /\ Tail(g) = f
  BY <1>1
<1>4. From(BlockIac(3), a, Nothing)
  BY BlockEnds
<1> HIDE DEF a, b, c, d, e, f, g
<1>5. From(Block(3), b, Nothing)
  BY <1>2, <1>4, BlockMarked
<1>10. c \in Seq(Byte) /\ c # <<>> /\ c[1] # IAC /\ Tail(c) = b
  BY <1>1, <1>2
<1>11. d \in Seq(Byte) /\ d # <<>> /\ d[1] # IAC /\ Tail(d) = c
  BY <1>1, <1>2
<1>6. From(Block(2), c, Nothing)
  BY <1>5, <1>10, Depths, BlockByte
<1>7. From(Block(1), d, Nothing)
  BY <1>6, <1>11, Depths, BlockByte
<1>8. From(Block(0), e, Nothing)
  BY <1>1, <1>3, <1>7, Depths, BlockByte
<1>9. From(Normal, g, Nothing)
  BY <1>3, <1>8, BlockBegins
<1> QED
  BY <1>9, <1>3 DEF g

\* A window size with 255 in it, which is doubled, and a byte that looks like an end.
LEMMA OddSizeRead ==
  LET s == <<IAC, SB, NAWS, IAC, IAC, SE, IAC, SE>>
  IN  From(Normal, s, Nothing) /\ s \in Seq(Byte)
<1>1. /\ IAC \in Byte /\ SB \in Byte /\ NAWS \in Byte /\ SE \in Byte
      /\ NAWS # IAC /\ SE # IAC
      /\ MaxSbLen \in Nat /\ MaxSbLen >= 3
  BY CodesAre, WireAssumption DEF Byte
<1> DEFINE a == <<SE>>
           b == <<IAC, SE>>
           c == <<SE, IAC, SE>>
           d == <<IAC, SE, IAC, SE>>
           e == <<IAC, IAC, SE, IAC, SE>>
           f == <<NAWS, IAC, IAC, SE, IAC, SE>>
           g == <<SB, NAWS, IAC, IAC, SE, IAC, SE>>
           h == <<IAC, SB, NAWS, IAC, IAC, SE, IAC, SE>>
<1>2. /\ b \in Seq(Byte) /\ b # <<>> /\ b[1] = IAC /\ Tail(b) = a
      /\ c \in Seq(Byte) /\ c # <<>> /\ c[1] = SE /\ Tail(c) = b
      /\ d \in Seq(Byte) /\ d # <<>> /\ d[1] = IAC /\ Tail(d) = c
  BY <1>1
<1>3. /\ e \in Seq(Byte) /\ e # <<>> /\ e[1] = IAC /\ Tail(e) = d
      /\ f \in Seq(Byte) /\ f # <<>> /\ f[1] = NAWS /\ Tail(f) = e
      /\ g \in Seq(Byte) /\ g # <<>> /\ g[1] = SB /\ Tail(g) = f
  BY <1>1
<1>4. /\ h \in Seq(Byte) /\ h # <<>> /\ h[1] = IAC /\ Tail(h) = g
  BY <1>1
<1>5. From(BlockIac(2), a, Nothing)
  BY BlockEnds
<1> HIDE DEF a, b, c, d, e, f, g, h
<1>6. From(Block(2), b, Nothing)
  BY <1>2, <1>5, BlockMarked
<1>7. From(Block(1), c, Nothing)
  BY <1>1, <1>2, <1>6, Depths, BlockByte
<1>8. From(BlockIac(1), d, Nothing)
  BY <1>2, <1>7, BlockUnmarked
<1>9. From(Block(1), e, Nothing)
  BY <1>3, <1>8, BlockMarked
<1>10. From(Block(0), f, Nothing)
  BY <1>1, <1>3, <1>9, Depths, BlockByte
<1>11. From(Normal, h, Nothing)
  BY <1>3, <1>4, <1>10, BlockBegins
<1> QED
  BY <1>11, <1>4 DEF h

\* A block cut short by an editing command.
LEMMA CutRead ==
  LET s == <<IAC, SB, NAWS, 0, IAC, EC>>
  IN  From(Normal, s, OfText(<<EraseKey>>)) /\ s \in Seq(Byte)
<1>1. /\ IAC \in Byte /\ SB \in Byte /\ NAWS \in Byte /\ 0 \in Byte /\ EC \in Byte
      /\ NAWS # IAC /\ 0 # IAC /\ EC # IAC
      /\ MaxSbLen \in Nat /\ MaxSbLen >= 3
  BY CodesAre, WireAssumption DEF Byte
<1> DEFINE a == <<EC>>
           b == <<IAC, EC>>
           c == <<0, IAC, EC>>
           d == <<NAWS, 0, IAC, EC>>
           e == <<SB, NAWS, 0, IAC, EC>>
           f == <<IAC, SB, NAWS, 0, IAC, EC>>
<1>2. /\ b \in Seq(Byte) /\ b # <<>> /\ b[1] = IAC /\ Tail(b) = a
      /\ c \in Seq(Byte) /\ c # <<>> /\ c[1] = 0 /\ Tail(c) = b
      /\ d \in Seq(Byte) /\ d # <<>> /\ d[1] = NAWS /\ Tail(d) = c
  BY <1>1
<1>3. /\ e \in Seq(Byte) /\ e # <<>> /\ e[1] = SB /\ Tail(e) = d
      /\ f \in Seq(Byte) /\ f # <<>> /\ f[1] = IAC /\ Tail(f) = e
  BY <1>1
<1>4. From(BlockIac(2), a, OfText(<<EraseKey>>))
  BY BlockEnds
<1> HIDE DEF a, b, c, d, e, f
<1>5. From(Block(2), b, OfText(<<EraseKey>>))
  BY <1>2, <1>4, BlockMarked
<1>6. From(Block(1), c, OfText(<<EraseKey>>))
  BY <1>1, <1>2, <1>5, Depths, BlockByte
<1>7. From(Block(0), d, OfText(<<EraseKey>>))
  BY <1>1, <1>2, <1>6, Depths, BlockByte
<1>8. From(Normal, f, OfText(<<EraseKey>>))
  BY <1>2, <1>3, <1>7, BlockBegins
<1> QED
  BY <1>8, <1>3 DEF f

Zeros == [i \in 1 .. MaxSbLen + 1 |-> 0]

\* A block without an end is given up.
LEMMA GivenUp == From(Block(0), Zeros, Nothing) /\ Zeros \in Seq(Byte)
<1>1. MaxSbLen \in Nat /\ 0 \in Byte /\ 0 # IAC
  BY WireAssumption, CodesAre DEF Byte
<1>2. Zeros \in Seq(Byte) /\ Len(Zeros) = MaxSbLen + 1 /\ \A i \in 1 .. MaxSbLen + 1 : Zeros[i] = 0
  BY <1>1 DEF Zeros
<1> SUFFICES ASSUME NEW p \in Block(0) PROVE \E q \in Normal : Reads(Server, p, Zeros, q, Nothing)
  BY <1>2 DEF From
<1>3. p \in Scanners /\ p.state = "sb" /\ p.sb_len = 0 /\ p.verb \in Byte
  BY DEF Block, Scanners
<1> DEFINE n == MaxSbLen + 1
           x(i) == [state |-> IF i <= MaxSbLen THEN "sb" ELSE "normal",
                    verb |-> p.verb, sb_len |-> i]
           g == [i \in 0 .. n |-> x(i)]
           r == [i \in 0 .. n |-> Nothing]
<1>4. \A i \in 0 .. n : x(i) \in Scanners
  <2> TAKE i \in 0 .. n
  <2>1. i \in Nat
    BY <1>1
  <2>2. (IF i <= MaxSbLen THEN "sb" ELSE "normal") \in ParserStates
    BY DEF ParserStates
  <2> QED
    BY <1>3, <2>1, <2>2 DEF Scanners
<1>5. x(0) = p
  BY <1>1, <1>3 DEF Scanners
<1>6. x(n) \in Normal
  <2>1. x(n) \in Scanners
    BY <1>1, <1>4
  <2>2. x(n).state = "normal"
    BY <1>1
  <2> QED
    BY <2>1, <2>2 DEF Normal
<1>7. ASSUME NEW i \in 1 .. n
      PROVE  x(i) = Server.step[x(i - 1)][0] /\ Server.out[x(i - 1)][0] = Nothing
  <2>1. i - 1 \in Nat /\ i - 1 <= MaxSbLen /\ i - 1 \in 0 .. n /\ (i - 1) + 1 = i
    BY <1>1
  <2>2. x(i - 1) \in Block(i - 1) /\ x(i - 1).verb = p.verb
    BY <1>4, <2>1 DEF Block
  <2> DEFINE z == Server.step[x(i - 1)][0]
  <2>3. /\ Server.out[x(i - 1)][0] = Nothing /\ z.verb = p.verb /\ z.sb_len = i
        /\ i - 1 < MaxSbLen => z \in Block(i)
        /\ i - 1 >= MaxSbLen => z \in Normal
    BY <1>1, <2>1, <2>2, InBlock
  <2> HIDE DEF z
  <2>4. z \in Scanners /\ z.state = IF i <= MaxSbLen THEN "sb" ELSE "normal"
    BY <1>1, <2>1, <2>3 DEF Block, Normal
  <2>5. z = x(i)
    BY <2>3, <2>4 DEF Scanners
  <2> QED
    BY <2>3, <2>5 DEF z
<1> HIDE DEF x
<1>8. \A i \in 0 .. n : g[i] = x(i) /\ r[i] = Nothing
  OBVIOUS
<1>9. g \in [0 .. n -> Server.states] /\ r \in [0 .. n -> Saying]
  BY <1>4, NothingIs, ServerReads
<1>10. 0 \in 0 .. n /\ n \in 0 .. n /\ \A i \in 1 .. n : i \in 0 .. n /\ i - 1 \in 0 .. n
  BY <1>1
<1> HIDE DEF g, r, n
<1>11. Way(Server, g, r, p, Zeros, x(n), Nothing)
  <2>1. \A i \in 1 .. n : /\ g[i] = Server.step[g[i - 1]][Zeros[i]]
                          /\ r[i - 1] = Join(Server.out[g[i - 1]][Zeros[i]], r[i])
    <3> TAKE i \in 1 .. n
    <3>1. Zeros[i] = 0 /\ g[i] = x(i) /\ g[i - 1] = x(i - 1) /\ r[i] = Nothing /\ r[i - 1] = Nothing
      BY <1>2, <1>8, <1>10 DEF n
    <3>2. Join(Nothing, Nothing) = Nothing
      BY NothingIs, JoinIs
    <3> QED
      BY <1>7, <3>1, <3>2
  <2> QED
    BY <1>2, <1>5, <1>8, <1>9, <1>10, <2>1 DEF Way, n
<1> QED
  BY <1>2, <1>6, <1>11 DEF Reads

LEMMA UnendedRead ==
  LET s == (<<IAC, SB>> \o Zeros) \o <<Text>>
  IN  From(Normal, s, OfText(<<Text>>)) /\ s \in Seq(Byte)
<1>1. /\ IAC \in Byte /\ SB \in Byte /\ Text \in Byte /\ Text \notin {IAC, 0}
  BY CodesAre DEF Byte, Text
<1> DEFINE a == <<IAC, SB>>
           b == <<Text>>
<1>2. /\ a \in Seq(Byte) /\ a # <<>> /\ a[1] = IAC /\ Tail(a) = <<SB>> /\ <<SB>> \in Seq(Byte)
      /\ b \in Seq(Byte)
  BY <1>1
<1>3. From(Normal, b, OfText(b))
  BY <1>1, NormalByte
<1> HIDE DEF a, b
<1>4. ASSUME NEW p \in Normal PROVE \E q \in Block(0) : Reads(Server, p, a, q, Nothing)
  <2> DEFINE c == Server.step[p][IAC]
             d == Server.step[c][SB]
  <2>1. Server.out[p][IAC] = Nothing /\ c \in Commanded
    BY <1>1, InNormal
  <2> HIDE DEF c
  <2>2. Server.out[c][SB] = Nothing /\ d \in Block(0)
    BY <1>1, <2>1, InCommanded
  <2>3. p \in Server.states /\ c \in Server.states
    BY <2>1, Apart, ServerReads
  <2>4. Reads(Server, c, <<SB>>, d, Nothing)
    BY <1>1, <2>2, <2>3, ServerReads, ReadsOne
  <2> HIDE DEF d
  <2>5. Reads(Server, p, a, d, Nothing)
    BY <1>2, <2>1, <2>3, <2>4, ServerReads, ReadsQuietly DEF c
  <2> QED
    BY <2>2, <2>5
<1>5. ASSUME NEW p \in Normal
      PROVE  \E q \in Normal : Reads(Server, p, (a \o Zeros) \o b, q, OfText(b))
  <2>1. PICK c \in Block(0) : Reads(Server, p, a, c, Nothing)
    BY <1>4
  <2>2. PICK d \in Normal : Reads(Server, c, Zeros, d, Nothing)
    BY GivenUp DEF From
  <2>3. PICK q \in Normal : Reads(Server, d, b, q, OfText(b))
    BY <1>3 DEF From
  <2>4. Reads(Server, p, a \o Zeros, d, Nothing)
    <3>1. Reads(Server, p, a \o Zeros, d, Join(Nothing, Nothing))
      BY <2>1, <2>2, ServerReads, ReadsBoth
    <3> QED
      BY <3>1, NothingIs, JoinIs
  <2>5. Reads(Server, p, (a \o Zeros) \o b, q, Join(Nothing, OfText(b)))
    BY <2>3, <2>4, ServerReads, ReadsBoth
  <2>6. Join(Nothing, OfText(b)) = OfText(b)
    <3>1. OfText(b) \in Saying
      BY <2>3, ReadsTyped
    <3> QED
      BY <3>1, JoinIs
  <2> QED
    BY <2>5, <2>6
<1>6. (a \o Zeros) \o b \in Seq(Byte)
  BY <1>2, GivenUp, ConcatProperties
<1> QED
  BY <1>5, <1>6 DEF From, a, b

Meaningful(u) ==
  u.bytes \in Seq(Byte) /\ u.means \in Seq(Byte) /\ From(Normal, u.bytes, OfText(u.means))

LEMMA PhrasesRead == \A u \in Phrases : Meaningful(u)
<1> DEFINE P(s, t) == Meaningful([bytes |-> s, means |-> t])
<1>1. /\ IAC = 255 /\ IAC \in Byte /\ EC \in Byte /\ EL \in Byte /\ AYT \in Byte /\ NOP \in Byte
      /\ Text \in Byte /\ EraseKey \in Byte /\ KillKey \in Byte /\ 13 \in Byte
      /\ Text \notin {IAC, 0}
  BY CodesAre DEF Byte, Text
<1>2. \A s, t : P(s, t) <=> s \in Seq(Byte) /\ t \in Seq(Byte) /\ From(Normal, s, OfText(t))
  BY DEF Meaningful
<1>3. <<>> \in Seq(Byte) /\ \A b \in Byte : <<b>> \in Seq(Byte)
  BY EmptySeq
<1>4. ASSUME NEW b \in {IAC, EC, EL, AYT, NOP} PROVE P(<<IAC, b>>, IacText(b))
  <2>1. b \in Byte /\ b \notin {DO, DONT, WILL, WONT, SB}
    BY <1>1, CodesAre
  <2>2. From(Normal, <<IAC, b>>, OfText(IacText(b))) /\ <<IAC, b>> \in Seq(Byte)
    BY <2>1, CommandRead
  <2>3. IacText(b) \in Seq(Byte)
    BY <1>1, <1>3 DEF IacText
  <2> QED
    BY <1>2, <2>2, <2>3
<1>5. /\ IacText(IAC) = <<255>> /\ IacText(EC) = <<EraseKey>> /\ IacText(EL) = <<KillKey>>
      /\ IacText(AYT) = <<>> /\ IacText(NOP) = <<>>
  BY CodesAre DEF IacText
<1> HIDE DEF P
<1>6. P(<<Text>>, <<Text>>)
  BY <1>1, <1>2, <1>3, NormalByte
<1>7. P(<<13, 0>>, <<13>>)
  BY <1>1, <1>2, <1>3, ReturnRead
<1>8. P(<<IAC, SB, NAWS, 0, 80, IAC, SE>>, <<>>)
  BY <1>2, <1>3, SizeRead, OfTextIs
<1>9. P(<<IAC, SB, NAWS, IAC, IAC, SE, IAC, SE>>, <<>>)
  BY <1>2, <1>3, OddSizeRead, OfTextIs
<1>10. P(<<IAC, SB, NAWS, 0, IAC, EC>>, <<EraseKey>>)
  BY <1>1, <1>2, <1>3, CutRead
<1>11. P(<<IAC, SB>> \o [i \in 1 .. MaxSbLen + 1 |-> 0] \o <<Text>>, <<Text>>)
  BY <1>1, <1>2, <1>3, UnendedRead DEF Zeros
<1>12. /\ P(<<IAC, IAC>>, <<255>>) /\ P(<<IAC, EC>>, <<EraseKey>>) /\ P(<<IAC, EL>>, <<KillKey>>)
       /\ P(<<IAC, AYT>>, <<>>) /\ P(<<IAC, NOP>>, <<>>)
  BY <1>4, <1>5
<1> QED
  BY <1>6, <1>7, <1>8, <1>9, <1>10, <1>11, <1>12, ZenonT(60) DEF Phrases, P

-----------------------------------------------------------------------------
(* The inductive invariant                                                 *)

PeerStates == {"no", "yes", "want no", "want yes"}

\* An option the server tracks: s is the client's state, e the server's, p tells whether
\* the server awaits an answer; to and from are the requests under way, to and from the server.
Linked(s, e, p, to, from) ==
  \/ /\ p /\ ~e
     /\ \/ s = "no" /\ to = <<>> /\ from = <<"on">>
        \/ s = "want yes" /\ to = <<"on">> /\ from = <<"on">>
        \/ s = "yes" /\ to = <<"on">> /\ from = <<>>
        \/ s = "no" /\ to = <<"off">> /\ from = <<>>
        \/ s = "want no" /\ to = <<"on", "off">> /\ from = <<>>
        \/ s = "want yes" /\ to = <<"off", "on">> /\ from = <<>>
  \/ /\ ~p
     /\ \/ s = "yes" /\ e /\ to = <<>> /\ from = <<>>
        \/ s = "no" /\ ~e /\ to = <<>> /\ from = <<>>
        \/ s = "want yes" /\ ~e /\ to = <<"on">> /\ from = <<>>
        \/ s = "want yes" /\ e /\ to = <<>> /\ from = <<"on">>
        \/ s = "want no" /\ e /\ to = <<"off">> /\ from = <<>>
        \/ s = "want no" /\ ~e /\ to = <<>> /\ from = <<"off">>

\* An option the server refuses: every request is refused, and every answer is a refusal.
Denied(s, to, from) ==
  /\ s \in {"no", "want yes"}
  /\ \A i \in 1 .. Len(to) : to[i] = "on"
  /\ \A i \in 1 .. Len(from) : from[i] = "off"
  /\ s = "want yes" => to # <<>> \/ from # <<>>

Bound(option, ctx, w, v) ==
  /\ w[Stray] = <<>> /\ v[Stray] = <<>>
  /\ \A o \in Tracked : Linked(option[o], ctx.enabled[o], o \in ctx.pending, w[o], v[o])
  /\ \A o \in Refused : Denied(option[o], w[o], v[o])

\* The server holds text and has the bytes s before it; the client has the bytes c before it.
Held(ctx, s, c, meant, text, shown, option) ==
  \E q \in Normal : \E w, v \in Saying :
    /\ Reads(Server, Scanner(ctx), s, q, w) /\ meant = text \o w[Plain]
    /\ Reads(Client, "text", c, "text", v) /\ shown = v[Plain]
    /\ Bound(option, ctx, w, v)

WireTyped ==
  /\ telnet \in Contexts /\ due \in Seq(Byte) /\ owed \in Seq(Byte)
  /\ peer \in [option : [Options -> PeerStates], left : [sends : Nat, changes : Nat, writes : Nat]]

WireInv ==
  WireTyped /\ Held(telnet, toServer, toClient, due, telnet.rx, owed, peer.option)

-----------------------------------------------------------------------------
(* Short sequences                                                         *)

LEMMA Lasts ==
  ASSUME NEW a, NEW b
  PROVE  <<>> \o <<a>> = <<a>> /\ <<a>> \o <<b>> = <<a, b>>
<1> DEFINE S == {a, b}
           s == <<a>>
           t == <<b>>
           u == <<a, b>>
           c == s \o t
<1>1. /\ s \in Seq(S) /\ t \in Seq(S) /\ u \in Seq(S) /\ Len(s) = 1 /\ Len(t) = 1 /\ Len(u) = 2
      /\ s[1] = a /\ t[1] = b /\ u[1] = a /\ u[2] = b
  OBVIOUS
<1> HIDE DEF S, s, t, u
<1>2. <<>> \o s = s
  BY <1>1, ConcatEmptySeq
<1>3. c \in Seq(S) /\ Len(c) = 2 /\ c[1] = a /\ c[2] = b
  <2>1. /\ c \in Seq(S) /\ Len(c) = Len(s) + Len(t)
        /\ \A i \in 1 .. Len(s) + Len(t) : c[i] = IF i <= Len(s) THEN s[i] ELSE t[i - Len(s)]
    BY <1>1, ConcatProperties
  <2> QED
    BY <1>1, <2>1
<1> HIDE DEF c
<1>4. \A i \in 1 .. Len(c) : c[i] = u[i]
  BY <1>1, <1>3
<1>5. c = u
  BY <1>1, <1>3, <1>4, SeqEqual
<1> QED
  BY <1>2, <1>5 DEF c, s, t, u

LEMMA Firsts ==
  ASSUME NEW S, NEW a \in S, NEW s \in Seq(S)
  PROVE  /\ <<a>> \o s \in Seq(S) /\ <<a>> \o s # <<>>
         /\ (<<a>> \o s)[1] = a /\ Tail(<<a>> \o s) = s
         /\ Len(<<a>> \o s) = Len(s) + 1 /\ \A i \in 1 .. Len(s) : (<<a>> \o s)[i + 1] = s[i]
<1>1. <<a>> \in Seq(S) /\ Len(<<a>>) = 1 /\ <<a>>[1] = a
  OBVIOUS
<1> DEFINE t == <<a>> \o s
<1>2. /\ t \in Seq(S) /\ Len(t) = 1 + Len(s) /\ t[1] = a /\ Len(s) \in Nat
      /\ \A i \in 2 .. Len(t) : t[i] = s[i - 1]
  BY <1>1, ConcatProperties, LenProperties
<1> HIDE DEF t
<1>3. t # <<>>
  BY <1>2, EmptySeq
<1>4. Tail(t) \in Seq(S) /\ Len(Tail(t)) = Len(s) /\ \A i \in 1 .. Len(s) : Tail(t)[i] = s[i]
  BY <1>2, <1>3, HeadTailProperties
<1>5. Tail(t) = s
  BY <1>2, <1>4, SeqEqual
<1>6. Len(t) = Len(s) + 1 /\ \A i \in 1 .. Len(s) : t[i + 1] = s[i]
  BY <1>2
<1> QED
  BY <1>2, <1>3, <1>5, <1>6 DEF t

LEMMA TailOfBoth ==
  ASSUME NEW S, NEW s \in Seq(S), NEW t \in Seq(S), s # <<>>
  PROVE  /\ Tail(s \o t) = Tail(s) \o t /\ (s \o t)[1] = s[1] /\ s \o t # <<>>
         /\ Tail(s) \in Seq(S) /\ s[1] \in S
<1>1. s[1] \in S /\ Tail(s) \in Seq(S) /\ s = <<s[1]>> \o Tail(s) /\ <<s[1]>> \in Seq(S)
  BY HeadTailProperties
<1>2. Tail(s) \o t \in Seq(S)
  BY <1>1, ConcatProperties
<1>3. s \o t = <<s[1]>> \o (Tail(s) \o t)
  <2>1. (<<s[1]>> \o Tail(s)) \o t = <<s[1]>> \o (Tail(s) \o t)
    BY <1>1, ConcatAssociative
  <2> QED
    BY <1>1, <2>1
<1> QED
  BY <1>1, <1>2, <1>3, Firsts

-----------------------------------------------------------------------------
(* What a step does to an option                                           *)

LEMMA Shorts ==
  /\ <<>> # <<"on">> /\ <<>> # <<"off">> /\ <<"on">> # <<"off">>
  /\ <<"on", "off">> # <<>> /\ <<"off", "on">> # <<>>
  /\ Tail(<<"on">>) = <<>> /\ Tail(<<"off">>) = <<>>
  /\ Tail(<<"on", "off">>) = <<"off">> /\ Tail(<<"off", "on">>) = <<"on">>
  /\ <<"on">>[1] = "on" /\ <<"off">>[1] = "off"
  /\ <<"on", "off">>[1] = "on" /\ <<"off", "on">>[1] = "off"
  OBVIOUS

\* The server reads a request.
LEMMA LinkedWord ==
  ASSUME NEW s, NEW e, NEW p, NEW a \in Words, NEW to \in Seq(Words), NEW from,
         Linked(s, e, p, <<a>> \o to, from)
  PROVE  a \in {"on", "off"}
<1> DEFINE t == <<a>> \o to
<1>1. t # <<>> /\ t[1] = a
  BY Firsts
<1> HIDE DEF t
<1>2. t \in {<<"on">>, <<"off">>, <<"on", "off">>, <<"off", "on">>}
  BY <1>1 DEF Linked, t
<1> QED
  BY <1>1, <1>2, Shorts

LEMMA Differ ==
  ASSUME NEW e \in BOOLEAN, NEW on \in BOOLEAN
  PROVE  e # on <=> (e <=> ~on)
  OBVIOUS

IsAnswered(s, e, p, a, to, from, on) ==
  IF ~p /\ e # on THEN Linked(s, on, FALSE, to, from \o <<a>>) ELSE Linked(s, on, FALSE, to, from)

LEMMA LinkedRequest ==
  ASSUME NEW s, NEW e \in BOOLEAN, NEW p \in BOOLEAN, NEW a \in Words, NEW to \in Seq(Words),
         NEW from \in Seq(Words), Linked(s, e, p, <<a>> \o to, from), NEW on \in BOOLEAN,
         a = OnOff(on)
  PROVE  IsAnswered(s, e, p, a, to, from, on)
<1> USE DEF IsAnswered
<1> DEFINE t == <<a>> \o to
<1>1. t # <<>> /\ t[1] = a /\ Tail(t) = to
  BY Firsts
<1>2. <<>> \o <<a>> = <<a>>
  BY Lasts
<1>5. on <=> a = "on"
  BY DEF OnOff
<1> HIDE DEF t
<1>3. CASE p
  <2>1. /\ ~e
        /\ \/ s = "want yes" /\ t = <<"on">> /\ from = <<"on">>
           \/ s = "yes" /\ t = <<"on">> /\ from = <<>>
           \/ s = "no" /\ t = <<"off">> /\ from = <<>>
           \/ s = "want no" /\ t = <<"on", "off">> /\ from = <<>>
           \/ s = "want yes" /\ t = <<"off", "on">> /\ from = <<>>
    BY <1>1, <1>3 DEF Linked, t
  <2>2. \/ s = "want yes" /\ a = "on" /\ to = <<>> /\ from = <<"on">>
        \/ s = "yes" /\ a = "on" /\ to = <<>> /\ from = <<>>
        \/ s = "no" /\ a = "off" /\ to = <<>> /\ from = <<>>
        \/ s = "want no" /\ a = "on" /\ to = <<"off">> /\ from = <<>>
        \/ s = "want yes" /\ a = "off" /\ to = <<"on">> /\ from = <<>>
    BY <1>1, <2>1, Shorts
  <2>3. Linked(s, on, FALSE, to, from)
    BY <1>5, <2>2 DEF Linked
  <2> QED
    BY <1>3, <2>3
<1>4. CASE ~p
  <2>1. \/ s = "want yes" /\ ~e /\ t = <<"on">> /\ from = <<>>
        \/ s = "want no" /\ e /\ t = <<"off">> /\ from = <<>>
    BY <1>1, <1>4 DEF Linked, t
  <2>2. \/ s = "want yes" /\ ~e /\ a = "on" /\ to = <<>> /\ from = <<>>
        \/ s = "want no" /\ e /\ a = "off" /\ to = <<>> /\ from = <<>>
    BY <1>1, <2>1, Shorts
  <2>5. e <=> ~on
    BY <1>5, <2>2
  <2>3. e # on
    BY <2>5, Differ
  <2>4. Linked(s, on, FALSE, to, from \o <<a>>)
    BY <1>2, <1>5, <2>2 DEF Linked
  <2> QED
    BY <1>4, <2>3, <2>4
<1> QED
  BY <1>3, <1>4

\* The client changes an option of its own accord.
LEMMA LinkedChange ==
  ASSUME NEW s \in {"no", "yes"}, NEW e \in BOOLEAN, NEW p \in BOOLEAN, NEW to, NEW from,
         Linked(s, e, p, to, from)
  PROVE  Linked(IF s = "no" THEN "want yes" ELSE "want no", e, p, to \o <<OnOff(s = "no")>>, from)
<1>1. /\ <<>> \o <<"on">> = <<"on">> /\ <<>> \o <<"off">> = <<"off">>
      /\ <<"on">> \o <<"off">> = <<"on", "off">> /\ <<"off">> \o <<"on">> = <<"off", "on">>
  BY Lasts
<1>2. CASE s = "no"
  <2>1. \/ p /\ ~e /\ to = <<>> /\ from = <<"on">>
        \/ p /\ ~e /\ to = <<"off">> /\ from = <<>>
        \/ ~p /\ ~e /\ to = <<>> /\ from = <<>>
    BY <1>2 DEF Linked
  <2>2. \/ p /\ ~e /\ to \o <<"on">> = <<"on">> /\ from = <<"on">>
        \/ p /\ ~e /\ to \o <<"on">> = <<"off", "on">> /\ from = <<>>
        \/ ~p /\ ~e /\ to \o <<"on">> = <<"on">> /\ from = <<>>
    BY <1>1, <2>1
  <2>3. Linked("want yes", e, p, to \o <<"on">>, from)
    BY <2>2 DEF Linked
  <2> QED
    BY <1>2, <2>3 DEF OnOff
<1>3. CASE s = "yes"
  <2>1. \/ p /\ ~e /\ to = <<"on">> /\ from = <<>>
        \/ ~p /\ e /\ to = <<>> /\ from = <<>>
    BY <1>3 DEF Linked
  <2>2. \/ p /\ ~e /\ to \o <<"off">> = <<"on", "off">> /\ from = <<>>
        \/ ~p /\ e /\ to \o <<"off">> = <<"off">> /\ from = <<>>
    BY <1>1, <2>1
  <2>3. Linked("want no", e, p, to \o <<"off">>, from)
    BY <2>2 DEF Linked
  <2> QED
    BY <1>3, <2>3 DEF OnOff
<1> QED
  BY <1>2, <1>3

\* The client reads an answer or a request.
Moves(s, e, p, a, to, from) ==
  /\ s # "yes"
  /\ s = "no" => /\ a = "on" /\ Linked("yes", e, p, to \o <<"on">>, from)
                 /\ Linked("no", e, p, to \o <<"off">>, from)
  /\ s = "want yes" => a = "on" /\ Linked("yes", e, p, to, from)
  /\ s = "want no" => a = "off" /\ Linked("no", e, p, to, from)

LEMMA LinkedHear ==
  ASSUME NEW s \in PeerStates, NEW e \in BOOLEAN, NEW p \in BOOLEAN, NEW a \in Words,
         NEW to \in Seq(Words), NEW from \in Seq(Words), Linked(s, e, p, to, <<a>> \o from)
  PROVE  Moves(s, e, p, a, to, from)
<1> USE DEF Moves
<1> DEFINE t == <<a>> \o from
<1>1. t # <<>> /\ t[1] = a /\ Tail(t) = from
  BY Firsts
<1>2. <<>> \o <<"on">> = <<"on">> /\ <<>> \o <<"off">> = <<"off">>
  BY Lasts
<1> HIDE DEF t
<1>3. \/ p /\ ~e /\ s = "no" /\ to = <<>> /\ t = <<"on">>
      \/ p /\ ~e /\ s = "want yes" /\ to = <<"on">> /\ t = <<"on">>
      \/ ~p /\ s = "want yes" /\ e /\ to = <<>> /\ t = <<"on">>
      \/ ~p /\ s = "want no" /\ ~e /\ to = <<>> /\ t = <<"off">>
  BY <1>1 DEF Linked, t
<1>4. \/ p /\ ~e /\ s = "no" /\ to = <<>> /\ a = "on" /\ from = <<>>
      \/ p /\ ~e /\ s = "want yes" /\ to = <<"on">> /\ a = "on" /\ from = <<>>
      \/ ~p /\ s = "want yes" /\ e /\ to = <<>> /\ a = "on" /\ from = <<>>
      \/ ~p /\ s = "want no" /\ ~e /\ to = <<>> /\ a = "off" /\ from = <<>>
  BY <1>1, <1>3, Shorts
<1> QED
  BY <1>2, <1>4 DEF Linked

LEMMA DeniedRequest ==
  ASSUME NEW s, NEW a \in Words, NEW to \in Seq(Words), NEW from \in Seq(Words),
         Denied(s, <<a>> \o to, from)
  PROVE  a = "on" /\ Denied(s, to, from \o <<"off">>)
<1> DEFINE t == <<a>> \o to
           u == from \o <<"off">>
<1>1. /\ t[1] = a /\ Len(t) = Len(to) + 1 /\ Len(to) \in Nat
      /\ \A i \in 1 .. Len(to) : t[i + 1] = to[i]
  BY Firsts, LenProperties
<1>2. /\ Len(u) = Len(from) + 1 /\ Len(from) \in Nat /\ u[Len(from) + 1] = "off"
      /\ \A i \in 1 .. Len(from) : u[i] = from[i]
  <2>1. <<"off">> \in Seq(Words) /\ Len(<<"off">>) = 1 /\ <<"off">>[1] = "off"
    BY DEF Words
  <2>2. /\ Len(u) = Len(from) + 1 /\ Len(from) \in Nat
        /\ \A i \in 1 .. Len(from) + 1 : u[i] = IF i <= Len(from) THEN from[i]
                                                ELSE <<"off">>[i - Len(from)]
    BY <2>1, ConcatProperties, LenProperties
  <2> QED
    BY <2>1, <2>2
<1> HIDE DEF t, u
<1>3. /\ s \in {"no", "want yes"} /\ \A i \in 1 .. Len(t) : t[i] = "on"
      /\ \A i \in 1 .. Len(from) : from[i] = "off"
  BY DEF Denied, t
<1>4. a = "on" /\ \A i \in 1 .. Len(to) : to[i] = "on"
  <2>1. 1 \in 1 .. Len(t) /\ \A i \in 1 .. Len(to) : i + 1 \in 1 .. Len(t)
    BY <1>1
  <2> QED
    BY <1>1, <1>3, <2>1
<1>5. ASSUME NEW i \in 1 .. Len(u) PROVE u[i] = "off"
  <2>1. i \in 1 .. Len(from) \/ i = Len(from) + 1
    BY <1>2
  <2> QED
    BY <1>2, <1>3, <2>1
<1>6. u # <<>>
  BY <1>2, EmptySeq
<1> QED
  BY <1>3, <1>4, <1>5, <1>6 DEF Denied, u

LEMMA DeniedChange ==
  ASSUME NEW s \in {"no", "yes"}, NEW to \in Seq(Words), NEW from, Denied(s, to, from)
  PROVE  s = "no" /\ Denied("want yes", to \o <<"on">>, from)
<1> DEFINE u == to \o <<"on">>
<1>1. <<"on">> \in Seq(Words) /\ Len(<<"on">>) = 1 /\ <<"on">>[1] = "on"
  BY DEF Words
<1>2. /\ Len(u) = Len(to) + 1 /\ Len(to) \in Nat
      /\ \A i \in 1 .. Len(to) + 1 : u[i] = IF i <= Len(to) THEN to[i] ELSE <<"on">>[i - Len(to)]
  BY <1>1, ConcatProperties, LenProperties
<1> HIDE DEF u
<1>3. /\ s = "no" /\ \A i \in 1 .. Len(to) : to[i] = "on"
      /\ \A i \in 1 .. Len(from) : from[i] = "off"
  BY DEF Denied
<1>4. \A i \in 1 .. Len(u) : u[i] = "on"
  BY <1>1, <1>2, <1>3
<1>5. u # <<>>
  BY <1>2, EmptySeq
<1> QED
  BY <1>3, <1>4, <1>5 DEF Denied, u

LEMMA DeniedHear ==
  ASSUME NEW s, NEW a \in Words, NEW to, NEW from \in Seq(Words), Denied(s, to, <<a>> \o from)
  PROVE  s \in {"no", "want yes"} /\ a = "off" /\ Denied("no", to, from)
<1> DEFINE t == <<a>> \o from
<1>1. t[1] = a /\ Len(t) = Len(from) + 1 /\ Len(from) \in Nat
      /\ \A i \in 1 .. Len(from) : t[i + 1] = from[i]
  BY Firsts, LenProperties
<1> HIDE DEF t
<1>3. /\ s \in {"no", "want yes"} /\ \A i \in 1 .. Len(t) : t[i] = "off"
      /\ \A i \in 1 .. Len(to) : to[i] = "on"
  BY DEF Denied, t
<1>4. a = "off" /\ \A i \in 1 .. Len(from) : from[i] = "off"
  <2>1. 1 \in 1 .. Len(t) /\ \A i \in 1 .. Len(from) : i + 1 \in 1 .. Len(t)
    BY <1>1
  <2> QED
    BY <1>1, <1>3, <2>1
<1> QED
  BY <1>3, <1>4 DEF Denied

-----------------------------------------------------------------------------
(* The server reads a byte                                                 *)

LEMMA Associative ==
  ASSUME NEW a \in Seq(Words), NEW b \in Seq(Words), NEW c \in Seq(Words)
  PROVE  a \o (b \o c) = (a \o b) \o c
  BY ConcatAssociative

LEMMA JoinOne ==
  ASSUME NEW k \in Channels, NEW a \in Words, NEW w \in Saying
  PROVE  /\ Join(One(k, a), w)[k] = <<a>> \o w[k] /\ Join(w, One(k, a))[k] = w[k] \o <<a>>
         /\ \A j \in Channels \ {k} : Join(One(k, a), w)[j] = w[j] /\ Join(w, One(k, a))[j] = w[j]
<1>1. One(k, a) \in Saying
  BY OneIs
<1>2. \A j \in Channels : /\ Join(One(k, a), w)[j] = One(k, a)[j] \o w[j]
                          /\ Join(w, One(k, a))[j] = w[j] \o One(k, a)[j]
  BY <1>1, JoinIs
<1>3. \A j \in Channels : One(k, a)[j] = (IF j = k THEN <<a>> ELSE <<>>) /\ w[j] \in Seq(Words)
  BY DEF One, Saying
<1>4. \A j \in Channels \ {k} : <<>> \o w[j] = w[j] /\ w[j] \o <<>> = w[j]
  BY <1>3, ConcatEmptySeq
<1>5. \A j \in Channels \ {k} : One(k, a)[j] = <<>>
  BY <1>3
<1>6. One(k, a)[k] = <<a>>
  BY <1>3
<1> QED
  BY <1>2, <1>4, <1>5, <1>6

LEMMA JoinText ==
  ASSUME NEW t \in Seq(Byte), NEW w \in Saying
  PROVE  /\ OfText(t) \in Saying
         /\ Join(OfText(t), w)[Plain] = t \o w[Plain] /\ Join(w, OfText(t))[Plain] = w[Plain] \o t
         /\ \A j \in Channels \ {Plain} : /\ Join(OfText(t), w)[j] = w[j]
                                          /\ Join(w, OfText(t))[j] = w[j]
<1>0. t \in Seq(Words) /\ <<>> \in Seq(Words)
  <2>1. Byte \subseteq Words
    BY DEF Byte, Words
  <2> QED
    BY <2>1, SeqMonotonic, EmptySeq
<1>1. OfText(t) \in Saying
  BY <1>0 DEF OfText, Saying
<1>2. \A j \in Channels : /\ Join(OfText(t), w)[j] = OfText(t)[j] \o w[j]
                          /\ Join(w, OfText(t))[j] = w[j] \o OfText(t)[j]
  BY <1>1, JoinIs
<1>3. \A j \in Channels : OfText(t)[j] = (IF j = Plain THEN t ELSE <<>>) /\ w[j] \in Seq(Words)
  BY DEF OfText, Saying
<1>4. \A j \in Channels \ {Plain} : <<>> \o w[j] = w[j] /\ w[j] \o <<>> = w[j]
  BY <1>3, ConcatEmptySeq
<1>5. (\A j \in Channels \ {Plain} : OfText(t)[j] = <<>>) /\ OfText(t)[Plain] = t
  BY OptionsAre DEF OfText
<1>6. Plain \in Channels
  BY OptionsAre
<1>7. /\ Join(OfText(t), w)[Plain] = t \o w[Plain] /\ Join(w, OfText(t))[Plain] = w[Plain] \o t
  BY <1>2, <1>5, <1>6
<1>8. \A j \in Channels \ {Plain} : /\ Join(OfText(t), w)[j] = w[j]
                                    /\ Join(w, OfText(t))[j] = w[j]
  <2> TAKE j \in Channels \ {Plain}
  <2>1. /\ Join(OfText(t), w)[j] = OfText(t)[j] \o w[j]
        /\ Join(w, OfText(t))[j] = w[j] \o OfText(t)[j]
    BY <1>2
  <2>2. OfText(t)[j] = <<>> /\ <<>> \o w[j] = w[j] /\ w[j] \o <<>> = w[j]
    BY <1>4, <1>5
  <2> QED
    BY <2>1, <2>2
<1> QED
  BY <1>1, <1>7, <1>8

Bells(sent) == IF sent = <<BellByte>> THEN sent ELSE <<>>

\* Behind text, a command or inside a block: no option changes.
LEMMA PlainByte ==
  ASSUME NEW ctx \in Contexts, NEW s \in Seq(Byte), s # <<>>, NEW c, NEW meant,
         NEW text \in Seq(Byte),
         NEW shown \in Seq(Byte), NEW option, Held(ctx, s, c, meant, text, shown, option),
         ctx.state # "verb"
  PROVE  LET p == ProcessByte(ctx, s[1])
         IN  Held(p.ctx, Tail(s), c \o p.sent, meant, text \o p.text,
                  shown \o Bells(p.sent), option)
<1> DEFINE b == s[1]
           p == ProcessByte(ctx, b)
           sc == Scanner(ctx)
<1>1. b \in Byte /\ Tail(s) \in Seq(Byte)
  BY HeadTailProperties
<1>2. PICK q \in Normal, w \in Saying, v \in Saying :
        /\ Reads(Server, sc, s, q, w) /\ meant = text \o w[Plain]
        /\ Reads(Client, "text", c, "text", v) /\ shown = v[Plain]
        /\ Bound(option, ctx, w, v)
  BY DEF Held
<1>3. PICK u \in Saying : /\ w = Join(Server.out[sc][b], u)
                          /\ Reads(Server, Server.step[sc][b], Tail(s), q, u)
  BY <1>2, ServerReads, ReadsFirst
<1>4. /\ Server.step[sc][b] = Scanner(p.ctx) /\ Server.out[sc][b][Plain] = p.text
      /\ p.text \in Seq(Byte)
  BY <1>1, ByteRead
<1>5. sc \in Scanners /\ sc.state # "verb"
  BY ScannerIs
<1>6. Server.out[sc][b] = OfText(p.text)
  <2>1. Server.out[sc][b] = [k \in Channels |-> IF k = Plain THEN NextText(sc, b) ELSE <<>>]
    BY <1>1, <1>5, ServerParses
  <2>2. Server.out[sc][b][Plain] = NextText(sc, b)
    BY <2>1, OptionsAre
  <2> QED
    BY <1>4, <2>1, <2>2 DEF OfText
<1>7. w[Plain] = p.text \o u[Plain] /\ \A k \in Channels \ {Plain} : w[k] = u[k]
  <2>1. w = Join(OfText(p.text), u)
    BY <1>3, <1>6
  <2> HIDE DEF p
  <2> QED
    BY <1>4, <2>1, JoinText
<1>8. /\ NextState(ctx, b) \in ParserStates /\ NextVerb(ctx, b) \in Byte /\ NextLen(ctx, b) \in Nat
      /\ NextSent(ctx, b) \in {<<>>, <<BellByte>>}
  BY <1>1, NextTyped
<1>9. p.ctx = InState(ctx, NextState(ctx, b), NextVerb(ctx, b), NextLen(ctx, b))
      /\ p.sent = NextSent(ctx, b)
  BY <1>1, ByteIs
<1>10. p.ctx.enabled = ctx.enabled /\ p.ctx.pending = ctx.pending /\ p.sent \in {<<>>, <<BellByte>>}
  BY <1>8, <1>9, AtIs
<1>11. \E z \in Saying : /\ Reads(Client, "text", c \o p.sent, "text", z)
                         /\ shown \o Bells(p.sent) = z[Plain]
                         /\ \A k \in Channels \ {Plain} : z[k] = v[k]
  <2>1. CASE p.sent = <<>>
    <3>1. c \in Seq(Byte)
      BY <1>2, ReadsTyped
    <3>2. c \o p.sent = c /\ shown \o Bells(p.sent) = shown
      BY <2>1, <3>1, ConcatEmptySeq DEF Bells
    <3> QED
      BY <1>2, <3>2
  <2>2. CASE p.sent = <<BellByte>>
    <3>1. BellByte \in Byte /\ BellByte # IAC /\ Plain \in Channels /\ BellByte \in Words
      BY CodesAre, OptionsAre DEF Byte, Words
    <3> DEFINE z == Join(v, One(Plain, BellByte))
    <3>2. Reads(Client, "text", <<BellByte>>, "text", One(Plain, BellByte))
      BY <3>1, ClientByte
    <3>3. Reads(Client, "text", c \o p.sent, "text", z)
      BY <1>2, <2>2, <3>2, ClientReads, ReadsBoth
    <3>4. z[Plain] = v[Plain] \o <<BellByte>> /\ \A k \in Channels \ {Plain} : z[k] = v[k]
      BY <3>1, JoinOne
    <3>5. z \in Saying
      BY <3>3, ReadsTyped
    <3>6. shown \o Bells(p.sent) = z[Plain]
      <4>1. Bells(p.sent) = <<BellByte>>
        BY <2>2 DEF Bells
      <4> QED
        BY <1>2, <3>4, <4>1
    <3> HIDE DEF z
    <3> QED
      BY <3>3, <3>4, <3>5, <3>6
  <2> QED
    BY <1>10, <2>1, <2>2
<1>12. PICK z \in Saying : /\ Reads(Client, "text", c \o p.sent, "text", z)
                           /\ shown \o Bells(p.sent) = z[Plain]
                           /\ \A k \in Channels \ {Plain} : z[k] = v[k]
  BY <1>11
<1>13. meant = (text \o p.text) \o u[Plain]
  <2>1. u[Plain] \in Seq(Words) /\ text \in Seq(Words) /\ p.text \in Seq(Words)
    <3>1. Byte \subseteq Words
      BY DEF Byte, Words
    <3>2. text \in Seq(Words) /\ p.text \in Seq(Words)
      BY <1>4, <3>1, SeqMonotonic
    <3>3. u[Plain] \in Seq(Words)
      BY OptionsAre DEF Saying
    <3> QED
      BY <3>2, <3>3
  <2>2. text \o (p.text \o u[Plain]) = (text \o p.text) \o u[Plain]
    BY <2>1, Associative
  <2> QED
    BY <1>2, <1>7, <2>2
<1>14. Bound(option, p.ctx, u, z)
  <2>1. \A o \in Tracked \cup Refused \cup {Stray} : o \in Channels \ {Plain}
    BY OptionsAre DEF Options
  <2>2. \A o \in Tracked \cup Refused \cup {Stray} : u[o] = w[o] /\ z[o] = v[o]
    BY <1>7, <1>12, <2>1
  <2> QED
    BY <1>2, <1>10, <2>2 DEF Bound
<1> HIDE DEF p
<1>15. Held(p.ctx, Tail(s), c \o p.sent, meant, text \o p.text,
                  shown \o Bells(p.sent), option)
  BY <1>3, <1>4, <1>12, <1>13, <1>14 DEF Held
<1> QED
  BY <1>15 DEF p

\* The words of a request.
LEMMA AskedIs ==
  ASSUME NEW o \in Options, NEW verb
  PROVE  /\ Asked(verb, o) \in Words
         /\ Asked(verb, o) = "on" => verb = Verb(o, TRUE)
         /\ Asked(verb, o) = "off" => verb = Verb(o, FALSE)
         /\ Asked(Verb(o, TRUE), o) = "on" /\ Asked(Verb(o, FALSE), o) = "off"
         /\ Verb(o, TRUE) \in {DO, WILL} /\ Verb(o, FALSE) \in {DONT, WONT}
<1>1. Verb(o, TRUE) \in {DO, WILL} /\ Verb(o, FALSE) \in {DONT, WONT}
  BY DEF Verb
<1>2. Verb(o, TRUE) # Verb(o, FALSE)
  <2>1. DO # DONT /\ DO # WONT /\ WILL # DONT /\ WILL # WONT
    BY CodesAre
  <2> QED
    BY <1>1, <2>1
<1>3. Asked(verb, o) =
        CASE verb = Verb(o, TRUE) -> "on" [] verb = Verb(o, FALSE) -> "off" [] OTHER -> "odd"
  BY DEF Asked
<1>4. /\ verb = Verb(o, TRUE) => Asked(verb, o) = "on"
      /\ verb = Verb(o, FALSE) => Asked(verb, o) = "off"
      /\ verb # Verb(o, TRUE) /\ verb # Verb(o, FALSE) => Asked(verb, o) = "odd"
  BY <1>2, <1>3
<1>5. Asked(verb, o) \in Words
  BY <1>4 DEF Words
<1>6. Asked(Verb(o, TRUE), o) = "on"
  BY <1>2 DEF Asked
<1>7. Asked(Verb(o, FALSE), o) = "off"
  BY <1>2 DEF Asked
<1> QED
  BY <1>1, <1>4, <1>5, <1>6, <1>7

LEMMA TrackedIs ==
  ASSUME NEW o \in Options, NEW on \in BOOLEAN
  PROVE  TrackedHere(Verb(o, on), o) <=> o \in Tracked
<1>1. DO \notin {WILL, WONT} /\ DONT \notin {WILL, WONT}
  BY CodesAre
<1>2. /\ Verb(o, on) \in {DO, DONT} <=> o \notin Remote
  BY <1>1 DEF Verb
<1>3. Tracked = {1, 3, 31} /\ Remote = {31, 34} /\ ECHO = 1 /\ SGA = 3 /\ NAWS = 31
  BY OptionsAre, CodesAre
<1> QED
  BY <1>2, <1>3 DEF TrackedHere

LEMMA AnswerIs ==
  ASSUME NEW verb, NEW o
  PROVE  /\ OptionAnswer(verb, o) \in {DO, DONT, WILL, WONT}
         /\ OptionAnswer(verb, o) \in {WILL, DO} <=> TrackedHere(verb, o) /\ verb \in {DO, WILL}
  BY CodesAre DEF OptionAnswer

\* The option of a request.
LEMMA RequestByte ==
  ASSUME NEW ctx \in Contexts, NEW s \in Seq(Byte), s # <<>>, NEW c, NEW meant,
         NEW text \in Seq(Byte),
         NEW shown \in Seq(Byte), NEW option, Held(ctx, s, c, meant, text, shown, option),
         ctx.state = "verb"
  PROVE  LET p == ProcessByte(ctx, s[1])
         IN  Held(p.ctx, Tail(s), c \o p.sent, meant, text \o p.text,
                  shown \o Bells(p.sent), option)
<1> DEFINE b == s[1]
           p == ProcessByte(ctx, b)
           sc == Scanner(ctx)
           a == Asked(ctx.verb, b)
           at == InState(ctx, "normal", ctx.verb, ctx.sb_len)
           up == Update(at, ctx.verb, b)
           enable == ctx.verb \in {DO, WILL}
<1>1. b \in Byte /\ Tail(s) \in Seq(Byte) /\ ctx.verb \in Byte /\ ctx.sb_len \in Nat
      /\ "normal" \in ParserStates
  <2>1. b \in Byte /\ Tail(s) \in Seq(Byte)
    BY HeadTailProperties
  <2>2. ctx.verb \in Byte /\ ctx.sb_len \in Nat /\ "normal" \in ParserStates
    BY DEF Contexts, ParserStates
  <2> QED
    BY <2>1, <2>2
<1>2. PICK q \in Normal, w \in Saying, v \in Saying :
        /\ Reads(Server, sc, s, q, w) /\ meant = text \o w[Plain]
        /\ Reads(Client, "text", c, "text", v) /\ shown = v[Plain]
        /\ Bound(option, ctx, w, v)
  BY DEF Held
<1>3. PICK u \in Saying : /\ w = Join(Server.out[sc][b], u)
                          /\ Reads(Server, Server.step[sc][b], Tail(s), q, u)
  BY <1>2, ServerReads, ReadsFirst
<1>4. Server.step[sc][b] = Scanner(p.ctx)
  BY <1>1, ByteRead
<1>5. sc \in Scanners /\ sc.state = "verb" /\ sc.verb = ctx.verb
  BY ScannerIs
<1>6. Server.out[sc][b] = One(About(b), a)
  <2>1. Server.out[sc][b] = One(About(b), Asked(sc.verb, b))
    BY <1>1, <1>5, ServerRequest
  <2> QED
    BY <1>5, <2>1
<1>7. a \in Words
  BY DEF Asked, Words
<1>8. w[About(b)] = <<a>> \o u[About(b)] /\ \A k \in Channels \ {About(b)} : w[k] = u[k]
  <2>1. About(b) \in Channels
    BY <1>1, OptionsAre
  <2> QED
    BY <1>3, <1>6, <1>7, <2>1, JoinOne
<1>9. b \in Options
  <2> SUFFICES ASSUME b \notin Options PROVE FALSE
    OBVIOUS
  <2>1. About(b) = Stray /\ Stray \in Channels
    BY <1>1, OptionsAre
  <2>2. u[Stray] \in Seq(Words)
    BY <2>1 DEF Saying
  <2>3. <<a>> \o u[Stray] # <<>>
    BY <1>7, <2>2, Firsts
  <2>4. w[Stray] = <<>>
    BY <1>2 DEF Bound
  <2> QED
    BY <1>8, <2>1, <2>3, <2>4
<1>10. About(b) = b /\ b \in Channels /\ b # Plain /\ b # Stray
  BY <1>9, OptionsAre
<1>11. at \in Contexts /\ at.enabled = ctx.enabled /\ at.pending = ctx.pending
  BY <1>1, AtIs
<1>12. /\ p.ctx = up.ctx /\ p.text = <<>>
       /\ p.sent = IF up.reply THEN <<IAC, OptionAnswer(ctx.verb, b), b>> ELSE <<>>
  BY <1>1, RequestIs
<1>13. u[b] \in Seq(Words) /\ v[b] \in Seq(Words) /\ c \in Seq(Byte)
  <2>1. c \in Seq(Byte)
    BY <1>2, ReadsTyped
  <2> QED
    BY <1>10, <2>1 DEF Saying
<1> DEFINE r == OnOff(OptionAnswer(ctx.verb, b) \in {WILL, DO})
<1>14. r \in Words
  BY DEF OnOff, Words
<1> HIDE DEF at, p, up, sc, a
\* What the client gets to read.
<1>15. \E z \in Saying : /\ Reads(Client, "text", c \o p.sent, "text", z)
                         /\ z[b] = (IF up.reply THEN v[b] \o <<r>> ELSE v[b])
                         /\ \A k \in Channels \ {b} : z[k] = v[k]
  <2>1. CASE ~up.reply
    <3>1. c \o p.sent = c
      BY <1>12, <1>13, <2>1, ConcatEmptySeq
    <3> QED
      BY <1>2, <2>1, <3>1
  <2>2. CASE up.reply
    <3> DEFINE z == Join(v, One(b, r))
    <3>1. Reads(Client, "text", <<IAC, OptionAnswer(ctx.verb, b), b>>, "text", One(b, r))
      BY <1>1, <1>10, AnswerIs, ClientAnswer
    <3>2. Reads(Client, "text", c \o p.sent, "text", z)
      BY <1>2, <1>12, <2>2, <3>1, ClientReads, ReadsBoth
    <3>3. z[b] = v[b] \o <<r>> /\ \A k \in Channels \ {b} : z[k] = v[k]
      BY <1>10, <1>14, JoinOne
    <3>4. z \in Saying
      BY <3>2, ReadsTyped
    <3> HIDE DEF z, r
    <3> QED
      BY <2>2, <3>2, <3>3, <3>4
  <2> QED
    BY <2>1, <2>2
<1>16. PICK z \in Saying : /\ Reads(Client, "text", c \o p.sent, "text", z)
                           /\ z[b] = (IF up.reply THEN v[b] \o <<r>> ELSE v[b])
                           /\ \A k \in Channels \ {b} : z[k] = v[k]
  BY <1>15
<1>17. w[b] = <<a>> \o u[b] /\ \A k \in Channels \ {b} : w[k] = u[k]
  BY <1>8, <1>10
<1>18. /\ up.ctx \in Contexts
       /\ \A o \in Tracked \ {b} : up.ctx.enabled[o] = ctx.enabled[o]
       /\ up.ctx.pending \ {b} = ctx.pending \ {b}
       /\ ~TrackedHere(ctx.verb, b) => up.ctx = at /\ up.reply = enable
       /\ TrackedHere(ctx.verb, b) =>
            /\ up.ctx.enabled[b] = enable /\ b \notin up.ctx.pending
            /\ up.reply <=> b \notin ctx.pending /\ ctx.enabled[b] # enable
  BY <1>11, UpdateIs DEF up
<1>19. /\ a = "on" => ctx.verb = Verb(b, TRUE) /\ enable
       /\ a = "off" => ctx.verb = Verb(b, FALSE) /\ ~enable
  <2>1. DONT \notin {DO, WILL} /\ WONT \notin {DO, WILL}
    BY CodesAre
  <2> QED
    BY <1>9, <2>1, AskedIs DEF a
\* The option itself.
<1>20. ASSUME b \in Tracked
       PROVE  Linked(option[b], up.ctx.enabled[b], b \in up.ctx.pending, u[b], z[b])
  <2> DEFINE e == ctx.enabled[b]
             pd == b \in ctx.pending
  <2>1. e \in BOOLEAN /\ pd \in BOOLEAN
    BY <1>20 DEF Contexts
  <2>2. Linked(option[b], e, pd, <<a>> \o u[b], v[b])
    BY <1>2, <1>17, <1>20 DEF Bound
  <2> HIDE DEF e, pd
  <2>3. a \in {"on", "off"}
    BY <1>7, <1>13, <2>2, LinkedWord
  <2>4. TrackedHere(ctx.verb, b) /\ a = OnOff(enable) /\ enable \in BOOLEAN
    <3>1. TrackedHere(Verb(b, TRUE), b) /\ TrackedHere(Verb(b, FALSE), b)
      BY <1>9, <1>20, TrackedIs
    <3>2. TrackedHere(ctx.verb, b)
      BY <1>19, <2>3, <3>1
    <3>3. a = "on" => enable
      BY <1>19
    <3>4. a = "off" => ~enable
      BY <1>19
    <3>5. enable \in BOOLEAN
      OBVIOUS
    <3> HIDE DEF enable
    <3>6. a = OnOff(enable)
      BY <2>3, <3>3, <3>4 DEF OnOff
    <3> QED
      BY <3>2, <3>5, <3>6
  <2>5. r = a
    BY <2>4, AnswerIs DEF OnOff
  <2> HIDE DEF enable
  <2>6. IsAnswered(option[b], e, pd, a, u[b], v[b], enable)
    BY <1>7, <1>13, <2>1, <2>2, <2>4, LinkedRequest
  <2>7. Linked(option[b], up.ctx.enabled[b], b \in up.ctx.pending, u[b], z[b])
    <3>1. up.ctx.enabled[b] = enable /\ (b \in up.ctx.pending) = FALSE
      BY <1>18, <2>4 DEF enable
    <3>2. up.reply <=> ~pd /\ e # enable
      BY <1>18, <2>4 DEF e, pd, enable
    <3>3. Linked(option[b], enable, FALSE, u[b], z[b])
      BY <1>16, <2>5, <2>6, <3>2 DEF IsAnswered
    <3> QED
      BY <3>1, <3>3
  <2> QED
    BY <2>7
<1>21. ASSUME b \in Refused PROVE Denied(option[b], u[b], z[b])
  <2>1. Denied(option[b], <<a>> \o u[b], v[b])
    BY <1>2, <1>17, <1>21 DEF Bound
  <2>2. a = "on" /\ Denied(option[b], u[b], v[b] \o <<"off">>)
    BY <1>7, <1>13, <2>1, DeniedRequest
  <2>3. b \notin Tracked
    BY <1>21, OptionsAre
  <2>4. ~TrackedHere(ctx.verb, b) /\ up.reply
    BY <1>9, <1>18, <1>19, <2>2, <2>3, TrackedIs
  <2>5. r = "off"
    BY <2>4, AnswerIs DEF OnOff
  <2> QED
    BY <1>16, <2>2, <2>4, <2>5
<1>22. Bound(option, p.ctx, u, z)
  <2>1. u[Stray] = <<>> /\ z[Stray] = <<>>
    BY <1>2, <1>10, <1>16, <1>17, OptionsAre DEF Bound
  <2>2. ASSUME NEW o \in Tracked
        PROVE  Linked(option[o], up.ctx.enabled[o], o \in up.ctx.pending, u[o], z[o])
    <3>1. CASE o = b
      BY <1>20, <3>1
    <3>2. CASE o # b
      <4>1. o \in Channels
        BY OptionsAre DEF Options
      <4>2. u[o] = w[o] /\ z[o] = v[o]
        BY <1>16, <1>17, <3>2, <4>1
      <4>3. up.ctx.enabled[o] = ctx.enabled[o] /\ (o \in up.ctx.pending <=> o \in ctx.pending)
        BY <1>18, <3>2
      <4>4. Linked(option[o], ctx.enabled[o], o \in ctx.pending, w[o], v[o])
        BY <1>2 DEF Bound
      <4>5. (o \in up.ctx.pending) = (o \in ctx.pending)
        BY <4>3
      <4> QED
        BY <4>2, <4>3, <4>4, <4>5
    <3> QED
      BY <3>1, <3>2
  <2>3. ASSUME NEW o \in Refused PROVE Denied(option[o], u[o], z[o])
    <3>1. CASE o = b
      BY <1>21, <3>1
    <3>2. CASE o # b
      <4>1. o \in Channels
        BY OptionsAre DEF Options
      <4>2. u[o] = w[o] /\ z[o] = v[o]
        BY <1>16, <1>17, <3>2, <4>1
      <4> QED
        BY <1>2, <4>2 DEF Bound
    <3> QED
      BY <3>1, <3>2
  <2> QED
    BY <1>12, <2>1, <2>2, <2>3 DEF Bound
<1>23. meant = (text \o p.text) \o u[Plain] /\ shown \o Bells(p.sent) = z[Plain]
  <2>1. text \o p.text = text
    BY <1>12, ConcatEmptySeq
  <2>2. Plain \in Channels \ {b}
    BY <1>10, OptionsAre
  <2>3. p.sent # <<BellByte>>
    <3>1. <<IAC, OptionAnswer(ctx.verb, b), b>> # <<BellByte>> /\ <<>> # <<BellByte>>
      OBVIOUS
    <3>2. p.sent \in {<<IAC, OptionAnswer(ctx.verb, b), b>>, <<>>}
      BY <1>12
    <3> QED
      BY <3>1, <3>2
  <2>4. shown \o Bells(p.sent) = shown
    BY <2>3, ConcatEmptySeq DEF Bells
  <2> QED
    BY <1>2, <1>16, <1>17, <2>1, <2>2, <2>4
<1>24. Held(p.ctx, Tail(s), c \o p.sent, meant, text \o p.text,
                  shown \o Bells(p.sent), option)
  BY <1>3, <1>4, <1>16, <1>22, <1>23 DEF Held
<1> QED
  BY <1>24 DEF p

-----------------------------------------------------------------------------
(* Induction, and functions that are built step by step                    *)

\* What holds of 0 and is handed on from n - 1 to n holds up to N.
LEMMA Induction ==
  ASSUME NEW N \in Nat, NEW S, 0 \in S, \A n \in 1 .. N : n - 1 \in S => n \in S
  PROVE  \A n \in 0 .. N : n \in S
<1> DEFINE T == (0 .. N) \ S
<1> SUFFICES ASSUME T # {} PROVE FALSE
  OBVIOUS
<1>1. T \subseteq Nat
  OBVIOUS
<1> HIDE DEF T
<1>2. PICK x \in T : \A y \in T : <<y, x>> \notin OpToRel(<, Nat)
  BY <1>1, WFMin, NatLessThanWellFounded
<1>3. \A y \in T : ~ (y < x)
  BY <1>1, <1>2 DEF OpToRel
<1> USE DEF T
<1>4. x \in 1 .. N /\ x - 1 \in 0 .. N
  OBVIOUS
<1>5. x - 1 \in S
  BY <1>3, <1>4
<1> QED
  BY <1>4, <1>5

\* f starts at x, and each value is made from the one before by the step of its number.
Built(f, N, D, x, step) ==
  /\ f \in [0 .. N -> D] /\ f[0] = x
  /\ \A n \in 1 .. N : f[n] = step[n][f[n - 1]]

Steps(step, N, D) == step \in [1 .. N -> [D -> D]]

LEMMA Recursion ==
  ASSUME NEW N \in Nat, NEW D, NEW x \in D, NEW step, Steps(step, N, D)
  PROVE  \E f : Built(f, N, D, x, step)
<1> DEFINE UpTo(k, f) == /\ f \in [0 .. N -> D] /\ f[0] = x
                         /\ \A n \in 1 .. k : f[n] = step[n][f[n - 1]]
           S == {k \in 0 .. N : \E f : UpTo(k, f)}
<1>1. 0 \in S
  <2> DEFINE f == [n \in 0 .. N |-> x]
  <2>1. UpTo(0, f)
    OBVIOUS
  <2> HIDE DEF f, UpTo
  <2> QED
    BY <2>1
<1>2. ASSUME NEW k \in 1 .. N, k - 1 \in S PROVE k \in S
  <2>1. PICK f : UpTo(k - 1, f)
    BY <1>2
  <2> DEFINE v == step[k][f[k - 1]]
  <2>2. k - 1 \in 0 .. N /\ f[k - 1] \in D
    BY <2>1
  <2>3. v \in D
    BY <2>2 DEF Steps
  <2> HIDE DEF v
  <2> DEFINE g == [f EXCEPT ![k] = v]
  <2>4. /\ g \in [0 .. N -> D] /\ g[k] = v
        /\ \A n \in 0 .. N : n # k => g[n] = f[n]
    BY <2>1, <2>3
  <2> HIDE DEF g
  <2>5. ASSUME NEW n \in 1 .. k PROVE g[n] = step[n][g[n - 1]]
    <3>1. n - 1 \in 0 .. N /\ n - 1 # k /\ n \in 0 .. N
      OBVIOUS
    <3>2. g[n - 1] = f[n - 1]
      BY <2>4, <3>1
    <3>3. CASE n = k
      BY <2>4, <3>2, <3>3 DEF v
    <3>4. CASE n # k
      <4>1. n \in 1 .. k - 1
        BY <3>4
      <4> QED
        BY <2>1, <2>4, <3>1, <3>2, <3>4, <4>1
    <3> QED
      BY <3>3, <3>4
  <2>6. g[0] = x
    BY <2>1, <2>4
  <2>7. UpTo(k, g)
    BY <2>4, <2>5, <2>6
  <2> QED
    BY <2>7
<1>3. N \in S
  <2> HIDE DEF S
  <2>1. \A n \in 0 .. N : n \in S
    BY <1>1, <1>2, Induction
  <2>2. N \in 0 .. N
    OBVIOUS
  <2> QED
    BY <2>1, <2>2
<1>4. PICK f : UpTo(N, f)
  BY <1>3
<1> QED
  BY <1>4 DEF Built

-----------------------------------------------------------------------------
(* The bytes of one read                                                   *)

Pieces == [ctx : Contexts, text : Seq(Byte), sent : Seq(Byte), bells : Seq(Byte)]

Piece(r, b) ==
  LET p == ProcessByte(r.ctx, b)
  IN  [ctx |-> p.ctx, text |-> r.text \o p.text, sent |-> r.sent \o p.sent,
       bells |-> r.bells \o Bells(p.sent)]

First(ctx) == [ctx |-> ctx, text |-> <<>>, sent |-> <<>>, bells |-> <<>>]

LEMMA SentIs ==
  ASSUME NEW ctx \in Contexts, NEW b \in Byte
  PROVE  ProcessByte(ctx, b).sent \in Seq(Byte) /\ Bells(ProcessByte(ctx, b).sent) \in Seq(Byte)
<1>1. BellByte \in Byte /\ IAC \in Byte
  BY CodesAre DEF Byte
<1>2. <<BellByte>> \in Seq(Byte) /\ <<>> \in Seq(Byte)
  BY <1>1, EmptySeq
<1>3. ProcessByte(ctx, b).sent \in Seq(Byte)
  <2>1. CASE ctx.state = "verb"
    <3>1. OptionAnswer(ctx.verb, b) \in Byte
      BY AnswerIs, CodesAre DEF Byte
    <3>2. <<IAC, OptionAnswer(ctx.verb, b), b>> \in Seq(Byte)
      BY <1>1, <3>1
    <3>3. ProcessByte(ctx, b).sent \in {<<IAC, OptionAnswer(ctx.verb, b), b>>, <<>>}
      BY <2>1, RequestIs
    <3> QED
      BY <1>2, <3>2, <3>3
  <2>2. CASE ctx.state # "verb"
    <3>1. ProcessByte(ctx, b).sent = NextSent(ctx, b)
      BY <2>2, ByteIs
    <3>2. NextSent(ctx, b) \in {<<>>, <<BellByte>>}
      BY <2>2, NextTyped
    <3> QED
      BY <1>2, <3>1, <3>2
  <2> QED
    BY <2>1, <2>2
<1> QED
  BY <1>2, <1>3 DEF Bells

LEMMA PieceIs ==
  ASSUME NEW r \in Pieces, NEW b \in Byte
  PROVE  Piece(r, b) \in Pieces /\ Piece(r, b).ctx.rx = r.ctx.rx
<1> DEFINE p == ProcessByte(r.ctx, b)
<1>1. r.ctx \in Contexts /\ r.text \in Seq(Byte) /\ r.sent \in Seq(Byte) /\ r.bells \in Seq(Byte)
  BY DEF Pieces
<1>2. /\ p.ctx \in Contexts /\ p.text \in Seq(Byte) /\ p.sent \in Seq(Byte)
      /\ Bells(p.sent) \in Seq(Byte) /\ p.ctx.rx = r.ctx.rx
  BY <1>1, SentIs, ByteRead
<1> HIDE DEF p
<1>3. r.text \o p.text \in Seq(Byte) /\ r.sent \o p.sent \in Seq(Byte)
      /\ r.bells \o Bells(p.sent) \in Seq(Byte)
  BY <1>1, <1>2, ConcatProperties
<1>4. Piece(r, b) = [ctx |-> p.ctx, text |-> r.text \o p.text, sent |-> r.sent \o p.sent,
                     bells |-> r.bells \o Bells(p.sent)]
  BY DEF Piece, p
<1> QED
  BY <1>2, <1>3, <1>4 DEF Pieces

\* Process goes through the bytes one by one.
LEMMA ProcessIs ==
  ASSUME NEW ctx \in Contexts, NEW bytes \in Seq(Byte)
  PROVE  \E g : /\ g[0] = First(ctx) /\ Process(ctx, bytes) = g[Len(bytes)]
                /\ \A i \in 1 .. Len(bytes) : g[i] = Piece(g[i - 1], bytes[i])
<1> DEFINE N == Len(bytes)
           step == [i \in 1 .. N |-> [r \in Pieces |-> Piece(r, bytes[i])]]
           Eq(f) == f = [i \in 0 .. N |->
                           IF i = 0 THEN [ctx |-> ctx, text |-> <<>>, sent |-> <<>>, bells |-> <<>>]
                           ELSE LET p == ProcessByte(f[i - 1].ctx, bytes[i])
                                IN  [ctx   |-> p.ctx,
                                     text  |-> f[i - 1].text \o p.text,
                                     sent  |-> f[i - 1].sent \o p.sent,
                                     bells |-> f[i - 1].bells \o
                                               (IF p.sent = <<BellByte>> THEN p.sent ELSE <<>>)]]
           Eq2(f) == f = [i \in 0 .. N |-> IF i = 0 THEN First(ctx) ELSE Piece(f[i - 1], bytes[i])]
<1>1. N \in Nat /\ \A i \in 1 .. N : bytes[i] \in Byte
  BY LenProperties, ElementOfSeq
<1>2. \A f : Eq(f) <=> Eq2(f)
  BY DEF First, Piece, Bells
<1>3. Process(ctx, bytes) = (CHOOSE f : Eq(f))[N]
  BY DEF Process
<1>4. First(ctx) \in Pieces
  <2>1. <<>> \in Seq(Byte)
    BY EmptySeq
  <2> QED
    BY <2>1 DEF First, Pieces
<1>5. Steps(step, N, Pieces)
  <2>1. \A i \in 1 .. N, r \in Pieces : Piece(r, bytes[i]) \in Pieces
    BY <1>1, PieceIs
  <2> QED
    BY <2>1 DEF Steps
<1>6. \A i \in 1 .. N, r \in Pieces : step[i][r] = Piece(r, bytes[i])
  OBVIOUS
<1> HIDE DEF step, N, Eq
<1>7. PICK f : Built(f, N, Pieces, First(ctx), step)
  BY <1>1, <1>4, <1>5, Recursion
<1>8. Eq2(f)
  <2>1. /\ f \in [0 .. N -> Pieces] /\ f[0] = First(ctx)
        /\ \A i \in 1 .. N : f[i] = step[i][f[i - 1]]
    BY <1>7 DEF Built
  <2>2. \A i \in 1 .. N : f[i - 1] \in Pieces
    BY <1>1, <2>1
  <2>3. \A i \in 1 .. N : f[i] = Piece(f[i - 1], bytes[i])
    BY <1>6, <2>1, <2>2
  <2>4. f = [i \in 0 .. N |-> f[i]]
    BY <2>1
  <2> QED
    BY <1>1, <2>1, <2>3, <2>4
<1>9. PICK g : Eq(g) /\ Process(ctx, bytes) = g[N]
  BY <1>2, <1>3, <1>8
<1>10. Eq2(g)
  BY <1>2, <1>9
<1>11. g[0] = First(ctx) /\ \A i \in 1 .. N : g[i] = Piece(g[i - 1], bytes[i])
  <2>1. \A i \in 0 .. N : g[i] = IF i = 0 THEN First(ctx) ELSE Piece(g[i - 1], bytes[i])
    BY <1>10
  <2> QED
    BY <1>1, <2>1
<1> QED
  BY <1>9, <1>11 DEF N

-----------------------------------------------------------------------------
(* The steps of the server                                                 *)

LEMMA BytesAssociative ==
  ASSUME NEW a \in Seq(Byte), NEW b \in Seq(Byte), NEW c \in Seq(Byte)
  PROVE  (a \o b) \o c = a \o (b \o c)
  BY ConcatAssociative

LEMMA ServerByte ==
  ASSUME NEW r \in Pieces, NEW s \in Seq(Byte), s # <<>>, NEW meant, NEW option,
         NEW c \in Seq(Byte), NEW shown \in Seq(Byte),
         Held(r.ctx, s, c \o r.sent, meant, r.text, shown \o r.bells, option)
  PROVE  LET z == Piece(r, s[1])
         IN  Held(z.ctx, Tail(s), c \o z.sent, meant, z.text, shown \o z.bells, option)
<1> DEFINE b == s[1]
           p == ProcessByte(r.ctx, b)
<1>1. /\ r.ctx \in Contexts /\ r.text \in Seq(Byte) /\ r.sent \in Seq(Byte)
      /\ r.bells \in Seq(Byte) /\ b \in Byte
  <2>1. b \in Byte
    BY HeadTailProperties
  <2> QED
    BY <2>1 DEF Pieces
<1>2. shown \o r.bells \in Seq(Byte) /\ p.sent \in Seq(Byte) /\ Bells(p.sent) \in Seq(Byte)
  BY <1>1, ConcatProperties, SentIs
<1>3. Held(p.ctx, Tail(s), (c \o r.sent) \o p.sent, meant, r.text \o p.text,
           (shown \o r.bells) \o Bells(p.sent), option)
  <2>1. CASE r.ctx.state = "verb"
    BY <1>1, <1>2, <2>1, RequestByte
  <2>2. CASE r.ctx.state # "verb"
    BY <1>1, <1>2, <2>2, PlainByte
  <2> QED
    BY <2>1, <2>2
<1> HIDE DEF p
<1>4. /\ (c \o r.sent) \o p.sent = c \o (r.sent \o p.sent)
      /\ (shown \o r.bells) \o Bells(p.sent) = shown \o (r.bells \o Bells(p.sent))
  <2>1. (c \o r.sent) \o p.sent = c \o (r.sent \o p.sent)
    <3>1. r.sent \in Seq(Byte) /\ p.sent \in Seq(Byte)
      BY <1>1, <1>2
    <3>2. \A t, u \in Seq(Byte) : (c \o t) \o u = c \o (t \o u)
      BY BytesAssociative
    <3> QED
      BY <3>1, <3>2
  <2>2. (shown \o r.bells) \o Bells(p.sent) = shown \o (r.bells \o Bells(p.sent))
    <3>1. r.bells \in Seq(Byte) /\ Bells(p.sent) \in Seq(Byte)
      BY <1>1, <1>2
    <3>2. \A t, u \in Seq(Byte) : (shown \o t) \o u = shown \o (t \o u)
      BY BytesAssociative
    <3> QED
      BY <3>1, <3>2
  <2> QED
    BY <2>1, <2>2
<1>5. /\ Piece(r, b).ctx = p.ctx /\ Piece(r, b).text = r.text \o p.text
      /\ Piece(r, b).sent = r.sent \o p.sent /\ Piece(r, b).bells = r.bells \o Bells(p.sent)
  BY DEF Piece, p
<1> DEFINE z == Piece(r, b)
<1> HIDE DEF z
<1>6. /\ z.ctx = p.ctx /\ z.text = r.text \o p.text
      /\ z.sent = r.sent \o p.sent /\ z.bells = r.bells \o Bells(p.sent)
  BY <1>5 DEF z
<1>7. Held(z.ctx, Tail(s), c \o z.sent, meant, z.text, shown \o z.bells, option)
  BY <1>3, <1>4, <1>6
<1> QED
  BY <1>7 DEF z

LEMMA Suffix ==
  ASSUME NEW s \in Seq(Byte), NEW i \in 1 .. Len(s)
  PROVE  /\ SubSeq(s, i, Len(s)) \in Seq(Byte) /\ SubSeq(s, i, Len(s)) # <<>>
         /\ SubSeq(s, i, Len(s))[1] = s[i] /\ Tail(SubSeq(s, i, Len(s))) = SubSeq(s, i + 1, Len(s))
<1>1. Len(s) \in Nat /\ i \in 1 .. Len(s) /\ Len(s) \in i .. Len(s)
  BY LenProperties
<1>2. \A j \in i .. Len(s) : s[j] \in Byte
  BY <1>1, ElementOfSeq
<1> DEFINE t == SubSeq(s, i, Len(s))
<1>3. /\ t \in Seq(Byte) /\ Len(t) = Len(s) - i + 1
      /\ \A j \in 1 .. Len(s) - i + 1 : t[j] = s[i + j - 1]
  BY <1>1, <1>2, SubSeqProperties
<1>4. Tail(t) = SubSeq(s, i + 1, Len(s))
  BY <1>1, HeadTailOfSubSeq
<1> HIDE DEF t
<1>5. t # <<>> /\ t[1] = s[i]
  BY <1>1, <1>3, EmptySeq
<1> QED
  BY <1>3, <1>4, <1>5 DEF t

LEMMA Prefix ==
  ASSUME NEW s \in Seq(Byte), NEW n \in 1 .. Len(s)
  PROVE  /\ SubSeq(s, 1, n) \in Seq(Byte) /\ Len(SubSeq(s, 1, n)) = n
         /\ \A i \in 1 .. n : SubSeq(s, 1, n)[i] = s[i]
<1>1. Len(s) \in Nat /\ n \in Nat /\ \A j \in 1 .. n : s[j] \in Byte
  BY LenProperties, ElementOfSeq
<1> DEFINE t == SubSeq(s, 1, n)
<1>2. t \in Seq(Byte) /\ Len(t) = n - 1 + 1 /\ \A j \in 1 .. n - 1 + 1 : t[j] = s[1 + j - 1]
  BY <1>1, SubSeqProperties
<1> HIDE DEF t
<1>3. \A j \in 1 .. n : j \in 1 .. n - 1 + 1 /\ 1 + j - 1 = j
  BY <1>1
<1> QED
  BY <1>1, <1>2, <1>3 DEF t

\* The first n bytes have been read.
LEMMA ReadsPiece ==
  ASSUME NEW ctx \in Contexts, NEW s \in Seq(Byte), NEW n \in 1 .. Len(s), NEW c \in Seq(Byte),
         NEW meant, NEW shown \in Seq(Byte), NEW option, Held(ctx, s, c, meant, <<>>, shown, option)
  PROVE  LET p == Process(ctx, SubSeq(s, 1, n))
         IN  /\ p \in Pieces
             /\ Held(p.ctx, SubSeq(s, n + 1, Len(s)), c \o p.sent, meant, p.text,
                     shown \o p.bells, option)
<1> DEFINE t == SubSeq(s, 1, n)
           rest(i) == SubSeq(s, i + 1, Len(s))
<1>1. t \in Seq(Byte) /\ Len(t) = n /\ \A i \in 1 .. n : t[i] = s[i]
  BY Prefix
<1> HIDE DEF t
<1>2. PICK g : /\ g[0] = First(ctx) /\ Process(ctx, t) = g[n]
               /\ \A i \in 1 .. n : g[i] = Piece(g[i - 1], t[i])
  <2>1. PICK g : /\ g[0] = First(ctx) /\ Process(ctx, t) = g[Len(t)]
                 /\ \A i \in 1 .. Len(t) : g[i] = Piece(g[i - 1], t[i])
    BY <1>1, ProcessIs
  <2>2. Len(t) = n
    BY <1>1
  <2>3. \A i \in 1 .. n : g[i] = Piece(g[i - 1], t[i])
    BY <2>1, <2>2
  <2>4. Process(ctx, t) = g[n]
    BY <2>1, <2>2
  <2> QED
    BY <2>1, <2>3, <2>4
<1>3. n \in Nat /\ Len(s) \in Nat /\ \A i \in 1 .. n : i \in 1 .. Len(s) /\ i - 1 + 1 = i
  <2>1. Len(s) \in Nat
    BY LenProperties
  <2> QED
    BY <2>1
<1> DEFINE Good(i) == /\ g[i] \in Pieces
                      /\ Held(g[i].ctx, rest(i), c \o g[i].sent, meant, g[i].text,
                              shown \o g[i].bells, option)
           S == {i \in 0 .. n : Good(i)}
<1>4. 0 \in S
  <2>1. <<>> \in Seq(Byte)
    BY EmptySeq
  <2>2. /\ First(ctx) \in Pieces /\ First(ctx).ctx = ctx /\ First(ctx).sent = <<>>
        /\ First(ctx).text = <<>> /\ First(ctx).bells = <<>>
    BY <2>1 DEF First, Pieces
  <2>3. c \o <<>> = c /\ shown \o <<>> = shown
    BY ConcatEmptySeq
  <2>4. rest(0) = s
    BY SubSeqFull
  <2> HIDE DEF rest
  <2>5. Good(0)
    BY <1>2, <2>2, <2>3, <2>4
  <2> QED
    BY <1>3, <2>5
<1>5. ASSUME NEW i \in 1 .. n, i - 1 \in S PROVE i \in S
  <2>1. Good(i - 1)
    BY <1>5
  <2>2. rest(i - 1) = SubSeq(s, i, Len(s))
    BY <1>3
  <2>3. /\ rest(i - 1) \in Seq(Byte) /\ rest(i - 1) # <<>> /\ rest(i - 1)[1] = t[i]
        /\ Tail(rest(i - 1)) = rest(i)
    BY <1>1, <1>3, <2>2, Suffix
  <2> HIDE DEF rest
  <2>4. g[i] = Piece(g[i - 1], rest(i - 1)[1])
    BY <1>2, <2>3
  <2>5. Held(g[i].ctx, rest(i), c \o g[i].sent, meant, g[i].text, shown \o g[i].bells, option)
    BY <2>1, <2>3, <2>4, ServerByte
  <2>6. g[i] \in Pieces
    <3>1. t[i] \in Byte
      BY <1>1, <1>3, ElementOfSeq
    <3> QED
      BY <2>1, <2>3, <2>4, <3>1, PieceIs
  <2> QED
    BY <1>3, <2>5, <2>6
<1> HIDE DEF S, Good
<1>6. \A i \in 0 .. n : i \in S
  BY <1>3, <1>4, <1>5, Induction
<1>7. Good(n)
  <2>1. n \in 0 .. n
    BY <1>3
  <2> QED
    BY <1>6, <2>1 DEF S
<1> QED
  BY <1>2, <1>7 DEF Good, t

-----------------------------------------------------------------------------
(* What the invariant says of a read                                       *)

LEMMA HeldSame ==
  ASSUME NEW ctx, NEW new, NEW s, NEW c, NEW meant, NEW text, NEW shown, NEW option,
         Scanner(new) = Scanner(ctx), new.enabled = ctx.enabled, new.pending = ctx.pending,
         Held(ctx, s, c, meant, text, shown, option)
  PROVE  Held(new, s, c, meant, text, shown, option)
<1>1. \A w, v : Bound(option, ctx, w, v) => Bound(option, new, w, v)
  BY DEF Bound
<1> QED
  BY <1>1 DEF Held

LEMMA HeldTyped ==
  ASSUME NEW ctx, NEW s, NEW c, NEW meant, NEW text, NEW shown, NEW option,
         Held(ctx, s, c, meant, text, shown, option)
  PROVE  s \in Seq(Byte) /\ c \in Seq(Byte)
<1>1. PICK q \in Normal, w \in Saying, v \in Saying :
        /\ Reads(Server, Scanner(ctx), s, q, w) /\ Reads(Client, "text", c, "text", v)
  BY DEF Held
<1> QED
  BY <1>1 DEF Reads

LEMMA HandlerKeeps ==
  ASSUME WireInv, NEW n \in 1 .. Len(toServer), Handler(n)
  PROVE  WireInv'
<1> DEFINE p == Process(telnet, SubSeq(toServer, 1, n))
<1>1. /\ telnet.rx = <<>>
      /\ telnet' = [p.ctx EXCEPT !.rx = p.text] /\ toClient' = toClient \o p.sent
      /\ owed' = owed \o p.bells /\ toServer' = SubSeq(toServer, n + 1, Len(toServer))
      /\ due' = due /\ peer' = peer
  BY DEF Handler
<1>2. WireTyped /\ Held(telnet, toServer, toClient, due, <<>>, owed, peer.option)
  BY <1>1 DEF WireInv
<1>3. telnet \in Contexts /\ due \in Seq(Byte) /\ owed \in Seq(Byte)
  BY <1>2 DEF WireTyped
<1>4. toServer \in Seq(Byte) /\ toClient \in Seq(Byte)
  BY <1>2, HeldTyped
<1>5. /\ p \in Pieces
      /\ Held(p.ctx, SubSeq(toServer, n + 1, Len(toServer)), toClient \o p.sent, due, p.text,
              owed \o p.bells, peer.option)
  BY <1>2, <1>3, <1>4, ReadsPiece
<1> HIDE DEF p
<1>6. p.ctx \in Contexts /\ p.text \in Seq(Byte) /\ p.bells \in Seq(Byte)
  BY <1>5 DEF Pieces
<1>7. /\ telnet' \in Contexts /\ telnet'.rx = p.text /\ Scanner(telnet') = Scanner(p.ctx)
      /\ telnet'.enabled = p.ctx.enabled /\ telnet'.pending = p.ctx.pending
  BY <1>1, <1>6 DEF Contexts, Scanner
<1>8. Held(telnet', toServer', toClient', due', telnet'.rx, owed', peer'.option)
  <2>1. Held(p.ctx, toServer', toClient', due', telnet'.rx, owed', peer'.option)
    BY <1>1, <1>5, <1>7
  <2> QED
    BY <1>7, <2>1, HeldSame
<1>9. owed' \in Seq(Byte)
  BY <1>1, <1>3, <1>6, ConcatProperties
<1>10. WireTyped'
  BY <1>1, <1>2, <1>3, <1>7, <1>9 DEF WireTyped
<1> QED
  BY <1>8, <1>10 DEF WireInv

LEMMA ReadByteKeeps ==
  ASSUME WireInv, ReadByte
  PROVE  WireInv'
<1> DEFINE rx == telnet.rx
<1>1. /\ rx # <<>> /\ telnet' = [telnet EXCEPT !.rx = Tail(rx)] /\ due' = Tail(due)
      /\ toServer' = toServer /\ toClient' = toClient /\ owed' = owed /\ peer' = peer
  BY DEF ReadByte
<1>2. /\ telnet \in Contexts /\ due \in Seq(Byte) /\ owed \in Seq(Byte)
      /\ peer \in [option : [Options -> PeerStates],
                   left : [sends : Nat, changes : Nat, writes : Nat]]
  BY DEF WireInv, WireTyped
<1>3. PICK q \in Normal, w \in Saying, v \in Saying :
        /\ Reads(Server, Scanner(telnet), toServer, q, w) /\ due = rx \o w[Plain]
        /\ Reads(Client, "text", toClient, "text", v) /\ owed = v[Plain]
        /\ Bound(peer.option, telnet, w, v)
  BY DEF WireInv, Held
<1>4. rx \in Seq(Words) /\ rx \in Seq(Byte) /\ w[Plain] \in Seq(Words)
  <2>1. rx \in Seq(Byte)
    BY <1>2 DEF Contexts
  <2>2. Byte \subseteq Words
    BY DEF Byte, Words
  <2>3. w[Plain] \in Seq(Words)
    BY OptionsAre DEF Saying
  <2> QED
    BY <2>1, <2>2, <2>3, SeqMonotonic
<1>5. due' = Tail(rx) \o w[Plain]
  BY <1>1, <1>3, <1>4, TailOfBoth
<1>6. Tail(rx) \in Seq(Byte)
  BY <1>1, <1>4, HeadTailProperties
<1>7. due' \in Seq(Byte)
  <2>1. due # <<>>
    BY <1>1, <1>3, <1>4, TailOfBoth
  <2> QED
    BY <1>1, <1>2, <2>1, HeadTailProperties
<1> HIDE DEF rx
<1>8. /\ telnet' \in Contexts /\ telnet'.rx = Tail(rx) /\ Scanner(telnet') = Scanner(telnet)
      /\ telnet'.enabled = telnet.enabled /\ telnet'.pending = telnet.pending
  BY <1>1, <1>2, <1>6 DEF Contexts, Scanner
<1>9. Held(telnet, toServer', toClient', due', telnet'.rx, owed', peer'.option)
  BY <1>1, <1>3, <1>5, <1>8 DEF Held
<1>10. Held(telnet', toServer', toClient', due', telnet'.rx, owed', peer'.option)
  BY <1>8, <1>9, HeldSame
<1>11. WireTyped'
  BY <1>1, <1>2, <1>7, <1>8 DEF WireTyped
<1> QED
  BY <1>10, <1>11 DEF WireInv

-----------------------------------------------------------------------------
(* What is sent joins what is under way                                    *)

LEMMA ServerMore ==
  ASSUME NEW x, NEW s, NEW q \in Normal, NEW w, NEW t, NEW u,
         Reads(Server, x, s, q, w), From(Normal, t, u)
  PROVE  Join(w, u) \in Saying /\ \E z \in Normal : Reads(Server, x, s \o t, z, Join(w, u))
<1>1. PICK z \in Normal : Reads(Server, q, t, z, u)
  BY DEF From
<1>2. Reads(Server, x, s \o t, z, Join(w, u))
  BY <1>1, ServerReads, ReadsBoth
<1> QED
  BY <1>2, ReadsTyped

LEMMA ClientMore ==
  ASSUME NEW c, NEW v, NEW t, NEW u,
         Reads(Client, "text", c, "text", v), Reads(Client, "text", t, "text", u)
  PROVE  Join(v, u) \in Saying /\ Reads(Client, "text", c \o t, "text", Join(v, u))
<1>1. Reads(Client, "text", c \o t, "text", Join(v, u))
  BY ClientReads, ReadsBoth
<1> QED
  BY <1>1, ReadsTyped

Agreed(option, ctx, w, v, o) ==
  /\ o \in Tracked => Linked(option[o], ctx.enabled[o], o \in ctx.pending, w[o], v[o])
  /\ o \in Refused => Denied(option[o], w[o], v[o])

\* Only one option is spoken about.
LEMMA BoundOne ==
  ASSUME NEW option, NEW ctx, NEW w, NEW v, Bound(option, ctx, w, v), NEW o \in Options,
         NEW new, NEW w1, NEW v1, \A j \in Options \ {o} : new[j] = option[j],
         \A j \in Channels \ {o} : w1[j] = w[j] /\ v1[j] = v[j],
         Agreed(new, ctx, w1, v1, o)
  PROVE  Bound(new, ctx, w1, v1)
<1>1. /\ Tracked \subseteq Options /\ Refused \subseteq Options /\ Options \subseteq Channels
      /\ Stray \in Channels \ {o}
  BY OptionsAre DEF Options, Channels
<1>2. w1[Stray] = <<>> /\ v1[Stray] = <<>>
  BY <1>1 DEF Bound
<1>3. ASSUME NEW j \in Tracked
      PROVE  Linked(new[j], ctx.enabled[j], j \in ctx.pending, w1[j], v1[j])
  <2>1. CASE j = o
    BY <2>1 DEF Agreed
  <2>2. CASE j # o
    <3>1. new[j] = option[j] /\ w1[j] = w[j] /\ v1[j] = v[j]
      BY <1>1, <2>2
    <3>2. Linked(option[j], ctx.enabled[j], j \in ctx.pending, w[j], v[j])
      BY DEF Bound
    <3> QED
      BY <3>1, <3>2
  <2> QED
    BY <2>1, <2>2
<1>4. ASSUME NEW j \in Refused
      PROVE  Denied(new[j], w1[j], v1[j])
  <2>1. CASE j = o
    BY <2>1 DEF Agreed
  <2>2. CASE j # o
    <3>1. new[j] = option[j] /\ w1[j] = w[j] /\ v1[j] = v[j]
      BY <1>1, <2>2
    <3>2. Denied(option[j], w[j], v[j])
      BY DEF Bound
    <3> QED
      BY <3>1, <3>2
  <2> QED
    BY <2>1, <2>2
<1> QED
  BY <1>2, <1>3, <1>4 DEF Bound

\* Nothing but text is said.
LEMMA BoundText ==
  ASSUME NEW option, NEW ctx, NEW w, NEW v, Bound(option, ctx, w, v), NEW w1, NEW v1,
         \A j \in Channels \ {Plain} : w1[j] = w[j] /\ v1[j] = v[j]
  PROVE  Bound(option, ctx, w1, v1)
<1>1. Stray \in Channels \ {Plain} /\ \A j \in Options : j \in Channels \ {Plain}
  BY OptionsAre
<1>2. Tracked \subseteq Options /\ Refused \subseteq Options
  BY DEF Options
<1>3. w1[Stray] = w[Stray] /\ v1[Stray] = v[Stray]
  BY <1>1
<1>4. \A j \in Options : w1[j] = w[j] /\ v1[j] = v[j]
  BY <1>1
<1>5. ASSUME NEW j \in Tracked
      PROVE  Linked(option[j], ctx.enabled[j], j \in ctx.pending, w1[j], v1[j])
  <2>1. Linked(option[j], ctx.enabled[j], j \in ctx.pending, w[j], v[j])
    BY DEF Bound
  <2>2. w1[j] = w[j] /\ v1[j] = v[j]
    BY <1>2, <1>4
  <2> QED
    BY <2>1, <2>2
<1>6. ASSUME NEW j \in Refused PROVE Denied(option[j], w1[j], v1[j])
  <2>1. Denied(option[j], w[j], v[j])
    BY DEF Bound
  <2>2. w1[j] = w[j] /\ v1[j] = v[j]
    BY <1>2, <1>4
  <2> QED
    BY <2>1, <2>2
<1> QED
  BY <1>3, <1>5, <1>6 DEF Bound

LEMMA WriteByteKeeps ==
  ASSUME WireInv, NEW b \in {Text, 255}, WriteByte(b)
  PROVE  WireInv'
<1>1. /\ peer.left.writes > 0 /\ toClient' = toClient \o Escape(b) /\ owed' = Append(owed, b)
      /\ peer' = [peer EXCEPT !.left.writes = @ - 1]
      /\ telnet' = telnet /\ toServer' = toServer /\ due' = due
  BY DEF WriteByte
<1>2. /\ telnet \in Contexts /\ due \in Seq(Byte) /\ owed \in Seq(Byte)
      /\ peer \in [option : [Options -> PeerStates],
                   left : [sends : Nat, changes : Nat, writes : Nat]]
  BY DEF WireInv, WireTyped
<1>3. PICK q \in Normal, w \in Saying, v \in Saying :
        /\ Reads(Server, Scanner(telnet), toServer, q, w) /\ due = telnet.rx \o w[Plain]
        /\ Reads(Client, "text", toClient, "text", v) /\ owed = v[Plain]
        /\ Bound(peer.option, telnet, w, v)
  BY DEF WireInv, Held
<1>4. b \in Byte /\ (b # 255 => b # IAC)
  BY CodesAre DEF Text, Byte
<1>5. Reads(Client, "text", Escape(b), "text", One(Plain, b))
  <2>1. CASE b = 255
    BY <2>1, ClientDoubled DEF Escape
  <2>2. CASE b # 255
    BY <1>4, <2>2, ClientByte DEF Escape
  <2> QED
    BY <2>1, <2>2
<1> DEFINE u == Join(v, One(Plain, b))
<1>6. u \in Saying /\ Reads(Client, "text", toClient', "text", u)
  BY <1>1, <1>3, <1>5, ClientMore
<1>7. Plain \in Channels /\ b \in Words
  BY <1>4, OptionsAre DEF Byte, Words
<1>8. u[Plain] = v[Plain] \o <<b>> /\ \A j \in Channels \ {Plain} : u[j] = v[j]
  BY <1>7, JoinOne
<1> HIDE DEF u
<1>9. owed' = owed \o <<b>> /\ owed' \in Seq(Byte)
  BY <1>1, <1>2, <1>4, AppendIsConcat, AppendProperties
<1>10. owed' = u[Plain]
  BY <1>3, <1>8, <1>9
<1>11. Bound(peer.option, telnet, w, u)
  BY <1>3, <1>8, BoundText
<1>12. /\ peer'.option = peer.option
       /\ peer' \in [option : [Options -> PeerStates],
                     left : [sends : Nat, changes : Nat, writes : Nat]]
  <2> DEFINE l == [peer.left EXCEPT !.writes = @ - 1]
  <2>1. /\ peer.option \in [Options -> PeerStates]
        /\ peer.left \in [sends : Nat, changes : Nat, writes : Nat]
    BY <1>2
  <2>2. l \in [sends : Nat, changes : Nat, writes : Nat]
    BY <1>1, <2>1
  <2>3. peer' = [option |-> peer.option, left |-> l]
    BY <1>1, <1>2
  <2> HIDE DEF l
  <2> QED
    BY <2>1, <2>2, <2>3
<1>13. Held(telnet', toServer', toClient', due', telnet'.rx, owed', peer'.option)
  BY <1>1, <1>3, <1>6, <1>10, <1>11, <1>12 DEF Held
<1> QED
  BY <1>1, <1>2, <1>9, <1>12, <1>13 DEF WireInv, WireTyped

LEMMA SendKeeps ==
  ASSUME WireInv, NEW unit \in Phrases, Send(unit)
  PROVE  WireInv'
<1>1. /\ peer.left.sends > 0 /\ toServer' = toServer \o unit.bytes /\ due' = due \o unit.means
      /\ peer' = [peer EXCEPT !.left.sends = @ - 1]
      /\ telnet' = telnet /\ toClient' = toClient /\ owed' = owed
  BY DEF Send
<1>2. /\ telnet \in Contexts /\ due \in Seq(Byte) /\ owed \in Seq(Byte)
      /\ peer \in [option : [Options -> PeerStates],
                   left : [sends : Nat, changes : Nat, writes : Nat]]
  BY DEF WireInv, WireTyped
<1>3. PICK q \in Normal, w \in Saying, v \in Saying :
        /\ Reads(Server, Scanner(telnet), toServer, q, w) /\ due = telnet.rx \o w[Plain]
        /\ Reads(Client, "text", toClient, "text", v) /\ owed = v[Plain]
        /\ Bound(peer.option, telnet, w, v)
  BY DEF WireInv, Held
<1>4. unit.means \in Seq(Byte) /\ From(Normal, unit.bytes, OfText(unit.means))
  BY PhrasesRead DEF Meaningful
<1> DEFINE u == Join(w, OfText(unit.means))
<1>5. u \in Saying /\ \E z \in Normal : Reads(Server, Scanner(telnet), toServer', z, u)
  BY <1>1, <1>3, <1>4, ServerMore
<1>6. u[Plain] = w[Plain] \o unit.means /\ \A j \in Channels \ {Plain} : u[j] = w[j]
  BY <1>4, JoinText
<1> HIDE DEF u
<1>7. due' = telnet.rx \o u[Plain]
  <2>1. Byte \subseteq Words
    BY DEF Byte, Words
  <2>2. telnet.rx \in Seq(Words) /\ unit.means \in Seq(Words) /\ w[Plain] \in Seq(Words)
    <3>1. telnet.rx \in Seq(Byte)
      BY <1>2 DEF Contexts
    <3>2. w[Plain] \in Seq(Words)
      BY OptionsAre DEF Saying
    <3> QED
      BY <1>4, <2>1, <3>1, <3>2, SeqMonotonic
  <2>3. telnet.rx \o (w[Plain] \o unit.means) = (telnet.rx \o w[Plain]) \o unit.means
    BY <2>2, Associative
  <2> QED
    BY <1>1, <1>3, <1>6, <2>3
<1>8. due' \in Seq(Byte)
  BY <1>1, <1>2, <1>4, ConcatProperties
<1>9. Bound(peer.option, telnet, u, v)
  BY <1>3, <1>6, BoundText
<1>10. /\ peer'.option = peer.option
       /\ peer' \in [option : [Options -> PeerStates],
                     left : [sends : Nat, changes : Nat, writes : Nat]]
  <2> DEFINE l == [peer.left EXCEPT !.sends = @ - 1]
  <2>1. /\ peer.option \in [Options -> PeerStates]
        /\ peer.left \in [sends : Nat, changes : Nat, writes : Nat]
    BY <1>2
  <2>2. l \in [sends : Nat, changes : Nat, writes : Nat]
    <3>1. peer.left.sends - 1 \in Nat
      BY <1>1, <2>1
    <3> QED
      BY <2>1, <3>1
  <2>3. peer' = [option |-> peer.option, left |-> l]
    BY <1>1, <1>2
  <2> HIDE DEF l
  <2> QED
    BY <2>1, <2>2, <2>3
<1>11. Held(telnet', toServer', toClient', due', telnet'.rx, owed', peer'.option)
  BY <1>1, <1>3, <1>5, <1>7, <1>9, <1>10 DEF Held
<1> QED
  BY <1>1, <1>2, <1>8, <1>10, <1>11 DEF WireInv, WireTyped

-----------------------------------------------------------------------------
(* The client asks and answers                                             *)

\* u is what w says and, about o, a.
Adds(u, w, o, a) == u[o] = w[o] \o <<a>> /\ \A j \in Channels \ {o} : u[j] = w[j]

Heeds(x, s, u) == \E z \in Normal : Reads(Server, x, s, z, u)

\* One request more is under way to the server.
LEMMA SaysMore ==
  ASSUME NEW x, NEW q \in Normal, NEW w \in Saying, Reads(Server, x, toServer, q, w),
         NEW o \in Options, NEW on \in BOOLEAN, Says(o, on)
  PROVE  \E u \in Saying : Heeds(x, toServer', u) /\ Adds(u, w, o, OnOff(on))
<1>1. /\ Asked(Verb(o, TRUE), o) = "on" /\ Asked(Verb(o, FALSE), o) = "off"
      /\ Verb(o, TRUE) \in {DO, WILL} /\ Verb(o, FALSE) \in {DONT, WONT}
  BY AskedIs
<1>2. From(Normal, <<IAC, Verb(o, on), o>>, One(o, OnOff(on)))
  <2>1. CASE on
    <3>1. From(Normal, <<IAC, Verb(o, TRUE), o>>, One(o, Asked(Verb(o, TRUE), o)))
      BY <1>1, RequestRead
    <3>2. OnOff(TRUE) = "on" /\ on = TRUE
      BY <2>1 DEF OnOff
    <3>3. From(Normal, <<IAC, Verb(o, TRUE), o>>, One(o, OnOff(TRUE)))
      BY <1>1, <3>1, <3>2
    <3> QED
      BY <3>2, <3>3
  <2>2. CASE ~on
    <3>1. From(Normal, <<IAC, Verb(o, FALSE), o>>, One(o, Asked(Verb(o, FALSE), o)))
      BY <1>1, RequestRead
    <3>2. OnOff(FALSE) = "off" /\ on = FALSE
      BY <2>2 DEF OnOff
    <3>3. From(Normal, <<IAC, Verb(o, FALSE), o>>, One(o, OnOff(FALSE)))
      BY <1>1, <3>1, <3>2
    <3> QED
      BY <3>2, <3>3
  <2> QED
    BY <2>1, <2>2
<1> DEFINE a == OnOff(on)
           u == Join(w, One(o, a))
<1>3. a \in Words /\ o \in Channels
  BY OptionsAre DEF OnOff, Words
<1>4. u \in Saying /\ \E z \in Normal : Reads(Server, x, toServer \o <<IAC, Verb(o, on), o>>, z, u)
  BY <1>2, ServerMore
<1>5. toServer' = toServer \o <<IAC, Verb(o, on), o>>
  BY DEF Says
<1>6. u[o] = w[o] \o <<a>> /\ \A j \in Channels \ {o} : u[j] = w[j]
  BY <1>3, JoinOne
<1> HIDE DEF u
<1> QED
  BY <1>4, <1>5, <1>6 DEF Heeds, Adds

LEMMA ChangeOptionKeeps ==
  ASSUME WireInv, NEW o \in Options, ChangeOption(o)
  PROVE  WireInv'
<1> DEFINE s == peer.option[o]
           t == IF s = "no" THEN "want yes" ELSE "want no"
<1>1. /\ peer.left.changes > 0 /\ s \in {"no", "yes"} /\ Says(o, s = "no")
      /\ peer' = [peer EXCEPT !.left.changes = @ - 1, !.option[o] = t]
      /\ telnet' = telnet /\ toClient' = toClient /\ due' = due /\ owed' = owed
  BY DEF ChangeOption
<1>2. /\ telnet \in Contexts /\ due \in Seq(Byte) /\ owed \in Seq(Byte)
      /\ peer \in [option : [Options -> PeerStates],
                   left : [sends : Nat, changes : Nat, writes : Nat]]
  BY DEF WireInv, WireTyped
<1>3. PICK q \in Normal, w \in Saying, v \in Saying :
        /\ Reads(Server, Scanner(telnet), toServer, q, w) /\ due = telnet.rx \o w[Plain]
        /\ Reads(Client, "text", toClient, "text", v) /\ owed = v[Plain]
        /\ Bound(peer.option, telnet, w, v)
  BY DEF WireInv, Held
<1> DEFINE a == OnOff(s = "no")
<1>4. PICK u \in Saying :
        /\ \E z \in Normal : Reads(Server, Scanner(telnet), toServer', z, u)
        /\ u[o] = w[o] \o <<a>> /\ \A j \in Channels \ {o} : u[j] = w[j]
  <2>1. \A on \in BOOLEAN : Says(o, on) =>
          \E u \in Saying : Heeds(Scanner(telnet), toServer', u) /\ Adds(u, w, o, OnOff(on))
    <3> TAKE on \in BOOLEAN
    <3> HAVE Says(o, on)
    <3> QED
      BY <1>3, SaysMore
  <2>2. (s = "no") \in BOOLEAN /\ Says(o, s = "no")
    BY <1>1
  <2> DEFINE n == s = "no"
  <2>3. n \in BOOLEAN /\ Says(o, n) /\ a = OnOff(n)
    BY <2>2
  <2> HIDE DEF n, a
  <2> QED
    BY <2>1, <2>3 DEF Heeds, Adds
<1>5. peer' = [option |-> [peer.option EXCEPT ![o] = t],
               left |-> [peer.left EXCEPT !.changes = @ - 1]]
  BY <1>1, <1>2
<1>6. /\ peer.option \in [Options -> PeerStates]
      /\ peer.left \in [sends : Nat, changes : Nat, writes : Nat]
  BY <1>2
<1>7. t \in PeerStates
  BY DEF PeerStates
<1> HIDE DEF t, s
<1>8. /\ peer'.option \in [Options -> PeerStates] /\ peer'.option[o] = t
      /\ \A j \in Options \ {o} : peer'.option[j] = peer.option[j]
  BY <1>5, <1>6, <1>7
<1>9. peer' \in [option : [Options -> PeerStates],
                 left : [sends : Nat, changes : Nat, writes : Nat]]
  <2>1. peer.left.changes - 1 \in Nat
    BY <1>1, <1>6
  <2>2. [peer.left EXCEPT !.changes = @ - 1] \in [sends : Nat, changes : Nat, writes : Nat]
    BY <1>6, <2>1
  <2>3. [peer.option EXCEPT ![o] = t] \in [Options -> PeerStates]
    BY <1>6, <1>7
  <2> QED
    BY <1>5, <2>2, <2>3
<1>10. o \in Tracked => Linked(t, telnet.enabled[o], o \in telnet.pending, u[o], v[o])
  <2> SUFFICES ASSUME o \in Tracked
               PROVE  Linked(t, telnet.enabled[o], o \in telnet.pending, u[o], v[o])
    OBVIOUS
  <2>1. Linked(s, telnet.enabled[o], o \in telnet.pending, w[o], v[o])
    BY <1>3 DEF Bound, s
  <2>2. telnet.enabled[o] \in BOOLEAN /\ (o \in telnet.pending) \in BOOLEAN
    BY <1>2 DEF Contexts
  <2>3. Linked(IF s = "no" THEN "want yes" ELSE "want no", telnet.enabled[o], o \in telnet.pending,
               w[o] \o <<OnOff(s = "no")>>, v[o])
    BY <1>1, <2>1, <2>2, LinkedChange
  <2> QED
    BY <1>4, <2>3 DEF t
<1>11. o \in Refused => Denied(t, u[o], v[o])
  <2> SUFFICES ASSUME o \in Refused PROVE Denied(t, u[o], v[o])
    OBVIOUS
  <2>1. Denied(s, w[o], v[o])
    BY <1>3 DEF Bound, s
  <2>2. w[o] \in Seq(Words)
    BY OptionsAre DEF Saying
  <2>3. s = "no" /\ Denied("want yes", w[o] \o <<"on">>, v[o])
    BY <1>1, <2>1, <2>2, DeniedChange
  <2>4. t = "want yes" /\ OnOff(s = "no") = "on"
    BY <2>3 DEF t, OnOff
  <2> QED
    BY <1>4, <2>3, <2>4
<1>12. Bound(peer'.option, telnet, u, v)
  <2>1. Agreed(peer'.option, telnet, u, v, o)
    BY <1>8, <1>10, <1>11 DEF Agreed
  <2>2. \A j \in Channels \ {o} : u[j] = w[j] /\ v[j] = v[j]
    BY <1>4
  <2>3. /\ Bound(peer.option, telnet, w, v)
        /\ \A j \in Options \ {o} : peer'.option[j] = peer.option[j]
    BY <1>3, <1>8
  <2> QED
    BY <2>1, <2>2, <2>3, BoundOne
<1>13. u[Plain] = w[Plain]
  BY <1>4, OptionsAre
<1>14. Held(telnet', toServer', toClient', due', telnet'.rx, owed', peer'.option)
  <2>1. /\ telnet' = telnet /\ toClient' = toClient /\ due' = due /\ owed' = owed
    BY <1>1
  <2>2. \E z \in Normal : Reads(Server, Scanner(telnet), toServer', z, u)
    BY <1>4
  <2>3. due = telnet.rx \o u[Plain] /\ Reads(Client, "text", toClient, "text", v) /\ owed = v[Plain]
    BY <1>3, <1>13
  <2> QED
    BY <1>12, <2>1, <2>2, <2>3 DEF Held
<1> QED
  BY <1>1, <1>2, <1>9, <1>14 DEF WireInv, WireTyped

-----------------------------------------------------------------------------
(* The client shows a byte                                                 *)

LEMMA Consumed ==
  ASSUME NEW c \in Seq(Byte), c # <<>>
  PROVE  SubSeq(c, 1 + 1, Len(c)) = Tail(c) /\ Tail(c) \in Seq(Byte) /\ c[1] \in Byte
         /\ Len(c) \in Nat /\ Len(Tail(c)) = Len(c) - 1
<1>1. Len(c) \in Nat /\ Len(c) >= 1
  BY EmptySeq, LenProperties
<1>2. 1 \in 1 .. Len(c) /\ Len(c) \in Nat
  BY <1>1
<1>3. SubSeq(c, 1, Len(c)) = c /\ Tail(SubSeq(c, 1, Len(c))) = SubSeq(c, 1 + 1, Len(c))
  BY <1>2, Suffix, SubSeqFull
<1>4. Tail(c) \in Seq(Byte) /\ c[1] \in Byte /\ Len(Tail(c)) = Len(c) - 1
  BY HeadTailProperties
<1> QED
  BY <1>1, <1>3, <1>4

\* A byte of text, as the client reads it: 255 comes doubled.
LEMMA ShownByte ==
  ASSUME NEW c \in Seq(Byte), c # <<>>, NEW v, Reads(Client, "text", c, "text", v),
         c[1] # IAC \/ c[2] = IAC
  PROVE  \E u \in Saying :
           /\ Reads(Client, "text", SubSeq(c, (IF c[1] # IAC THEN 1 ELSE 2) + 1, Len(c)), "text", u)
           /\ v = Join(One(Plain, c[1]), u)
<1> DEFINE b == c[1]
           t == Tail(c)
<1>1. IAC = 255 /\ IAC \in Byte /\ "text" \in ClientStates /\ "iac" \in ClientStates
  BY CodesAre DEF Byte, ClientStates
<1>2. b \in Byte /\ t \in Seq(Byte) /\ SubSeq(c, 1 + 1, Len(c)) = t
  BY Consumed
<1>3. PICK u \in Saying : /\ v = Join(Client.out["text"][b], u)
                         /\ Reads(Client, Client.step["text"][b], t, "text", u)
  BY ClientReads, ReadsFirst
<1> HIDE DEF t
<1>4. CASE b # IAC
  <2>1. Client.step["text"][b] = "text" /\ Client.out["text"][b] = One(Plain, b)
    BY <1>1, <1>2, <1>4 DEF Client, ClientParses, ClientHears
  <2> QED
    BY <1>2, <1>3, <1>4, <2>1
<1>5. CASE b = IAC
  <2>1. Client.step["text"][b] = "iac" /\ Client.out["text"][b] = Nothing
    BY <1>1, <1>2, <1>5 DEF Client, ClientParses, ClientHears
  <2>2. v = u /\ Reads(Client, "iac", t, "text", u)
    BY <1>3, <2>1, JoinIs, NothingIs
  <2>3. t # <<>>
    BY <1>1, <2>2, ClientReads, ReadsNothing
  <2>4. 2 \in 1 .. Len(c) /\ Len(c) \in Nat
    <3>1. Len(t) # 0 /\ Len(t) \in Nat
      BY <1>2, <2>3, EmptySeq, LenProperties
    <3>2. Len(c) \in Nat /\ Len(t) = Len(c) - 1
      BY Consumed DEF t
    <3> QED
      BY <3>1, <3>2
  <2>5. t[1] = IAC /\ Tail(t) = SubSeq(c, 2 + 1, Len(c))
    <3>1. /\ SubSeq(c, 2, Len(c))[1] = c[2]
          /\ Tail(SubSeq(c, 2, Len(c))) = SubSeq(c, 2 + 1, Len(c))
      BY <2>4, Suffix
    <3>2. SubSeq(c, 2, Len(c)) = t
      BY <1>2
    <3> QED
      BY <1>5, <3>1, <3>2
  <2>6. PICK x \in Saying : /\ u = Join(Client.out["iac"][t[1]], x)
                            /\ Reads(Client, Client.step["iac"][t[1]], Tail(t), "text", x)
    BY <2>2, <2>3, ClientReads, ReadsFirst
  <2>7. Client.step["iac"][IAC] = "text" /\ Client.out["iac"][IAC] = One(Plain, IAC)
    BY <1>1 DEF Client, ClientParses, ClientHears
  <2>8. v = Join(One(Plain, IAC), x) /\ Reads(Client, "text", SubSeq(c, 2 + 1, Len(c)), "text", x)
    BY <2>2, <2>5, <2>6, <2>7
  <2> QED
    BY <1>5, <2>8
<1> QED
  BY <1>4, <1>5

LEMMA ShowByteKeeps ==
  ASSUME WireInv, ShowByte
  PROVE  WireInv'
<1>1. /\ toClient # <<>> /\ owed' = Tail(owed)
      /\ telnet' = telnet /\ toServer' = toServer /\ due' = due /\ peer' = peer
  BY DEF ShowByte
<1>2. /\ telnet \in Contexts /\ due \in Seq(Byte) /\ owed \in Seq(Byte)
      /\ peer \in [option : [Options -> PeerStates],
                   left : [sends : Nat, changes : Nat, writes : Nat]]
  BY DEF WireInv, WireTyped
<1>3. PICK q \in Normal, w \in Saying, v \in Saying :
        /\ Reads(Server, Scanner(telnet), toServer, q, w) /\ due = telnet.rx \o w[Plain]
        /\ Reads(Client, "text", toClient, "text", v) /\ owed = v[Plain]
        /\ Bound(peer.option, telnet, w, v)
  BY DEF WireInv, Held
<1>4. toClient \in Seq(Byte)
  BY <1>3 DEF Reads
<1> DEFINE b == toClient[1]
<1>5. PICK u \in Saying : Reads(Client, "text", toClient', "text", u) /\ v = Join(One(Plain, b), u)
  <2>1. b # IAC \/ toClient[2] = IAC
    BY DEF ShowByte
  <2>2. toClient' = SubSeq(toClient, (IF b # IAC THEN 1 ELSE 2) + 1, Len(toClient))
    BY DEF ShowByte, Consume
  <2> QED
    BY <1>1, <1>3, <1>4, <2>1, <2>2, ShownByte
<1>15. b \in Byte
  BY <1>1, <1>4, Consumed
<1> HIDE DEF b
<1>6. Plain \in Channels /\ b \in Words
  BY <1>15, OptionsAre DEF Byte, Words
<1>7. v[Plain] = <<b>> \o u[Plain] /\ \A j \in Channels \ {Plain} : u[j] = v[j]
  BY <1>5, <1>6, JoinOne
<1>8. u[Plain] = Tail(owed) /\ owed # <<>>
  <2>1. u[Plain] \in Seq(Words)
    BY <1>6 DEF Saying
  <2> QED
    BY <1>3, <1>6, <1>7, <2>1, Firsts
<1>9. owed' \in Seq(Byte)
  BY <1>1, <1>2, <1>8, HeadTailProperties
<1>10. Bound(peer.option, telnet, w, u)
  BY <1>3, <1>7, BoundText
<1>11. Held(telnet', toServer', toClient', due', telnet'.rx, owed', peer'.option)
  BY <1>1, <1>3, <1>5, <1>8, <1>10 DEF Held
<1> QED
  BY <1>1, <1>2, <1>9, <1>11 DEF WireInv, WireTyped

-----------------------------------------------------------------------------
(* The client hears of an option                                           *)

Peers == [option : [Options -> PeerStates], left : [sends : Nat, changes : Nat, writes : Nat]]

LEMMA BecomesIs ==
  ASSUME peer \in Peers, NEW o \in Options, NEW st \in PeerStates, Becomes(o, st)
  PROVE  /\ peer' \in Peers /\ peer'.option[o] = st
         /\ \A j \in Options \ {o} : peer'.option[j] = peer.option[j]
<1>1. peer.option \in [Options -> PeerStates] /\ peer' = [peer EXCEPT !.option[o] = st]
  BY DEF Peers, Becomes
<1> DEFINE f == [peer.option EXCEPT ![o] = st]
<1>2. peer' = [option |-> f, left |-> peer.left]
  BY <1>1 DEF Peers
<1>3. f \in [Options -> PeerStates] /\ f[o] = st /\ \A j \in Options \ {o} : f[j] = peer.option[j]
  BY <1>1
<1> HIDE DEF f
<1>4. peer' \in Peers
  BY <1>2, <1>3 DEF Peers
<1> QED
  BY <1>2, <1>3, <1>4

\* A request or an answer, as the client reads it.
LEMMA HeardRequest ==
  ASSUME NEW c \in Seq(Byte), NEW v, Reads(Client, "text", c, "text", v),
         Len(c) >= 3, c[1] = IAC, c[2] # IAC
  PROVE  /\ c[3] \in Byte
         /\ \E u \in Saying : /\ v = Join(One(About(c[3]), OnOff(c[2] \in {WILL, DO})), u)
                              /\ Reads(Client, "text", SubSeq(c, 3 + 1, Len(c)), "text", u)
<1>1. Len(c) \in Nat /\ 1 \in 1 .. Len(c) /\ 2 \in 1 .. Len(c) /\ 3 \in 1 .. Len(c)
  <2>1. Len(c) \in Nat
    BY LenProperties
  <2> QED
    BY <2>1
<1>2. c[2] \in Byte /\ c[3] \in Byte /\ c[1] \in Byte
  BY <1>1, ElementOfSeq
<1> DEFINE c2 == SubSeq(c, 2, Len(c))
           c3 == SubSeq(c, 3, Len(c))
           c4 == SubSeq(c, 4, Len(c))
<1>3. c # <<>> /\ Tail(c) = c2
  <2>1. SubSeq(c, 1, Len(c)) # <<>> /\ Tail(SubSeq(c, 1, Len(c))) = SubSeq(c, 1 + 1, Len(c))
    BY <1>1, Suffix
  <2>2. SubSeq(c, 1, Len(c)) = c /\ 1 + 1 = 2
    BY SubSeqFull
  <2> QED
    BY <2>1, <2>2
<1>4. c2 # <<>> /\ c2[1] = c[2] /\ Tail(c2) = c3
  <2>1. 2 + 1 = 3
    OBVIOUS
  <2> QED
    BY <1>1, <2>1, Suffix
<1>5. c3 # <<>> /\ c3[1] = c[3] /\ Tail(c3) = c4
  <2>1. 3 + 1 = 4
    OBVIOUS
  <2> QED
    BY <1>1, <2>1, Suffix
<1> HIDE DEF c2, c3
<1> DEFINE p == OnOff(c[2] \in {WILL, DO})
<1>6. /\ "text" \in ClientStates /\ "iac" \in ClientStates /\ p \in {"on", "off"}
      /\ p \in ClientStates /\ IAC \in Byte
  BY CodesAre DEF ClientStates, OnOff, Byte
<1>7. Client.step["text"][c[1]] = "iac" /\ Client.out["text"][c[1]] = Nothing
  BY <1>6 DEF Client, ClientParses, ClientHears
<1>8. Client.step["iac"][c[2]] = p /\ Client.out["iac"][c[2]] = Nothing
  BY <1>2, <1>6 DEF Client, ClientParses, ClientHears, OnOff
<1> HIDE DEF p
<1>9. Client.step[p][c[3]] = "text" /\ Client.out[p][c[3]] = One(About(c[3]), p)
  <2>1. p # "text" /\ p # "iac"
    BY <1>6
  <2> QED
    BY <1>2, <1>6, <2>1 DEF Client, ClientParses, ClientHears
<1>10. PICK v1 \in Saying : v = Join(Nothing, v1) /\ Reads(Client, "iac", c2, "text", v1)
  <2>1. PICK v1 \in Saying : /\ v = Join(Client.out["text"][c[1]], v1)
                             /\ Reads(Client, Client.step["text"][c[1]], Tail(c), "text", v1)
    BY <1>3, ClientReads, ReadsFirst
  <2> QED
    BY <1>3, <1>7, <2>1
<1>11. PICK v2 \in Saying : v1 = Join(Nothing, v2) /\ Reads(Client, p, c3, "text", v2)
  <2>1. PICK v2 \in Saying : /\ v1 = Join(Client.out["iac"][c2[1]], v2)
                             /\ Reads(Client, Client.step["iac"][c2[1]], Tail(c2), "text", v2)
    BY <1>4, <1>10, ClientReads, ReadsFirst
  <2> QED
    BY <1>4, <1>8, <2>1
<1>12. PICK v3 \in Saying : /\ v2 = Join(One(About(c[3]), p), v3)
                           /\ Reads(Client, "text", c4, "text", v3)
  <2>1. PICK v3 \in Saying : /\ v2 = Join(Client.out[p][c3[1]], v3)
                             /\ Reads(Client, Client.step[p][c3[1]], Tail(c3), "text", v3)
    BY <1>5, <1>11, ClientReads, ReadsFirst
  <2> QED
    BY <1>5, <1>9, <2>1
<1>13. v = v2
  BY <1>10, <1>11, JoinIs, NothingIs
<1>14. Reads(Client, "text", SubSeq(c, 3 + 1, Len(c)), "text", v3)
  <2>1. 3 + 1 = 4
    OBVIOUS
  <2> QED
    BY <1>12, <2>1
<1> QED
  BY <1>2, <1>12, <1>13, <1>14 DEF p

\* How the option goes on.
Hears(o, on) ==
  LET now == peer.option[o]
  IN  \/ now = "no" /\ on /\ Becomes(o, "yes") /\ Says(o, TRUE)
      \/ now = "no" /\ on /\ Says(o, FALSE) /\ UNCHANGED peer
      \/ now = "yes" /\ ~on /\ Becomes(o, "no") /\ Says(o, FALSE)
      \/ now = "want yes" /\ Becomes(o, IF on THEN "yes" ELSE "no") /\ UNCHANGED toServer
      \/ now = "want no" /\ Becomes(o, "no") /\ UNCHANGED toServer
      \/ ((now = "no" /\ ~on) \/ (now = "yes" /\ on)) /\ UNCHANGED <<peer, toServer>>

Goes(x, w, u, o) ==
  /\ peer' \in Peers /\ \A j \in Options \ {o} : peer'.option[j] = peer.option[j]
  /\ \E z \in Saying : /\ Heeds(x, toServer', z) /\ \A j \in Channels \ {o} : z[j] = w[j]
                       /\ Agreed(peer'.option, telnet, z, u, o)

LEMMA HearAgrees ==
  ASSUME telnet \in Contexts, peer \in Peers, NEW x, NEW q \in Normal, NEW w \in Saying,
         Reads(Server, x, toServer, q, w), NEW u \in Saying,
         NEW v, Bound(peer.option, telnet, w, v),
         NEW o \in Options, NEW on \in BOOLEAN, v[o] = <<OnOff(on)>> \o u[o],
         Hears(o, on)
  PROVE  Goes(x, w, u, o)
<1> DEFINE now == peer.option[o]
           a == OnOff(on)
           e == telnet.enabled[o]
           p == o \in telnet.pending
           Then(z) == /\ Heeds(x, toServer', z) /\ \A j \in Channels \ {o} : z[j] = w[j]
                      /\ Agreed(peer'.option, telnet, z, u, o)
           Kept == peer' \in Peers /\ \A j \in Options \ {o} : peer'.option[j] = peer.option[j]
<1>1. /\ "yes" \in PeerStates /\ "no" \in PeerStates /\ now \in PeerStates
      /\ a \in Words /\ a \in {"on", "off"} /\ (on <=> a = "on") /\ (~on <=> a = "off")
      /\ w[o] \in Seq(Words) /\ u[o] \in Seq(Words) /\ o \in Channels
  <2>1. o \in Channels
    BY OptionsAre
  <2>2. w[o] \in Seq(Words) /\ u[o] \in Seq(Words)
    BY <2>1 DEF Saying
  <2> QED
    BY <2>1, <2>2 DEF PeerStates, OnOff, Words, Peers
<1>2. ASSUME o \in Tracked
      PROVE  /\ now # "yes"
             /\ now = "no" => /\ a = "on" /\ Linked("yes", e, p, w[o] \o <<"on">>, u[o])
                              /\ Linked("no", e, p, w[o] \o <<"off">>, u[o])
             /\ now = "want yes" => a = "on" /\ Linked("yes", e, p, w[o], u[o])
             /\ now = "want no" => a = "off" /\ Linked("no", e, p, w[o], u[o])
  <2>1. e \in BOOLEAN /\ p \in BOOLEAN
    <3>1. telnet.enabled \in [Tracked -> BOOLEAN]
      BY DEF Contexts
    <3>2. e \in BOOLEAN
      BY <1>2, <3>1
    <3>3. p \in BOOLEAN
      OBVIOUS
    <3> QED
      BY <3>2, <3>3
  <2>2. Linked(now, e, p, w[o], v[o])
    BY <1>2 DEF Bound
  <2> HIDE DEF e, p, a, now
  <2>3. Linked(now, e, p, w[o], <<a>> \o u[o])
    BY <2>2 DEF a
  <2>4. now \in PeerStates /\ a \in Words /\ w[o] \in Seq(Words) /\ u[o] \in Seq(Words)
    BY <1>1
  <2>5. Moves(now, e, p, a, w[o], u[o])
    BY <2>1, <2>3, <2>4, LinkedHear
  <2> QED
    BY <2>5 DEF Moves
<1>3. ASSUME o \in Refused
      PROVE  now \in {"no", "want yes"} /\ a = "off" /\ Denied("no", w[o], u[o])
  <2>1. Denied(now, w[o], <<a>> \o u[o])
    BY <1>3 DEF Bound
  <2> HIDE DEF a, now
  <2> QED
    BY <1>1, <2>1, DeniedHear
<1>4. o \in Tracked \/ o \in Refused
  BY DEF Options
<1> HIDE DEF a
<1> SUFFICES Kept /\ \E z \in Saying : Then(z)
  BY DEF Goes
<1>5. CASE now = "no" /\ on /\ Becomes(o, "yes") /\ Says(o, TRUE)
  <2>1. o \in Tracked /\ o \notin Refused /\ Linked("yes", e, p, w[o] \o <<"on">>, u[o])
    BY <1>1, <1>2, <1>3, <1>4, <1>5
  <2>2. Kept /\ peer'.option[o] = "yes"
    BY <1>1, <1>5, BecomesIs
  <2>3. PICK z \in Saying : Heeds(x, toServer', z) /\ Adds(z, w, o, OnOff(TRUE))
    BY <1>5, SaysMore
  <2>4. z[o] = w[o] \o <<"on">> /\ \A j \in Channels \ {o} : z[j] = w[j]
    BY <2>3 DEF Adds, OnOff
  <2>5. Agreed(peer'.option, telnet, z, u, o)
    BY <2>1, <2>2, <2>4 DEF Agreed
  <2> QED
    BY <2>2, <2>3, <2>4, <2>5
<1>6. CASE now = "no" /\ on /\ Says(o, FALSE) /\ UNCHANGED peer
  <2>1. o \in Tracked /\ o \notin Refused /\ Linked("no", e, p, w[o] \o <<"off">>, u[o])
    BY <1>1, <1>2, <1>3, <1>4, <1>6
  <2>2. Kept /\ peer'.option[o] = "no"
    BY <1>6
  <2>3. PICK z \in Saying : Heeds(x, toServer', z) /\ Adds(z, w, o, OnOff(FALSE))
    BY <1>6, SaysMore
  <2>4. z[o] = w[o] \o <<"off">> /\ \A j \in Channels \ {o} : z[j] = w[j]
    BY <2>3 DEF Adds, OnOff
  <2>5. Agreed(peer'.option, telnet, z, u, o)
    BY <2>1, <2>2, <2>4 DEF Agreed
  <2> QED
    BY <2>2, <2>3, <2>4, <2>5
<1>7. CASE now = "yes"
  BY <1>2, <1>3, <1>4, <1>7
<1>8. ASSUME Kept, toServer' = toServer, Agreed(peer'.option, telnet, w, u, o)
      PROVE  Kept /\ \E z \in Saying : Then(z)
  <2>1. Heeds(x, toServer', w)
    BY <1>8 DEF Heeds
  <2> QED
    BY <1>8, <2>1
<1>9. CASE now = "want yes" /\ Becomes(o, IF on THEN "yes" ELSE "no") /\ UNCHANGED toServer
  <2> DEFINE st == IF on THEN "yes" ELSE "no"
  <2>1. st \in PeerStates /\ (on => st = "yes") /\ (~on => st = "no") /\ Becomes(o, st)
    BY <1>1, <1>9
  <2> HIDE DEF st
  <2>2. Kept /\ peer'.option[o] = st
    BY <1>1, <2>1, BecomesIs
  <2>3. o \in Tracked => st = "yes" /\ Linked("yes", e, p, w[o], u[o])
    BY <1>1, <1>2, <1>9, <2>1
  <2>4. o \in Refused => st = "no" /\ Denied("no", w[o], u[o])
    BY <1>1, <1>3, <1>9, <2>1
  <2>5. Agreed(peer'.option, telnet, w, u, o)
    BY <2>2, <2>3, <2>4 DEF Agreed
  <2> QED
    BY <1>8, <1>9, <2>2, <2>5
<1>10. CASE now = "want no" /\ Becomes(o, "no") /\ UNCHANGED toServer
  <2>1. o \in Tracked /\ o \notin Refused /\ Linked("no", e, p, w[o], u[o])
    BY <1>2, <1>3, <1>4, <1>10
  <2>2. Kept /\ peer'.option[o] = "no"
    BY <1>1, <1>10, BecomesIs
  <2>3. Agreed(peer'.option, telnet, w, u, o)
    BY <2>1, <2>2 DEF Agreed
  <2> QED
    BY <1>8, <1>10, <2>2, <2>3
<1>11. CASE now = "no" /\ ~on /\ UNCHANGED <<peer, toServer>>
  <2>1. o \notin Tracked /\ Denied("no", w[o], u[o])
    BY <1>1, <1>2, <1>3, <1>4, <1>11
  <2>2. Kept /\ peer'.option[o] = "no"
    BY <1>11
  <2>3. Agreed(peer'.option, telnet, w, u, o)
    BY <2>1, <2>2 DEF Agreed
  <2> QED
    BY <1>8, <1>11, <2>2, <2>3
<1> QED
  BY <1>5, <1>6, <1>7, <1>9, <1>10, <1>11 DEF Hears

LEMMA HearOptionKeeps ==
  ASSUME WireInv, HearOption
  PROVE  WireInv'
<1> DEFINE o == toClient[3]
           on == toClient[2] \in {WILL, DO}
<1>1. /\ Len(toClient) >= 3 /\ toClient[1] = IAC /\ toClient[2] # IAC
      /\ telnet' = telnet /\ due' = due /\ owed' = owed
      /\ toClient' = SubSeq(toClient, 3 + 1, Len(toClient))
  BY DEF HearOption, Consume
<1>2. /\ telnet \in Contexts /\ due \in Seq(Byte) /\ owed \in Seq(Byte) /\ peer \in Peers
  BY DEF WireInv, WireTyped, Peers
<1>3. PICK q \in Normal, w \in Saying, v \in Saying :
        /\ Reads(Server, Scanner(telnet), toServer, q, w) /\ due = telnet.rx \o w[Plain]
        /\ Reads(Client, "text", toClient, "text", v) /\ owed = v[Plain]
        /\ Bound(peer.option, telnet, w, v)
  BY DEF WireInv, Held
<1>4. toClient \in Seq(Byte)
  BY <1>3 DEF Reads
<1>5. o \in Byte /\ \E u \in Saying : /\ v = Join(One(About(o), OnOff(on)), u)
                                      /\ Reads(Client, "text", toClient', "text", u)
  BY <1>1, <1>3, <1>4, HeardRequest
<1>6. PICK u \in Saying : /\ v = Join(One(About(o), OnOff(on)), u)
                         /\ Reads(Client, "text", toClient', "text", u)
  BY <1>5
<1>7. on \in BOOLEAN /\ OnOff(on) \in Words
  BY DEF OnOff, Words
<1>8. About(o) \in Channels
  BY <1>5, OptionsAre
<1>9. Hears(o, on)
  BY DEF HearOption, Hears
<1> HIDE DEF o, on
<1>10. /\ v[About(o)] = <<OnOff(on)>> \o u[About(o)]
       /\ \A j \in Channels \ {About(o)} : v[j] = u[j]
  BY <1>6, <1>7, <1>8, JoinOne
<1>11. o \in Options /\ About(o) = o
  <2>1. u[About(o)] \in Seq(Words)
    BY <1>8 DEF Saying
  <2>2. v[About(o)] # <<>>
    BY <1>7, <1>10, <2>1, Firsts
  <2>3. v[Stray] = <<>>
    BY <1>3 DEF Bound
  <2> QED
    BY <1>5, <2>2, <2>3, OptionsAre
<1>12. v[o] = <<OnOff(on)>> \o u[o] /\ \A j \in Channels \ {o} : u[j] = v[j]
  BY <1>10, <1>11
<1>13. Goes(Scanner(telnet), w, u, o)
  <2>1. Reads(Server, Scanner(telnet), toServer, q, w) /\ Bound(peer.option, telnet, w, v)
    BY <1>3
  <2> QED
    BY <1>2, <1>7, <1>9, <1>11, <1>12, <2>1, HearAgrees
<1>14. PICK z \in Saying : /\ Heeds(Scanner(telnet), toServer', z)
                           /\ \A j \in Channels \ {o} : z[j] = w[j]
                           /\ Agreed(peer'.option, telnet, z, u, o)
  BY <1>13 DEF Goes
<1>15. Bound(peer'.option, telnet, z, u)
  <2>1. \A j \in Channels \ {o} : z[j] = w[j] /\ u[j] = v[j]
    BY <1>12, <1>14
  <2> QED
    BY <1>3, <1>11, <1>13, <1>14, <2>1, BoundOne DEF Goes
<1>16. z[Plain] = w[Plain] /\ u[Plain] = v[Plain]
  BY <1>11, <1>12, <1>14, OptionsAre
<1>17. Held(telnet', toServer', toClient', due', telnet'.rx, owed', peer'.option)
  <2>1. telnet' = telnet /\ due' = due /\ owed' = owed
    BY <1>1
  <2>2. \E y \in Normal : Reads(Server, Scanner(telnet), toServer', y, z)
    BY <1>14 DEF Heeds
  <2>3. due = telnet.rx \o z[Plain] /\ owed = u[Plain]
    BY <1>3, <1>16
  <2> QED
    BY <1>6, <1>15, <2>1, <2>2, <2>3 DEF Held
<1> QED
  BY <1>1, <1>2, <1>13, <1>17 DEF WireInv, WireTyped, Peers, Goes

-----------------------------------------------------------------------------
(* The beginning                                                           *)

Requests ==
  (<<IAC, WILL, ECHO>> \o <<IAC, WILL, SGA>>) \o (<<IAC, DONT, LINEMODE>> \o <<IAC, DO, NAWS>>)

LEMMA NegotiationIs == Negotiation = Requests
<1> DEFINE a == <<IAC, WILL, ECHO>>
           b == <<IAC, WILL, SGA>>
           c == <<IAC, DONT, LINEMODE>>
           d == <<IAC, DO, NAWS>>
<1>1. /\ a \in Seq(Int) /\ b \in Seq(Int) /\ c \in Seq(Int) /\ d \in Seq(Int)
      /\ Len(a) = 3 /\ Len(b) = 3 /\ Len(c) = 3 /\ Len(d) = 3
      /\ Negotiation \in Seq(Int) /\ Len(Negotiation) = 12
  BY CodesAre DEF Negotiation
<1>2. /\ a[1] = Negotiation[1] /\ a[2] = Negotiation[2] /\ a[3] = Negotiation[3]
      /\ b[1] = Negotiation[4] /\ b[2] = Negotiation[5] /\ b[3] = Negotiation[6]
      /\ c[1] = Negotiation[7] /\ c[2] = Negotiation[8] /\ c[3] = Negotiation[9]
      /\ d[1] = Negotiation[10] /\ d[2] = Negotiation[11] /\ d[3] = Negotiation[12]
  BY DEF Negotiation
<1>3. Requests = (a \o b) \o (c \o d)
  BY DEF Requests
<1> HIDE DEF a, b, c, d
<1> DEFINE s == a \o b
           t == c \o d
           u == s \o t
<1>4. /\ s \in Seq(Int) /\ Len(s) = 6
      /\ \A i \in 1 .. 6 : s[i] = IF i <= 3 THEN a[i] ELSE b[i - 3]
  <2>1. /\ s \in Seq(Int) /\ Len(s) = Len(a) + Len(b)
        /\ \A i \in 1 .. Len(a) + Len(b) : s[i] = IF i <= Len(a) THEN a[i] ELSE b[i - Len(a)]
    BY <1>1, ConcatProperties
  <2>2. Len(a) = 3 /\ Len(b) = 3 /\ 3 + 3 = 6
    BY <1>1
  <2> HIDE DEF s
  <2> QED
    BY <2>1, <2>2
<1>5. /\ t \in Seq(Int) /\ Len(t) = 6
      /\ \A i \in 1 .. 6 : t[i] = IF i <= 3 THEN c[i] ELSE d[i - 3]
  <2>1. /\ t \in Seq(Int) /\ Len(t) = Len(c) + Len(d)
        /\ \A i \in 1 .. Len(c) + Len(d) : t[i] = IF i <= Len(c) THEN c[i] ELSE d[i - Len(c)]
    BY <1>1, ConcatProperties
  <2>2. Len(c) = 3 /\ Len(d) = 3 /\ 3 + 3 = 6
    BY <1>1
  <2> HIDE DEF t
  <2> QED
    BY <2>1, <2>2
<1> HIDE DEF s, t
<1>6. /\ u \in Seq(Int) /\ Len(u) = 12
      /\ \A i \in 1 .. 12 : u[i] = IF i <= 6 THEN s[i] ELSE t[i - 6]
  <2>1. /\ u \in Seq(Int) /\ Len(u) = Len(s) + Len(t)
        /\ \A i \in 1 .. Len(s) + Len(t) : u[i] = IF i <= Len(s) THEN s[i] ELSE t[i - Len(s)]
    BY <1>4, <1>5, ConcatProperties
  <2>2. Len(s) = 6 /\ Len(t) = 6 /\ 6 + 6 = 12
    BY <1>4, <1>5
  <2> QED
    BY <2>1, <2>2
<1> HIDE DEF u
<1>7. /\ u[1] = a[1] /\ u[2] = a[2] /\ u[3] = a[3] /\ u[4] = b[1] /\ u[5] = b[2] /\ u[6] = b[3]
  BY <1>4, <1>6
<1>8. /\ u[7] = c[1] /\ u[8] = c[2] /\ u[9] = c[3] /\ u[10] = d[1] /\ u[11] = d[2] /\ u[12] = d[3]
  BY <1>5, <1>6
<1>9. \A i \in 1 .. 12 : u[i] = Negotiation[i]
  <2> TAKE i \in 1 .. 12
  <2>1. i \in {1, 2, 3, 4, 5, 6, 7, 8, 9, 10, 11, 12}
    OBVIOUS
  <2> QED
    BY <1>2, <1>7, <1>8, <2>1
<1>10. u = Negotiation
  BY <1>1, <1>6, <1>9, SeqEqual
<1> QED
  BY <1>3, <1>10 DEF s, t, u

LEMMA Alone ==
  ASSUME NEW a \in Seq(Words)
  PROVE  /\ (a \o <<>>) \o (<<>> \o <<>>) = a /\ (<<>> \o a) \o (<<>> \o <<>>) = a
         /\ (<<>> \o <<>>) \o (a \o <<>>) = a /\ (<<>> \o <<>>) \o (<<>> \o a) = a
<1>1. <<>> \in Seq(Words)
  BY EmptySeq
<1>2. a \o <<>> = a /\ <<>> \o a = a
  BY ConcatEmptySeq
<1>3. <<>> \o <<>> = <<>>
  BY <1>1, ConcatEmptySeq
<1> QED
  BY <1>2, <1>3

\* What the negotiation asks for.
LEMMA NegotiationRead ==
  \E v \in Saying :
    /\ Reads(Client, "text", Negotiation, "text", v) /\ v[Plain] = <<>> /\ v[Stray] = <<>>
    /\ v[ECHO] = <<"on">> /\ v[SGA] = <<"on">> /\ v[NAWS] = <<"on">>
    /\ v[LINEMODE] = <<"off">> /\ v[BINARY] = <<>>
<1>1. /\ ECHO \in Options /\ SGA \in Options /\ NAWS \in Options
      /\ LINEMODE \in Options /\ BINARY \in Options
      /\ ECHO \in Byte /\ SGA \in Byte /\ NAWS \in Byte /\ LINEMODE \in Byte
      /\ ECHO = 1 /\ SGA = 3 /\ NAWS = 31 /\ LINEMODE = 34 /\ BINARY = 0
      /\ Plain = 256 /\ Stray = 257
  BY CodesAre, OptionsAre DEF Byte
<1>2. /\ About(ECHO) = ECHO /\ About(SGA) = SGA /\ About(NAWS) = NAWS /\ About(LINEMODE) = LINEMODE
      /\ ECHO \in Channels /\ SGA \in Channels /\ NAWS \in Channels /\ LINEMODE \in Channels
      /\ BINARY \in Channels /\ Plain \in Channels /\ Stray \in Channels
  BY <1>1, OptionsAre
<1>3. /\ OnOff(WILL \in {WILL, DO}) = "on" /\ OnOff(DO \in {WILL, DO}) = "on"
      /\ OnOff(DONT \in {WILL, DO}) = "off"
  BY CodesAre DEF OnOff
<1> DEFINE ve == One(ECHO, "on")
           vs == One(SGA, "on")
           vl == One(LINEMODE, "off")
           vn == One(NAWS, "on")
<1>4. Reads(Client, "text", <<IAC, WILL, ECHO>>, "text", ve)
  <2>1. Reads(Client, "text", <<IAC, WILL, ECHO>>, "text",
              One(About(ECHO), OnOff(WILL \in {WILL, DO})))
    BY <1>1, ClientAnswer
  <2> QED
    BY <1>2, <1>3, <2>1
<1>5. Reads(Client, "text", <<IAC, WILL, SGA>>, "text", vs)
  <2>1. Reads(Client, "text", <<IAC, WILL, SGA>>, "text",
              One(About(SGA), OnOff(WILL \in {WILL, DO})))
    BY <1>1, ClientAnswer
  <2> QED
    BY <1>2, <1>3, <2>1
<1>6. Reads(Client, "text", <<IAC, DONT, LINEMODE>>, "text", vl)
  <2>1. Reads(Client, "text", <<IAC, DONT, LINEMODE>>, "text",
              One(About(LINEMODE), OnOff(DONT \in {WILL, DO})))
    BY <1>1, ClientAnswer
  <2> QED
    BY <1>2, <1>3, <2>1
<1>7. Reads(Client, "text", <<IAC, DO, NAWS>>, "text", vn)
  <2>1. Reads(Client, "text", <<IAC, DO, NAWS>>, "text", One(About(NAWS), OnOff(DO \in {WILL, DO})))
    BY <1>1, ClientAnswer
  <2> QED
    BY <1>2, <1>3, <2>1
<1>8. \A k \in Channels :
        /\ ve[k] = (IF k = ECHO THEN <<"on">> ELSE <<>>)
        /\ vs[k] = (IF k = SGA THEN <<"on">> ELSE <<>>)
        /\ vl[k] = (IF k = LINEMODE THEN <<"off">> ELSE <<>>)
        /\ vn[k] = (IF k = NAWS THEN <<"on">> ELSE <<>>)
  BY DEF One
<1>9. ve \in Saying /\ vs \in Saying /\ vl \in Saying /\ vn \in Saying
  <2>1. "on" \in Words /\ "off" \in Words
    BY DEF Words
  <2> QED
    BY <1>2, <2>1, OneIs
<1> HIDE DEF ve, vs, vl, vn
<1> DEFINE v1 == Join(ve, vs)
           v2 == Join(vl, vn)
           v == Join(v1, v2)
<1>10. Reads(Client, "text", Requests, "text", v) /\ v \in Saying /\ v1 \in Saying /\ v2 \in Saying
  BY <1>4, <1>5, <1>6, <1>7, ClientMore DEF Requests
<1>11. \A k \in Channels : v[k] = (ve[k] \o vs[k]) \o (vl[k] \o vn[k])
  <2>1. \A k \in Channels : v1[k] = ve[k] \o vs[k] /\ v2[k] = vl[k] \o vn[k]
    BY <1>9, JoinIs
  <2>2. \A k \in Channels : v[k] = v1[k] \o v2[k]
    BY <1>10, JoinIs
  <2> QED
    BY <2>1, <2>2
<1> HIDE DEF v1, v2, v
<1>12. <<"on">> \in Seq(Words) /\ <<"off">> \in Seq(Words) /\ <<>> \in Seq(Words)
  BY EmptySeq DEF Words
<1>13. v[ECHO] = <<"on">>
  <2>1. ve[ECHO] = <<"on">> /\ vs[ECHO] = <<>> /\ vl[ECHO] = <<>> /\ vn[ECHO] = <<>>
    BY <1>1, <1>2, <1>8
  <2>2. v[ECHO] = (<<"on">> \o <<>>) \o (<<>> \o <<>>)
    BY <1>2, <1>11, <2>1
  <2> QED
    BY <1>12, <2>2, Alone
<1>14. v[SGA] = <<"on">>
  <2>1. ve[SGA] = <<>> /\ vs[SGA] = <<"on">> /\ vl[SGA] = <<>> /\ vn[SGA] = <<>>
    BY <1>1, <1>2, <1>8
  <2>2. v[SGA] = (<<>> \o <<"on">>) \o (<<>> \o <<>>)
    BY <1>2, <1>11, <2>1
  <2> QED
    BY <1>12, <2>2, Alone
<1>15. v[NAWS] = <<"on">>
  <2>1. ve[NAWS] = <<>> /\ vs[NAWS] = <<>> /\ vl[NAWS] = <<>> /\ vn[NAWS] = <<"on">>
    BY <1>1, <1>2, <1>8
  <2>2. v[NAWS] = (<<>> \o <<>>) \o (<<>> \o <<"on">>)
    BY <1>2, <1>11, <2>1
  <2> QED
    BY <1>12, <2>2, Alone
<1>16. v[LINEMODE] = <<"off">>
  <2>1. /\ ve[LINEMODE] = <<>> /\ vs[LINEMODE] = <<>>
        /\ vl[LINEMODE] = <<"off">> /\ vn[LINEMODE] = <<>>
    BY <1>1, <1>2, <1>8
  <2>2. v[LINEMODE] = (<<>> \o <<>>) \o (<<"off">> \o <<>>)
    BY <1>2, <1>11, <2>1
  <2> QED
    BY <1>12, <2>2, Alone
<1>17. ASSUME NEW k \in {Plain, Stray, BINARY} PROVE v[k] = <<>>
  <2>1. k \in Channels /\ k # ECHO /\ k # SGA /\ k # NAWS /\ k # LINEMODE
    BY <1>1, <1>2
  <2>2. ve[k] = <<>> /\ vs[k] = <<>> /\ vl[k] = <<>> /\ vn[k] = <<>>
    BY <1>8, <2>1
  <2>3. v[k] = (<<>> \o <<>>) \o (<<>> \o <<>>)
    BY <1>11, <2>1, <2>2
  <2> QED
    BY <1>12, <2>3, Alone
<1> QED
  BY <1>10, <1>13, <1>14, <1>15, <1>16, <1>17, NegotiationIs

LEMMA WireStarts == WireInit => WireInv
<1> SUFFICES ASSUME WireInit PROVE WireInv
  OBVIOUS
<1>1. /\ telnet = Negotiated /\ toServer = <<>> /\ due = <<>> /\ owed = <<>>
      /\ toClient = Negotiation
      /\ \E b \in Budgets : peer = [option |-> [o \in Options |-> "no"], left |-> b]
  BY DEF WireInit
<1>2. <<>> \in Seq(Byte) /\ <<>> \in Seq(Words)
  BY EmptySeq
<1>3. /\ telnet \in Contexts /\ telnet.rx = <<>> /\ telnet.state = "normal"
      /\ telnet.pending = Tracked /\ \A o \in Tracked : telnet.enabled[o] = FALSE
  BY <1>1, <1>2 DEF Negotiated, Contexts, ParserStates, Byte
<1>4. /\ peer \in Peers /\ \A o \in Options : peer.option[o] = "no"
  BY <1>1, WireAssumption DEF Peers, PeerStates
<1>5. WireTyped
  BY <1>1, <1>2, <1>3, <1>4 DEF WireTyped, Peers
<1>6. Scanner(telnet) \in Normal /\ Scanner(telnet) \in Scanners
  BY <1>3, ScannerIs DEF Normal
<1>7. Reads(Server, Scanner(telnet), <<>>, Scanner(telnet), Nothing)
  BY <1>6, ServerReads, ReadsNothing
<1>8. PICK v \in Saying :
        /\ Reads(Client, "text", Negotiation, "text", v) /\ v[Plain] = <<>> /\ v[Stray] = <<>>
        /\ v[ECHO] = <<"on">> /\ v[SGA] = <<"on">> /\ v[NAWS] = <<"on">>
        /\ v[LINEMODE] = <<"off">> /\ v[BINARY] = <<>>
  BY NegotiationRead
<1>9. Plain \in Channels /\ Stray \in Channels /\ \A o \in Options : o \in Channels
  BY OptionsAre
<1>10. /\ Nothing \in Saying /\ Nothing[Plain] = <<>> /\ Nothing[Stray] = <<>>
       /\ \A o \in Options : Nothing[o] = <<>>
  BY <1>9, NothingIs
<1>11. Bound(peer.option, telnet, Nothing, v)
  <2>1. ASSUME NEW o \in Tracked
        PROVE  Linked(peer.option[o], telnet.enabled[o], o \in telnet.pending, Nothing[o], v[o])
    <3>1. o \in Options /\ v[o] = <<"on">>
      BY <1>8 DEF Tracked, Options
    <3>2. /\ peer.option[o] = "no" /\ Nothing[o] = <<>>
          /\ telnet.enabled[o] = FALSE /\ o \in telnet.pending
      BY <1>3, <1>4, <1>10, <3>1
    <3> QED
      BY <3>1, <3>2 DEF Linked
  <2>2. ASSUME NEW o \in Refused PROVE Denied(peer.option[o], Nothing[o], v[o])
    <3>1. o \in Options /\ v[o] \in {<<>>, <<"off">>}
      BY <1>8 DEF Refused, Options
    <3>2. \A i \in 1 .. Len(v[o]) : v[o][i] = "off"
      BY <3>1
    <3>3. \A i \in 1 .. Len(<<>>) : <<>>[i] = "on"
      BY EmptySeq
    <3> QED
      BY <1>4, <1>10, <3>1, <3>2, <3>3 DEF Denied
  <2> QED
    BY <1>8, <1>10, <2>1, <2>2 DEF Bound
<1>12. Held(telnet, toServer, toClient, due, telnet.rx, owed, peer.option)
  <2>1. due = telnet.rx \o Nothing[Plain]
    BY <1>1, <1>2, <1>3, <1>10, ConcatEmptySeq
  <2> QED
    BY <1>1, <1>6, <1>7, <1>8, <1>10, <1>11, <2>1 DEF Held
<1> QED
  BY <1>5, <1>12 DEF WireInv

-----------------------------------------------------------------------------
(* The invariant holds, and what follows from it                           *)

LEMMA WireSteps == WireInv /\ [WireNext]_wireVars => WireInv'
<1> SUFFICES ASSUME WireInv, [WireNext]_wireVars PROVE WireInv'
  OBVIOUS
<1>1. ASSUME NEW n \in 1 .. (IF Len(toServer) < RxSize THEN Len(toServer) ELSE RxSize), Handler(n)
      PROVE  WireInv'
  <2>1. toServer \in Seq(Byte)
    BY HeldTyped DEF WireInv
  <2>2. Len(toServer) \in Nat /\ RxSize \in Nat
    BY <2>1, LenProperties, WireAssumption
  <2>3. n \in 1 .. Len(toServer)
    BY <2>2
  <2> QED
    BY <1>1, <2>3, HandlerKeeps
<1>2. CASE ReadByte
  BY <1>2, ReadByteKeeps
<1>3. ASSUME NEW b \in {Text, 255}, WriteByte(b) PROVE WireInv'
  BY <1>3, WriteByteKeeps
<1>4. ASSUME NEW u \in Phrases, Send(u) PROVE WireInv'
  BY <1>4, SendKeeps
<1>5. ASSUME NEW o \in Options, ChangeOption(o) PROVE WireInv'
  BY <1>5, ChangeOptionKeeps
<1>6. CASE ShowByte
  BY <1>6, ShowByteKeeps
<1>7. CASE HearOption
  BY <1>7, HearOptionKeeps
<1>8. CASE UNCHANGED wireVars
  <2>1. /\ telnet' = telnet /\ toServer' = toServer /\ toClient' = toClient /\ due' = due
        /\ owed' = owed /\ peer' = peer
    BY <1>8 DEF wireVars
  <2> QED
    BY <2>1 DEF WireInv, WireTyped
<1> QED
  BY <1>1, <1>2, <1>3, <1>4, <1>5, <1>6, <1>7, <1>8 DEF WireNext

LEMMA PrefixOfBoth ==
  ASSUME NEW s \in Seq(Words), NEW t \in Seq(Words)
  PROVE  IsPrefix(s, s \o t)
<1>1. Len(s) \in Nat /\ Len(t) \in Nat /\ Len(s \o t) = Len(s) + Len(t)
  BY LenProperties, ConcatProperties
<1>2. SubSeq(s, 1, Len(s)) = SubSeq(s \o t, 1, Len(s))
  <2>1. CASE s = <<>>
    BY <1>1, <2>1, SubSeqEmpty
  <2>2. CASE s # <<>>
    <3>1. 1 \in 1 .. Len(s) /\ Len(s) \in 1 .. Len(s)
      BY <1>1, <2>2, EmptySeq
    <3> QED
      BY <3>1, SubSeqOfConcat1
  <2> QED
    BY <2>1, <2>2
<1> QED
  BY <1>1, <1>2 DEF IsPrefix

LEMMA WireDecodes == WireInv => TextIsDecoded
<1> SUFFICES ASSUME WireInv PROVE TextIsDecoded
  OBVIOUS
<1>1. telnet \in Contexts
  BY DEF WireInv, WireTyped
<1>2. PICK q \in Normal, w \in Saying, v \in Saying :
        /\ Reads(Server, Scanner(telnet), toServer, q, w) /\ due = telnet.rx \o w[Plain]
        /\ Reads(Client, "text", toClient, "text", v) /\ owed = v[Plain]
  BY DEF WireInv, Held
<1>3. Plain \in Channels /\ telnet.rx \in Seq(Words) /\ \A u \in Saying : u[Plain] \in Seq(Words)
  <2>1. Byte \subseteq Words /\ telnet.rx \in Seq(Byte)
    BY <1>1 DEF Byte, Words, Contexts
  <2> QED
    BY <2>1, SeqMonotonic, OptionsAre DEF Saying
<1>4. IsPrefix(telnet.rx, due)
  BY <1>2, <1>3, PrefixOfBoth
<1>5. toServer = <<>> => telnet.rx = due /\ telnet.state = "normal"
  <2> SUFFICES ASSUME toServer = <<>> PROVE telnet.rx = due /\ telnet.state = "normal"
    OBVIOUS
  <2>1. Scanner(telnet) \in Scanners /\ Scanner(telnet).state = telnet.state
    BY <1>1, ScannerIs
  <2>2. q = Scanner(telnet) /\ w = Nothing
    BY <1>2, <2>1, ServerReads, ReadsNothing
  <2>3. w[Plain] = <<>>
    BY <1>3, <2>2, NothingIs
  <2>4. due = telnet.rx
    BY <1>2, <1>3, <2>3, ConcatEmptySeq
  <2> QED
    BY <2>1, <2>2, <2>4 DEF Normal
<1>6. ASSUME Len(toClient) >= 2, toClient[1] # IAC \/ toClient[2] = IAC
      PROVE  owed # <<>> /\ owed[1] = toClient[1]
  <2>1. toClient \in Seq(Byte) /\ toClient # <<>>
    BY <1>2, <1>6, EmptySeq DEF Reads
  <2>2. PICK u \in Saying : v = Join(One(Plain, toClient[1]), u)
    BY <1>2, <1>6, <2>1, ShownByte
  <2>3. toClient[1] \in Words
    <3>1. toClient[1] \in Byte
      BY <2>1, Consumed
    <3> QED
      BY <3>1 DEF Byte, Words
  <2>4. owed = <<toClient[1]>> \o u[Plain]
    BY <1>2, <1>3, <2>2, <2>3, JoinOne
  <2>5. u[Plain] \in Seq(Words)
    BY <1>3
  <2> QED
    BY <2>3, <2>4, <2>5, Firsts
<1>7. toClient = <<>> => owed = <<>>
  <2> SUFFICES ASSUME toClient = <<>> PROVE owed = <<>>
    OBVIOUS
  <2>1. "text" \in Client.states
    BY ClientReads DEF ClientStates
  <2>2. v = Nothing
    BY <1>2, <2>1, ClientReads, ReadsNothing
  <2> QED
    BY <1>2, <1>3, <2>2, NothingIs
<1> QED
  BY <1>4, <1>5, <1>6, <1>7 DEF TextIsDecoded

LEMMA WireAgrees == WireInv => OptionsAgree
<1> SUFFICES ASSUME WireInv, toServer = <<>>, toClient = <<>>
             PROVE  /\ telnet.pending = {}
                    /\ \A o \in Options :
                         peer.option[o] = IF o \in Tracked /\ telnet.enabled[o] THEN "yes" ELSE "no"
  BY DEF OptionsAgree
<1>1. telnet \in Contexts
  BY DEF WireInv, WireTyped
<1>2. PICK q \in Normal, w \in Saying, v \in Saying :
        /\ Reads(Server, Scanner(telnet), toServer, q, w)
        /\ Reads(Client, "text", toClient, "text", v)
        /\ Bound(peer.option, telnet, w, v)
  BY DEF WireInv, Held
<1>3. w = Nothing /\ v = Nothing
  <2>1. Scanner(telnet) \in Scanners
    BY <1>1, ScannerIs
  <2>2. w = Nothing
    BY <1>2, <2>1, ServerReads, ReadsNothing
  <2>3. "text" \in Client.states
    BY ClientReads DEF ClientStates
  <2>4. v = Nothing
    BY <1>2, <2>3, ClientReads, ReadsNothing
  <2> QED
    BY <2>2, <2>4
<1>4. /\ Options = Tracked \cup Refused /\ Tracked \cap Refused = {}
      /\ \A o \in Options : w[o] = <<>> /\ v[o] = <<>>
  <2>1. Options = Tracked \cup Refused
    BY DEF Options
  <2>2. Tracked \cap Refused = {}
    BY OptionsAre
  <2>3. \A o \in Options : o \in Channels
    BY OptionsAre
  <2>4. \A o \in Options : Nothing[o] = <<>>
    BY <2>3, NothingIs
  <2> QED
    BY <1>3, <2>1, <2>2, <2>4
<1>5. ASSUME NEW o \in Tracked
      PROVE  o \notin telnet.pending /\ peer.option[o] = IF telnet.enabled[o] THEN "yes" ELSE "no"
  <2>1. Linked(peer.option[o], telnet.enabled[o], o \in telnet.pending, <<>>, <<>>)
    BY <1>2, <1>4 DEF Bound
  <2> QED
    BY <2>1, Shorts DEF Linked
<1>6. ASSUME NEW o \in Refused PROVE peer.option[o] = "no"
  <2>1. Denied(peer.option[o], <<>>, <<>>)
    BY <1>2, <1>4 DEF Bound
  <2> QED
    BY <2>1 DEF Denied
<1>7. telnet.pending = {}
  <2>1. telnet.pending \subseteq Tracked
    BY <1>1 DEF Contexts
  <2> QED
    BY <1>5, <2>1
<1> QED
  BY <1>4, <1>5, <1>6, <1>7

\* The invariant, whatever is sent and however the bytes are cut: what lies before the server
\* spells the text still due and leaves the parser outside a command; what lies before the client
\* spells the text still owed; the option requests under way explain what both ends hold.
THEOREM WireIsKept == WireSpec => []WireInv
<1> QED
  BY WireStarts, WireSteps, PTL DEF WireSpec

\* The session reads what the user meant and the user sees what the session wrote, in order:
\* cli_telnet_handler loses no text between pieces, requests, window sizes and broken blocks.
THEOREM TextSurvives == WireSpec => []TextIsDecoded
<1> QED
  BY WireIsKept, WireDecodes, PTL

\* With nothing under way both ends agree on every option and none awaits an answer: the
\* negotiation settles, also when requests cross.
THEOREM NegotiationSettles == WireSpec => []OptionsAgree
<1> QED
  BY WireIsKept, WireAgrees, PTL

===========================================================================
