--------------------------- MODULE MCCliEndpoints ---------------------------
(***************************************************************************)
(* Instances for TLC of the two local endpoints: the UNIX socket and the   *)
(* named pipes.  A behaviour is about one of them; the other stays as it   *)
(* was initially.                                                          *)
(***************************************************************************)
EXTENDS CliSocket, CliPipe

VARIABLE part

MCInit ==
  /\ SocketInit /\ PipeInit
  /\ \/ part = "socket" /\ fifo["in"] = None
     \/ part = "pipe" /\ path = NoFile

\* Clients are alike, and no fairness is about them: it does not matter who is first.
ClientsInOrder ==
  LET first == CHOOSE c \in PipeClients : TRUE
  IN  pclient'[first].pc = "idle" => \A c \in PipeClients : pclient'[c].pc = "idle"

\* Bound: two clients may meet at the first FIFOs and stay while the second are made, but
\* who comes later comes alone.
LateClientIsAlone ==
  listens = MaxListens =>
    \A c, d \in PipeClients :
      pclient[c].pc = "idle" /\ pclient'[c].pc # "idle" /\ c # d => pclient[d].pc \in {"idle", "done"}

MCNext ==
  /\ UNCHANGED part
  /\ \/ part = "socket" /\ SocketNext /\ UNCHANGED pipeVars
     \/ part = "pipe" /\ PipeNext /\ ClientsInOrder /\ LateClientIsAlone /\ UNCHANGED socketVars

\* In the part that does not move no fair step is ever enabled: all servers are off.
MCSpec ==
  /\ MCInit /\ [][MCNext]_<<socketVars, pipeVars, part>>
  /\ SocketFairness /\ PipeFairness

=============================================================================
