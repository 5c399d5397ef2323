SPECIFICATION MCSpec
CONSTANTS
  Servers = {s1, s2}
  Clients = {c1, c2}
  Others = {c2}
  Lines = {2}
  Backlog = 1
  MaxStarts = 2
  PipeServers = {p1, p2}
  PipeClients = {q1, q2}
  MaxListens = 2
CHECK_DEADLOCK FALSE
INVARIANTS
  OneClientPerSession
