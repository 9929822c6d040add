\* Two daemon processes, two MCP servers and two stop commands.
SPECIFICATION FairSpec
CONSTANTS
  Daemons = {d1, d2}
  Clients = {c1, c2}
  Stops = {s1, s2}
  NoDaemon = none
INVARIANTS
  TypeOK
  CalmIsSingle
  ServerIsReachable
  StopTellsTruth
PROPERTIES
  DrainedDaemonEnds
CHECK_DEADLOCK FALSE
