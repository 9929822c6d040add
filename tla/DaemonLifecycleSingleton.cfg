\* Two MCP servers that start a daemon at the same time.
SPECIFICATION Spec
CONSTANTS
  Daemons = {d1, d2}
  Clients = {c1, c2}
  Stops = {}
  NoDaemon = none
INVARIANTS
  Singleton
CHECK_DEADLOCK FALSE
