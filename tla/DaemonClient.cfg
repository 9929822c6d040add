\* Two asks and a check_messages of one MCP server.
SPECIFICATION FairSpec
CONSTANTS
  Asks = {a1, a2}
  Notifies = {}
  Checks = {k1}
  Hello = h
INVARIANTS
  TypeOK
  OpenAskHasCaller
  ByeLeavesNoAsk
  WaitingCallIsInTable
  DisconnectIsReal
PROPERTIES
  EveryCallEnds
CHECK_DEADLOCK FALSE
