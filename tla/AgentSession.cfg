\* Any two of two asks, a notify and a check_messages, and the real daemon.
SPECIFICATION MCSpec
CONSTANTS
  t1 = t1
  t2 = t2
  a1 = a1
  a2 = a2
  MaxCalls = 2
  Asks = {a1, a2}
  Notifies = {n1}
  Checks = {k1}
  Hello = h
  Conn = c1
  NoConn = NoConn
  Label = l1
  NoLabel = NoLabel
  Tags = {t1, t2}
  NoTag = NoTag
  UserMessages <- OnlyUntagged
  QueueLimit = 1
  NotifyLimit = 1
INVARIANTS
  BothEndsAgree
PROPERTIES
  ImplementsDaemon
  ImplementsClient
  WhatIsSentArrives
  DepartedAgentIsForgotten
CHECK_DEADLOCK FALSE
