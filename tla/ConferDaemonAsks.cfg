\* One agent with two asks: every race of reply, timeout, withdrawal and
\* disconnect.
SPECIFICATION FairSpec
CONSTANTS
  c1 = c1  c2 = c2  a1 = a1  a2 = a2  l1 = l1  l2 = l2
  Conns = {c1}
  Asks = {a1, a2}
  Labels = {l1, l2}
  Tags = {t1, t2}
  NoConn = NoConn
  NoLabel = NoLabel
  NoTag = NoTag
  Owner <- OneAgentAsks
  Preferred <- SamePreferred
  Candidates <- OtherCandidate
  UserMessages <- UntaggedAndTagged
  QueueLimit = 1
  NotifyLimit = 1
  AgentLines = {}
  MaxInbox = 2
INVARIANTS
  AnsweredAtMostOnce
  PendingAskCanTimeOut
  PendingAskHasAgent
  ClosingDmTellsOutcome
PROPERTIES
  EveryAskReturns
  ImplementsLifecycle
CHECK_DEADLOCK FALSE
