\* Two agents of one checkout, notifies, broadcasts and one ask.
SPECIFICATION Spec
CONSTANTS
  c1 = c1  c2 = c2  a1 = a1  a2 = a2  l1 = l1  l2 = l2
  Conns = {c1, c2}
  Asks = {a1}
  Labels = {l1, l2}
  Tags = {t1, t2, t3}
  NoConn = NoConn
  NoLabel = NoLabel
  NoTag = NoTag
  Owner <- OneAgentAsks
  Preferred <- SamePreferred
  Candidates <- OtherCandidate
  UserMessages <- UntaggedAndTagged
  QueueLimit = 1
  NotifyLimit = 1
  AgentLines = {"Notify", "CheckMessages"}
  MaxInbox = 1
SYMMETRY TagSymmetry
INVARIANTS
  TypeOK
  TagsAreUnique
  RegistryMatchesHandlers
  ThreadsDieWithTheirAgent
  MessagesWaitForTheirAgent
  RegisteredIsServed
CHECK_DEADLOCK FALSE
