\* Every set of open threads over the four two-letter tags.
SPECIFICATION Spec
CONSTANTS
  Letters = {a, b}
  TagLen = 2
  Tags <- Words
  Labels = {l1}
  NoTag = NoTag
  NoLabel = NoLabel
INVARIANTS
  FullTagReachesItsThread
  NeverGuesses
  BroadcastHasAudience
  NotifiesStayAside
