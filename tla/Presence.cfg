\* Two commands, one session and a daemon, over a full minute and a moment in it.
SPECIFICATION FairSpec
CONSTANTS
  Commands = {c1, c2}
  Sessions = {s1}
  Horizon = 2
  Times = {1, 2}
  Clock = {1}
  Verbs = {"now", "in", "at", "back", "backAt", "all"}
INVARIANTS
  TypeOK
  FileIsAsMeant
  NoticesAreTrue
PROPERTIES
  NudgesAreTrue
  MomentsAreAnnounced
  TurnsEnd
