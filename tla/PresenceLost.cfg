\* A command and the prompt hook of a session rewrite the file at once.
SPECIFICATION Spec
CONSTANTS
  Commands = {c1, c2}
  Sessions = {s1}
  Horizon = 2
  Times = {1, 2}
  Clock = {2}
  Verbs = {"now", "in", "at"}
INVARIANTS
  ScheduleSurvives
