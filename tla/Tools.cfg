\* Two setup or install-hooks commands; or two checkouts that are released.
SPECIFICATION ToolsSpec
CONSTANTS
  Commands = {p1, p2}
  Bins = {b1, b2}
  Own = {o1}
  NoCommand = NoCommand
  Clones = {m1, m2}
  MaxVersion = 3
  MaxWork = 2
SYMMETRY ProcessSymmetry
INVARIANTS
  InstallKeepsFaith
  ReleasesAreOrderly
CHECK_DEADLOCK FALSE
