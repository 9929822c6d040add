\* A call that waits for a read loop that is gone.
SPECIFICATION Spec
CONSTANTS
  Asks = {a1}
  Notifies = {n1}
  Checks = {k1}
  Hello = h
INVARIANT NoCallIsStranded
CHECK_DEADLOCK FALSE
