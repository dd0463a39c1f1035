SPECIFICATION Spec
CONSTANTS
  Slots = {w1, w2}
  Jobs = {"a", "c"}
  IterOf <- TwoThenOne
  Globals <- MCGlobals
  MAX_TRIES = 2
  Avail = 1
  Modulus = 8
  NoSlot = NoSlot
  NoConn = NoConn
  Unwritable = {"a", "globals.3"}
  MaxFaults = 1
  MaxCrashes = 1

INVARIANTS FailureHasCause ExecutionAwaited NothingLeft
PROPERTIES JobsReturn
\* The program stops when every job is merged or the router was terminated.
CHECK_DEADLOCK FALSE
