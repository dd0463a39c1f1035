SPECIFICATION Spec
CONSTANTS
  Slots = {w1, w2}
  Jobs = {"a", "b", "c"}
  IterOf <- TwoThenOne
  Globals <- MCGlobals
  MAX_TRIES = 2
  Avail = 1
  Modulus = 8
  NoSlot = NoSlot
  NoConn = NoConn
  Unwritable = {"a", "b", "c", "globals.0", "globals.3"}
  MaxFaults = 0
  MaxCrashes = 1
INVARIANTS TypeOK OneExecution ResultIsOwn
\* The program stops when every job is merged or the router was terminated.
CHECK_DEADLOCK FALSE
