SPECIFICATION Spec
CONSTANTS
  w1 = w1
  w2 = w2
  w3 = w3
  Slots = {w1, w2, w3}
  Endpoint <- Addresses
  Conns = {c1, c2, c3, c4}
  Avail = 1
  Modulus = 8
  NoSlot = NoSlot
SYMMETRY ConnSymmetry
INVARIANTS TypeOK PriorityAccounting
PROPERTIES LeastLoaded OverloadAttracts
\* The program stops when the balancer went down or every client is served.
CHECK_DEADLOCK FALSE
