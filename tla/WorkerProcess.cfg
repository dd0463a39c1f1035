SPECIFICATION Spec
CONSTANTS
  Procs = {p1}
  Conns = {"c1", "c2", "c3"}
  Jobs = {"j1", "j2"}
  JobOf <- MCJobOf
  PathOf <- MCPathOf
  Paths = {"g1", "g2"}
  NoConn = NoConn
  NoProc = NoProc
INVARIANTS TypeOK GlobalsMatchPath
PROPERTIES ThreadsEnd
\* The process has died or every connection is closed.
CHECK_DEADLOCK FALSE
