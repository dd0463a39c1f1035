\* All 65 calls of searchRepair() on a grid of 9 x 12 gcells: 2x2 to 4x5 clips,
\* with violations where clips meet, two threads and batches of two.
SPECIFICATION Spec
CONSTANTS
  XCount = 9
  YCount = 12
  Sites <- CornerSites
  BATCHSIZE = 2
  MAX_THREADS = 2
  END_ITERATION = 80
  dist_on = TRUE
INVARIANTS TypeOK InitCountCurrent GlobalsCurrent ClipsPartition
PROPERTIES RepairNeverWorsens
\* The program stops when main() has returned.
CHECK_DEADLOCK FALSE
