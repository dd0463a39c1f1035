SPECIFICATION RSpec
CONSTANTS
  Size <- MCSize
  Names <- MCNames
  MTerms <- MCMTerms
  Rules = {}
  Designs <- MCDesigns
  Moves = {1}
  MaxEdits = 3
INVARIANTS RoutesSound NoDeadNets CrashHasCause
\* The program ends when it crashes.
CHECK_DEADLOCK FALSE
