SPECIFICATION EcoSpec
CONSTANTS
  Size <- MCSize
  Names <- MCNames
  MTerms <- MCMTerms
  Rules = {"r"}
  Images <- MCImages
  Origins = {1}
  Orients = {"MX"}
  MaxCalls = 3
INVARIANTS ReplaySound CommitReproduces RejournalsSame
\* The exchange ends with a replay that is lost or a last commit.
CHECK_DEADLOCK FALSE
