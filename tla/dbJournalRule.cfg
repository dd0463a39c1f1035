\* The code breaks the assertion that redo() makes after each record.
SPECIFICATION EcoSpec
CONSTANTS
  Size <- MCSize
  Names <- MCNames
  MTerms <- MCMTerms
  Rules = {"r"}
  Images <- MCImages
  Origins = {1}
  Orients = {"MX"}
  MaxCalls = 2
INVARIANTS RecordsAligned
\* The exchange ends with a replay that is lost or a last commit.
CHECK_DEADLOCK FALSE
