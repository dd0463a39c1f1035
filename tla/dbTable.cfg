SPECIFICATION Spec
CONSTANTS
  PageSize = 2
  MaxPages = 3
INVARIANTS FreeListExact PagesExact IterationExact
