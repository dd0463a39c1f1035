SPECIFICATION Spec
CONSTANTS
  Size <- MCSize
  Names <- MCNames
  MTerms <- MCMTerms
  Rules = {}
INVARIANTS TypeOK ListsSound NoDangling IteratorAtHead PinsInOrder
PROPERTIES SwapKeepsPins ListsRefined
