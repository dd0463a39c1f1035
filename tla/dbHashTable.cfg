\* Six nets of three names; with chains of two the table has one, two and
\* four chains.
SPECIFICATION Spec
CONSTANTS
  n1 = n1 n2 = n2 n3 = n3 n4 = n4 n5 = n5 n6 = n6
  a = a b = b c = c
  Objects <- MCObjects
  Names <- MCNames
  Hash <- MCHash
  CHAIN_LENGTH = 2
SYMMETRY Symmetry
INVARIANTS ChainsSound
PROPERTIES NewestFound NoThrashing
