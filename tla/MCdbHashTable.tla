--------------------------- MODULE MCdbHashTable ---------------------------
(* The instance of dbHashTable for TLC. *)
EXTENDS dbHashTable, TLC

CONSTANTS n1, n2, n3, n4, n5, n6, a, b, c

MCObjects == {n1, n2, n3, n4, n5, n6}

MCNames == {a, b, c}

\* a and c share a chain in tables of one and two chains only, a and b in
\* tables of one chain.
MCHash == (a :> 4) @@ (b :> 1) @@ (c :> 2)

\* Objects are only told apart by their names and places.
Symmetry == Permutations(MCObjects)
=============================================================================
