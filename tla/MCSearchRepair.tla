--------------------------- MODULE MCSearchRepair ---------------------------
(* An instance of SearchRepair for TLC. *)
EXTENDS SearchRepair

\* Two gcells at the corner where four clips of iteration 0 meet: one clip's
\* violation lies in the drc box of the others.
CornerSites == {<<6, 6>>, <<7, 7>>}
=============================================================================
