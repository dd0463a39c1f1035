------------------------ MODULE MCDistributedRouting ------------------------
(***************************************************************************)
(* Instances of DistributedRouting for TLC: two iterations with a globals  *)
(* file each, two clips in the first and one in the second.                *)
(***************************************************************************)
EXTENDS DistributedRouting

MCGlobals == <<"globals.0", "globals.3">>

TwoThenOne == [j \in Jobs |-> IF j = "c" THEN 2 ELSE 1]
=============================================================================
