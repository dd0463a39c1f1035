----------------------------- MODULE MCdbNetlist -----------------------------
(***************************************************************************)
(* An instance of dbNetlist for TLC: two nets, one block terminal and one  *)
(* instance with up to three terminals; two masters have the same pins in  *)
(* different order, and the third is not equivalent to them.                           *)
(***************************************************************************)
EXTENDS dbNetlist, TLC

MCSize == "net" :> 2 @@ "bterm" :> 1 @@ "iterm" :> 3 @@ "inst" :> 1

MCNames == "net" :> {"n"} @@ "bterm" :> {"p"} @@ "inst" :> {"i"}

MCMTerms == [and2 |-> <<"a", "b", "z">>, nand2 |-> <<"z", "a", "b">>,
             tie |-> <<"y">>]
=============================================================================
