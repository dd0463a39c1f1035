----------------------------- MODULE MCdbJournal -----------------------------
(***************************************************************************)
(* An instance of dbJournal for TLC: two nets, two block terminals and two *)
(* instances of one or two terminals.  The copies start from a block with  *)
(* an instance and a terminal on one net, or from one in which an object   *)
(* of each table was destroyed, so that the free lists are out of order.   *)
(***************************************************************************)
EXTENDS dbJournal

MCSize == "net" :> 2 @@ "bterm" :> 2 @@ "iterm" :> 3 @@ "inst" :> 2

MCNames == "net" :> {"a", "b"} @@ "bterm" :> {"p"} @@ "inst" :> {"i", "j"}

MCMTerms == [buf |-> <<"a", "z">>, swapped |-> <<"z", "a">>, tie |-> <<"y">>]

Net(k) == <<"net", k>>
ITerm(k) == <<"iterm", k>>

\* Net a with instance i of buf, both terminals, and terminal p.
Placed ==
  LET nets == Net_create(Empty, "a")
      inst == Inst_create(nets, "buf", "i")
      wired == connect(connect(inst, ITerm(1), Net(1)), ITerm(2), Net(1))
  IN BTerm_create(wired, Net(1), "p")

\* Nets a and b and instances i and j were made, a and i destroyed.
Reused ==
  LET nets == Net_create(Net_create(Empty, "a"), "b")
      insts == Inst_create(Inst_create(nets, "buf", "i"), "tie", "j")
      wired == connect(connect(insts, ITerm(1), Net(2)), ITerm(3), Net(2))
  IN Inst_destroy(Net_destroy(wired, Net(1)), <<"inst", 1>>)

MCImages == {Placed, Reused}
=============================================================================
