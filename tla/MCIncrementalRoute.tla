------------------------- MODULE MCIncrementalRoute -------------------------
(***************************************************************************)
(* An instance of IncrementalRoute for TLC.  The design has two nets, an   *)
(* instance from one to the other and a terminal on the first; there is    *)
(* room for a second instance.                                             *)
(***************************************************************************)
EXTENDS IncrementalRoute, TLC

MCSize == "net" :> 2 @@ "bterm" :> 1 @@ "iterm" :> 3 @@ "inst" :> 2

MCNames == "net" :> {"n"} @@ "bterm" :> {"p"} @@ "inst" :> {"i", "diode"}

MCMTerms == [buf |-> <<"a", "z">>, diode |-> <<"a">>]

ITerm(k) == <<"iterm", k>>
Net(k) == <<"net", k>>

Buffered ==
  LET nets == Net_create(Net_create(Empty, "n"), "n")
      inst == Inst_create(nets, "buf", "i")
      wired == connect(connect(inst, ITerm(1), Net(1)), ITerm(2), Net(2))
  IN BTerm_create(wired, Net(1), "p")

MCDesigns == {Buffered}
=============================================================================
