--------------------------- MODULE MCLoadBalancer ---------------------------
(***************************************************************************)
(* Instances of LoadBalancer for TLC: up to three addWorker() calls, two   *)
(* of them with the same address.  A balancer may be started with any of   *)
(* them: with none, with one worker, with distinct addresses, and with one *)
(* address registered twice.                                               *)
(***************************************************************************)
EXTENDS LoadBalancer, TLC

CONSTANTS w1, w2, w3

\* w1 and w2 are one address registered twice.
Addresses == w1 :> "host1" @@ w2 :> "host1" @@ w3 :> "host3"

ConnSymmetry == Permutations(Conns)
=============================================================================
