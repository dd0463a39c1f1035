--------------------------- MODULE MCWorkerProcess ---------------------------
(***************************************************************************)
(* Instance of WorkerProcess for TLC: three connections to one process, of *)
(* which two carry the same job (a retry), over two globals files.         *)
(***************************************************************************)
EXTENDS WorkerProcess

MCJobOf(c) == IF c = "c3" THEN "j2" ELSE "j1"

MCPathOf(j) == IF j = "j1" THEN "g1" ELSE "g2"
=============================================================================
