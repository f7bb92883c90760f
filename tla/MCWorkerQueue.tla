---------------------------- MODULE MCWorkerQueue ----------------------------
(***************************************************************************)
(* Instances of WorkerQueue for TLC: a commitment and a curiosity.          *)
(***************************************************************************)
EXTENDS WorkerQueue

CONSTANTS m1, q1

MCOriginKind ==
  [u \in Undertakings |-> IF u = m1 THEN "ASHLEY_COMMITMENT" ELSE "ASHLEY_CURIOSITY"]
==============================================================================
