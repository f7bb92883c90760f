---------------------------- MODULE MCWorkerTurns ----------------------------
(***************************************************************************)
(* Instances of WorkerTurns for TLC.                                        *)
(***************************************************************************)
EXTENDS WorkerTurns, TLC

CONSTANTS o1, o2, o3, m1, q1, q2

MCOriginKind == [u \in Undertakings |->
  CASE u \in {o1, o2, o3} -> "OWNER_REQUEST"
    [] u = m1 -> "ASHLEY_COMMITMENT"
    [] u \in {q1, q2} -> "ASHLEY_CURIOSITY"]

\* Undertakings of one origin are interchangeable.
MCSymmetry == Permutations({o1, o2, o3}) \cup Permutations({q1, q2})
==============================================================================
