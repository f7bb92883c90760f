---------------------------- MODULE MCPrivateBudget ----------------------------
(***************************************************************************)
(* Instances of PrivateBudget for TLC: a policy of one thought per window    *)
(* that may be revised to two.                                              *)
(***************************************************************************)
EXTENDS PrivateBudget, TLC

CONSTANTS p1, p2

MCLimit == <<1, 2>>

\* Admissions are interchangeable.
MCSymmetry == Permutations({p1, p2})
================================================================================
