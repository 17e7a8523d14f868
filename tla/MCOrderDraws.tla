---------------------------- MODULE MCOrderDraws ----------------------------
(***************************************************************************)
(* Small instances of OrderDraws for TLC.                                   *)
(***************************************************************************)
EXTENDS OrderDraws, TLC

CONSTANTS b1, b2, b3, o1, o2, c1, c2, d1, d2, q1, q2

OneKg == [b \in Bundles |-> 1]

OrderSymmetry ==
    Permutations(Bundles) \cup Permutations(Orders) \cup Permutations(Customers)
    \cup Permutations(Dispatches) \cup Permutations(Slots)
=============================================================================
