----------------------------- MODULE MCDispatch -----------------------------
(***************************************************************************)
(* Small instances of Dispatch for TLC.                                     *)
(***************************************************************************)
EXTENDS Dispatch, TLC

CONSTANTS b1, b2, b3, d1, d2, y1, y2, q1, q2, r1, r2

Grams == [b \in Bundles |-> 1]

(* Bundles are interchangeable too where all or none of them are legacy ones. *)
Symmetry ==
    Permutations(Dispatches) \cup Permutations(DispatchSlots)
    \cup Permutations(StockSlots) \cup Permutations(Locations)
    \cup (IF Legacy \in {{}, Bundles} THEN Permutations(Bundles) ELSE {})
=============================================================================
