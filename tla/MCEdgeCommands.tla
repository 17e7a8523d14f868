--------------------------- MODULE MCEdgeCommands ---------------------------
(***************************************************************************)
(* Instances of EdgeCommands for TLC.                                       *)
(***************************************************************************)
EXTENDS EdgeCommands, TLC

(* The slots of a kind only carry requests of the node, so they may be       *)
(* permuted where no liveness is checked.                                    *)
SlotSymmetry ==
    Permutations(PrintSlots) \cup Permutations(PollSlots)
        \cup Permutations(AckSlots) \cup Permutations(EventSlots)
=============================================================================
