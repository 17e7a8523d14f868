----------------------------- MODULE MCEdgeNode -----------------------------
(***************************************************************************)
(* Instances of EdgeNode for TLC.                                           *)
(***************************************************************************)
EXTENDS EdgeNode, TLC

(* Installations and slots are interchangeable. *)
NodeSymmetry ==
    Permutations(Installs) \cup Permutations(EnrolSlots) \cup Permutations(ConfirmSlots)
        \cup Permutations(PollSlots) \cup Permutations(StageSlots)
=============================================================================
