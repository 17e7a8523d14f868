------------------------------ MODULE MCCount ------------------------------
EXTENDS Count, TLC

Symmetry == Permutations(Yards) \cup Permutations(Counts) \cup Permutations(Slots)
=============================================================================
