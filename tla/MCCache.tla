------------------------------ MODULE MCCache ------------------------------
EXTENDS Cache, TLC

Symmetry == Permutations(Threads) \cup Permutations(Keys) \cup Permutations(Values)
=============================================================================
