---------------------------- MODULE MCDocCorpus ----------------------------
EXTENDS DocCorpus, TLC

CONSTANTS d1, d2, v1, v2, c1, c2, b1, main, none

\* One document comes with the repository.
OneSample == [d \in Docs |-> IF d = d1 THEN v1 ELSE none]

\* The two clients are interchangeable; no property of a run with symmetry is temporal.
ThreadSymmetry == Permutations(Clients)
=============================================================================
