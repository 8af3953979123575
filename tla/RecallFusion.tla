---------------------------- MODULE RecallFusion ----------------------------
(***************************************************************************)
(* lib/recall/recall_fusion.cpp: the lists of the recall sources become    *)
(* one, in the order of the sums of their reciprocal ranks.  std::sort may *)
(* put equals in any order, so what a sort returns is a set of lists.      *)
(***************************************************************************)
EXTENDS Integers, Sequences, FiniteSets, SequencesExt, FiniteSetsExt

CONSTANTS
    RrfK,       \* k
    MaxTotal    \* max_total

ASSUME FusionAssumption == RrfK \in Nat /\ MaxTotal \in Nat

\* What std::sort by descending score, and resize(n), leave of the domain of
\* the scores.
BestOf(score, n) ==
    {SubSeq(q, 1, IF n < Len(q) THEN n ELSE Len(q)) :
        q \in {p \in SetToSeqs(DOMAIN score) :
                  \A i, j \in DOMAIN p : i < j => score[p[i]] >= score[p[j]]}}

\* The sum of 1 / (k + rank + 1) over the places of a document in the lists
\* (rank counts from 0), times a common multiple of the denominators.
FusedScores(lists) ==
    LET longest == Max({0} \cup {Len(lists[i]) : i \in DOMAIN lists})
        common[r \in 0..longest] == IF r = 0 THEN 1 ELSE common[r - 1] * (RrfK + r)
        part == [p \in (DOMAIN lists) \X (1..longest) |-> common[longest] \div (RrfK + p[2])]
        places(d) == {p \in (DOMAIN lists) \X (1..longest) :
                         p[2] \in DOMAIN lists[p[1]] /\ lists[p[1]][p[2]] = d}
    IN  [d \in UNION {ToSet(lists[i]) : i \in DOMAIN lists} |->
            MapThenSumSet(LAMBDA p : part[p], places(d))]

FuseByRRF(lists) == BestOf(FusedScores(lists), MaxTotal)
=============================================================================
