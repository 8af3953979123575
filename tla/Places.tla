-------------------------------- MODULE Places --------------------------------
(***************************************************************************)
(* What a loop leaves that goes through a list and copies the elements     *)
(* that pass a test: the elements at a set of places, in their order.      *)
(***************************************************************************)
EXTENDS Integers, Sequences, FiniteSets

\* A finite set of places in increasing order.
InOrder(places) ==
    [k \in 1..Cardinality(places) |->
        CHOOSE i \in places : Cardinality({j \in places : j <= i}) = k]

\* The elements of s at a set of places, in their order.
AtPlaces(s, places) ==
    LET order == InOrder(places)
    IN  [k \in DOMAIN order |-> s[order[k]]]
=============================================================================
