--------------------------- MODULE SearchableDocs ---------------------------
(***************************************************************************)
(* What the keyword index promises to those who search it: a document is   *)
(* found by exactly the terms of what was last added under its id, until   *)
(* it is removed, and reading back a saved index finds what was found when *)
(* it was saved.  InvertedIndex implements it.                             *)
(***************************************************************************)
CONSTANTS Docs, Terms

VARIABLES
    matches,    \* the terms that find each document
    kept        \* matches in the saved index: a set of at most one

vars == <<matches, kept>>


Init ==
    /\ matches = [d \in Docs |-> {}]
    /\ kept = {}

Put(d, terms) == matches' = [matches EXCEPT ![d] = terms] /\ UNCHANGED kept

Drop(d) == matches' = [matches EXCEPT ![d] = {}] /\ UNCHANGED kept

DropAll == matches' = [d \in Docs |-> {}] /\ UNCHANGED kept

Keep == kept' = {matches} /\ UNCHANGED matches

Recover == \E m \in kept : matches' = m /\ UNCHANGED kept

Next ==
    \/ \E d \in Docs : Drop(d) \/ \E terms \in SUBSET Terms : Put(d, terms)
    \/ DropAll
    \/ Keep
    \/ Recover

Spec == Init /\ [][Next]_vars
=============================================================================
