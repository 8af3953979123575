--------------------------- MODULE MCEventHandler ---------------------------
EXTENDS EventHandler, TLC

Ev(u, d, y, q) == [uid |-> u, doc |-> d, type |-> y, query |-> q, biz |-> "search"]

\* Two clicks and a like of one user, a click of another, and an event
\* without a user that is only logged.
MCRequests == {
    Ev("u1", "d1", "click", "q"),
    Ev("u1", "d2", "click", ""),
    Ev("u1", "d1", "like", ""),
    Ev("u2", "d1", "click", ""),
    Ev("", "d2", "share", "")}

MCEvents == {[biz |-> "search", type |-> y] : y \in {"impression", "click", "like"}}
SymThreads == Permutations(Threads)
=============================================================================
