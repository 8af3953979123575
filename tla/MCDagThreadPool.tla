-------------------------- MODULE MCDagThreadPool --------------------------
EXTENDS DagThreadPool

CONSTANTS w1, w2, a, b, c, none

\* Task a submits task b, as a recall node with one dependent does.
MCChild == [t \in Closures |-> IF t = a THEN b ELSE none]
=============================================================================
