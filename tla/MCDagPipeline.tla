--------------------------- MODULE MCDagPipeline ---------------------------
EXTENDS DagPipeline

CONSTANTS r1, w1, w2

\* Every graph in which a node is listed before the nodes it depends on;
\* the shipped pipelines, where every depends_on is empty, are among them.
ListedBeforeDeps == {d \in [Nodes -> SUBSET Nodes] : \A n \in Nodes : \A m \in d[n] : n < m}

\* A node listed after the node it depends on, as a reader of depends_on would.
ListedAfterDep == {[n \in Nodes |-> IF n = 2 THEN {1} ELSE {}]}
=============================================================================
