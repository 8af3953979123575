---------------------------- MODULE DagSchedule ----------------------------
(***************************************************************************)
(* What DagPipeline::Execute promises to its caller, with neither threads  *)
(* nor counters: during one call every node of the graph is executed       *)
(* exactly once, a node only after all the nodes it depends on, and the    *)
(* call returns when all of them are done.  DagPipeline implements it.     *)
(***************************************************************************)
EXTENDS Naturals

CONSTANTS
    Requests,   \* the calls of Execute, one per search request
    N,          \* number of nodes of the loaded pipeline
    Dags        \* the dependency graphs considered: functions [Nodes -> SUBSET Nodes]

VARIABLES
    deps,       \* the loaded graph: depends_on of every node
    call,       \* state of the caller of Execute
    busy,       \* nodes being executed, for each request
    done        \* nodes that have been executed, for each request

vars == <<deps, call, busy, done>>

Nodes == 1..N

Init ==
    /\ deps \in Dags
    /\ call = [r \in Requests |-> "idle"]
    /\ busy = [r \in Requests |-> {}]
    /\ done = [r \in Requests |-> {}]

Begin(r) ==
    /\ call[r] = "idle"
    /\ call' = [call EXCEPT ![r] = "running"]
    /\ UNCHANGED <<deps, busy, done>>

StartNode(r, n) ==
    /\ call[r] = "running"
    /\ n \notin busy[r] \union done[r]
    /\ deps[n] \subseteq done[r]
    /\ busy' = [busy EXCEPT ![r] = @ \union {n}]
    /\ UNCHANGED <<deps, call, done>>

FinishNode(r, n) ==
    /\ n \in busy[r]
    /\ busy' = [busy EXCEPT ![r] = @ \ {n}]
    /\ done' = [done EXCEPT ![r] = @ \union {n}]
    /\ UNCHANGED <<deps, call>>

Return(r) ==
    /\ call[r] = "running"
    /\ done[r] = Nodes
    /\ call' = [call EXCEPT ![r] = "returned"]
    /\ UNCHANGED <<deps, busy, done>>

Next ==
    \E r \in Requests :
        \/ Begin(r)
        \/ \E n \in Nodes : StartNode(r, n) \/ FinishNode(r, n)
        \/ Return(r)

Spec == Init /\ [][Next]_vars
=============================================================================
