--------------------------- MODULE PipelineConfig ---------------------------
(***************************************************************************)
(* Reading the processors of a business from its YAML file:                *)
(* DagPipeline::LoadFromConfig and BuildDag for the recall graph,          *)
(* ProcessorPipeline::LoadFromConfig for the chains.  A stage is absent,   *)
(* no list, or a list of entries; an entry has its name ("" for none),     *)
(* enable, and the names in depends_on.  Weights and parameters are left   *)
(* out: what a processor makes of them is whether it is usable.            *)
(***************************************************************************)
EXTENDS Integers, Sequences, FiniteSetsExt, TLC, Places

CONSTANT Usable     \* the names that are registered and whose Init returns 0

Absent == [kind |-> "absent", entries |-> <<>>]
NotAList == [kind |-> "not a list", entries |-> <<>>]
ListOf(entries) == [kind |-> "list", entries |-> entries]

\* A slot without a processor: disabled, not registered, or Init failed.
Empty == ""

Slot(entry) == IF entry.enable /\ entry.name \in Usable THEN entry.name ELSE Empty

\* Entries without a name are passed over.
NamedEntries(stage) ==
    AtPlaces(stage.entries, {i \in DOMAIN stage.entries : stage.entries[i].name # ""})

-----------------------------------------------------------------------------
(* ProcessorPipeline: the slots of a chain, and loaded_.                   *)

LoadChain(stage) ==
    LET entries == NamedEntries(stage)
    IN  [slots |-> [i \in DOMAIN entries |-> Slot(entries[i])], loaded |-> stage # NotAList]

-----------------------------------------------------------------------------
(* RankConfigManager: the rank stage of rank_config, with top_k -1 when it *)
(* is not given.                                                           *)

ParseStageConfig(stage) ==
    [top_k |-> stage.top_k, processors |-> NamedEntries(stage.processors)]

-----------------------------------------------------------------------------
(* DagPipeline: the node configurations, the slots, downstream_, loaded_.  *)

\* name_to_idx_: of two nodes with one name, the last.
Named(nodes, name) == {i \in DOMAIN nodes : nodes[i].name = name}
IndexOf(nodes, name) == Max(Named(nodes, name))

UnknownDeps(nodes) ==
    {e \in {<<i, k>> : i \in DOMAIN nodes, k \in UNION {DOMAIN nodes[j].deps : j \in DOMAIN nodes}} :
        e[2] \in DOMAIN nodes[e[1]].deps /\ Named(nodes, nodes[e[1]].deps[e[2]]) = {}}

Before(e, f) == e[1] < f[1] \/ (e[1] = f[1] /\ e[2] < f[2])

\* downstream_ as a set of edges <<node, dependent, position in depends_on>>.
\* The first unknown name ends the loop: later edges are not there.
Edges(nodes) ==
    LET known == {e \in {<<i, k>> : i \in DOMAIN nodes,
                                    k \in UNION {DOMAIN nodes[j].deps : j \in DOMAIN nodes}} :
                     /\ e[2] \in DOMAIN nodes[e[1]].deps
                     /\ \A u \in UnknownDeps(nodes) : Before(e, u)}
    IN  {<<IndexOf(nodes, nodes[e[1]].deps[e[2]]), e[1], e[2]>> : e \in known}

InDegree(nodes, i) == Len(nodes[i].deps)
Roots(nodes) == {i \in DOMAIN nodes : InDegree(nodes, i) = 0}

\* Node i after the nodes of a set have been counted off.
Freed(nodes, done, i) ==
    InDegree(nodes, i) = Cardinality({e \in Edges(nodes) : e[1] \in done /\ e[2] = i})

\* Kahn's algorithm: the nodes that have left the queue, and the queue.
KahnStart(nodes) ==
    [visited |-> {}, q |-> InOrder(Roots(nodes))]

KahnRound(nodes, s) ==
    LET seen == s.visited \union {Head(s.q)}
        freed == {i \in DOMAIN nodes : /\ \E e \in Edges(nodes) : e[1] = Head(s.q) /\ e[2] = i
                                       /\ Freed(nodes, seen, i)}
    IN  IF s.q = <<>> THEN s ELSE [visited |-> seen, q |-> Tail(s.q) \o InOrder(freed)]

KahnRounds(nodes) ==
    LET round[k \in 0..Len(nodes)] ==
          IF k = 0 THEN KahnStart(nodes) ELSE KahnRound(nodes, round[k - 1])
    IN  round[Len(nodes)]

\* Mutant: that every node has been visited is not looked at.
BuildDagUnchecked(nodes) == UnknownDeps(nodes) = {}

BuildDag(nodes) ==
    /\ UnknownDeps(nodes) = {}
    /\ Cardinality(KahnRounds(nodes).visited) = Len(nodes)

LoadRecall(stage) ==
    LET nodes == NamedEntries(stage)
    IN  [nodes |-> nodes,
         slots |-> [i \in DOMAIN nodes |-> Slot(nodes[i])],
         loaded |-> stage # NotAList /\ BuildDag(nodes)]

-----------------------------------------------------------------------------
(* DagPipeline::Execute, as far as whether it returns: it submits the      *)
(* nodes with pending_deps 0, each counts its downstream off, and the      *)
(* caller waits until all are done.  It does not look at loaded_.          *)

Wave(nodes, done) == done \union {i \in DOMAIN nodes : Freed(nodes, done, i)}

Reached(nodes) ==
    LET wave[k \in 0..Len(nodes)] == IF k = 0 THEN Roots(nodes) ELSE Wave(nodes, wave[k - 1])
    IN  wave[Len(nodes)]

ExecuteReturns(nodes) == Reached(nodes) = DOMAIN nodes

\* What the names say: some nodes wait for one another, or for a node that is
\* not there.
Waiting(nodes, S) ==
    \A i \in S : \E k \in DOMAIN nodes[i].deps :
        LET name == nodes[i].deps[k]
        IN  Named(nodes, name) = {} \/ IndexOf(nodes, name) \in S

WaitForEachOther(nodes) == \E S \in (SUBSET DOMAIN nodes) \ {{}} : Waiting(nodes, S)
=============================================================================
