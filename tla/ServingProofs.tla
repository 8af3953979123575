--------------------------- MODULE ServingProofs ---------------------------
(***************************************************************************)
(* TLAPS proofs about Serving, and about the operators of PipelineConfig,  *)
(* Startup and Suggestions it is built from: for every configuration, set  *)
(* of files, site and limit, and any number of requests, rebuilds and      *)
(* deletes.                                                                *)
(***************************************************************************)
EXTENDS Serving, FiniteSetTheorems, TLAPS

-----------------------------------------------------------------------------
(* Places and rounds: the least of a set of numbers, induction over an     *)
(* interval, and functions defined round by round.                         *)

LEMMA FirstPlace ==
    ASSUME NEW n \in Nat, NEW P \in SUBSET (0..n), P # {}
    PROVE  \E m \in P : \A j \in P : m <= j
  <1> DEFINE R == StrictSubsetOrdering(0..n)
             X == {0..i : i \in P}
  <1>1. IsWellFoundedOn(R, SUBSET (0..n))
    <2>1. IsFiniteSet(0..n)
      BY FS_Interval
    <2> QED BY <2>1, FS_StrictSubsetOrderingWellFounded, FS_FiniteSubsetsOfFinite
  <1>2. X \in SUBSET (SUBSET (0..n)) /\ X # {}
    <2>1. ASSUME NEW i \in P PROVE 0..i \in SUBSET (0..n)
      <3>1. i \in 0..n
        OBVIOUS
      <3> QED BY <3>1
    <2> QED BY <2>1
  <1>3. PICK T \in X : \A U \in X : <<U, T>> \notin R
    <2> HIDE DEF R, X
    <2> QED BY <1>1, <1>2, WFMin
  <1>4. PICK m \in P : T = 0..m
    OBVIOUS
  <1>5. ASSUME NEW j \in P, j < m PROVE FALSE
    <2>1. 0..j \in X /\ 0..j \in SUBSET (0..n) /\ 0..m \in SUBSET (0..n)
      OBVIOUS
    <2>2. 0..j \subseteq 0..m /\ m \in 0..m /\ m \notin 0..j
      BY <1>5
    <2>3. <<0..j, 0..m>> \in R
      BY <2>1, <2>2 DEF StrictSubsetOrdering
    <2> QED BY <1>3, <1>4, <2>1, <2>3
  <1> QED BY <1>5

LEMMA LastPlace ==
    ASSUME NEW n \in Nat, NEW P \in SUBSET (0..n), P # {}
    PROVE  /\ Max(P) \in P
           /\ \A j \in P : j <= Max(P)
  <1> DEFINE Q == {i \in 0..n : n - i \in P}
  <1>1. Q \in SUBSET (0..n) /\ Q # {}
    <2>1. PICK i \in P : TRUE
      OBVIOUS
    <2>2. n - i \in 0..n /\ n - (n - i) = i
      OBVIOUS
    <2> QED BY <2>2
  <1>2. PICK m \in Q : \A j \in Q : m <= j
    <2> HIDE DEF Q
    <2> QED BY <1>1, FirstPlace
  <1>3. n - m \in P /\ \A j \in P : n - m >= j
    <2>1. ASSUME NEW j \in P PROVE n - m >= j
      <3>1. n - j \in Q
        OBVIOUS
      <3> QED BY <1>2, <3>1
    <2> QED BY <2>1
  <1>4. Max(P) \in P /\ \A j \in P : Max(P) >= j
    <2> HIDE DEF Q
    <2> QED BY <1>3 DEF Max
  <1> QED BY <1>4

LEMMA LastIs ==
    ASSUME NEW n \in Nat, NEW P \in SUBSET (0..n), NEW m \in P, \A j \in P : j <= m
    PROVE  Max(P) = m
  <1>1. Max(P) \in P /\ \A j \in P : j <= Max(P)
    <2>1. P # {}
      OBVIOUS
    <2> QED BY <2>1, LastPlace
  <1>2. Max(P) <= m /\ m <= Max(P)
    BY <1>1
  <1>3. Max(P) \in Nat /\ m \in Nat
    <2>1. P \subseteq Nat
      OBVIOUS
    <2> QED BY <1>1, <2>1
  <1> QED BY <1>2, <1>3

\* Induction: what holds at 0 and goes on from each place to the next.
LEMMA PlaceByPlace ==
    ASSUME NEW n \in Nat, NEW P \in SUBSET (0..n), 0 \in P,
           \A k \in 1..n : k - 1 \in P => k \in P
    PROVE  P = 0..n
  <1> DEFINE Q == (0..n) \ P
  <1>1. SUFFICES ASSUME Q # {} PROVE FALSE
    OBVIOUS
  <1>2. PICK m \in Q : \A j \in Q : m <= j
    <2>1. Q \in SUBSET (0..n)
      OBVIOUS
    <2> HIDE DEF Q
    <2> QED BY <1>1, <2>1, FirstPlace
  <1>3. m \in 1..n
    OBVIOUS
  <1>4. m - 1 \in P
    BY <1>2, <1>3
  <1> QED BY <1>3, <1>4

\* A function defined round by round exists.
LEMMA RoundsExist ==
    ASSUME NEW S, NEW s0 \in S, NEW n \in Nat, NEW step \in [1..n -> [S -> S]]
    PROVE  \E f \in [0..n -> S] : f[0] = s0 /\ \A k \in 1..n : f[k] = step[k][f[k - 1]]
  <1> DEFINE Good(m, f) == f[0] = s0 /\ \A k \in 1..m : f[k] = step[k][f[k - 1]]
             P == {m \in 0..n : \E f \in [0..m -> S] : Good(m, f)}
  <1>1. 0 \in P
    <2> DEFINE f == [k \in 0..0 |-> s0]
    <2>1. f \in [0..0 -> S] /\ f[0] = s0 /\ 1..0 = {} /\ 0 \in 0..n
      OBVIOUS
    <2>2. Good(0, f)
      BY <2>1
    <2> HIDE DEF f, Good
    <2> QED BY <2>1, <2>2
  <1>2. ASSUME NEW k \in 1..n, k - 1 \in P PROVE k \in P
    <2>1. PICK f \in [0..(k - 1) -> S] : Good(k - 1, f)
      BY <1>2
    <2> DEFINE g == [i \in 0..k |-> IF i = k THEN step[k][f[k - 1]] ELSE f[i]]
    <2>2. f[k - 1] \in S /\ step[k] \in [S -> S]
      OBVIOUS
    <2>3. g \in [0..k -> S]
      BY <2>2
    <2>4. \A i \in 0..k : g[i] = (IF i = k THEN step[k][f[k - 1]] ELSE f[i])
      OBVIOUS
    <2>5. g[0] = s0
      BY <2>1, <2>4
    <2>6. ASSUME NEW i \in 1..k PROVE g[i] = step[i][g[i - 1]]
      <3>1. CASE i = k
        BY <2>4, <3>1
      <3>2. CASE i # k
        <4>1. i \in 1..(k - 1) /\ i - 1 \in 0..k /\ i - 1 # k
          BY <3>2
        <4> QED BY <2>1, <2>4, <4>1
      <3> QED BY <3>1, <3>2
    <2> HIDE DEF g
    <2> QED BY <2>3, <2>5, <2>6
  <1>3. P = 0..n
    <2> HIDE DEF P
    <2>1. P \in SUBSET (0..n)
      BY DEF P
    <2> QED BY <1>1, <1>2, <2>1, PlaceByPlace
  <1>4. n \in P
    BY <1>3
  <1> QED BY <1>4

-----------------------------------------------------------------------------
(* InOrder and AtPlaces.                                                   *)

\* InOrder lists every place of the set once.
LEMMA InOrderIs ==
    ASSUME NEW n \in Nat, NEW P \in SUBSET (1..n)
    PROVE  /\ Cardinality(P) \in Nat /\ Cardinality(P) <= n
           /\ InOrder(P) \in Bijection(1..Cardinality(P), P)
  <1> DEFINE c == Cardinality(P)
             below(i) == {j \in P : j <= i}
             rank == [i \in P |-> Cardinality(below(i))]
  <1>1. IsFiniteSet(P) /\ c \in Nat /\ c <= n
    <2>1. IsFiniteSet(1..n) /\ Cardinality(1..n) = n
      BY FS_Interval
    <2> QED BY <2>1, FS_Subset, FS_CardinalityType
  <1>2. \A i \in P : below(i) \in SUBSET P /\ i \in below(i)
    OBVIOUS
  <1>3. \A i \in P : IsFiniteSet(below(i)) /\ Cardinality(below(i)) \in Nat
                     /\ Cardinality(below(i)) <= c /\ Cardinality(below(i)) # 0
    <2>1. SUFFICES ASSUME NEW i \in P
                   PROVE  IsFiniteSet(below(i)) /\ Cardinality(below(i)) \in Nat
                          /\ Cardinality(below(i)) <= c /\ Cardinality(below(i)) # 0
      OBVIOUS
    <2>2. below(i) \in SUBSET P /\ below(i) # {}
      BY <1>2
    <2> HIDE DEF below
    <2>3. IsFiniteSet(below(i)) /\ Cardinality(below(i)) <= c
      BY <1>1, <2>2, FS_Subset
    <2> QED BY <2>2, <2>3, FS_CardinalityType, FS_EmptySet
  <1>4. rank \in [P -> 1..c]
    <2> HIDE DEF below, c
    <2> QED BY <1>1, <1>3
  <1>5. ASSUME NEW i \in P, NEW j \in P, i < j PROVE rank[i] # rank[j]
    <2>1. below(i) \in SUBSET below(j) /\ j \in below(j) /\ j \notin below(i)
      <3>1. i \in Nat /\ j \in Nat /\ P \subseteq Nat
        OBVIOUS
      <3>2. \A x \in Nat : x <= i => x <= j
        BY <1>5, <3>1
      <3>3. below(i) \in SUBSET below(j)
        BY <3>1, <3>2
      <3>4. ~(j <= i) /\ j <= j
        BY <1>5, <3>1
      <3> QED BY <3>3, <3>4
    <2>2. below(i) # below(j)
      BY <2>1
    <2>3. rank[i] = Cardinality(below(i)) /\ rank[j] = Cardinality(below(j))
      OBVIOUS
    <2> HIDE DEF below, rank
    <2> QED BY <1>3, <2>1, <2>2, <2>3, FS_Subset
  <1>6. rank \in Injection(P, 1..c)
    <2>1. ASSUME NEW i \in P, NEW j \in P, rank[i] = rank[j] PROVE i = j
      <3>1. i \in Nat /\ j \in Nat
        OBVIOUS
      <3> HIDE DEF rank
      <3> QED BY <1>5, <2>1, <3>1
    <2> HIDE DEF rank
    <2> QED BY <1>4, <2>1 DEF Injection, IsInjective
  <1>7. rank \in Surjection(P, 1..c)
    <2>1. IsFiniteSet(1..c) /\ Cardinality(1..c) = c
      BY <1>1, FS_Interval
    <2> HIDE DEF rank
    <2> QED BY <1>6, <2>1, FS_Injection
  <1>8. \A k \in 1..c : InOrder(P)[k] \in P /\ rank[InOrder(P)[k]] = k
    <2>1. SUFFICES ASSUME NEW k \in 1..c PROVE InOrder(P)[k] \in P /\ rank[InOrder(P)[k]] = k
      OBVIOUS
    <2>2. \E i \in P : rank[i] = k
      <3> HIDE DEF rank
      <3> QED BY <1>7 DEF Surjection
    <2>3. \E i \in P : Cardinality({j \in P : j <= i}) = k
      BY <2>2
    <2>4. InOrder(P)[k] = CHOOSE i \in P : Cardinality({j \in P : j <= i}) = k
      BY DEF InOrder
    <2>5. InOrder(P)[k] \in P /\ Cardinality({j \in P : j <= InOrder(P)[k]}) = k
      BY <2>3, <2>4
    <2> QED BY <2>5
  <1>9. InOrder(P) \in [1..c -> P]
    <2>1. InOrder(P) = [k \in 1..c |-> InOrder(P)[k]]
      BY DEF InOrder
    <2> HIDE DEF rank, c
    <2> QED BY <1>8, <2>1
  <1>10. InOrder(P) \in Injection(1..c, P)
    <2> HIDE DEF rank, c
    <2> QED BY <1>8, <1>9 DEF Injection, IsInjective
  <1>11. InOrder(P) \in Surjection(1..c, P)
    <2>1. ASSUME NEW i \in P PROVE \E k \in 1..c : InOrder(P)[k] = i
      <3>1. rank[i] \in 1..c
        BY <1>4
      <3>2. rank[InOrder(P)[rank[i]]] = rank[i] /\ InOrder(P)[rank[i]] \in P
        BY <1>8, <3>1
      <3> HIDE DEF rank, c
      <3> QED BY <1>6, <3>1, <3>2 DEF Injection, IsInjective
    <2> HIDE DEF rank, c
    <2> QED BY <1>9, <2>1 DEF Surjection
  <1> QED BY <1>1, <1>10, <1>11 DEF Bijection

LEMMA AtPlacesIs ==
    ASSUME NEW S, NEW s \in Seq(S), NEW P \in SUBSET DOMAIN s
    PROVE  /\ AtPlaces(s, P) \in Seq(S)
           /\ Len(AtPlaces(s, P)) = Cardinality(P)
           /\ \A k \in DOMAIN AtPlaces(s, P) : \E i \in P : AtPlaces(s, P)[k] = s[i]
  <1>1. Len(s) \in Nat /\ DOMAIN s = 1..Len(s) /\ P \in SUBSET (1..Len(s))
    OBVIOUS
  <1>2. Cardinality(P) \in Nat /\ InOrder(P) \in [1..Cardinality(P) -> P]
    BY <1>1, InOrderIs DEF Bijection, Injection
  <1>3. AtPlaces(s, P) = [k \in 1..Cardinality(P) |-> s[InOrder(P)[k]]]
    BY <1>2 DEF AtPlaces
  <1>4. \A k \in 1..Cardinality(P) : InOrder(P)[k] \in P /\ s[InOrder(P)[k]] \in S
    BY <1>1, <1>2
  <1>5. AtPlaces(s, P) \in Seq(S) /\ Len(AtPlaces(s, P)) = Cardinality(P)
    BY <1>2, <1>3, <1>4
  <1> QED BY <1>3, <1>4, <1>5

-----------------------------------------------------------------------------
(* Recall graphs.                                                          *)

\* The node the k-th name in depends_on of node i stands for.
Dep(nodes, i, k) == IndexOf(nodes, nodes[i].deps[k])

\* What Freed counts, when all names are known.
FreedBy(nodes, done, i) == \A k \in DOMAIN nodes[i].deps : Dep(nodes, i, k) \in done

LEMMA NodesType ==
    ASSUME NEW nodes \in Seq(RecallEntry)
    PROVE  /\ Len(nodes) \in Nat /\ DOMAIN nodes = 1..Len(nodes)
           /\ IsFiniteSet(DOMAIN nodes) /\ Cardinality(DOMAIN nodes) = Len(nodes)
           /\ \A i \in DOMAIN nodes :
                /\ nodes[i].deps \in Seq(STRING) /\ Len(nodes[i].deps) \in Nat
                /\ DOMAIN nodes[i].deps = 1..Len(nodes[i].deps)
  <1>1. Len(nodes) \in Nat /\ DOMAIN nodes = 1..Len(nodes)
    OBVIOUS
  <1>2. IsFiniteSet(1..Len(nodes)) /\ Cardinality(1..Len(nodes)) = Len(nodes)
    BY <1>1, FS_Interval
  <1>3. \A i \in DOMAIN nodes : nodes[i] \in RecallEntry
    OBVIOUS
  <1>4. \A e \in RecallEntry : e.deps \in Seq(STRING)
    BY DEF RecallEntry
  <1>5. \A d \in Seq(STRING) : Len(d) \in Nat /\ DOMAIN d = 1..Len(d)
    OBVIOUS
  <1> QED BY <1>1, <1>2, <1>3, <1>4, <1>5

LEMMA NamedIs ==
    ASSUME NEW nodes \in Seq(RecallEntry), NEW name, Named(nodes, name) # {}
    PROVE  IndexOf(nodes, name) \in DOMAIN nodes
  <1>1. Len(nodes) \in Nat /\ Named(nodes, name) \in SUBSET (0..Len(nodes))
    <2>1. Len(nodes) \in Nat /\ DOMAIN nodes = 1..Len(nodes)
      BY NodesType
    <2>2. 1..Len(nodes) \subseteq 0..Len(nodes)
      BY <2>1
    <2> QED BY <2>1, <2>2 DEF Named
  <1>2. Max(Named(nodes, name)) \in Named(nodes, name)
    BY <1>1, LastPlace
  <1> QED BY <1>2 DEF IndexOf, Named

LEMMA KnownIs ==
    ASSUME NEW nodes \in Seq(RecallEntry)
    PROVE  UnknownDeps(nodes) = {} <=>
             \A i \in DOMAIN nodes : \A k \in DOMAIN nodes[i].deps :
                Named(nodes, nodes[i].deps[k]) # {}
  <1>1. ASSUME NEW e \in UnknownDeps(nodes)
        PROVE  \E i \in DOMAIN nodes : \E k \in DOMAIN nodes[i].deps :
                 Named(nodes, nodes[i].deps[k]) = {}
    BY DEF UnknownDeps
  <1>2. ASSUME NEW i \in DOMAIN nodes, NEW k \in DOMAIN nodes[i].deps,
               Named(nodes, nodes[i].deps[k]) = {}
        PROVE  <<i, k>> \in UnknownDeps(nodes)
    <2>1. k \in UNION {DOMAIN nodes[j].deps : j \in DOMAIN nodes}
      OBVIOUS
    <2>2. <<i, k>>[1] = i /\ <<i, k>>[2] = k
      OBVIOUS
    <2> QED BY <1>2, <2>1, <2>2 DEF UnknownDeps
  <1> QED BY <1>1, <1>2

\* When all names are known, downstream_ has an edge for each.
LEMMA EdgesAre ==
    ASSUME NEW nodes \in Seq(RecallEntry), UnknownDeps(nodes) = {}
    PROVE  /\ \A e \in Edges(nodes) :
                /\ e[2] \in DOMAIN nodes /\ e[3] \in DOMAIN nodes[e[2]].deps
                /\ e = <<Dep(nodes, e[2], e[3]), e[2], e[3]>>
           /\ \A i \in DOMAIN nodes : \A k \in DOMAIN nodes[i].deps :
                <<Dep(nodes, i, k), i, k>> \in Edges(nodes)
  <1> DEFINE pairs == {<<i, k>> : i \in DOMAIN nodes,
                                  k \in UNION {DOMAIN nodes[j].deps : j \in DOMAIN nodes}}
             known == {e \in pairs : e[2] \in DOMAIN nodes[e[1]].deps}
  <1>1. Edges(nodes) = {<<IndexOf(nodes, nodes[e[1]].deps[e[2]]), e[1], e[2]>> : e \in known}
    <2>1. known = {e \in pairs : /\ e[2] \in DOMAIN nodes[e[1]].deps
                                 /\ \A u \in UnknownDeps(nodes) : Before(e, u)}
      OBVIOUS
    <2> QED BY <2>1 DEF Edges
  <1>2. ASSUME NEW i \in DOMAIN nodes, NEW k \in DOMAIN nodes[i].deps
        PROVE  <<Dep(nodes, i, k), i, k>> \in Edges(nodes)
    <2>1. k \in UNION {DOMAIN nodes[j].deps : j \in DOMAIN nodes}
      OBVIOUS
    <2>2. <<i, k>> \in known /\ <<i, k>>[1] = i /\ <<i, k>>[2] = k
      BY <2>1
    <2> HIDE DEF known
    <2> QED BY <1>1, <2>2 DEF Dep
  <1>3. ASSUME NEW e \in Edges(nodes)
        PROVE  /\ e[2] \in DOMAIN nodes /\ e[3] \in DOMAIN nodes[e[2]].deps
               /\ e = <<Dep(nodes, e[2], e[3]), e[2], e[3]>>
    <2>1. PICK p \in known : e = <<IndexOf(nodes, nodes[p[1]].deps[p[2]]), p[1], p[2]>>
      <3> HIDE DEF known
      <3> QED BY <1>1
    <2>2. p[1] \in DOMAIN nodes /\ p[2] \in DOMAIN nodes[p[1]].deps
      OBVIOUS
    <2>3. e[2] = p[1] /\ e[3] = p[2]
      BY <2>1
    <2> QED BY <2>1, <2>2, <2>3 DEF Dep
  <1> QED BY <1>2, <1>3

LEMMA FreedIs ==
    ASSUME NEW nodes \in Seq(RecallEntry), UnknownDeps(nodes) = {},
           NEW done, NEW i \in DOMAIN nodes
    PROVE  Freed(nodes, done, i) <=> FreedBy(nodes, done, i)
  <1> DEFINE n == Len(nodes[i].deps)
             E == {e \in Edges(nodes) : e[1] \in done /\ e[2] = i}
             K == {k \in 1..n : Dep(nodes, i, k) \in done}
             g == [k \in K |-> <<Dep(nodes, i, k), i, k>>]
  <1>1. n \in Nat /\ DOMAIN nodes[i].deps = 1..n
    BY NodesType
  <1>2. g \in Bijection(K, E)
    <2>1. \A k \in K : g[k] \in E
      <3>1. SUFFICES ASSUME NEW k \in K PROVE g[k] \in E
        OBVIOUS
      <3>2. g[k] \in Edges(nodes) /\ g[k] = <<Dep(nodes, i, k), i, k>>
        BY <1>1, EdgesAre
      <3> QED BY <3>2
    <2>2. \A j, k \in K : g[j] = g[k] => j = k
      <3>1. \A k \in K : g[k][3] = k
        OBVIOUS
      <3> HIDE DEF g
      <3> QED BY <3>1
    <2>3. \A e \in E : \E k \in K : g[k] = e
      <3>1. SUFFICES ASSUME NEW e \in E PROVE \E k \in K : g[k] = e
        OBVIOUS
      <3>2. e \in Edges(nodes) /\ e[1] \in done /\ e[2] = i
        OBVIOUS
      <3>3. e[3] \in 1..n /\ e = <<Dep(nodes, i, e[3]), i, e[3]>>
        BY <1>1, <3>2, EdgesAre
      <3>4. e[1] = Dep(nodes, i, e[3])
        BY <3>3
      <3>5. e[3] \in K
        BY <3>2, <3>3, <3>4
      <3> QED BY <3>3, <3>5
    <2>4. g \in [K -> E]
      <3>1. g = [k \in K |-> g[k]]
        OBVIOUS
      <3> HIDE DEF g, E, K
      <3> QED BY <2>1, <3>1
    <2> HIDE DEF g, E, K
    <2> QED BY <2>2, <2>3, <2>4 DEF Bijection, Injection, Surjection, IsInjective
  <1>3. IsFiniteSet(1..n) /\ Cardinality(1..n) = n /\ K \in SUBSET (1..n)
    <2>1. K \in SUBSET (1..n)
      OBVIOUS
    <2> HIDE DEF K, n
    <2>2. IsFiniteSet(1..n) /\ Cardinality(1..n) = n
      BY <1>1, FS_Interval
    <2> QED BY <2>1, <2>2
  <1>4. IsFiniteSet(K) /\ (n = Cardinality(K) => K = 1..n)
    <2> HIDE DEF K, n
    <2> QED BY <1>3, FS_Subset
  <1>5. Cardinality(E) = Cardinality(K)
    <2>1. ExistsBijection(K, E)
      BY <1>2 DEF ExistsBijection
    <2> HIDE DEF g, E, K
    <2> QED BY <1>4, <2>1, FS_Bijection
  <1>6. Freed(nodes, done, i) <=> n = Cardinality(E)
    BY DEF Freed, InDegree
  <1>7. FreedBy(nodes, done, i) <=> K = 1..n
    BY <1>1 DEF FreedBy
  <1> HIDE DEF E, K, n
  <1> QED BY <1>3, <1>4, <1>5, <1>6, <1>7

EdgeInto(nodes, h, i) == \E e \in Edges(nodes) : e[1] = h /\ e[2] = i

LEMMA EdgeIs ==
    ASSUME NEW nodes \in Seq(RecallEntry), UnknownDeps(nodes) = {},
           NEW h, NEW i \in DOMAIN nodes
    PROVE  EdgeInto(nodes, h, i) <=>
             \E k \in DOMAIN nodes[i].deps : Dep(nodes, i, k) = h
  <1>1. ASSUME NEW e \in Edges(nodes), e[1] = h, e[2] = i
        PROVE  \E k \in DOMAIN nodes[i].deps : Dep(nodes, i, k) = h
    <2>1. e[3] \in DOMAIN nodes[i].deps /\ e = <<Dep(nodes, i, e[3]), i, e[3]>>
      BY <1>1, EdgesAre
    <2>2. e[1] = Dep(nodes, i, e[3])
      BY <2>1
    <2> QED BY <1>1, <2>1, <2>2
  <1>2. ASSUME NEW k \in DOMAIN nodes[i].deps, Dep(nodes, i, k) = h
        PROVE  EdgeInto(nodes, h, i)
    <2>1. <<h, i, k>> \in Edges(nodes)
      BY <1>2, EdgesAre
    <2> QED BY <2>1 DEF EdgeInto
  <1> QED BY <1>1, <1>2 DEF EdgeInto

LEMMA DepType ==
    ASSUME NEW nodes \in Seq(RecallEntry), UnknownDeps(nodes) = {},
           NEW i \in DOMAIN nodes, NEW k \in DOMAIN nodes[i].deps
    PROVE  Dep(nodes, i, k) \in DOMAIN nodes
  <1>1. Named(nodes, nodes[i].deps[k]) # {}
    BY KnownIs
  <1> QED BY <1>1, NamedIs DEF Dep

\* The queue and what has left it, k rounds after the start: together they are
\* the nodes that have nothing left to wait for.
KahnStates(nodes) == [visited : SUBSET DOMAIN nodes, q : Seq(DOMAIN nodes)]

Queued(q) == {q[p] : p \in DOMAIN q}

KahnInv(nodes, k, s) ==
    /\ s \in KahnStates(nodes)
    /\ \A p, r \in DOMAIN s.q : s.q[p] = s.q[r] => p = r
    /\ s.visited \cap Queued(s.q) = {}
    /\ s.visited \union Queued(s.q) = {i \in DOMAIN nodes : FreedBy(nodes, s.visited, i)}
    /\ s.q # <<>> => Cardinality(s.visited) = k
    /\ \A S \in SUBSET DOMAIN nodes : Waiting(nodes, S) => S \cap s.visited = {}

LEMMA QueueIs ==
    ASSUME NEW n \in Nat, NEW P \in SUBSET (1..n)
    PROVE  /\ InOrder(P) \in Seq(1..n) /\ InOrder(P) \in Seq(P)
           /\ Queued(InOrder(P)) = P
           /\ \A p, r \in DOMAIN InOrder(P) : InOrder(P)[p] = InOrder(P)[r] => p = r
  <1> DEFINE c == Cardinality(P)
  <1>1. c \in Nat /\ InOrder(P) \in Bijection(1..c, P)
    BY InOrderIs
  <1>2. /\ InOrder(P) \in [1..c -> P]
        /\ \A p, r \in 1..c : InOrder(P)[p] = InOrder(P)[r] => p = r
        /\ \A i \in P : \E p \in 1..c : InOrder(P)[p] = i
    BY <1>1 DEF Bijection, Injection, Surjection, IsInjective
  <1>3. DOMAIN InOrder(P) = 1..c
    BY <1>2
  <1>4. Queued(InOrder(P)) = P
    <2> HIDE DEF c
    <2>1. \A p \in 1..c : InOrder(P)[p] \in P
      BY <1>2
    <2>2. Queued(InOrder(P)) = {InOrder(P)[p] : p \in 1..c}
      BY <1>3 DEF Queued
    <2>3. ASSUME NEW i \in P PROVE i \in {InOrder(P)[p] : p \in 1..c}
      <3>1. PICK p \in 1..c : InOrder(P)[p] = i
        BY <1>2
      <3> QED BY <3>1
    <2> QED BY <2>1, <2>2, <2>3
  <1>5. InOrder(P) \in Seq(P)
    <2> HIDE DEF c
    <2> QED BY <1>1, <1>2
  <1>6. InOrder(P) \in Seq(1..n)
    <2>1. InOrder(P) \in [1..c -> 1..n]
      BY <1>2
    <2> HIDE DEF c
    <2> QED BY <1>1, <2>1
  <1> QED BY <1>2, <1>3, <1>4, <1>5, <1>6

LEMMA KahnStartType ==
    ASSUME NEW nodes \in Seq(RecallEntry)
    PROVE  KahnStart(nodes) \in KahnStates(nodes)
  <1>1. Len(nodes) \in Nat /\ DOMAIN nodes = 1..Len(nodes)
    BY NodesType
  <1>2. Roots(nodes) \in SUBSET (1..Len(nodes))
    BY <1>1 DEF Roots
  <1>3. InOrder(Roots(nodes)) \in Seq(DOMAIN nodes)
    BY <1>1, <1>2, QueueIs
  <1> QED BY <1>3 DEF KahnStart, KahnStates

LEMMA KahnStartKeeps ==
    ASSUME NEW nodes \in Seq(RecallEntry)
    PROVE  KahnInv(nodes, 0, KahnStart(nodes))
  <1> DEFINE s == KahnStart(nodes)
  <1>1. Len(nodes) \in Nat /\ DOMAIN nodes = 1..Len(nodes)
    BY NodesType
  <1>2. Roots(nodes) \in SUBSET (1..Len(nodes))
    BY <1>1 DEF Roots
  <1>3. s.visited = {} /\ s.q = InOrder(Roots(nodes))
    BY DEF KahnStart
  <1>4. Queued(s.q) = Roots(nodes) /\ \A p, r \in DOMAIN s.q : s.q[p] = s.q[r] => p = r
    BY <1>1, <1>2, <1>3, QueueIs
  <1>5. Roots(nodes) = {i \in DOMAIN nodes : FreedBy(nodes, {}, i)}
    <2>1. ASSUME NEW i \in DOMAIN nodes PROVE i \in Roots(nodes) <=> FreedBy(nodes, {}, i)
      <3>1. Len(nodes[i].deps) \in Nat /\ DOMAIN nodes[i].deps = 1..Len(nodes[i].deps)
        BY NodesType
      <3>2. FreedBy(nodes, {}, i) <=> 1..Len(nodes[i].deps) = {}
        BY <3>1 DEF FreedBy
      <3>3. 1..Len(nodes[i].deps) = {} <=> Len(nodes[i].deps) = 0
        <4>1. ASSUME NEW l \in Nat PROVE 1..l = {} <=> l = 0
          <5>1. l # 0 => 1 \in 1..l
            OBVIOUS
          <5> QED BY <5>1
        <4> QED BY <3>1, <4>1
      <3> QED BY <3>2, <3>3 DEF Roots, InDegree
    <2> QED BY <2>1 DEF Roots
  <1>6. s \in KahnStates(nodes) /\ Cardinality(s.visited) = 0
    BY <1>3, KahnStartType, FS_EmptySet
  <1>7. /\ s.visited \cap Queued(s.q) = {}
        /\ \A S \in SUBSET DOMAIN nodes : Waiting(nodes, S) => S \cap s.visited = {}
        /\ s.visited \union Queued(s.q) = {i \in DOMAIN nodes : FreedBy(nodes, s.visited, i)}
    <2> HIDE DEF s
    <2> QED BY <1>3, <1>4, <1>5
  <1>8. KahnInv(nodes, 0, s)
    <2> HIDE DEF s
    <2> QED BY <1>4, <1>6, <1>7 DEF KahnInv
  <1> QED BY <1>8

\* One round takes the head from the queue and adds what only it kept waiting.
KahnFreed(nodes, s) ==
    {i \in DOMAIN nodes : /\ \E e \in Edges(nodes) : e[1] = Head(s.q) /\ e[2] = i
                          /\ Freed(nodes, s.visited \union {Head(s.q)}, i)}

LEMMA KahnRoundIs ==
    ASSUME NEW nodes \in Seq(RecallEntry), NEW s \in KahnStates(nodes), s.q # <<>>
    PROVE  LET t == KahnRound(nodes, s) IN
           /\ t \in KahnStates(nodes)
           /\ t.visited = s.visited \union {Head(s.q)}
           /\ t.q = Tail(s.q) \o InOrder(KahnFreed(nodes, s))
           /\ KahnFreed(nodes, s) \in SUBSET (1..Len(nodes))
  <1>1. Len(nodes) \in Nat /\ DOMAIN nodes = 1..Len(nodes)
    BY NodesType
  <1>2. KahnFreed(nodes, s) \in SUBSET (1..Len(nodes))
    BY <1>1 DEF KahnFreed
  <1>3. KahnRound(nodes, s) = [visited |-> s.visited \union {Head(s.q)},
                               q |-> Tail(s.q) \o InOrder(KahnFreed(nodes, s))]
    BY DEF KahnRound, KahnFreed
  <1>4. InOrder(KahnFreed(nodes, s)) \in Seq(DOMAIN nodes)
    BY <1>1, <1>2, QueueIs
  <1>5. s.visited \in SUBSET DOMAIN nodes /\ s.q \in Seq(DOMAIN nodes)
    BY DEF KahnStates
  <1>6. Head(s.q) \in DOMAIN nodes /\ Tail(s.q) \in Seq(DOMAIN nodes)
    <2>1. ASSUME NEW T, NEW q \in Seq(T), q # <<>>
          PROVE  Head(q) \in T /\ Tail(q) \in Seq(T)
      BY <2>1
    <2> QED BY <1>5, <2>1
  <1>7. Tail(s.q) \o InOrder(KahnFreed(nodes, s)) \in Seq(DOMAIN nodes)
    BY <1>4, <1>6
  <1> QED BY <1>2, <1>3, <1>5, <1>6, <1>7 DEF KahnStates

LEMMA KahnRoundType ==
    ASSUME NEW nodes \in Seq(RecallEntry), NEW s \in KahnStates(nodes)
    PROVE  KahnRound(nodes, s) \in KahnStates(nodes)
  <1>1. CASE s.q # <<>>
    BY <1>1, KahnRoundIs
  <1>2. CASE s.q = <<>>
    BY <1>2 DEF KahnRound
  <1> QED BY <1>1, <1>2

LEMMA KahnRoundsIs ==
    ASSUME NEW nodes \in Seq(RecallEntry)
    PROVE  \E f \in [0..Len(nodes) -> KahnStates(nodes)] :
             /\ f[0] = KahnStart(nodes)
             /\ \A k \in 1..Len(nodes) : f[k] = KahnRound(nodes, f[k - 1])
             /\ KahnRounds(nodes) = f[Len(nodes)]
  <1> DEFINE n == Len(nodes)
             S == KahnStates(nodes)
             step == [k \in 1..n |-> [s \in S |-> KahnRound(nodes, s)]]
  <1>1. n \in Nat /\ KahnStart(nodes) \in S /\ \A s \in S : KahnRound(nodes, s) \in S
    BY NodesType, KahnStartType, KahnRoundType
  <1>2. step \in [1..n -> [S -> S]]
    <2> HIDE DEF S
    <2> QED BY <1>1
  <1>3. \E f \in [0..n -> S] : f[0] = KahnStart(nodes) /\ \A k \in 1..n : f[k] = step[k][f[k - 1]]
    <2> HIDE DEF step, S, n
    <2> QED BY <1>1, <1>2, RoundsExist
  <1>4. PICK f \in [0..n -> S] : f[0] = KahnStart(nodes) /\ \A k \in 1..n : f[k] = step[k][f[k - 1]]
    BY <1>3
  <1>5. ASSUME NEW k \in 1..n PROVE f[k] = KahnRound(nodes, f[k - 1])
    <2>1. k - 1 \in 0..n
      BY <1>1
    <2>2. f[k - 1] \in S
      BY <2>1
    <2> HIDE DEF S
    <2> QED BY <1>4, <2>2
  <1> DEFINE body(g) == [k \in 0..n |-> IF k = 0 THEN KahnStart(nodes)
                                        ELSE KahnRound(nodes, g[k - 1])]
  <1>6. f = body(f)
    <2>1. \A k \in 0..n : f[k] = IF k = 0 THEN KahnStart(nodes) ELSE KahnRound(nodes, f[k - 1])
      <3>1. \A k \in 0..n : k = 0 \/ k \in 1..n
        BY <1>1
      <3> HIDE DEF step, S
      <3> QED BY <1>4, <1>5, <3>1
    <2> HIDE DEF step, S, n
    <2> QED BY <2>1
  <1>7. ASSUME NEW g, g = body(g) PROVE g = f
    <2> DEFINE P == {k \in 0..n : g[k] = f[k]}
    <2>1. \A k \in 0..n : g[k] = IF k = 0 THEN KahnStart(nodes) ELSE KahnRound(nodes, g[k - 1])
      <3>1. \A k \in 0..n : body(g)[k] = IF k = 0 THEN KahnStart(nodes) ELSE KahnRound(nodes, g[k - 1])
        OBVIOUS
      <3> HIDE DEF body
      <3> QED BY <1>7, <3>1
    <2>2. 0 \in P
      <3>1. 0 \in 0..n
        BY <1>1
      <3> HIDE DEF step, S, n
      <3> QED BY <1>4, <2>1, <3>1
    <2>3. ASSUME NEW k \in 1..n, k - 1 \in P PROVE k \in P
      <3>1. k \in 0..n /\ k # 0
        BY <1>1
      <3> HIDE DEF step, S, n
      <3> QED BY <1>5, <2>1, <2>3, <3>1
    <2>4. P = 0..n
      <3>1. P \in SUBSET (0..n)
        OBVIOUS
      <3> HIDE DEF P, n
      <3> QED BY <1>1, <2>2, <2>3, <3>1, PlaceByPlace
    <2>5. DOMAIN g = 0..n /\ g = [k \in 0..n |-> g[k]]
      <3>1. body(g) = [k \in 0..n |-> body(g)[k]]
        OBVIOUS
      <3> HIDE DEF body, n
      <3> QED BY <1>7, <3>1
    <2>6. \A k \in 0..n : g[k] = f[k]
      BY <2>4
    <2> HIDE DEF body, P, n, S, step
    <2> QED BY <2>5, <2>6
  <1>8. KahnRounds(nodes) = (CHOOSE g : g = body(g))[n]
    BY DEF KahnRounds
  <1>9. (CHOOSE g : g = body(g)) = f
    <2> HIDE DEF body
    <2> QED BY <1>6, <1>7
  <1> HIDE DEF body, step
  <1> QED BY <1>4, <1>5, <1>8, <1>9

LEMMA FreedWhen ==
    ASSUME NEW nodes \in Seq(RecallEntry), UnknownDeps(nodes) = {},
           NEW done, NEW h, NEW i \in DOMAIN nodes
    PROVE  FreedBy(nodes, done \union {h}, i) <=>
              \/ FreedBy(nodes, done, i)
              \/ (EdgeInto(nodes, h, i) /\ Freed(nodes, done \union {h}, i))
  <1>1. Freed(nodes, done \union {h}, i) <=> FreedBy(nodes, done \union {h}, i)
    BY FreedIs
  <1>2. EdgeInto(nodes, h, i) <=> \E k \in DOMAIN nodes[i].deps : Dep(nodes, i, k) = h
    BY EdgeIs
  <1> QED BY <1>1, <1>2 DEF FreedBy

\* A sequence and what comes after it.
LEMMA QueuedConcat ==
    ASSUME NEW T, NEW q \in Seq(T), q # <<>>, NEW r \in Seq(T),
           \A p1, p2 \in DOMAIN q : q[p1] = q[p2] => p1 = p2,
           \A p1, p2 \in DOMAIN r : r[p1] = r[p2] => p1 = p2,
           Queued(q) \cap Queued(r) = {}
    PROVE  LET t == Tail(q) \o r IN
           /\ Queued(t) = (Queued(q) \ {Head(q)}) \union Queued(r)
           /\ \A p1, p2 \in DOMAIN t : t[p1] = t[p2] => p1 = p2
           /\ Head(q) \in Queued(q)
  <1> DEFINE n == Len(q)
             m == Len(r)
             t == Tail(q) \o r
  <1>1. n \in Nat /\ m \in Nat /\ n >= 1 /\ DOMAIN q = 1..n /\ DOMAIN r = 1..m /\ Head(q) = q[1]
    OBVIOUS
  <1>2. /\ DOMAIN t = 1..(n - 1 + m)
        /\ \A p \in 1..(n - 1) : t[p] = q[p + 1]
        /\ \A p \in n..(n - 1 + m) : t[p] = r[p - (n - 1)]
    OBVIOUS
  <1> HIDE DEF n, m, t
  <1>3. \A p \in 1..(n - 1) : p + 1 \in 1..n /\ p + 1 # 1
    BY <1>1
  <1>4. \A p \in n..(n - 1 + m) : p - (n - 1) \in 1..m
    BY <1>1
  <1>5. \A p \in 1..(n - 1 + m) : p \in 1..(n - 1) \/ p \in n..(n - 1 + m)
    BY <1>1
  <1>6. \A p \in 1..n : p = 1 \/ (p - 1 \in 1..(n - 1) /\ p - 1 + 1 = p /\ p - 1 \in 1..(n - 1 + m))
    BY <1>1
  <1>8. Queued(q) = {q[p] : p \in 1..n} /\ Queued(r) = {r[p] : p \in 1..m}
        /\ Queued(t) = {t[p] : p \in 1..(n - 1 + m)}
    BY <1>1, <1>2 DEF Queued
  <1>9. 1 \in 1..n
    BY <1>1
  <1>10. Head(q) \in Queued(q)
    BY <1>1, <1>8, <1>9
  <1>11. ASSUME NEW x \in Queued(t) PROVE x \in (Queued(q) \ {Head(q)}) \union Queued(r)
    <2>1. PICK p \in 1..(n - 1 + m) : t[p] = x
      BY <1>8
    <2>2. CASE p \in 1..(n - 1)
      <3>1. x = q[p + 1] /\ p + 1 \in 1..n /\ p + 1 # 1
        BY <1>2, <1>3, <2>1, <2>2
      <3>2. x # q[1]
        BY <1>1, <1>9, <3>1
      <3> QED BY <1>1, <1>8, <3>1, <3>2
    <2>3. CASE p \in n..(n - 1 + m)
      BY <1>2, <1>4, <1>8, <2>1, <2>3
    <2> QED BY <1>5, <2>2, <2>3
  <1>12. ASSUME NEW x \in (Queued(q) \ {Head(q)}) \union Queued(r) PROVE x \in Queued(t)
    <2>1. CASE x \in Queued(r)
      <3>1. PICK p \in 1..m : r[p] = x
        BY <1>8, <2>1
      <3>2. PICK z \in 1..(n - 1 + m) : z \in n..(n - 1 + m) /\ z - (n - 1) = p
        <4>1. p + (n - 1) \in 1..(n - 1 + m)
          BY <1>1
        <4> WITNESS p + (n - 1) \in 1..(n - 1 + m)
        <4> QED BY <1>1
      <3>3. t[z] = x
        BY <1>2, <3>1, <3>2
      <3> QED BY <1>8, <3>3
    <2>2. CASE x \in Queued(q) \ {Head(q)}
      <3>1. PICK p \in 1..n : q[p] = x
        BY <1>8, <2>2
      <3>2. p # 1
        BY <1>1, <2>2, <3>1
      <3>3. t[p - 1] = x /\ p - 1 \in 1..(n - 1 + m)
        BY <1>2, <1>6, <3>1, <3>2
      <3> QED BY <1>8, <3>3
    <2> QED BY <2>1, <2>2
  <1>13. ASSUME NEW p1 \in 1..(n - 1 + m), NEW p2 \in 1..(n - 1 + m), t[p1] = t[p2] PROVE p1 = p2
    <2>1. CASE p1 \in 1..(n - 1) /\ p2 \in 1..(n - 1)
      <3>1. q[p1 + 1] = q[p2 + 1]
        BY <1>2, <1>13, <2>1
      <3>2. p1 + 1 \in DOMAIN q /\ p2 + 1 \in DOMAIN q
        BY <1>1, <1>3, <2>1
      <3>3. p1 + 1 = p2 + 1
        BY <3>1, <3>2
      <3> QED BY <1>1, <3>3
    <2>2. CASE p1 \in n..(n - 1 + m) /\ p2 \in n..(n - 1 + m)
      <3>1. r[p1 - (n - 1)] = r[p2 - (n - 1)]
        BY <1>2, <1>13, <2>2
      <3>2. p1 - (n - 1) \in DOMAIN r /\ p2 - (n - 1) \in DOMAIN r
        BY <1>1, <1>4, <2>2
      <3>3. p1 - (n - 1) = p2 - (n - 1)
        BY <3>1, <3>2
      <3> QED BY <1>1, <3>3
    <2>3. CASE p1 \in 1..(n - 1) /\ p2 \in n..(n - 1 + m)
      <3>1. t[p1] \in Queued(q) /\ t[p2] \in Queued(r)
        BY <1>2, <1>3, <1>4, <1>8, <2>3
      <3> QED BY <1>13, <3>1
    <2>4. CASE p2 \in 1..(n - 1) /\ p1 \in n..(n - 1 + m)
      <3>1. t[p2] \in Queued(q) /\ t[p1] \in Queued(r)
        BY <1>2, <1>3, <1>4, <1>8, <2>4
      <3> QED BY <1>13, <3>1
    <2> QED BY <1>5, <2>1, <2>2, <2>3, <2>4
  <1>14. Queued(t) = (Queued(q) \ {Head(q)}) \union Queued(r)
    BY <1>11, <1>12
  <1> QED BY <1>2, <1>10, <1>13, <1>14 DEF t

LEMMA KahnRoundKeeps ==
    ASSUME NEW nodes \in Seq(RecallEntry), UnknownDeps(nodes) = {},
           NEW k \in Nat, NEW s, KahnInv(nodes, k, s)
    PROVE  KahnInv(nodes, k + 1, KahnRound(nodes, s))
  <1>1. CASE s.q = <<>>
    <2>1. KahnRound(nodes, s) = s
      BY <1>1 DEF KahnRound
    <2> QED BY <1>1, <2>1 DEF KahnInv
  <1>2. CASE s.q # <<>>
    <2> DEFINE h == Head(s.q)
               seen == s.visited \union {h}
               new == KahnFreed(nodes, s)
               t == KahnRound(nodes, s)
    <2>1. /\ s \in KahnStates(nodes)
          /\ \A p, r \in DOMAIN s.q : s.q[p] = s.q[r] => p = r
          /\ s.visited \cap Queued(s.q) = {}
          /\ s.visited \union Queued(s.q) = {i \in DOMAIN nodes : FreedBy(nodes, s.visited, i)}
          /\ Cardinality(s.visited) = k
          /\ \A S \in SUBSET DOMAIN nodes : Waiting(nodes, S) => S \cap s.visited = {}
      BY <1>2 DEF KahnInv
    <2>2. /\ t \in KahnStates(nodes) /\ t.visited = seen /\ t.q = Tail(s.q) \o InOrder(new)
          /\ new \in SUBSET (1..Len(nodes)) /\ Len(nodes) \in Nat /\ DOMAIN nodes = 1..Len(nodes)
      BY <1>2, <2>1, KahnRoundIs, NodesType
    <2>3. /\ InOrder(new) \in Seq(DOMAIN nodes) /\ Queued(InOrder(new)) = new
          /\ \A p, r \in DOMAIN InOrder(new) : InOrder(new)[p] = InOrder(new)[r] => p = r
      BY <2>2, QueueIs
    <2>4. s.visited \in SUBSET DOMAIN nodes /\ s.q \in Seq(DOMAIN nodes)
      BY <2>1 DEF KahnStates
    <2>5. h \in Queued(s.q) /\ h \notin s.visited /\ FreedBy(nodes, s.visited, h) /\ h \in DOMAIN nodes
      <3>1. h = s.q[1] /\ 1 \in DOMAIN s.q
        BY <1>2, <2>4
      <3>2. h \in Queued(s.q)
        BY <3>1 DEF Queued
      <3> HIDE DEF h
      <3> QED BY <2>1, <3>2
    <2>6. \A i \in DOMAIN nodes : FreedBy(nodes, seen, i) <=> FreedBy(nodes, s.visited, i) \/ i \in new
      <3>1. SUFFICES ASSUME NEW i \in DOMAIN nodes
                     PROVE  FreedBy(nodes, seen, i) <=> FreedBy(nodes, s.visited, i) \/ i \in new
        OBVIOUS
      <3>2. i \in new <=> EdgeInto(nodes, h, i) /\ Freed(nodes, seen, i)
        BY DEF KahnFreed, EdgeInto
      <3>3. FreedBy(nodes, seen, i) <=>
              \/ FreedBy(nodes, s.visited, i)
              \/ (EdgeInto(nodes, h, i) /\ Freed(nodes, seen, i))
        <4> HIDE DEF h
        <4> QED BY FreedWhen
      <3> HIDE DEF h, new, seen
      <3> QED BY <3>2, <3>3
    <2>7. \A i \in new : i \in DOMAIN nodes /\ ~FreedBy(nodes, s.visited, i)
      <3>1. SUFFICES ASSUME NEW i \in new, FreedBy(nodes, s.visited, i) PROVE FALSE
        BY <2>2
      <3>2. i \in DOMAIN nodes /\ EdgeInto(nodes, h, i)
        BY DEF KahnFreed, EdgeInto
      <3>3. PICK j \in DOMAIN nodes[i].deps : Dep(nodes, i, j) = h
        <4> HIDE DEF h
        <4> QED BY <3>2, EdgeIs
      <3> HIDE DEF h
      <3> QED BY <2>5, <3>1, <3>3 DEF FreedBy
    <2>8. Queued(s.q) \cap new = {}
      <3> HIDE DEF new
      <3> QED BY <2>1, <2>7
    <2>9. /\ Queued(t.q) = (Queued(s.q) \ {h}) \union new
          /\ \A p, r \in DOMAIN t.q : t.q[p] = t.q[r] => p = r
      <3> DEFINE q == s.q
                 r == InOrder(new)
      <3>1. /\ q \in Seq(DOMAIN nodes) /\ q # <<>> /\ r \in Seq(DOMAIN nodes)
            /\ \A p1, p2 \in DOMAIN q : q[p1] = q[p2] => p1 = p2
            /\ \A p1, p2 \in DOMAIN r : r[p1] = r[p2] => p1 = p2
            /\ Queued(q) \cap Queued(r) = {}
            /\ Queued(r) = new /\ h = Head(q) /\ t.q = Tail(q) \o r
        <4> HIDE DEF new, t
        <4> QED BY <1>2, <2>1, <2>2, <2>3, <2>4, <2>8
      <3> HIDE DEF q, r, h, new, t
      <3>2. /\ Queued(Tail(q) \o r) = (Queued(q) \ {Head(q)}) \union Queued(r)
            /\ \A p1, p2 \in DOMAIN (Tail(q) \o r) : (Tail(q) \o r)[p1] = (Tail(q) \o r)[p2] => p1 = p2
        BY <3>1, QueuedConcat
      <3> QED BY <3>1, <3>2 DEF q
    <2>10. t.visited \cap Queued(t.q) = {}
      <3>1. s.visited \cap new = {}
        <4> HIDE DEF new
        <4> QED BY <2>1, <2>7
      <3>2. h \notin new
        <4> HIDE DEF new, h
        <4> QED BY <2>5, <2>7
      <3> HIDE DEF t, new, h
      <3> QED BY <2>1, <2>2, <2>9, <3>1, <3>2
    <2>11. t.visited \union Queued(t.q) = {i \in DOMAIN nodes : FreedBy(nodes, t.visited, i)}
      <3>1. t.visited \union Queued(t.q) = (s.visited \union Queued(s.q)) \union new
        <4> HIDE DEF t, new, h
        <4> QED BY <2>2, <2>5, <2>9
      <3>2. {i \in DOMAIN nodes : FreedBy(nodes, seen, i)}
              = {i \in DOMAIN nodes : FreedBy(nodes, s.visited, i)} \union new
        <4> HIDE DEF seen, new
        <4> QED BY <2>6, <2>7
      <3> HIDE DEF t, new, seen
      <3> QED BY <2>1, <2>2, <3>1, <3>2
    <2>12. Cardinality(t.visited) = k + 1
      <3>1. IsFiniteSet(s.visited)
        BY <2>4, NodesType, FS_Subset
      <3> HIDE DEF t, h
      <3> QED BY <2>1, <2>2, <2>5, <3>1, FS_AddElement
    <2>13. \A S \in SUBSET DOMAIN nodes : Waiting(nodes, S) => S \cap t.visited = {}
      <3>1. SUFFICES ASSUME NEW S \in SUBSET DOMAIN nodes, Waiting(nodes, S), h \in S PROVE FALSE
        <4> HIDE DEF t, h
        <4> QED BY <2>1, <2>2
      <3>2. PICK j \in DOMAIN nodes[h].deps :
              Named(nodes, nodes[h].deps[j]) = {} \/ Dep(nodes, h, j) \in S
        <4> HIDE DEF h
        <4> QED BY <3>1 DEF Waiting, Dep
      <3>3. Named(nodes, nodes[h].deps[j]) # {}
        <4> HIDE DEF h
        <4> QED BY <2>5, KnownIs
      <3>4. Dep(nodes, h, j) \in s.visited
        <4> HIDE DEF h
        <4> QED BY <2>5 DEF FreedBy
      <3> QED BY <2>1, <3>1, <3>2, <3>3, <3>4
    <2> HIDE DEF t
    <2>14. KahnInv(nodes, k + 1, t)
      BY <2>2, <2>9, <2>10, <2>11, <2>12, <2>13 DEF KahnInv
    <2> QED BY <2>14 DEF t
  <1> QED BY <1>1, <1>2

\* BuildDag accepts a graph exactly when no nodes of it wait for one another.
THEOREM BuildDagIs ==
    ASSUME NEW nodes \in Seq(RecallEntry)
    PROVE  BuildDag(nodes) <=> ~WaitForEachOther(nodes)
  <1>1. /\ Len(nodes) \in Nat /\ DOMAIN nodes = 1..Len(nodes)
        /\ IsFiniteSet(DOMAIN nodes) /\ Cardinality(DOMAIN nodes) = Len(nodes)
    BY NodesType
  <1>2. CASE UnknownDeps(nodes) # {}
    <2>1. PICK i \in DOMAIN nodes : \E k \in DOMAIN nodes[i].deps : Named(nodes, nodes[i].deps[k]) = {}
      BY <1>2, KnownIs
    <2>2. {i} \in (SUBSET DOMAIN nodes) \ {{}} /\ Waiting(nodes, {i})
      BY <2>1 DEF Waiting
    <2>3. WaitForEachOther(nodes)
      BY <2>2 DEF WaitForEachOther
    <2> QED BY <1>2, <2>3 DEF BuildDag
  <1>3. CASE UnknownDeps(nodes) = {}
    <2> DEFINE n == Len(nodes)
               v == KahnRounds(nodes).visited
    <2>1. PICK f \in [0..n -> KahnStates(nodes)] :
             /\ f[0] = KahnStart(nodes)
             /\ \A k \in 1..n : f[k] = KahnRound(nodes, f[k - 1])
             /\ KahnRounds(nodes) = f[n]
      BY KahnRoundsIs
    <2>2. KahnInv(nodes, n, f[n])
      <3> DEFINE P == {k \in 0..n : KahnInv(nodes, k, f[k])}
      <3>1. 0 \in P
        BY <1>1, <2>1, KahnStartKeeps
      <3>2. ASSUME NEW k \in 1..n, k - 1 \in P PROVE k \in P
        <4>1. k - 1 \in Nat /\ KahnInv(nodes, k - 1, f[k - 1]) /\ (k - 1) + 1 = k /\ k \in 0..n
          BY <1>1, <3>2
        <4>2. KahnInv(nodes, (k - 1) + 1, KahnRound(nodes, f[k - 1]))
          BY <1>3, <4>1, KahnRoundKeeps
        <4>3. f[k] = KahnRound(nodes, f[k - 1])
          BY <2>1
        <4> QED BY <4>1, <4>2, <4>3
      <3>3. P \in SUBSET (0..n)
        OBVIOUS
      <3>4. P = 0..n
        <4> HIDE DEF P, n
        <4> QED BY <1>1, <3>1, <3>2, <3>3, PlaceByPlace DEF n
      <3>5. n \in 0..n
        BY <1>1
      <3> QED BY <3>4, <3>5
    <2> DEFINE s == f[n]
    <2>3. /\ v = s.visited /\ v \in SUBSET DOMAIN nodes /\ s.q \in Seq(DOMAIN nodes)
          /\ v \cap Queued(s.q) = {}
          /\ v \union Queued(s.q) = {i \in DOMAIN nodes : FreedBy(nodes, v, i)}
          /\ s.q # <<>> => Cardinality(v) = n
          /\ \A S \in SUBSET DOMAIN nodes : Waiting(nodes, S) => S \cap v = {}
      BY <2>1, <2>2 DEF KahnInv, KahnStates
    <2> HIDE DEF s, v
    <2>4. Cardinality(v) = n <=> v = DOMAIN nodes
      BY <1>1, <2>3, FS_Subset
    <2>5. s.q = <<>>
      <3>1. SUFFICES ASSUME s.q # <<>> PROVE FALSE
        OBVIOUS
      <3>2. v = DOMAIN nodes
        BY <2>3, <2>4, <3>1
      <3>3. s.q[1] \in DOMAIN nodes /\ s.q[1] \in Queued(s.q)
        <4>1. 1 \in DOMAIN s.q
          BY <2>3, <3>1
        <4> QED BY <2>3, <4>1 DEF Queued
      <3> QED BY <2>3, <3>2, <3>3
    <2>6. v = {i \in DOMAIN nodes : FreedBy(nodes, v, i)}
      <3>1. Queued(s.q) = {}
        BY <2>5 DEF Queued
      <3> QED BY <2>3, <3>1
    <2>7. ASSUME v # DOMAIN nodes PROVE WaitForEachOther(nodes)
      <3> DEFINE S == DOMAIN nodes \ v
      <3>1. S \in (SUBSET DOMAIN nodes) \ {{}}
        BY <2>3, <2>7
      <3>2. ASSUME NEW i \in S PROVE \E k \in DOMAIN nodes[i].deps : Dep(nodes, i, k) \in S
        <4>1. ~FreedBy(nodes, v, i)
          BY <2>6
        <4>2. PICK k \in DOMAIN nodes[i].deps : Dep(nodes, i, k) \notin v
          BY <4>1 DEF FreedBy
        <4>3. Dep(nodes, i, k) \in DOMAIN nodes
          BY <1>3, DepType
        <4> QED BY <4>2, <4>3
      <3>3. Waiting(nodes, S)
        <4> HIDE DEF S
        <4> QED BY <3>2 DEF Waiting, Dep
      <3> HIDE DEF S
      <3> QED BY <3>1, <3>3 DEF WaitForEachOther
    <2>8. ASSUME WaitForEachOther(nodes), v = DOMAIN nodes PROVE FALSE
      <3>1. PICK S \in (SUBSET DOMAIN nodes) \ {{}} : Waiting(nodes, S)
        BY <2>8 DEF WaitForEachOther
      <3> QED BY <2>3, <2>8, <3>1
    <2>9. BuildDag(nodes) <=> Cardinality(v) = n
      BY <1>3 DEF BuildDag, v
    <2> QED BY <2>4, <2>7, <2>8, <2>9
  <1> QED BY <1>2, <1>3

LEMMA ReachedIs ==
    ASSUME NEW nodes \in Seq(RecallEntry)
    PROVE  \E f \in [0..Len(nodes) -> SUBSET DOMAIN nodes] :
             /\ f[0] = Roots(nodes)
             /\ \A k \in 1..Len(nodes) : f[k] = Wave(nodes, f[k - 1])
             /\ Reached(nodes) = f[Len(nodes)]
  <1> DEFINE n == Len(nodes)
             S == SUBSET DOMAIN nodes
             step == [k \in 1..n |-> [s \in S |-> Wave(nodes, s)]]
  <1>1. n \in Nat /\ Roots(nodes) \in S /\ \A s \in S : Wave(nodes, s) \in S
    BY NodesType DEF Roots, Wave
  <1>2. step \in [1..n -> [S -> S]]
    <2> HIDE DEF S
    <2> QED BY <1>1
  <1>3. \E f \in [0..n -> S] : f[0] = Roots(nodes) /\ \A k \in 1..n : f[k] = step[k][f[k - 1]]
    <2> HIDE DEF step, S, n
    <2> QED BY <1>1, <1>2, RoundsExist
  <1>4. PICK f \in [0..n -> S] : f[0] = Roots(nodes) /\ \A k \in 1..n : f[k] = step[k][f[k - 1]]
    BY <1>3
  <1>5. ASSUME NEW k \in 1..n PROVE f[k] = Wave(nodes, f[k - 1])
    <2>1. k - 1 \in 0..n
      BY <1>1
    <2>2. f[k - 1] \in S
      BY <2>1
    <2> HIDE DEF S
    <2> QED BY <1>4, <2>2
  <1> DEFINE body(g) == [k \in 0..n |-> IF k = 0 THEN Roots(nodes)
                                        ELSE Wave(nodes, g[k - 1])]
  <1>6. f = body(f)
    <2>1. \A k \in 0..n : f[k] = IF k = 0 THEN Roots(nodes) ELSE Wave(nodes, f[k - 1])
      <3>1. \A k \in 0..n : k = 0 \/ k \in 1..n
        BY <1>1
      <3> HIDE DEF step, S
      <3> QED BY <1>4, <1>5, <3>1
    <2> HIDE DEF step, S, n
    <2> QED BY <2>1
  <1>7. ASSUME NEW g, g = body(g) PROVE g = f
    <2> DEFINE P == {k \in 0..n : g[k] = f[k]}
    <2>1. \A k \in 0..n : g[k] = IF k = 0 THEN Roots(nodes) ELSE Wave(nodes, g[k - 1])
      <3>1. \A k \in 0..n : body(g)[k] = IF k = 0 THEN Roots(nodes) ELSE Wave(nodes, g[k - 1])
        OBVIOUS
      <3> HIDE DEF body
      <3> QED BY <1>7, <3>1
    <2>2. 0 \in P
      <3>1. 0 \in 0..n
        BY <1>1
      <3> HIDE DEF step, S, n
      <3> QED BY <1>4, <2>1, <3>1
    <2>3. ASSUME NEW k \in 1..n, k - 1 \in P PROVE k \in P
      <3>1. k \in 0..n /\ k # 0
        BY <1>1
      <3> HIDE DEF step, S, n
      <3> QED BY <1>5, <2>1, <2>3, <3>1
    <2>4. P = 0..n
      <3>1. P \in SUBSET (0..n)
        OBVIOUS
      <3> HIDE DEF P, n
      <3> QED BY <1>1, <2>2, <2>3, <3>1, PlaceByPlace
    <2>5. DOMAIN g = 0..n /\ g = [k \in 0..n |-> g[k]]
      <3>1. body(g) = [k \in 0..n |-> body(g)[k]]
        OBVIOUS
      <3> HIDE DEF body, n
      <3> QED BY <1>7, <3>1
    <2>6. \A k \in 0..n : g[k] = f[k]
      BY <2>4
    <2> HIDE DEF body, P, n, S, step
    <2> QED BY <2>5, <2>6
  <1>8. Reached(nodes) = (CHOOSE g : g = body(g))[n]
    BY DEF Reached
  <1>9. (CHOOSE g : g = body(g)) = f
    <2> HIDE DEF body
    <2> QED BY <1>6, <1>7
  <1> HIDE DEF body, step
  <1> QED BY <1>4, <1>5, <1>8, <1>9

\* A graph that BuildDag accepts is run to its end: as long as a node is left,
\* the next wave reaches one more.
THEOREM BuiltReturns ==
    ASSUME NEW nodes \in Seq(RecallEntry), BuildDag(nodes)
    PROVE  ExecuteReturns(nodes)
  <1> DEFINE n == Len(nodes)
             N == DOMAIN nodes
  <1>1. n \in Nat /\ N = 1..n /\ IsFiniteSet(N) /\ Cardinality(N) = n
    BY NodesType
  <1>2. UnknownDeps(nodes) = {} /\ ~WaitForEachOther(nodes)
    BY BuildDagIs DEF BuildDag
  <1>3. PICK f \in [0..n -> SUBSET N] :
          /\ f[0] = Roots(nodes)
          /\ \A k \in 1..n : f[k] = Wave(nodes, f[k - 1])
          /\ Reached(nodes) = f[n]
    BY ReachedIs
  <1> DEFINE P == {k \in 0..n : f[k] = N \/ Cardinality(f[k]) >= k}
  <1>4. \A k \in 0..n : f[k] \in SUBSET N /\ IsFiniteSet(f[k]) /\ Cardinality(f[k]) \in Nat
    <2>1. SUFFICES ASSUME NEW k \in 0..n
                   PROVE  f[k] \in SUBSET N /\ IsFiniteSet(f[k]) /\ Cardinality(f[k]) \in Nat
      OBVIOUS
    <2>2. f[k] \in SUBSET N
      OBVIOUS
    <2> HIDE DEF N
    <2> QED BY <1>1, <2>2, FS_Subset, FS_CardinalityType
  <1>5. 0 \in P
    <2>1. 0 \in 0..n
      BY <1>1
    <2> HIDE DEF n, N
    <2> QED BY <1>4, <2>1
  <1>6. ASSUME NEW k \in 1..n, k - 1 \in P PROVE k \in P
    <2>1. k \in 0..n /\ k - 1 \in 0..n /\ f[k] = Wave(nodes, f[k - 1])
      BY <1>1, <1>3
    <2>2. CASE f[k - 1] = N
      <3>1. Wave(nodes, N) = N
        BY DEF Wave
      <3> QED BY <2>1, <2>2, <3>1
    <2>3. CASE f[k - 1] # N
      <3> DEFINE S == N \ f[k - 1]
      <3>1. S \in (SUBSET N) \ {{}} /\ S \in (SUBSET DOMAIN nodes) \ {{}}
        BY <1>4, <2>1, <2>3
      <3>2. ~Waiting(nodes, S)
        BY <1>2, <3>1 DEF WaitForEachOther
      <3>3. PICK i \in S : \A j \in DOMAIN nodes[i].deps :
               Named(nodes, nodes[i].deps[j]) # {} /\ Dep(nodes, i, j) \notin S
        <4> HIDE DEF S
        <4> QED BY <3>2 DEF Waiting, Dep
      <3>4. FreedBy(nodes, f[k - 1], i)
        <4>1. ASSUME NEW j \in DOMAIN nodes[i].deps PROVE Dep(nodes, i, j) \in f[k - 1]
          <5>1. Dep(nodes, i, j) \in N
            BY <1>2, DepType
          <5> QED BY <3>3, <5>1
        <4> QED BY <4>1 DEF FreedBy
      <3>5. i \in N /\ i \notin f[k - 1]
        OBVIOUS
      <3>6. i \in f[k]
        <4>1. Freed(nodes, f[k - 1], i)
          BY <1>2, <3>4, <3>5, FreedIs
        <4> QED BY <2>1, <3>5, <4>1 DEF Wave
      <3>7. f[k - 1] \in SUBSET f[k]
        BY <2>1 DEF Wave
      <3>8. Cardinality(f[k - 1]) >= k - 1
        BY <1>6, <2>3
      <3>9. Cardinality(f[k - 1]) < Cardinality(f[k])
        <4>1. /\ IsFiniteSet(f[k]) /\ Cardinality(f[k]) \in Nat /\ Cardinality(f[k - 1]) \in Nat
              /\ f[k - 1] # f[k]
          BY <1>4, <2>1, <3>5, <3>6
        <4> HIDE DEF n, N, S
        <4>2. Cardinality(f[k - 1]) <= Cardinality(f[k])
              /\ (Cardinality(f[k]) = Cardinality(f[k - 1]) => f[k] = f[k - 1])
          BY <3>7, <4>1, FS_Subset
        <4> QED BY <4>1, <4>2
      <3>10. Cardinality(f[k]) \in Nat /\ Cardinality(f[k - 1]) \in Nat
        BY <1>4, <2>1
      <3>11. Cardinality(f[k]) >= k
        <4> HIDE DEF N, S
        <4> QED BY <3>8, <3>9, <3>10
      <3> QED BY <2>1, <3>11
    <2> QED BY <2>2, <2>3
  <1>7. P = 0..n
    <2>1. P \in SUBSET (0..n)
      OBVIOUS
    <2> HIDE DEF P, n
    <2> QED BY <1>1, <1>5, <1>6, <2>1, PlaceByPlace
  <1>8. f[n] = N \/ Cardinality(f[n]) >= n
    <2>1. n \in 0..n
      BY <1>1
    <2>2. n \in P
      BY <1>7, <2>1
    <2> QED BY <2>2
  <1>9. f[n] = N
    <2>1. n \in 0..n
      BY <1>1
    <2> HIDE DEF n, N
    <2>2. /\ f[n] \in SUBSET N /\ Cardinality(f[n]) <= Cardinality(N)
          /\ (Cardinality(N) = Cardinality(f[n]) => N = f[n])
      BY <1>1, <1>4, <2>1, FS_Subset
    <2> QED BY <1>1, <1>4, <1>8, <2>1, <2>2
  <1> QED BY <1>3, <1>9 DEF ExecuteReturns

-----------------------------------------------------------------------------
(* The start.                                                              *)

\* What is loaded from a recall stage.
GraphOK(g) ==
    /\ g.nodes \in Seq(RecallEntry) /\ DOMAIN g.slots = DOMAIN g.nodes
    /\ WaitForEachOther(g.nodes) <=> g.nodes # <<>> /\ ~g.loaded
    /\ g.loaded => ExecuteReturns(g.nodes)

GraphInv == \A b \in DOMAIN pipelines : GraphOK(pipelines[b].recall)
RankInv == \A b \in DOMAIN rankConfig : rankConfig[b].top_k \in Int

FilesInv == \E d \in Deployments : main = d.main /\ files \subseteq d.files

ConfigInv ==
    /\ DOMAIN config = DOMAIN Defaults \union {"loaded"}
    /\ \A f \in DOMAIN Defaults : config[f] \in Int

\* The handlers of the first n entries have been created.
EntriesOf(b, n) == {k \in 1..n : Businesses[k].business_type = b}
Naming(h, n) == {k \in 1..n : Businesses[k].handler_name = h}

RoutesUpTo(n) ==
    /\ DOMAIN routed = {Businesses[k].business_type : k \in 1..n}
    /\ \A b \in DOMAIN routed : routed[b] = Businesses[Max(EntriesOf(b, n))].handler_name
    /\ DOMAIN handling = {Businesses[k].handler_name : k \in 1..n}
    /\ \A h \in DOMAIN handling : handling[h] = Businesses[Max(Naming(h, n))]

SessionsRegistered ==
    sessionOf = [b \in {Businesses[k].business_type : k \in DOMAIN Businesses} |->
        Businesses[Max({k \in DOMAIN Businesses : Businesses[k].business_type = b})].session_name]

RouteInv ==
    /\ phase \in {"config", "pipelines", "context", "businesses"} =>
            entry = 1 /\ routed = Nothing /\ handling = Nothing
    /\ phase \in {"handlers", "serving"} =>
            /\ entry \in 1..(Len(Businesses) + 1)
            /\ RoutesUpTo(entry - 1)
            /\ SessionsRegistered
    /\ phase = "serving" => entry = Len(Businesses) + 1

StartInv ==
    /\ StartTypeOK /\ FilesInv /\ ConfigInv
    /\ GraphInv /\ RankInv /\ RouteInv

-----------------------------------------------------------------------------

LEMMA NamedEntriesType ==
    ASSUME NEW stage, stage.entries \in Seq(RecallEntry)
    PROVE  NamedEntries(stage) \in Seq(RecallEntry)
  <1> DEFINE P == {i \in DOMAIN stage.entries : stage.entries[i].name # ""}
  <1>1. P \in SUBSET DOMAIN stage.entries
    OBVIOUS
  <1>2. NamedEntries(stage) = AtPlaces(stage.entries, P)
    BY DEF NamedEntries
  <1> HIDE DEF P
  <1> QED BY <1>1, <1>2, AtPlacesIs

LEMMA NoNodes ==
    ASSUME NEW nodes \in Seq(RecallEntry), nodes = <<>>
    PROVE  ~WaitForEachOther(nodes) /\ ExecuteReturns(nodes)
  <1>1. DOMAIN nodes = {}
    OBVIOUS
  <1>2. ~WaitForEachOther(nodes)
    BY <1>1 DEF WaitForEachOther
  <1> QED BY <1>2, BuildDagIs, BuiltReturns

LEMMA LoadRecallIs ==
    ASSUME NEW stage, stage.entries \in Seq(RecallEntry),
           stage \in {Absent, NotAList} \/ stage = ListOf(stage.entries)
    PROVE  GraphOK(LoadRecall(stage))
  <1> DEFINE nodes == NamedEntries(stage)
             g == LoadRecall(stage)
  <1>1. nodes \in Seq(RecallEntry)
    BY NamedEntriesType
  <1>2. /\ g.nodes = nodes /\ g.slots = [i \in DOMAIN nodes |-> Slot(nodes[i])]
        /\ g.loaded <=> stage # NotAList /\ BuildDag(nodes)
    BY DEF LoadRecall
  <1>3. ASSUME stage = NotAList PROVE nodes = <<>>
    <2>1. stage.entries = <<>>
      BY <1>3 DEF NotAList
    <2> DEFINE P == {i \in DOMAIN stage.entries : stage.entries[i].name # ""}
    <2>2. P = {}
      BY <2>1
    <2>3. Len(AtPlaces(stage.entries, P)) = Cardinality(P) /\ nodes = AtPlaces(stage.entries, P)
      <3>1. P \in SUBSET DOMAIN stage.entries
        OBVIOUS
      <3>2. nodes = AtPlaces(stage.entries, P)
        BY DEF NamedEntries
      <3> HIDE DEF P
      <3> QED BY <3>1, <3>2, AtPlacesIs
    <2>4. Cardinality({}) = 0
      BY FS_EmptySet
    <2> HIDE DEF nodes, P
    <2> QED BY <1>1, <2>2, <2>3, <2>4
  <1>4. /\ BuildDag(nodes) <=> ~WaitForEachOther(nodes)
        /\ BuildDag(nodes) => ExecuteReturns(nodes)
        /\ nodes = <<>> => ~WaitForEachOther(nodes)
    <2> HIDE DEF nodes
    <2> QED BY <1>1, BuildDagIs, BuiltReturns, NoNodes
  <1> HIDE DEF nodes, g
  <1>5. DOMAIN g.slots = DOMAIN g.nodes
    BY <1>2
  <1>6. GraphOK(g)
    BY <1>1, <1>2, <1>3, <1>4, <1>5 DEF GraphOK
  <1> QED BY <1>6 DEF g

LEMMA BusinessesType ==
    ASSUME FilesInv
    PROVE  /\ Businesses \in Seq(BusinessEntry)
           /\ Len(Businesses) \in Nat /\ DOMAIN Businesses = 1..Len(Businesses)
  <1>1. main.businesses.entries \in Seq(BusinessEntry)
    BY FilesAssumption DEF FilesInv
  <1> DEFINE entries == main.businesses.entries
             P == {i \in DOMAIN entries : HasNames(entries[i])}
  <1>2. P \in SUBSET DOMAIN entries /\ Businesses = AtPlaces(entries, P)
    BY DEF Businesses
  <1> HIDE DEF entries, P
  <1>3. Businesses \in Seq(BusinessEntry)
    BY <1>1, <1>2, AtPlacesIs DEF entries
  <1> QED BY <1>3

LEMMA StartTables ==
    ASSUME NEW d \in Deployments, StartInit(d)
    PROVE  StartInv
  <1>1. main = d.main /\ files = d.files
    BY DEF StartInit
  <1>2. FilesInv
    BY <1>1 DEF FilesInv
  <1>3. /\ phase = "config" /\ entry = 1 /\ routed = Nothing /\ handling = Nothing /\ tasks = Nothing
        /\ pipelines = Nothing /\ rankConfig = Nothing /\ DOMAIN Nothing = {} /\ threads = 0
    BY DEF StartInit, Nothing
  <1>4. ConfigInv
    <2>1. DOMAIN Given(Nothing) = DOMAIN Defaults /\ \A f \in DOMAIN Defaults : Given(Nothing)[f] = Defaults[f]
      BY DEF Given, Nothing
    <2>2. \A f \in DOMAIN Defaults : Defaults[f] \in Int /\ f # "loaded"
      BY DEF Defaults
    <2>3. config = Put(Given(Nothing), "loaded", FALSE)
      BY DEF StartInit
    <2>4. DOMAIN config = DOMAIN Defaults \union {"loaded"}
      BY <2>1, <2>3 DEF Put
    <2>5. ASSUME NEW f \in DOMAIN Defaults PROVE config[f] \in Int
      <3>1. config[f] = Given(Nothing)[f]
        BY <2>1, <2>2, <2>3 DEF Put
      <3> QED BY <2>1, <2>2, <3>1
    <2> QED BY <2>4, <2>5 DEF ConfigInv
  <1>5. StartTypeOK
    BY <1>3, <1>4 DEF StartTypeOK, ConfigInv
  <1>6. GraphInv /\ RankInv /\ RouteInv
    BY <1>3 DEF GraphInv, RankInv, RouteInv
  <1> QED BY <1>2, <1>4, <1>5, <1>6 DEF StartInv

LEMMA LoadAllKeeps ==
    ASSUME StartInv, LoadAll
    PROVE  StartInv'
  <1> DEFINE read == Given(main.numbers)
             legal == main.state = "ok" /\ ValidateGlobalConfig(read, main.level)
  <1>1. /\ phase = "config" /\ phase' \in {"pipelines", "exited"}
        /\ main' = main /\ files' = files /\ UNCHANGED <<entry, routed, handling, sessionOf, tasks>>
        /\ pipelines' = pipelines /\ rankConfig' = rankConfig /\ threads' = threads
    BY DEF LoadAll, inputs
  <1>2. /\ phase' = IF legal THEN "pipelines" ELSE "exited"
        /\ config' = IF main.state = "ok" THEN Put(read, "loaded", legal) ELSE config
    BY DEF LoadAll
  <1>3. DOMAIN read = DOMAIN Defaults /\ \A f \in DOMAIN Defaults : read[f] \in Int
    <2>1. main.numbers \in [DOMAIN main.numbers -> Int]
      BY FilesAssumption DEF StartInv, FilesInv
    <2>2. \A f \in DOMAIN Defaults : Defaults[f] \in Int
      BY DEF Defaults
    <2> QED BY <2>1, <2>2 DEF Given
  <1> HIDE DEF read, legal
  <1>4. \A f \in DOMAIN Defaults : f # "loaded"
    BY DEF Defaults
  <1>5. ConfigInv'
    <2>1. CASE main.state = "ok"
      <3>1. DOMAIN config' = DOMAIN Defaults \union {"loaded"}
        BY <1>2, <1>3, <2>1 DEF Put
      <3>2. ASSUME NEW f \in DOMAIN Defaults PROVE config'[f] \in Int
        <4>1. config'[f] = read[f]
          BY <1>2, <1>3, <1>4, <2>1 DEF Put
        <4> QED BY <1>3, <4>1
      <3> QED BY <3>1, <3>2 DEF ConfigInv
    <2>2. CASE main.state # "ok"
      BY <1>2, <2>2 DEF StartInv, ConfigInv
    <2> QED BY <2>1, <2>2
  <1>6. phase' = "pipelines" => config'.loaded
    <2>1. SUFFICES ASSUME phase' = "pipelines" PROVE config'.loaded
      OBVIOUS
    <2>2. legal /\ main.state = "ok"
      BY <1>2, <2>1 DEF legal
    <2>3. legal = TRUE
      BY <2>2
    <2>4. config' = Put(read, "loaded", TRUE)
      BY <1>2, <2>2, <2>3
    <2>5. config'["loaded"] = TRUE
      BY <2>4 DEF Put
    <2> QED BY <2>5
  <1>7. StartTypeOK'
    BY <1>1, <1>5, <1>6 DEF StartInv, StartTypeOK, ConfigInv
  <1>8. FilesInv' /\ GraphInv' /\ RankInv'
    BY <1>1 DEF StartInv, FilesInv, GraphInv, RankInv
  <1>9. RouteInv'
    BY <1>1 DEF StartInv, RouteInv
  <1> QED BY <1>5, <1>7, <1>8, <1>9 DEF StartInv

LEMMA LoadBusinessKeeps ==
    ASSUME StartInv, NEW f \in files, LoadBusiness(f)
    PROVE  StartInv'
  <1>1. /\ phase = "pipelines" /\ phase' = "pipelines" /\ main' = main /\ files' = files \ {f}
        /\ UNCHANGED <<entry, config, threads, routed, handling, sessionOf, tasks>>
    BY DEF LoadBusiness
  <1>2. PICK d \in Deployments : main = d.main /\ files \subseteq d.files
    BY DEF StartInv, FilesInv
  <1>3. /\ f.recall \in {Absent, NotAList} \/ f.recall = ListOf(f.recall.entries)
        /\ f.recall.entries \in Seq(RecallEntry)
        /\ f.rank_config = <<>> \/ Head(f.rank_config).top_k \in Int
    BY <1>2, FilesAssumption
  <1>4. FilesInv'
    <2>1. main' = d.main /\ files' \subseteq d.files
      BY <1>1, <1>2
    <2> QED BY <2>1 DEF FilesInv
  <1>5. GraphInv'
    <2> DEFINE pipe == [recall |-> LoadRecall(f.recall), filter |-> LoadChain(f.filter),
                        postprocess |-> LoadChain(f.postprocess)]
    <2>1. GraphOK(pipe.recall)
      BY <1>3, LoadRecallIs
    <2>2. pipelines' = Put(pipelines, f.business_type, pipe) \/ pipelines' = pipelines
      BY DEF LoadBusiness
    <2> HIDE DEF pipe
    <2> SUFFICES ASSUME NEW b \in DOMAIN pipelines' PROVE GraphOK(pipelines'[b].recall)
      BY DEF GraphInv
    <2>3. pipelines'[b] = pipe \/ (b \in DOMAIN pipelines /\ pipelines'[b] = pipelines[b])
      BY <2>2 DEF Put
    <2> QED BY <2>1, <2>3 DEF StartInv, GraphInv
  <1>6. RankInv'
    <2> DEFINE stage == ParseStageConfig(Head(f.rank_config))
    <2>1. f.rank_config # <<>> => stage.top_k \in Int
      BY <1>3 DEF ParseStageConfig
    <2>2. \/ f.rank_config # <<>> /\ rankConfig' = Put(rankConfig, f.business_type, stage)
          \/ rankConfig' = rankConfig
      BY DEF LoadBusiness
    <2> HIDE DEF stage
    <2> SUFFICES ASSUME NEW b \in DOMAIN rankConfig' PROVE rankConfig'[b].top_k \in Int
      BY DEF RankInv
    <2>3. \/ f.rank_config # <<>> /\ rankConfig'[b] = stage
          \/ b \in DOMAIN rankConfig /\ rankConfig'[b] = rankConfig[b]
      BY <2>2 DEF Put
    <2> QED BY <2>1, <2>3 DEF StartInv, RankInv
  <1>7. StartTypeOK' /\ ConfigInv' /\ RouteInv'
    BY <1>1 DEF StartInv, StartTypeOK, ConfigInv, RouteInv
  <1> QED BY <1>4, <1>5, <1>6, <1>7 DEF StartInv

LEMMA InitPoolKeeps ==
    ASSUME StartInv, InitPool
    PROVE  StartInv'
  <1>1. /\ phase = "pipelines" /\ phase' = "context" /\ main' = main /\ files' = files
        /\ UNCHANGED <<entry, config, pipelines, rankConfig, routed, handling, sessionOf, tasks>>
    BY DEF InitPool, inputs
  <1>2. threads' \in Nat /\ threads' > 0
    <2>1. config.dag_pool_threads \in Int
      <3>1. "dag_pool_threads" \in DOMAIN Defaults
        BY DEF Defaults
      <3> QED BY <3>1 DEF StartInv, ConfigInv
    <2> QED BY <2>1, CoresAssumption DEF InitPool
  <1>3. StartTypeOK'
    BY <1>1, <1>2 DEF StartInv, StartTypeOK
  <1>4. FilesInv' /\ ConfigInv' /\ GraphInv' /\ RankInv' /\ RouteInv'
    BY <1>1 DEF StartInv, FilesInv, ConfigInv, GraphInv, RankInv, RouteInv
  <1> QED BY <1>3, <1>4 DEF StartInv

LEMMA InitContextKeeps ==
    ASSUME StartInv, InitContext
    PROVE  StartInv'
  <1>1. /\ phase = "context" /\ phase' = "businesses" /\ main' = main /\ files' = files
        /\ UNCHANGED <<entry, config, pipelines, rankConfig, threads, routed, handling, sessionOf, tasks>>
    BY DEF InitContext, inputs, tables
  <1>2. StartTypeOK'
    BY <1>1 DEF StartInv, StartTypeOK
  <1>3. FilesInv' /\ ConfigInv' /\ GraphInv' /\ RankInv' /\ RouteInv'
    BY <1>1 DEF StartInv, FilesInv, ConfigInv, GraphInv, RankInv, RouteInv
  <1> QED BY <1>2, <1>3 DEF StartInv

LEMMA ReadBusinessesKeeps ==
    ASSUME StartInv, ReadBusinesses
    PROVE  StartInv'
  <1>1. /\ phase = "businesses" /\ phase' \in {"handlers", "exited"} /\ main' = main /\ files' = files
        /\ UNCHANGED <<entry, config, pipelines, rankConfig, threads, routed, handling, tasks>>
    BY DEF ReadBusinesses, inputs
  <1>2. entry = 1 /\ routed = Nothing /\ handling = Nothing
    BY <1>1 DEF StartInv, RouteInv
  <1>3. Businesses' = Businesses
    BY <1>1 DEF Businesses
  <1>4. StartTypeOK'
    BY <1>1 DEF StartInv, StartTypeOK
  <1>5. FilesInv' /\ ConfigInv' /\ GraphInv' /\ RankInv'
    BY <1>1 DEF StartInv, FilesInv, ConfigInv, GraphInv, RankInv
  <1>6. phase' = "handlers" => SessionsRegistered'
    BY <1>1, <1>3 DEF ReadBusinesses, SessionsRegistered
  <1>7. RoutesUpTo(0)'
    <2>1. DOMAIN Nothing = {} /\ routed' = Nothing /\ handling' = Nothing /\ 1..0 = {}
      BY <1>1, <1>2 DEF Nothing
    <2> QED BY <2>1 DEF RoutesUpTo
  <1>8. entry' = 1 /\ entry' - 1 = 0 /\ entry' \in 1..(Len(Businesses') + 1)
    BY <1>1, <1>2, <1>3, BusinessesType DEF StartInv
  <1>9. RouteInv'
    <2>1. RoutesUpTo(entry - 1)'
      BY <1>7, <1>8 DEF RoutesUpTo, EntriesOf, Naming
    <2> QED BY <1>1, <1>6, <1>8, <2>1 DEF RouteInv
  <1> QED BY <1>4, <1>5, <1>9 DEF StartInv

\* The handlers of one more entry.
LEMMA RoutesGo ==
    ASSUME FilesInv, NEW m \in Nat, m + 1 <= Len(Businesses), RoutesUpTo(m),
           UNCHANGED main,
           handling' = Put(handling, Businesses[m + 1].handler_name, Businesses[m + 1]),
           routed' = Put(routed, Businesses[m + 1].business_type, Businesses[m + 1].handler_name)
    PROVE  RoutesUpTo(m + 1)'
  <1>1. Businesses' = Businesses
    BY DEF Businesses
  <1>2. 1..(m + 1) = 1..m \union {m + 1} /\ m + 1 \notin 1..m /\ m + 1 \in 0..(m + 1)
    OBVIOUS
  <1>3. DOMAIN routed' = {Businesses[k].business_type : k \in 1..(m + 1)}
    BY <1>2 DEF RoutesUpTo, Put
  <1>4. DOMAIN handling' = {Businesses[k].handler_name : k \in 1..(m + 1)}
    BY <1>2 DEF RoutesUpTo, Put
  <1>5. ASSUME NEW b \in DOMAIN routed'
        PROVE  routed'[b] = Businesses[Max(EntriesOf(b, m + 1))].handler_name
    <2>1. CASE b = Businesses[m + 1].business_type
      <3>1. /\ EntriesOf(b, m + 1) \in SUBSET (0..(m + 1)) /\ m + 1 \in EntriesOf(b, m + 1)
            /\ \A j \in EntriesOf(b, m + 1) : j <= m + 1
        BY <1>2, <2>1 DEF EntriesOf
      <3>2. Max(EntriesOf(b, m + 1)) = m + 1
        <4>1. m + 1 \in Nat
          OBVIOUS
        <4> QED BY ONLY <3>1, <4>1, LastIs
      <3> QED BY <2>1, <3>2 DEF Put
    <2>2. CASE b # Businesses[m + 1].business_type
      <3>1. EntriesOf(b, m + 1) = EntriesOf(b, m)
        BY <1>2, <2>2 DEF EntriesOf
      <3>2. b \in DOMAIN routed /\ routed'[b] = routed[b]
        BY <2>2 DEF Put
      <3> QED BY <3>1, <3>2 DEF RoutesUpTo
    <2> QED BY <2>1, <2>2
  <1>6. ASSUME NEW h \in DOMAIN handling'
        PROVE  handling'[h] = Businesses[Max(Naming(h, m + 1))]
    <2>1. CASE h = Businesses[m + 1].handler_name
      <3>1. /\ Naming(h, m + 1) \in SUBSET (0..(m + 1)) /\ m + 1 \in Naming(h, m + 1)
            /\ \A j \in Naming(h, m + 1) : j <= m + 1
        BY <1>2, <2>1 DEF Naming
      <3>2. Max(Naming(h, m + 1)) = m + 1
        <4>1. m + 1 \in Nat
          OBVIOUS
        <4> QED BY ONLY <3>1, <4>1, LastIs
      <3> QED BY <2>1, <3>2 DEF Put
    <2>2. CASE h # Businesses[m + 1].handler_name
      <3>1. Naming(h, m + 1) = Naming(h, m)
        BY <1>2, <2>2 DEF Naming
      <3>2. h \in DOMAIN handling /\ handling'[h] = handling[h]
        BY <2>2 DEF Put
      <3> QED BY <3>1, <3>2 DEF RoutesUpTo
    <2> QED BY <2>1, <2>2
  <1> QED BY <1>1, <1>3, <1>4, <1>5, <1>6 DEF RoutesUpTo, EntriesOf, Naming

LEMMA InitHandlerKeeps ==
    ASSUME StartInv, InitHandler
    PROVE  StartInv'
  <1> DEFINE e == Businesses[entry]
  <1>1. /\ phase = "handlers" /\ phase' \in {"handlers", "exited"} /\ main' = main /\ files' = files
        /\ UNCHANGED <<config, pipelines, rankConfig, threads, sessionOf, tasks>>
        /\ entry <= Len(Businesses)
    BY DEF InitHandler, inputs
  <1>2. /\ entry \in 1..(Len(Businesses) + 1) /\ RoutesUpTo(entry - 1) /\ SessionsRegistered
        /\ Len(Businesses) \in Nat
    BY <1>1, BusinessesType DEF StartInv, RouteInv
  <1>3. Businesses' = Businesses
    BY <1>1 DEF Businesses
  <1>4. FilesInv' /\ ConfigInv' /\ GraphInv' /\ RankInv'
    BY <1>1 DEF StartInv, FilesInv, ConfigInv, GraphInv, RankInv
  <1>5. CASE /\ e.handler_name \in Handlers /\ phase' = phase /\ entry' = entry + 1
             /\ handling' = Put(handling, e.handler_name, e)
             /\ routed' = Put(routed, e.business_type, e.handler_name)
    <2>1. StartTypeOK'
      <3>1. \A b \in DOMAIN routed' : routed'[b] \in DOMAIN handling'
        BY <1>5 DEF StartInv, StartTypeOK, Put
      <3>2. DOMAIN handling' \subseteq Handlers
        BY <1>5 DEF StartInv, StartTypeOK, Put
      <3> QED BY <1>1, <1>5, <3>1, <3>2 DEF StartInv, StartTypeOK
    <2>2. PICK m \in Nat : m = entry - 1
      BY <1>2
    <2>3. m + 1 = entry /\ m + 1 <= Len(Businesses) /\ entry' \in 1..(Len(Businesses) + 1)
      BY <1>1, <1>2, <1>5, <2>2
    <2>4. RoutesUpTo(m)
      BY <1>2, <2>2
    <2>5. RoutesUpTo(m + 1)'
      <3>1. FilesInv /\ UNCHANGED main
        BY <1>1 DEF StartInv
      <3> QED BY <1>5, <2>3, <2>4, <3>1, RoutesGo
    <2>6. RoutesUpTo(entry - 1)'
      <3>1. entry' - 1 = m + 1
        BY <1>2, <1>5, <2>3
      <3> QED BY <2>5, <3>1 DEF RoutesUpTo, EntriesOf, Naming
    <2>7. SessionsRegistered'
      BY <1>1, <1>2, <1>3 DEF SessionsRegistered
    <2>8. RouteInv'
      BY <1>1, <1>3, <1>5, <2>3, <2>6, <2>7 DEF RouteInv
    <2> QED BY <1>4, <2>1, <2>8 DEF StartInv
  <1>6. CASE phase' = "exited" /\ UNCHANGED <<entry, routed, handling>>
    BY <1>1, <1>4, <1>6 DEF StartInv, StartTypeOK, RouteInv
  <1> QED BY <1>5, <1>6 DEF InitHandler

LEMMA StartServingKeeps ==
    ASSUME StartInv, StartServing
    PROVE  StartInv'
  <1>1. /\ phase = "handlers" /\ phase' = "serving" /\ main' = main /\ files' = files
        /\ UNCHANGED <<entry, config, pipelines, rankConfig, threads, routed, handling, sessionOf>>
        /\ entry > Len(Businesses)
    BY DEF StartServing, inputs
  <1>2. /\ entry \in 1..(Len(Businesses) + 1) /\ RoutesUpTo(entry - 1) /\ SessionsRegistered
        /\ Len(Businesses) \in Nat
    BY <1>1, BusinessesType DEF StartInv, RouteInv
  <1>3. Businesses' = Businesses
    BY <1>1 DEF Businesses
  <1>4. FilesInv' /\ ConfigInv' /\ GraphInv' /\ RankInv'
    BY <1>1 DEF StartInv, FilesInv, ConfigInv, GraphInv, RankInv
  <1>5. StartTypeOK'
    <2>1. DOMAIN tasks' \subseteq TaskNames
      BY FilesAssumption DEF StartServing, StartInv, FilesInv
    <2> QED BY <1>1, <2>1 DEF StartInv, StartTypeOK
  <1>6. RouteInv'
    <2>1. entry' = Len(Businesses') + 1 /\ entry' \in 1..(Len(Businesses') + 1)
      BY <1>1, <1>2, <1>3
    <2>2. RoutesUpTo(entry - 1)' /\ SessionsRegistered'
      BY <1>1, <1>2, <1>3 DEF RoutesUpTo, EntriesOf, Naming, SessionsRegistered
    <2> QED BY <1>1, <2>1, <2>2 DEF RouteInv
  <1> QED BY <1>4, <1>5, <1>6 DEF StartInv

LEMMA StartStays ==
    ASSUME StartInv, UNCHANGED startVars
    PROVE  StartInv'
  <1>1. /\ main' = main /\ files' = files
        /\ UNCHANGED <<phase, entry, config, pipelines, rankConfig, threads, routed, handling, sessionOf, tasks>>
    BY DEF startVars, inputs, tables
  <1>2. Businesses' = Businesses
    BY <1>1 DEF Businesses
  <1>3. StartTypeOK' /\ FilesInv' /\ ConfigInv' /\ GraphInv' /\ RankInv'
    BY <1>1 DEF StartInv, StartTypeOK, FilesInv, ConfigInv, GraphInv, RankInv
  <1>4. RouteInv'
    BY <1>1, <1>2 DEF StartInv, RouteInv, RoutesUpTo, EntriesOf, Naming, SessionsRegistered
  <1> QED BY <1>3, <1>4 DEF StartInv

LEMMA BootsKeep ==
    ASSUME StartInv, Boots
    PROVE  StartInv'
  BY LoadAllKeeps, LoadBusinessKeeps, InitPoolKeeps, InitContextKeeps, ReadBusinessesKeeps,
     StartServingKeeps DEF Boots

\* The tables as RoutesConfigured describes them.
LEMMA RoutesStand ==
    ASSUME StartInv
    PROVE  RoutesConfigured
  <1> SUFFICES ASSUME phase = "serving" PROVE RoutesConfigured
    BY DEF RoutesConfigured
  <1> DEFINE n == Len(Businesses)
             entries(b) == {k \in DOMAIN Businesses : Businesses[k].business_type = b}
             naming(h) == {k \in DOMAIN Businesses : Businesses[k].handler_name = h}
  <1>1. n \in Nat /\ DOMAIN Businesses = 1..n
    BY BusinessesType DEF StartInv
  <1>2. RoutesUpTo(n) /\ SessionsRegistered
    BY <1>1 DEF StartInv, RouteInv
  <1>3. \A b : entries(b) = EntriesOf(b, n)
    BY <1>1 DEF EntriesOf
  <1>4. \A h : naming(h) = Naming(h, n)
    BY <1>1 DEF Naming
  <1>5. DOMAIN routed = {Businesses[k].business_type : k \in DOMAIN Businesses}
    BY <1>1, <1>2 DEF RoutesUpTo
  <1>6. ASSUME NEW b \in DOMAIN routed, NEW last, last = Businesses[Max(entries(b))]
        PROVE  /\ routed[b] = last.handler_name
               /\ SessionFor(b) = (IF last.session_name \in Sessions
                                   THEN last.session_name ELSE "Session")
               /\ ConfigFor(b) = Businesses[Max(naming(last.handler_name))]
               /\ (\A k \in naming(last.handler_name) : k \in entries(b)) => ConfigFor(b) = last
    <2> HIDE DEF n
    <2>1. routed[b] = last.handler_name
      BY <1>2, <1>3, <1>6 DEF RoutesUpTo
    <2>2. b \in DOMAIN sessionOf /\ sessionOf[b] = last.session_name
      BY <1>2, <1>5, <1>6 DEF SessionsRegistered
    <2>3. ConfigFor(b) = Businesses[Max(naming(last.handler_name))]
      <3>1. routed[b] \in DOMAIN handling
        BY DEF StartInv, StartTypeOK
      <3> QED BY <1>2, <1>4, <2>1, <3>1 DEF RoutesUpTo, ConfigFor
    <2>4. ASSUME \A k \in naming(last.handler_name) : k \in entries(b)
          PROVE  ConfigFor(b) = last
      <3>1. entries(b) \in SUBSET (0..n) /\ entries(b) # {}
        BY <1>1, <1>5
      <3>2. Max(entries(b)) \in entries(b) /\ \A j \in entries(b) : j <= Max(entries(b))
        <4> HIDE DEF entries
        <4> QED BY <1>1, <3>1, LastPlace
      <3>3. Max(entries(b)) \in naming(last.handler_name)
        BY <1>6, <3>2
      <3>4. naming(last.handler_name) \in SUBSET (0..n)
        BY <1>1
      <3>5. Max(naming(last.handler_name)) = Max(entries(b))
        <4> HIDE DEF entries, naming
        <4> QED BY <1>1, <2>4, <3>2, <3>3, <3>4, LastIs
      <3> QED BY <1>6, <2>3, <3>5
    <2>5. SessionFor(b) = (IF last.session_name \in Sessions THEN last.session_name ELSE "Session")
      BY <2>2 DEF SessionFor
    <2> QED BY <2>1, <2>3, <2>4, <2>5
  <1> QED BY <1>5, <1>6 DEF RoutesConfigured

-----------------------------------------------------------------------------
(* The server: its tables, the trie, and the requests that wait.           *)

SiteInv ==
    /\ IsDocs(docs) /\ IsStats(stats) /\ IsCooccur(cooccur)
    /\ \A http \in asks : IsAsk(http)

\* The trie holds what was read at its last rebuild.
TrieInv ==
    /\ IsDocs(rebuilt.docs) /\ IsStats(rebuilt.stats)
    /\ trie \in Entries(rebuilt.docs, rebuilt.stats)

AnswerInv ==
    /\ answer.status \in {"none", "200", "500", "waits"}
    /\ answer.status # "none" => phase = "serving"
    /\ answer.status = "waits" =>
         /\ answer.route \in DOMAIN routed
         /\ ~ExecuteReturns(RecallNodes(ConfigFor(answer.route)))

IInv ==
    /\ StartInv /\ SiteInv /\ TrieInv /\ AnswerInv
    /\ trie = {} \/ phase \in {"handlers", "serving", "exited"}
    /\ turns \in 0..MaxTurns

-----------------------------------------------------------------------------
(* Numbers and sets.                                                       *)

LEMMA MinOf ==
    ASSUME NEW a \in Int, NEW b \in Int
    PROVE  Min({a, b}) = IF a <= b THEN a ELSE b
  <1> DEFINE m == IF a <= b THEN a ELSE b
  <1>1. m \in {a, b} /\ \A y \in {a, b} : m <= y
    OBVIOUS
  <1>2. Min({a, b}) \in {a, b} /\ \A y \in {a, b} : Min({a, b}) <= y
    BY <1>1 DEF Min
  <1> QED BY <1>2

LEMMA OpenedStats ==
    ASSUME NEW table, IsStats(table), NEW open \in BOOLEAN
    PROVE  IsStats(Opened(table, open)) /\ DOMAIN Opened(table, open) \subseteq DOMAIN table
  <1>1. CASE open = TRUE
    BY <1>1 DEF Opened
  <1>2. CASE open = FALSE
    <2>1. DOMAIN Opened(table, open) = {}
      BY <1>2 DEF Opened
    <2> QED BY <2>1, FS_EmptySet DEF IsStats
  <1> QED BY <1>1, <1>2

LEMMA Incremented ==
    ASSUME NEW table, IsStats(table), NEW q \in Word
    PROVE  IsStats(IncrementQuery(table, q, TRUE))
  <1>1. PICK more : more = IncrementQuery(table, q, TRUE)
    OBVIOUS
  <1>2. /\ DOMAIN more = DOMAIN table \union {q}
        /\ \A p \in DOMAIN more :
             more[p] = (IF p \in DOMAIN table THEN table[p] ELSE 0) + (IF p = q THEN 1 ELSE 0)
    BY <1>1 DEF IncrementQuery
  <1>3. IsFiniteSet(DOMAIN table \union {q})
    BY FS_AddElement DEF IsStats
  <1>4. ASSUME NEW p \in DOMAIN more
        PROVE  more[p] \in Nat \ {0}
    <2>1. CASE p \in DOMAIN table
      <3>1. table[p] \in Nat /\ table[p] > 0
        BY <2>1 DEF IsStats
      <3>2. more[p] = table[p] + 1 \/ more[p] = table[p] + 0
        BY <1>2, <2>1
      <3> QED BY <3>1, <3>2
    <2>2. CASE p \notin DOMAIN table
      <3>1. more[p] = 0 + 1
        BY <1>2, <2>2
      <3> QED BY <3>1
    <2> QED BY <2>1, <2>2
  <1>5. IsStats(more)
    BY <1>2, <1>3, <1>4 DEF IsStats
  <1> QED BY <1>1, <1>5

LEMMA QueryIs ==
    ASSUME NEW http, IsAsk(http)
    PROVE  QueryOf(http) \in Word
  <1> DEFINE values == GivenAs(http.body, "q") \o GivenAs(http.body, "query")
                         \o GivenAs(http.params, "query") \o GivenAs(http.params, "q")
  <1>1. ASSUME NEW fields \in {http.params, http.body}, NEW name \in {"q", "query"}
        PROVE  GivenAs(fields, name) \in Seq(Word)
    BY DEF IsAsk, GivenAs
  <1>2. /\ GivenAs(http.body, "q") \in Seq(Word) /\ GivenAs(http.body, "query") \in Seq(Word)
        /\ GivenAs(http.params, "query") \in Seq(Word) /\ GivenAs(http.params, "q") \in Seq(Word)
    BY <1>1
  <1>3. values \in Seq(Word)
    BY <1>2
  <1>4. <<>> \in Word
    BY DEF Word
  <1>5. QueryOf(http) = IF values = <<>> THEN <<>> ELSE Head(values)
    BY DEF QueryOf, FirstGiven
  <1> HIDE DEF values
  <1>6. values # <<>> => Head(values) \in Word
    BY <1>3
  <1> QED BY <1>4, <1>5, <1>6

LEMMA FewerDocs ==
    ASSUME NEW table, IsDocs(table), NEW d
    PROVE  IsDocs([e \in DOMAIN table \ {d} |-> table[e]])
  <1>1. IsFiniteSet(DOMAIN table \ {d})
    BY FS_Subset DEF IsDocs
  <1> QED BY <1>1 DEF IsDocs

LEMMA NothingRebuilt ==
    /\ IsDocs(Nothing) /\ IsStats(Nothing)
    /\ {} \in Entries(Nothing, Nothing)
  <1>1. DOMAIN Nothing = {}
    BY DEF Nothing
  <1>2. IsDocs(Nothing) /\ IsStats(Nothing)
    BY <1>1, FS_EmptySet DEF IsDocs, IsStats
  <1>3. Rows(Nothing) = {} /\ TitleEntries(Nothing) = {} /\ TagEntries(Nothing) = {}
    BY <1>1 DEF Rows, TitleEntries, TagEntries
  <1>4. {} \in GetTopN(Nothing, TopQueries)
    <2>1. Cardinality({}) = 0 /\ TopQueries \in Nat
      BY FS_EmptySet, LimitsAssumption
    <2>2. Min({TopQueries, 0}) = 0
      BY <2>1, MinOf
    <2> QED BY <1>3, <2>1, <2>2 DEF GetTopN, TopOf
  <1>5. QueryEntries({}) = {}
    BY DEF QueryEntries
  <1> QED BY <1>2, <1>3, <1>4, <1>5 DEF Entries

-----------------------------------------------------------------------------
(* The invariant is inductive.                                             *)

LEMMA InitInv ==
    ASSUME Init
    PROVE  IInv
  <1>1. PICK d \in Deployments :
          /\ StartInit(d) /\ asks = d.site.asks /\ docs = d.site.docs
          /\ cooccur = d.site.cooccur /\ stats = d.site.stats
    BY DEF Init
  <1>2. StartInv
    BY <1>1, StartTables
  <1>3. SiteInv
    BY <1>1, SitesAssumption DEF SiteInv
  <1>4. TrieInv
    BY NothingRebuilt DEF Init, TrieInv
  <1>5. AnswerInv
    BY DEF Init, AnswerInv, NoAnswer
  <1>6. trie = {} /\ turns \in 0..MaxTurns
    BY TurnsAssumption DEF Init
  <1> QED BY <1>2, <1>3, <1>4, <1>5, <1>6 DEF IInv

LEMMA NotYetServing ==
    ASSUME Boots \/ InitHandler
    PROVE  /\ phase # "serving"
           /\ phase \in {"handlers", "exited"} => phase' \in {"handlers", "serving", "exited"}
  BY DEF Boots, LoadAll, LoadBusiness, InitPool, InitContext, ReadBusinesses, StartServing, InitHandler

\* While the server does not listen, nothing has been answered.
LEMMA NoAnswerYet ==
    ASSUME AnswerInv, phase # "serving", UNCHANGED answer
    PROVE  AnswerInv'
  BY DEF AnswerInv

LEMMA RebuildKeeps ==
    ASSUME SiteInv, NEW created, RebuildTrie(created)
    PROVE  TrieInv'
  <1> DEFINE readable == Opened(stats, StatsOpen(created))
  <1>1. IsStats(readable)
    <2>1. IsStats(stats) /\ StatsOpen(created) \in BOOLEAN
      BY DEF SiteInv, StatsOpen
    <2> QED BY <2>1, OpenedStats
  <1>2. trie' \in Entries(docs, readable) /\ rebuilt'.docs = docs /\ rebuilt'.stats = readable
    BY DEF RebuildTrie
  <1> QED BY <1>1, <1>2 DEF TrieInv, SiteInv

LEMMA BootInv ==
    ASSUME IInv, Boot
    PROVE  IInv'
  <1>1. Boots /\ UNCHANGED <<asks, docs, cooccur, stats, trie, rebuilt, answer, turns>>
    BY DEF Boot
  <1>2. StartInv'
    BY <1>1, BootsKeep DEF IInv
  <1>3. SiteInv' /\ TrieInv'
    BY <1>1 DEF IInv, SiteInv, TrieInv
  <1>4. AnswerInv'
    BY <1>1, NotYetServing, NoAnswerYet DEF IInv
  <1>5. trie' = {} \/ phase' \in {"handlers", "serving", "exited"}
    BY <1>1, NotYetServing DEF IInv
  <1> QED BY <1>1, <1>2, <1>3, <1>4, <1>5 DEF IInv

LEMMA StartHandlerInv ==
    ASSUME IInv, StartHandler
    PROVE  IInv'
  <1>1. InitHandler /\ UNCHANGED <<asks, docs, cooccur, stats, answer, turns>>
    BY DEF StartHandler
  <1>2. StartInv'
    BY <1>1, InitHandlerKeeps DEF IInv
  <1>3. SiteInv'
    BY <1>1 DEF IInv, SiteInv
  <1>4. AnswerInv'
    BY <1>1, NotYetServing, NoAnswerYet DEF IInv
  <1>5. TrieInv'
    <2>1. CASE RebuildTrie({"SugBizHandler"})
      BY <2>1, RebuildKeeps DEF IInv
    <2>2. CASE UNCHANGED <<trie, rebuilt>>
      BY <2>2 DEF IInv, TrieInv
    <2> QED BY <2>1, <2>2 DEF StartHandler
  <1>6. phase' \in {"handlers", "serving", "exited"}
    BY <1>1, NotYetServing DEF InitHandler
  <1> QED BY <1>1, <1>2, <1>3, <1>4, <1>5, <1>6 DEF IInv

LEMMA RebuildRequestInv ==
    ASSUME IInv, RebuildRequest
    PROVE  IInv'
  <1>1. /\ phase = "serving" /\ turns < MaxTurns /\ turns' = turns + 1
        /\ RebuildTrie(DOMAIN handling) /\ answer' = NoAnswer
        /\ UNCHANGED startVars /\ UNCHANGED <<asks, docs, cooccur, stats>>
    BY DEF RebuildRequest
  <1>2. StartInv' /\ phase' = "serving"
    BY <1>1, StartStays DEF IInv, startVars
  <1>3. SiteInv' /\ TrieInv'
    BY <1>1, RebuildKeeps DEF IInv, SiteInv
  <1>4. AnswerInv'
    BY <1>1, <1>2 DEF AnswerInv, NoAnswer
  <1>5. turns' \in 0..MaxTurns
    BY <1>1, TurnsAssumption DEF IInv
  <1> QED BY <1>2, <1>3, <1>4, <1>5 DEF IInv

LEMMA DeleteDocInv ==
    ASSUME IInv, NEW d \in DOMAIN docs, DeleteDoc(d)
    PROVE  IInv'
  <1>1. /\ phase = "serving" /\ turns < MaxTurns /\ turns' = turns + 1
        /\ docs' = [e \in DOMAIN docs \ {d} |-> docs[e]] /\ answer' = NoAnswer
        /\ UNCHANGED startVars /\ UNCHANGED <<asks, cooccur, stats, trie, rebuilt>>
    BY DEF DeleteDoc
  <1>2. StartInv' /\ phase' = "serving"
    BY <1>1, StartStays DEF IInv, startVars
  <1>3. SiteInv'
    <2>1. IsDocs(docs')
      BY <1>1, FewerDocs DEF IInv, SiteInv
    <2> QED BY <1>1, <2>1 DEF IInv, SiteInv
  <1>4. TrieInv'
    BY <1>1 DEF IInv, TrieInv
  <1>5. AnswerInv'
    BY <1>1, <1>2 DEF AnswerInv, NoAnswer
  <1>6. turns' \in 0..MaxTurns
    BY <1>1, TurnsAssumption DEF IInv
  <1> QED BY <1>2, <1>3, <1>4, <1>5, <1>6 DEF IInv

LEMMA RequestInv ==
    ASSUME IInv, NEW http \in asks, Request(http)
    PROVE  IInv'
  <1>1. /\ phase = "serving" /\ turns < MaxTurns /\ turns' = turns + 1
        /\ UNCHANGED startVars /\ UNCHANGED <<asks, docs, cooccur, trie, rebuilt>>
    BY DEF Request
  <1>2. StartInv' /\ phase' = "serving"
    BY <1>1, StartStays DEF IInv, startVars
  <1>3. IsStats(stats')
    <2>1. QueryOf(http) \in Word
      BY QueryIs DEF IInv, SiteInv
    <2>2. CASE UNCHANGED stats
      BY <2>2 DEF IInv, SiteInv
    <2>3. ASSUME NEW h, SugSetResponse(h, QueryOf(http)) PROVE IsStats(stats')
      BY <2>1, <2>3, Incremented DEF SugSetResponse, IInv, SiteInv
    <2> QED BY <2>2, <2>3 DEF Request, NoHandler, Hangs, Answers
  <1>4. SiteInv' /\ TrieInv'
    BY <1>1, <1>3 DEF IInv, SiteInv, TrieInv
  <1>5. AnswerInv'
    <2>1. ASSUME NEW status, NEW items, NEW late, status \in {"200", "500"},
                 answer' = Reply(http, status, items, late)
          PROVE  AnswerInv'
      BY <1>2, <2>1 DEF AnswerInv, Reply
    <2>2. CASE Hangs(http)
      <3>1. /\ answer'.status = "waits" /\ answer'.route = http.route
            /\ http.route \in DOMAIN routed /\ ~ExecuteReturns(RecallNodes(ConfigFor(http.route)))
        BY <2>2 DEF Hangs, Reply
      <3>2. routed' = routed /\ handling' = handling /\ pipelines' = pipelines
        BY <1>1 DEF startVars, tables
      <3>3. RecallNodes(ConfigFor(http.route))' = RecallNodes(ConfigFor(http.route))
        BY <3>2 DEF RecallNodes, ConfigFor
      <3> QED BY <1>2, <3>1, <3>2, <3>3 DEF AnswerInv
    <2>3. CASE NoHandler(http)
      <3>1. answer'.status = "500"
        BY <2>3 DEF NoHandler, Reply
      <3> QED BY <1>2, <3>1 DEF AnswerInv
    <2>4. CASE Answers(http)
      BY <2>1, <2>4 DEF Answers
    <2> QED BY <2>2, <2>3, <2>4 DEF Request
  <1>6. turns' \in 0..MaxTurns
    BY <1>1, TurnsAssumption DEF IInv
  <1> QED BY <1>2, <1>4, <1>5, <1>6 DEF IInv

LEMMA StaysInv ==
    ASSUME IInv, UNCHANGED vars
    PROVE  IInv'
  <1>1. /\ UNCHANGED startVars
        /\ UNCHANGED <<asks, docs, cooccur, stats, trie, rebuilt, answer, turns>>
        /\ UNCHANGED <<phase, routed, handling, pipelines>>
    BY DEF vars, startVars, tables
  <1>2. StartInv'
    BY <1>1, StartStays DEF IInv
  <1>3. SiteInv' /\ TrieInv'
    BY <1>1 DEF IInv, SiteInv, TrieInv
  <1>4. AnswerInv'
    BY <1>1 DEF IInv, AnswerInv, RecallNodes, ConfigFor
  <1> QED BY <1>1, <1>2, <1>3, <1>4 DEF IInv

LEMMA NextInv ==
    ASSUME IInv, [Next]_vars
    PROVE  IInv'
  BY BootInv, StartHandlerInv, RequestInv, RebuildRequestInv, DeleteDocInv, StaysInv DEF Next, Rest

\* What the properties below rest on: the tables are those of the files and
\* of the entries handled so far, the trie is that of its last rebuild, and
\* whoever waits runs a graph that does not end.
THEOREM Inductive == Spec => []IInv
  <1>1. Init => IInv
    BY InitInv
  <1>2. IInv /\ [Next]_vars => IInv'
    BY NextInv
  <1> QED BY <1>1, <1>2, PTL DEF Spec

\* The tables, the trie and the answers keep their types; in particular the
\* configuration is loaded and the pool has threads when the server listens.
THEOREM TypeCorrect == Spec => []TypeOK
  <1>1. IInv => TypeOK
    BY DEF IInv, StartInv, SiteInv, AnswerInv, IsDocs, IsStats, TypeOK
  <1> QED BY <1>1, Inductive, PTL

\* main.cpp and HandlerManager::Init: for every framework.yaml, every
\* business is routed to the handler of its last entry, under the
\* configuration of the last entry that names the handler.
THEOREM EveryBusinessRouted == Spec => []RoutesConfigured
  <1>1. IInv => RoutesConfigured
    BY RoutesStand DEF IInv
  <1> QED BY <1>1, Inductive, PTL

\* DagPipeline::BuildDag and Execute: for every list of nodes a recall stage
\* may have, it is refused exactly when some of its nodes wait for one
\* another, and a request waits for ever only on a graph that was refused.
THEOREM WaitsOnlyOnRefused == Spec => []GraphsRunOrRefused
  <1>1. ASSUME IInv PROVE GraphsRunOrRefused
    <2>1. ASSUME NEW b \in DOMAIN pipelines
          PROVE  WaitForEachOther(pipelines[b].recall.nodes)
                   <=> pipelines[b].recall.nodes # <<>> /\ ~pipelines[b].recall.loaded
      BY <1>1 DEF IInv, StartInv, GraphInv, GraphOK
    <2>2. ASSUME answer.status = "waits"
          PROVE  /\ ~ConfigFor(answer.route).skip_search
                 /\ ~pipelines[ConfigFor(answer.route).business_type].recall.loaded
      <3> DEFINE c == ConfigFor(answer.route)
      <3>1. ~ExecuteReturns(RecallNodes(c))
        BY <1>1, <2>2 DEF IInv, AnswerInv
      <3>2. ~(c.skip_search \/ c.business_type \notin DOMAIN pipelines)
        <4>1. SUFFICES ASSUME c.skip_search \/ c.business_type \notin DOMAIN pipelines
                       PROVE  FALSE
          OBVIOUS
        <4>2. RecallNodes(c) = <<>>
          BY <4>1 DEF RecallNodes
        <4>3. ExecuteReturns(RecallNodes(c))
          <5>1. RecallNodes(c) \in Seq(RecallEntry)
            BY <4>2
          <5> QED BY ONLY <4>2, <5>1, NoNodes
        <4> QED BY <3>1, <4>2, <4>3
      <3>3. RecallNodes(c) = pipelines[c.business_type].recall.nodes
        BY <3>2 DEF RecallNodes
      <3>4. GraphOK(pipelines[c.business_type].recall)
        BY <1>1, <3>2 DEF IInv, StartInv, GraphInv
      <3> QED BY <3>1, <3>2, <3>3, <3>4 DEF GraphOK
    <2> QED BY <2>1, <2>2 DEF GraphsRunOrRefused
  <1> QED BY <1>1, Inductive, PTL

-----------------------------------------------------------------------------
(* Images of finite sets, and the first of a set by value.                 *)

LEMMA ImageIs ==
    ASSUME NEW S, IsFiniteSet(S), NEW f
    PROVE  /\ IsFiniteSet({f[x] : x \in S})
           /\ Cardinality({f[x] : x \in S}) <= Cardinality(S)
           /\ (\A x, y \in S : f[x] = f[y] => x = y) =>
                Cardinality({f[x] : x \in S}) = Cardinality(S)
  <1> DEFINE T == {f[x] : x \in S}
             g == [x \in S |-> f[x]]
  <1>1. g \in Surjection(S, T)
    BY DEF Surjection
  <1>2. (\A x, y \in S : f[x] = f[y] => x = y) => g \in Injection(S, T)
    BY DEF Injection, IsInjective
  <1>3. /\ IsFiniteSet(T) /\ Cardinality(T) <= Cardinality(S)
        /\ Cardinality(T) = Cardinality(S) <=> g \in Injection(S, T)
    <2> HIDE DEF g, T
    <2> QED BY <1>1, FS_Surjection
  <1> QED BY <1>2, <1>3

LEMMA TopIs ==
    ASSUME NEW S, IsFiniteSet(S), NEW n \in Nat, NEW value, NEW T \in TopOf(S, n, value)
    PROVE  /\ T \subseteq S /\ IsFiniteSet(T)
           /\ Cardinality(T) \in Nat /\ Cardinality(T) <= n
           /\ T # S => Cardinality(T) = n
           /\ Cardinality(S) <= n => T = S
           /\ \A x \in T, y \in S \ T : value[x] >= value[y]
  <1>1. /\ T \in SUBSET S /\ Cardinality(T) = Min({n, Cardinality(S)})
        /\ \A x \in T, y \in S \ T : value[x] >= value[y]
    BY DEF TopOf
  <1>2. /\ IsFiniteSet(T) /\ Cardinality(T) \in Nat /\ Cardinality(S) \in Nat
        /\ Cardinality(S) = Cardinality(T) => S = T
    BY <1>1, FS_Subset, FS_CardinalityType
  <1>3. Cardinality(T) = IF n <= Cardinality(S) THEN n ELSE Cardinality(S)
    BY <1>1, <1>2, MinOf
  <1> QED BY <1>1, <1>2, <1>3

LEMMA MaxOf ==
    ASSUME NEW a \in Nat, NEW b \in Nat
    PROVE  Max({a, b}) \in {a, b} /\ Max({a, b}) >= a /\ Max({a, b}) >= b
  <1> DEFINE m == IF a <= b THEN b ELSE a
  <1>1. m \in {a, b} /\ \A y \in {a, b} : m >= y
    OBVIOUS
  <1>2. Max({a, b}) \in {a, b} /\ \A y \in {a, b} : Max({a, b}) >= y
    BY <1>1 DEF Max
  <1> QED BY <1>2

LEMMA LargestIs ==
    ASSUME NEW n \in Nat
    PROVE  LargestOf({n}) = Max({1, n}) /\ LargestOf({n}) \in Nat
  <1>1. {n} \union {1} = {1, n} /\ {n} # {}
    OBVIOUS
  <1>2. LargestOf({n}) = Max({1, n})
    BY <1>1 DEF LargestOf
  <1> QED BY <1>2, MaxOf

LEMMA RowsAre ==
    ASSUME NEW table, IsStats(table)
    PROVE  /\ IsFiniteSet(Rows(table))
           /\ Cardinality(Rows(table)) <= Cardinality(DOMAIN table)
           /\ \A r \in Rows(table) :
                /\ r.query \in DOMAIN table /\ r.freq = table[r.query] /\ r.freq \in Nat
                /\ FreqOf(Rows(table))[r] = r.freq
  <1> DEFINE f == [q \in DOMAIN table |-> [query |-> q, freq |-> table[q]]]
  <1>1. Rows(table) = {f[q] : q \in DOMAIN table}
    BY DEF Rows
  <1>2. IsFiniteSet(Rows(table)) /\ Cardinality(Rows(table)) <= Cardinality(DOMAIN table)
    <2>1. IsFiniteSet(DOMAIN table)
      BY DEF IsStats
    <2> HIDE DEF f
    <2> QED BY <1>1, <2>1, ImageIs
  <1>3. ASSUME NEW r \in Rows(table)
        PROVE  /\ r.query \in DOMAIN table /\ r.freq = table[r.query] /\ r.freq \in Nat
               /\ FreqOf(Rows(table))[r] = r.freq
    BY DEF Rows, IsStats, FreqOf
  <1> QED BY <1>2, <1>3

\* A query is taken when no more than TopQueries are asked for as often.
LEMMA TakenIs ==
    ASSUME NEW table, IsStats(table), NEW rows \in GetTopN(table, TopQueries),
           NEW w \in DOMAIN table,
           Cardinality({p \in DOMAIN table : table[p] >= table[w]}) <= TopQueries
    PROVE  [query |-> w, freq |-> table[w]] \in rows
  <1> DEFINE r == [query |-> w, freq |-> table[w]]
             P == {p \in DOMAIN table : table[p] >= table[w]}
             f == [p \in DOMAIN table |-> [query |-> p, freq |-> table[p]]]
  <1>1. SUFFICES ASSUME r \notin rows PROVE FALSE
    OBVIOUS
  <1>2. r \in Rows(table) /\ r.freq = table[w]
    BY DEF Rows
  <1>3. TopQueries \in Nat
    BY LimitsAssumption
  <1>4. /\ rows \subseteq Rows(table) /\ IsFiniteSet(rows) /\ Cardinality(rows) = TopQueries
        /\ \A x \in rows : FreqOf(Rows(table))[x] >= FreqOf(Rows(table))[r]
    <2>1. rows \in TopOf(Rows(table), TopQueries, FreqOf(Rows(table))) /\ IsFiniteSet(Rows(table))
      BY RowsAre DEF GetTopN
    <2> HIDE DEF r
    <2>2. rows # Rows(table) /\ r \in Rows(table) \ rows
      BY <1>1, <1>2
    <2> QED BY <1>3, <2>1, <2>2, TopIs
  <1>5. P \in SUBSET DOMAIN table /\ IsFiniteSet(P)
    <2>1. P \in SUBSET DOMAIN table /\ IsFiniteSet(DOMAIN table)
      BY DEF IsStats
    <2> HIDE DEF P
    <2> QED BY <2>1, FS_Subset
  <1>6. rows \union {r} \in SUBSET {f[p] : p \in P}
    <2>1. r = f[w] /\ w \in P
      BY DEF IsStats
    <2>2. ASSUME NEW x \in rows PROVE x.query \in P /\ x = f[x.query]
      <3>1. x \in Rows(table) /\ x.query \in DOMAIN table /\ x.freq = table[x.query]
        BY <1>4, RowsAre
      <3>2. x.freq >= r.freq
        <4> HIDE DEF r
        <4> QED BY <1>2, <1>4, <3>1, RowsAre
      <3>3. x = f[x.query]
        BY <3>1 DEF Rows
      <3> QED BY <1>2, <3>1, <3>2, <3>3
    <2> HIDE DEF f, P, r
    <2> QED BY <2>1, <2>2
  <1>7. IsFiniteSet({f[p] : p \in P}) /\ Cardinality({f[p] : p \in P}) <= Cardinality(P)
    <2> HIDE DEF f, P
    <2> QED BY <1>5, ImageIs
  <1>8. Cardinality(rows \union {r}) <= Cardinality({f[p] : p \in P})
    <2> HIDE DEF f, P, r
    <2> QED BY <1>6, <1>7, FS_Subset
  <1>9. Cardinality(rows \union {r}) = TopQueries + 1
    <2> HIDE DEF r
    <2> QED BY <1>1, <1>4, FS_AddElement
  <1>10. Cardinality(P) \in Nat /\ Cardinality({f[p] : p \in P}) \in Nat /\ Cardinality(P) <= TopQueries
    <2>1. Cardinality(P) <= TopQueries
      OBVIOUS
    <2> HIDE DEF f, P
    <2> QED BY <1>5, <1>7, <2>1, FS_CardinalityType
  <1> HIDE DEF f, P, r
  <1> QED BY <1>3, <1>7, <1>8, <1>9, <1>10

-----------------------------------------------------------------------------
(* The entries of the trie.                                                *)

FromTrie == {"title", "tag", "user_query"}
Trio(e) == <<e.word, e.source, e.from>>

\* An entry is what it says, as often as it says, of the last rebuild.
LEMMA EntryIs ==
    ASSUME TrieInv, NEW e \in trie
    PROVE  /\ e.source \in FromTrie /\ e.freq \in Nat /\ e.word \in Word
           /\ e = [word |-> e.word, source |-> e.source, from |-> e.from, freq |-> e.freq]
           /\ e.freq = Popularity(e.word, e.source, e.from)
           /\ \A q : IsPrefix(q, e.word) => Trio(e) \in Matching(q)
  <1>1. PICK rows \in GetTopN(rebuilt.stats, TopQueries) :
          trie = TitleEntries(rebuilt.docs) \union TagEntries(rebuilt.docs) \union QueryEntries(rows)
    BY DEF TrieInv, Entries
  <1>2. CASE e \in TitleEntries(rebuilt.docs)
    <2>1. PICK d \in DOMAIN rebuilt.docs :
            e = [word |-> rebuilt.docs[d].title, source |-> "title", from |-> d,
                 freq |-> LargestOf({rebuilt.docs[d].clicks})]
      BY <1>2 DEF TitleEntries
    <2>2. rebuilt.docs[d].title \in Word /\ rebuilt.docs[d].clicks \in Nat
      BY DEF TrieInv, IsDocs
    <2>3. /\ LargestOf({rebuilt.docs[d].clicks}) \in Nat
          /\ LargestOf({rebuilt.docs[d].clicks}) = Max({1, rebuilt.docs[d].clicks})
      BY <2>2, LargestIs
    <2>4. e.freq = Popularity(e.word, e.source, e.from)
      BY <2>1, <2>3 DEF Popularity
    <2>5. \A q : IsPrefix(q, e.word) => Trio(e) \in Matching(q)
      BY <2>1 DEF Matching, Trio
    <2> QED BY <2>1, <2>2, <2>3, <2>4, <2>5 DEF FromTrie
  <1>3. CASE e \in TagEntries(rebuilt.docs)
    <2>0. PICK d \in DOMAIN rebuilt.docs :
            \E w \in rebuilt.docs[d].tags :
              /\ Len(w) >= 2
              /\ e = [word |-> w, source |-> "tag", from |-> d,
                      freq |-> LargestOf({rebuilt.docs[d].clicks \div 2})]
      BY <1>3 DEF TagEntries
    <2>1. PICK w \in rebuilt.docs[d].tags :
            /\ Len(w) >= 2
            /\ e = [word |-> w, source |-> "tag", from |-> d,
                    freq |-> LargestOf({rebuilt.docs[d].clicks \div 2})]
      BY <2>0
    <2>2. w \in Word /\ rebuilt.docs[d].clicks \in Nat /\ rebuilt.docs[d].clicks \div 2 \in Nat
      BY DEF TrieInv, IsDocs
    <2>3. /\ LargestOf({rebuilt.docs[d].clicks \div 2}) \in Nat
          /\ LargestOf({rebuilt.docs[d].clicks \div 2}) = Max({1, rebuilt.docs[d].clicks \div 2})
      BY <2>2, LargestIs
    <2>4. e.freq = Popularity(e.word, e.source, e.from)
      BY <2>1, <2>3 DEF Popularity
    <2>5. \A q : IsPrefix(q, e.word) => Trio(e) \in Matching(q)
      BY <2>1 DEF Matching, Trio
    <2> QED BY <2>1, <2>2, <2>3, <2>4, <2>5 DEF FromTrie
  <1>4. CASE e \in QueryEntries(rows)
    <2>1. PICK r \in rows : e = [word |-> r.query, source |-> "user_query", from |-> "", freq |-> r.freq]
      BY <1>4 DEF QueryEntries
    <2>2. r \in Rows(rebuilt.stats)
      BY DEF GetTopN, TopOf
    <2>3. r.query \in DOMAIN rebuilt.stats /\ r.freq = rebuilt.stats[r.query] /\ r.freq \in Nat
      BY <2>2, RowsAre DEF TrieInv
    <2>4. r.query \in Word
      BY <2>3 DEF TrieInv, IsStats
    <2>5. e.freq = Popularity(e.word, e.source, e.from)
      BY <2>1, <2>3 DEF Popularity
    <2>6. \A q : IsPrefix(q, e.word) => Trio(e) \in Matching(q)
      BY <2>1, <2>3 DEF Matching, Trio
    <2> QED BY <2>1, <2>3, <2>4, <2>5, <2>6 DEF FromTrie
  <1> QED BY <1>1, <1>2, <1>3, <1>4

\* What matches a query and was surely taken has an entry on its way.
LEMMA EntryOf ==
    ASSUME TrieInv, NEW q \in Word, q # <<>>, NEW f \in Matching(q),
           f[2] = "user_query" => SurelyTaken(f[1])
    PROVE  \E e \in Through(trie, q) : Trio(e) = f
  <1>1. PICK rows \in GetTopN(rebuilt.stats, TopQueries) :
          trie = TitleEntries(rebuilt.docs) \union TagEntries(rebuilt.docs) \union QueryEntries(rows)
    BY DEF TrieInv, Entries
  <1>2. IsPrefix(q, f[1])
    BY DEF Matching
  <1>3. ASSUME NEW w \in Word, IsPrefix(q, w) PROVE w # <<>>
    <2>1. Len(q) <= Len(w) /\ Len(q) > 0
      BY <1>3 DEF IsPrefix, Word
    <2> QED BY <2>1
  <1>4. CASE \E d \in DOMAIN rebuilt.docs : f = <<rebuilt.docs[d].title, "title", d>>
    <2>1. PICK d \in DOMAIN rebuilt.docs : f = <<rebuilt.docs[d].title, "title", d>>
      BY <1>4
    <2>2. rebuilt.docs[d].title \in Word /\ rebuilt.docs[d].title # <<>>
      BY <1>2, <1>3, <2>1 DEF TrieInv, IsDocs
    <2> DEFINE e == [word |-> rebuilt.docs[d].title, source |-> "title", from |-> d,
                     freq |-> LargestOf({rebuilt.docs[d].clicks})]
    <2>3. e \in TitleEntries(rebuilt.docs)
      BY <2>2 DEF TitleEntries
    <2>4. e \in Through(trie, q) /\ Trio(e) = f
      BY <1>1, <1>2, <2>1, <2>2, <2>3 DEF Through, Trio
    <2> QED BY <2>4
  <1>5. CASE \E d \in DOMAIN rebuilt.docs : \E w \in rebuilt.docs[d].tags : f = <<w, "tag", d>>
    <2>0. PICK d \in DOMAIN rebuilt.docs : \E w \in rebuilt.docs[d].tags : f = <<w, "tag", d>>
      BY <1>5
    <2>1. PICK w \in rebuilt.docs[d].tags : f = <<w, "tag", d>>
      BY <2>0
    <2>2. w \in Word /\ w # <<>>
      BY <1>2, <1>3, <2>1 DEF TrieInv, IsDocs
    <2>3. Len(w) >= 2
      BY <2>1 DEF Matching
    <2> DEFINE e == [word |-> w, source |-> "tag", from |-> d,
                     freq |-> LargestOf({rebuilt.docs[d].clicks \div 2})]
    <2>4. e \in TagEntries(rebuilt.docs)
      <3> DEFINE long == {t \in rebuilt.docs[d].tags : Len(t) >= 2}
                 S == {[word |-> t, source |-> "tag", from |-> d,
                        freq |-> LargestOf({rebuilt.docs[d].clicks \div 2})] : t \in long}
      <3>1. e \in S
        BY <2>3
      <3> HIDE DEF e
      <3> QED BY <3>1 DEF TagEntries
    <2>5. e \in Through(trie, q) /\ Trio(e) = f
      BY <1>1, <1>2, <2>1, <2>2, <2>4 DEF Through, Trio
    <2> QED BY <2>5
  <1>6. CASE \E w \in DOMAIN rebuilt.stats : f = <<w, "user_query", "">>
    <2>1. PICK w \in DOMAIN rebuilt.stats : f = <<w, "user_query", "">>
      BY <1>6
    <2>2. w \in Word /\ w # <<>>
      BY <1>2, <1>3, <2>1 DEF TrieInv, IsStats
    <2>3. [query |-> w, freq |-> rebuilt.stats[w]] \in rows
      BY <2>1, TakenIs DEF TrieInv, SurelyTaken
    <2> DEFINE e == [word |-> w, source |-> "user_query", from |-> "", freq |-> rebuilt.stats[w]]
    <2>4. e \in QueryEntries(rows)
      <3>1. PICK r \in rows : r.query = w /\ r.freq = rebuilt.stats[w]
        BY <2>3
      <3> QED BY <3>1 DEF QueryEntries
    <2>5. e \in Through(trie, q) /\ Trio(e) = f
      BY <1>1, <1>2, <2>1, <2>2, <2>4 DEF Through, Trio
    <2> QED BY <2>5
  <1> QED BY <1>4, <1>5, <1>6 DEF Matching

LEMMA TrieFinite ==
    ASSUME TrieInv
    PROVE  IsFiniteSet(trie)
  <1> DEFINE table == rebuilt.docs
             D == DOMAIN rebuilt.docs
  <1>1. PICK rows \in GetTopN(rebuilt.stats, TopQueries) :
          trie = TitleEntries(table) \union TagEntries(table) \union QueryEntries(rows)
    BY DEF TrieInv, Entries
  <1>2. IsFiniteSet(D) /\ \A d \in D : IsFiniteSet(table[d].tags)
    BY DEF TrieInv, IsDocs
  <1>3. IsFiniteSet(TitleEntries(table))
    <2> DEFINE S == {d \in D : table[d].title # <<>>}
               f == [d \in D |-> [word |-> table[d].title, source |-> "title", from |-> d,
                                  freq |-> LargestOf({table[d].clicks})]]
    <2>1. TitleEntries(table) = {f[d] : d \in S}
      BY DEF TitleEntries
    <2>2. S \in SUBSET D
      OBVIOUS
    <2> HIDE DEF D, S, f
    <2>3. IsFiniteSet(S)
      BY <1>2, <2>2, FS_Subset
    <2> QED BY <2>1, <2>3, ImageIs
  <1>4. IsFiniteSet(TagEntries(table))
    <2> DEFINE long(d) == {t \in table[d].tags : Len(t) >= 2}
               g == [d \in D |-> {[word |-> w, source |-> "tag", from |-> d,
                                   freq |-> LargestOf({table[d].clicks \div 2})] : w \in long(d)}]
    <2>1. TagEntries(table) = UNION {g[d] : d \in D}
      BY DEF TagEntries
    <2>2. ASSUME NEW d \in D PROVE IsFiniteSet(g[d])
      <3> DEFINE f == [w \in long(d) |-> [word |-> w, source |-> "tag", from |-> d,
                                          freq |-> LargestOf({table[d].clicks \div 2})]]
                 L == long(d)
      <3>1. g[d] = {f[w] : w \in L}
        OBVIOUS
      <3>2. L \in SUBSET table[d].tags
        OBVIOUS
      <3> HIDE DEF f, g, L, D, table
      <3>3. IsFiniteSet(L)
        BY <1>2, <3>2, FS_Subset
      <3> QED BY <3>1, <3>3, ImageIs
    <2> HIDE DEF g, D
    <2>3. IsFiniteSet({g[d] : d \in D})
      BY <1>2, ImageIs
    <2>4. \A S \in {g[d] : d \in D} : IsFiniteSet(S)
      BY <2>2
    <2> QED BY <2>1, <2>3, <2>4, FS_UNION
  <1>5. IsFiniteSet(QueryEntries(rows))
    <2> DEFINE f == [r \in rows |-> [word |-> r.query, source |-> "user_query", from |-> "",
                                     freq |-> r.freq]]
    <2>1. QueryEntries(rows) = {f[r] : r \in rows}
      BY DEF QueryEntries
    <2>2. IsFiniteSet(rows)
      <3>1. IsFiniteSet(Rows(rebuilt.stats)) /\ rows \in SUBSET Rows(rebuilt.stats)
        BY RowsAre DEF TrieInv, GetTopN, TopOf
      <3> QED BY <3>1, FS_Subset
    <2> HIDE DEF f
    <2> QED BY <2>1, <2>2, ImageIs
  <1>6. IsFiniteSet(TitleEntries(table) \union TagEntries(table))
    BY <1>3, <1>4, FS_Union
  <1> HIDE DEF table
  <1> QED BY <1>1, <1>5, <1>6, FS_Union

\* What Search may find.
LEMMA SearchIs ==
    ASSUME TrieInv, NEW q, q # <<>>, NEW top \in Search(trie, q)
    PROVE  /\ top \subseteq Through(trie, q) /\ IsFiniteSet(top) /\ IsFiniteSet(Through(trie, q))
           /\ Cardinality(top) \in Nat /\ Cardinality(top) <= SearchLimit
           /\ Cardinality(Through(trie, q)) <= Min({NodeCap, SearchLimit}) => top = Through(trie, q)
           /\ \A x \in top, y \in Through(trie, q) \ top : x.freq >= y.freq
  <1> DEFINE n == Min({NodeCap, SearchLimit})
             T == Through(trie, q)
  <1>1. n \in Nat /\ n <= SearchLimit /\ SearchLimit \in Nat
    BY LimitsAssumption, MinOf
  <1>2. T \in SUBSET trie /\ IsFiniteSet(T)
    <2>1. T \in SUBSET trie
      BY DEF Through
    <2> HIDE DEF T
    <2> QED BY <2>1, TrieFinite, FS_Subset
  <1>3. top \in TopOf(T, n, FreqOf(trie))
    BY DEF Search
  <1> HIDE DEF n, T
  <1>4. /\ top \subseteq T /\ IsFiniteSet(top)
        /\ Cardinality(top) \in Nat /\ Cardinality(top) <= n
        /\ Cardinality(T) <= n => top = T
        /\ \A x \in top, y \in T \ top : FreqOf(trie)[x] >= FreqOf(trie)[y]
    BY <1>1, <1>2, <1>3, TopIs
  <1>5. \A x \in T : FreqOf(trie)[x] = x.freq
    BY <1>2 DEF FreqOf
  <1>6. \A x \in top, y \in T \ top : x.freq >= y.freq
    BY <1>4, <1>5
  <1> QED BY <1>1, <1>2, <1>4, <1>6 DEF n, T

\* What is more frequent than something found has been found with it.
LEMMA TopIsFrequent ==
    ASSUME TrieInv, NEW q \in Word, q # <<>>, NEW top \in Search(trie, q), NEW e \in top
    PROVE  Cardinality({f \in Matching(q) : /\ Popularity(f[1], f[2], f[3]) > e.freq
                                            /\ f[2] = "user_query" => SurelyTaken(f[1])})
             < SearchLimit
  <1> DEFINE F == {f \in Matching(q) : /\ Popularity(f[1], f[2], f[3]) > e.freq
                                       /\ f[2] = "user_query" => SurelyTaken(f[1])}
             g == [y \in top |-> Trio(y)]
  <1>1. /\ top \subseteq Through(trie, q) /\ IsFiniteSet(top)
        /\ Cardinality(top) \in Nat /\ Cardinality(top) <= SearchLimit /\ SearchLimit \in Nat
        /\ \A y \in Through(trie, q) \ top : e.freq >= y.freq
    BY SearchIs, LimitsAssumption
  <1>2. /\ \A y \in Through(trie, q) : y \in trie
        /\ e \in trie /\ e.freq \in Nat /\ e.freq = Popularity(e.word, e.source, e.from)
    <2>1. \A y \in Through(trie, q) : y \in trie
      BY DEF Through
    <2>2. e \in trie
      BY <1>1, <2>1
    <2> QED BY <2>1, <2>2, EntryIs
  <1>3. ASSUME NEW f \in F PROVE f \in {g[y] : y \in top}
    <2>1. PICK y \in Through(trie, q) : Trio(y) = f
      <3>1. f \in Matching(q) /\ (f[2] = "user_query" => SurelyTaken(f[1]))
        OBVIOUS
      <3> HIDE DEF F
      <3> QED BY <3>1, EntryOf
    <2>2. y \in trie /\ y.freq \in Nat /\ y.freq = Popularity(y.word, y.source, y.from)
      BY <1>2, EntryIs
    <2>3. f[1] = y.word /\ f[2] = y.source /\ f[3] = y.from
      BY <2>1 DEF Trio
    <2>4. y.freq > e.freq
      BY <2>2, <2>3
    <2>5. y \in top
      BY <1>1, <1>2, <2>2, <2>4
    <2> QED BY <2>1, <2>5
  <1>4. Trio(e) \in {g[y] : y \in top} /\ Trio(e) \notin F
    <2>1. Popularity(Trio(e)[1], Trio(e)[2], Trio(e)[3]) = e.freq
      BY <1>2 DEF Trio
    <2>2. ~(e.freq > e.freq)
      BY <1>2
    <2>3. Trio(e) \in {g[y] : y \in top}
      OBVIOUS
    <2> QED BY <2>1, <2>2, <2>3
  <1>5. IsFiniteSet({g[y] : y \in top}) /\ Cardinality({g[y] : y \in top}) <= Cardinality(top)
    <2> HIDE DEF g
    <2> QED BY <1>1, ImageIs
  <1>6. F \union {Trio(e)} \in SUBSET {g[y] : y \in top} /\ F \in SUBSET {g[y] : y \in top}
    <2> HIDE DEF F, g
    <2> QED BY <1>3, <1>4
  <1> DEFINE G == {g[y] : y \in top}
             t == Trio(e)
  <1> HIDE DEF F, G, t
  <1>7. /\ IsFiniteSet(F) /\ Cardinality(F) \in Nat /\ Cardinality(G) \in Nat
        /\ Cardinality(F \union {t}) <= Cardinality(G)
    <2>1. F \in SUBSET G /\ F \union {t} \in SUBSET G /\ IsFiniteSet(G)
      BY <1>5, <1>6 DEF G, t
    <2> QED BY <2>1, FS_Subset, FS_CardinalityType
  <1>8. Cardinality(F \union {t}) = Cardinality(F) + 1
    BY <1>4, <1>7, FS_AddElement DEF t
  <1>9. Cardinality(F) < SearchLimit
    BY <1>1, <1>5, <1>7, <1>8 DEF G
  <1> QED BY <1>9 DEF F

\* With nothing to be cut, all that matches is found.
LEMMA TopIsAll ==
    ASSUME TrieInv, NEW q \in Word, q # <<>>, NEW top \in Search(trie, q),
           Cardinality(DOMAIN rebuilt.stats) <= TopQueries,
           Cardinality(Matching(q)) <= Min({NodeCap, SearchLimit})
    PROVE  Matching(q) \subseteq {Trio(e) : e \in top}
  <1> DEFINE T == Through(trie, q)
             g == [y \in T |-> Trio(y)]
             G == {g[y] : y \in T}
  <1>1. \A y \in T : y \in trie /\ IsPrefix(q, y.word)
    BY DEF Through
  <1>2. IsFiniteSet(T) /\ (Cardinality(T) <= Min({NodeCap, SearchLimit}) => top = T)
    BY SearchIs
  <1>3. ASSUME NEW w \in DOMAIN rebuilt.stats PROVE SurelyTaken(w)
    <2> DEFINE P == {p \in DOMAIN rebuilt.stats : rebuilt.stats[p] >= rebuilt.stats[w]}
               D == DOMAIN rebuilt.stats
    <2>1. P \in SUBSET D /\ IsFiniteSet(D)
      BY DEF TrieInv, IsStats
    <2> HIDE DEF P, D
    <2>2. Cardinality(P) <= Cardinality(D) /\ Cardinality(P) \in Nat /\ Cardinality(D) \in Nat
      BY <2>1, FS_Subset, FS_CardinalityType
    <2>3. Cardinality(P) <= TopQueries
      BY <2>2, LimitsAssumption DEF D
    <2> QED BY <2>3 DEF SurelyTaken, P
  <1>4. ASSUME NEW f \in Matching(q) PROVE f \in G
    <2>1. f[2] = "user_query" => f[1] \in DOMAIN rebuilt.stats
      <3>1. CASE \E d \in DOMAIN rebuilt.docs : f = <<rebuilt.docs[d].title, "title", d>>
        BY <3>1
      <3>2. CASE \E d \in DOMAIN rebuilt.docs : \E w \in rebuilt.docs[d].tags : f = <<w, "tag", d>>
        BY <3>2
      <3>3. CASE \E w \in DOMAIN rebuilt.stats : f = <<w, "user_query", "">>
        <4>1. PICK w \in DOMAIN rebuilt.stats : f = <<w, "user_query", "">>
          BY <3>3
        <4>2. f[1] = w
          BY ONLY <4>1
        <4> QED BY <4>2
      <3> QED BY <3>1, <3>2, <3>3 DEF Matching
    <2>2. \E y \in T : Trio(y) = f
      BY <1>3, <2>1, EntryOf
    <2> QED BY <2>2
  <1>5. G \subseteq Matching(q)
    <2>1. ASSUME NEW y \in T PROVE g[y] \in Matching(q)
      <3>1. Trio(y) \in Matching(q)
        BY <1>1, EntryIs
      <3> QED BY <3>1
    <2> HIDE DEF g
    <2> QED BY <2>1
  <1>6. \A x, y \in T : g[x] = g[y] => x = y
    <2>1. ASSUME NEW x \in T, NEW y \in T, Trio(x) = Trio(y) PROVE x = y
      <3>1. x.word = y.word /\ x.source = y.source /\ x.from = y.from
        BY <2>1 DEF Trio
      <3>2. /\ x.freq = Popularity(x.word, x.source, x.from)
            /\ x = [word |-> x.word, source |-> x.source, from |-> x.from, freq |-> x.freq]
        BY <1>1, EntryIs
      <3>3. /\ y.freq = Popularity(y.word, y.source, y.from)
            /\ y = [word |-> y.word, source |-> y.source, from |-> y.from, freq |-> y.freq]
        BY <1>1, EntryIs
      <3>4. x.freq = y.freq
        BY <3>1, <3>2, <3>3
      <3> QED BY <3>1, <3>2, <3>3, <3>4
    <2> QED BY <2>1
  <1>7. G = Matching(q)
    <2> HIDE DEF G
    <2> QED BY <1>4, <1>5
  <1>8. Cardinality(G) = Cardinality(T)
    <2> HIDE DEF g, T
    <2> QED BY <1>2, <1>6, ImageIs
  <1>9. top = T
    <2> HIDE DEF G, T
    <2> QED BY <1>2, <1>7, <1>8
  <1>10. G = {Trio(e) : e \in top}
    BY <1>9
  <1> QED BY <1>7, <1>10

-----------------------------------------------------------------------------
(* The recalls.                                                            *)

LEMMA RecallIs ==
    ASSUME NEW p, NEW q, NEW d
    PROVE  /\ p = "SugTrieRecallProcessor" => Recall(p, q, d) = SugTrieRecall(trie, q)
           /\ p = "HintTagRecall" => Recall(p, q, d) = HintTagRecall(docs, d)
           /\ p = "HintCategoryRecall" => Recall(p, q, d) = HintCategoryRecall(docs, d)
           /\ p = "HintCooccurRecall" =>
                Recall(p, q, d) = HintCooccurRecall(docs, cooccur, d, CooccurOpen)
           /\ p = "HintQueryExpandRecall" =>
                Recall(p, q, d) = HintQueryExpandRecall(Opened(stats, StatsOpen(DOMAIN handling)), q)
           /\ p = "NavGlobalHotRecall" =>
                Recall(p, q, d) = NavGlobalHotRecall(Opened(stats, StatsOpen(DOMAIN handling)))
           /\ p = "NavDocTitleRecall" => Recall(p, q, d) = NavDocTitleRecall(docs)
           /\ p = "NavPresetRecall" => Recall(p, q, d) = NavPresetRecall
           /\ p \notin {"SugTrieRecallProcessor", "HintTagRecall", "HintCategoryRecall",
                        "HintCooccurRecall", "HintQueryExpandRecall", "NavGlobalHotRecall",
                        "NavDocTitleRecall", "NavPresetRecall"} => Recall(p, q, d) = {{}}
  BY DEF Recall

\* The set of candidates made of the elements of a finite set.
LEMMA CandidatesFinite ==
    ASSUME NEW S, IsFiniteSet(S), NEW f, NEW out, out = {f[x] : x \in S}
    PROVE  IsFiniteSet(out)
  BY ImageIs

LEMMA TrieRecallIs ==
    ASSUME TrieInv, NEW q, NEW out \in SugTrieRecall(trie, q)
    PROVE  /\ IsFiniteSet(out)
           /\ \A x \in out : x.source \in FromTrie
           /\ \E top \in Search(trie, q) :
                /\ \A x \in out : \E e \in top : Trio(x) = Trio(e)
                /\ \A e \in top : \E x \in out : Trio(x) = Trio(e)
  <1> DEFINE largest(top) == LargestOf({e.freq : e \in top})
             made(top, e) ==
               Candidate(e.word, e.source, e.from,
                         [pm |-> (1000 * Len(q)) \div Len(e.word), fn |-> LogShare(e.freq, largest(top)),
                          fs |-> 1000])
  <1>1. PICK top \in Search(trie, q) : out = {made(top, e) : e \in top}
    BY DEF SugTrieRecall
  <1>2. top \subseteq trie /\ IsFiniteSet(top)
    <2>1. CASE q = <<>>
      <3>1. top = {}
        BY <2>1 DEF Search
      <3> QED BY <3>1, FS_EmptySet
    <2>2. CASE q # <<>>
      BY <2>2, SearchIs DEF Through
    <2> QED BY <2>1, <2>2
  <1>3. \A e \in top : Trio(made(top, e)) = Trio(e) /\ made(top, e).source = e.source
    BY DEF Candidate, Trio
  <1> DEFINE f == [e \in top |-> made(top, e)]
  <1>4. out = {f[e] : e \in top}
    BY <1>1
  <1> HIDE DEF made
  <1>5. IsFiniteSet(out)
    <2> HIDE DEF f
    <2> QED BY <1>2, <1>4, CandidatesFinite
  <1>6. \A x \in out : x.source \in FromTrie
    BY <1>1, <1>2, <1>3, EntryIs
  <1>7. /\ \A x \in out : \E e \in top : Trio(x) = Trio(e)
        /\ \A e \in top : \E x \in out : Trio(x) = Trio(e)
    BY <1>1, <1>3
  <1> QED BY <1>5, <1>6, <1>7

LEMMA TitledIs ==
    ASSUME NEW table, IsDocs(table), NEW d, NEW S \in SUBSET OtherTitled(table, d)
    PROVE  S \subseteq DOMAIN table \ {d} /\ IsFiniteSet(S)
  <1>1. S \in SUBSET DOMAIN table /\ S \subseteq DOMAIN table \ {d} /\ IsFiniteSet(DOMAIN table)
    BY DEF OtherTitled, IsDocs
  <1> QED BY <1>1, FS_Subset

LEMMA NoTagInCommon ==
    ASSUME NEW a, NEW b, IsFiniteSet(a), IsFiniteSet(b), a \cap b = {}
    PROVE  TagJaccard(a, b) = 0
  <1>1. CASE a = {} \/ b = {}
    BY <1>1 DEF TagJaccard
  <1>2. CASE ~(a = {} \/ b = {})
    <2>1. PICK n \in Nat : n = Cardinality(a \union b)
      <3>1. IsFiniteSet(a \union b)
        BY FS_Union
      <3> QED BY <3>1, FS_CardinalityType
    <2>2. n > 0
      <3>1. IsFiniteSet(a \union b) /\ a \union b # {}
        BY <1>2, FS_Union
      <3> QED BY <2>1, <3>1, FS_EmptySet
    <2>3. Cardinality(a \cap b) = 0
      BY FS_EmptySet
    <2>4. TagJaccard(a, b) = (1000 * Cardinality(a \cap b)) \div Cardinality(a \union b)
      BY <1>2 DEF TagJaccard
    <2>5. (1000 * 0) \div n = 0
      BY <2>2
    <2> QED BY <2>1, <2>3, <2>4, <2>5
  <1> QED BY <1>1, <1>2

LEMMA TagRecallIs ==
    ASSUME NEW table, IsDocs(table), NEW d, NEW out \in HintTagRecall(table, d)
    PROVE  /\ IsFiniteSet(out)
           /\ \A x \in out :
                /\ x.source = "tag_match" /\ x.from \in DOMAIN table \ {d} /\ d \in DOMAIN table
                /\ table[x.from].title = x.word /\ table[x.from].tags \cap table[d].tags # {}
  <1> DEFINE S == {f \in OtherTitled(table, d) : TagJaccard(table[d].tags, table[f].tags) > 100}
             made(e) == Candidate(table[e].title, "tag_match", e,
                                  [tag_relevance |-> TagJaccard(table[d].tags, table[e].tags)])
             f == [e \in S |-> made(e)]
  <1>1. CASE d \notin DOMAIN table
    <2>1. out = {}
      BY <1>1 DEF HintTagRecall
    <2> QED BY <2>1, FS_EmptySet
  <1>2. CASE d \in DOMAIN table
    <2>1. out = {made(e) : e \in S} /\ out = {f[e] : e \in S}
      BY <1>2 DEF HintTagRecall
    <2>2. S \subseteq DOMAIN table \ {d} /\ IsFiniteSet(S)
      <3>1. S \in SUBSET OtherTitled(table, d)
        OBVIOUS
      <3> HIDE DEF S
      <3> QED BY <3>1, TitledIs
    <2>3. IsFiniteSet(out)
      <3>1. out = {f[e] : e \in S}
        BY <2>1
      <3> HIDE DEF S, f
      <3> QED BY <2>2, <3>1, CandidatesFinite
    <2>4. ASSUME NEW e \in S PROVE table[e].tags \cap table[d].tags # {}
      <3>1. TagJaccard(table[d].tags, table[e].tags) > 100
        OBVIOUS
      <3>2. IsFiniteSet(table[d].tags) /\ IsFiniteSet(table[e].tags)
        BY <1>2, <2>2 DEF IsDocs
      <3>3. table[d].tags \cap table[e].tags = {} => TagJaccard(table[d].tags, table[e].tags) = 0
        BY <3>2, NoTagInCommon
      <3> QED BY <3>1, <3>3
    <2>5. \A e \in S : made(e).source = "tag_match" /\ made(e).from = e /\ made(e).word = table[e].title
      BY DEF Candidate
    <2> HIDE DEF made, S
    <2> QED BY <1>2, <2>1, <2>2, <2>3, <2>4, <2>5
  <1> QED BY <1>1, <1>2

OfCategory(out, table, d) ==
    \A x \in out :
      /\ x.source = "category_hot" /\ x.from \in DOMAIN table \ {d} /\ d \in DOMAIN table
      /\ table[x.from].title = x.word /\ table[x.from].category = table[d].category

WholeCategory(out, table, d) ==
    d \in DOMAIN table =>
        \A e \in DOMAIN table \ {d} :
           table[e].title # <<>> /\ table[d].category # "" /\ table[e].category = table[d].category =>
              \E x \in out : x.word = table[e].title

LEMMA CategoryRecallIs ==
    ASSUME NEW table, IsDocs(table), NEW d, NEW out \in HintCategoryRecall(table, d)
    PROVE  /\ IsFiniteSet(out)
           /\ OfCategory(out, table, d) /\ WholeCategory(out, table, d)
  <1> DEFINE S == {e \in OtherTitled(table, d) : table[e].category = table[d].category}
             largest == LargestOf({table[e].clicks : e \in S})
             made(e) == Candidate(table[e].title, "category_hot", e,
                                  [category_relevance |-> LogShare(table[e].clicks, largest)])
             f == [e \in S |-> made(e)]
  <1>1. CASE d \notin DOMAIN table \/ table[d].category = ""
    <2>1. out = {}
      BY <1>1 DEF HintCategoryRecall
    <2> QED BY <1>1, <2>1, FS_EmptySet DEF OfCategory, WholeCategory
  <1>2. CASE ~(d \notin DOMAIN table \/ table[d].category = "")
    <2>1. out = {made(e) : e \in S}
      BY <1>2 DEF HintCategoryRecall
    <2>2. S \subseteq DOMAIN table \ {d} /\ IsFiniteSet(S)
      <3>1. S \in SUBSET OtherTitled(table, d)
        OBVIOUS
      <3> HIDE DEF S
      <3> QED BY <3>1, TitledIs
    <2>3. IsFiniteSet(out)
      <3>1. out = {f[e] : e \in S}
        BY <2>1
      <3> HIDE DEF S, f
      <3> QED BY <2>2, <3>1, CandidatesFinite
    <2>4. \A e \in S : made(e).source = "category_hot" /\ made(e).from = e /\ made(e).word = table[e].title
      BY DEF Candidate
    <2>5. ASSUME NEW e \in DOMAIN table \ {d}, table[e].title # <<>>,
                 table[e].category = table[d].category
          PROVE  \E x \in out : x.word = table[e].title
      <3>1. e \in S
        BY <2>5 DEF OtherTitled
      <3> HIDE DEF made, S
      <3> QED BY <2>1, <2>4, <3>1
    <2>6. \A e \in S : table[e].category = table[d].category
      OBVIOUS
    <2> HIDE DEF made, S
    <2>7. ASSUME NEW x \in out
          PROVE  /\ x.source = "category_hot" /\ x.from \in DOMAIN table \ {d} /\ d \in DOMAIN table
                 /\ table[x.from].title = x.word /\ table[x.from].category = table[d].category
      <3>1. PICK e \in S : x = made(e)
        BY <2>1
      <3>2. x.source = "category_hot" /\ x.from = e /\ x.word = table[e].title
        BY <2>4, <3>1
      <3> QED BY <1>2, <2>2, <2>6, <3>2
    <2>8. OfCategory(out, table, d)
      BY <2>7 DEF OfCategory
    <2>9. WholeCategory(out, table, d)
      BY <2>5 DEF WholeCategory
    <2> QED BY <2>3, <2>8, <2>9
  <1> QED BY <1>1, <1>2

FromPairs(out, table, pairs, d) ==
    \A x \in out :
      /\ x.source = "cooccur" /\ x.from \in DOMAIN table \ {d} /\ table[x.from].title = x.word
      /\ \E r \in pairs : r.src = d /\ r.dst = x.from

LEMMA CooccurRecallIs ==
    ASSUME NEW table, NEW pairs, IsCooccur(pairs), NEW d, NEW open \in BOOLEAN,
           NEW out \in HintCooccurRecall(table, pairs, d, open)
    PROVE  IsFiniteSet(out) /\ FromPairs(out, table, pairs, d)
  <1> DEFINE rows == IF open THEN {r \in pairs : r.src = d} ELSE {}
             kept(top) == {r \in top : r.dst \in DOMAIN table /\ table[r.dst].title # <<>>}
             made(top, r) == Candidate(table[r.dst].title, "cooccur", r.dst,
                               [cooccur_score |-> (1000 * r.freq) \div LargestOf({s.freq : s \in kept(top)})])
  <1>1. PICK top \in TopOf(rows, CooccurLimit, FreqOf(rows)) : out = {made(top, r) : r \in kept(top)}
    BY DEF HintCooccurRecall
  <1>2. rows \subseteq pairs /\ (\A r \in rows : r.src = d) /\ top \in SUBSET rows
    BY DEF TopOf
  <1>3. kept(top) \in SUBSET pairs /\ IsFiniteSet(pairs)
    BY <1>2 DEF IsCooccur
  <1>4. IsFiniteSet(out)
    <2> DEFINE f == [r \in kept(top) |-> made(top, r)]
               K == kept(top)
    <2>1. out = {f[r] : r \in K}
      <3>1. \A r \in kept(top) : f[r] = made(top, r)
        OBVIOUS
      <3> HIDE DEF made, kept, f
      <3> QED BY <1>1, <3>1
    <2>2. K \in SUBSET pairs
      BY <1>3
    <2> HIDE DEF f, K
    <2>3. IsFiniteSet(K)
      BY <1>3, <2>2, FS_Subset
    <2> QED BY <2>1, <2>3, CandidatesFinite
  <1>5. ASSUME NEW r \in kept(top)
        PROVE  /\ made(top, r).source = "cooccur" /\ made(top, r).from = r.dst
               /\ made(top, r).word = table[r.dst].title
               /\ r \in pairs /\ r.src = d /\ r.dst \in DOMAIN table \ {d}
    <2>1. /\ made(top, r).source = "cooccur" /\ made(top, r).from = r.dst
          /\ made(top, r).word = table[r.dst].title
      BY DEF Candidate
    <2>2. r \in pairs /\ r.src = d /\ r.dst \in DOMAIN table
      BY <1>2
    <2>3. r.src # r.dst
      BY <2>2 DEF IsCooccur
    <2> QED BY <2>1, <2>2, <2>3
  <1> HIDE DEF made, kept
  <1>6. FromPairs(out, table, pairs, d)
    BY <1>1, <1>5 DEF FromPairs
  <1> QED BY <1>4, <1>6

LEMMA PrefixRowsAre ==
    ASSUME NEW table, IsStats(table), NEW prefix, NEW n, NEW rows \in GetByPrefix(table, prefix, n)
    PROVE  /\ rows \subseteq Rows(table) /\ IsFiniteSet(rows)
           /\ \A r \in rows : r.query \in DOMAIN table /\ IsPrefix(prefix, r.query) /\ prefix # <<>>
  <1>1. rows \in SUBSET Rows(table) /\ \A r \in rows : IsPrefix(prefix, r.query) /\ prefix # <<>>
    <2>1. CASE prefix = <<>>
      BY <2>1 DEF GetByPrefix
    <2>2. CASE prefix # <<>>
      <3>1. rows \in SUBSET {r \in Rows(table) : IsPrefix(prefix, r.query)}
        BY <2>2 DEF GetByPrefix, TopOf
      <3> QED BY <2>2, <3>1
    <2> QED BY <2>1, <2>2
  <1>2. IsFiniteSet(rows)
    BY <1>1, RowsAre, FS_Subset
  <1> QED BY <1>1, <1>2, RowsAre

LEMMA ExpandRecallIs ==
    ASSUME NEW table, IsStats(table), NEW q \in Word, NEW out \in HintQueryExpandRecall(table, q)
    PROVE  /\ IsFiniteSet(out)
           /\ \A x \in out :
                /\ x.source = "query_expand" /\ x.word \in DOMAIN table \ {q}
                /\ q # <<>> /\ IsPrefix(SubSeq(q, 1, Min({ExpandPrefix, Len(q)})), x.word)
  <1> DEFINE prefix == SubSeq(q, 1, Min({ExpandPrefix, Len(q)}))
             others(rows) == {r \in rows : r.query # q}
             made(rows, r) ==
               Candidate(r.query, "query_expand", "",
                         [query_relevance |-> LogShare(r.freq, LargestOf({s.freq : s \in others(rows)}))])
  <1>1. PICK rows \in GetByPrefix(table, prefix, ExpandLimit) : out = {made(rows, r) : r \in others(rows)}
    BY DEF HintQueryExpandRecall
  <1>2. q = <<>> => prefix = <<>>
    <2>1. Min({ExpandPrefix, 0}) = 0
      BY LimitsAssumption, MinOf
    <2> QED BY <2>1
  <1>3. /\ IsFiniteSet(rows)
        /\ \A r \in rows : r.query \in DOMAIN table /\ IsPrefix(prefix, r.query) /\ prefix # <<>>
    <2> HIDE DEF prefix
    <2> QED BY <1>1, PrefixRowsAre
  <1>4. IsFiniteSet(out)
    <2> DEFINE K == others(rows)
               f == [r \in K |-> made(rows, r)]
    <2>1. out = {f[r] : r \in K} /\ K \in SUBSET rows
      BY <1>1
    <2> HIDE DEF f, K
    <2>2. IsFiniteSet(K)
      BY <1>3, <2>1, FS_Subset
    <2> QED BY <2>1, <2>2, CandidatesFinite
  <1>5. \A r \in others(rows) :
          /\ made(rows, r).source = "query_expand" /\ made(rows, r).word = r.query
          /\ r \in rows /\ r.query # q
    BY DEF Candidate
  <1> HIDE DEF made, others, prefix
  <1>6. \A x \in out : x.source = "query_expand" /\ x.word \in DOMAIN table \ {q} /\ q # <<>>
                       /\ IsPrefix(prefix, x.word)
    BY <1>1, <1>2, <1>3, <1>5
  <1> QED BY <1>4, <1>6 DEF prefix

LEMMA NavRecallsAre ==
    ASSUME NEW table, IsDocs(table), NEW counts, IsStats(counts),
           NEW out \in NavGlobalHotRecall(counts) \union NavDocTitleRecall(table) \union NavPresetRecall
    PROVE  IsFiniteSet(out) /\ \A x \in out : x.source \in {"hot", "doc_hot", "preset"}
  <1>1. CASE out \in NavGlobalHotRecall(counts)
    <2> DEFINE K(rows) == {s \in rows : s.query # <<>>}
               made(rows, r) == Candidate(r.query, "hot", "",
                                  [heat |-> LogShare(r.freq, LargestOf({s.freq : s \in rows}))])
    <2>1. PICK rows \in GetTopN(counts, HotQueries) : out = {made(rows, r) : r \in K(rows)}
      BY <1>1 DEF NavGlobalHotRecall
    <2> DEFINE f == [r \in K(rows) |-> made(rows, r)]
               S == K(rows)
    <2>2. out = {f[r] : r \in S} /\ S \in SUBSET rows /\ rows \in SUBSET Rows(counts)
      BY <2>1 DEF GetTopN, TopOf
    <2>3. \A x \in out : x.source = "hot"
      <3>1. \A r \in K(rows) : made(rows, r).source = "hot"
        BY DEF Candidate
      <3> HIDE DEF made, K, f, S
      <3> QED BY <2>1, <3>1
    <2> HIDE DEF f, S
    <2>4. IsFiniteSet(S)
      <3>1. S \in SUBSET Rows(counts)
        BY <2>2
      <3> QED BY <3>1, RowsAre, FS_Subset
    <2>5. IsFiniteSet(out)
      BY <2>2, <2>4, CandidatesFinite
    <2> QED BY <2>3, <2>5
  <1>2. CASE out \in NavDocTitleRecall(table)
    <2> DEFINE S == OtherTitled(table, "")
               made(d) == Candidate(table[d].title, "doc_hot", d,
                            [heat |-> LogShare(table[d].clicks, LargestOf({table[e].clicks : e \in S}))])
               f == [d \in S |-> made(d)]
    <2>1. out = {made(d) : d \in S}
      BY <1>2 DEF NavDocTitleRecall
    <2>2. \A x \in out : x.source = "doc_hot"
      <3>1. \A d \in S : made(d).source = "doc_hot"
        BY DEF Candidate
      <3> HIDE DEF made, S, f
      <3> QED BY <2>1, <3>1
    <2>3. IsFiniteSet(S)
      <3>1. S \in SUBSET OtherTitled(table, "")
        OBVIOUS
      <3> HIDE DEF S
      <3> QED BY <3>1, TitledIs
    <2>4. out = {f[d] : d \in S}
      BY <2>1
    <2> HIDE DEF S, f
    <2>5. IsFiniteSet(out)
      BY <2>3, <2>4, CandidatesFinite
    <2> QED BY <2>2, <2>5
  <1>3. CASE out \in NavPresetRecall
    <2> DEFINE f == [w \in PresetWords |-> Candidate(w, "preset", "", [heat |-> 500])]
    <2>1. out = {f[w] : w \in PresetWords}
      BY <1>3 DEF NavPresetRecall
    <2>2. \A x \in out : x.source = "preset"
      <3>1. \A w \in PresetWords : f[w].source = "preset"
        BY DEF Candidate
      <3> HIDE DEF f
      <3> QED BY <2>1, <3>1
    <2> HIDE DEF f
    <2>3. IsFiniteSet(out)
      BY <2>1, PresetAssumption, CandidatesFinite
    <2> QED BY <2>2, <2>3
  <1> QED BY <1>1, <1>2, <1>3

\* What HintsLeadElsewhere says of one hint.
LeadsElsewhere(x, q, d) ==
    /\ x.source \in {"tag_match", "category_hot", "cooccur"} =>
           x.from \in DOMAIN docs \ {d} /\ docs[x.from].title = x.word
    /\ x.source = "tag_match" =>
           d \in DOMAIN docs /\ docs[x.from].tags \cap docs[d].tags # {}
    /\ x.source = "category_hot" =>
           d \in DOMAIN docs /\ docs[x.from].category = docs[d].category
    /\ x.source = "cooccur" => \E r \in cooccur : r.src = d /\ r.dst = x.from
    /\ x.source = "query_expand" =>
           /\ x.word \in DOMAIN stats \ {q}
           /\ q # <<>> /\ IsPrefix(SubSeq(q, 1, Min({ExpandPrefix, Len(q)})), x.word)

\* Whatever a node of a recall graph gives.
LEMMA RecallGives ==
    ASSUME SiteInv, TrieInv, NEW p, NEW q \in Word, NEW d, NEW out \in Recall(p, q, d)
    PROVE  /\ IsFiniteSet(out)
           /\ \A x \in out : x.source \in FromTrie => p = "SugTrieRecallProcessor"
           /\ \A x \in out : LeadsElsewhere(x, q, d)
  <1> DEFINE counts == Opened(stats, StatsOpen(DOMAIN handling))
  <1>1. IsDocs(docs) /\ IsCooccur(cooccur)
        /\ IsStats(counts) /\ DOMAIN counts \subseteq DOMAIN stats
    <2>1. StatsOpen(DOMAIN handling) \in BOOLEAN /\ IsStats(stats)
      BY DEF StatsOpen, SiteInv
    <2> QED BY <2>1, OpenedStats DEF SiteInv
  <1> HIDE DEF counts
  <1>2. CASE p = "SugTrieRecallProcessor"
    <2>1. IsFiniteSet(out) /\ \A x \in out : x.source \in FromTrie
      BY <1>2, RecallIs, TrieRecallIs
    <2> QED BY <1>2, <2>1 DEF LeadsElsewhere, FromTrie
  <1>3. CASE p = "HintTagRecall"
    <2>1. out \in HintTagRecall(docs, d)
      BY <1>3, RecallIs
    <2>2. /\ IsFiniteSet(out)
          /\ \A x \in out :
               /\ x.source = "tag_match" /\ x.from \in DOMAIN docs \ {d} /\ d \in DOMAIN docs
               /\ docs[x.from].title = x.word /\ docs[x.from].tags \cap docs[d].tags # {}
      BY <1>1, <2>1, TagRecallIs
    <2> QED BY <2>2 DEF LeadsElsewhere, FromTrie
  <1>4. CASE p = "HintCategoryRecall"
    <2>1. out \in HintCategoryRecall(docs, d)
      BY <1>4, RecallIs
    <2>2. IsFiniteSet(out) /\ OfCategory(out, docs, d)
      BY <1>1, <2>1, CategoryRecallIs
    <2> QED BY <2>2 DEF OfCategory, LeadsElsewhere, FromTrie
  <1>5. CASE p = "HintCooccurRecall"
    <2>1. out \in HintCooccurRecall(docs, cooccur, d, CooccurOpen)
      BY <1>5, RecallIs
    <2>2. CooccurOpen \in BOOLEAN
      BY DEF CooccurOpen
    <2>3. IsFiniteSet(out) /\ FromPairs(out, docs, cooccur, d)
      <3>1. PICK open \in BOOLEAN : open = CooccurOpen
        BY <2>2
      <3>2. out \in HintCooccurRecall(docs, cooccur, d, open)
        BY <2>1, <3>1
      <3> QED BY <1>1, <3>2, CooccurRecallIs
    <2> QED BY <2>3 DEF FromPairs, LeadsElsewhere, FromTrie
  <1>6. CASE p = "HintQueryExpandRecall"
    <2>1. out \in HintQueryExpandRecall(counts, q)
      BY <1>6, RecallIs DEF counts
    <2>2. /\ IsFiniteSet(out)
          /\ \A x \in out :
               /\ x.source = "query_expand" /\ x.word \in DOMAIN counts \ {q}
               /\ q # <<>> /\ IsPrefix(SubSeq(q, 1, Min({ExpandPrefix, Len(q)})), x.word)
      BY <1>1, <2>1, ExpandRecallIs
    <2> QED BY <1>1, <2>2 DEF LeadsElsewhere, FromTrie
  <1>7. CASE p \in {"NavGlobalHotRecall", "NavDocTitleRecall", "NavPresetRecall"}
    <2>1. out \in NavGlobalHotRecall(counts) \union NavDocTitleRecall(docs) \union NavPresetRecall
      BY <1>7, RecallIs DEF counts
    <2>2. IsFiniteSet(out) /\ \A x \in out : x.source \in {"hot", "doc_hot", "preset"}
      BY <1>1, <2>1, NavRecallsAre
    <2> QED BY <2>2 DEF LeadsElsewhere, FromTrie
  <1>8. CASE p \notin {"SugTrieRecallProcessor", "HintTagRecall", "HintCategoryRecall",
                       "HintCooccurRecall", "HintQueryExpandRecall", "NavGlobalHotRecall",
                       "NavDocTitleRecall", "NavPresetRecall"}
    <2>1. out = {}
      BY <1>8, RecallIs
    <2> QED BY <2>1, FS_EmptySet
  <1> QED BY <1>2, <1>3, <1>4, <1>5, <1>6, <1>7, <1>8

\* All of an outcome of each node that was not skipped.
GivesAll(c, skipped, q, d, found) ==
    \A i \in DOMAIN RecallNodes(c) \ skipped :
       \E out \in Recall(pipelines[c.business_type].recall.slots[i], q, d) : out \subseteq found

\* What MergeRecall puts together.
LEMMA MergeIs ==
    ASSUME SiteInv, TrieInv, NEW c, RecallNodes(c) \in Seq(RecallEntry),
           NEW skipped, NEW q \in Word, NEW d, NEW found \in MergeRecall(c, skipped, q, d)
    PROVE  /\ IsFiniteSet(found)
           /\ \A x \in found : \E i \in DOMAIN RecallNodes(c) :
                \E out \in Recall(pipelines[c.business_type].recall.slots[i], q, d) : x \in out
           /\ GivesAll(c, skipped, q, d, found)
  <1> DEFINE N == DOMAIN RecallNodes(c)
             ran == N \ skipped
             outcomes(i) == Recall(pipelines[c.business_type].recall.slots[i], q, d)
  <1>1. PICK pick \in [ran -> UNION {outcomes(i) : i \in ran}] :
          found = UNION {pick[i] : i \in ran} /\ \A i \in ran : pick[i] \in outcomes(i)
    BY DEF MergeRecall
  <1>2. ran \in SUBSET N /\ IsFiniteSet(N)
    BY NodesType
  <1>3. \A i \in ran : IsFiniteSet(pick[i])
    BY <1>1, RecallGives
  <1>4. IsFiniteSet(found)
    <2> HIDE DEF N, ran, outcomes
    <2>1. IsFiniteSet(ran)
      BY <1>2, FS_Subset
    <2>2. IsFiniteSet({pick[i] : i \in ran})
      BY <2>1, ImageIs
    <2>3. \A S \in {pick[i] : i \in ran} : IsFiniteSet(S)
      BY <1>3
    <2> QED BY <1>1, <2>2, <2>3, FS_UNION
  <1>5. \A x \in found : \E i \in N : \E out \in outcomes(i) : x \in out
    <2> HIDE DEF outcomes
    <2> QED BY <1>1
  <1>6. \A i \in ran : \E out \in outcomes(i) : out \subseteq found
    <2> HIDE DEF outcomes
    <2> QED BY <1>1
  <1>7. GivesAll(c, skipped, q, d, found)
    BY <1>6 DEF GivesAll
  <1> QED BY <1>4, <1>5, <1>7

LEMMA RankedIs ==
    ASSUME NEW found, IsFiniteSet(found), NEW stage, stage.top_k \in Int,
           NEW items \in Ranked(found, stage)
    PROVE  /\ items \subseteq found
           /\ stage.processors # <<>> /\ Cardinality(items) < TopK(stage) => items = found
  <1>1. TopK(stage) \in Nat
    BY DEF TopK
  <1>2. CASE found = {} \/ stage.processors = <<>>
    BY <1>2 DEF Ranked
  <1>3. CASE ~(found = {} \/ stage.processors = <<>>)
    <2> DEFINE value == [x \in found |-> Score(x, stage)]
    <2>1. items \in TopOf(found, TopK(stage), value)
      BY <1>3 DEF Ranked
    <2> HIDE DEF value
    <2>2. items \subseteq found /\ (items # found => Cardinality(items) = TopK(stage))
      BY <1>1, <2>1, TopIs
    <2> QED BY <1>1, <2>2
  <1> QED BY <1>2, <1>3

-----------------------------------------------------------------------------
(* What a request for suggestions is answered.                             *)

LEMMA NodesOfConfig ==
    ASSUME StartInv, NEW c
    PROVE  RecallNodes(c) \in Seq(RecallEntry)
  BY DEF StartInv, GraphInv, GraphOK, RecallNodes

LEMMA SuggestedIs ==
    ASSUME IInv, NEW h, NEW c, NEW skipped, NEW q \in Word, NEW d,
           NEW items \in Suggested(h, c, skipped, q, d)
    PROVE  \/ /\ items = {}
              /\ ~(CanSearch(h, q, d) /\ ~c.skip_rank /\ Suggests(h, c)
                   /\ c.business_type \in DOMAIN rankConfig)
           \/ /\ CanSearch(h, q, d)
              /\ \E found \in MergeRecall(c, skipped, q, d) :
                   /\ items \subseteq found
                   /\ /\ rankConfig[c.business_type].processors # <<>>
                      /\ Cardinality(items) < TopK(rankConfig[c.business_type])
                      => items = found
  <1> DEFINE stage == rankConfig[c.business_type]
             ranks == CanSearch(h, q, d) /\ ~c.skip_rank /\ Suggests(h, c)
                      /\ c.business_type \in DOMAIN rankConfig
  <1>1. CASE ~ranks
    BY <1>1 DEF Suggested
  <1>2. CASE ranks
    <2>1. PICK found \in MergeRecall(c, skipped, q, d) : items \in Ranked(found, stage)
      BY <1>2 DEF Suggested
    <2>2. IsFiniteSet(found)
      <3>1. RecallNodes(c) \in Seq(RecallEntry) /\ SiteInv /\ TrieInv
        BY NodesOfConfig DEF IInv
      <3> QED BY <3>1, MergeIs
    <2>3. stage.top_k \in Int
      BY <1>2 DEF IInv, StartInv, RankInv
    <2> HIDE DEF stage
    <2>4. items \subseteq found /\ (stage.processors # <<>> /\ Cardinality(items) < TopK(stage) => items = found)
      BY <2>1, <2>2, <2>3, RankedIs
    <2> QED BY <1>2, <2>4 DEF stage
  <1> QED BY <1>1, <1>2

\* Every suggestion comes from a node of the graph.
LEMMA ItemFrom ==
    ASSUME IInv, NEW h, NEW c, NEW skipped, NEW q \in Word, NEW d,
           NEW items \in Suggested(h, c, skipped, q, d), NEW x \in items
    PROVE  /\ CanSearch(h, q, d)
           /\ \E p : \E out \in Recall(p, q, d) : x \in out
  <1>1. CanSearch(h, q, d) /\ \E found \in MergeRecall(c, skipped, q, d) : x \in found
    BY SuggestedIs
  <1>2. PICK found \in MergeRecall(c, skipped, q, d) : x \in found
    BY <1>1
  <1>3. RecallNodes(c) \in Seq(RecallEntry) /\ SiteInv /\ TrieInv
    BY NodesOfConfig DEF IInv
  <1>4. \E i \in DOMAIN RecallNodes(c) :
          \E out \in Recall(pipelines[c.business_type].recall.slots[i], q, d) : x \in out
    BY <1>2, <1>3, MergeIs
  <1> QED BY <1>1, <1>4

\* Such a request has run the processor, and ranked what was found uncut.
RanFor(h, processor, c, q, d, items) ==
    /\ CanSearch(h, q, d) /\ ~c.skip_rank /\ Suggests(h, c) /\ c.business_type \in DOMAIN rankConfig
    /\ rankConfig[c.business_type].processors # <<>>
    /\ \E i \in DOMAIN RecallNodes(c) : pipelines[c.business_type].recall.slots[i] = processor
    /\ Cardinality(items) < TopK(rankConfig[c.business_type])

\* When no node was skipped and nothing was cut, all that a node of the graph
\* gives is there.
LEMMA ItemsWhole ==
    ASSUME IInv, NEW h, NEW c, NEW skipped, skipped = {}, NEW q \in Word, NEW d,
           NEW items \in Suggested(h, c, skipped, q, d), NEW processor,
           RanFor(h, processor, c, q, d, items)
    PROVE  \E out \in Recall(processor, q, d) : out \subseteq items
  <1>1. PICK found \in MergeRecall(c, skipped, q, d) :
          /\ rankConfig[c.business_type].processors # <<>>
          /\ Cardinality(items) < TopK(rankConfig[c.business_type])
          => items = found
    BY SuggestedIs DEF RanFor
  <1>2. items \in MergeRecall(c, skipped, q, d)
    BY <1>1 DEF RanFor
  <1>3. RecallNodes(c) \in Seq(RecallEntry) /\ SiteInv /\ TrieInv
    BY NodesOfConfig DEF IInv
  <1>4. PICK i \in DOMAIN RecallNodes(c) \ skipped :
          pipelines[c.business_type].recall.slots[i] = processor
    BY DEF RanFor
  <1>5. GivesAll(c, skipped, q, d, items)
    BY <1>2, <1>3, MergeIs
  <1> QED BY <1>4, <1>5 DEF GivesAll

LEMMA SugItems ==
    ASSUME IInv, NEW c, NEW skipped, NEW q \in Word, NEW d,
           NEW items \in Suggested("SugBizHandler", c, skipped, q, d),
           NEW x \in items, x.source \in FromTrie
    PROVE  /\ Trio(x) \in Matching(q)
           /\ Cardinality({f \in Matching(q) :
                  /\ Popularity(f[1], f[2], f[3]) > Popularity(x.word, x.source, x.from)
                  /\ f[2] = "user_query" => SurelyTaken(f[1])}) < SearchLimit
  <1>1. PICK p : \E out \in Recall(p, q, d) : x \in out
    BY ItemFrom
  <1>2. PICK out \in Recall(p, q, d) : x \in out
    BY <1>1
  <1>3. q # <<>>
    BY ItemFrom DEF CanSearch, QueryCanSearch
  <1>4. SiteInv /\ TrieInv
    BY DEF IInv
  <1>5. p = "SugTrieRecallProcessor"
    BY <1>2, <1>4, RecallGives
  <1>6. out \in SugTrieRecall(trie, q)
    BY <1>2, <1>5, RecallIs
  <1>7. PICK top \in Search(trie, q) : \A y \in out : \E e \in top : Trio(y) = Trio(e)
    BY <1>4, <1>6, TrieRecallIs
  <1>8. PICK e \in top : Trio(x) = Trio(e)
    BY <1>2, <1>7
  <1>9. x.word = e.word /\ x.source = e.source /\ x.from = e.from
    BY <1>8 DEF Trio
  <1>10. e \in trie /\ IsPrefix(q, e.word)
    BY <1>3, <1>4, SearchIs DEF Through
  <1>11. e.freq = Popularity(x.word, x.source, x.from) /\ Trio(x) \in Matching(q)
    BY <1>4, <1>8, <1>9, <1>10, EntryIs
  <1>12. Cardinality({f \in Matching(q) : /\ Popularity(f[1], f[2], f[3]) > e.freq
                                          /\ f[2] = "user_query" => SurelyTaken(f[1])})
           < SearchLimit
    BY <1>3, <1>4, TopIsFrequent
  <1> QED BY <1>11, <1>12

LEMMA SugWhole ==
    ASSUME IInv, NEW c, NEW skipped, skipped = {}, NEW q \in Word, NEW d,
           NEW items \in Suggested("SugBizHandler", c, skipped, q, d),
           RanFor("SugBizHandler", "SugTrieRecallProcessor", c, q, d, items),
           Cardinality(DOMAIN rebuilt.stats) <= TopQueries,
           Cardinality(Matching(q)) <= Min({NodeCap, SearchLimit})
    PROVE  Matching(q) \subseteq {Trio(x) : x \in {y \in items : y.source \in FromTrie}}
  <1>1. PICK out \in Recall("SugTrieRecallProcessor", q, d) : out \subseteq items
    BY ItemsWhole
  <1>2. TrieInv /\ out \in SugTrieRecall(trie, q)
    BY RecallIs DEF IInv
  <1>3. q # <<>>
    BY DEF RanFor, CanSearch, QueryCanSearch
  <1>4. PICK top \in Search(trie, q) : \A e \in top : \E x \in out : Trio(x) = Trio(e)
    BY <1>2, TrieRecallIs
  <1>5. Matching(q) \subseteq {Trio(e) : e \in top}
    BY <1>2, <1>3, TopIsAll
  <1>6. \A x \in out : x.source \in FromTrie
    BY <1>2, TrieRecallIs
  <1> QED BY <1>1, <1>4, <1>5, <1>6

LEMMA HintItems ==
    ASSUME IInv, NEW c, NEW skipped, NEW q \in Word, NEW d,
           NEW items \in Suggested("HintBizHandler", c, skipped, q, d), NEW x \in items
    PROVE  LeadsElsewhere(x, q, d)
  <1>1. PICK p : \E out \in Recall(p, q, d) : x \in out
    BY ItemFrom
  <1>2. PICK out \in Recall(p, q, d) : x \in out
    BY <1>1
  <1>3. SiteInv /\ TrieInv
    BY DEF IInv
  <1> QED BY <1>2, <1>3, RecallGives

LEMMA HintWhole ==
    ASSUME IInv, NEW c, NEW skipped, skipped = {}, NEW q \in Word, NEW d,
           NEW items \in Suggested("HintBizHandler", c, skipped, q, d),
           RanFor("HintBizHandler", "HintCategoryRecall", c, q, d, items)
    PROVE  WholeCategory(items, docs, d)
  <1>1. PICK out \in Recall("HintCategoryRecall", q, d) : out \subseteq items
    BY ItemsWhole
  <1>2. IsDocs(docs) /\ out \in HintCategoryRecall(docs, d)
    BY RecallIs DEF IInv, SiteInv
  <1>3. WholeCategory(out, docs, d)
    BY <1>2, CategoryRecallIs
  <1> QED BY <1>1, <1>3 DEF WholeCategory

-----------------------------------------------------------------------------
(* The step that answers.                                                  *)

\* A step answers by a handler, or changes nothing, or leaves no such answer.
LEMMA AnswerSteps ==
    ASSUME IInv, [Next]_vars
    PROVE  \/ answer'.status # "200"
           \/ UNCHANGED vars
           \/ \E http \in asks : Answers(http) /\ Request(http)
  <1>1. CASE Boot \/ StartHandler
    <2>1. phase # "serving" /\ answer' = answer
      BY <1>1, NotYetServing DEF Boot, StartHandler
    <2> QED BY <2>1 DEF IInv, AnswerInv
  <1>2. CASE RebuildRequest \/ \E d \in DOMAIN docs : DeleteDoc(d)
    <2>1. answer' = NoAnswer
      BY <1>2 DEF RebuildRequest, DeleteDoc
    <2> QED BY <2>1 DEF NoAnswer
  <1>3. ASSUME NEW http \in asks, Request(http), ~Answers(http)
        PROVE  answer'.status # "200"
    <2>1. NoHandler(http) \/ Hangs(http)
      BY <1>3 DEF Request
    <2> QED BY <2>1 DEF NoHandler, Hangs, Reply
  <1> QED BY <1>1, <1>2, <1>3 DEF Next, Rest

\* The answer, and what it is compared with.
LEMMA AnswerIs ==
    ASSUME IInv, NEW http \in asks, Answers(http), Request(http),
           NEW h, AnsweredBy(h)'
    PROVE  /\ http.route \in DOMAIN routed /\ routed[http.route] = h
           /\ QueryOf(http) \in Word
           /\ UNCHANGED <<docs, cooccur, rebuilt, routed, handling, pipelines, rankConfig>>
           /\ h # "SugBizHandler" => UNCHANGED stats
           /\ \E skipped, items :
                /\ items \in Suggested(h, ConfigFor(http.route), skipped, QueryOf(http), DocIdOf(http))
                /\ answer' = Reply(http, "200", items, skipped # {})
  <1>1. UNCHANGED <<docs, cooccur, rebuilt, routed, handling, pipelines, rankConfig>>
    BY DEF Request, startVars, tables
  <1>2. PICK skipped \in SUBSET DOMAIN RecallNodes(ConfigFor(http.route)) :
          \E items \in Suggested(routed[http.route], ConfigFor(http.route), skipped,
                                 QueryOf(http), DocIdOf(http)) :
             answer' = Reply(http, "200", items, skipped # {})
    BY DEF Answers
  <1>3. http.route \in DOMAIN routed /\ SugSetResponse(routed[http.route], QueryOf(http))
    BY DEF Answers
  <1>4. answer'.route = http.route
    BY <1>2 DEF Reply
  <1>5. routed[http.route] = h
    BY <1>1, <1>4 DEF AnsweredBy
  <1>6. QueryOf(http) \in Word
    BY QueryIs DEF IInv, SiteInv
  <1>7. h # "SugBizHandler" => UNCHANGED stats
    BY <1>3, <1>5 DEF SugSetResponse
  <1> QED BY <1>1, <1>2, <1>3, <1>5, <1>6, <1>7

\* Ran and Uncut after the step.
LEMMA RanIs ==
    ASSUME NEW http, NEW items, NEW late \in BOOLEAN, NEW h, NEW processor,
           NEW c, c = ConfigFor(http.route),
           answer' = Reply(http, "200", items, late),
           UNCHANGED <<routed, handling, pipelines, rankConfig>>,
           Ran(h, processor)', Uncut'
    PROVE  late = FALSE /\ RanFor(h, processor, c, QueryOf(http), DocIdOf(http), items)
  <1>1. /\ answer'.route = http.route /\ answer'.query = QueryOf(http) /\ answer'.doc = DocIdOf(http)
        /\ answer'.items = items /\ answer'.late = late
    BY DEF Reply
  <1>2. ConfigFor(answer.route)' = c
    BY <1>1 DEF ConfigFor
  <1>3. /\ ~answer'.late /\ ~c.skip_rank /\ Suggests(h, c)
        /\ CanSearch(h, answer'.query, answer'.doc)
        /\ \E i \in DOMAIN RecallNodes(c)' : pipelines'[c.business_type].recall.slots[i] = processor
        /\ c.business_type \in DOMAIN rankConfig'
        /\ rankConfig'[c.business_type].processors # <<>>
    BY <1>2 DEF Ran
  <1>4. Cardinality(answer'.items) < TopK(rankConfig'[c.business_type])
    BY <1>2 DEF Uncut
  <1>5. RecallNodes(c)' = RecallNodes(c)
    BY DEF RecallNodes
  <1>6. late = FALSE
    <2>1. ~answer'.late
      BY <1>3
    <2> QED BY <1>1, <2>1
  <1>7. RanFor(h, processor, c, QueryOf(http), DocIdOf(http), items)
    BY <1>1, <1>3, <1>4, <1>5 DEF RanFor
  <1> QED BY <1>6, <1>7

LEMMA SugAnswers ==
    ASSUME IInv, NEW http \in asks, Answers(http), Request(http), AnsweredBy("SugBizHandler")'
    PROVE  SuggestsTheFrequent'
  <1> DEFINE q == QueryOf(http)
             d == DocIdOf(http)
             all == Matching(q)
             frequency(f) == Popularity(f[1], f[2], f[3])
  <1>1. PICK c : c = ConfigFor(http.route)
    OBVIOUS
  <1>2. PICK skipped, items :
          /\ items \in Suggested("SugBizHandler", c, skipped, q, d)
          /\ answer' = Reply(http, "200", items, skipped # {})
    BY <1>1, AnswerIs
  <1>3. q \in Word /\ UNCHANGED <<rebuilt, routed, handling, pipelines, rankConfig>>
    BY AnswerIs
  <1> DEFINE fromTrie == {x \in items : x.source \in FromTrie}
             shown == {Trio(x) : x \in fromTrie}
  <1>4. /\ \A w, s, f : Popularity(w, s, f)' = Popularity(w, s, f)
        /\ \A w : SurelyTaken(w)' <=> SurelyTaken(w)
        /\ Matching(q)' = Matching(q)
    BY <1>3 DEF Popularity, SurelyTaken, Matching
  <1>5. shown \subseteq all
    <2>1. ASSUME NEW x \in fromTrie PROVE Trio(x) \in all
      <3>1. x \in items /\ x.source \in FromTrie
        OBVIOUS
      <3> QED BY <1>2, <1>3, <3>1, SugItems
    <2> QED BY <2>1
  <1>6. ASSUME NEW e \in shown
        PROVE  Cardinality({f \in all : /\ frequency(f) > frequency(e)
                                        /\ f[2] = "user_query" => SurelyTaken(f[1])}) < SearchLimit
    <2>1. PICK x \in fromTrie : e = Trio(x)
      OBVIOUS
    <2>2. e[1] = x.word /\ e[2] = x.source /\ e[3] = x.from
      BY <2>1 DEF Trio
    <2>3. Cardinality({f \in Matching(q) :
              /\ Popularity(f[1], f[2], f[3]) > Popularity(x.word, x.source, x.from)
              /\ f[2] = "user_query" => SurelyTaken(f[1])}) < SearchLimit
      BY <1>2, <1>3, SugItems
    <2> QED BY <2>2, <2>3
  <1>7. ASSUME Ran("SugBizHandler", "SugTrieRecallProcessor")', Uncut',
               Cardinality(DOMAIN rebuilt.stats) <= TopQueries,
               Cardinality(all) <= Min({NodeCap, SearchLimit})
        PROVE  shown = all
    <2>1. PICK late \in BOOLEAN : late = (skipped # {})
      OBVIOUS
    <2>2. answer' = Reply(http, "200", items, late)
      BY <1>2, <2>1
    <2>3. late = FALSE /\ RanFor("SugBizHandler", "SugTrieRecallProcessor", c, q, d, items)
      BY <1>1, <1>3, <1>7, <2>2, RanIs
    <2>4. skipped = {}
      BY <2>1, <2>3
    <2>5. all \subseteq shown
      BY <1>2, <1>3, <1>7, <2>3, <2>4, SugWhole
    <2> QED BY <1>5, <2>5
  <1>8. answer'.items = items /\ answer'.query = q
    BY <1>2 DEF Reply
  <1>9. shown = {<<x.word, x.source, x.from>> : x \in {y \in items : y.source \in {"title", "tag", "user_query"}}}
    BY DEF Trio, FromTrie
  <1> HIDE DEF shown, q
  <1> QED BY <1>3, <1>4, <1>5, <1>6, <1>7, <1>8, <1>9 DEF SuggestsTheFrequent

LEMMA HintAnswers ==
    ASSUME IInv, NEW http \in asks, Answers(http), Request(http), AnsweredBy("HintBizHandler")'
    PROVE  HintsLeadElsewhere'
  <1> DEFINE q == QueryOf(http)
             d == DocIdOf(http)
  <1>1. PICK c : c = ConfigFor(http.route)
    OBVIOUS
  <1>2. PICK skipped, items :
          /\ items \in Suggested("HintBizHandler", c, skipped, q, d)
          /\ answer' = Reply(http, "200", items, skipped # {})
    BY <1>1, AnswerIs
  <1>3. /\ q \in Word
        /\ UNCHANGED <<docs, cooccur, stats, routed, handling, pipelines, rankConfig>>
    BY AnswerIs
  <1>4. ASSUME NEW x \in items PROVE LeadsElsewhere(x, q, d)'
    <2>1. LeadsElsewhere(x, q, d)
      BY <1>2, <1>3, HintItems
    <2> HIDE DEF q, d
    <2> QED BY <1>3, <2>1 DEF LeadsElsewhere
  <1>5. ASSUME Ran("HintBizHandler", "HintCategoryRecall")', Uncut'
        PROVE  WholeCategory(items, docs, d)
    <2>1. PICK late \in BOOLEAN : late = (skipped # {})
      OBVIOUS
    <2>2. answer' = Reply(http, "200", items, late)
      BY <1>2, <2>1
    <2>3. late = FALSE /\ RanFor("HintBizHandler", "HintCategoryRecall", c, q, d, items)
      BY <1>1, <1>3, <1>5, <2>2, RanIs
    <2>4. skipped = {}
      BY <2>1, <2>3
    <2> QED BY <1>2, <1>3, <2>3, <2>4, HintWhole
  <1>6. answer'.items = items /\ answer'.query = q /\ answer'.doc = d
    BY <1>2 DEF Reply
  <1> HIDE DEF q, d
  <1> QED BY <1>3, <1>4, <1>5, <1>6 DEF HintsLeadElsewhere, LeadsElsewhere, WholeCategory

\* Where nothing changes the answer still stands.
LEMMA AnswerStands ==
    ASSUME UNCHANGED vars
    PROVE  /\ SuggestsTheFrequent => SuggestsTheFrequent'
           /\ HintsLeadElsewhere => HintsLeadElsewhere'
  <1>1. UNCHANGED <<docs, cooccur, stats, rebuilt, answer, routed, handling, pipelines, rankConfig>>
    BY DEF vars, startVars, tables
  <1>2. /\ \A w, s, f : Popularity(w, s, f)' = Popularity(w, s, f)
        /\ \A w : SurelyTaken(w)' <=> SurelyTaken(w)
        /\ \A q : Matching(q)' = Matching(q)
        /\ \A h : AnsweredBy(h)' <=> AnsweredBy(h)
    BY <1>1 DEF Popularity, SurelyTaken, Matching, AnsweredBy
  <1>3. /\ \A h, processor : Ran(h, processor)' <=> Ran(h, processor)
        /\ Uncut' <=> Uncut
    BY <1>1 DEF Ran, Uncut, ConfigFor, RecallNodes
  <1>4. SuggestsTheFrequent => SuggestsTheFrequent'
    BY <1>1, <1>2, <1>3 DEF SuggestsTheFrequent
  <1>5. HintsLeadElsewhere => HintsLeadElsewhere'
    BY <1>1, <1>2, <1>3 DEF HintsLeadElsewhere
  <1> QED BY <1>4, <1>5

\* SugBizHandler::RebuildTrie, the trie and SugTrieRecall: for every docs.db
\* and statistics, and every limit, a suggestion is of the last rebuild and
\* among the most frequent that begin with the query.
THEOREM SuggestionsAreFrequent == Spec => []SuggestsTheFrequent
  <1>1. Init => SuggestsTheFrequent
    <2>1. Init => ~AnsweredBy("SugBizHandler")
      BY DEF Init, NoAnswer, AnsweredBy
    <2> QED BY <2>1 DEF SuggestsTheFrequent
  <1>2. IInv /\ SuggestsTheFrequent /\ [Next]_vars => SuggestsTheFrequent'
    <2>1. SUFFICES ASSUME IInv, SuggestsTheFrequent, [Next]_vars, AnsweredBy("SugBizHandler")'
                   PROVE  SuggestsTheFrequent'
      BY DEF SuggestsTheFrequent
    <2>2. answer'.status = "200"
      BY <2>1 DEF AnsweredBy
    <2> QED BY <2>1, <2>2, AnswerSteps, AnswerStands, SugAnswers
  <1> QED BY <1>1, <1>2, Inductive, PTL DEF Spec

\* The recalls of HintBizHandler: for every docs.db, doc_cooccur and
\* statistics, a hint leads to another document that is stored, or to
\* another query somebody asked.
THEOREM HintsAreOfOthers == Spec => []HintsLeadElsewhere
  <1>1. Init => HintsLeadElsewhere
    <2>1. Init => ~AnsweredBy("HintBizHandler")
      BY DEF Init, NoAnswer, AnsweredBy
    <2> QED BY <2>1 DEF HintsLeadElsewhere
  <1>2. IInv /\ HintsLeadElsewhere /\ [Next]_vars => HintsLeadElsewhere'
    <2>1. SUFFICES ASSUME IInv, HintsLeadElsewhere, [Next]_vars, AnsweredBy("HintBizHandler")'
                   PROVE  HintsLeadElsewhere'
      BY DEF HintsLeadElsewhere
    <2>2. answer'.status = "200"
      BY <2>1 DEF AnsweredBy
    <2> QED BY <2>1, <2>2, AnswerSteps, AnswerStands, HintAnswers
  <1> QED BY <1>1, <1>2, Inductive, PTL DEF Spec
=============================================================================
