------------------------ MODULE IndexBuilderProofs ------------------------
(***************************************************************************)
(* TLAPS proofs about the keyword index and IndexBuilder, for any set of   *)
(* documents, terms and inputs and any number of operations: the posting   *)
(* lists and the term lists stay inverse to each other, in memory and in   *)
(* the saved file; what BM25 reads is current; the index implements        *)
(* SearchableDocs; the vectors keep up; and a search with the title of a   *)
(* document finds it, which takes the tokenisers, the expander, the two    *)
(* recall processors and the fusion one after the other.                   *)
(***************************************************************************)
EXTENDS IndexBuilder, FiniteSetTheorems, TLAPS

-----------------------------------------------------------------------------
(* Sums.  The counters are kept up one addition at a time, in the order of *)
(* the calls, while MapThenSumSet picks one element after the other; what  *)
(* relates the two is that any element may be taken out first.  The proofs *)
(* look at a smallest set on which a law fails.                            *)

Sum(f, S) == MapThenSumSet(LAMBDA x : f[x], S)

LEMMA SmallestSubset ==
    ASSUME NEW S, IsFiniteSet(S), NEW X \in SUBSET (SUBSET S), X # {}
    PROVE  \E T \in X : \A U \in X : U \subseteq T => U = T
  <1>1. IsWellFoundedOn(StrictSubsetOrdering(S), SUBSET S)
    BY FS_StrictSubsetOrderingWellFounded, FS_FiniteSubsetsOfFinite
  <1>2. PICK T \in X : \A U \in X : <<U, T>> \notin StrictSubsetOrdering(S)
    BY <1>1, WFMin
  <1>3. ASSUME NEW U \in X, U \subseteq T
        PROVE  U = T
    <2>1. SUFFICES ASSUME U # T
                   PROVE  <<U, T>> \in StrictSubsetOrdering(S)
      BY <1>2
    <2> QED BY <1>3, <2>1 DEF StrictSubsetOrdering
  <1> QED BY <1>2, <1>3

Pick(s) == CHOOSE x \in s : TRUE

\* g maps each subset of S to the sum of f over it.
SumsOf(f, S, g) ==
    g = [s \in SUBSET S |-> IF s = {} THEN 0 ELSE f[Pick(s)] + g[s \ {Pick(s)}]]

LEMMA SumOfNone ==
    ASSUME NEW f, NEW S, NEW g, SumsOf(f, S, g)
    PROVE  g[{}] = 0
  BY DEF SumsOf

LEMMA SumsAt ==
    ASSUME NEW f, NEW S, NEW g, SumsOf(f, S, g), NEW s \in SUBSET S
    PROVE  s # {} => /\ Pick(s) \in s
                     /\ s \ {Pick(s)} \in SUBSET S
                     /\ g[s] = f[Pick(s)] + g[s \ {Pick(s)}]
  <1>1. g[s] = IF s = {} THEN 0 ELSE f[Pick(s)] + g[s \ {Pick(s)}]
    BY DEF SumsOf
  <1>2. s # {} => Pick(s) \in s
    BY DEF Pick
  <1> QED BY <1>1, <1>2

\* Functions that agree on a set have the same sum over it.
LEMMA SumsAgree ==
    ASSUME NEW S, IsFiniteSet(S), NEW A, NEW B, S \subseteq A, S \subseteq B,
           NEW f, NEW h, \A x \in S : f[x] = h[x],
           NEW g, SumsOf(f, A, g), NEW k, SumsOf(h, B, k)
    PROVE  g[S] = k[S]
  <1> DEFINE X == {s \in SUBSET S : g[s] # k[s]}
  <1>1. SUFFICES ASSUME X # {}
                 PROVE  FALSE
    OBVIOUS
  <1>2. PICK T \in X : \A U \in X : U \subseteq T => U = T
    <2>1. X \in SUBSET (SUBSET S)
      OBVIOUS
    <2> HIDE DEF X
    <2> QED BY <1>1, <2>1, SmallestSubset
  <1>3. T \in SUBSET S /\ T \in SUBSET A /\ T \in SUBSET B /\ g[T] # k[T]
    BY <1>2
  <1> HIDE DEF X
  <1>4. T # {}
    <2>1. g[{}] = 0 /\ k[{}] = 0
      BY SumOfNone
    <2> QED BY <1>3, <2>1
  <1>5. /\ Pick(T) \in T
        /\ g[T] = f[Pick(T)] + g[T \ {Pick(T)}]
        /\ k[T] = h[Pick(T)] + k[T \ {Pick(T)}]
    BY <1>3, <1>4, SumsAt
  <1>6. g[T \ {Pick(T)}] = k[T \ {Pick(T)}]
    BY <1>2, <1>3, <1>5 DEF X
  <1> QED BY <1>3, <1>5, <1>6

LEMMA SumsExist ==
    ASSUME NEW S, IsFiniteSet(S), NEW f
    PROVE  \E g : SumsOf(f, S, g)
  <1> DEFINE X == {s \in SUBSET S : ~\E g : SumsOf(f, s, g)}
  <1>1. SUFFICES ASSUME X # {}
                 PROVE  FALSE
    OBVIOUS
  <1>2. PICK T \in X : \A U \in X : U \subseteq T => U = T
    <2>1. X \in SUBSET (SUBSET S)
      OBVIOUS
    <2> HIDE DEF X
    <2> QED BY <1>1, <2>1, SmallestSubset
  <1>3. T \in SUBSET S /\ IsFiniteSet(T)
    BY <1>2, FS_Subset
  <1> DEFINE of(U) == CHOOSE g : SumsOf(f, U, g)
  <1>4. \A U \in SUBSET T : U # T => SumsOf(f, U, of(U))
    <2> SUFFICES ASSUME NEW U \in SUBSET T, U # T
                 PROVE  \E g : SumsOf(f, U, g)
      OBVIOUS
    <2> QED BY <1>2, <1>3
  <1> HIDE DEF of, X
  <1> DEFINE G == [s \in SUBSET T |-> IF s = {} THEN 0
                                      ELSE f[Pick(s)] + of(s \ {Pick(s)})[s \ {Pick(s)}]]
  <1>5. \A u \in SUBSET T : u # T => G[u] = of(u)[u]
    <2> SUFFICES ASSUME NEW u \in SUBSET T, u # T
                 PROVE  G[u] = of(u)[u]
      OBVIOUS
    <2>1. SumsOf(f, u, of(u))
      BY <1>4
    <2>2. CASE u = {}
      BY <2>1, <2>2, SumOfNone
    <2>3. CASE u # {}
      <3> DEFINE v == u \ {Pick(u)}
      <3>1. Pick(u) \in u /\ of(u)[u] = f[Pick(u)] + of(u)[v]
        BY <2>1, <2>3, SumsAt
      <3>2. v \in SUBSET T /\ v # T /\ v \subseteq u /\ IsFiniteSet(v)
        BY <1>3, <3>1, FS_Subset
      <3>3. SumsOf(f, v, of(v))
        BY <1>4, <3>2
      <3>4. of(u)[v] = of(v)[v]
        BY <2>1, <3>2, <3>3, SumsAgree
      <3> QED BY <2>3, <3>1, <3>4
    <2> QED BY <2>2, <2>3
  <1>6. \A s \in SUBSET T : s # {} => G[s \ {Pick(s)}] = of(s \ {Pick(s)})[s \ {Pick(s)}]
    <2> SUFFICES ASSUME NEW s \in SUBSET T, s # {}
                 PROVE  G[s \ {Pick(s)}] = of(s \ {Pick(s)})[s \ {Pick(s)}]
      OBVIOUS
    <2>1. Pick(s) \in s
      BY DEF Pick
    <2>2. s \ {Pick(s)} \in SUBSET T /\ s \ {Pick(s)} # T
      BY <2>1
    <2> HIDE DEF G
    <2> QED BY <1>5, <2>2
  <1>7. SumsOf(f, T, G)
    <2> DEFINE H == [s \in SUBSET T |-> IF s = {} THEN 0 ELSE f[Pick(s)] + G[s \ {Pick(s)}]]
    <2>1. \A s \in SUBSET T : G[s] = H[s]
      <3> SUFFICES ASSUME NEW s \in SUBSET T
                   PROVE  G[s] = H[s]
        OBVIOUS
      <3>1. G[s] = IF s = {} THEN 0 ELSE f[Pick(s)] + of(s \ {Pick(s)})[s \ {Pick(s)}]
        OBVIOUS
      <3>2. H[s] = IF s = {} THEN 0 ELSE f[Pick(s)] + G[s \ {Pick(s)}]
        OBVIOUS
      <3> HIDE DEF G, H
      <3> QED BY <1>6, <3>1, <3>2
    <2>2. G = [s \in SUBSET T |-> G[s]] /\ H = [s \in SUBSET T |-> H[s]]
      OBVIOUS
    <2>3. G = H
      <3> HIDE DEF G, H
      <3> QED BY <2>1, <2>2
    <2> HIDE DEF G
    <2> QED BY <2>3 DEF SumsOf
  <1>8. ~\E g : SumsOf(f, T, g)
    BY <1>2 DEF X
  <1> QED BY <1>7, <1>8
LEMMA SumsType ==
    ASSUME NEW S, IsFiniteSet(S), NEW f, \A x \in S : f[x] \in Int,
           NEW g, SumsOf(f, S, g)
    PROVE  \A s \in SUBSET S : /\ g[s] \in Int
                               /\ (\A x \in s : f[x] >= 0) => g[s] >= 0
  <1> DEFINE X == {s \in SUBSET S : ~ /\ g[s] \in Int
                                      /\ (\A x \in s : f[x] >= 0) => g[s] >= 0}
  <1>1. SUFFICES ASSUME X # {}
                 PROVE  FALSE
    OBVIOUS
  <1>2. PICK T \in X : \A U \in X : U \subseteq T => U = T
    <2>1. X \in SUBSET (SUBSET S)
      OBVIOUS
    <2> HIDE DEF X
    <2> QED BY <1>1, <2>1, SmallestSubset
  <1>3. T \in SUBSET S /\ ~ /\ g[T] \in Int
                            /\ (\A x \in T : f[x] >= 0) => g[T] >= 0
    BY <1>2
  <1>4. T # {}
    BY <1>3, SumOfNone
  <1> DEFINE U == T \ {Pick(T)}
  <1>5. Pick(T) \in T /\ g[T] = f[Pick(T)] + g[U]
    BY <1>3, <1>4, SumsAt
  <1>6. g[U] \in Int /\ ((\A x \in U : f[x] >= 0) => g[U] >= 0)
    BY <1>2, <1>3, <1>5
  <1>7. f[Pick(T)] \in Int
    BY <1>3, <1>5
  <1> HIDE DEF X
  <1>8. g[T] \in Int
    BY <1>5, <1>6, <1>7
  <1>9. (\A x \in T : f[x] >= 0) => g[T] >= 0
    BY <1>5, <1>6, <1>7
  <1> QED BY <1>3, <1>8, <1>9

\* Any element may be taken out first.
Splits(f, S, g) == \A s \in SUBSET S : \A x \in s : g[s] = f[x] + g[s \ {x}]

LEMMA SumsSplit ==
    ASSUME NEW S, IsFiniteSet(S), NEW f, \A x \in S : f[x] \in Int,
           NEW g, SumsOf(f, S, g)
    PROVE  Splits(f, S, g)
  <1> DEFINE X == {s \in SUBSET S : \E x \in s : g[s] # f[x] + g[s \ {x}]}
  <1>1. SUFFICES ASSUME X # {}
                 PROVE  FALSE
    BY DEF Splits
  <1>2. PICK T \in X : \A U \in X : U \subseteq T => U = T
    <2>1. X \in SUBSET (SUBSET S)
      OBVIOUS
    <2> HIDE DEF X
    <2> QED BY <1>1, <2>1, SmallestSubset
  <1>3. PICK x \in T : g[T] # f[x] + g[T \ {x}]
    BY <1>2
  <1>4. T \in SUBSET S
    BY <1>2
  <1> DEFINE y == Pick(T)
             U == T \ {y}
             V == T \ {x}
             W == (T \ {y}) \ {x}
  <1>5. y \in T /\ g[T] = f[y] + g[U]
    BY <1>3, <1>4, SumsAt
  <1>6. \A R \in SUBSET T : R # T => \A z \in R : g[R] = f[z] + g[R \ {z}]
    BY <1>2, <1>4
  <1> HIDE DEF X
  <1>7. x # y
    BY <1>3, <1>5
  <1>8. g[U] = f[x] + g[W]
    <2>1. U \in SUBSET T /\ U # T /\ x \in U
      BY <1>3, <1>5, <1>7
    <2> HIDE DEF y
    <2> QED BY <1>6, <2>1
  <1>9. g[V] = f[y] + g[W]
    <2>1. V \in SUBSET T /\ V # T /\ y \in V /\ V \ {y} = W
      BY <1>3, <1>5, <1>7
    <2> HIDE DEF y, V, W
    <2> QED BY <1>6, <2>1
  <1>10. g[W] \in Int /\ f[x] \in Int /\ f[y] \in Int
    <2>1. W \in SUBSET S /\ x \in S /\ y \in S
      BY <1>3, <1>4, <1>5
    <2> HIDE DEF W, y
    <2> QED BY <2>1, SumsType
  <1> HIDE DEF y, U, V, W
  <1>11. g[T] = f[x] + g[V]
    BY <1>5, <1>8, <1>9, <1>10
  <1> QED BY <1>3, <1>11 DEF V

-----------------------------------------------------------------------------
(* The sum.                                                                *)

LEMMA SumIs ==
    ASSUME NEW S, IsFiniteSet(S), NEW f
    PROVE  \E g : SumsOf(f, S, g) /\ Sum(f, S) = g[S]
  <1> DEFINE iter == CHOOSE g : SumsOf(f, S, g)
  <1>1. SumsOf(f, S, iter)
    BY SumsExist
  <1>2. Sum(f, S) = iter[S]
    BY DEF Sum, MapThenSumSet, MapThenFoldSet, SumsOf, Pick
  <1> QED BY <1>1, <1>2

LEMMA SumEmpty ==
    ASSUME NEW f
    PROVE  Sum(f, {}) = 0
  <1>1. IsFiniteSet({})
    BY FS_EmptySet
  <1> QED BY <1>1, SumIs, SumOfNone

LEMMA SumType ==
    ASSUME NEW S, IsFiniteSet(S), NEW f, \A x \in S : f[x] \in Nat
    PROVE  Sum(f, S) \in Nat
  <1>1. PICK g : SumsOf(f, S, g) /\ Sum(f, S) = g[S]
    BY SumIs
  <1>2. \A x \in S : f[x] \in Int /\ f[x] >= 0
    OBVIOUS
  <1>3. g[S] \in Int /\ g[S] >= 0
    BY <1>1, <1>2, SumsType
  <1> QED BY <1>1, <1>3

LEMMA SumSame ==
    ASSUME NEW S, IsFiniteSet(S), NEW f, NEW h, \A x \in S : f[x] = h[x]
    PROVE  Sum(f, S) = Sum(h, S)
  <1>1. PICK g : SumsOf(f, S, g) /\ Sum(f, S) = g[S]
    BY SumIs
  <1>2. PICK k : SumsOf(h, S, k) /\ Sum(h, S) = k[S]
    BY SumIs
  <1>3. g[S] = k[S]
    BY <1>1, <1>2, SumsAgree
  <1> QED BY <1>1, <1>2, <1>3

LEMMA SumWithout ==
    ASSUME NEW S, IsFiniteSet(S), NEW f, \A z \in S : f[z] \in Int, NEW x \in S
    PROVE  Sum(f, S) = f[x] + Sum(f, S \ {x})
  <1>1. PICK g : SumsOf(f, S, g) /\ Sum(f, S) = g[S]
    BY SumIs
  <1> DEFINE R == S \ {x}
  <1>2. R \subseteq S /\ R \subseteq R /\ IsFiniteSet(R)
    BY FS_Subset
  <1>3. PICK k : SumsOf(f, R, k) /\ Sum(f, R) = k[R]
    BY <1>2, SumIs
  <1> HIDE DEF R
  <1>4. g[R] = k[R]
    BY <1>1, <1>2, <1>3, SumsAgree
  <1>5. Splits(f, S, g)
    BY <1>1, SumsSplit
  <1>6. g[S] = f[x] + g[R]
    BY <1>5 DEF Splits, R
  <1> QED BY <1>1, <1>3, <1>4, <1>6 DEF R

-----------------------------------------------------------------------------
(* The inductive invariant is stated for any content, because it has to    *)
(* hold of the saved file as well: Load makes it the content of memory.    *)

\* d is in the posting list of t.
Posting(idx, t, d) == t \in DOMAIN idx /\ d \in DOMAIN idx[t]
Listed(terms, d, t) == d \in DOMAIN terms /\ t \in terms[d]

Inside(idx, terms, lengths) ==
    /\ DOMAIN idx \subseteq Terms
    /\ \A t \in DOMAIN idx : DOMAIN idx[t] \subseteq Docs /\ DOMAIN idx[t] # {}
    /\ DOMAIN lengths \subseteq Docs
    /\ DOMAIN terms \subseteq DOMAIN lengths
    /\ \A d \in DOMAIN terms : terms[d] \subseteq Terms

BothWays(idx, terms) ==
    \A t \in Terms, d \in Docs : Posting(idx, t, d) <=> Listed(terms, d, t)

UpToDate(idx, lengths) ==
    \A t \in Terms, d \in Docs : Posting(idx, t, d) =>
        idx[t][d].length = lengths[d] /\ idx[t][d].freq \in 1..Cardinality(Fields)

Consistent(idx, terms, lengths) ==
    Inside(idx, terms, lengths) /\ BothWays(idx, terms) /\ UpToDate(idx, lengths)

IndexInv ==
    /\ Consistent(index, docTerms, docLengths)
    /\ \A f \in file : Consistent(f.index, f.terms, f.lengths)

LEMMA EmptyConsistent == Consistent(EmptyMap, EmptyMap, EmptyMap)
  BY DEF EmptyMap, Consistent, Inside, BothWays, UpToDate, Posting, Listed

-----------------------------------------------------------------------------
(* The operations on the lists.                                            *)

LEMMA WithMap ==
    ASSUME NEW m, NEW x, NEW v
    PROVE  /\ DOMAIN With(m, x, v) = DOMAIN m \union {x}
           /\ With(m, x, v)[x] = v
           /\ \A y \in DOMAIN m : y # x => With(m, x, v)[y] = m[y]
  BY DEF With

LEMMA WithoutMap ==
    ASSUME NEW m, NEW x
    PROVE  /\ DOMAIN Without(m, x) = DOMAIN m \ {x}
           /\ \A y \in DOMAIN m : y # x => Without(m, x)[y] = m[y]
  BY DEF Without

TakenOut(idx, d, e) ==
    /\ DOMAIN e \subseteq DOMAIN idx
    /\ \A t \in DOMAIN e : DOMAIN e[t] # {} /\ DOMAIN e[t] = DOMAIN idx[t] \ {d}
    /\ \A t, c : Posting(e, t, c) <=> Posting(idx, t, c) /\ c # d
    /\ \A t, c : Posting(e, t, c) => e[t][c] = idx[t][c]

\* A document is taken out of all the lists it is in, and out of no other; the
\* other nodes stay as they are, and no list is left empty.
LEMMA ErasedLists ==
    ASSUME NEW idx, NEW d, NEW terms, NEW e, e = Erased(idx, d, terms),
           \A t \in DOMAIN idx : DOMAIN idx[t] # {},
           \A t \in DOMAIN idx : d \in DOMAIN idx[t] => t \in terms
    PROVE  TakenOut(idx, d, e)
  <1>1. /\ DOMAIN e = {t \in DOMAIN idx : t \notin terms \/ DOMAIN idx[t] \ {d} # {}}
        /\ \A t \in DOMAIN e : e[t] = IF t \in terms THEN Without(idx[t], d) ELSE idx[t]
    BY DEF Erased
  <1>2. ASSUME NEW t \in DOMAIN e
        PROVE  /\ DOMAIN e[t] = DOMAIN idx[t] \ {d}
               /\ DOMAIN e[t] # {}
               /\ \A c \in DOMAIN e[t] : e[t][c] = idx[t][c]
    <2>1. CASE t \in terms
      <3>1. e[t] = Without(idx[t], d) /\ DOMAIN idx[t] \ {d} # {}
        BY <1>1, <2>1
      <3> QED BY <3>1 DEF Without
    <2>2. CASE t \notin terms
      <3>1. e[t] = idx[t] /\ t \in DOMAIN idx
        BY <1>1, <2>2
      <3> QED BY <3>1, <2>2
    <2> QED BY <2>1, <2>2
  <1>3. \A t \in DOMAIN idx : t \notin DOMAIN e => \A c \in DOMAIN idx[t] : c = d
    <2>1. \A t \in DOMAIN idx : t \notin DOMAIN e => DOMAIN idx[t] \ {d} = {}
      BY <1>1
    <2> QED BY <2>1
  <1>4. ASSUME NEW t, NEW c
        PROVE  Posting(e, t, c) <=> Posting(idx, t, c) /\ c # d
    <2>1. CASE t \in DOMAIN e
      BY <1>1, <1>2, <2>1 DEF Posting
    <2>2. CASE t \notin DOMAIN e
      BY <1>3, <2>2 DEF Posting
    <2> QED BY <2>1, <2>2
  <1>5. \A t, c : Posting(e, t, c) => e[t][c] = idx[t][c]
    BY <1>2 DEF Posting
  <1>6. DOMAIN e \subseteq DOMAIN idx
    BY <1>1
  <1> QED BY <1>2, <1>4, <1>5, <1>6 DEF TakenOut

\* How many fields of an input have a term.
FieldsWith(in, t) == {f \in Fields : t \in in.terms[f]}

LEMMA TermFields ==
    ASSUME NEW in \in Inputs, NEW t \in TermsOf(in)
    PROVE  Cardinality(FieldsWith(in, t)) \in 1..Cardinality(Fields)
  <1>1. FieldsWith(in, t) \in SUBSET Fields /\ FieldsWith(in, t) # {}
    BY DEF FieldsWith, TermsOf
  <1>2. IsFiniteSet(FieldsWith(in, t)) /\ Cardinality(FieldsWith(in, t)) <= Cardinality(Fields)
    BY <1>1, FS_Subset, FieldsAssumption
  <1>3. Cardinality(FieldsWith(in, t)) # 0
    BY <1>1, <1>2, FS_EmptySet
  <1> QED BY <1>2, <1>3, FS_CardinalityType, FieldsAssumption

PutIn(idx, d, in, a) ==
    /\ DOMAIN a = DOMAIN idx \union TermsOf(in)
    /\ \A t \in DOMAIN a : DOMAIN a[t] # {}
    /\ \A t, c : Posting(a, t, c) <=> Posting(idx, t, c) \/ (c = d /\ t \in TermsOf(in))
    /\ \A t, c : Posting(idx, t, c) => a[t][c] = idx[t][c]
    /\ \A t \in TermsOf(in) : /\ a[t][d].length = in.length
                              /\ a[t][d].freq = Cardinality(FieldsWith(in, t))

\* A document that is in no list is put into those of its terms, with a node
\* of its own length that counts the fields of this version only.
LEMMA AddedLists ==
    ASSUME NEW idx, NEW d, NEW in \in Inputs, NEW a, a = Added(idx, d, in, TermsOf(in)),
           \A t : ~Posting(idx, t, d),
           \A t \in DOMAIN idx : DOMAIN idx[t] # {}
    PROVE  PutIn(idx, d, in, a)
  <1> DEFINE list(t) == IF t \in DOMAIN idx THEN idx[t] ELSE EmptyMap
             node(t) == Posted(list(t), d, t, in)
  <1>1. /\ DOMAIN a = DOMAIN idx \union TermsOf(in)
        /\ \A t \in DOMAIN a :
             a[t] = IF t \in TermsOf(in) THEN With(list(t), d, Posted(list(t), d, t, in)) ELSE idx[t]
    BY DEF Added
  <1>2. \A t : d \notin DOMAIN list(t) /\ (t \notin DOMAIN idx => DOMAIN list(t) = {})
    BY DEF Posting, EmptyMap
  <1>3. ASSUME NEW t \in TermsOf(in)
        PROVE  /\ Posted(list(t), d, t, in).length = in.length
               /\ Posted(list(t), d, t, in).freq = Cardinality(FieldsWith(in, t))
    <2> DEFINE C == Cardinality(FieldsWith(in, t))
               w == Max({0} \union {Weight[f] : f \in FieldsWith(in, t)})
    <2>1. Posted(list(t), d, t, in)
            = [[freq |-> 0, weight |-> 0, length |-> in.length] EXCEPT !.freq = @ + C, !.weight = w]
      <3> HIDE DEF list
      <3> QED BY <1>2 DEF Posted, FieldsWith
    <2>2. C \in Nat
      BY TermFields
    <2> DEFINE p == Posted(list(t), d, t, in)
    <2>3. p.length = in.length /\ p.freq = C
      <3> HIDE DEF w, C, list
      <3> QED BY <2>1, <2>2
    <2> QED BY <2>3
  <1>4. ASSUME NEW t \in TermsOf(in)
        PROVE  /\ DOMAIN a[t] = DOMAIN list(t) \union {d}
               /\ a[t][d] = Posted(list(t), d, t, in)
               /\ \A c \in DOMAIN list(t) : c # d => a[t][c] = list(t)[c]
    <2>1. a[t] = With(list(t), d, node(t))
      BY <1>1
    <2> HIDE DEF list, node
    <2>2. /\ DOMAIN With(list(t), d, node(t)) = DOMAIN list(t) \union {d}
          /\ With(list(t), d, node(t))[d] = node(t)
          /\ \A c \in DOMAIN list(t) : c # d => With(list(t), d, node(t))[c] = list(t)[c]
      BY DEF With
    <2> QED BY <2>1, <2>2 DEF node
  <1>5. \A t \in DOMAIN a : t \notin TermsOf(in) => a[t] = idx[t]
    BY <1>1
  <1>6. \A t, c : Posting(a, t, c) <=> Posting(idx, t, c) \/ (c = d /\ t \in TermsOf(in))
    BY <1>1, <1>2, <1>4, <1>5 DEF Posting
  <1>7. \A t, c : Posting(idx, t, c) => a[t][c] = idx[t][c]
    BY <1>1, <1>2, <1>4, <1>5 DEF Posting
  <1>8. \A t \in DOMAIN a : DOMAIN a[t] # {}
    BY <1>1, <1>4, <1>5
  <1> QED BY <1>1, <1>3, <1>4, <1>6, <1>7, <1>8 DEF PutIn

LEMMA WithAgain ==
    ASSUME NEW m, NEW x, NEW v
    PROVE  With(Without(m, x), x, v) = With(m, x, v)
  <1>1. (DOMAIN m \ {x}) \union {x} = DOMAIN m \union {x}
    OBVIOUS
  <1>2. DOMAIN Without(m, x) = DOMAIN m \ {x} /\ \A y \in DOMAIN m \ {x} : Without(m, x)[y] = m[y]
    BY DEF Without
  <1>3. \A y \in DOMAIN m \union {x} :
            (IF y = x THEN v ELSE Without(m, x)[y]) = (IF y = x THEN v ELSE m[y])
    BY <1>2
  <1> QED BY <1>1, <1>2, <1>3 DEF With

\* What a document was indexed under.
TermsBefore(terms, d) == IF d \in DOMAIN terms THEN terms[d] ELSE {}

\* Taking a document out of the index leaves a consistent index.
LEMMA ErasedConsistent ==
    ASSUME NEW idx, NEW terms, NEW lengths, NEW d \in Docs,
           Consistent(idx, terms, lengths)
    PROVE  Consistent(Erased(idx, d, TermsBefore(terms, d)), Without(terms, d), Without(lengths, d))
  <1> DEFINE e == Erased(idx, d, TermsBefore(terms, d))
             ts == Without(terms, d)
             ls == Without(lengths, d)
  <1>1. \A t \in DOMAIN idx : d \in DOMAIN idx[t] => t \in TermsBefore(terms, d)
    BY DEF Consistent, Inside, BothWays, Posting, Listed, TermsBefore
  <1>2. \A t \in DOMAIN idx : DOMAIN idx[t] # {}
    BY DEF Consistent, Inside
  <1>3. /\ DOMAIN e \subseteq DOMAIN idx
        /\ \A t \in DOMAIN e : DOMAIN e[t] # {} /\ DOMAIN e[t] = DOMAIN idx[t] \ {d}
        /\ \A t, c : Posting(e, t, c) <=> Posting(idx, t, c) /\ c # d
        /\ \A t, c : Posting(e, t, c) => e[t][c] = idx[t][c]
    <2>1. TakenOut(idx, d, e)
      BY <1>1, <1>2, ErasedLists
    <2> QED BY <2>1 DEF TakenOut
  <1>4. DOMAIN ts = DOMAIN terms \ {d} /\ \A c \in DOMAIN ts : ts[c] = terms[c]
    BY WithoutMap
  <1>5. DOMAIN ls = DOMAIN lengths \ {d} /\ \A c \in DOMAIN ls : ls[c] = lengths[c]
    BY WithoutMap
  <1> HIDE DEF e, ts, ls
  <1>6. Inside(e, ts, ls)
    BY <1>3, <1>4, <1>5 DEF Consistent, Inside
  <1>7. BothWays(e, ts)
    BY <1>3, <1>4 DEF Consistent, BothWays, Listed
  <1>8. UpToDate(e, ls)
    <2> SUFFICES ASSUME NEW t \in Terms, NEW c \in Docs, Posting(e, t, c)
                 PROVE  e[t][c].length = ls[c] /\ e[t][c].freq \in 1..Cardinality(Fields)
      BY DEF UpToDate
    <2>1. Posting(idx, t, c) /\ c # d /\ e[t][c] = idx[t][c]
      BY <1>3
    <2>2. c \in DOMAIN lengths
      BY <2>1 DEF Consistent, Inside, BothWays, Listed
    <2>3. ls[c] = lengths[c]
      BY <1>5, <2>1, <2>2
    <2> QED BY <2>1, <2>3 DEF Consistent, UpToDate
  <1> QED BY <1>6, <1>7, <1>8 DEF Consistent, e, ts, ls

\* Adding a document that is not in the index leaves a consistent index.
LEMMA AddedConsistent ==
    ASSUME NEW idx, NEW terms, NEW lengths, NEW d \in Docs, NEW in \in Inputs,
           Consistent(idx, terms, lengths), d \notin DOMAIN terms
    PROVE  Consistent(Added(idx, d, in, TermsOf(in)),
                      With(terms, d, TermsOf(in)), With(lengths, d, in.length))
  <1> DEFINE a == Added(idx, d, in, TermsOf(in))
             ts == With(terms, d, TermsOf(in))
             ls == With(lengths, d, in.length)
  <1>1. \A t : ~Posting(idx, t, d)
    BY DEF Consistent, Inside, BothWays, Posting, Listed
  <1>2. \A t \in DOMAIN idx : DOMAIN idx[t] # {}
    BY DEF Consistent, Inside
  <1>3. /\ DOMAIN a = DOMAIN idx \union TermsOf(in)
        /\ \A t \in DOMAIN a : DOMAIN a[t] # {}
        /\ \A t, c : Posting(a, t, c) <=> Posting(idx, t, c) \/ (c = d /\ t \in TermsOf(in))
        /\ \A t, c : Posting(idx, t, c) => a[t][c] = idx[t][c]
        /\ \A t \in TermsOf(in) : /\ a[t][d].length = in.length
                                  /\ a[t][d].freq = Cardinality(FieldsWith(in, t))
    <2>1. PutIn(idx, d, in, a)
      BY <1>1, <1>2, AddedLists
    <2> QED BY <2>1 DEF PutIn
  <1>4. /\ DOMAIN ts = DOMAIN terms \union {d} /\ ts[d] = TermsOf(in)
        /\ \A c \in DOMAIN terms : c # d => ts[c] = terms[c]
    BY DEF With
  <1>5. /\ DOMAIN ls = DOMAIN lengths \union {d} /\ ls[d] = in.length
        /\ \A c \in DOMAIN lengths : c # d => ls[c] = lengths[c]
    BY DEF With
  <1>6. TermsOf(in) \subseteq Terms
    BY InputsAssumption DEF TermsOf
  <1> HIDE DEF a, ts, ls
  <1>7. Inside(a, ts, ls)
    <2>1. \A t \in DOMAIN a : \A c \in DOMAIN a[t] : Posting(idx, t, c) \/ c = d
      BY <1>3 DEF Posting
    <2>2. \A t \in DOMAIN a : DOMAIN a[t] \subseteq Docs
      BY <2>1 DEF Consistent, Inside, Posting
    <2>3. \A c \in DOMAIN ts : ts[c] \subseteq Terms
      BY <1>4, <1>6 DEF Consistent, Inside
    <2>4. DOMAIN a \subseteq Terms /\ DOMAIN ls \subseteq Docs /\ DOMAIN ts \subseteq DOMAIN ls
      BY <1>3, <1>4, <1>5, <1>6 DEF Consistent, Inside
    <2> QED BY <1>3, <2>2, <2>3, <2>4 DEF Inside
  <1>8. BothWays(a, ts)
    <2> SUFFICES ASSUME NEW t \in Terms, NEW c \in Docs
                 PROVE  Posting(a, t, c) <=> Listed(ts, c, t)
      BY DEF BothWays
    <2>1. CASE c = d
      BY <1>1, <1>3, <1>4, <2>1 DEF Listed
    <2>2. CASE c # d
      BY <1>3, <1>4, <2>2 DEF Listed, Consistent, BothWays
    <2> QED BY <2>1, <2>2
  <1>9. UpToDate(a, ls)
    <2> SUFFICES ASSUME NEW t \in Terms, NEW c \in Docs, Posting(a, t, c)
                 PROVE  a[t][c].length = ls[c] /\ a[t][c].freq \in 1..Cardinality(Fields)
      BY DEF UpToDate
    <2>1. CASE Posting(idx, t, c)
      <3>1. c \in DOMAIN lengths /\ c # d
        BY <1>1, <2>1 DEF Consistent, Inside, BothWays, Listed
      <3> QED BY <1>3, <1>5, <2>1, <3>1 DEF Consistent, UpToDate
    <2>2. CASE c = d /\ t \in TermsOf(in)
      BY <1>3, <1>5, <2>2, TermFields
    <2> QED BY <1>3, <2>1, <2>2
  <1> QED BY <1>7, <1>8, <1>9 DEF Consistent, a, ts, ls

-----------------------------------------------------------------------------
(* Every operation keeps the invariant.                                    *)

LEMMA AddKeepsIndex ==
    ASSUME NEW d \in Docs, NEW in \in Inputs, IndexInv, AddDocument(d, in)
    PROVE  IndexInv'
  <1> DEFINE idx == Erased(index, d, TermsBefore(docTerms, d))
  <1>1. Consistent(index, docTerms, docLengths)
    BY DEF IndexInv
  <1>2. Consistent(idx, Without(docTerms, d), Without(docLengths, d))
    BY <1>1, ErasedConsistent
  <1>3. d \notin DOMAIN Without(docTerms, d)
    BY WithoutMap
  <1>4. Consistent(Added(idx, d, in, TermsOf(in)),
                   With(Without(docTerms, d), d, TermsOf(in)),
                   With(Without(docLengths, d), d, in.length))
    BY <1>2, <1>3, AddedConsistent
  <1>5. /\ index' = Added(idx, d, in, TermsOf(in))
        /\ docTerms' = With(docTerms, d, TermsOf(in))
        /\ docLengths' = With(docLengths, d, in.length)
        /\ file' = file
    <2>1. TermsBefore(docTerms, d)
            = IF d \notin DOMAIN docLengths \/ d \notin DOMAIN docTerms THEN {} ELSE docTerms[d]
      BY <1>1 DEF TermsBefore, Consistent, Inside
    <2> QED BY <2>1, Zenon DEF AddDocument
  <1>6. Consistent(index', docTerms', docLengths')
    <2> HIDE DEF idx
    <2> QED BY <1>4, <1>5, WithAgain, Zenon
  <1> QED BY <1>5, <1>6 DEF IndexInv

LEMMA RemoveKeepsIndex ==
    ASSUME NEW d \in Docs, IndexInv, RemoveDocument(d)
    PROVE  IndexInv'
  <1>1. CASE d \notin DOMAIN docTerms
    BY <1>1 DEF RemoveDocument, vars, content, IndexInv
  <1>2. CASE d \in DOMAIN docTerms
    <2>1. Consistent(Erased(index, d, TermsBefore(docTerms, d)),
                     Without(docTerms, d), Without(docLengths, d))
      BY ErasedConsistent DEF IndexInv
    <2>2. /\ index' = Erased(index, d, TermsBefore(docTerms, d))
          /\ docTerms' = Without(docTerms, d)
          /\ docLengths' = Without(docLengths, d)
          /\ file' = file
      BY <1>2 DEF RemoveDocument, TermsBefore
    <2> QED BY <2>1, <2>2 DEF IndexInv
  <1> QED BY <1>1, <1>2

LEMMA LoadKeepsIndex ==
    ASSUME IndexInv, Load
    PROVE  IndexInv'
  <1> PICK f \in file :
        /\ index' = f.index
        /\ docLengths' = f.lengths
        /\ docTerms' = [d \in {e \in DOMAIN f.terms : f.terms[e] # {}} |-> f.terms[d]]
        /\ file' = file
    BY DEF Load
  <1>1. Consistent(f.index, f.terms, f.lengths)
    BY DEF IndexInv
  <1>2. /\ DOMAIN docTerms' \subseteq DOMAIN f.terms
        /\ \A d \in DOMAIN docTerms' : docTerms'[d] = f.terms[d]
        /\ \A d, t : Listed(docTerms', d, t) <=> Listed(f.terms, d, t)
    BY DEF Listed
  <1>3. Consistent(index', docTerms', docLengths')
    BY <1>1, <1>2 DEF Consistent, Inside, BothWays, UpToDate
  <1> QED BY <1>3 DEF IndexInv

LEMMA IndexInitInv == Init => IndexInv
  BY EmptyConsistent DEF Init, IndexInv

LEMMA IndexNextInv == IndexInv /\ [Next]_vars => IndexInv'
  <1> SUFFICES ASSUME IndexInv, [Next]_vars
               PROVE  IndexInv'
    OBVIOUS
  <1>1. CASE \E d \in Docs, in \in Inputs : AddDocument(d, in)
    BY <1>1, AddKeepsIndex
  <1>2. CASE \E d \in Docs : RemoveDocument(d)
    BY <1>2, RemoveKeepsIndex
  <1>3. CASE Clear
    BY <1>3, EmptyConsistent DEF Clear, IndexInv
  <1>4. CASE Save
    <2> DEFINE f == [total |-> totalDocs, lengths |-> docLengths, terms |-> docTerms, index |-> index]
    <2>1. file' = {f} /\ index' = index /\ docTerms' = docTerms /\ docLengths' = docLengths
      BY <1>4 DEF Save, content
    <2>2. f.index = index /\ f.terms = docTerms /\ f.lengths = docLengths
      OBVIOUS
    <2> HIDE DEF f
    <2> QED BY <2>1, <2>2 DEF IndexInv
  <1>5. CASE Load
    BY <1>5, LoadKeepsIndex
  <1>6. CASE UNCHANGED vars
    BY <1>6 DEF vars, content, IndexInv
  <1> QED BY <1>1, <1>2, <1>3, <1>4, <1>5, <1>6 DEF Next

-----------------------------------------------------------------------------
(* The theorems.                                                           *)

\* IndexBuilder drives the keyword index by its operations only: what holds of
\* the index under any caller holds under IndexBuilder.
THEOREM BuilderDrivesIndex == BuilderSpec => Spec
  <1>1. BuilderInit => Init
    BY DEF BuilderInit
  <1>2. [BuilderNext]_builderVars => [Next]_vars
    BY DEF BuilderNext, Put, DeleteDocument, ClearIndex, SaveIndexes, LoadIndexes, Next,
           builderVars
  <1> QED BY <1>1, <1>2, PTL DEF BuilderSpec, Spec

LEMMA IndexInvariant == Spec => []IndexInv
  BY IndexInitInv, IndexNextInv, PTL DEF Spec

\* The posting lists and the term lists of the documents are inverse to each
\* other, and no list is empty, after any operations of IndexBuilder.
THEOREM ListsStayInverse == BuilderSpec => []ListsInverse
  <1>1. IndexInv => ListsInverse
    BY DEF IndexInv, Consistent, Inside, BothWays, Posting, Listed, ListsInverse
  <1> QED BY <1>1, BuilderDrivesIndex, IndexInvariant, PTL

\* What BM25 reads of a node is of the last version of its document.
THEOREM NodesStayCurrent == BuilderSpec => []NodesCurrent
  <1>1. IndexInv => NodesCurrent
    <2> SUFFICES ASSUME IndexInv, NEW t \in DOMAIN index, NEW d \in DOMAIN index[t]
                 PROVE  /\ d \in DOMAIN docLengths /\ index[t][d].length = docLengths[d]
                        /\ index[t][d].freq \in 1..Cardinality(Fields)
      BY DEF NodesCurrent
    <2>1. t \in Terms /\ d \in Docs /\ Posting(index, t, d)
      BY DEF IndexInv, Consistent, Inside, Posting
    <2>2. d \in DOMAIN docTerms /\ DOMAIN docTerms \subseteq DOMAIN docLengths
      BY <2>1 DEF IndexInv, Consistent, Inside, BothWays, Listed
    <2> QED BY <2>1, <2>2 DEF IndexInv, Consistent, UpToDate
  <1> QED BY <1>1, BuilderDrivesIndex, IndexInvariant, PTL

-----------------------------------------------------------------------------
(* The index implements SearchableDocs.                                    *)

LEMMA MatchesOf ==
    ASSUME NEW idx, NEW m, m = Matches(idx)
    PROVE  /\ m \in [Docs -> SUBSET (DOMAIN idx)]
           /\ \A d \in Docs : \A t : t \in m[d] <=> Posting(idx, t, d)
  BY DEF Matches, Posting

\* After an update the document is found by its new terms and by nothing else,
\* and every other document by what it was found by.
LEMMA AddPutsTerms ==
    ASSUME NEW d \in Docs, NEW in \in Inputs, IndexInv, AddDocument(d, in)
    PROVE  Promise!Put(d, TermsOf(in))
  <1> DEFINE e == Erased(index, d, TermsBefore(docTerms, d))
             a == Added(e, d, in, TermsOf(in))
             old == Matches(index)
             new == Matches(a)
             put == [old EXCEPT ![d] = TermsOf(in)]
  <1>1. Consistent(index, docTerms, docLengths)
    BY DEF IndexInv
  <1>2. TakenOut(index, d, e)
    <2>1. \A t \in DOMAIN index : DOMAIN index[t] # {}
      BY <1>1 DEF Consistent, Inside
    <2>2. \A t \in DOMAIN index : d \in DOMAIN index[t] => t \in TermsBefore(docTerms, d)
      BY <1>1 DEF Consistent, Inside, BothWays, Posting, Listed, TermsBefore
    <2> QED BY <2>1, <2>2, ErasedLists
  <1>3. PutIn(e, d, in, a)
    <2>1. \A t : ~Posting(e, t, d)
      BY <1>2 DEF TakenOut
    <2>2. \A t \in DOMAIN e : DOMAIN e[t] # {}
      BY <1>2 DEF TakenOut
    <2>3. a = Added(e, d, in, TermsOf(in))
      OBVIOUS
    <2> HIDE DEF e, a
    <2> QED BY <2>1, <2>2, <2>3, AddedLists
  <1>4. index' = a /\ file' = file
    <2>1. TermsBefore(docTerms, d)
            = IF d \notin DOMAIN docLengths \/ d \notin DOMAIN docTerms THEN {} ELSE docTerms[d]
      BY <1>1 DEF TermsBefore, Consistent, Inside
    <2> QED BY <2>1, Zenon DEF AddDocument
  <1>5. /\ old \in [Docs -> SUBSET (DOMAIN index)]
        /\ \A c \in Docs : \A t : t \in old[c] <=> Posting(index, t, c)
    BY MatchesOf
  <1>6. \A c \in Docs : \A t : t \in new[c] <=> Posting(a, t, c)
    BY MatchesOf
  <1> HIDE DEF e, a, old, new
  <1>7. \A c \in Docs : new[c] = put[c]
    <2> SUFFICES ASSUME NEW c \in Docs
                 PROVE  \A t : t \in new[c] <=> t \in put[c]
      OBVIOUS
    <2>1. CASE c = d
      BY <1>2, <1>3, <1>5, <1>6, <2>1 DEF TakenOut, PutIn
    <2>2. CASE c # d
      BY <1>2, <1>3, <1>5, <1>6, <2>2 DEF TakenOut, PutIn
    <2> QED BY <2>1, <2>2
  <1>8. new = put
    <2>1. new = [c \in Docs |-> new[c]]
      BY DEF new, Matches
    <2>2. put = [c \in Docs |-> put[c]]
      BY <1>5
    <2> QED BY <1>7, <2>1, <2>2
  <1>9. Matches(index') = put
    BY <1>4, <1>8 DEF new
  <1> QED BY <1>4, <1>9 DEF Promise!Put, old

LEMMA RemoveDropsDocument ==
    ASSUME NEW d \in Docs, IndexInv, RemoveDocument(d), d \in DOMAIN docTerms
    PROVE  Promise!Drop(d)
  <1> DEFINE e == Erased(index, d, docTerms[d])
             old == Matches(index)
             new == Matches(e)
             drop == [old EXCEPT ![d] = {}]
  <1>1. TakenOut(index, d, e)
    <2>1. \A t \in DOMAIN index : DOMAIN index[t] # {}
      BY DEF IndexInv, Consistent, Inside
    <2>2. \A t \in DOMAIN index : d \in DOMAIN index[t] => t \in docTerms[d]
      BY DEF IndexInv, Consistent, Inside, BothWays, Posting, Listed
    <2> QED BY <2>1, <2>2, ErasedLists
  <1>2. index' = e /\ file' = file
    BY DEF RemoveDocument
  <1>3. /\ old \in [Docs -> SUBSET (DOMAIN index)]
        /\ \A c \in Docs : \A t : t \in old[c] <=> Posting(index, t, c)
    BY MatchesOf
  <1>4. \A c \in Docs : \A t : t \in new[c] <=> Posting(e, t, c)
    BY MatchesOf
  <1> HIDE DEF e, old, new
  <1>5. \A c \in Docs : new[c] = drop[c]
    <2> SUFFICES ASSUME NEW c \in Docs
                 PROVE  \A t : t \in new[c] <=> t \in drop[c]
      OBVIOUS
    <2>1. CASE c = d
      BY <1>1, <1>3, <1>4, <2>1 DEF TakenOut
    <2>2. CASE c # d
      BY <1>1, <1>3, <1>4, <2>2 DEF TakenOut
    <2> QED BY <2>1, <2>2
  <1>6. new = drop
    <2>1. new = [c \in Docs |-> new[c]]
      BY DEF new, Matches
    <2>2. drop = [c \in Docs |-> drop[c]]
      BY <1>3
    <2> QED BY <1>5, <2>1, <2>2
  <1>7. Matches(index') = drop
    BY <1>2, <1>6 DEF new
  <1> QED BY <1>2, <1>7 DEF Promise!Drop, old

LEMMA NothingMatches == Matches(EmptyMap) = [d \in Docs |-> {}]
  BY DEF Matches, EmptyMap

\* A document is found by exactly the terms it was last added with, and a saved
\* index finds after Load what it found at Save: each operation is a step of
\* SearchableDocs, or one that a search cannot see.
THEOREM IndexImplementsSearch == BuilderSpec => ImplementsSearch
  <1>1. Init => Promise!Init
    BY NothingMatches DEF Init, Promise!Init
  <1>2. IndexInv /\ [Next]_vars => [Promise!Next]_(Promise!vars)
    <2> SUFFICES ASSUME IndexInv, [Next]_vars
                 PROVE  [Promise!Next]_(Promise!vars)
      OBVIOUS
    <2>1. ASSUME NEW d \in Docs, NEW in \in Inputs, AddDocument(d, in)
          PROVE  Promise!Next
      <3>1. TermsOf(in) \in SUBSET Terms
        BY InputsAssumption DEF TermsOf
      <3> QED BY <2>1, <3>1, AddPutsTerms DEF Promise!Next
    <2>2. ASSUME NEW d \in Docs, RemoveDocument(d)
          PROVE  [Promise!Next]_(Promise!vars)
      <3>1. CASE d \in DOMAIN docTerms
        BY <2>2, <3>1, RemoveDropsDocument DEF Promise!Next
      <3>2. CASE d \notin DOMAIN docTerms
        BY <2>2, <3>2 DEF RemoveDocument, vars, content, Promise!vars
      <3> QED BY <3>1, <3>2
    <2>3. CASE Clear
      BY <2>3, NothingMatches DEF Clear, Promise!Next, Promise!DropAll
    <2>4. CASE Save
      <3> DEFINE f == [total |-> totalDocs, lengths |-> docLengths, terms |-> docTerms, index |-> index]
      <3>1. file' = {f} /\ index' = index
        BY <2>4 DEF Save, content
      <3>2. f.index = index
        OBVIOUS
      <3> HIDE DEF f
      <3>3. Promise!Keep
        BY <3>1, <3>2 DEF Promise!Keep
      <3> QED BY <3>3 DEF Promise!Next
    <2>5. CASE Load
      <3>1. PICK f \in file : index' = f.index /\ file' = file
        BY <2>5 DEF Load
      <3>2. Promise!Recover
        BY <3>1 DEF Promise!Recover
      <3> QED BY <3>2 DEF Promise!Next
    <2>6. CASE UNCHANGED vars
      BY <2>6 DEF vars, content, Promise!vars
    <2> QED BY <2>1, <2>2, <2>3, <2>4, <2>5, <2>6 DEF Next
  <1>3. IndexInv /\ [Next]_vars =>
          [\A d \in Docs, in \in Inputs : AddDocument(d, in) => Promise!Put(d, TermsOf(in))]_vars
    BY AddPutsTerms
  <1> QED BY <1>1, <1>2, <1>3, BuilderDrivesIndex, IndexInvariant, PTL
       DEF Spec, ImplementsSearch, Promise!Spec

-----------------------------------------------------------------------------
(* The counters.  The total length is kept up by one subtraction and one   *)
(* addition per call, Load adds all the lengths up again: that both agree  *)
(* is SumWithout.                                                          *)

Counted(total, lengths) ==
    /\ IsFiniteSet(DOMAIN lengths)
    /\ \A d \in DOMAIN lengths : lengths[d] \in Nat
    /\ total = Cardinality(DOMAIN lengths)

Totals ==
    /\ Counted(totalDocs, docLengths)
    /\ totalDocLen = SumOfLengths(docLengths)
    /\ avgDocLen = <<totalDocLen, Cardinality(DOMAIN docLengths)>>

CountInv ==
    /\ Totals
    /\ DOMAIN docLengths \ DOMAIN docTerms = wordless
    /\ \A f \in file : Counted(f.total, f.lengths)

LEMMA NothingCounted == Counted(0, EmptyMap) /\ SumOfLengths(EmptyMap) = 0
  <1>1. DOMAIN EmptyMap = {}
    BY DEF EmptyMap
  <1>2. SumOfLengths(EmptyMap) = Sum(EmptyMap, {})
    BY <1>1 DEF SumOfLengths, Sum
  <1> QED BY <1>1, <1>2, SumEmpty, FS_EmptySet DEF Counted

LEMMA LengthsType ==
    ASSUME NEW n, NEW l, Counted(n, l)
    PROVE  n \in Nat /\ SumOfLengths(l) \in Nat
  <1>1. SumOfLengths(l) = Sum(l, DOMAIN l)
    BY DEF SumOfLengths, Sum
  <1>2. Sum(l, DOMAIN l) \in Nat
    BY SumType DEF Counted
  <1> QED BY <1>1, <1>2, FS_CardinalityType DEF Counted

LEMMA CountedWithout ==
    ASSUME NEW n, NEW l, Counted(n, l), NEW d \in DOMAIN l
    PROVE  /\ n > 0 /\ Counted(n - 1, Without(l, d))
           /\ SumOfLengths(Without(l, d)) = SumOfLengths(l) - l[d]
  <1> DEFINE m == Without(l, d)
             D == DOMAIN l
             R == D \ {d}
  <1>1. DOMAIN m = R /\ \A x \in R : m[x] = l[x]
    BY DEF Without
  <1>2. /\ IsFiniteSet(D) /\ \A x \in D : l[x] \in Nat
        /\ n = Cardinality(D)
    BY DEF Counted
  <1>3. IsFiniteSet(R) /\ Cardinality(R) = Cardinality(D) - 1
    BY <1>2, FS_RemoveElement
  <1>4. Cardinality(R) \in Nat /\ Cardinality(D) \in Nat
    BY <1>2, <1>3, FS_CardinalityType
  <1>5. SumOfLengths(l) = Sum(l, D) /\ SumOfLengths(m) = Sum(m, R)
    BY <1>1 DEF SumOfLengths, Sum
  <1>6. Sum(m, R) = Sum(l, R)
    <2> HIDE DEF m, R
    <2> QED BY <1>1, <1>3, SumSame
  <1>7. Sum(l, D) = l[d] + Sum(l, R)
    <2>1. d \in D /\ \A z \in D : l[z] \in Int
      BY <1>2
    <2> HIDE DEF D, R
    <2>2. Sum(l, D) = l[d] + Sum(l, D \ {d})
      BY <1>2, <2>1, SumWithout
    <2> QED BY <2>2 DEF R
  <1>8. Sum(l, R) \in Nat /\ l[d] \in Nat
    <2>1. \A x \in R : l[x] \in Nat
      BY <1>2
    <2> HIDE DEF R
    <2> QED BY <1>2, <1>3, <2>1, SumType
  <1>9. n > 0 /\ n - 1 = Cardinality(R)
    BY <1>2, <1>3, <1>4
  <1>10. Counted(n - 1, m)
    BY <1>1, <1>2, <1>3, <1>9 DEF Counted
  <1>11. SumOfLengths(m) = SumOfLengths(l) - l[d]
    <2> HIDE DEF m, R, D
    <2> QED BY <1>5, <1>6, <1>7, <1>8
  <1> QED BY <1>9, <1>10, <1>11

LEMMA CountedWith ==
    ASSUME NEW n, NEW l, Counted(n, l), NEW d, d \notin DOMAIN l, NEW v \in Nat
    PROVE  /\ Counted(n + 1, With(l, d, v))
           /\ SumOfLengths(With(l, d, v)) = SumOfLengths(l) + v
  <1> DEFINE m == With(l, d, v)
  <1>1. /\ DOMAIN m = DOMAIN l \union {d} /\ m[d] = v
        /\ \A x \in DOMAIN l : m[x] = l[x]
    BY DEF With
  <1>3. /\ IsFiniteSet(DOMAIN m) /\ Cardinality(DOMAIN m) = n + 1
        /\ \A x \in DOMAIN m : m[x] \in Nat
    <2>1. IsFiniteSet(DOMAIN l) /\ n = Cardinality(DOMAIN l) /\ \A x \in DOMAIN l : l[x] \in Nat
      BY DEF Counted
    <2>2. \A x \in DOMAIN m : m[x] \in Nat
      BY <1>1, <2>1
    <2>3. IsFiniteSet(DOMAIN l \union {d}) /\ Cardinality(DOMAIN l \union {d}) = n + 1
      BY <2>1, FS_AddElement
    <2> QED BY <1>1, <2>2, <2>3
  <1>4. Counted(n + 1, m)
    <2> HIDE DEF m
    <2> QED BY <1>3 DEF Counted
  <1>5. SumOfLengths(l) = Sum(l, DOMAIN l) /\ SumOfLengths(m) = Sum(m, DOMAIN m)
    BY DEF SumOfLengths, Sum
  <1>6. Sum(m, DOMAIN l) = Sum(l, DOMAIN l)
    <2>1. IsFiniteSet(DOMAIN l)
      BY DEF Counted
    <2> HIDE DEF m
    <2> QED BY <1>1, <2>1, SumSame
  <1>7. Sum(m, DOMAIN m) = m[d] + Sum(m, DOMAIN l)
    <2> HIDE DEF m
    <2>1. d \in DOMAIN m /\ \A x \in DOMAIN m : m[x] \in Int
      BY <1>1, <1>3
    <2>3. DOMAIN l = DOMAIN m \ {d}
      BY <1>1, Zenon
    <2>2. Sum(m, DOMAIN m) = m[d] + Sum(m, DOMAIN m \ {d})
      <3>1. IsFiniteSet(DOMAIN m)
        BY <1>3
      <3> QED BY <2>1, <3>1, SumWithout
    <2> QED BY <2>2, <2>3
  <1>8. SumOfLengths(l) \in Nat
    BY LengthsType
  <1>9. SumOfLengths(m) = SumOfLengths(l) + v
    <2> HIDE DEF m
    <2> QED BY <1>1, <1>5, <1>6, <1>7, <1>8
  <1> QED BY <1>4, <1>9

LEMMA AddKeepsTotals ==
    ASSUME NEW d \in Docs, NEW in \in Inputs, IndexInv, CountInv, AddDocument(d, in)
    PROVE  Totals'
  <1>1. in.length \in Nat
    BY InputsAssumption
  <1>2. /\ docLengths' = With(docLengths, d, in.length)
        /\ avgDocLen' = <<totalDocLen', Cardinality(DOMAIN docLengths')>>
    BY DEF AddDocument
  <1>3. Counted(totalDocs', docLengths') /\ totalDocLen' = SumOfLengths(docLengths')
    <2>1. CASE d \notin DOMAIN docLengths
      <3>1. totalDocs' = totalDocs + 1 /\ totalDocLen' = totalDocLen - 0 + in.length
        BY <2>1 DEF AddDocument
      <3>2. /\ Counted(totalDocs + 1, With(docLengths, d, in.length))
            /\ SumOfLengths(With(docLengths, d, in.length)) = SumOfLengths(docLengths) + in.length
        BY <1>1, <2>1, CountedWith DEF CountInv, Totals
      <3>3. totalDocLen = SumOfLengths(docLengths) /\ totalDocLen \in Nat
        BY LengthsType DEF CountInv, Totals
      <3> QED BY <1>1, <1>2, <3>1, <3>2, <3>3
    <2>2. CASE d \in DOMAIN docLengths
      <3> DEFINE rest == Without(docLengths, d)
      <3>1. totalDocs' = totalDocs /\ totalDocLen' = totalDocLen - docLengths[d] + in.length
        BY <2>2 DEF AddDocument
      <3>2. /\ Counted(totalDocs - 1, rest)
            /\ SumOfLengths(rest) = SumOfLengths(docLengths) - docLengths[d]
        BY <2>2, CountedWithout DEF CountInv, Totals
      <3>3. d \notin DOMAIN rest
        BY WithoutMap
      <3>4. With(rest, d, in.length) = With(docLengths, d, in.length)
        BY WithAgain
      <3> HIDE DEF rest
      <3>5. /\ Counted(totalDocs - 1 + 1, With(rest, d, in.length))
            /\ SumOfLengths(With(rest, d, in.length)) = SumOfLengths(rest) + in.length
        BY <1>1, <3>2, <3>3, CountedWith
      <3>6. totalDocs \in Nat /\ totalDocLen = SumOfLengths(docLengths)
        BY LengthsType DEF CountInv, Totals
      <3> QED BY <1>2, <3>1, <3>2, <3>4, <3>5, <3>6
    <2> QED BY <2>1, <2>2
  <1> QED BY <1>2, <1>3 DEF Totals

LEMMA AddKeepsCounts ==
    ASSUME NEW d \in Docs, NEW in \in Inputs, IndexInv, CountInv, AddDocument(d, in)
    PROVE  CountInv'
  <1>1. Totals'
    BY AddKeepsTotals
  <1>2. /\ docLengths' = With(docLengths, d, in.length)
        /\ docTerms' = With(docTerms, d, TermsOf(in))
        /\ wordless' = wordless \ {d} /\ file' = file
    BY DEF AddDocument
  <1>3. DOMAIN docLengths' = DOMAIN docLengths \union {d} /\ DOMAIN docTerms' = DOMAIN docTerms \union {d}
    BY <1>2, WithMap
  <1> QED BY <1>1, <1>2, <1>3 DEF CountInv

LEMMA RemoveKeepsCounts ==
    ASSUME NEW d \in Docs, IndexInv, CountInv, RemoveDocument(d)
    PROVE  CountInv'
  <1>1. CASE d \notin DOMAIN docTerms
    BY <1>1 DEF RemoveDocument, vars, content, CountInv, Totals
  <1>2. CASE d \in DOMAIN docTerms
    <2>1. d \in DOMAIN docLengths
      BY <1>2 DEF IndexInv, Consistent, Inside
    <2>2. /\ docTerms' = Without(docTerms, d)
          /\ docLengths' = Without(docLengths, d)
          /\ totalDocLen' = totalDocLen - docLengths[d]
          /\ totalDocs' = IF totalDocs > 0 THEN totalDocs - 1 ELSE 0
          /\ avgDocLen' = <<totalDocLen', Cardinality(DOMAIN docLengths')>>
          /\ file' = file /\ wordless' = wordless
      BY <1>2, <2>1 DEF RemoveDocument
    <2>3. /\ totalDocs > 0 /\ Counted(totalDocs - 1, Without(docLengths, d))
          /\ SumOfLengths(Without(docLengths, d)) = SumOfLengths(docLengths) - docLengths[d]
      BY <2>1, CountedWithout DEF CountInv, Totals
    <2>4. Totals'
      BY <2>2, <2>3 DEF CountInv, Totals
    <2>5. DOMAIN docLengths' = DOMAIN docLengths \ {d} /\ DOMAIN docTerms' = DOMAIN docTerms \ {d}
      BY <2>2, WithoutMap
    <2>6. DOMAIN docLengths' \ DOMAIN docTerms' = wordless'
      BY <1>2, <2>2, <2>5 DEF CountInv
    <2> QED BY <2>2, <2>4, <2>6 DEF CountInv
  <1> QED BY <1>1, <1>2

LEMMA LoadKeepsCounts ==
    ASSUME CountInv, Load
    PROVE  CountInv'
  <1> PICK f \in file :
        /\ docLengths' = f.lengths
        /\ wordless' = DOMAIN f.lengths \ DOMAIN docTerms'
        /\ totalDocs' = f.total
        /\ totalDocLen' = SumOfLengths(f.lengths)
        /\ avgDocLen' = <<totalDocLen', Cardinality(DOMAIN f.lengths)>>
        /\ file' = file
    BY DEF Load
  <1>1. Counted(f.total, f.lengths)
    BY DEF CountInv
  <1>2. Totals'
    BY <1>1 DEF Totals
  <1> QED BY <1>2 DEF CountInv

LEMMA CountInitInv == Init => CountInv
  <1> SUFFICES ASSUME Init
               PROVE  CountInv
    OBVIOUS
  <1>1. Cardinality(DOMAIN EmptyMap) = 0
    BY NothingCounted DEF Counted
  <1>2. Totals
    BY <1>1, NothingCounted DEF Init, Totals
  <1> QED BY <1>2 DEF Init, CountInv, EmptyMap

LEMMA CountNextInv == IndexInv /\ CountInv /\ [Next]_vars => CountInv'
  <1> SUFFICES ASSUME IndexInv, CountInv, [Next]_vars
               PROVE  CountInv'
    OBVIOUS
  <1>1. CASE \E d \in Docs, in \in Inputs : AddDocument(d, in)
    BY <1>1, AddKeepsCounts
  <1>2. CASE \E d \in Docs : RemoveDocument(d)
    BY <1>2, RemoveKeepsCounts
  <1>3. CASE Clear
    <2>1. /\ docLengths' = EmptyMap /\ docTerms' = EmptyMap /\ totalDocs' = 0 /\ totalDocLen' = 0
          /\ avgDocLen' = <<0, 0>> /\ wordless' = {} /\ file' = file
      BY <1>3 DEF Clear
    <2>2. Cardinality(DOMAIN EmptyMap) = 0
      BY NothingCounted DEF Counted
    <2>3. Totals'
      BY <2>1, <2>2, NothingCounted DEF Totals
    <2>4. DOMAIN EmptyMap \ DOMAIN EmptyMap = {}
      OBVIOUS
    <2> QED BY <2>1, <2>3, <2>4 DEF CountInv
  <1>4. CASE Save
    <2> DEFINE f == [total |-> totalDocs, lengths |-> docLengths, terms |-> docTerms, index |-> index]
    <2>1. file' = {f} /\ UNCHANGED <<docTerms, docLengths, totalDocs, totalDocLen, avgDocLen, wordless>>
      BY <1>4 DEF Save, content
    <2>2. f.total = totalDocs /\ f.lengths = docLengths
      OBVIOUS
    <2> HIDE DEF f
    <2>3. Counted(f.total, f.lengths)
      BY <2>2 DEF CountInv, Totals
    <2> QED BY <2>1, <2>3 DEF CountInv, Totals
  <1>5. CASE Load
    BY <1>5, LoadKeepsCounts
  <1>6. CASE UNCHANGED vars
    BY <1>6 DEF vars, content, CountInv, Totals
  <1> QED BY <1>1, <1>2, <1>3, <1>4, <1>5, <1>6 DEF Next

\* The counters BM25 divides by are exact after any operations of IndexBuilder:
\* the documents are counted once each, whatever is added again, removed, saved
\* and loaded; no list is longer than that count; and the total length, which is
\* kept up incrementally, is the sum of the lengths.
THEOREM CountersStayExact == BuilderSpec => []CountersExact
  <1>1. IndexInv /\ CountInv => CountersExact
    <2> SUFFICES ASSUME IndexInv, CountInv
                 PROVE  CountersExact
      OBVIOUS
    <2>1. ASSUME NEW t \in DOMAIN index
          PROVE  Cardinality(DOMAIN index[t]) <= totalDocs
      <3>1. DOMAIN index[t] \subseteq DOMAIN docLengths
        BY DEF IndexInv, Consistent, Inside, BothWays, Posting, Listed
      <3> QED BY <3>1, FS_Subset DEF CountInv, Totals, Counted
    <2> QED BY <2>1 DEF CountersExact, CountInv, Totals, Counted, IndexInv, Consistent, Inside
  <1> QED BY <1>1, CountInitInv, CountNextInv, IndexInvariant, BuilderDrivesIndex, PTL DEF Spec

-----------------------------------------------------------------------------
(* The vectors.  The two builds share nothing but the id map, so that the  *)
(* invariant has a part for each; the scanning build's has to hold of the  *)
(* saved file as well.                                                     *)

EncodedOf(g) == [d \in DOMAIN g |-> Encode[g[d]]]

PlacesOf(d) == {p \in DOMAIN idMap : idMap[p] = d}

ScanInv ==
    /\ IsFiniteSet(DOMAIN given) /\ IsFiniteSet(DOMAIN givenFile)
    /\ vectors = EncodedOf(given)
    /\ \A f \in vectorFile : f = EncodedOf(givenFile)
    /\ idMap \in Seq(DOMAIN given)
    /\ ToSet(idMap) = DOMAIN given

GraphInv ==
    /\ idMap \in Seq(DOMAIN given) /\ points \in Seq(Vectors)
    /\ Len(points) = Len(idMap)
    /\ \A d \in DOMAIN given : /\ PlacesOf(d) # {} /\ Max(PlacesOf(d)) \in DOMAIN idMap
                               /\ points[Max(PlacesOf(d))] = Encode[given[d]]

VectorInv ==
    /\ faiss \in BOOLEAN /\ reloaded \in BOOLEAN
    /\ ~faiss => ScanInv
    /\ faiss /\ ~reloaded => GraphInv

LEMMA ScanInitInv == BuilderInit => ScanInv
  <1> SUFFICES ASSUME BuilderInit
               PROVE  ScanInv
    OBVIOUS
  <1>1. DOMAIN given = {} /\ DOMAIN givenFile = {} /\ idMap = <<>> /\ vectorFile = {} /\ vectors = <<>>
    BY DEF BuilderInit, VectorInit, EmptyMap
  <1>2. vectors = EncodedOf(given)
    BY <1>1 DEF EncodedOf
  <1>3. idMap \in Seq(DOMAIN given) /\ ToSet(idMap) = {}
    BY <1>1 DEF ToSet
  <1> QED BY <1>1, <1>2, <1>3, FS_EmptySet DEF ScanInv

LEMMA IdAppended ==
    ASSUME NEW S, NEW ids \in Seq(S), NEW d
    PROVE  /\ Append(ids, d) \in Seq(S \union {d})
           /\ ToSet(Append(ids, d)) = ToSet(ids) \union {d}
  <1>1. Append(ids, d) \in Seq(S \union {d})
    <2>1. ids \in Seq(S \union {d})
      OBVIOUS
    <2> QED BY <2>1
  <1>2. /\ DOMAIN Append(ids, d) = 1..Len(ids) + 1 /\ Append(ids, d)[Len(ids) + 1] = d
        /\ \A i \in 1..Len(ids) : Append(ids, d)[i] = ids[i]
        /\ DOMAIN ids = 1..Len(ids) /\ Len(ids) \in Nat
    OBVIOUS
  <1>3. ToSet(Append(ids, d)) = ToSet(ids) \union {d}
    BY <1>2 DEF ToSet
  <1> QED BY <1>1, <1>3

LEMMA PutKeepsScan ==
    ASSUME NEW d \in Docs, NEW in \in Inputs, ScanInv, ~faiss, Put(d, in)
    PROVE  ScanInv'
  <1>1. /\ given' = With(given, d, in) /\ givenFile' = givenFile /\ vectorFile' = vectorFile
        /\ idMap' = Append(idMap, d)
        /\ vectors' = [e \in DOMAIN vectors \cup {d} |-> IF e = d THEN Encode[in] ELSE vectors[e]]
    BY DEF Put, AddVector
  <1>2. vectors' = EncodedOf(given')
    <2>1. vectors = EncodedOf(given)
      BY DEF ScanInv
    <2>2. DOMAIN vectors = DOMAIN given /\ \A e \in DOMAIN given : vectors[e] = Encode[given[e]]
      BY <2>1 DEF EncodedOf
    <2>3. vectors' = [e \in DOMAIN given \cup {d} |->
                        Encode[IF e = d THEN in ELSE given[e]]]
      BY <1>1, <2>2
    <2> QED BY <1>1, <2>3 DEF EncodedOf, With
  <1>3. DOMAIN given' = DOMAIN given \union {d} /\ IsFiniteSet(DOMAIN given')
    <2>1. DOMAIN given' = DOMAIN given \union {d}
      BY <1>1 DEF With
    <2> QED BY <2>1, FS_AddElement DEF ScanInv
  <1>4. idMap' \in Seq(DOMAIN given') /\ ToSet(idMap') = DOMAIN given'
    <2>1. /\ Append(idMap, d) \in Seq(DOMAIN given \union {d})
          /\ ToSet(Append(idMap, d)) = ToSet(idMap) \union {d}
      BY IdAppended DEF ScanInv
    <2> QED BY <1>1, <1>3, <2>1 DEF ScanInv
  <1> QED BY <1>1, <1>2, <1>3, <1>4 DEF ScanInv

\* The ids of a loaded file are its documents, each once.
LEMMA EnumerationsCover ==
    ASSUME NEW S, IsFiniteSet(S), NEW q \in SetToSeqs(S)
    PROVE  q \in Seq(S) /\ ToSet(q) = S
  <1> DEFINE n == Cardinality(S)
  <1>1. n \in Nat
    BY FS_CardinalityType
  <1>2. q \in [1..n -> S] /\ \A i, j \in 1..n : i # j => q[i] # q[j]
    BY DEF SetToSeqs
  <1>3. IsFiniteSet(1..n) /\ Cardinality(1..n) = n
    BY <1>1, FS_Interval
  <1>4. q \in Injection(1..n, S)
    BY <1>2 DEF Injection, IsInjective
  <1>5. q \in Surjection(1..n, S)
    BY <1>3, <1>4, FS_Injection
  <1>6. ToSet(q) = S
    BY <1>2, <1>5 DEF ToSet, Surjection
  <1>7. q \in Seq(S)
    BY <1>1, <1>2
  <1> QED BY <1>6, <1>7

LEMMA LoadKeepsScan ==
    ASSUME ScanInv, ~faiss, LoadIndexes
    PROVE  ScanInv'
  <1> PICK f \in vectorFile : vectors' = f /\ idMap' \in SetToSeqs(DOMAIN f)
    BY DEF LoadIndexes, LoadVectors
  <1>1. given' = givenFile /\ givenFile' = givenFile /\ vectorFile' = vectorFile
    BY DEF LoadIndexes, LoadVectors
  <1>2. f = EncodedOf(givenFile) /\ DOMAIN f = DOMAIN givenFile /\ IsFiniteSet(DOMAIN givenFile)
    BY DEF ScanInv, EncodedOf
  <1>3. idMap' \in Seq(DOMAIN givenFile) /\ ToSet(idMap') = DOMAIN givenFile
    BY <1>2, EnumerationsCover
  <1> QED BY <1>1, <1>2, <1>3 DEF ScanInv

LEMMA PutKeepsGraph ==
    ASSUME NEW d \in Docs, NEW in \in Inputs, GraphInv, faiss, Put(d, in)
    PROVE  GraphInv'
  <1> DEFINE n == Len(idMap)
  <1>1. /\ given' = With(given, d, in)
        /\ idMap' = Append(idMap, d) /\ points' = Append(points, Encode[in])
    BY DEF Put, AddVector
  <1>2. Encode[in] \in Vectors
    BY InputsEncoded
  <1>3. DOMAIN given' = DOMAIN given \union {d} /\ given'[d] = in
        /\ \A e \in DOMAIN given : e # d => given'[e] = given[e]
    BY <1>1 DEF With
  <1>4. idMap' \in Seq(DOMAIN given')
    <2>1. Append(idMap, d) \in Seq(DOMAIN given \union {d})
      BY IdAppended DEF GraphInv
    <2> QED BY <1>1, <1>3, <2>1
  <1>5. points' \in Seq(Vectors) /\ Len(points') = Len(idMap')
    BY <1>1, <1>2 DEF GraphInv
  <1>6. /\ n \in Nat /\ DOMAIN idMap = 1..n /\ DOMAIN idMap' = 1..n + 1
        /\ idMap'[n + 1] = d /\ \A p \in 1..n : idMap'[p] = idMap[p]
        /\ points'[n + 1] = Encode[in] /\ \A p \in 1..n : points'[p] = points[p]
    BY <1>1, <1>2 DEF GraphInv
  <1>7. ASSUME NEW e \in DOMAIN given'
        PROVE  /\ PlacesOf(e)' # {} /\ Max(PlacesOf(e)') \in DOMAIN idMap'
               /\ points'[Max(PlacesOf(e)')] = Encode[given'[e]]
    <2>1. CASE e = d
      <3>1. n + 1 \in PlacesOf(e)' /\ \A p \in PlacesOf(e)' : p \in Nat /\ n + 1 >= p
        BY <1>6, <2>1 DEF PlacesOf
      <3>2. Max(PlacesOf(e)') = n + 1
        BY <1>6, <3>1 DEF Max
      <3> QED BY <1>3, <1>6, <2>1, <3>1, <3>2
    <2>2. CASE e # d
      <3>1. PlacesOf(e)' = PlacesOf(e) /\ e \in DOMAIN given
        BY <1>3, <1>6, <2>2 DEF PlacesOf
      <3>2. /\ PlacesOf(e) # {} /\ Max(PlacesOf(e)) \in 1..n
            /\ points[Max(PlacesOf(e))] = Encode[given[e]]
        BY <1>6, <3>1 DEF GraphInv
      <3> QED BY <1>3, <1>6, <2>2, <3>1, <3>2
    <2> QED BY <2>1, <2>2
  <1> QED BY <1>4, <1>5, <1>7 DEF GraphInv

LEMMA VectorNextInv == VectorInv /\ [BuilderNext]_builderVars => VectorInv'
  <1> SUFFICES ASSUME VectorInv, [BuilderNext]_builderVars
               PROVE  VectorInv'
    OBVIOUS
  <1>1. ASSUME NEW d \in Docs, NEW in \in Inputs, Put(d, in)
        PROVE  VectorInv'
    <2>1. faiss' = faiss /\ reloaded' = reloaded
      BY <1>1 DEF Put, AddVector
    <2> QED BY <1>1, <2>1, PutKeepsScan, PutKeepsGraph DEF VectorInv
  <1>2. ASSUME UNCHANGED <<vectorVars, given, givenFile, reloaded>>
        PROVE  VectorInv'
    BY <1>2 DEF vectorVars, VectorInv, ScanInv, GraphInv, PlacesOf
  <1>3. CASE SaveIndexes
    <2>1. /\ UNCHANGED <<faiss, vectors, points, idMap, given, reloaded>>
          /\ givenFile' = given /\ vectorFile' = {IF faiss THEN points ELSE vectors}
      BY <1>3 DEF SaveIndexes, SaveVectors
    <2>2. CASE faiss
      <3>1. GraphInv => GraphInv'
        BY <2>1 DEF GraphInv, PlacesOf
      <3> QED BY <2>1, <2>2, <3>1 DEF VectorInv
    <2>3. CASE ~faiss
      BY <2>1, <2>3 DEF VectorInv, ScanInv
    <2> QED BY <2>2, <2>3
  <1>4. CASE LoadIndexes
    <2>1. faiss' = faiss /\ reloaded' = TRUE
      BY <1>4 DEF LoadIndexes, LoadVectors
    <2> QED BY <1>4, <2>1, LoadKeepsScan DEF VectorInv
  <1> QED BY <1>1, <1>2, <1>3, <1>4 DEF BuilderNext, DeleteDocument, ClearIndex, builderVars

\* The scanning build has for each document the embedding of its last version,
\* after any additions, saves and restarts; the Faiss build has it at the last
\* position of the document until the process loads a file.
THEOREM VectorsKeepUp == BuilderSpec => []VectorsFollow
  <1>1. BuilderInit => VectorInv
    <2> SUFFICES ASSUME BuilderInit
                 PROVE  VectorInv
      OBVIOUS
    <2>1. GraphInv
      BY DEF BuilderInit, VectorInit, EmptyMap, GraphInv
    <2> QED BY <2>1, ScanInitInv DEF BuilderInit, VectorInit, VectorInv
  <1>2. VectorInv => VectorsFollow
    BY DEF VectorInv, ScanInv, GraphInv, VectorsFollow, EncodedOf, PlacesOf
  <1> QED BY <1>1, <1>2, VectorNextInv, PTL DEF BuilderSpec

-----------------------------------------------------------------------------
(* Places and rounds: the least of a set of numbers, induction over an     *)
(* interval, and functions defined round by round.                         *)

LEMMA FirstPlace ==
    ASSUME NEW n \in Nat, NEW P \in SUBSET (0..n), P # {}
    PROVE  \E m \in P : \A j \in P : m <= j
  <1> DEFINE R == StrictSubsetOrdering(0..n)
             X == {0..i : i \in P}
  <1>1. IsWellFoundedOn(R, SUBSET (0..n))
    <2>1. IsFiniteSet(0..n)
      BY FS_Interval
    <2> QED BY <2>1, FS_StrictSubsetOrderingWellFounded, FS_FiniteSubsetsOfFinite
  <1>2. X \in SUBSET (SUBSET (0..n)) /\ X # {}
    <2>1. ASSUME NEW i \in P PROVE 0..i \in SUBSET (0..n)
      <3>1. i \in 0..n
        OBVIOUS
      <3> QED BY <3>1
    <2> QED BY <2>1
  <1>3. PICK T \in X : \A U \in X : <<U, T>> \notin R
    <2> HIDE DEF R, X
    <2> QED BY <1>1, <1>2, WFMin
  <1>4. PICK m \in P : T = 0..m
    OBVIOUS
  <1>5. ASSUME NEW j \in P, j < m PROVE FALSE
    <2>1. 0..j \in X /\ 0..j \in SUBSET (0..n) /\ 0..m \in SUBSET (0..n)
      OBVIOUS
    <2>2. 0..j \subseteq 0..m /\ m \in 0..m /\ m \notin 0..j
      BY <1>5
    <2>3. <<0..j, 0..m>> \in R
      BY <2>1, <2>2 DEF StrictSubsetOrdering
    <2> QED BY <1>3, <1>4, <2>1, <2>3
  <1> QED BY <1>5

LEMMA LastPlace ==
    ASSUME NEW n \in Nat, NEW P \in SUBSET (0..n), P # {}
    PROVE  /\ Max(P) \in P
           /\ \A j \in P : j <= Max(P)
  <1> DEFINE Q == {i \in 0..n : n - i \in P}
  <1>1. Q \in SUBSET (0..n) /\ Q # {}
    <2>1. PICK i \in P : TRUE
      OBVIOUS
    <2>2. n - i \in 0..n /\ n - (n - i) = i
      OBVIOUS
    <2> QED BY <2>2
  <1>2. PICK m \in Q : \A j \in Q : m <= j
    <2> HIDE DEF Q
    <2> QED BY <1>1, FirstPlace
  <1>3. n - m \in P /\ \A j \in P : n - m >= j
    <2>1. ASSUME NEW j \in P PROVE n - m >= j
      <3>1. n - j \in Q
        OBVIOUS
      <3> QED BY <1>2, <3>1
    <2> QED BY <2>1
  <1>4. Max(P) \in P /\ \A j \in P : Max(P) >= j
    <2> HIDE DEF Q
    <2> QED BY <1>3 DEF Max
  <1> QED BY <1>4

\* Induction: what holds at 0 and goes on from each place to the next.
LEMMA PlaceByPlace ==
    ASSUME NEW n \in Nat, NEW P \in SUBSET (0..n), 0 \in P,
           \A k \in 1..n : k - 1 \in P => k \in P
    PROVE  P = 0..n
  <1> DEFINE Q == (0..n) \ P
  <1>1. SUFFICES ASSUME Q # {} PROVE FALSE
    OBVIOUS
  <1>2. PICK m \in Q : \A j \in Q : m <= j
    <2>1. Q \in SUBSET (0..n)
      OBVIOUS
    <2> HIDE DEF Q
    <2> QED BY <1>1, <2>1, FirstPlace
  <1>3. m \in 1..n
    OBVIOUS
  <1>4. m - 1 \in P
    BY <1>2, <1>3
  <1> QED BY <1>3, <1>4

RoundByRound(S, s0, n, step) ==
    \E f \in [0..n -> S] : f[0] = s0 /\ \A k \in 1..n : f[k] = step[k][f[k - 1]]

\* A function defined round by round exists.
LEMMA RoundsExist ==
    ASSUME NEW S, NEW s0 \in S, NEW n \in Nat, NEW step \in [1..n -> [S -> S]]
    PROVE  RoundByRound(S, s0, n, step)
  <1> DEFINE Good(m, f) == f[0] = s0 /\ \A k \in 1..m : f[k] = step[k][f[k - 1]]
             P == {m \in 0..n : \E f \in [0..m -> S] : Good(m, f)}
  <1>1. 0 \in P
    <2> DEFINE f == [k \in 0..0 |-> s0]
    <2>1. f \in [0..0 -> S] /\ f[0] = s0 /\ 1..0 = {} /\ 0 \in 0..n
      OBVIOUS
    <2>2. Good(0, f)
      BY <2>1
    <2> HIDE DEF f, Good
    <2> QED BY <2>1, <2>2
  <1>2. ASSUME NEW k \in 1..n, k - 1 \in P PROVE k \in P
    <2>1. PICK f \in [0..(k - 1) -> S] : Good(k - 1, f)
      BY <1>2
    <2> DEFINE g == [i \in 0..k |-> IF i = k THEN step[k][f[k - 1]] ELSE f[i]]
    <2>2. f[k - 1] \in S /\ step[k] \in [S -> S]
      OBVIOUS
    <2>3. g \in [0..k -> S]
      BY <2>2
    <2>4. \A i \in 0..k : g[i] = (IF i = k THEN step[k][f[k - 1]] ELSE f[i])
      OBVIOUS
    <2>5. g[0] = s0
      BY <2>1, <2>4
    <2>6. ASSUME NEW i \in 1..k PROVE g[i] = step[i][g[i - 1]]
      <3>1. CASE i = k
        BY <2>4, <3>1
      <3>2. CASE i # k
        <4>1. i \in 1..(k - 1) /\ i - 1 \in 0..k /\ i - 1 # k
          BY <3>2
        <4> QED BY <2>1, <2>4, <4>1
      <3> QED BY <3>1, <3>2
    <2> HIDE DEF g
    <2> QED BY <2>3, <2>5, <2>6
  <1>3. P = 0..n
    <2> HIDE DEF P
    <2>1. P \in SUBSET (0..n)
      BY DEF P
    <2> QED BY <1>1, <1>2, <2>1, PlaceByPlace
  <1>4. n \in P
    BY <1>3
  <1> QED BY <1>4 DEF RoundByRound

-----------------------------------------------------------------------------
(* InOrder and AtPlaces.                                                   *)

\* The number of a place among those of a set.
NumberIn(P, i) == Cardinality({j \in P : j <= i})

\* InOrder goes through the places of the set from the first to the last, and
\* NumberIn is its inverse.
LEMMA InOrderIs ==
    ASSUME NEW n \in Nat, NEW P \in SUBSET (1..n)
    PROVE  /\ IsFiniteSet(P) /\ Cardinality(P) \in Nat /\ Cardinality(P) <= n
           /\ InOrder(P) \in [1..Cardinality(P) -> P]
           /\ \A k \in 1..Cardinality(P) : NumberIn(P, InOrder(P)[k]) = k
           /\ \A i \in P : NumberIn(P, i) \in 1..Cardinality(P) /\ InOrder(P)[NumberIn(P, i)] = i
           /\ \A k, l \in 1..Cardinality(P) : k < l => InOrder(P)[k] < InOrder(P)[l]
  <1> DEFINE c == Cardinality(P)
             below(i) == {j \in P : j <= i}
             rank == [i \in P |-> Cardinality(below(i))]
  <1>1. IsFiniteSet(P) /\ c \in Nat /\ c <= n
    <2>1. IsFiniteSet(1..n) /\ Cardinality(1..n) = n
      BY FS_Interval
    <2> QED BY <2>1, FS_Subset, FS_CardinalityType
  <1>2. \A i \in P : below(i) \in SUBSET P /\ i \in below(i)
    OBVIOUS
  <1>3. \A i \in P : IsFiniteSet(below(i)) /\ Cardinality(below(i)) \in Nat
                     /\ Cardinality(below(i)) <= c /\ Cardinality(below(i)) # 0
    <2>1. SUFFICES ASSUME NEW i \in P
                   PROVE  IsFiniteSet(below(i)) /\ Cardinality(below(i)) \in Nat
                          /\ Cardinality(below(i)) <= c /\ Cardinality(below(i)) # 0
      OBVIOUS
    <2>2. below(i) \in SUBSET P /\ below(i) # {}
      BY <1>2
    <2> HIDE DEF below
    <2>3. IsFiniteSet(below(i)) /\ Cardinality(below(i)) <= c
      BY <1>1, <2>2, FS_Subset
    <2> QED BY <2>2, <2>3, FS_CardinalityType, FS_EmptySet
  <1>4. rank \in [P -> 1..c]
    <2> HIDE DEF below, c
    <2> QED BY <1>1, <1>3
  <1>5. ASSUME NEW i \in P, NEW j \in P, i < j PROVE rank[i] < rank[j]
    <2>1. below(i) \in SUBSET below(j) /\ j \in below(j) /\ j \notin below(i)
      <3>1. i \in Nat /\ j \in Nat /\ P \subseteq Nat
        OBVIOUS
      <3>2. \A x \in Nat : x <= i => x <= j
        BY <1>5, <3>1
      <3>3. below(i) \in SUBSET below(j)
        BY <3>1, <3>2
      <3>4. ~(j <= i) /\ j <= j
        BY <1>5, <3>1
      <3> QED BY <3>3, <3>4
    <2>2. below(i) # below(j)
      BY <2>1
    <2>3. rank[i] = Cardinality(below(i)) /\ rank[j] = Cardinality(below(j))
      OBVIOUS
    <2> HIDE DEF below, rank
    <2> QED BY <1>3, <2>1, <2>2, <2>3, FS_Subset
  <1>6. rank \in Injection(P, 1..c)
    <2>1. ASSUME NEW i \in P, NEW j \in P, rank[i] = rank[j] PROVE i = j
      <3>1. i \in Nat /\ j \in Nat
        OBVIOUS
      <3> HIDE DEF rank
      <3>2. rank[i] \in Nat
        BY <1>1, <1>4
      <3> QED BY <1>5, <2>1, <3>1, <3>2
    <2> HIDE DEF rank
    <2> QED BY <1>4, <2>1 DEF Injection, IsInjective
  <1>7. rank \in Surjection(P, 1..c)
    <2>1. IsFiniteSet(1..c) /\ Cardinality(1..c) = c
      BY <1>1, FS_Interval
    <2> HIDE DEF rank
    <2> QED BY <1>6, <2>1, FS_Injection
  <1>8. \A k \in 1..c : InOrder(P)[k] \in P /\ rank[InOrder(P)[k]] = k
    <2>1. SUFFICES ASSUME NEW k \in 1..c PROVE InOrder(P)[k] \in P /\ rank[InOrder(P)[k]] = k
      OBVIOUS
    <2>2. \E i \in P : rank[i] = k
      <3> HIDE DEF rank
      <3> QED BY <1>7 DEF Surjection
    <2>3. \E i \in P : Cardinality({j \in P : j <= i}) = k
      BY <2>2
    <2>4. InOrder(P)[k] = CHOOSE i \in P : Cardinality({j \in P : j <= i}) = k
      BY DEF InOrder
    <2>5. InOrder(P)[k] \in P /\ Cardinality({j \in P : j <= InOrder(P)[k]}) = k
      BY <2>3, <2>4
    <2> QED BY <2>5
  <1>9. InOrder(P) \in [1..c -> P]
    <2>1. InOrder(P) = [k \in 1..c |-> InOrder(P)[k]]
      BY DEF InOrder
    <2> HIDE DEF rank, c
    <2> QED BY <1>8, <2>1
  <1>10. \A i \in P : rank[i] = NumberIn(P, i)
    BY DEF NumberIn
  <1>11. \A i \in P : rank[i] \in 1..c /\ InOrder(P)[rank[i]] = i
    <2>1. ASSUME NEW i \in P PROVE rank[i] \in 1..c /\ InOrder(P)[rank[i]] = i
      <3>1. rank[i] \in 1..c
        BY <1>4
      <3>2. rank[InOrder(P)[rank[i]]] = rank[i] /\ InOrder(P)[rank[i]] \in P
        BY <1>8, <3>1
      <3> HIDE DEF rank, c
      <3> QED BY <1>6, <3>1, <3>2 DEF Injection, IsInjective
    <2> HIDE DEF rank, c
    <2> QED BY <2>1
  <1>12. ASSUME NEW k \in 1..c, NEW l \in 1..c, k < l PROVE InOrder(P)[k] < InOrder(P)[l]
    <2> DEFINE a == InOrder(P)[k]
               b == InOrder(P)[l]
    <2>1. a \in P /\ b \in P /\ rank[a] = k /\ rank[b] = l
      BY <1>8
    <2>2. a \in Nat /\ b \in Nat /\ k \in Nat /\ l \in Nat
      <3>1. P \subseteq Nat
        OBVIOUS
      <3> HIDE DEF a, b, rank
      <3> QED BY <2>1, <3>1
    <2> HIDE DEF a, b, rank, c
    <2>3. ~(b < a) /\ a # b
      BY <1>5, <1>12, <2>1, <2>2
    <2> QED BY <2>2, <2>3 DEF a, b
  <1> HIDE DEF rank, c
  <1>13. \A k \in 1..c : NumberIn(P, InOrder(P)[k]) = k
    BY <1>8, <1>10
  <1>14. \A i \in P : NumberIn(P, i) \in 1..c /\ InOrder(P)[NumberIn(P, i)] = i
    BY <1>10, <1>11
  <1> QED BY <1>1, <1>9, <1>12, <1>13, <1>14 DEF c

LEMMA AtPlacesIs ==
    ASSUME NEW S, NEW s \in Seq(S), NEW P \in SUBSET DOMAIN s
    PROVE  /\ AtPlaces(s, P) \in Seq(S)
           /\ Len(AtPlaces(s, P)) = Cardinality(P) /\ Cardinality(P) \in Nat
           /\ DOMAIN AtPlaces(s, P) = 1..Cardinality(P)
           /\ \A k \in 1..Cardinality(P) : AtPlaces(s, P)[k] = s[InOrder(P)[k]]
           /\ \A i \in P : AtPlaces(s, P)[NumberIn(P, i)] = s[i]
  <1>1. Len(s) \in Nat /\ DOMAIN s = 1..Len(s) /\ P \in SUBSET (1..Len(s))
    OBVIOUS
  <1>2. /\ Cardinality(P) \in Nat /\ InOrder(P) \in [1..Cardinality(P) -> P]
        /\ \A i \in P : NumberIn(P, i) \in 1..Cardinality(P) /\ InOrder(P)[NumberIn(P, i)] = i
    BY <1>1, InOrderIs
  <1>3. AtPlaces(s, P) = [k \in 1..Cardinality(P) |-> s[InOrder(P)[k]]]
    BY <1>2 DEF AtPlaces
  <1>4. \A k \in 1..Cardinality(P) : InOrder(P)[k] \in P /\ s[InOrder(P)[k]] \in S
    BY <1>1, <1>2
  <1>5. AtPlaces(s, P) \in Seq(S) /\ Len(AtPlaces(s, P)) = Cardinality(P)
    BY <1>2, <1>3, <1>4
  <1> QED BY <1>2, <1>3, <1>4, <1>5

\* Numbering keeps the order.
LEMMA NumbersInOrder ==
    ASSUME NEW n \in Nat, NEW P \in SUBSET (1..n), NEW i \in P, NEW j \in P
    PROVE  (i < j) <=> (NumberIn(P, i) < NumberIn(P, j))
  <1>1. /\ NumberIn(P, i) \in 1..Cardinality(P) /\ InOrder(P)[NumberIn(P, i)] = i
        /\ NumberIn(P, j) \in 1..Cardinality(P) /\ InOrder(P)[NumberIn(P, j)] = j
        /\ \A k, l \in 1..Cardinality(P) : k < l => InOrder(P)[k] < InOrder(P)[l]
        /\ Cardinality(P) \in Nat
    BY InOrderIs
  <1>2. i \in Nat /\ j \in Nat
    OBVIOUS
  <1> QED BY <1>1, <1>2

\* There is one way only to go through a set of places in order.
LEMMA OneOrder ==
    ASSUME NEW n \in Nat, NEW P \in SUBSET (1..n), NEW m \in Nat, NEW f \in [1..m -> P],
           \A i \in P : \E k \in 1..m : f[k] = i,
           \A k, l \in 1..m : k < l => f[k] < f[l]
    PROVE  m = Cardinality(P) /\ f = InOrder(P)
  <1> DEFINE c == Cardinality(P)
  <1>1. /\ c \in Nat /\ InOrder(P) \in [1..c -> P]
        /\ \A i \in P : NumberIn(P, i) \in 1..c /\ InOrder(P)[NumberIn(P, i)] = i
        /\ \A k, l \in 1..c : k < l => InOrder(P)[k] < InOrder(P)[l]
    BY InOrderIs
  <1> HIDE DEF c
  <1>2. m = c
    <2>1. \A k \in 1..m : f[k] \in Nat
      <3>1. P \subseteq Nat
        OBVIOUS
      <3> QED BY <3>1
    <2>2. IsInjective(f)
      <3>1. ASSUME NEW k \in 1..m, NEW l \in 1..m, f[k] = f[l] PROVE k = l
        <4>1. k < l \/ l < k \/ k = l
          OBVIOUS
        <4> QED BY <2>1, <3>1, <4>1
      <3> QED BY <3>1 DEF IsInjective
    <2>3. f \in Bijection(1..m, P)
      BY <2>2 DEF Bijection, Injection, Surjection
    <2> QED BY <2>3, FS_CountingElements DEF ExistsBijection, c
  <1>3. \A k \in 1..m : f[k] = InOrder(P)[k]
    <2> DEFINE Bad == {k \in 0..m : k # 0 /\ f[k] # InOrder(P)[k]}
    <2>1. SUFFICES ASSUME Bad # {} PROVE FALSE
      OBVIOUS
    <2>2. PICK b \in Bad : \A k \in Bad : b <= k
      <3>1. Bad \in SUBSET (0..m)
        OBVIOUS
      <3> HIDE DEF Bad
      <3> QED BY <2>1, <3>1, FirstPlace
    <2>3. b \in 1..m /\ b \in 1..c /\ f[b] # InOrder(P)[b]
      BY <1>2
    <2>4. \A k \in 1..m : k < b => f[k] = InOrder(P)[k]
      <3>1. SUFFICES ASSUME NEW k \in 1..m, k < b, f[k] # InOrder(P)[k] PROVE FALSE
        OBVIOUS
      <3>2. k \in Bad
        BY <3>1
      <3> QED BY <2>2, <3>1, <3>2
    <2> HIDE DEF Bad
    <2>5. PICK k \in 1..m : f[k] = InOrder(P)[b]
      BY <1>1, <2>3
    <2>6. PICK l \in 1..c : InOrder(P)[l] = f[b]
      BY <1>1, <2>3
    <2>7. f[b] \in Nat /\ InOrder(P)[b] \in Nat /\ k \in Nat /\ l \in Nat /\ b \in Nat
      <3>1. P \subseteq Nat
        OBVIOUS
      <3>2. f[b] \in P /\ InOrder(P)[b] \in P
        BY <1>1, <2>3
      <3>3. f[b] \in Nat /\ InOrder(P)[b] \in Nat
        BY <3>1, <3>2
      <3>4. \A x \in 1..m : x \in Nat
        OBVIOUS
      <3>5. \A x \in 1..c : x \in Nat
        BY <1>1
      <3> QED BY <2>3, <3>3, <3>4, <3>5
    <2>8. k > b
      <3>1. k # b
        BY <2>3, <2>5
      <3>2. k < b => InOrder(P)[k] = InOrder(P)[b] /\ InOrder(P)[k] < InOrder(P)[b]
        BY <1>1, <1>2, <2>3, <2>4, <2>5
      <3> QED BY <2>7, <3>1, <3>2
    <2>9. l > b
      <3>1. l # b
        BY <2>3, <2>6
      <3>2. l < b => f[l] = f[b] /\ f[l] < f[b]
        BY <1>1, <1>2, <2>3, <2>4, <2>6
      <3> QED BY <2>7, <3>1, <3>2
    <2>10. f[b] < InOrder(P)[b]
      BY <2>3, <2>5, <2>7, <2>8
    <2>11. InOrder(P)[b] < f[b]
      BY <1>1, <2>3, <2>6, <2>7, <2>9
    <2> QED BY <2>7, <2>10, <2>11
  <1>4. f = InOrder(P)
    BY <1>1, <1>2, <1>3
  <1> QED BY <1>2, <1>4 DEF c

\* All places.
LEMMA AtAllPlaces ==
    ASSUME NEW S, NEW s \in Seq(S)
    PROVE  AtPlaces(s, DOMAIN s) = s
  <1> DEFINE n == Len(s)
             f == [k \in 1..n |-> k]
  <1>1. n \in Nat /\ DOMAIN s = 1..n /\ f \in [1..n -> 1..n]
    OBVIOUS
  <1>2. \A i \in 1..n : \E k \in 1..n : f[k] = i
    OBVIOUS
  <1>3. \A k, l \in 1..n : k < l => f[k] < f[l]
    OBVIOUS
  <1>4. n = Cardinality(1..n) /\ f = InOrder(1..n)
    <2> HIDE DEF f, n
    <2> QED BY <1>1, <1>2, <1>3, OneOrder
  <1>5. AtPlaces(s, DOMAIN s) = [k \in 1..n |-> s[f[k]]]
    <2> HIDE DEF f, n
    <2> QED BY <1>1, <1>4 DEF AtPlaces
  <1>6. AtPlaces(s, DOMAIN s) = [k \in 1..n |-> s[k]]
    BY <1>5
  <1> QED BY <1>1, <1>6

LEMMA AtNoPlace ==
    ASSUME NEW s
    PROVE  AtPlaces(s, {}) = <<>>
  <1>1. Cardinality({}) = 0
    BY FS_EmptySet
  <1>2. DOMAIN InOrder({}) = {}
    BY <1>1 DEF InOrder
  <1> QED BY <1>2 DEF AtPlaces

\* Places of the places.
PlacesAmong(P, K) == {InOrder(P)[k] : k \in K}

LEMMA AtPlacesOfPlaces ==
    ASSUME NEW S, NEW s \in Seq(S), NEW P \in SUBSET DOMAIN s, NEW K \in SUBSET (1..Cardinality(P))
    PROVE  /\ PlacesAmong(P, K) \in SUBSET P
           /\ AtPlaces(AtPlaces(s, P), K) = AtPlaces(s, PlacesAmong(P, K))
  <1> DEFINE n == Len(s)
             c == Cardinality(P)
             m == Cardinality(K)
             Q == PlacesAmong(P, K)
             f == [k \in 1..m |-> InOrder(P)[InOrder(K)[k]]]
  <1>1. n \in Nat /\ DOMAIN s = 1..n /\ P \in SUBSET (1..n)
    OBVIOUS
  <1>2. /\ c \in Nat /\ InOrder(P) \in [1..c -> P]
        /\ \A k, l \in 1..c : k < l => InOrder(P)[k] < InOrder(P)[l]
    BY <1>1, InOrderIs
  <1>3. /\ m \in Nat /\ InOrder(K) \in [1..m -> K]
        /\ \A i \in K : NumberIn(K, i) \in 1..m /\ InOrder(K)[NumberIn(K, i)] = i
        /\ \A k, l \in 1..m : k < l => InOrder(K)[k] < InOrder(K)[l]
    BY <1>2, InOrderIs
  <1>4. AtPlaces(s, P) = [k \in 1..c |-> s[InOrder(P)[k]]]
    BY <1>2 DEF AtPlaces
  <1>5. AtPlaces(AtPlaces(s, P), K) = [k \in 1..m |-> AtPlaces(s, P)[InOrder(K)[k]]]
    BY <1>3 DEF AtPlaces
  <1>6. \A k \in 1..m : InOrder(K)[k] \in K /\ InOrder(K)[k] \in 1..c
    BY <1>3
  <1> HIDE DEF n, c, m
  <1>7. AtPlaces(AtPlaces(s, P), K) = [k \in 1..m |-> s[f[k]]]
    BY <1>4, <1>5, <1>6
  <1>8. Q \in SUBSET P
    <2>1. ASSUME NEW k \in K PROVE InOrder(P)[k] \in P
      BY <1>2 DEF c
    <2> QED BY <2>1 DEF PlacesAmong
  <1>9. f \in [1..m -> Q]
    BY <1>6 DEF PlacesAmong
  <1>10. \A i \in Q : \E k \in 1..m : f[k] = i
    <2>1. SUFFICES ASSUME NEW l \in K PROVE \E k \in 1..m : f[k] = InOrder(P)[l]
      BY DEF PlacesAmong
    <2> QED BY <1>3
  <1>11. \A k, l \in 1..m : k < l => f[k] < f[l]
    BY <1>2, <1>3, <1>6
  <1>12. Q \in SUBSET (1..n)
    BY <1>1, <1>8
  <1>13. m = Cardinality(Q) /\ f = InOrder(Q)
    <2> HIDE DEF f, Q
    <2> QED BY <1>1, <1>3, <1>9, <1>10, <1>11, <1>12, OneOrder
  <1>14. AtPlaces(s, Q) = [k \in 1..m |-> s[f[k]]]
    <2> HIDE DEF f, Q
    <2>1. DOMAIN InOrder(Q) = 1..m
      BY <1>9, <1>13
    <2> QED BY <1>13, <2>1 DEF AtPlaces
  <1> QED BY <1>7, <1>8, <1>14

-----------------------------------------------------------------------------
(* FlattenSeq.                                                             *)

\* g has what the first k of the lists make together.
FlattensBy(seqs, T, n, g) ==
    /\ g \in [0..n -> T]
    /\ g[0] = <<>>
    /\ \A k \in 1..n : g[k] = g[k - 1] \o seqs[k]
    /\ FlattenSeq(seqs) = g[n]

LEMMA FlattenGrows ==
    ASSUME NEW X, NEW seqs \in Seq(Seq(X))
    PROVE  \E g : FlattensBy(seqs, Seq(X), Len(seqs), g)
  <1> DEFINE n == Len(seqs)
             T == Seq(X)
             step == [k \in 1..n |-> [s \in T |-> s \o seqs[k]]]
             Unfolds(f) == f = [i \in 1..n |-> IF i = 1 THEN seqs[i] ELSE f[i - 1] \o seqs[i]]
             flatten == CHOOSE f : Unfolds(f)
  <1>1. n \in Nat /\ \A k \in 1..n : seqs[k] \in T
    OBVIOUS
  <1>2. step \in [1..n -> [T -> T]] /\ <<>> \in T
    OBVIOUS
  <1>3. \E g \in [0..n -> T] : g[0] = <<>> /\ \A k \in 1..n : g[k] = step[k][g[k - 1]]
    <2> DEFINE e == <<>>
    <2>1. n \in Nat
      BY <1>1
    <2>2. step \in [1..n -> [T -> T]]
      BY <1>2
    <2>3. e \in T
      BY <1>2
    <2> HIDE DEF n, T, step, e
    <2>4. RoundByRound(T, e, n, step)
      BY <2>1, <2>2, <2>3, RoundsExist
    <2> QED BY <2>4 DEF e, RoundByRound
  <1>4. PICK g \in [0..n -> T] : g[0] = <<>> /\ \A k \in 1..n : g[k] = step[k][g[k - 1]]
    BY <1>3
  <1>5. \A k \in 1..n : k - 1 \in 0..n /\ g[k - 1] \in T
    <2>1. \A k \in 1..n : k - 1 \in 0..n
      BY <1>1
    <2> HIDE DEF n, T
    <2> QED BY <2>1
  <1>6. \A k \in 1..n : g[k] = g[k - 1] \o seqs[k]
    <2> HIDE DEF n, T
    <2> QED BY <1>4, <1>5
  <1>7. Unfolds([i \in 1..n |-> g[i]])
    <2>1. ASSUME NEW i \in 1..n
          PROVE  g[i] = IF i = 1 THEN seqs[i] ELSE [l \in 1..n |-> g[l]][i - 1] \o seqs[i]
      <3>1. CASE i = 1
        <4>1. 1 \in 1..n /\ 1 - 1 = 0
          BY <3>1
        <4>2. g[1] = <<>> \o seqs[1] /\ seqs[1] \in T
          <5> HIDE DEF n, T
          <5> QED BY <1>1, <1>4, <1>6, <4>1
        <4>3. g[1] = seqs[1]
          BY <4>2
        <4> QED BY <3>1, <4>3
      <3>2. CASE i # 1
        <4>1. i - 1 \in 1..n
          BY <1>1, <3>2
        <4> HIDE DEF n
        <4> QED BY <1>6, <3>2, <4>1
      <3> QED BY <3>1, <3>2
    <2> HIDE DEF n
    <2> QED BY <2>1
  <1>8. Unfolds(flatten)
    <2> HIDE DEF Unfolds
    <2> QED BY <1>7
  <1>9. \A i \in 1..n : flatten[i] = IF i = 1 THEN seqs[i] ELSE flatten[i - 1] \o seqs[i]
    <2> HIDE DEF flatten, n
    <2> QED BY <1>8
  <1>10. \A k \in 1..n : flatten[k] = g[k]
    <2> DEFINE P == {k \in 0..n : k = 0 \/ flatten[k] = g[k]}
    <2> HIDE DEF flatten
    <2>1. P \in SUBSET (0..n) /\ 0 \in P
      BY <1>1
    <2>2. ASSUME NEW k \in 1..n, k - 1 \in P PROVE k \in P
      <3>1. k \in 0..n
        BY <1>1
      <3>2. CASE k = 1
        <4>1. 1 \in 1..n /\ 1 - 1 = 0
          BY <3>2
        <4>2. flatten[1] = seqs[1] /\ g[1] = <<>> \o seqs[1] /\ seqs[1] \in T
          <5> HIDE DEF n, T
          <5> QED BY <1>1, <1>4, <1>6, <1>9, <4>1
        <4>3. g[1] = seqs[1]
          BY <4>2
        <4> QED BY <3>1, <3>2, <4>2, <4>3
      <3>3. CASE k # 1
        <4>1. k - 1 # 0
          BY <3>3
        <4>2. flatten[k - 1] = g[k - 1]
          BY <2>2, <4>1
        <4>3. flatten[k] = g[k]
          BY <1>6, <1>9, <3>3, <4>2
        <4> QED BY <3>1, <4>3
      <3> QED BY <3>2, <3>3
    <2>3. P = 0..n
      <3> HIDE DEF P, n
      <3> QED BY <1>1, <2>1, <2>2, PlaceByPlace
    <2>4. \A k \in 1..n : k \in 0..n /\ k # 0
      BY <1>1
    <2> QED BY <2>3, <2>4
  <1>11. FlattenSeq(seqs) = g[n]
    <2>1. CASE n = 0
      BY <1>4, <2>1 DEF FlattenSeq
    <2>2. CASE n # 0
      <3>1. n \in 1..n
        BY <1>1, <2>2
      <3>2. FlattenSeq(seqs) = flatten[n]
        BY <2>2 DEF FlattenSeq
      <3> HIDE DEF flatten, n
      <3> QED BY <1>10, <3>1, <3>2
    <2> QED BY <2>1, <2>2
  <1>12. FlattensBy(seqs, T, n, g)
    BY <1>4, <1>6, <1>11 DEF FlattensBy
  <1> QED BY <1>12

LEMMA FlattenType ==
    ASSUME NEW X, NEW seqs \in Seq(Seq(X))
    PROVE  FlattenSeq(seqs) \in Seq(X)
  <1>1. PICK g : FlattensBy(seqs, Seq(X), Len(seqs), g)
    BY FlattenGrows
  <1>2. Len(seqs) \in 0..Len(seqs)
    OBVIOUS
  <1> QED BY <1>1, <1>2 DEF FlattensBy

LEMMA FlattenNothing ==
    ASSUME NEW X, NEW seqs \in Seq(Seq(X)), \A i \in 1..Len(seqs) : seqs[i] = <<>>
    PROVE  FlattenSeq(seqs) = <<>>
  <1> DEFINE n == Len(seqs)
             T == Seq(X)
  <1>1. PICK g \in [0..n -> T] : /\ g[0] = <<>>
                                 /\ \A k \in 1..n : g[k] = g[k - 1] \o seqs[k]
                                 /\ FlattenSeq(seqs) = g[n]
    BY FlattenGrows DEF FlattensBy
  <1> DEFINE P == {k \in 0..n : g[k] = <<>>}
  <1>2. n \in Nat /\ 0 \in P /\ P \in SUBSET (0..n)
    BY <1>1
  <1>3. ASSUME NEW k \in 1..n, k - 1 \in P PROVE k \in P
    <2>1. k \in 0..n /\ seqs[k] = <<>> /\ g[k - 1] = <<>>
      BY <1>3
    <2>2. g[k] = <<>> \o <<>>
      BY <1>1, <2>1
    <2> QED BY <2>1, <2>2
  <1>4. P = 0..n
    <2> HIDE DEF P, n
    <2> QED BY <1>2, <1>3, PlaceByPlace
  <1>5. n \in P
    BY <1>2, <1>4
  <1> QED BY <1>1, <1>5

LEMMA OneMore ==
    ASSUME NEW X, NEW u \in Seq(X), NEW x \in X
    PROVE  u \o <<x>> = [i \in 1..Len(u) + 1 |-> IF i <= Len(u) THEN u[i] ELSE x]
  <1>1. Len(<<x>>) = 1 /\ <<x>> \in Seq(X) /\ <<x>>[1] = x /\ Len(u) \in Nat
    OBVIOUS
  <1>2. u \o <<x>> = [i \in 1..Len(u) + 1 |-> IF i <= Len(u) THEN u[i] ELSE <<x>>[i - Len(u)]]
    BY <1>1
  <1>3. \A i \in 1..Len(u) + 1 : ~(i <= Len(u)) => i - Len(u) = 1
    BY <1>1
  <1> QED BY <1>1, <1>2, <1>3

LEMMA FlattenSingles ==
    ASSUME NEW X, NEW s \in Seq(X)
    PROVE  FlattenSeq([i \in DOMAIN s |-> <<s[i]>>]) = s
  <1> DEFINE n == Len(s)
             T == Seq(X)
             seqs == [i \in DOMAIN s |-> <<s[i]>>]
  <1>1. n \in Nat /\ DOMAIN s = 1..n /\ \A i \in 1..n : s[i] \in X
    OBVIOUS
  <1>2. seqs \in Seq(T) /\ Len(seqs) = n
    BY <1>1
  <1>3. PICK g \in [0..n -> T] : /\ g[0] = <<>>
                                 /\ \A k \in 1..n : g[k] = g[k - 1] \o seqs[k]
                                 /\ FlattenSeq(seqs) = g[n]
    <2>1. seqs \in Seq(Seq(X)) /\ Len(seqs) = n
      BY <1>2
    <2> HIDE DEF seqs, n
    <2>2. \E g : FlattensBy(seqs, Seq(X), n, g)
      BY <2>1, FlattenGrows
    <2> QED BY <2>2 DEF FlattensBy
  <1> DEFINE Upto(k) == [i \in 1..k |-> s[i]]
             P == {k \in 0..n : g[k] = Upto(k)}
  <1>4. 0 \in P /\ P \in SUBSET (0..n)
    <2>1. Upto(0) = <<>>
      OBVIOUS
    <2> QED BY <1>1, <1>3, <2>1
  <1>5. ASSUME NEW k \in 1..n, k - 1 \in P PROVE k \in P
    <2>1. g[k] = Upto(k - 1) \o <<s[k]>> /\ k \in 0..n /\ k \in DOMAIN s
      <3>1. k \in 0..n /\ k \in DOMAIN s /\ seqs[k] = <<s[k]>>
        BY <1>1
      <3>2. g[k - 1] = Upto(k - 1)
        BY <1>5
      <3> HIDE DEF Upto, seqs
      <3> QED BY <1>3, <3>1, <3>2
    <2>2. Upto(k - 1) \in Seq(X) /\ Len(Upto(k - 1)) = k - 1 /\ k - 1 \in Nat
      BY <1>1
    <2>3. Upto(k - 1) \o <<s[k]>> = Upto(k)
      <3> DEFINE a == Upto(k - 1) \o <<s[k]>>
      <3>1. a = [i \in 1..(k - 1) + 1 |-> IF i <= k - 1 THEN Upto(k - 1)[i] ELSE s[k]]
        <4>1. s[k] \in X
          BY <2>1
        <4> HIDE DEF Upto
        <4>2. a = [i \in 1..Len(Upto(k - 1)) + 1 |->
                      IF i <= Len(Upto(k - 1)) THEN Upto(k - 1)[i] ELSE s[k]]
          BY <2>2, <4>1, OneMore
        <4> QED BY <2>2, <4>2
      <3>2. (k - 1) + 1 = k
        OBVIOUS
      <3>3. \A i \in 1..k : (IF i <= k - 1 THEN Upto(k - 1)[i] ELSE s[k]) = s[i]
        <4>1. ASSUME NEW i \in 1..k
              PROVE  (IF i <= k - 1 THEN Upto(k - 1)[i] ELSE s[k]) = s[i]
          <5>1. CASE i <= k - 1
            BY <5>1
          <5>2. CASE ~(i <= k - 1)
            <6>1. i = k
              BY <5>2
            <6> QED BY <5>2, <6>1
          <5> QED BY <5>1, <5>2
        <4> QED BY <4>1
      <3> QED BY <3>1, <3>2, <3>3
    <2> HIDE DEF Upto
    <2> QED BY <2>1, <2>3
  <1>6. P = 0..n
    <2> HIDE DEF P, n
    <2> QED BY <1>1, <1>4, <1>5, PlaceByPlace
  <1>7. n \in P
    BY <1>1, <1>6
  <1>8. Upto(n) = s
    BY <1>1
  <1> QED BY <1>3, <1>7, <1>8

-----------------------------------------------------------------------------
(* The expansion.                                                          *)

\* longer has the elements of terms in front; those behind the first n places
\* are unlike all before them.
Extends(terms, longer, X) ==
    /\ longer \in Seq(X)
    /\ Len(terms) <= Len(longer)
    /\ \A i \in 1..Len(terms) : longer[i] = terms[i]

NewBehind(n, terms) ==
    \A i, j \in 1..Len(terms) : i < j /\ n < j => terms[i] # terms[j]

LEMMA AddFromExtends ==
    ASSUME NEW X, NEW terms \in Seq(X), NEW dictionary,
           \A i \in 1..Len(terms) : terms[i] \in DOMAIN dictionary => dictionary[terms[i]] \in Seq(X)
    PROVE  /\ Extends(terms, AddFrom(terms, dictionary), X)
           /\ NewBehind(Len(terms), AddFrom(terms, dictionary))
  <1> DEFINE n == Len(terms)
             seqs == [i \in DOMAIN terms |->
                        IF terms[i] \in DOMAIN dictionary THEN dictionary[terms[i]] ELSE <<>>]
             offered == FlattenSeq(seqs)
             fresh == {i \in DOMAIN offered : /\ ~Contains(terms, offered[i])
                                              /\ \A j \in 1..i - 1 : offered[j] # offered[i]}
             new == AtPlaces(offered, fresh)
             c == Cardinality(fresh)
             r == terms \o new
  <1>1. n \in Nat /\ DOMAIN terms = 1..n /\ \A i \in 1..n : terms[i] \in X
    OBVIOUS
  <1>2. seqs \in Seq(Seq(X))
    <2>1. \A i \in 1..n : seqs[i] \in Seq(X)
      BY <1>1
    <2> QED BY <1>1, <2>1
  <1>3. offered \in Seq(X)
    <2> HIDE DEF seqs
    <2> QED BY <1>2, FlattenType
  <1>4. AddFrom(terms, dictionary) = r
    BY DEF AddFrom
  <1> HIDE DEF offered
  <1>5. fresh \in SUBSET DOMAIN offered
    OBVIOUS
  <1>6. /\ new \in Seq(X) /\ Len(new) = c /\ c \in Nat
        /\ \A k \in 1..c : new[k] = offered[InOrder(fresh)[k]]
    <2> HIDE DEF fresh
    <2> QED BY <1>3, <1>5, AtPlacesIs
  <1>7. /\ InOrder(fresh) \in [1..c -> fresh]
        /\ \A k, l \in 1..c : k < l => InOrder(fresh)[k] < InOrder(fresh)[l]
    <2>1. Len(offered) \in Nat /\ fresh \in SUBSET (1..Len(offered))
      BY <1>3, <1>5
    <2> HIDE DEF fresh
    <2> QED BY <2>1, InOrderIs
  <1>8. ASSUME NEW k \in 1..c
        PROVE  /\ \A i \in 1..n : terms[i] # new[k]
               /\ \A l \in 1..c : l < k => new[l] # new[k]
    <2> DEFINE p == InOrder(fresh)[k]
    <2>1. p \in fresh /\ new[k] = offered[p]
      BY <1>6, <1>7
    <2>2. /\ ~Contains(terms, offered[p])
          /\ \A j \in 1..p - 1 : offered[j] # offered[p]
          /\ p \in 1..Len(offered)
      <3>1. DOMAIN offered = 1..Len(offered)
        BY <1>3
      <3> HIDE DEF p
      <3> QED BY <2>1, <3>1
    <2>3. ASSUME NEW l \in 1..c, l < k PROVE new[l] # new[k]
      <3> DEFINE q == InOrder(fresh)[l]
      <3>1. q < p /\ q \in fresh /\ new[l] = offered[q]
        BY <1>6, <1>7, <2>3
      <3>2. q \in 1..p - 1
        BY <1>3, <2>2, <3>1
      <3> QED BY <2>1, <2>2, <3>1, <3>2
    <2>4. \A i \in 1..n : terms[i] # new[k]
      BY <1>1, <2>1, <2>2 DEF Contains
    <2> QED BY <2>3, <2>4
  <1> HIDE DEF fresh, new, c, n
  <1>9. /\ r \in Seq(X) /\ Len(r) = n + c
        /\ \A i \in 1..n + c : r[i] = IF i <= n THEN terms[i] ELSE new[i - n]
    <2>1. /\ r \in Seq(X) /\ Len(r) = Len(terms) + Len(new)
          /\ \A i \in 1..Len(terms) + Len(new) : r[i] = IF i <= Len(terms) THEN terms[i] ELSE new[i - Len(terms)]
      BY <1>6
    <2> QED BY <1>6, <2>1 DEF n
  <1> HIDE DEF r
  <1>10. Extends(terms, r, X)
    <2>1. n <= n + c /\ \A i \in 1..n : i \in 1..n + c /\ i <= n
      BY <1>1, <1>6
    <2> QED BY <1>9, <2>1 DEF Extends, n
  <1>11. NewBehind(n, r)
    <2>1. SUFFICES ASSUME NEW i \in 1..n + c, NEW j \in 1..n + c, i < j, n < j PROVE r[i] # r[j]
      BY <1>9 DEF NewBehind
    <2>2. j - n \in 1..c /\ r[j] = new[j - n]
      BY <1>1, <1>6, <1>9, <2>1
    <2>3. CASE i <= n
      <3>1. i \in 1..n /\ r[i] = terms[i]
        BY <1>1, <1>9, <2>3
      <3> QED BY <1>8, <2>2, <3>1
    <2>4. CASE ~(i <= n)
      <3>1. i - n \in 1..c /\ i - n < j - n /\ r[i] = new[i - n]
        BY <1>1, <1>6, <1>9, <2>1, <2>4
      <3> QED BY <1>8, <2>2, <3>1
    <2> QED BY <2>3, <2>4
  <1> QED BY <1>4, <1>10, <1>11 DEF n

\* One addition behind another.
LEMMA ExtendsAgain ==
    ASSUME NEW X, NEW a \in Seq(X), NEW b, NEW c,
           Extends(a, b, X), NewBehind(Len(a), b), Extends(b, c, X), NewBehind(Len(b), c)
    PROVE  Extends(a, c, X) /\ NewBehind(Len(a), c)
  <1>1. /\ Len(a) \in Nat /\ Len(b) \in Nat /\ Len(c) \in Nat
        /\ Len(a) <= Len(b) /\ Len(b) <= Len(c)
    BY DEF Extends
  <1>2. Extends(a, c, X)
    <2>1. \A i \in 1..Len(a) : i \in 1..Len(b)
      BY <1>1
    <2> QED BY <1>1, <2>1 DEF Extends
  <1>3. NewBehind(Len(a), c)
    <2>1. SUFFICES ASSUME NEW i \in 1..Len(c), NEW j \in 1..Len(c), i < j, Len(a) < j
                   PROVE  c[i] # c[j]
      BY DEF NewBehind
    <2>2. CASE Len(b) < j
      BY <2>1, <2>2 DEF NewBehind
    <2>3. CASE ~(Len(b) < j)
      <3>1. i \in 1..Len(b) /\ j \in 1..Len(b)
        BY <1>1, <2>1, <2>3
      <3>2. c[i] = b[i] /\ c[j] = b[j]
        BY <3>1 DEF Extends
      <3>3. b[i] # b[j]
        BY <2>1, <3>1 DEF NewBehind
      <3> QED BY <3>2, <3>3
    <2> QED BY <2>2, <2>3
  <1> QED BY <1>2, <1>3

Words == Seq(STRING)

\* What the abbreviations have for a term.
ShortAndLong(t) ==
    (IF t \in DOMAIN Abbreviations THEN <<Abbreviations[t]>> ELSE <<>>)
        \o SetToSeq({a \in DOMAIN Abbreviations : Abbreviations[a] = t})

LEMMA SetToSeqIs ==
    ASSUME NEW S, IsFiniteSet(S)
    PROVE  /\ SetToSeq(S) \in Seq(S) /\ Len(SetToSeq(S)) = Cardinality(S)
           /\ S = {} => SetToSeq(S) = <<>>
  <1> DEFINE n == Cardinality(S)
  <1>1. n \in Nat /\ \E f \in Bijection(1..n, S) : TRUE
    BY FS_CardinalityType DEF ExistsBijection
  <1>2. \E f \in [1..n -> S] : IsInjective(f)
    BY <1>1 DEF Bijection, Injection
  <1>3. SetToSeq(S) \in [1..n -> S]
    BY <1>2 DEF SetToSeq
  <1>4. SetToSeq(S) \in Seq(S) /\ Len(SetToSeq(S)) = n
    BY <1>1, <1>3
  <1>5. S = {} => n = 0
    BY FS_EmptySet
  <1> QED BY <1>4, <1>5

LEMMA ShortAndLongIs ==
    ASSUME NEW t
    PROVE  /\ ShortAndLong(t) \in Seq(Words)
           /\ t \notin Headwords => ShortAndLong(t) = <<>>
  <1> DEFINE S == {a \in DOMAIN Abbreviations : Abbreviations[a] = t}
             one == IF t \in DOMAIN Abbreviations THEN <<Abbreviations[t]>> ELSE <<>>
  <1>1. /\ DOMAIN Abbreviations \subseteq Words
        /\ \A a \in DOMAIN Abbreviations : Abbreviations[a] \in Words
        /\ IsFiniteSet(DOMAIN Abbreviations)
    BY DictionaryAssumption DEF Headwords, Words
  <1>2. IsFiniteSet(S) /\ S \subseteq Words
    BY <1>1, FS_Subset
  <1>3. SetToSeq(S) \in Seq(S) /\ (S = {} => SetToSeq(S) = <<>>)
    <2> HIDE DEF S
    <2> QED BY <1>2, SetToSeqIs
  <1>4. one \in Seq(Words)
    <2>1. CASE t \in DOMAIN Abbreviations
      <3>1. Abbreviations[t] \in Words
        BY <1>1, <2>1
      <3> QED BY <2>1, <3>1
    <2>2. CASE t \notin DOMAIN Abbreviations
      BY <2>2
    <2> QED BY <2>1, <2>2
  <1>5. ShortAndLong(t) = one \o SetToSeq(S)
    BY DEF ShortAndLong
  <1>6. SetToSeq(S) \in Seq(Words)
    <2> HIDE DEF S
    <2> QED BY <1>2, <1>3
  <1>7. ASSUME t \notin Headwords PROVE one = <<>> /\ S = {}
    <2>1. t \notin DOMAIN Abbreviations
      BY <1>7 DEF Headwords
    <2>2. \A a \in DOMAIN Abbreviations : Abbreviations[a] \in Headwords
      BY DEF Headwords
    <2> QED BY <1>7, <2>1, <2>2
  <1> HIDE DEF one, S
  <1>8. one \o SetToSeq(S) \in Seq(Words)
    BY <1>4, <1>6
  <1>9. t \notin Headwords => one \o SetToSeq(S) = <<>>
    BY <1>3, <1>7
  <1> QED BY <1>5, <1>8, <1>9

\* The dictionary ExpandAbbreviations looks terms up in.
AbbreviationsOf(terms) == [t \in ToSet(terms) |-> ShortAndLong(t)]

LEMMA AbbreviationsAdded ==
    ASSUME NEW terms
    PROVE  ExpandAbbreviations(terms) = AddFrom(terms, AbbreviationsOf(terms))
  BY DEF ExpandAbbreviations, AbbreviationsOf, ShortAndLong

\* All that the dictionaries add together.
Everything(terms) ==
    AddFrom(ExpandAbbreviations(AddFrom(AddFrom(terms, Synonyms), Related)), Categories)

LEMMA EverythingExtends ==
    ASSUME NEW terms \in Seq(Words)
    PROVE  /\ Extends(terms, Everything(terms), Words)
           /\ NewBehind(Len(terms), Everything(terms))
  <1> DEFINE a == AddFrom(terms, Synonyms)
             b == AddFrom(a, Related)
             c == ExpandAbbreviations(b)
             d == AddFrom(c, Categories)
  <1>1. ASSUME NEW dictionary \in {Synonyms, Related, Categories}, NEW k \in DOMAIN dictionary
        PROVE  dictionary[k] \in Seq(Words)
    BY DictionaryAssumption DEF Words
  <1>2. Extends(terms, a, Words) /\ NewBehind(Len(terms), a)
    <2>1. \A i \in 1..Len(terms) : terms[i] \in DOMAIN Synonyms => Synonyms[terms[i]] \in Seq(Words)
      BY <1>1
    <2> QED BY <2>1, AddFromExtends
  <1>3. Extends(terms, b, Words) /\ NewBehind(Len(terms), b)
    <2>1. \A i \in 1..Len(a) : a[i] \in DOMAIN Related => Related[a[i]] \in Seq(Words)
      BY <1>1
    <2> HIDE DEF a
    <2>2. a \in Seq(Words)
      BY <1>2 DEF Extends
    <2>3. Extends(a, b, Words) /\ NewBehind(Len(a), b)
      BY <2>1, <2>2, AddFromExtends
    <2> HIDE DEF b
    <2> QED BY <1>2, <2>3, ExtendsAgain
  <1>4. Extends(terms, c, Words) /\ NewBehind(Len(terms), c)
    <2> HIDE DEF b
    <2>1. \A i \in 1..Len(b) : b[i] \in DOMAIN AbbreviationsOf(b) => AbbreviationsOf(b)[b[i]] \in Seq(Words)
      BY ShortAndLongIs DEF AbbreviationsOf
    <2>2. b \in Seq(Words)
      BY <1>3 DEF Extends
    <2>3. c = AddFrom(b, AbbreviationsOf(b))
      BY AbbreviationsAdded
    <2>4. Extends(b, c, Words) /\ NewBehind(Len(b), c)
      BY <2>1, <2>2, <2>3, AddFromExtends
    <2> HIDE DEF c
    <2> QED BY <1>3, <2>4, ExtendsAgain
  <1>5. Extends(terms, d, Words) /\ NewBehind(Len(terms), d)
    <2> HIDE DEF c
    <2>1. \A i \in 1..Len(c) : c[i] \in DOMAIN Categories => Categories[c[i]] \in Seq(Words)
      BY <1>1
    <2>2. c \in Seq(Words)
      BY <1>4 DEF Extends
    <2>3. Extends(c, d, Words) /\ NewBehind(Len(c), d)
      BY <2>1, <2>2, AddFromExtends
    <2> HIDE DEF d
    <2> QED BY <1>4, <2>3, ExtendsAgain
  <1> QED BY <1>5 DEF Everything

\* What ExpansionBounded says of a list of terms.
Bounded(terms, expanded) ==
    LET added == SubSeq(expanded, Len(terms) + 1, Len(expanded))
    IN  /\ IsPrefix(terms, expanded)
        /\ Len(expanded) <= Limit(terms)
        /\ IsInjective(added) /\ ToSet(added) \cap ToSet(terms) = {}

\* FilterExpansion, of lists of which the second has the first in front.
LEMMA FilterKeepsFront ==
    ASSUME NEW a \in Seq(Words), a # <<>>, NEW b, Extends(a, b, Words), NewBehind(Len(a), b)
    PROVE  Bounded(a, FilterExpansion(a, b))
  <1> DEFINE n == Len(a)
             F == {i \in DOMAIN b : ~Contains(a, b[i])}
             all == AtPlaces(b, F)
             c == Cardinality(F)
             room == Limit(a) - n
             kept == IF Len(all) <= room THEN all ELSE SubSeq(all, 1, room)
             m == Len(kept)
             r == a \o kept
             added == SubSeq(r, n + 1, Len(r))
  <1>1. n \in Nat /\ DOMAIN a = 1..n /\ b \in Seq(Words) /\ Len(b) \in Nat /\ DOMAIN b = 1..Len(b)
    BY DEF Extends
  <1>2. Limit(a) \in Nat /\ room \in Nat /\ n + room = Limit(a)
    <2> HIDE DEF n
    <2> QED BY <1>1 DEF Limit, n
  <1>3. /\ all \in Seq(Words) /\ Len(all) = c /\ c \in Nat
        /\ \A k \in 1..c : all[k] = b[InOrder(F)[k]]
    <2>1. F \in SUBSET DOMAIN b
      OBVIOUS
    <2> HIDE DEF F
    <2> QED BY <1>1, <2>1, AtPlacesIs
  <1>4. /\ InOrder(F) \in [1..c -> F]
        /\ \A k, l \in 1..c : k < l => InOrder(F)[k] < InOrder(F)[l]
    <2>1. F \in SUBSET (1..Len(b))
      BY <1>1
    <2> HIDE DEF F
    <2> QED BY <1>1, <2>1, InOrderIs
  <1>5. ASSUME NEW k \in 1..c
        PROVE  /\ \A i \in 1..n : a[i] # all[k]
               /\ \A l \in 1..c : l < k => all[l] # all[k]
    <2> DEFINE p == InOrder(F)[k]
    <2>1. p \in F /\ all[k] = b[p]
      BY <1>3, <1>4
    <2>2. p \in 1..Len(b) /\ ~Contains(a, b[p])
      <3> HIDE DEF p
      <3> QED BY <1>1, <2>1
    <2>3. \A i \in 1..n : a[i] # b[p]
      BY <2>2 DEF Contains
    <2>4. n < p
      <3>1. SUFFICES ASSUME p <= n PROVE FALSE
        BY <1>1, <2>2
      <3>2. p \in 1..n
        BY <1>1, <2>2, <3>1
      <3>3. b[p] = a[p]
        BY <3>2 DEF Extends
      <3> QED BY <2>3, <3>2, <3>3
    <2>5. ASSUME NEW l \in 1..c, l < k PROVE all[l] # all[k]
      <3> DEFINE q == InOrder(F)[l]
      <3>1. q \in F /\ q < p /\ all[l] = b[q]
        BY <1>3, <1>4, <2>5
      <3>2. q \in 1..Len(b)
        <4> HIDE DEF q
        <4> QED BY <1>1, <3>1
      <3>3. b[q] # b[p]
        BY <2>2, <2>4, <3>1, <3>2 DEF NewBehind
      <3> QED BY <2>1, <3>1, <3>3
    <2> QED BY <2>1, <2>3, <2>5
  <1> HIDE DEF F, all, c, room, n
  <1>6. kept \in Seq(Words) /\ m \in Nat /\ m <= room /\ m <= c /\ \A k \in 1..m : kept[k] = all[k]
    <2>1. CASE Len(all) <= room
      BY <1>2, <1>3, <2>1
    <2>2. CASE ~(Len(all) <= room)
      <3>1. room < c /\ kept = SubSeq(all, 1, room)
        BY <1>2, <1>3, <2>2
      <3>2. kept \in Seq(Words) /\ Len(kept) = room /\ \A k \in 1..room : kept[k] = all[k]
        <4> HIDE DEF kept
        <4> QED BY <1>2, <1>3, <3>1
      <3> QED BY <1>2, <1>3, <3>1, <3>2
    <2> QED BY <2>1, <2>2
  <1> HIDE DEF kept, m
  <1>7. FilterExpansion(a, b) = r
    BY DEF FilterExpansion, F, all, room, n, kept
  <1>8. /\ r \in Seq(Words) /\ Len(r) = n + m
        /\ \A i \in 1..n : r[i] = a[i]
        /\ \A k \in 1..m : r[n + k] = kept[k]
    <2>1. /\ r \in Seq(Words) /\ Len(r) = Len(a) + Len(kept)
          /\ \A i \in 1..Len(a) + Len(kept) : r[i] = IF i <= Len(a) THEN a[i] ELSE kept[i - Len(a)]
      BY <1>6
    <2>2. /\ r \in Seq(Words) /\ Len(r) = n + m
          /\ \A i \in 1..n + m : r[i] = IF i <= n THEN a[i] ELSE kept[i - n]
      BY <2>1 DEF n, m
    <2>3. \A i \in 1..n : i \in 1..n + m /\ i <= n
      BY <1>1, <1>6
    <2>4. \A k \in 1..m : n + k \in 1..n + m /\ ~(n + k <= n) /\ (n + k) - n = k
      BY <1>1, <1>6
    <2> HIDE DEF r
    <2> QED BY <2>2, <2>3, <2>4
  <1> HIDE DEF r
  <1>9. DOMAIN added = 1..m /\ \A k \in 1..m : added[k] = all[k]
    <2>1. added = [k \in 1..m |-> r[n + k]]
      <3>1. added = [k \in 1..(n + m) - (n + 1) + 1 |-> r[(n + 1) + k - 1]]
        BY <1>1, <1>6, <1>8
      <3>2. (n + m) - (n + 1) + 1 = m /\ \A k \in 1..m : (n + 1) + k - 1 = n + k
        BY <1>1, <1>6
      <3> HIDE DEF added
      <3> QED BY <3>1, <3>2
    <2> HIDE DEF added
    <2> QED BY <1>6, <1>8, <2>1
  <1>10. IsPrefix(a, r)
    <2>1. Len(a) <= Len(r)
      BY <1>1, <1>6, <1>8 DEF n
    <2>2. SubSeq(a, 1, n) = [i \in 1..n |-> a[i]] /\ SubSeq(r, 1, n) = [i \in 1..n |-> r[i]]
      BY <1>1, <1>6, <1>8
    <2> QED BY <1>8, <2>1, <2>2 DEF IsPrefix, n
  <1>11. Len(r) <= Limit(a)
    BY <1>1, <1>2, <1>6, <1>8
  <1> HIDE DEF added
  <1>12. \A k \in 1..m : k \in 1..c
    BY <1>3, <1>6
  <1>13. IsInjective(added)
    <2>1. SUFFICES ASSUME NEW k \in 1..m, NEW l \in 1..m, added[k] = added[l] PROVE k = l
      BY <1>9 DEF IsInjective
    <2>2. ~(k < l) /\ ~(l < k)
      BY <1>5, <1>9, <1>12, <2>1
    <2> QED BY <1>6, <2>2
  <1>14. ToSet(added) \cap ToSet(a) = {}
    BY <1>1, <1>5, <1>9, <1>12 DEF ToSet
  <1> QED BY <1>7, <1>10, <1>11, <1>13, <1>14 DEF added, n, Bounded

\* Whatever the dictionaries have: the terms of the query stay in front and in
\* order, and new ones follow, each once, up to the limit of filterExpansion.
THEOREM ExpansionStaysBounded == ExpansionBounded
  <1>1. SUFFICES ASSUME NEW terms \in Seq(Words)
                 PROVE  Bounded(terms, Expand(terms))
    BY TextsAssumption DEF ExpansionBounded, Bounded, Words
  <1>2. CASE terms = <<>>
    <2>1. Expand(terms) = <<>>
      BY <1>2 DEF Expand
    <2>2. Len(<<>>) = 0 /\ SubSeq(<<>>, 0 + 1, 0) = <<>> /\ ToSet(<<>>) = {} /\ IsInjective(<<>>)
      BY DEF ToSet, IsInjective
    <2>3. IsPrefix(<<>>, <<>>) /\ 0 <= Limit(<<>>)
      BY DEF IsPrefix, Limit
    <2>4. Bounded(<<>>, <<>>)
      BY <2>2, <2>3 DEF Bounded
    <2> QED BY <1>2, <2>1, <2>4
  <1>3. CASE terms # <<>>
    <2>1. Expand(terms) = FilterExpansion(terms, Everything(terms))
      BY <1>3 DEF Expand, Everything
    <2> QED BY <1>3, <2>1, EverythingExtends, FilterKeepsFront
  <1> QED BY <1>2, <1>3

LEMMA AddFromAddsNothing ==
    ASSUME NEW X, NEW terms \in Seq(X), NEW dictionary,
           \A i \in 1..Len(terms) : terms[i] \in DOMAIN dictionary => dictionary[terms[i]] = <<>>
    PROVE  AddFrom(terms, dictionary) = terms
  <1> DEFINE seqs == [i \in DOMAIN terms |->
                        IF terms[i] \in DOMAIN dictionary THEN dictionary[terms[i]] ELSE <<>>]
  <1>1. Len(terms) \in Nat /\ DOMAIN terms = 1..Len(terms)
    OBVIOUS
  <1>2. seqs = [i \in 1..Len(terms) |-> <<>>]
    BY <1>1
  <1>3. seqs \in Seq(Seq(X)) /\ Len(seqs) = Len(terms) /\ \A i \in 1..Len(seqs) : seqs[i] = <<>>
    <2> DEFINE n == Len(terms)
               T == Seq(X)
    <2>1. <<>> \in T /\ n \in Nat
      BY <1>1
    <2> HIDE DEF T, n
    <2>2. [i \in 1..n |-> <<>>] \in Seq(T) /\ Len([i \in 1..n |-> <<>>]) = n
      BY <2>1
    <2>3. \A i \in 1..n : [j \in 1..n |-> <<>>][i] = <<>>
      OBVIOUS
    <2> QED BY <1>2, <2>2, <2>3 DEF T, n
  <1>4. FlattenSeq(seqs) = <<>>
    <2> HIDE DEF seqs
    <2> QED BY <1>3, FlattenNothing
  <1> DEFINE offered == FlattenSeq(seqs)
             fresh == {i \in DOMAIN offered : /\ ~Contains(terms, offered[i])
                                              /\ \A j \in 1..i - 1 : offered[j] # offered[i]}
  <1>5. AddFrom(terms, dictionary) = terms \o AtPlaces(offered, fresh)
    BY DEF AddFrom
  <1>6. DOMAIN offered = {}
    <2> HIDE DEF seqs
    <2> QED BY <1>4
  <1>7. fresh = {}
    <2> HIDE DEF offered
    <2> QED BY <1>6
  <1> HIDE DEF fresh, offered
  <1>8. AddFrom(terms, dictionary) = terms \o <<>>
    BY <1>5, <1>7, AtNoPlace
  <1> QED BY <1>8

\* A list without a headword of the dictionaries is not expanded.
LEMMA ExpandAddsNothing ==
    ASSUME NEW X, NEW terms \in Seq(X), \A i \in 1..Len(terms) : terms[i] \notin Headwords
    PROVE  Expand(terms) = terms
  <1>1. CASE terms = <<>>
    BY <1>1 DEF Expand
  <1>2. CASE terms # <<>>
    <2>1. \A dictionary \in {Synonyms, Related, Categories} : AddFrom(terms, dictionary) = terms
      <3>1. ASSUME NEW dictionary \in {Synonyms, Related, Categories}
            PROVE  AddFrom(terms, dictionary) = terms
        <4>1. \A i \in 1..Len(terms) : terms[i] \in DOMAIN dictionary => dictionary[terms[i]] = <<>>
          BY DEF Headwords
        <4> QED BY <4>1, AddFromAddsNothing
      <3> QED BY <3>1
    <2>2. ExpandAbbreviations(terms) = terms
      <3>1. \A i \in 1..Len(terms) :
                terms[i] \in DOMAIN AbbreviationsOf(terms) => AbbreviationsOf(terms)[terms[i]] = <<>>
        BY ShortAndLongIs DEF AbbreviationsOf
      <3>2. AddFrom(terms, AbbreviationsOf(terms)) = terms
        BY <3>1, AddFromAddsNothing
      <3> QED BY <3>2, AbbreviationsAdded
    <2>3. Expand(terms) = FilterExpansion(terms, terms)
      <3>1. Expand(terms) = FilterExpansion(terms, AddFrom(ExpandAbbreviations(
                 AddFrom(AddFrom(terms, Synonyms), Related)), Categories))
        BY <1>2 DEF Expand
      <3>2. AddFrom(terms, Synonyms) = terms /\ AddFrom(terms, Related) = terms
            /\ AddFrom(terms, Categories) = terms
        BY <2>1
      <3> QED BY <2>2, <3>1, <3>2
    <2>4. {i \in DOMAIN terms : ~Contains(terms, terms[i])} = {}
      BY DEF Contains
    <2>5. Len(<<>>) = 0 /\ 0 <= Limit(terms) - Len(terms)
      BY DEF Limit
    <2>6. FilterExpansion(terms, terms) = terms \o <<>>
      BY <2>4, <2>5, AtNoPlace DEF FilterExpansion
    <2> QED BY <2>3, <2>6
  <1> QED BY <1>1, <1>2

-----------------------------------------------------------------------------
(* The tokenisers.                                                         *)

Chars == STRING \cup Letters \cup Digits \cup Wide \cup {Space}
Small == Chars \ DOMAIN LowerOf

LEMMA LowerIs ==
    ASSUME NEW c \in Chars
    PROVE  /\ Lower(c) \in Small /\ Lower(Lower(c)) = Lower(c)
           /\ c \in Letters <=> Lower(c) \in Letters
           /\ c \notin Letters => Lower(c) = c
           /\ c \in Small => Lower(c) = c
           /\ c \in Alnum <=> Lower(c) \in Alnum
  BY AlphabetAssumption DEF Lower, Small, Chars, Alnum

LEMMA RunIs ==
    ASSUME NEW X, NEW text \in Seq(X), NEW words, NEW i \in DOMAIN text
    PROVE  /\ Run(text, i, words) \in SUBSET DOMAIN text /\ i \in Run(text, i, words)
           /\ text[i] \notin words => Run(text, i, words) = {i}
           /\ text[i] \in words => \A j \in Run(text, i, words) : text[j] \in words
  <1>1. Len(text) \in Nat /\ DOMAIN text = 1..Len(text) /\ i \in 1..Len(text)
    OBVIOUS
  <1>2. \A j \in i..Len(text) : j \in DOMAIN text /\ i \in i..j /\ j \in i..j
    BY <1>1
  <1> QED BY <1>1, <1>2 DEF Run

PieceAt(text, i, words) == AtPlaces(text, Run(text, i, words))

LEMMA PiecesIs ==
    ASSUME NEW X, NEW text \in Seq(X), NEW words, NEW singles
    PROVE  /\ Pieces(text, words, singles) \in Seq(Seq(X))
           /\ ToSet(Pieces(text, words, singles))
                 = {PieceAt(text, i, words) : i \in Starts(text, words, singles)}
  <1> DEFINE S == Starts(text, words, singles)
             p == Pieces(text, words, singles)
             c == Cardinality(S)
  <1>1. Len(text) \in Nat /\ DOMAIN text = 1..Len(text) /\ S \in SUBSET (1..Len(text))
    BY DEF Starts
  <1> HIDE DEF S
  <1>2. /\ c \in Nat /\ InOrder(S) \in [1..c -> S]
        /\ \A i \in S : NumberIn(S, i) \in 1..c /\ InOrder(S)[NumberIn(S, i)] = i
    BY <1>1, InOrderIs
  <1> HIDE DEF c
  <1>3. p = [n \in 1..c |-> PieceAt(text, InOrder(S)[n], words)]
    BY <1>2 DEF Pieces, PieceAt, S
  <1>4. \A i \in S : PieceAt(text, i, words) \in Seq(X)
    <2>1. ASSUME NEW i \in S PROVE PieceAt(text, i, words) \in Seq(X)
      <3>1. Run(text, i, words) \in SUBSET DOMAIN text
        BY <1>1, RunIs
      <3> QED BY <3>1, AtPlacesIs DEF PieceAt
    <2> QED BY <2>1
  <1> HIDE DEF p
  <1>5. p \in Seq(Seq(X))
    BY <1>2, <1>3, <1>4
  <1>6. ToSet(p) = {PieceAt(text, i, words) : i \in S}
    <2>1. DOMAIN p = 1..c /\ \A n \in 1..c : p[n] = PieceAt(text, InOrder(S)[n], words) /\ InOrder(S)[n] \in S
      BY <1>2, <1>3
    <2>2. \A n \in DOMAIN p : p[n] \in {PieceAt(text, i, words) : i \in S}
      BY <2>1
    <2>3. \A i \in S : NumberIn(S, i) \in DOMAIN p /\ p[NumberIn(S, i)] = PieceAt(text, i, words)
      BY <1>2, <2>1
    <2> QED BY <2>2, <2>3 DEF ToSet
  <1> QED BY <1>5, <1>6 DEF p, S

\* No term of a text in small letters has an entry in the dictionaries.
LEMMA TokensAreNoHeadwords ==
    ASSUME NEW text \in Seq(Small)
    PROVE  /\ Tokenize(text) \in Seq(Seq(Small))
           /\ \A i \in 1..Len(Tokenize(text)) : Tokenize(text)[i] \notin Headwords
  <1> DEFINE W == Alnum \cup {"'"}
  <1>1. Tokenize(text) \in Seq(Seq(Small))
        /\ ToSet(Tokenize(text)) = {PieceAt(text, i, W) : i \in Starts(text, W, Wide)}
    <2>1. Tokenize(text) = Pieces(text, W, Wide)
      BY DEF Tokenize
    <2> HIDE DEF W
    <2> QED BY <2>1, PiecesIs
  <1>2. ASSUME NEW i \in Starts(text, W, Wide), PieceAt(text, i, W) \in Headwords PROVE FALSE
    <2> DEFINE R == Run(text, i, W)
               k == PieceAt(text, i, W)
    <2>1. i \in DOMAIN text
      BY DEF Starts
    <2>2. /\ R \in SUBSET DOMAIN text /\ i \in R
          /\ text[i] \notin W => R = {i}
          /\ text[i] \in W => \A j \in R : text[j] \in W
      <3> HIDE DEF W
      <3> QED BY <2>1, RunIs
    <2> HIDE DEF R, W
    <2>3. /\ k \in Seq(Small) /\ Len(k) = Cardinality(R) /\ Cardinality(R) \in Nat
          /\ DOMAIN k = 1..Cardinality(R)
          /\ \A j \in 1..Cardinality(R) : k[j] = text[InOrder(R)[j]]
      BY <2>2, AtPlacesIs DEF PieceAt, R
    <2>4. InOrder(R) \in [1..Cardinality(R) -> R]
      <3>1. Len(text) \in Nat /\ DOMAIN text = 1..Len(text)
        OBVIOUS
      <3> QED BY <2>2, <3>1, InOrderIs
    <2>5. PICK j \in DOMAIN k : k[j] \in DOMAIN LowerOf \/ (k[j] \in Wide /\ Len(k) > 1)
      BY <1>2, DictionaryAssumption
    <2>6. k[j] \in Small
      BY <2>3, <2>5
    <2>7. k[j] \in Wide /\ Len(k) > 1
      BY <2>5, <2>6 DEF Small
    <2>8. text[i] \in W => k[j] \in W
      BY <2>2, <2>3, <2>4, <2>5
    <2>9. W \cap Wide = {}
      BY AlphabetAssumption DEF W, Alnum
    <2>10. R = {i}
      BY <2>2, <2>7, <2>8, <2>9
    <2>11. Cardinality(R) = 1
      BY <2>10, FS_Singleton
    <2> QED BY <2>3, <2>7, <2>11
  <1>3. \A i \in 1..Len(Tokenize(text)) : Tokenize(text)[i] \in ToSet(Tokenize(text))
    BY <1>1 DEF ToSet
  <1> HIDE DEF W
  <1> QED BY <1>1, <1>2, <1>3

LEMMA ToLowerIs ==
    ASSUME NEW text \in Seq(Chars)
    PROVE  /\ ToLower(text) \in Seq(Small) /\ Len(ToLower(text)) = Len(text)
           /\ DOMAIN ToLower(text) = DOMAIN text
           /\ \A i \in DOMAIN text : ToLower(text)[i] = Lower(text[i])
  <1>1. Len(text) \in Nat /\ DOMAIN text = 1..Len(text) /\ \A i \in 1..Len(text) : text[i] \in Chars
    OBVIOUS
  <1>2. ToLower(text) = [i \in 1..Len(text) |-> Lower(text[i])]
    BY <1>1 DEF ToLower
  <1>3. \A i \in 1..Len(text) : Lower(text[i]) \in Small
    BY <1>1, LowerIs
  <1>4. ToLower(text) \in Seq(Small)
    BY <1>1, <1>2, <1>3
  <1> QED BY <1>1, <1>2, <1>4

\* The steps behind ToLower keep some of the places.
LEMMA StepsKeepPlaces ==
    ASSUME NEW text \in Seq(Small)
    PROVE  /\ CollapseSpaces(text) \in Seq(Small) /\ RemoveNoise(text) \in Seq(Small)
           /\ SpellCorrection(text) \in Seq(Small) /\ RemoveStopWords(text) \in Seq(Small)
  <1>1. ASSUME NEW P \in SUBSET DOMAIN text PROVE AtPlaces(text, P) \in Seq(Small)
    BY AtPlacesIs
  <1>2. CollapseSpaces(text) \in Seq(Small)
    BY <1>1 DEF CollapseSpaces
  <1>3. RemoveNoise(text) \in Seq(Small)
    BY <1>1 DEF RemoveNoise
  <1>4. SpellCorrection(text) \in Seq(Small)
    BY <1>1 DEF SpellCorrection
  <1>5. RemoveStopWords(text) \in Seq(Small)
    BY <1>1 DEF RemoveStopWords
  <1> QED BY <1>2, <1>3, <1>4, <1>5

LEMMA NormalizeType ==
    ASSUME NEW text \in Seq(STRING)
    PROVE  Normalize(text) \in Seq(Small)
  <1> DEFINE a == FullWidthToHalfWidth(text)
             b == NormalizeAlnum(a)
             Joint(i) == i > 1 /\ \/ a[i-1] \in Letters /\ a[i] \in Digits
                                  \/ a[i-1] \in Digits /\ a[i] \in Letters
             seqs == [i \in DOMAIN a |-> IF Joint(i) THEN <<Space, a[i]>> ELSE <<a[i]>>]
  <1>1. a \in Seq(Chars)
    <2>1. Len(text) \in Nat /\ DOMAIN text = 1..Len(text) /\ \A i \in 1..Len(text) : text[i] \in STRING
      OBVIOUS
    <2>2. a = [i \in 1..Len(text) |-> IF text[i] \in DOMAIN HalfOf THEN HalfOf[text[i]] ELSE text[i]]
      BY <2>1 DEF FullWidthToHalfWidth
    <2>3. \A i \in 1..Len(text) : (IF text[i] \in DOMAIN HalfOf THEN HalfOf[text[i]] ELSE text[i]) \in Chars
      BY <2>1, AlphabetAssumption DEF Chars
    <2> HIDE DEF a
    <2> QED BY <2>1, <2>2, <2>3
  <1> HIDE DEF a
  <1>2. b \in Seq(Chars)
    <2>1. Len(a) \in Nat /\ DOMAIN a = 1..Len(a) /\ \A i \in 1..Len(a) : a[i] \in Chars
      BY <1>1
    <2>2. Space \in Chars
      BY DEF Chars
    <2> DEFINE T == Seq(Chars)
               n == Len(a)
    <2>3. \A i \in 1..n : <<Space, a[i]>> \in T /\ <<a[i]>> \in T
      <3>1. \A c \in Chars : <<Space, c>> \in T /\ <<c>> \in T
        BY <2>2
      <3> HIDE DEF T
      <3> QED BY <2>1, <3>1
    <2>4. seqs \in Seq(T)
      <3> HIDE DEF Joint, T
      <3>1. \A i \in 1..n : seqs[i] \in T
        BY <2>1, <2>3
      <3> HIDE DEF n
      <3>2. seqs = [i \in 1..n |-> seqs[i]]
        BY <2>1 DEF n
      <3> HIDE DEF seqs
      <3>3. n \in Nat
        BY <2>1 DEF n
      <3> QED BY <3>1, <3>2, <3>3
    <2>5. FlattenSeq(seqs) \in Seq(Chars)
      <3> HIDE DEF seqs
      <3> QED BY <2>4, FlattenType
    <2> QED BY <2>5 DEF NormalizeAlnum
  <1> HIDE DEF b
  <1>3. ToLower(b) \in Seq(Small)
    BY <1>2, ToLowerIs
  <1>4. RemoveStopWords(SpellCorrection(RemoveNoise(CollapseSpaces(ToLower(b))))) \in Seq(Small)
    BY <1>3, StepsKeepPlaces
  <1> QED BY <1>4 DEF Normalize, a, b

\* No query is expanded.
LEMMA NothingExpanded ==
    ASSUME NEW text \in Texts
    PROVE  Parse(text) = Tokenize(Normalize(text))
  <1>1. Normalize(text) \in Seq(Small)
    BY TextsAssumption, NormalizeType
  <1> QED BY <1>1, TokensAreNoHeadwords, ExpandAddsNothing DEF Parse

\* The places of P keep the runs of characters of words whole and apart.
KeepsRuns(s, P, words) ==
    /\ \A i \in DOMAIN s : i + 1 \in DOMAIN s /\ s[i] \in words /\ s[i + 1] \in words
                             => (i \in P <=> i + 1 \in P)
    /\ \A i, j \in P : i < j /\ s[i] \in words /\ s[j] \in words /\ (\A p \in P : ~(i < p /\ p < j))
                             => j = i + 1

LEMMA Neighbours ==
    ASSUME NEW n \in Nat, NEW P \in SUBSET (1..n), NEW k \in 1..Cardinality(P), k # 1
    PROVE  /\ k - 1 \in 1..Cardinality(P)
           /\ InOrder(P)[k - 1] < InOrder(P)[k]
           /\ \A p \in P : ~(InOrder(P)[k - 1] < p /\ p < InOrder(P)[k])
  <1> DEFINE c == Cardinality(P)
  <1>1. /\ c \in Nat /\ InOrder(P) \in [1..c -> P]
        /\ \A i \in P : NumberIn(P, i) \in 1..c /\ InOrder(P)[NumberIn(P, i)] = i
        /\ \A a, b \in 1..c : a < b => InOrder(P)[a] < InOrder(P)[b]
    BY InOrderIs
  <1> HIDE DEF c
  <1>2. k - 1 \in 1..c /\ k \in 1..c /\ k - 1 < k
    BY <1>1 DEF c
  <1>3. ASSUME NEW p \in P, InOrder(P)[k - 1] < p, p < InOrder(P)[k] PROVE FALSE
    <2> DEFINE a == NumberIn(P, p)
    <2>1. a \in 1..c /\ InOrder(P)[a] = p
      BY <1>1
    <2>2. InOrder(P)[k - 1] \in Nat /\ InOrder(P)[k] \in Nat /\ p \in Nat
      <3>1. P \subseteq Nat
        OBVIOUS
      <3> QED BY <1>1, <1>2, <3>1
    <2> HIDE DEF a
    <2>3. a < k - 1 \/ a = k - 1 \/ a = k \/ k < a
      BY <1>1, <1>2, <2>1
    <2>4. CASE a < k - 1
      <3>1. p < InOrder(P)[k - 1]
        BY <1>1, <1>2, <2>1, <2>4
      <3> QED BY <1>3, <2>2, <3>1
    <2>5. CASE k < a
      <3>1. InOrder(P)[k] < p
        BY <1>1, <1>2, <2>1, <2>5
      <3> QED BY <1>3, <2>2, <3>1
    <2> QED BY <1>3, <2>1, <2>2, <2>3, <2>4, <2>5
  <1>4. InOrder(P)[k - 1] < InOrder(P)[k]
    BY <1>1, <1>2
  <1> QED BY <1>2, <1>3, <1>4 DEF c

LEMMA StartsKept ==
    ASSUME NEW X, NEW s \in Seq(X), NEW P \in SUBSET DOMAIN s, NEW words, NEW singles,
           KeepsRuns(s, P, words), NEW k \in 1..Cardinality(P)
    PROVE  k \in Starts(AtPlaces(s, P), words, singles) <=> InOrder(P)[k] \in Starts(s, words, singles)
  <1> DEFINE n == Len(s)
             c == Cardinality(P)
             v == AtPlaces(s, P)
             o == InOrder(P)
             i == o[k]
  <1>1. n \in Nat /\ DOMAIN s = 1..n /\ P \in SUBSET (1..n)
    OBVIOUS
  <1>2. /\ c \in Nat /\ o \in [1..c -> P]
        /\ \A j \in P : NumberIn(P, j) \in 1..c /\ o[NumberIn(P, j)] = j
    BY <1>1, InOrderIs
  <1>3. DOMAIN v = 1..c /\ \A l \in 1..c : v[l] = s[o[l]]
    BY AtPlacesIs
  <1>4. k # 1 => /\ k - 1 \in 1..c
                 /\ o[k - 1] < o[k]
                 /\ \A p \in P : ~(o[k - 1] < p /\ p < o[k])
    BY <1>1, Neighbours
  <1>5. k \in 1..c
    OBVIOUS
  <1> HIDE DEF v, o, n, c
  <1>6. i \in P /\ i \in 1..n /\ i \in Nat /\ v[k] = s[i]
    BY <1>1, <1>2, <1>3, <1>5
  <1>7. ASSUME s[i] \in words
        PROVE  (k = 1 \/ v[k - 1] \notin words) <=> (i = 1 \/ s[i - 1] \notin words)
    <2>1. ASSUME i # 1, s[i - 1] \in words PROVE k # 1 /\ v[k - 1] \in words
      <3>1. i - 1 \in 1..n /\ (i - 1) + 1 = i
        BY <1>1, <1>6, <2>1
      <3>2. i - 1 \in P
        BY <1>1, <1>6, <1>7, <2>1, <3>1 DEF KeepsRuns
      <3> DEFINE l == NumberIn(P, i - 1)
      <3>3. l \in 1..c /\ o[l] = i - 1
        BY <1>2, <3>2
      <3>4. l < k
        <4>1. NumberIn(P, i) = k
          BY <1>1, <1>5, InOrderIs DEF o, c
        <4>2. i - 1 < i
          BY <1>6
        <4> DEFINE b == i - 1
        <4>3. b \in P /\ b < i
          BY <3>2, <4>2
        <4> HIDE DEF b, i
        <4>4. (b < i) <=> (NumberIn(P, b) < NumberIn(P, i))
          BY <1>1, <1>6, <4>3, NumbersInOrder
        <4>5. NumberIn(P, b) < k
          BY <4>1, <4>3, <4>4
        <4> QED BY <4>5 DEF b
      <3> HIDE DEF l
      <3>5. k # 1
        BY <3>3, <3>4
      <3>6. o[k - 1] \in P /\ o[k - 1] \in Nat
        BY <1>1, <1>2, <1>4, <3>5
      <3>7. ~(o[k - 1] < i - 1)
        BY <1>4, <1>6, <3>2, <3>5
      <3>8. o[k - 1] = i - 1
        BY <1>4, <1>6, <3>5, <3>6, <3>7
      <3>9. v[k - 1] = s[i - 1]
        BY <1>3, <1>4, <3>5, <3>8
      <3> QED BY <2>1, <3>5, <3>9
    <2>2. ASSUME k # 1, v[k - 1] \in words PROVE i # 1 /\ s[i - 1] \in words
      <3>1. k - 1 \in 1..c /\ o[k - 1] \in P /\ o[k - 1] \in 1..n /\ o[k - 1] < i /\ v[k - 1] = s[o[k - 1]]
        BY <1>1, <1>2, <1>3, <1>4, <2>2
      <3>2. i = o[k - 1] + 1
        BY <1>4, <1>6, <1>7, <2>2, <3>1 DEF KeepsRuns
      <3>3. i # 1 /\ i - 1 = o[k - 1]
        BY <3>1, <3>2
      <3> QED BY <2>2, <3>1, <3>3
    <2> QED BY <2>1, <2>2
  <1> QED BY <1>1, <1>3, <1>5, <1>6, <1>7 DEF Starts, v, o

LEMMA RunsKept ==
    ASSUME NEW X, NEW s \in Seq(X), NEW P \in SUBSET DOMAIN s, NEW words,
           KeepsRuns(s, P, words), NEW k \in 1..Cardinality(P)
    PROVE  PieceAt(AtPlaces(s, P), k, words) = PieceAt(s, InOrder(P)[k], words)
  <1> DEFINE n == Len(s)
             c == Cardinality(P)
             v == AtPlaces(s, P)
             o == InOrder(P)
             i == o[k]
             R == Run(v, k, words)
  <1>1. n \in Nat /\ DOMAIN s = 1..n /\ P \in SUBSET (1..n)
    OBVIOUS
  <1>2. /\ c \in Nat /\ o \in [1..c -> P]
        /\ \A j \in P : NumberIn(P, j) \in 1..c /\ o[NumberIn(P, j)] = j
        /\ \A j \in 1..c : NumberIn(P, o[j]) = j
        /\ \A a, b \in 1..c : a < b => o[a] < o[b]
    BY <1>1, InOrderIs
  <1>3. v \in Seq(X) /\ Len(v) = c /\ DOMAIN v = 1..c /\ \A l \in 1..c : v[l] = s[o[l]]
    BY AtPlacesIs
  <1>4. \A l \in 1..c : l # 1 => /\ l - 1 \in 1..c
                                 /\ o[l - 1] < o[l]
                                 /\ \A p \in P : ~(o[l - 1] < p /\ p < o[l])
    BY <1>1, Neighbours
  <1>5. k \in 1..c /\ k \in Nat
    BY <1>2
  <1> HIDE DEF v, o, n, c
  <1>6. i \in P /\ i \in 1..n /\ i \in Nat /\ v[k] = s[i]
    BY <1>1, <1>2, <1>3, <1>5
  <1>7. /\ R \in SUBSET (1..c) /\ k \in R
        /\ v[k] \notin words => R = {k}
    BY <1>3, <1>5, RunIs
  <1>8. /\ PlacesAmong(P, R) \in SUBSET P
        /\ AtPlaces(v, R) = AtPlaces(s, PlacesAmong(P, R))
    <2> HIDE DEF R
    <2> QED BY <1>7, AtPlacesOfPlaces DEF v, c
  <1>9. PlacesAmong(P, R) = Run(s, i, words)
    <2>1. CASE s[i] \notin words
      <3>1. R = {k} /\ Run(s, i, words) = {i}
        BY <1>1, <1>6, <1>7, <2>1, RunIs
      <3> HIDE DEF R
      <3> QED BY <3>1 DEF PlacesAmong, o
    <2>2. CASE s[i] \in words
      <3>1. ASSUME NEW m \in R PROVE o[m] \in Run(s, i, words)
        <4>1. m \in k..c /\ \A l \in k..m : v[l] \in words
          <5>1. CASE m = k
            <6>1. \A l \in k..k : l = k
              BY <1>5
            <6> QED BY <1>5, <1>6, <2>2, <5>1, <6>1
          <5>2. CASE m # k
            BY <1>3, <3>1, <5>2 DEF Run
          <5> QED BY <5>1, <5>2
        <4>2. m \in Nat /\ m \in 1..c /\ k <= m /\ \A l \in k..m : l \in 1..c
          BY <1>2, <1>5, <4>1
        <4> DEFINE h == m - k
                   Q == {d \in 0..h : o[k + d] = i + d}
        <4>3. h \in Nat /\ m = k + h /\ \A d \in 0..h : k + d \in k..m
          BY <1>5, <4>2
        <4> HIDE DEF h
        <4>4. 0 \in Q /\ Q \in SUBSET (0..h)
          <5>1. k + 0 = k /\ i + 0 = i /\ 0 \in 0..h
            BY <1>5, <1>6, <4>3
          <5> QED BY <5>1
        <4>5. ASSUME NEW d \in 1..h, d - 1 \in Q PROVE d \in Q
          <5> DEFINE b == k + d
          <5>1. d \in 0..h /\ d - 1 \in 0..h /\ d \in Nat /\ b \in Nat
            BY <1>5, <4>3
          <5>2. b \in k..m /\ k + (d - 1) \in k..m /\ b - 1 = k + (d - 1) /\ b # 1
            <6>1. k + (d - 1) \in k..m /\ b \in k..m
              BY <4>3, <5>1
            <6>2. b - 1 = k + (d - 1) /\ b # 1
              BY <1>5, <5>1
            <6> QED BY <6>1, <6>2
          <5>3. o[b - 1] = i + (d - 1)
            BY <4>5, <5>2
          <5>4. b \in 1..c /\ b - 1 \in 1..c /\ v[b] \in words /\ v[b - 1] \in words
            BY <4>1, <4>2, <5>2
          <5> HIDE DEF b
          <5>5. /\ o[b] \in P /\ o[b - 1] \in P /\ o[b - 1] < o[b]
                /\ s[o[b]] \in words /\ s[o[b - 1]] \in words
                /\ \A p \in P : ~(o[b - 1] < p /\ p < o[b])
            BY <1>2, <1>3, <1>4, <5>2, <5>4
          <5>6. o[b] = o[b - 1] + 1
            BY <5>5 DEF KeepsRuns
          <5>7. o[b] = i + d
            BY <1>6, <5>1, <5>3, <5>6
          <5> QED BY <5>1, <5>7 DEF b
        <4>6. Q = 0..h
          <5> HIDE DEF Q
          <5> QED BY <4>3, <4>4, <4>5, PlaceByPlace
        <4>7. o[m] = i + h
          <5>1. h \in 0..h
            BY <4>3
          <5> QED BY <4>3, <4>6, <5>1
        <4>8. o[m] \in i..n
          BY <1>1, <1>2, <1>6, <4>2, <4>3, <4>7
        <4>9. ASSUME NEW q \in i..o[m] PROVE s[q] \in words
          <5>1. q - i \in 0..h /\ i + (q - i) = q
            BY <1>6, <4>3, <4>7
          <5>2. o[k + (q - i)] = q /\ k + (q - i) \in k..m
            BY <4>3, <4>6, <5>1
          <5> QED BY <1>3, <4>1, <4>2, <5>2
        <4> QED BY <4>8, <4>9 DEF Run, n
      <3>2. ASSUME NEW j \in Run(s, i, words) PROVE \E m \in R : o[m] = j
        <4>1. j \in i..n /\ \A q \in i..j : s[q] \in words
          <5>1. CASE j = i
            <6>1. \A q \in i..i : q = i
              BY <1>6
            <6> QED BY <1>1, <1>6, <2>2, <5>1, <6>1
          <5>2. CASE j # i
            BY <3>2, <5>2 DEF Run, n
          <5> QED BY <5>1, <5>2
        <4> DEFINE h == j - i
                   Q == {d \in 0..h : i + d \in P}
        <4>2. h \in Nat /\ j \in Nat /\ j = i + h /\ \A d \in 0..h : i + d \in i..j /\ i + d \in 1..n
          BY <1>1, <1>6, <4>1
        <4> HIDE DEF h
        <4>3. 0 \in Q /\ Q \in SUBSET (0..h)
          <5>1. i + 0 = i /\ 0 \in 0..h
            BY <1>6, <4>2
          <5> QED BY <1>6, <5>1
        <4>4. ASSUME NEW d \in 1..h, d - 1 \in Q PROVE d \in Q
          <5> DEFINE b == i + (d - 1)
          <5>1. d \in 0..h /\ d - 1 \in 0..h /\ b + 1 = i + d
            BY <1>6, <4>2
          <5>2. b \in i..j /\ b \in 1..n /\ i + d \in i..j /\ i + d \in 1..n
            BY <4>2, <5>1
          <5>3. b \in P
            BY <4>4
          <5> HIDE DEF b
          <5>4. s[b] \in words /\ s[b + 1] \in words /\ b + 1 \in 1..n
            BY <4>1, <5>1, <5>2
          <5>5. b + 1 \in P
            BY <1>1, <5>2, <5>3, <5>4 DEF KeepsRuns
          <5> QED BY <5>1, <5>5
        <4>5. Q = 0..h
          <5> HIDE DEF Q
          <5> QED BY <4>2, <4>3, <4>4, PlaceByPlace
        <4>6. j \in P
          <5>1. h \in 0..h
            BY <4>2
          <5> QED BY <4>2, <4>5, <5>1
        <4> DEFINE m == NumberIn(P, j)
        <4>7. m \in 1..c /\ o[m] = j
          BY <1>2, <4>6
        <4> HIDE DEF m, Q
        <4>8. k <= m
          <5>1. m < k => j < i
            BY <1>2, <1>5, <4>7
          <5> QED BY <1>2, <1>5, <1>6, <4>1, <4>2, <4>7, <5>1
        <4>9. ASSUME NEW l \in k..m PROVE v[l] \in words
          <5>1. l \in 1..c /\ k <= l /\ l <= m /\ l \in Nat /\ m \in Nat
            BY <1>2, <1>5, <4>7
          <5>2. o[l] \in P /\ o[l] \in Nat
            BY <1>1, <1>2, <5>1
          <5>3. i <= o[l]
            <6>1. k = l \/ k < l
              BY <1>5, <5>1
            <6> QED BY <1>2, <1>5, <1>6, <5>1, <5>2, <6>1
          <5>4. o[l] <= j
            <6>1. l = m \/ l < m
              BY <5>1
            <6> QED BY <1>2, <4>2, <4>7, <5>1, <5>2, <6>1
          <5>5. o[l] \in i..j
            BY <1>6, <4>2, <5>2, <5>3, <5>4
          <5> QED BY <1>3, <4>1, <5>1, <5>5
        <4>10. m \in k..Len(v)
          BY <1>2, <1>3, <1>5, <4>7, <4>8
        <4>11. m \in R
          BY <4>9, <4>10 DEF Run
        <4> QED BY <4>7, <4>11
      <3> HIDE DEF R
      <3> QED BY <3>1, <3>2 DEF PlacesAmong, o
    <2> QED BY <2>1, <2>2
  <1> QED BY <1>8, <1>9 DEF PieceAt, v, o

\* The pieces of what is kept are those that begin at a place kept.
LEMMA PiecesKept ==
    ASSUME NEW X, NEW s \in Seq(X), NEW P \in SUBSET DOMAIN s, NEW words, NEW singles,
           KeepsRuns(s, P, words)
    PROVE  ToSet(Pieces(AtPlaces(s, P), words, singles))
              = {PieceAt(s, i, words) : i \in Starts(s, words, singles) \cap P}
  <1> DEFINE n == Len(s)
             c == Cardinality(P)
             v == AtPlaces(s, P)
             o == InOrder(P)
             A == {PieceAt(v, k, words) : k \in Starts(v, words, singles)}
             B == {PieceAt(s, i, words) : i \in Starts(s, words, singles) \cap P}
  <1>1. n \in Nat /\ DOMAIN s = 1..n /\ P \in SUBSET (1..n)
    OBVIOUS
  <1>2. /\ c \in Nat /\ o \in [1..c -> P]
        /\ \A j \in P : NumberIn(P, j) \in 1..c /\ o[NumberIn(P, j)] = j
    BY <1>1, InOrderIs
  <1>3. v \in Seq(X) /\ DOMAIN v = 1..c
    BY AtPlacesIs
  <1>4. \A k \in 1..c : /\ k \in Starts(v, words, singles) <=> o[k] \in Starts(s, words, singles)
                        /\ PieceAt(v, k, words) = PieceAt(s, o[k], words)
    BY StartsKept, RunsKept
  <1> HIDE DEF v, o, c
  <1>5. ToSet(Pieces(v, words, singles)) = A
    BY <1>3, PiecesIs
  <1>6. ASSUME NEW k \in Starts(v, words, singles) PROVE PieceAt(v, k, words) \in B
    <2>1. k \in 1..c
      BY <1>3 DEF Starts
    <2> QED BY <1>2, <1>4, <2>1
  <1>7. ASSUME NEW i \in Starts(s, words, singles) \cap P PROVE PieceAt(s, i, words) \in A
    <2>1. NumberIn(P, i) \in 1..c /\ o[NumberIn(P, i)] = i
      BY <1>2
    <2> QED BY <1>4, <2>1
  <1>8. A = B
    BY <1>6, <1>7
  <1> QED BY <1>5, <1>8 DEF v

-----------------------------------------------------------------------------
(* Plain texts.                                                            *)

\* The terms SimpleTokenize makes of a text that is folded already.
Simple(text) == ToSet(Pieces(text, Alnum, Wide))

\* Each word of a plain text is folded.
LEMMA PlainFolded ==
    ASSUME NEW text \in Seq(Chars), Plain(text)
    PROVE  SimpleTokenize(text) = Simple(ToLower(text))
  <1> DEFINE BeforeWide(i) == \E j \in i + 1..Len(text) :
                text[j] \in Wide /\ \A m \in i..j - 1 : text[m] \in Alnum
             folded == [i \in DOMAIN text |->
                IF text[i] \in Alnum /\ BeforeWide(i) THEN text[i] ELSE Lower(text[i])]
  <1>1. SimpleTokenize(text) = Simple(folded)
    BY DEF SimpleTokenize, Simple
  <1>2. ASSUME NEW i \in DOMAIN text, BeforeWide(i) PROVE Lower(text[i]) = text[i]
    <2>1. CASE text[i] \in DOMAIN LowerOf
      <3>1. PICK j \in i + 1..Len(text) : text[j] \in Wide /\ \A m \in i..j - 1 : text[m] \in Alnum
        BY <1>2
      <3>2. \E m \in i..j - 1 : text[m] \notin Alnum
        BY <2>1, <3>1 DEF Plain
      <3> QED BY <3>1, <3>2
    <2>2. CASE text[i] \notin DOMAIN LowerOf
      BY <2>2 DEF Lower
    <2> QED BY <2>1, <2>2
  <1>3. folded = [i \in DOMAIN text |-> Lower(text[i])]
    <2> HIDE DEF BeforeWide
    <2> QED BY <1>2
  <1> QED BY <1>1, <1>3 DEF ToLower

\* A text in small letters is folded.
LEMMA SmallFolded ==
    ASSUME NEW text \in Seq(Small)
    PROVE  SimpleTokenize(text) = Simple(text) /\ ToLower(text) = text
  <1> DEFINE BeforeWide(i) == \E j \in i + 1..Len(text) :
                text[j] \in Wide /\ \A m \in i..j - 1 : text[m] \in Alnum
             folded == [i \in DOMAIN text |->
                IF text[i] \in Alnum /\ BeforeWide(i) THEN text[i] ELSE Lower(text[i])]
  <1>1. SimpleTokenize(text) = Simple(folded)
    BY DEF SimpleTokenize, Simple
  <1>2. text = [i \in DOMAIN text |-> text[i]] /\ \A i \in DOMAIN text : text[i] \in Small
    OBVIOUS
  <1>3. \A i \in DOMAIN text : Lower(text[i]) = text[i]
    BY <1>2 DEF Small, Lower
  <1>4. folded = [i \in DOMAIN text |-> text[i]]
    <2> HIDE DEF BeforeWide
    <2> QED BY <1>3
  <1>5. ToLower(text) = [i \in DOMAIN text |-> text[i]]
    BY <1>3 DEF ToLower
  <1> QED BY <1>1, <1>2, <1>4, <1>5

\* The first steps of Normalize leave a plain text alone.
LEMMA PlainStays ==
    ASSUME NEW text \in Seq(Chars), Plain(text)
    PROVE  NormalizeAlnum(FullWidthToHalfWidth(text)) = text
  <1>1. /\ Len(text) \in Nat /\ DOMAIN text = 1..Len(text)
        /\ text = [i \in DOMAIN text |-> text[i]]
    OBVIOUS
  <1>2. \A i \in DOMAIN text : text[i] \notin DOMAIN HalfOf
    BY DEF Plain
  <1>3. FullWidthToHalfWidth(text) = text
    <2>1. FullWidthToHalfWidth(text) = [i \in DOMAIN text |-> text[i]]
      BY <1>2 DEF FullWidthToHalfWidth
    <2> QED BY <1>1, <2>1
  <1> DEFINE Joint(i) == i > 1 /\ \/ text[i-1] \in Letters /\ text[i] \in Digits
                                  \/ text[i-1] \in Digits /\ text[i] \in Letters
             seqs == [i \in DOMAIN text |-> IF Joint(i) THEN <<Space, text[i]>> ELSE <<text[i]>>]
  <1>4. ASSUME NEW i \in DOMAIN text PROVE ~Joint(i)
    <2>1. SUFFICES ASSUME i > 1 PROVE ~Joint(i)
      OBVIOUS
    <2>2. i - 1 \in DOMAIN text /\ i = (i - 1) + 1
      BY <1>1, <2>1
    <2>3. /\ ~(text[i - 1] \in Letters /\ text[i] \in Digits)
          /\ ~(text[i - 1] \in Digits /\ text[i] \in Letters)
      BY <2>2 DEF Plain
    <2> QED BY <2>3
  <1>5. seqs = [i \in DOMAIN text |-> <<text[i]>>]
    <2> HIDE DEF Joint
    <2> QED BY <1>4
  <1>6. NormalizeAlnum(text) = FlattenSeq(seqs)
    BY DEF NormalizeAlnum
  <1> HIDE DEF seqs
  <1>7. FlattenSeq(seqs) = text
    BY <1>5, FlattenSingles
  <1> QED BY <1>3, <1>6, <1>7

\* Without apostrophes the two tokenisers have the same words.
LEMMA TokenizeIsSimple ==
    ASSUME NEW X, "'" \notin X, NEW text \in Seq(X)
    PROVE  ToSet(Tokenize(text)) = Simple(text)
  <1> DEFINE W == Alnum \cup {"'"}
  <1>1. Len(text) \in Nat /\ DOMAIN text = 1..Len(text)
    OBVIOUS
  <1>2. \A i \in DOMAIN text : text[i] \in W <=> text[i] \in Alnum
    <2>1. \A i \in DOMAIN text : text[i] \in X
      OBVIOUS
    <2> QED BY <2>1
  <1> HIDE DEF W
  <1>3. ASSUME NEW i \in DOMAIN text PROVE Run(text, i, W) = Run(text, i, Alnum)
    <2>1. \A j \in i..Len(text) : \A m \in i..j : m \in DOMAIN text
      BY <1>1
    <2> QED BY <1>2, <2>1 DEF Run
  <1>4. Starts(text, W, Wide) = Starts(text, Alnum, Wide)
    <2>1. \A i \in DOMAIN text : i = 1 \/ i - 1 \in DOMAIN text
      BY <1>1
    <2> QED BY <1>2, <2>1 DEF Starts
  <1>5. \A i \in Starts(text, Alnum, Wide) : PieceAt(text, i, W) = PieceAt(text, i, Alnum)
    BY <1>3 DEF PieceAt, Starts
  <1>6. {PieceAt(text, i, W) : i \in Starts(text, W, Wide)}
            = {PieceAt(text, i, Alnum) : i \in Starts(text, Alnum, Wide)}
    BY <1>4, <1>5
  <1>7. Tokenize(text) = Pieces(text, W, Wide)
    BY DEF Tokenize, W
  <1>8. ToSet(Pieces(text, W, Wide)) = {PieceAt(text, i, W) : i \in Starts(text, W, Wide)}
    BY PiecesIs
  <1>9. ToSet(Pieces(text, Alnum, Wide)) = {PieceAt(text, i, Alnum) : i \in Starts(text, Alnum, Wide)}
    BY PiecesIs
  <1> QED BY <1>6, <1>7, <1>8, <1>9 DEF Simple

\* The places that CollapseSpaces and RemoveNoise leave.
Spaced(text) ==
    {i \in DOMAIN text : text[i] = Space =>
        /\ i > 1 /\ text[i - 1] # Space
        /\ \E j \in i + 1..Len(text) : text[j] # Space}

Known == Alnum \cup Wide \cup {Space, "'", "-", "_"}

Cleared(text) == {i \in Spaced(text) : text[i] \in Known}

LEMMA ClearedIs ==
    ASSUME NEW X, NEW text \in Seq(X)
    PROVE  RemoveNoise(CollapseSpaces(text)) = AtPlaces(text, Cleared(text))
  <1> DEFINE P == Spaced(text)
             c == Cardinality(P)
             v == AtPlaces(text, P)
             K == {k \in DOMAIN v : v[k] \in Known}
  <1>1. P \in SUBSET DOMAIN text /\ CollapseSpaces(text) = v
    BY DEF Spaced, CollapseSpaces
  <1>2. RemoveNoise(v) = AtPlaces(v, K)
    BY DEF RemoveNoise, Known
  <1> HIDE DEF P
  <1>3. DOMAIN v = 1..c /\ \A k \in 1..c : v[k] = text[InOrder(P)[k]]
    BY <1>1, AtPlacesIs
  <1>4. K \in SUBSET (1..c)
    BY <1>3
  <1>5. AtPlaces(v, K) = AtPlaces(text, PlacesAmong(P, K))
    <2> HIDE DEF K
    <2> QED BY <1>1, <1>4, AtPlacesOfPlaces
  <1>6. PlacesAmong(P, K) = Cleared(text)
    <2>1. /\ InOrder(P) \in [1..c -> P]
          /\ \A i \in P : NumberIn(P, i) \in 1..c /\ InOrder(P)[NumberIn(P, i)] = i
      <3>1. Len(text) \in Nat /\ P \in SUBSET (1..Len(text))
        BY <1>1
      <3> QED BY <3>1, InOrderIs
    <2> HIDE DEF v, c
    <2>2. \A k \in K : InOrder(P)[k] \in P /\ text[InOrder(P)[k]] \in Known
      BY <1>3, <2>1
    <2>3. \A i \in P : text[i] \in Known => NumberIn(P, i) \in K /\ InOrder(P)[NumberIn(P, i)] = i
      BY <1>3, <2>1
    <2>4. Cleared(text) = {i \in P : text[i] \in Known}
      BY DEF Cleared, P
    <2> HIDE DEF K
    <2> QED BY <2>2, <2>3, <2>4 DEF PlacesAmong
  <1> QED BY <1>1, <1>2, <1>5, <1>6

\* Other punctuation stands at a space or an end only.
NoiseAtSpaces(text) ==
    \A i \in DOMAIN text :
        text[i] \in Known \/ i \in {1, Len(text)} \/ text[i - 1] = Space \/ text[i + 1] = Space

LEMMA ClearedKeepsRuns ==
    ASSUME NEW X, NEW text \in Seq(X), NoiseAtSpaces(text)
    PROVE  KeepsRuns(text, Cleared(text), Alnum)
  <1>1. Len(text) \in Nat /\ DOMAIN text = 1..Len(text)
    OBVIOUS
  <1>2. \A i \in DOMAIN text : text[i] # Space => i \in Spaced(text)
    BY DEF Spaced
  <1>3. Space \notin Alnum
    BY AlphabetAssumption DEF Alnum
  <1>4. \A i \in DOMAIN text : text[i] \in Alnum => i \in Cleared(text)
    BY <1>2, <1>3 DEF Cleared, Known
  <1>5. ASSUME NEW i \in Cleared(text), NEW j \in Cleared(text), i < j,
               text[i] \in Alnum, text[j] \in Alnum, \A p \in Cleared(text) : ~(i < p /\ p < j)
        PROVE  j = i + 1
    <2>1. i \in 1..Len(text) /\ j \in 1..Len(text)
      BY <1>1 DEF Cleared, Spaced
    <2>2. SUFFICES ASSUME j # i + 1 PROVE FALSE
      OBVIOUS
    <2>3. /\ i + 1 \in 1..Len(text) /\ i < i + 1 /\ i + 1 < j /\ i + 1 > 1 /\ i + 1 \notin {1, Len(text)}
          /\ (i + 1) - 1 = i /\ j \in (i + 1) + 1..Len(text)
      <3> DEFINE n == Len(text)
      <3>1. n \in Nat /\ i \in 1..n /\ j \in 1..n /\ i < j /\ j # i + 1
        BY <1>1, <1>5, <2>1, <2>2
      <3> HIDE DEF n
      <3>2. /\ i + 1 \in 1..n /\ i < i + 1 /\ i + 1 < j /\ i + 1 > 1 /\ i + 1 # 1 /\ i + 1 # n
            /\ (i + 1) - 1 = i /\ j \in (i + 1) + 1..n
        BY <3>1
      <3> QED BY <3>2 DEF n
    <2>4. i + 1 \notin Cleared(text)
      BY <1>5, <2>3
    <2>5. CASE text[i + 1] = Space
      <3>1. i + 1 \in Spaced(text)
        BY <1>1, <1>3, <1>5, <2>3, <2>5 DEF Spaced
      <3> QED BY <2>4, <2>5, <3>1 DEF Cleared, Known
    <2>6. CASE text[i + 1] # Space
      <3>1. text[i + 1] \notin Known
        BY <1>1, <1>2, <2>3, <2>4, <2>6 DEF Cleared
      <3>2. text[(i + 1) + 1] = Space
        BY <1>1, <1>3, <1>5, <2>3, <3>1 DEF NoiseAtSpaces
      <3> DEFINE h == (i + 1) + 1
      <3>3. /\ h \in 1..Len(text) /\ h > 1 /\ h - 1 = i + 1 /\ h # j /\ i < h /\ h < j
            /\ j \in h + 1..Len(text)
        <4>1. h # j
          BY <1>3, <1>5, <3>2
        <4> DEFINE n == Len(text)
        <4>2. n \in Nat /\ i \in 1..n /\ j \in 1..n /\ i + 1 < j /\ h # j
          BY <1>1, <2>1, <2>3, <4>1
        <4> HIDE DEF n
        <4>3. h \in 1..n /\ h > 1 /\ h - 1 = i + 1 /\ h # j /\ i < h /\ h < j /\ j \in h + 1..n
          BY <4>2
        <4> QED BY <4>3 DEF n
      <3> HIDE DEF h
      <3>4. h \in Spaced(text)
        BY <1>1, <1>3, <1>5, <2>6, <3>3 DEF Spaced
      <3>5. text[h] = Space
        BY <3>2 DEF h
      <3>6. h \in Cleared(text)
        BY <3>4, <3>5 DEF Cleared, Known
      <3> QED BY <1>5, <3>3, <3>6
    <2> QED BY <2>5, <2>6
  <1> QED BY <1>1, <1>4, <1>5 DEF KeepsRuns

\* No letter stands three times in a row.
NoTriple(text) ==
    \A k \in DOMAIN text : k > 2 /\ text[k] \in Letters =>
        ~(text[k] = text[k - 1] /\ text[k - 1] = text[k - 2])

\* Nor does one once some places are cleared.
LEMMA ClearedNoTriple ==
    ASSUME NEW X, NEW text \in Seq(X), NEW P \in SUBSET DOMAIN text,
           NoTriple(text), KeepsRuns(text, P, Alnum)
    PROVE  SpellCorrection(AtPlaces(text, P)) = AtPlaces(text, P)
  <1> DEFINE n == Len(text)
             c == Cardinality(P)
             v == AtPlaces(text, P)
             o == InOrder(P)
  <1>1. n \in Nat /\ DOMAIN text = 1..n /\ P \in SUBSET (1..n)
    OBVIOUS
  <1>2. c \in Nat /\ o \in [1..c -> P]
    BY <1>1, InOrderIs
  <1>3. v \in Seq(X) /\ DOMAIN v = 1..c /\ \A l \in 1..c : v[l] = text[o[l]]
    BY AtPlacesIs
  <1>4. \A l \in 1..c : l # 1 => /\ l - 1 \in 1..c
                                 /\ o[l - 1] < o[l]
                                 /\ \A p \in P : ~(o[l - 1] < p /\ p < o[l])
    BY <1>1, Neighbours
  <1> HIDE DEF v, o, c, n
  <1>5. ASSUME NEW l \in 1..c, l # 1, v[l] \in Alnum, v[l - 1] \in Alnum
        PROVE  l - 1 \in 1..c /\ o[l] = o[l - 1] + 1
    <2>1. l - 1 \in 1..c /\ o[l - 1] < o[l] /\ \A p \in P : ~(o[l - 1] < p /\ p < o[l])
      BY <1>4, <1>5
    <2>2. o[l - 1] \in P /\ o[l] \in P /\ text[o[l - 1]] \in Alnum /\ text[o[l]] \in Alnum
      BY <1>2, <1>3, <1>5, <2>1
    <2> QED BY <2>1, <2>2 DEF KeepsRuns
  <1>6. ASSUME NEW k \in 1..c, k > 2, v[k] \in Letters, v[k] = v[k - 1], v[k - 1] = v[k - 2]
        PROVE  FALSE
    <2> DEFINE h == k - 1
    <2>1. h \in 1..c /\ h # 1 /\ k # 1 /\ h - 1 = k - 2 /\ h - 1 \in 1..c
      BY <1>2, <1>6
    <2>2. v[k] \in Alnum /\ v[h] \in Alnum /\ v[h - 1] \in Alnum
      <3>1. v[h] = v[k] /\ v[h - 1] = v[k]
        BY <1>6, <2>1
      <3> QED BY <1>6, <3>1 DEF Alnum
    <2>3. o[k] = o[h] + 1
      BY <1>5, <2>1, <2>2
    <2> HIDE DEF h
    <2>4. o[h] = o[h - 1] + 1
      BY <1>5, <2>1, <2>2
    <2>5. o[k] \in 1..n /\ o[h] \in 1..n /\ o[h - 1] \in 1..n
      BY <1>1, <1>2, <2>1
    <2>6. o[k] > 2 /\ o[k] - 1 = o[h] /\ o[k] - 2 = o[h - 1]
      BY <2>3, <2>4, <2>5
    <2>7. text[o[k]] = v[k] /\ text[o[h]] = v[h] /\ text[o[h - 1]] = v[h - 1]
      BY <1>3, <2>1
    <2>8. v[h] = v[k] /\ v[h - 1] = v[k]
      BY <1>6, <2>1 DEF h
    <2> QED BY <1>1, <1>6, <2>5, <2>6, <2>7, <2>8 DEF NoTriple
  <1>7. {k \in DOMAIN v : ~(k > 2 /\ v[k] \in Letters /\ v[k] = v[k - 1] /\ v[k - 1] = v[k - 2])}
            = DOMAIN v
    BY <1>3, <1>6
  <1>8. SpellCorrection(v) = AtPlaces(v, DOMAIN v)
    BY <1>7 DEF SpellCorrection
  <1> QED BY <1>3, <1>8, AtAllPlaces DEF v

\* The places RemoveStopWords keeps: those of words, and a space in front of
\* each word but the first.
InWords(text) ==
    {i \in DOMAIN text : /\ text[i] # Space
                         /\ ToLower(AtPlaces(text, WordAround(text, i))) \notin StopWords}
BetweenWords(text) ==
    {i \in DOMAIN text : text[i] = Space /\ i + 1 \in InWords(text) /\ \E j \in InWords(text) : j < i}

LEMMA WordsAround ==
    ASSUME NEW X, NEW text \in Seq(X)
    PROVE  /\ \A i \in DOMAIN text : WordAround(text, i) \in SUBSET DOMAIN text
           /\ \A i \in DOMAIN text : text[i] # Space => i \in WordAround(text, i)
           /\ \A i \in DOMAIN text, j \in DOMAIN text :
                 (\A m \in i..j : text[m] # Space) /\ i <= j
                    => WordAround(text, i) = WordAround(text, j)
  <1>1. Len(text) \in Nat /\ DOMAIN text = 1..Len(text)
    OBVIOUS
  <1>2. ASSUME NEW i \in DOMAIN text, text[i] # Space PROVE i \in WordAround(text, i)
    <2>1. \A m \in i..i \cup i..i : m = i
      BY <1>1
    <2> QED BY <1>2, <2>1 DEF WordAround
  <1>3. ASSUME NEW i \in DOMAIN text, NEW j \in DOMAIN text, \A m \in i..j : text[m] # Space, i <= j,
               NEW k \in DOMAIN text
        PROVE  k \in WordAround(text, i) <=> k \in WordAround(text, j)
    <2>1. i \in Nat /\ j \in Nat /\ k \in Nat
      BY <1>1
    <2>2. \A m \in j..k \cup k..j : m \in i..j \/ m \in i..k \cup k..i
      BY <1>3, <2>1
    <2>3. \A m \in i..k \cup k..i : m \in i..j \/ m \in j..k \cup k..j
      BY <1>3, <2>1
    <2> QED BY <1>3, <2>2, <2>3 DEF WordAround
  <1>4. \A i \in DOMAIN text : WordAround(text, i) \in SUBSET DOMAIN text
    BY DEF WordAround
  <1>5. ASSUME NEW i \in DOMAIN text, NEW j \in DOMAIN text, \A m \in i..j : text[m] # Space, i <= j
        PROVE  WordAround(text, i) = WordAround(text, j)
    BY <1>3, <1>4, <1>5
  <1> QED BY <1>2, <1>4, <1>5

LEMMA StopWordsKeepRuns ==
    ASSUME NEW X, NEW text \in Seq(X)
    PROVE  /\ RemoveStopWords(text) = AtPlaces(text, InWords(text) \cup BetweenWords(text))
           /\ InWords(text) \cup BetweenWords(text) \in SUBSET DOMAIN text
           /\ KeepsRuns(text, InWords(text) \cup BetweenWords(text), Alnum)
  <1> DEFINE A == InWords(text)
             B == BetweenWords(text)
  <1>1. Len(text) \in Nat /\ DOMAIN text = 1..Len(text)
    OBVIOUS
  <1>2. RemoveStopWords(text) = AtPlaces(text, A \cup B)
    BY DEF RemoveStopWords, InWords, BetweenWords
  <1>3. A \in SUBSET DOMAIN text /\ B \in SUBSET DOMAIN text
    BY DEF InWords, BetweenWords
  <1>4. Space \notin Alnum
    BY AlphabetAssumption DEF Alnum
  <1>5. ASSUME NEW i \in DOMAIN text, NEW j \in DOMAIN text, i <= j, \A m \in i..j : text[m] # Space
        PROVE  i \in A <=> j \in A
    <2>1. WordAround(text, i) = WordAround(text, j)
      BY <1>5, WordsAround
    <2>2. i \in i..j /\ j \in i..j
      BY <1>1, <1>5
    <2> QED BY <1>5, <2>1, <2>2 DEF InWords
  <1>6. \A i \in B : text[i] = Space /\ i + 1 \in A
    BY DEF BetweenWords
  <1>7. ASSUME NEW i \in DOMAIN text, i + 1 \in DOMAIN text, text[i] \in Alnum, text[i + 1] \in Alnum
        PROVE  i \in A \cup B <=> i + 1 \in A \cup B
    <2>1. i <= i + 1 /\ \A m \in i..i + 1 : m = i \/ m = i + 1
      BY <1>1
    <2>2. \A m \in i..i + 1 : text[m] # Space
      BY <1>4, <1>7, <2>1
    <2> HIDE DEF A, B
    <2>3. i \in A <=> i + 1 \in A
      BY <1>5, <1>7, <2>1, <2>2
    <2>4. i \notin B /\ i + 1 \notin B
      BY <1>4, <1>6, <1>7
    <2> QED BY <2>3, <2>4
  <1>8. ASSUME NEW i \in A \cup B, NEW j \in A \cup B, i < j, text[i] \in Alnum, text[j] \in Alnum,
               \A p \in A \cup B : ~(i < p /\ p < j)
        PROVE  j = i + 1
    <2> HIDE DEF A, B
    <2>1. i \in A /\ j \in A
      BY <1>4, <1>6, <1>8
    <2>2. i \in 1..Len(text) /\ j \in 1..Len(text) /\ i \in Nat /\ j \in Nat
      BY <1>1, <1>3, <2>1
    <2>3. SUFFICES ASSUME j # i + 1 PROVE FALSE
      OBVIOUS
    <2>4. i + 1 \in 1..Len(text) /\ i < i + 1 /\ i + 1 < j
      <3> DEFINE n == Len(text)
      <3>1. n \in Nat /\ i \in 1..n /\ j \in 1..n /\ i < j /\ j # i + 1
        BY <1>1, <1>8, <2>2, <2>3
      <3> HIDE DEF n
      <3>2. i + 1 \in 1..n /\ i < i + 1 /\ i + 1 < j
        BY <3>1
      <3> QED BY <3>2 DEF n
    <2> DEFINE S == {m \in i..j : text[m] = Space}
    <2>5. CASE S = {}
      <3>1. \A m \in (i + 1)..j : m \in i..j
        BY <2>2
      <3>2. \A m \in (i + 1)..j : text[m] # Space
        BY <2>5, <3>1
      <3>3. i + 1 \in A
        BY <1>1, <1>5, <2>1, <2>2, <2>4, <3>2
      <3> QED BY <1>8, <2>4, <3>3
    <2>6. CASE S # {}
      <3>1. S \in SUBSET (0..j)
        BY <2>2
      <3> DEFINE m == Max(S)
      <3>2. m \in S /\ \A l \in S : l <= m
        <4> HIDE DEF S
        <4> QED BY <2>2, <2>6, <3>1, LastPlace
      <3> HIDE DEF m
      <3>3. m \in i..j /\ text[m] = Space /\ m \in Nat
        BY <2>2, <3>2
      <3>4. m # i /\ m # j
        BY <1>4, <1>8, <3>3
      <3>5. i < m /\ m < j /\ m + 1 <= j /\ m + 1 \in Nat
        BY <2>2, <3>3, <3>4
      <3>6. m \in 1..Len(text) /\ m + 1 \in 1..Len(text)
        <4> DEFINE n == Len(text)
        <4>1. n \in Nat /\ i \in 1..n /\ j \in 1..n
          BY <1>1, <2>2
        <4> HIDE DEF n
        <4>2. m \in 1..n /\ m + 1 \in 1..n
          BY <3>3, <3>5, <4>1
        <4> QED BY <4>2 DEF n
      <3>7. ASSUME NEW l \in (m + 1)..j PROVE text[l] # Space
        <4>1. l \in i..j /\ ~(l <= m)
          BY <2>2, <3>3, <3>5
        <4>2. l \notin S
          BY <3>2, <4>1
        <4> QED BY <4>1, <4>2
      <3>8. m + 1 \in A
        BY <1>1, <1>5, <2>1, <2>2, <3>5, <3>6, <3>7
      <3>9. m \in B
        BY <1>1, <2>1, <3>3, <3>5, <3>6, <3>8 DEF BetweenWords, A, B
      <3> QED BY <1>8, <3>5, <3>9
    <2> QED BY <2>5, <2>6
  <1> HIDE DEF A, B
  <1>9. KeepsRuns(text, A \cup B, Alnum)
    BY <1>7, <1>8 DEF KeepsRuns
  <1> QED BY <1>2, <1>3, <1>9 DEF A, B

\* A word between spaces is cut as it is in the text around it.
LEMMA WordsKeepRuns ==
    ASSUME NEW X, NEW text \in Seq(X), NEW w \in DOMAIN text
    PROVE  KeepsRuns(text, WordAround(text, w), Alnum)
  <1> DEFINE A == WordAround(text, w)
  <1>1. Len(text) \in Nat /\ DOMAIN text = 1..Len(text) /\ A \in SUBSET DOMAIN text /\ w \in Nat
    BY WordsAround
  <1>2. Space \notin Alnum
    BY AlphabetAssumption DEF Alnum
  <1>3. ASSUME NEW i \in DOMAIN text, i + 1 \in DOMAIN text, text[i] \in Alnum, text[i + 1] \in Alnum
        PROVE  i \in A <=> i + 1 \in A
    <2>1. i \in Nat
      BY <1>1
    <2>2. \A m \in (i + 1)..w \cup w..(i + 1) : m \in i..w \cup w..i \/ m = i + 1
      BY <1>1, <2>1
    <2>3. \A m \in i..w \cup w..i : m \in (i + 1)..w \cup w..(i + 1) \/ m = i
      BY <1>1, <2>1
    <2>4. text[i] # Space /\ text[i + 1] # Space
      BY <1>2, <1>3
    <2>5. \A j \in DOMAIN text : j \in A <=> \A m \in w..j \cup j..w : text[m] # Space
      BY DEF WordAround
    <2> HIDE DEF A
    <2> QED BY <1>3, <2>2, <2>3, <2>4, <2>5
  <1>4. ASSUME NEW i \in A, NEW j \in A, i < j, \A p \in A : ~(i < p /\ p < j)
        PROVE  j = i + 1
    <2>1. i \in Nat /\ j \in Nat /\ i \in 1..Len(text) /\ j \in 1..Len(text)
      BY <1>1
    <2>2. SUFFICES ASSUME j # i + 1 PROVE FALSE
      OBVIOUS
    <2>3. i < i + 1 /\ i + 1 < j /\ i + 1 \in 1..Len(text)
      <3> DEFINE n == Len(text)
      <3>1. n \in Nat /\ i \in 1..n /\ j \in 1..n /\ i < j /\ j # i + 1
        BY <1>1, <1>4, <2>1, <2>2
      <3> HIDE DEF n
      <3>2. i + 1 \in 1..n /\ i < i + 1 /\ i + 1 < j
        BY <3>1
      <3> QED BY <3>2 DEF n
    <2>4. \A m \in (i + 1)..w \cup w..(i + 1) : m \in i..w \cup w..i \/ m \in j..w \cup w..j
      BY <1>1, <2>1, <2>3
    <2>5. i + 1 \in A
      BY <1>1, <2>3, <2>4 DEF WordAround
    <2> QED BY <1>4, <2>3, <2>5
  <1> HIDE DEF A
  <1> QED BY <1>3, <1>4 DEF KeepsRuns, A

\* What is left of a plain text, and the terms of each tokeniser.
LEMMA PlainNormalized ==
    ASSUME NEW text \in Seq(STRING), Plain(text)
    PROVE  LET L == ToLower(text)
               u == AtPlaces(L, Cleared(L))
           IN  /\ L \in Seq(Small \ {"'"}) /\ u \in Seq(Small \ {"'"})
               /\ Normalize(text) = RemoveStopWords(u)
               /\ SimpleTokenize(text) = Simple(u)
  <1> DEFINE L == ToLower(text)
             P == Cleared(L)
             u == AtPlaces(L, P)
             X == Small \ {"'"}
  <1>1. text \in Seq(Chars)
    <2>1. Len(text) \in Nat /\ DOMAIN text = 1..Len(text) /\ \A i \in 1..Len(text) : text[i] \in STRING
      OBVIOUS
    <2>2. \A i \in 1..Len(text) : text[i] \in Chars
      BY <2>1 DEF Chars
    <2>3. text = [i \in 1..Len(text) |-> text[i]]
      OBVIOUS
    <2> QED BY <2>1, <2>2, <2>3
  <1>2. Len(text) \in Nat /\ DOMAIN text = 1..Len(text) /\ \A i \in DOMAIN text : text[i] \in Chars
    BY <1>1
  <1>3. /\ L \in Seq(Small) /\ Len(L) = Len(text) /\ DOMAIN L = DOMAIN text
        /\ \A i \in DOMAIN text : L[i] = Lower(text[i])
    BY <1>1, ToLowerIs
  <1> HIDE DEF L
  <1>4. \A i \in DOMAIN text : L[i] \in X
    <2>1. SUFFICES ASSUME NEW i \in DOMAIN text PROVE L[i] # "'" /\ L[i] \in Small
      OBVIOUS
    <2>2. text[i] # "'"
      BY DEF Plain
    <2>3. "'" \notin Letters
      BY AlphabetAssumption
    <2>4. L[i] = Lower(text[i]) /\ Lower(text[i]) \in Small
      BY <1>2, <1>3, LowerIs
    <2>5. text[i] \in Letters => Lower(text[i]) \in Letters
      BY <1>2, LowerIs
    <2>6. text[i] \notin Letters => Lower(text[i]) = text[i]
      BY <1>2, LowerIs
    <2> QED BY <2>2, <2>3, <2>4, <2>5, <2>6
  <1>5. L \in Seq(X)
    BY <1>2, <1>3, <1>4
  <1>6. NoiseAtSpaces(L)
    <2>1. SUFFICES ASSUME NEW i \in DOMAIN text, L[i] \notin Known, i # 1, i # Len(text)
                   PROVE  L[i - 1] = Space \/ L[i + 1] = Space
      BY <1>3 DEF NoiseAtSpaces
    <2>2. Space \notin Letters
      BY AlphabetAssumption
    <2>3. text[i] \notin Alnum \cup Wide \cup {Space, "-", "_"}
      <3>1. text[i] \in Alnum => L[i] \in Alnum
        BY <1>2, <1>3, LowerIs
      <3>2. text[i] \notin Letters => L[i] = text[i]
        BY <1>2, <1>3, LowerIs
      <3>3. Letters \subseteq Alnum
        BY DEF Alnum
      <3> QED BY <2>1, <3>1, <3>2, <3>3 DEF Known
    <2>4. text[i - 1] = Space \/ text[i + 1] = Space
      BY <2>1, <2>3 DEF Plain
    <2>5. i - 1 \in DOMAIN text /\ i + 1 \in DOMAIN text
      <3> DEFINE n == Len(text)
      <3>1. n \in Nat /\ i \in 1..n /\ i # 1 /\ i # n
        BY <1>2, <2>1
      <3> HIDE DEF n
      <3>2. i - 1 \in 1..n /\ i + 1 \in 1..n
        BY <3>1
      <3> QED BY <1>2, <3>2 DEF n
    <2>6. \A j \in DOMAIN text : text[j] = Space => L[j] = Space
      BY <1>2, <1>3, <2>2, LowerIs
    <2> QED BY <2>4, <2>5, <2>6
  <1>7. KeepsRuns(L, P, Alnum)
    BY <1>5, <1>6, ClearedKeepsRuns
  <1>8. NoTriple(L)
    <2>1. SUFFICES ASSUME NEW k \in DOMAIN text, k > 2, L[k] \in Letters,
                          L[k] = L[k - 1], L[k - 1] = L[k - 2]
                   PROVE  FALSE
      BY <1>3 DEF NoTriple
    <2> DEFINE i == k - 2
    <2>2. i \in DOMAIN text /\ k - 1 \in DOMAIN text /\ k = i + 2 /\ \A m \in i..k : m = i \/ m = k - 1 \/ m = k
      <3> DEFINE n == Len(text)
      <3>1. n \in Nat /\ k \in 1..n /\ k > 2
        BY <1>2, <2>1
      <3> HIDE DEF n
      <3>2. i \in 1..n /\ k - 1 \in 1..n /\ k = i + 2 /\ \A m \in i..k : m = i \/ m = k - 1 \/ m = k
        BY <3>1
      <3> QED BY <1>2, <3>2 DEF n
    <2> HIDE DEF i
    <2>3. L[i] = L[k] /\ L[k - 1] = L[k]
      BY <2>1 DEF i
    <2>4. text[i] \in Letters
      BY <1>2, <1>3, <2>1, <2>2, <2>3, LowerIs
    <2>5. \A m \in i..k : Lower(text[m]) = Lower(text[i])
      BY <1>3, <2>2, <2>3
    <2> QED BY <2>2, <2>4, <2>5 DEF Plain
  <1>9. P \in SUBSET DOMAIN L
    BY DEF Cleared, Spaced
  <1>10. u \in Seq(X)
    <2> HIDE DEF P
    <2> QED BY <1>5, <1>9, AtPlacesIs
  <1>11. Normalize(text) = RemoveStopWords(u)
    <2>1. NormalizeAlnum(FullWidthToHalfWidth(text)) = text
      BY <1>1, PlainStays
    <2>2. RemoveNoise(CollapseSpaces(L)) = u
      BY <1>5, ClearedIs
    <2>3. SpellCorrection(u) = u
      <3> HIDE DEF P
      <3> QED BY <1>5, <1>7, <1>8, <1>9, ClearedNoTriple
    <2> QED BY <2>1, <2>2, <2>3 DEF Normalize, L
  <1>12. SimpleTokenize(text) = Simple(u)
    <2>1. SimpleTokenize(text) = Simple(L)
      BY <1>1, PlainFolded DEF L
    <2>2. Simple(L) = {PieceAt(L, i, Alnum) : i \in Starts(L, Alnum, Wide)}
      BY <1>5, PiecesIs DEF Simple
    <2>3. Simple(u) = {PieceAt(L, i, Alnum) : i \in Starts(L, Alnum, Wide) \cap P}
      <3> HIDE DEF P
      <3> QED BY <1>5, <1>7, <1>9, PiecesKept DEF Simple
    <2>4. Starts(L, Alnum, Wide) \subseteq P
      <3>1. Space \notin Alnum \cup Wide
        BY AlphabetAssumption DEF Alnum
      <3>2. \A i \in Starts(L, Alnum, Wide) : i \in DOMAIN L /\ L[i] \in Alnum \cup Wide
        BY DEF Starts
      <3> QED BY <3>1, <3>2 DEF Cleared, Spaced, Known
    <2>5. Starts(L, Alnum, Wide) \cap P = Starts(L, Alnum, Wide)
      BY <2>4
    <2> QED BY <2>1, <2>2, <2>3, <2>5
  <1> QED BY <1>5, <1>10, <1>11, <1>12 DEF L

\* Every term of what is left without its stop words is a term of it, and the
\* others are terms of stop words.
LEMMA StopWordsLeftOut ==
    ASSUME NEW u \in Seq(Small \ {"'"})
    PROVE  LET terms == ToSet(Tokenize(RemoveStopWords(u)))
           IN  /\ terms \subseteq Simple(u)
               /\ \A t \in Simple(u) \ terms : \E w \in StopWords : t \in SimpleTokenize(w)
  <1> DEFINE X == Small \ {"'"}
             Q == InWords(u) \cup BetweenWords(u)
             v == AtPlaces(u, Q)
             terms == ToSet(Tokenize(RemoveStopWords(u)))
  <1>1. RemoveStopWords(u) = v /\ Q \in SUBSET DOMAIN u /\ KeepsRuns(u, Q, Alnum)
    BY StopWordsKeepRuns
  <1> HIDE DEF Q
  <1>2. v \in Seq(X)
    BY <1>1, AtPlacesIs
  <1>3. ToSet(Tokenize(v)) = Simple(v)
    <2>1. "'" \notin X
      OBVIOUS
    <2> HIDE DEF X, v
    <2> QED BY <1>2, <2>1, TokenizeIsSimple
  <1>4. Simple(v) = {PieceAt(u, i, Alnum) : i \in Starts(u, Alnum, Wide) \cap Q}
    BY <1>1, PiecesKept DEF Simple
  <1>5. Simple(u) = {PieceAt(u, i, Alnum) : i \in Starts(u, Alnum, Wide)}
    BY PiecesIs DEF Simple
  <1>6. terms \subseteq Simple(u)
    <2> HIDE DEF v
    <2> QED BY <1>1, <1>3, <1>4, <1>5
  <1>7. ASSUME NEW t \in Simple(u), t \notin terms PROVE \E w \in StopWords : t \in SimpleTokenize(w)
    <2>1. PICK i \in Starts(u, Alnum, Wide) : t = PieceAt(u, i, Alnum)
      BY <1>5
    <2>2. i \notin Q
      <3> HIDE DEF v
      <3> QED BY <1>1, <1>3, <1>4, <1>7, <2>1
    <2>3. i \in DOMAIN u /\ u[i] # Space
      BY AlphabetAssumption DEF Starts, Alnum
    <2> DEFINE A == WordAround(u, i)
               w == AtPlaces(u, A)
    <2>4. ToLower(w) \in StopWords
      BY <2>2, <2>3 DEF Q, InWords
    <2>5. A \in SUBSET DOMAIN u /\ i \in A /\ KeepsRuns(u, A, Alnum)
      BY <2>3, WordsAround, WordsKeepRuns
    <2> HIDE DEF A
    <2>6. u \in Seq(Small)
      OBVIOUS
    <2>7. w \in Seq(Small)
      BY <2>5, <2>6, AtPlacesIs
    <2>8. SimpleTokenize(w) = Simple(w) /\ ToLower(w) = w
      <3> HIDE DEF w
      <3> QED BY <2>7, SmallFolded
    <2>9. Simple(w) = {PieceAt(u, j, Alnum) : j \in Starts(u, Alnum, Wide) \cap A}
      BY <2>5, PiecesKept DEF Simple
    <2>10. t \in SimpleTokenize(w)
      BY <2>1, <2>5, <2>8, <2>9
    <2> QED BY <2>4, <2>8, <2>10
  <1> QED BY <1>6, <1>7

\* The tokeniser of queries and that of documents agree on every plain text, up
\* to the terms of stop words, and no text is expanded.
THEOREM TokenisersDoAgree == TokenisersAgree
  <1> SUFFICES ASSUME NEW text \in Texts
               PROVE  LET terms == Parse(text)
                      IN  /\ terms = Tokenize(Normalize(text))
                          /\ Plain(text) => /\ ToSet(terms) \subseteq SimpleTokenize(text)
                                            /\ \A t \in SimpleTokenize(text) \ ToSet(terms) :
                                                  \E w \in StopWords : t \in SimpleTokenize(w)
    BY DEF TokenisersAgree
  <1>1. Parse(text) = Tokenize(Normalize(text))
    BY NothingExpanded
  <1>2. ASSUME Plain(text)
        PROVE  /\ ToSet(Parse(text)) \subseteq SimpleTokenize(text)
               /\ \A t \in SimpleTokenize(text) \ ToSet(Parse(text)) :
                     \E w \in StopWords : t \in SimpleTokenize(w)
    <2> DEFINE u == AtPlaces(ToLower(text), Cleared(ToLower(text)))
    <2>1. text \in Seq(STRING)
      BY TextsAssumption
    <2>2. u \in Seq(Small \ {"'"}) /\ Normalize(text) = RemoveStopWords(u) /\ SimpleTokenize(text) = Simple(u)
      BY <1>2, <2>1, PlainNormalized
    <2> HIDE DEF u
    <2>3. /\ ToSet(Tokenize(RemoveStopWords(u))) \subseteq Simple(u)
          /\ \A t \in Simple(u) \ ToSet(Tokenize(RemoveStopWords(u))) :
                \E w \in StopWords : t \in SimpleTokenize(w)
      BY <2>2, StopWordsLeftOut
    <2> QED BY <1>1, <2>2, <2>3
  <1> QED BY <1>1, <1>2

-----------------------------------------------------------------------------
(* What a search relies on, in memory and in the files: the term lists are *)
(* those of the inputs the documents were last added with, and what the    *)
(* graph holds are embeddings.                                             *)

ListsOfGiven(terms, inputs) ==
    /\ IsFiniteSet(DOMAIN inputs)
    /\ \A d \in DOMAIN inputs : inputs[d] \in Inputs
    /\ \A d \in DOMAIN terms : d \in DOMAIN inputs /\ terms[d] = TermsOf(inputs[d])

SearchInv ==
    /\ ListsOfGiven(docTerms, given)
    /\ IsFiniteSet(DOMAIN givenFile) /\ \A d \in DOMAIN givenFile : givenFile[d] \in Inputs
    /\ \A f \in file : ListsOfGiven(f.terms, givenFile)
    /\ faiss \in BOOLEAN
    /\ faiss => points \in Seq(Vectors) /\ vectorFile \subseteq Seq(Vectors)

LEMMA SearchInitInv == BuilderInit => SearchInv
  <1> SUFFICES ASSUME BuilderInit PROVE SearchInv
    OBVIOUS
  <1>1. /\ DOMAIN given = {} /\ DOMAIN givenFile = {} /\ DOMAIN docTerms = {} /\ file = {}
        /\ vectorFile = {} /\ points = <<>> /\ faiss \in BOOLEAN
    BY DEF BuilderInit, Init, VectorInit, EmptyMap
  <1>2. points \in Seq(Vectors)
    BY <1>1
  <1> QED BY <1>1, <1>2, FS_EmptySet DEF SearchInv, ListsOfGiven

LEMMA PutKeepsSearch ==
    ASSUME NEW d \in Docs, NEW in \in Inputs, SearchInv, Put(d, in)
    PROVE  SearchInv'
  <1>1. /\ given' = With(given, d, in) /\ givenFile' = givenFile /\ vectorFile' = vectorFile
        /\ file' = file /\ docTerms' = With(docTerms, d, TermsOf(in)) /\ faiss' = faiss
        /\ points' = IF faiss THEN Append(points, Encode[in]) ELSE points
    BY DEF Put, AddVector, AddDocument
  <1>2. DOMAIN given' = DOMAIN given \union {d} /\ IsFiniteSet(DOMAIN given')
    <2>1. DOMAIN given' = DOMAIN given \union {d}
      BY <1>1 DEF With
    <2> QED BY <2>1, FS_AddElement DEF SearchInv, ListsOfGiven
  <1>3. \A e \in DOMAIN given' : given'[e] = IF e = d THEN in ELSE given[e]
    BY <1>1 DEF With
  <1>4. /\ DOMAIN docTerms' = DOMAIN docTerms \union {d}
        /\ \A e \in DOMAIN docTerms' : docTerms'[e] = IF e = d THEN TermsOf(in) ELSE docTerms[e]
    BY <1>1 DEF With
  <1>5. ListsOfGiven(docTerms', given')
    BY <1>2, <1>3, <1>4 DEF SearchInv, ListsOfGiven
  <1>6. faiss => points' \in Seq(Vectors)
    <2>1. Encode[in] \in Vectors
      BY InputsEncoded
    <2> QED BY <1>1, <2>1 DEF SearchInv
  <1> QED BY <1>1, <1>5, <1>6 DEF SearchInv

LEMMA LoadKeepsSearch ==
    ASSUME SearchInv, LoadIndexes
    PROVE  SearchInv'
  <1>1. PICK f \in file :
           /\ docTerms' = [d \in {e \in DOMAIN f.terms : f.terms[e] # {}} |-> f.terms[d]]
           /\ file' = file
    BY DEF LoadIndexes, Load
  <1>2. /\ given' = givenFile /\ givenFile' = givenFile /\ vectorFile' = vectorFile /\ faiss' = faiss
        /\ faiss => points' \in vectorFile
    BY DEF LoadIndexes, LoadVectors
  <1>3. ListsOfGiven(f.terms, givenFile)
    BY DEF SearchInv
  <1>4. \A d \in DOMAIN docTerms' : d \in DOMAIN f.terms /\ docTerms'[d] = f.terms[d]
    BY <1>1
  <1>5. ListsOfGiven(docTerms', givenFile)
    BY <1>3, <1>4 DEF ListsOfGiven
  <1> QED BY <1>1, <1>2, <1>5 DEF SearchInv

LEMMA SearchNextInv == SearchInv /\ [BuilderNext]_builderVars => SearchInv'
  <1> SUFFICES ASSUME SearchInv, [BuilderNext]_builderVars
               PROVE  SearchInv'
    OBVIOUS
  <1>1. ASSUME NEW d \in Docs, NEW in \in Inputs, Put(d, in)
        PROVE  SearchInv'
    BY <1>1, PutKeepsSearch
  <1>2. ASSUME NEW d \in Docs, DeleteDocument(d)
        PROVE  SearchInv'
    <2>1. UNCHANGED <<given, givenFile, vectorFile, faiss, points, file>>
      BY <1>2 DEF DeleteDocument, RemoveDocument, vectorVars, vars
    <2>2. docTerms' = docTerms \/ docTerms' = Without(docTerms, d)
      BY <1>2 DEF DeleteDocument, RemoveDocument, vars, content
    <2>3. \A e \in DOMAIN docTerms' : e \in DOMAIN docTerms /\ docTerms'[e] = docTerms[e]
      BY <2>2 DEF Without
    <2>4. ListsOfGiven(docTerms', given)
      BY <2>3 DEF SearchInv, ListsOfGiven
    <2> QED BY <2>1, <2>4 DEF SearchInv
  <1>3. CASE ClearIndex
    <2>1. UNCHANGED <<given, givenFile, vectorFile, faiss, points, file>> /\ DOMAIN docTerms' = {}
      BY <1>3 DEF ClearIndex, Clear, vectorVars, EmptyMap
    <2> QED BY <2>1 DEF SearchInv, ListsOfGiven
  <1>4. CASE SaveIndexes
    <2>1. /\ UNCHANGED <<docTerms, given, faiss, points>> /\ givenFile' = given
          /\ \A f \in file' : f.terms = docTerms
      BY <1>4 DEF SaveIndexes, Save, SaveVectors, content
    <2>2. faiss => vectorFile' = {points}
      BY <1>4 DEF SaveIndexes, SaveVectors
    <2> QED BY <2>1, <2>2 DEF SearchInv, ListsOfGiven
  <1>5. CASE LoadIndexes
    BY <1>5, LoadKeepsSearch
  <1>6. CASE UNCHANGED builderVars
    BY <1>6 DEF builderVars, vectorVars, vars, content, SearchInv
  <1> QED BY <1>1, <1>2, <1>3, <1>4, <1>5, <1>6 DEF BuilderNext

-----------------------------------------------------------------------------
(* What a sort leaves.                                                     *)

LEMMA BestOfIs ==
    ASSUME NEW D, IsFiniteSet(D), NEW score, DOMAIN score = D, NEW n \in Nat,
           NEW p \in BestOf(score, n)
    PROVE  /\ p \in Seq(D) /\ Len(p) \in Nat /\ DOMAIN p = 1..Len(p)
           /\ \A i, j \in DOMAIN p : p[i] = p[j] => i = j
           /\ ToSet(p) \in SUBSET D /\ Cardinality(ToSet(p)) = Len(p) /\ IsFiniteSet(ToSet(p))
           /\ Len(p) <= n
           /\ ToSet(p) = D \/ Len(p) = n
           /\ (\A d \in D : score[d] \in Int) =>
                 \A d, e \in D : e \in ToSet(p) /\ score[d] > score[e]
                     => \E i, j \in DOMAIN p : i < j /\ p[i] = d /\ p[j] = e
  <1> DEFINE c == Cardinality(D)
  <1>1. PICK q \in SetToSeqs(D) :
           /\ \A i, j \in DOMAIN q : i < j => score[q[i]] >= score[q[j]]
           /\ p = SubSeq(q, 1, IF n < Len(q) THEN n ELSE Len(q))
    BY DEF BestOf
  <1>2. q \in Seq(D) /\ ToSet(q) = D
    BY EnumerationsCover
  <1>3. c \in Nat /\ q \in [1..c -> D] /\ \A i, j \in 1..c : i # j => q[i] # q[j]
    BY FS_CardinalityType DEF SetToSeqs
  <1>4. Len(q) = c
    BY <1>2, <1>3
  <1> DEFINE m == IF n < c THEN n ELSE c
  <1>5. m \in Nat /\ m <= n /\ m <= c /\ \A i \in 1..m : i \in 1..c
    BY <1>3
  <1> HIDE DEF c
  <1>6. p = SubSeq(q, 1, m)
    BY <1>1, <1>4
  <1>7. m = c \/ m = n
    OBVIOUS
  <1> HIDE DEF m
  <1>8. p \in Seq(D) /\ Len(p) = m /\ DOMAIN p = 1..m /\ \A i \in 1..m : p[i] = q[i]
    BY <1>2, <1>4, <1>5, <1>6
  <1>9. \A i, j \in 1..m : p[i] = p[j] => i = j
    BY <1>3, <1>5, <1>8
  <1>10. ToSet(p) \in SUBSET D
    BY <1>3, <1>5, <1>8 DEF ToSet
  <1>11. Cardinality(ToSet(p)) = m /\ IsFiniteSet(ToSet(p))
    <2>1. p \in [1..m -> ToSet(p)]
      BY <1>8 DEF ToSet
    <2>2. p \in Bijection(1..m, ToSet(p))
      BY <1>8, <1>9, <2>1 DEF Bijection, Injection, Surjection, IsInjective, ToSet
    <2> QED BY <1>5, <1>10, <2>2, FS_CountingElements, FS_Subset DEF ExistsBijection
  <1>12. m = c => ToSet(p) = D
    <2>1. SUFFICES ASSUME m = c, NEW d \in D PROVE d \in ToSet(p)
      BY <1>10
    <2>2. PICK i \in 1..c : q[i] = d
      BY <1>2, <1>3 DEF ToSet
    <2> QED BY <1>8, <2>1, <2>2 DEF ToSet
  <1>13. ASSUME \A d \in D : score[d] \in Int, NEW d \in D, NEW e \in D, e \in ToSet(p), score[d] > score[e]
         PROVE  \E i, j \in 1..m : i < j /\ p[i] = d /\ p[j] = e
    <2>1. PICK a \in 1..c : q[a] = d
      BY <1>2, <1>3 DEF ToSet
    <2>2. PICK b \in 1..m : p[b] = e
      BY <1>8, <1>13 DEF ToSet
    <2>3. b \in 1..c /\ q[b] = e
      BY <1>5, <1>8, <2>2
    <2>4. ~(b < a)
      <3>1. b < a => score[e] >= score[d]
        BY <1>1, <1>3, <2>1, <2>3
      <3>2. score[d] \in Int /\ score[e] \in Int
        BY <1>13
      <3> QED BY <1>13, <3>1, <3>2
    <2>5. a # b
      <3>1. score[d] # score[e]
        <4>1. score[d] \in Int /\ score[e] \in Int
          BY <1>13
        <4> QED BY <1>13, <4>1
      <3> QED BY <2>1, <2>3, <3>1
    <2>6. a < b /\ a \in 1..m
      BY <1>3, <1>5, <2>1, <2>2, <2>3, <2>4, <2>5
    <2> QED BY <1>8, <2>1, <2>2, <2>6
  <1> QED BY <1>5, <1>7, <1>8, <1>9, <1>10, <1>11, <1>12, <1>13

-----------------------------------------------------------------------------
(* What the two recall processors put out.                                 *)

LEMMA MinOfTwo ==
    ASSUME NEW a \in Nat, NEW b \in Nat
    PROVE  Min({a, b}) \in Nat /\ Min({a, b}) <= a /\ Min({a, b}) <= b
  <1>1. \E x \in {a, b} : \A y \in {a, b} : x =< y
    OBVIOUS
  <1>2. Min({a, b}) \in {a, b} /\ \A y \in {a, b} : Min({a, b}) =< y
    BY <1>1 DEF Min
  <1> QED BY <1>2

\* A list is a sequence of the finitely many values in it.
LEMMA ListIs ==
    ASSUME NEW n \in Nat, NEW p, p = [i \in 1..n |-> p[i]]
    PROVE  p \in Seq(ToSet(p)) /\ Len(p) = n /\ DOMAIN p = 1..n /\ IsFiniteSet(ToSet(p))
  <1>1. DOMAIN p = 1..n
    BY Zenon
  <1>2. ToSet(p) = {p[i] : i \in 1..n}
    BY <1>1 DEF ToSet
  <1>3. p \in [1..n -> ToSet(p)]
    BY <1>1, <1>2
  <1>4. p \in Seq(ToSet(p)) /\ Len(p) = n
    BY <1>3
  <1>5. p \in Surjection(1..n, ToSet(p))
    BY <1>2, <1>3 DEF Surjection
  <1>6. IsFiniteSet(1..n)
    BY FS_Interval
  <1>7. IsFiniteSet(ToSet(p))
    BY <1>5, <1>6, FS_Surjection
  <1> QED BY <1>1, <1>4, <1>7

LEMMA TermsOfQueryType ==
    ASSUME NEW text \in DOMAIN EncodeQuery
    PROVE  TermsOfQuery[text] = Parse(text) /\ TermsOfQuery[text] \in Seq(Seq(Small)) /\ text \in Texts
  <1>1. text \in Texts /\ text \in Seq(STRING)
    BY InputsEncoded, TextsAssumption
  <1>2. Tokenize(Normalize(text)) \in Seq(Seq(Small))
    BY <1>1, NormalizeType, TokensAreNoHeadwords
  <1> QED BY <1>1, <1>2, NothingExpanded DEF TermsOfQuery

\* The posting list of a term has the documents that have the term.
LEMMA PostingsAre ==
    ASSUME IndexInv, NEW t
    PROVE  Postings(t) = {d \in DOMAIN docTerms : t \in docTerms[d]}
  <1>1. \A d : d \in Postings(t) <=> Posting(index, t, d)
    BY DEF Postings, Posting
  <1>2. \A d : Posting(index, t, d) => t \in Terms /\ d \in Docs
    BY DEF IndexInv, Consistent, Inside, Posting
  <1>3. \A d : Listed(docTerms, d, t) => t \in Terms /\ d \in Docs
    BY DEF IndexInv, Consistent, Inside, Listed
  <1>4. \A d : Posting(index, t, d) <=> Listed(docTerms, d, t)
    BY <1>2, <1>3 DEF IndexInv, Consistent, BothWays
  <1> QED BY <1>1, <1>4 DEF Listed

HavingTerms(terms) == {d \in DOMAIN docTerms : ToSet(terms) \subseteq docTerms[d]}

\* The keyword recall puts out documents of the index, each once, and all that
\* have every term of the query, unless these are too many.
LEMMA SearchTermsIs ==
    ASSUME IndexInv, SearchInv, NEW X, NEW terms \in Seq(X), NEW p \in SearchTerms(terms)
    PROVE  /\ p \in Seq(DOMAIN docTerms) /\ Len(p) \in Nat /\ DOMAIN p = 1..Len(p)
           /\ \A i, j \in DOMAIN p : p[i] = p[j] => i = j
           /\ ToSet(p) \in SUBSET DOMAIN docTerms /\ IsFiniteSet(ToSet(p))
           /\ terms # <<>> /\ Cardinality(HavingTerms(terms)) <= MaxRecall
                 => HavingTerms(terms) \in SUBSET ToSet(p)
  <1> DEFINE n == Len(terms)
             found == UNION {Postings(terms[i]) : i \in DOMAIN terms}
             matching(d) == {i \in DOMAIN terms : d \in Postings(terms[i])}
             score == [d \in found |-> Cardinality(matching(d))]
  <1>1. n \in Nat /\ DOMAIN terms = 1..n /\ IsFiniteSet(DOMAIN terms) /\ Cardinality(DOMAIN terms) = n
    <2>1. n \in Nat /\ DOMAIN terms = 1..n
      OBVIOUS
    <2> QED BY <2>1, FS_Interval
  <1>2. IsFiniteSet(DOMAIN docTerms)
    <2>1. DOMAIN docTerms \in SUBSET DOMAIN given
      BY DEF SearchInv, ListsOfGiven
    <2> QED BY <2>1, FS_Subset DEF SearchInv, ListsOfGiven
  <1>3. found \in SUBSET DOMAIN docTerms
    BY PostingsAre
  <1>4. IsFiniteSet(found)
    BY <1>2, <1>3, FS_Subset
  <1>5. p \in BestOf(score, MaxRecall) /\ DOMAIN score = found
    BY DEF SearchTerms
  <1>6. \A d : IsFiniteSet(matching(d)) /\ Cardinality(matching(d)) \in Nat
               /\ Cardinality(matching(d)) <= n /\ (Cardinality(matching(d)) = n => matching(d) = DOMAIN terms)
    <2>1. SUFFICES ASSUME NEW d
                   PROVE  /\ IsFiniteSet(matching(d)) /\ Cardinality(matching(d)) \in Nat
                          /\ Cardinality(matching(d)) <= n
                          /\ Cardinality(matching(d)) = n => matching(d) = DOMAIN terms
      OBVIOUS
    <2>2. matching(d) \in SUBSET DOMAIN terms
      OBVIOUS
    <2> HIDE DEF matching, n
    <2> QED BY <1>1, <2>2, FS_Subset, FS_CardinalityType
  <1>7. \A d : matching(d) = DOMAIN terms <=> \A i \in DOMAIN terms : d \in Postings(terms[i])
    OBVIOUS
  <1>8. \A d \in found : score[d] = Cardinality(matching(d))
    OBVIOUS
  <1> HIDE DEF score, matching
  <1>9. /\ p \in Seq(found) /\ Len(p) \in Nat /\ DOMAIN p = 1..Len(p)
        /\ \A i, j \in DOMAIN p : p[i] = p[j] => i = j
        /\ ToSet(p) \in SUBSET found /\ Cardinality(ToSet(p)) = Len(p) /\ IsFiniteSet(ToSet(p))
        /\ ToSet(p) = found \/ Len(p) = MaxRecall
        /\ (\A d \in found : score[d] \in Int) =>
              \A d, e \in found : e \in ToSet(p) /\ score[d] > score[e]
                  => \E i, j \in DOMAIN p : i < j /\ p[i] = d /\ p[j] = e
    <2> HIDE DEF found
    <2> QED BY <1>4, <1>5, BestOfIs, RecallAssumption
  <1>10. ASSUME terms # <<>>, Cardinality(HavingTerms(terms)) <= MaxRecall,
                NEW d \in HavingTerms(terms), d \notin ToSet(p)
         PROVE  FALSE
    <2> DEFINE A == HavingTerms(terms)
    <2>1. \A e \in DOMAIN docTerms : e \in A <=> \A i \in DOMAIN terms : e \in Postings(terms[i])
      BY PostingsAre DEF HavingTerms, ToSet
    <2>2. d \in found /\ A \in SUBSET DOMAIN docTerms
      <3>1. 1 \in DOMAIN terms
        BY <1>10, <1>1
      <3>2. d \in DOMAIN docTerms
        BY DEF HavingTerms
      <3> QED BY <2>1, <3>1, <3>2 DEF HavingTerms
    <2>3. score[d] = n
      <3>1. matching(d) = DOMAIN terms
        BY <1>3, <1>7, <2>1, <2>2
      <3> QED BY <1>1, <1>8, <2>2, <3>1
    <2>4. \A e \in found : score[e] \in Int
      BY <1>6, <1>8
    <2>5. ToSet(p) \in SUBSET A
      <3>1. SUFFICES ASSUME NEW e \in ToSet(p) PROVE e \in A
        OBVIOUS
      <3>2. e \in found
        BY <1>9
      <3>3. ~(score[d] > score[e])
        <4>1. ASSUME NEW i \in DOMAIN p, p[i] = d PROVE FALSE
          BY <1>10, <4>1 DEF ToSet
        <4> HIDE DEF found
        <4> QED BY <1>9, <2>2, <2>4, <3>2, <4>1
      <3>4. Cardinality(matching(e)) = n
        <4> HIDE DEF n, found
        <4>1. score[e] = Cardinality(matching(e)) /\ score[e] \in Nat /\ score[e] <= n
          BY <1>6, <1>8, <3>2
        <4> QED BY <1>1, <2>3, <3>3, <4>1
      <3>5. matching(e) = DOMAIN terms
        BY <1>6, <3>4
      <3> QED BY <1>3, <1>7, <2>1, <3>2, <3>5
    <2>6. Len(p) = MaxRecall
      BY <1>9, <1>10, <2>2
    <2>7. IsFiniteSet(A) /\ Cardinality(ToSet(p) \cup {d}) = MaxRecall + 1
      BY <1>2, <1>9, <1>10, <2>2, <2>6, FS_Subset, FS_AddElement
    <2>8. ToSet(p) \cup {d} \in SUBSET A
      BY <2>5
    <2>9. Cardinality(ToSet(p) \cup {d}) <= Cardinality(A)
      BY <2>7, <2>8, FS_Subset
    <2>10. Cardinality(A) \in Nat
      BY <2>7, FS_CardinalityType
    <2> HIDE DEF A
    <2> QED BY <1>10, <2>7, <2>9, <2>10, RecallAssumption DEF A
  <1> HIDE DEF found
  <1>11. p \in Seq(DOMAIN docTerms)
    <2>1. \A i \in 1..Len(p) : p[i] \in DOMAIN docTerms
      BY <1>3, <1>9 DEF ToSet
    <2> QED BY <1>9, <2>1
  <1> QED BY <1>3, <1>9, <1>10, <1>11

\* A hit of a list that is cut.
LEMMA CutList ==
    ASSUME NEW n \in Nat, NEW q, q = [i \in 1..n |-> q[i]], NEW k \in Nat
    PROVE  LET p == SubSeq(q, 1, Min({Len(q), k}))
           IN  /\ p \in Seq(ToSet(p)) /\ Len(p) \in Nat /\ DOMAIN p = 1..Len(p) /\ IsFiniteSet(ToSet(p))
               /\ ToSet(p) \in SUBSET ToSet(q)
               /\ (\A i, j \in 1..n : q[i] = q[j] => i = j) => \A i, j \in DOMAIN p : p[i] = p[j] => i = j
  <1> DEFINE m == Min({Len(q), k})
             p == SubSeq(q, 1, m)
  <1>1. q \in Seq(ToSet(q)) /\ Len(q) = n /\ DOMAIN q = 1..n
    BY ListIs
  <1>2. m \in Nat /\ m <= n
    BY <1>1, MinOfTwo
  <1> HIDE DEF m
  <1>3. p \in Seq(ToSet(q)) /\ Len(p) = m /\ DOMAIN p = 1..m /\ \A i \in 1..m : p[i] = q[i]
    BY <1>1, <1>2
  <1>4. p = [i \in 1..m |-> p[i]]
    BY <1>3
  <1>5. \A i \in 1..m : i \in 1..n
    BY <1>2
  <1>6. ToSet(p) \in SUBSET ToSet(q)
    BY <1>1, <1>3, <1>5 DEF ToSet
  <1>7. (\A i, j \in 1..n : q[i] = q[j] => i = j) => \A i, j \in DOMAIN p : p[i] = p[j] => i = j
    BY <1>3, <1>5
  <1> HIDE DEF p
  <1>8. p \in Seq(ToSet(p)) /\ Len(p) = m /\ DOMAIN p = 1..m /\ IsFiniteSet(ToSet(p))
    BY <1>2, <1>4, ListIs
  <1>9. /\ p \in Seq(ToSet(p)) /\ Len(p) \in Nat /\ DOMAIN p = 1..Len(p) /\ IsFiniteSet(ToSet(p))
        /\ ToSet(p) \in SUBSET ToSet(q)
        /\ (\A i, j \in 1..n : q[i] = q[j] => i = j) => \A i, j \in DOMAIN p : p[i] = p[j] => i = j
    BY <1>2, <1>6, <1>7, <1>8
  <1> QED BY <1>9 DEF p, m

\* The vector recall puts out a finite list; without Faiss one of documents
\* that were added, each once.
LEMMA VectorRecallIs ==
    ASSUME VectorInv, SearchInv, NEW text \in DOMAIN EncodeQuery, NEW p \in VectorRecall(text)
    PROVE  /\ p \in Seq(ToSet(p)) /\ Len(p) \in Nat /\ DOMAIN p = 1..Len(p) /\ IsFiniteSet(ToSet(p))
           /\ ~faiss => /\ ToSet(p) \in SUBSET DOMAIN given
                        /\ \A i, j \in DOMAIN p : p[i] = p[j] => i = j
  <1>1. CASE TermsOfQuery[text] = <<>>
    <2>1. p = <<>>
      BY <1>1 DEF VectorRecall
    <2>2. ToSet(p) = {} /\ p \in Seq(ToSet(p)) /\ Len(p) = 0 /\ DOMAIN p = 1..0 /\ 1..0 = {}
      BY <2>1 DEF ToSet
    <2> QED BY <2>2, FS_EmptySet
  <1>2. CASE TermsOfQuery[text] # <<>>
    <2> DEFINE v == EncodeQuery[text]
    <2>1. PICK q \in SearchVectors(v) : p = SubSeq(q, 1, Min({Len(q), MaxRecall}))
      BY <1>2 DEF VectorRecall
    <2>2. \E n \in Nat : /\ q = [i \in 1..n |-> q[i]]
                         /\ ~faiss => /\ ToSet(q) \in SUBSET DOMAIN given
                                      /\ \A i, j \in 1..n : q[i] = q[j] => i = j
      <3>1. CASE faiss
        <4>0. IsFiniteSet(DOMAIN points)
          <5> DEFINE n == Len(points)
          <5>1. points \in Seq(Vectors)
            BY <3>1 DEF SearchInv
          <5>2. n \in Nat /\ DOMAIN points = 1..n
            BY <5>1
          <5>3. 0 \in Int /\ 1 \in Int /\ n \in Int
            BY <5>2
          <5> HIDE DEF n
          <5>4. IsFiniteSet(1..n)
            BY <5>2, <5>3, FS_Interval
          <5> QED BY <5>2, <5>4
        <4> DEFINE D == DOMAIN points
                   near(list) == AtPlaces(list, {i \in DOMAIN list :
                       Similarity[v, points[list[i]]] >= Threshold /\ list[i] <= Len(idMap)})
                   score == [x \in D |-> Similarity[v, points[x]]]
        <4>1. PICK list \in BestOf(score, TopK) : q = [i \in DOMAIN near(list) |-> idMap[near(list)[i]]]
          BY <2>1, <3>1 DEF SearchVectors, GraphHits
        <4>2. IsFiniteSet(D) /\ DOMAIN score = D
          <5>1. DOMAIN score = D
            OBVIOUS
          <5> QED BY <4>0, <5>1
        <4> HIDE DEF score, D
        <4>3. list \in Seq(D)
          BY <4>2, BestOfIs, TopKAssumption
        <4> DEFINE P == {i \in DOMAIN list :
                       Similarity[v, points[list[i]]] >= Threshold /\ list[i] <= Len(idMap)}
        <4>4. P \in SUBSET DOMAIN list /\ near(list) = AtPlaces(list, P)
          OBVIOUS
        <4> HIDE DEF P, near
        <4>5. Cardinality(P) \in Nat /\ DOMAIN near(list) = 1..Cardinality(P)
          BY <4>3, <4>4, AtPlacesIs
        <4>6. q = [i \in 1..Cardinality(P) |-> q[i]]
          BY <4>1, <4>5
        <4> QED BY <3>1, <4>5, <4>6
      <3>2. CASE ~faiss
        <4> DEFINE near == {d \in DOMAIN vectors : Similarity[v, vectors[d]] >= Threshold}
                   score == [d \in near |-> Similarity[v, vectors[d]]]
        <4>1. q \in BestOf(score, TopK) /\ DOMAIN score = near
          BY <2>1, <3>2 DEF SearchVectors, ScanHits
        <4>2. near \in SUBSET DOMAIN given /\ IsFiniteSet(near)
          <5>1. DOMAIN vectors = DOMAIN given /\ IsFiniteSet(DOMAIN given)
            BY <3>2 DEF VectorInv, ScanInv, EncodedOf
          <5> QED BY <5>1, FS_Subset
        <4> HIDE DEF score, near
        <4>3. /\ q \in Seq(near) /\ Len(q) \in Nat /\ DOMAIN q = 1..Len(q) /\ ToSet(q) \in SUBSET near
              /\ \A i, j \in DOMAIN q : q[i] = q[j] => i = j
          BY <4>1, <4>2, BestOfIs, TopKAssumption
        <4>4. q = [i \in 1..Len(q) |-> q[i]]
          BY <4>3
        <4> QED BY <4>2, <4>3, <4>4
      <3> QED BY <3>1, <3>2
    <2>3. PICK n \in Nat : /\ q = [i \in 1..n |-> q[i]]
                           /\ ~faiss => /\ ToSet(q) \in SUBSET DOMAIN given
                                        /\ \A i, j \in 1..n : q[i] = q[j] => i = j
      BY <2>2
    <2>4. /\ p \in Seq(ToSet(p)) /\ Len(p) \in Nat /\ DOMAIN p = 1..Len(p) /\ IsFiniteSet(ToSet(p))
          /\ ToSet(p) \in SUBSET ToSet(q)
          /\ (\A i, j \in 1..n : q[i] = q[j] => i = j) => \A i, j \in DOMAIN p : p[i] = p[j] => i = j
      BY <2>1, <2>3, RecallAssumption, CutList
    <2> QED BY <2>3, <2>4
  <1> QED BY <1>1, <1>2

-----------------------------------------------------------------------------
(* The fusion.  The terms 1 / (k + rank + 1) are kept as shares of a       *)
(* common multiple of the denominators; all that matters of it is that     *)
(* each of them divides it, so that a share is positive and less than that *)
(* of any rank before it.                                                  *)

\* Each number of 1..n, with RrfK, divides m.
Divides(n, m) == m \in Nat \ {0} /\ \A r \in 1..n : \E q \in Nat \ {0} : m = q * (RrfK + r)

\* f[r] is the product of the first r denominators.
Products(L, f) == f = [r \in 0..L |-> IF r = 0 THEN 1 ELSE f[r - 1] * (RrfK + r)]

LEMMA ProductsExist ==
    ASSUME NEW L \in Nat
    PROVE  \E f : Products(L, f)
  <1> DEFINE S == Int
             one == 1
             step == [k \in 1..L |-> [s \in S |-> s * (RrfK + k)]]
  <1>1. RrfK \in Int /\ 1 \in S /\ \A k \in 1..L : k \in Int
    BY FusionAssumption
  <1>2. step \in [1..L -> [S -> S]] /\ one \in S
    <2>1. \A k \in 1..L : [s \in S |-> s * (RrfK + k)] \in [S -> S]
      BY <1>1
    <2> QED BY <2>1, <1>1
  <1> HIDE DEF step, S, one
  <1>3. RoundByRound(S, one, L, step)
    BY <1>2, RoundsExist
  <1>4. PICK f \in [0..L -> S] : f[0] = one /\ \A k \in 1..L : f[k] = step[k][f[k - 1]]
    BY <1>3 DEF RoundByRound
  <1>5. ASSUME NEW r \in 0..L
        PROVE  f[r] = IF r = 0 THEN 1 ELSE f[r - 1] * (RrfK + r)
    <2>1. CASE r = 0
      BY <1>4, <2>1 DEF one
    <2>2. CASE r # 0
      <3>1. r \in 1..L /\ r - 1 \in 0..L
        BY <2>2
      <3>2. f[r - 1] \in S /\ f[r] = step[r][f[r - 1]]
        BY <1>4, <3>1
      <3> QED BY <2>2, <3>1, <3>2 DEF step
    <2> QED BY <2>1, <2>2
  <1>6. f = [r \in 0..L |-> f[r]]
    BY <1>4
  <1> QED BY <1>5, <1>6 DEF Products

LEMMA ProductsDivide ==
    ASSUME NEW L \in Nat, NEW f, Products(L, f)
    PROVE  Divides(L, f[L])
  <1> DEFINE P == {k \in 0..L : Divides(k, f[k])}
  <1>1. RrfK \in Nat
    BY FusionAssumption
  <1>2. 0 \in P
    <2>1. f[0] = 1 /\ 0 \in 0..L /\ 1..0 = {}
      BY DEF Products
    <2> QED BY <2>1 DEF Divides
  <1>3. ASSUME NEW k \in 1..L, k - 1 \in P PROVE k \in P
    <2> DEFINE c == f[k - 1]
    <2>1. k \in 0..L /\ k # 0 /\ k \in Nat \ {0}
      OBVIOUS
    <2>2. f[k] = c * (RrfK + k)
      BY <2>1 DEF Products
    <2>3. Divides(k - 1, c)
      BY <1>3
    <2> HIDE DEF c
    <2>4. c \in Nat \ {0} /\ RrfK + k \in Nat \ {0}
      BY <1>1, <2>1, <2>3 DEF Divides
    <2>5. f[k] \in Nat \ {0}
      BY <2>2, <2>4
    <2>6. ASSUME NEW r \in 1..k PROVE \E q \in Nat \ {0} : f[k] = q * (RrfK + r)
      <3>1. CASE r = k
        BY <2>2, <2>4, <3>1
      <3>2. CASE r # k
        <4>1. r \in 1..k - 1 /\ r \in Nat
          BY <2>1, <3>2
        <4>2. PICK q \in Nat \ {0} : c = q * (RrfK + r)
          BY <2>3, <4>1 DEF Divides
        <4> DEFINE m == RrfK + k
                   n == RrfK + r
        <4>3. m \in Nat \ {0} /\ n \in Nat /\ f[k] = (q * n) * m
          BY <1>1, <2>2, <2>4, <4>1, <4>2
        <4> HIDE DEF m, n
        <4>4. q * m \in Nat \ {0}
          BY <4>3
        <4>5. (q * n) * m = (q * m) * n
          BY <4>3
        <4>6. f[k] = (q * m) * n
          BY <4>3, <4>5
        <4> QED BY <4>4, <4>6 DEF n
      <3> QED BY <3>1, <3>2
    <2> QED BY <2>1, <2>5, <2>6 DEF Divides
  <1>4. P = 0..L
    <2>1. P \in SUBSET (0..L)
      OBVIOUS
    <2> HIDE DEF P
    <2> QED BY <1>2, <1>3, <2>1, PlaceByPlace
  <1>5. L \in P
    BY <1>4
  <1> QED BY <1>5

\* What the ranks contribute: the less the further down.
Shares(L, share) ==
    /\ share \in [1..L -> Nat \ {0}]
    /\ \A r, s \in 1..L : r < s => share[r] > share[s]

LEMMA Quotients ==
    ASSUME NEW x \in Nat \ {0}, NEW y \in Nat \ {0}, NEW p \in Nat \ {0}, NEW q \in Nat \ {0},
           p * x = q * y, x < y
    PROVE  p > q
  <1>1. SUFFICES ASSUME p <= q PROVE FALSE
    OBVIOUS
  <1>2. p * x <= q * x
    BY <1>1
  <1>3. q * x < q * y
    OBVIOUS
  <1> QED BY <1>2, <1>3

LEMMA DivisionsShare ==
    ASSUME NEW L \in Nat, NEW m, Divides(L, m)
    PROVE  Shares(L, [r \in 1..L |-> m \div (RrfK + r)])
  <1> DEFINE share == [r \in 1..L |-> m \div (RrfK + r)]
  <1>1. \A r \in 1..L : r \in Nat \ {0} /\ RrfK + r \in Nat \ {0}
    BY FusionAssumption
  <1>2. ASSUME NEW r \in 1..L
        PROVE  share[r] \in Nat \ {0} /\ m = share[r] * (RrfK + r)
    <2>1. PICK q \in Nat \ {0} : m = q * (RrfK + r)
      BY DEF Divides
    <2> DEFINE n == RrfK + r
    <2>2. n \in Nat \ {0} /\ m = q * n /\ share[r] = m \div n
      BY <1>1, <2>1
    <2> HIDE DEF n, share
    <2>3. (q * n) \div n = q
      BY <2>2
    <2> QED BY <2>2, <2>3 DEF n
  <1>3. ASSUME NEW r \in 1..L, NEW s \in 1..L, r < s
        PROVE  share[r] > share[s]
    <2>1. share[r] * (RrfK + r) = share[s] * (RrfK + s)
      BY <1>2
    <2>2. RrfK + r < RrfK + s
      BY <1>1, <1>3, FusionAssumption
    <2> HIDE DEF share
    <2> QED BY <1>1, <1>2, <2>1, <2>2, Quotients
  <1> HIDE DEF share
  <1>4. share = [r \in 1..L |-> share[r]]
    BY DEF share
  <1>5. Shares(L, share)
    BY <1>2, <1>3, <1>4 DEF Shares
  <1> QED BY <1>5 DEF share

\* What a list contributes to the score of a document.
RankIn(list, d) == CHOOSE i \in DOMAIN list : list[i] = d
Gain(list, d, share) == IF d \in ToSet(list) THEN share[RankIn(list, d)] ELSE 0

LEMMA RankIs ==
    ASSUME NEW list, \A i, j \in DOMAIN list : list[i] = list[j] => i = j, NEW i \in DOMAIN list
    PROVE  list[i] \in ToSet(list) /\ RankIn(list, list[i]) = i
  BY DEF RankIn, ToSet

LEMMA GainType ==
    ASSUME NEW L \in Nat, NEW share, Shares(L, share), NEW list,
           DOMAIN list \in SUBSET (1..L), NEW d
    PROVE  Gain(list, d, share) \in Nat
  <1>1. CASE d \in ToSet(list)
    <2>1. RankIn(list, d) \in DOMAIN list
      BY <1>1 DEF RankIn, ToSet
    <2> QED BY <1>1, <2>1 DEF Gain, Shares
  <1>2. CASE d \notin ToSet(list)
    BY <1>2 DEF Gain
  <1> QED BY <1>1, <1>2

\* A document that comes before another in a list gets no less from it, and
\* more when the other is there.
LEMMA GainFollows ==
    ASSUME NEW L \in Nat, NEW share, Shares(L, share), NEW list,
           DOMAIN list \in SUBSET (1..L), \A i, j \in DOMAIN list : list[i] = list[j] => i = j,
           NEW d, NEW e, Before(list, d, e)
    PROVE  /\ Gain(list, d, share) \in Nat /\ Gain(list, e, share) \in Nat
           /\ Gain(list, d, share) >= Gain(list, e, share)
           /\ e \in ToSet(list) => Gain(list, d, share) > Gain(list, e, share)
  <1>1. \A x : Gain(list, x, share) \in Nat
    BY GainType
  <1>2. CASE e \notin ToSet(list)
    <2>1. Gain(list, e, share) = 0
      BY <1>2 DEF Gain
    <2> QED BY <1>1, <1>2, <2>1
  <1>3. CASE e \in ToSet(list)
    <2>1. PICK i, j \in DOMAIN list : i < j /\ list[i] = d /\ list[j] = e
      BY <1>3 DEF Before
    <2>2. /\ d \in ToSet(list) /\ RankIn(list, d) = i /\ i \in 1..L
          /\ e \in ToSet(list) /\ RankIn(list, e) = j /\ j \in 1..L
      BY <2>1, RankIs
    <2>3. Gain(list, d, share) = share[i] /\ Gain(list, e, share) = share[j] /\ share[i] > share[j]
      BY <2>1, <2>2 DEF Gain, Shares
    <2>4. Gain(list, d, share) \in Nat /\ Gain(list, e, share) \in Nat
      BY <1>1
    <2> QED BY <2>3, <2>4
  <1> QED BY <1>2, <1>3

-----------------------------------------------------------------------------
(* The scores of the fusion are sums of shares.                            *)

LEMMA SumOfOne ==
    ASSUME NEW f, NEW x, f[x] \in Int
    PROVE  Sum(f, {x}) = f[x]
  <1>1. IsFiniteSet({x}) /\ {x} \ {x} = {}
    BY FS_Singleton
  <1>2. Sum(f, {x}) = f[x] + Sum(f, {x} \ {x})
    BY <1>1, SumWithout
  <1> QED BY <1>1, <1>2, SumEmpty

LEMMA SumOfTwo ==
    ASSUME NEW f, NEW x, NEW y, x # y, f[x] \in Int, f[y] \in Int
    PROVE  Sum(f, {x, y}) = f[x] + f[y]
  <1> DEFINE S == {x, y}
  <1>1. IsFiniteSet(S)
    <2>1. IsFiniteSet({x}) /\ S = {x} \cup {y}
      BY FS_Singleton
    <2> QED BY <2>1, FS_AddElement
  <1>2. (\A z \in S : f[z] \in Int) /\ x \in S /\ S \ {x} = {y}
    OBVIOUS
  <1> HIDE DEF S
  <1>3. Sum(f, S) = f[x] + Sum(f, S \ {x})
    BY <1>1, <1>2, SumWithout
  <1>4. Sum(f, {y}) = f[y]
    BY SumOfOne
  <1> QED BY <1>2, <1>3, <1>4 DEF S

Both(a, b) == <<a, b>>

\* The places of a document in two lists.
FusedPlaces(lists, L, d) ==
    {p \in (DOMAIN lists) \X (1..L) : p[2] \in DOMAIN lists[p[1]] /\ lists[p[1]][p[2]] = d}

PlaceIn(n, list, d) == IF d \in ToSet(list) THEN {<<n, RankIn(list, d)>>} ELSE {}

LEMMA FusedPlacesAre ==
    ASSUME NEW L \in Nat, NEW a, NEW b, NEW d,
           DOMAIN a \in SUBSET (1..L), \A i, j \in DOMAIN a : a[i] = a[j] => i = j,
           DOMAIN b \in SUBSET (1..L), \A i, j \in DOMAIN b : b[i] = b[j] => i = j
    PROVE  FusedPlaces(Both(a, b), L, d) = PlaceIn(1, a, d) \cup PlaceIn(2, b, d)
  <1> DEFINE lists == Both(a, b)
             F == FusedPlaces(lists, L, d)
  <1>1. DOMAIN lists = {1, 2} /\ lists[1] = a /\ lists[2] = b
    BY DEF Both
  <1>2. ASSUME NEW n \in {1, 2}, NEW r
        PROVE  <<n, r>> \in F <=> r \in DOMAIN lists[n] /\ lists[n][r] = d
    <2>1. <<n, r>>[1] = n /\ <<n, r>>[2] = r
      OBVIOUS
    <2>2. r \in DOMAIN lists[n] => r \in 1..L
      BY <1>1
    <2> HIDE DEF lists
    <2> QED BY <1>1, <2>1, <2>2 DEF FusedPlaces
  <1>3. ASSUME NEW list, \A i, j \in DOMAIN list : list[i] = list[j] => i = j, NEW r
        PROVE  (r \in DOMAIN list /\ list[r] = d) <=> (d \in ToSet(list) /\ r = RankIn(list, d))
    BY <1>3 DEF RankIn, ToSet
  <1>4. \A p \in F : \E n \in {1, 2}, r \in 1..L : p = <<n, r>>
    BY <1>1 DEF FusedPlaces
  <1>5. ASSUME NEW n \in {1, 2}, NEW r, NEW m \in {1, 2}, NEW list
        PROVE  <<n, r>> \in PlaceIn(m, list, d) <=> n = m /\ d \in ToSet(list) /\ r = RankIn(list, d)
    BY DEF PlaceIn
  <1> HIDE DEF F, lists
  <1>6. \A r : <<1, r>> \in F <=> <<1, r>> \in PlaceIn(1, a, d) \cup PlaceIn(2, b, d)
    <2>1. SUFFICES ASSUME NEW r PROVE <<1, r>> \in F <=> <<1, r>> \in PlaceIn(1, a, d) \cup PlaceIn(2, b, d)
      OBVIOUS
    <2>2. <<1, r>> \in F <=> r \in DOMAIN a /\ a[r] = d
      BY <1>1, <1>2
    <2>3. <<1, r>> \notin PlaceIn(2, b, d)
      BY <1>5
    <2>4. <<1, r>> \in PlaceIn(1, a, d) <=> d \in ToSet(a) /\ r = RankIn(a, d)
      BY <1>5
    <2>5. (r \in DOMAIN a /\ a[r] = d) <=> (d \in ToSet(a) /\ r = RankIn(a, d))
      BY <1>3
    <2> QED BY <2>2, <2>3, <2>4, <2>5
  <1>7. \A r : <<2, r>> \in F <=> <<2, r>> \in PlaceIn(1, a, d) \cup PlaceIn(2, b, d)
    <2>1. SUFFICES ASSUME NEW r PROVE <<2, r>> \in F <=> <<2, r>> \in PlaceIn(1, a, d) \cup PlaceIn(2, b, d)
      OBVIOUS
    <2>2. <<2, r>> \in F <=> r \in DOMAIN b /\ b[r] = d
      BY <1>1, <1>2
    <2>3. <<2, r>> \notin PlaceIn(1, a, d)
      BY <1>5
    <2>4. <<2, r>> \in PlaceIn(2, b, d) <=> d \in ToSet(b) /\ r = RankIn(b, d)
      BY <1>5
    <2>5. (r \in DOMAIN b /\ b[r] = d) <=> (d \in ToSet(b) /\ r = RankIn(b, d))
      BY <1>3
    <2> QED BY <2>2, <2>3, <2>4, <2>5
  <1>8. \A p \in PlaceIn(1, a, d) \cup PlaceIn(2, b, d) : \E n \in {1, 2} : \E r : p = <<n, r>>
    BY DEF PlaceIn
  <1>9. \A p : p \in F <=> p \in PlaceIn(1, a, d) \cup PlaceIn(2, b, d)
    BY <1>4, <1>6, <1>7, <1>8
  <1> QED BY <1>9 DEF F, lists

\* The sum over them.
LEMMA SumOverPlaces ==
    ASSUME NEW L \in Nat, NEW share, Shares(L, share), NEW part, NEW a, NEW b, NEW d,
           \A n \in {1, 2}, r \in 1..L : part[<<n, r>>] = share[r],
           DOMAIN a \in SUBSET (1..L), DOMAIN b \in SUBSET (1..L)
    PROVE  Sum(part, PlaceIn(1, a, d) \cup PlaceIn(2, b, d)) = Gain(a, d, share) + Gain(b, d, share)
  <1> DEFINE x == <<1, RankIn(a, d)>>
             y == <<2, RankIn(b, d)>>
             U == PlaceIn(1, a, d) \cup PlaceIn(2, b, d)
  <1>1. d \in ToSet(a) => RankIn(a, d) \in 1..L
    BY DEF RankIn, ToSet
  <1>2. d \in ToSet(b) => RankIn(b, d) \in 1..L
    BY DEF RankIn, ToSet
  <1>3. d \in ToSet(a) => part[x] = Gain(a, d, share) /\ part[x] \in Int
    BY <1>1 DEF Gain, Shares
  <1>4. d \in ToSet(b) => part[y] = Gain(b, d, share) /\ part[y] \in Int
    BY <1>2 DEF Gain, Shares
  <1>5. x # y
    OBVIOUS
  <1>6. /\ PlaceIn(1, a, d) = IF d \in ToSet(a) THEN {x} ELSE {}
        /\ PlaceIn(2, b, d) = IF d \in ToSet(b) THEN {y} ELSE {}
    BY DEF PlaceIn
  <1>7. /\ d \notin ToSet(a) => Gain(a, d, share) = 0
        /\ d \notin ToSet(b) => Gain(b, d, share) = 0
    BY DEF Gain
  <1>8. U = (IF d \in ToSet(a) THEN {x} ELSE {}) \cup (IF d \in ToSet(b) THEN {y} ELSE {})
    BY <1>6
  <1> HIDE DEF x, y, U
  <1>9. ASSUME d \in ToSet(a) /\ d \in ToSet(b)
        PROVE  Sum(part, U) = Gain(a, d, share) + Gain(b, d, share)
    <2>1. U = {x, y}
      BY <1>8, <1>9
    <2>2. Sum(part, {x, y}) = part[x] + part[y]
      BY <1>3, <1>4, <1>5, <1>9, SumOfTwo
    <2> QED BY <1>3, <1>4, <1>9, <2>1, <2>2
  <1>10. ASSUME d \in ToSet(a) /\ d \notin ToSet(b)
        PROVE  Sum(part, U) = Gain(a, d, share) + Gain(b, d, share)
    <2>1. U = {x}
      BY <1>8, <1>10
    <2>2. Sum(part, {x}) = part[x]
      BY <1>3, <1>10, SumOfOne
    <2> QED BY <1>3, <1>7, <1>10, <2>1, <2>2
  <1>11. ASSUME d \notin ToSet(a) /\ d \in ToSet(b)
        PROVE  Sum(part, U) = Gain(a, d, share) + Gain(b, d, share)
    <2>1. U = {y}
      BY <1>8, <1>11
    <2>2. Sum(part, {y}) = part[y]
      BY <1>4, <1>11, SumOfOne
    <2> QED BY <1>4, <1>7, <1>11, <2>1, <2>2
  <1>12. ASSUME d \notin ToSet(a) /\ d \notin ToSet(b)
        PROVE  Sum(part, U) = Gain(a, d, share) + Gain(b, d, share)
    <2>1. U = {}
      BY <1>8, <1>12
    <2>2. Sum(part, {}) = 0
      BY SumEmpty
    <2> QED BY <1>7, <1>12, <2>1, <2>2
  <1>13. Sum(part, U) = Gain(a, d, share) + Gain(b, d, share)
    BY <1>9, <1>10, <1>11, <1>12
  <1> QED BY <1>13 DEF U

\* The scores.
GainsAdd(a, b, L, share) ==
    /\ L \in Nat /\ Shares(L, share) /\ DOMAIN a \in SUBSET (1..L) /\ DOMAIN b \in SUBSET (1..L)
    /\ \A d \in ToSet(a) \cup ToSet(b) :
          FusedScores(<<a, b>>)[d] = Gain(a, d, share) + Gain(b, d, share)

LEMMA FusedDocuments ==
    ASSUME NEW a, NEW b
    PROVE  DOMAIN FusedScores(<<a, b>>) = ToSet(a) \cup ToSet(b)
  <1> DEFINE lists == <<a, b>>
  <1>1. DOMAIN FusedScores(lists) = UNION {ToSet(lists[i]) : i \in DOMAIN lists}
    BY DEF FusedScores
  <1>2. DOMAIN lists = {1, 2} /\ lists[1] = a /\ lists[2] = b
    OBVIOUS
  <1> QED BY <1>1, <1>2

LEMMA FusedScoresAdd ==
    ASSUME NEW a, Len(a) \in Nat, DOMAIN a = 1..Len(a), \A i, j \in DOMAIN a : a[i] = a[j] => i = j,
           NEW b, Len(b) \in Nat, DOMAIN b = 1..Len(b), \A i, j \in DOMAIN b : b[i] = b[j] => i = j
    PROVE  \E L, share : GainsAdd(a, b, L, share)
  <1> DEFINE lists == Both(a, b)
             L == Max({0} \cup {Len(lists[i]) : i \in DOMAIN lists})
             common == CHOOSE f : Products(L, f)
             part == [p \in (DOMAIN lists) \X (1..L) |-> common[L] \div (RrfK + p[2])]
             share == [r \in 1..L |-> common[L] \div (RrfK + r)]
  <1>1. DOMAIN lists = {1, 2} /\ lists[1] = a /\ lists[2] = b
    BY DEF Both
  <1>2. L \in Nat /\ Len(a) <= L /\ Len(b) <= L
    <2> DEFINE P == {0} \cup {Len(lists[i]) : i \in DOMAIN lists}
    <2>1. P = {0, Len(a), Len(b)}
      BY <1>1
    <2>2. P \in SUBSET (0..Len(a) + Len(b)) /\ P # {} /\ Len(a) + Len(b) \in Nat
      BY <2>1
    <2>3. Len(a) \in P /\ Len(b) \in P /\ \A x \in P : x \in Nat
      BY <2>1
    <2>4. L = Max(P)
      OBVIOUS
    <2> HIDE DEF P, L
    <2>5. Max(P) \in P /\ \A x \in P : x <= Max(P)
      BY <2>2, LastPlace
    <2> QED BY <2>3, <2>4, <2>5
  <1> HIDE DEF L
  <1>3. Products(L, common)
    BY <1>2, ProductsExist
  <1>4. Divides(L, common[L])
    <2> HIDE DEF common
    <2> QED BY <1>2, <1>3, ProductsDivide
  <1>5. Shares(L, share)
    <2> HIDE DEF common
    <2> QED BY <1>2, <1>4, DivisionsShare
  <1>6. \A n \in {1, 2}, r \in 1..L : part[<<n, r>>] = share[r]
    <2> HIDE DEF common, lists
    <2> QED BY <1>1
  <1>7. ASSUME NEW d \in UNION {ToSet(lists[i]) : i \in DOMAIN lists}
        PROVE  FusedScores(lists)[d] = Sum(part, FusedPlaces(lists, L, d))
    BY DEF FusedScores, Sum, FusedPlaces, Products, L
  <1>8. DOMAIN a \in SUBSET (1..L) /\ DOMAIN b \in SUBSET (1..L)
    BY <1>2
  <1> HIDE DEF part, share, common
  <1>9. ASSUME NEW d \in ToSet(a) \cup ToSet(b)
        PROVE  FusedScores(lists)[d] = Gain(a, d, share) + Gain(b, d, share)
    <2>1. d \in UNION {ToSet(lists[i]) : i \in DOMAIN lists}
      BY <1>1
    <2>2. FusedPlaces(lists, L, d) = PlaceIn(1, a, d) \cup PlaceIn(2, b, d)
      BY <1>2, <1>8, FusedPlacesAre
    <2>3. Sum(part, PlaceIn(1, a, d) \cup PlaceIn(2, b, d)) = Gain(a, d, share) + Gain(b, d, share)
      BY <1>2, <1>5, <1>6, <1>8, SumOverPlaces
    <2> QED BY <1>7, <2>1, <2>2, <2>3
  <1>10. GainsAdd(a, b, L, share)
    BY <1>2, <1>5, <1>8, <1>9 DEF GainsAdd, Both
  <1> QED BY <1>10

-----------------------------------------------------------------------------
(* What a search finds.                                                    *)

\* Each document that either source puts out is in the fused list, once,
\* unless these are too many.
LEMMA FusionKeeps ==
    ASSUME NEW a, IsFiniteSet(ToSet(a)), NEW b, IsFiniteSet(ToSet(b)), NEW fused \in MergeRecall(a, b)
    PROVE  /\ ToSet(fused) \in SUBSET (ToSet(a) \cup ToSet(b))
           /\ Len(fused) = Cardinality(ToSet(fused))
           /\ Cardinality(ToSet(a) \cup ToSet(b)) <= MaxTotal => ToSet(fused) = ToSet(a) \cup ToSet(b)
  <1> DEFINE D == ToSet(a) \cup ToSet(b)
             score == FusedScores(<<a, b>>)
  <1>1. DOMAIN score = D
    BY FusedDocuments
  <1>2. IsFiniteSet(D)
    BY FS_Union
  <1>3. fused \in BestOf(score, MaxTotal)
    BY DEF MergeRecall, FuseByRRF
  <1>4. Cardinality(D) \in Nat
    BY <1>2, FS_CardinalityType
  <1> HIDE DEF D, score
  <1>5. /\ ToSet(fused) \in SUBSET D /\ Cardinality(ToSet(fused)) = Len(fused)
        /\ ToSet(fused) = D \/ Len(fused) = MaxTotal
    BY <1>1, <1>2, <1>3, BestOfIs, FusionAssumption
  <1>6. Cardinality(D) <= MaxTotal => ToSet(fused) = D
    <2>1. SUFFICES ASSUME Cardinality(D) <= MaxTotal, Len(fused) = MaxTotal PROVE ToSet(fused) = D
      BY <1>5
    <2>2. Cardinality(ToSet(fused)) <= Cardinality(D) /\ (Cardinality(D) = Cardinality(ToSet(fused)) => D = ToSet(fused))
      BY <1>2, <1>5, FS_Subset
    <2> QED BY <1>4, <1>5, <2>1, <2>2, FusionAssumption
  <1> QED BY <1>5, <1>6 DEF D

\* A document that both sources rank before another stays before it.
LEMMA FusionFollows ==
    ASSUME NEW a, Len(a) \in Nat, DOMAIN a = 1..Len(a), \A i, j \in DOMAIN a : a[i] = a[j] => i = j,
           NEW b, Len(b) \in Nat, DOMAIN b = 1..Len(b), \A i, j \in DOMAIN b : b[i] = b[j] => i = j,
           IsFiniteSet(ToSet(a)), IsFiniteSet(ToSet(b)), NEW fused \in MergeRecall(a, b),
           NEW d, NEW e, Before(a, d, e), Before(b, d, e), e \in ToSet(a) \cup ToSet(b)
    PROVE  Before(fused, d, e)
  <1> DEFINE D == ToSet(a) \cup ToSet(b)
             score == FusedScores(<<a, b>>)
  <1>1. DOMAIN score = D
    BY FusedDocuments
  <1>2. IsFiniteSet(D)
    BY FS_Union
  <1>3. fused \in BestOf(score, MaxTotal)
    BY DEF MergeRecall, FuseByRRF
  <1>4. PICK L, share : GainsAdd(a, b, L, share)
    BY FusedScoresAdd
  <1>5. /\ L \in Nat /\ Shares(L, share) /\ DOMAIN a \in SUBSET (1..L) /\ DOMAIN b \in SUBSET (1..L)
        /\ \A x \in D : score[x] = Gain(a, x, share) + Gain(b, x, share)
    BY <1>4 DEF GainsAdd
  <1>6. d \in D /\ e \in D
    BY DEF Before, ToSet
  <1> HIDE DEF D, score
  <1>7. \A x \in D : score[x] \in Int
    <2>1. \A x : Gain(a, x, share) \in Nat
      <3>1. SUFFICES ASSUME NEW x PROVE Gain(a, x, share) \in Nat
        OBVIOUS
      <3> QED BY <1>5, GainType
    <2>2. \A x : Gain(b, x, share) \in Nat
      <3>1. SUFFICES ASSUME NEW x PROVE Gain(b, x, share) \in Nat
        OBVIOUS
      <3> QED BY <1>5, GainType
    <2> QED BY <1>5, <2>1, <2>2
  <1>8. score[d] > score[e]
    <2>1. /\ Gain(a, d, share) \in Nat /\ Gain(a, e, share) \in Nat
          /\ Gain(a, d, share) >= Gain(a, e, share)
          /\ e \in ToSet(a) => Gain(a, d, share) > Gain(a, e, share)
      BY <1>5, GainFollows
    <2>2. /\ Gain(b, d, share) \in Nat /\ Gain(b, e, share) \in Nat
          /\ Gain(b, d, share) >= Gain(b, e, share)
          /\ e \in ToSet(b) => Gain(b, d, share) > Gain(b, e, share)
      BY <1>5, GainFollows
    <2>3. /\ score[d] = Gain(a, d, share) + Gain(b, d, share)
          /\ score[e] = Gain(a, e, share) + Gain(b, e, share)
      BY <1>5, <1>6
    <2> QED BY <2>1, <2>2, <2>3
  <1>9. \A x, y \in D : y \in ToSet(fused) /\ score[x] > score[y]
                          => \E i, j \in DOMAIN fused : i < j /\ fused[i] = x /\ fused[j] = y
    BY <1>1, <1>2, <1>3, <1>7, BestOfIs, FusionAssumption
  <1> QED BY <1>6, <1>8, <1>9 DEF Before

\* A title has only terms its document is indexed under.
LEMMA TitleTermsHeld ==
    ASSUME SearchInv, NEW d \in DOMAIN docTerms, NEW text \in PlainQueries, Title[given[d]] = text
    PROVE  d \in HavingTerms(TermsOfQuery[text])
  <1>1. d \in DOMAIN given /\ docTerms[d] = TermsOf(given[d]) /\ given[d] \in Inputs
    BY DEF SearchInv, ListsOfGiven
  <1>2. text \in DOMAIN EncodeQuery /\ Plain(text) /\ text \in Texts /\ TermsOfQuery[text] = Parse(text)
    BY TermsOfQueryType DEF PlainQueries
  <1>3. ToSet(Parse(text)) \subseteq SimpleTokenize(text)
    BY <1>2, TokenisersDoAgree DEF TokenisersAgree
  <1>4. "title" \in Fields /\ given[d].terms["title"] = SimpleTokenize(text)
    BY <1>1, InputsEncoded
  <1>5. SimpleTokenize(text) \subseteq TermsOf(given[d])
    BY <1>4 DEF TermsOf
  <1> QED BY <1>1, <1>2, <1>3, <1>5 DEF HavingTerms

LEMMA SearchesFind ==
    ASSUME IndexInv, VectorInv, SearchInv
    PROVE  FoundByTitle
  <1>1. SUFFICES ASSUME NEW text \in DOMAIN EncodeQuery,
                        NEW byTerms \in InvertedRecall(text), NEW byVector \in VectorRecall(text),
                        NEW fused \in MergeRecall(byTerms, byVector)
                 PROVE  LET found == ToSet(fused) IN
                        /\ \A d \in DOMAIN docTerms :
                             /\ d \in DOMAIN given
                             /\ /\ Title[given[d]] = text /\ text \in PlainQueries
                                /\ Cardinality(HavingAll(text)) <= MaxRecall
                                /\ Cardinality(ToSet(byTerms) \cup ToSet(byVector)) <= MaxTotal
                                => d \in found
                        /\ ToSet(byTerms) \subseteq DOMAIN docTerms
                        /\ Len(fused) = Cardinality(found)
                        /\ ~faiss => /\ found \subseteq DOMAIN given
                                     /\ \A d, e \in found :
                                          d # e /\ Before(byTerms, d, e) /\ Before(byVector, d, e)
                                            /\ e \in ToSet(byTerms) \cup ToSet(byVector)
                                          => Before(fused, d, e)
    BY TokenisersDoAgree, ExpansionStaysBounded DEF FoundByTitle
  <1> DEFINE terms == TermsOfQuery[text]
  <1>2. terms \in Seq(Seq(Small)) /\ byTerms \in SearchTerms(terms) /\ HavingTerms(terms) = HavingAll(text)
    BY TermsOfQueryType DEF InvertedRecall, HavingTerms, HavingAll
  <1> HIDE DEF terms
  <1>3. /\ Len(byTerms) \in Nat /\ DOMAIN byTerms = 1..Len(byTerms)
        /\ \A i, j \in DOMAIN byTerms : byTerms[i] = byTerms[j] => i = j
        /\ ToSet(byTerms) \in SUBSET DOMAIN docTerms /\ IsFiniteSet(ToSet(byTerms))
        /\ terms # <<>> /\ Cardinality(HavingTerms(terms)) <= MaxRecall
              => HavingTerms(terms) \in SUBSET ToSet(byTerms)
    BY <1>2, SearchTermsIs
  <1>4. /\ Len(byVector) \in Nat /\ DOMAIN byVector = 1..Len(byVector) /\ IsFiniteSet(ToSet(byVector))
        /\ ~faiss => /\ ToSet(byVector) \in SUBSET DOMAIN given
                     /\ \A i, j \in DOMAIN byVector : byVector[i] = byVector[j] => i = j
    BY VectorRecallIs
  <1>5. /\ ToSet(fused) \in SUBSET (ToSet(byTerms) \cup ToSet(byVector))
        /\ Len(fused) = Cardinality(ToSet(fused))
        /\ Cardinality(ToSet(byTerms) \cup ToSet(byVector)) <= MaxTotal
             => ToSet(fused) = ToSet(byTerms) \cup ToSet(byVector)
    BY <1>3, <1>4, FusionKeeps
  <1>6. DOMAIN docTerms \in SUBSET DOMAIN given
    BY DEF SearchInv, ListsOfGiven
  <1>7. ASSUME NEW d \in DOMAIN docTerms, Title[given[d]] = text, text \in PlainQueries,
               Cardinality(HavingAll(text)) <= MaxRecall,
               Cardinality(ToSet(byTerms) \cup ToSet(byVector)) <= MaxTotal
        PROVE  d \in ToSet(fused)
    <2>1. d \in HavingTerms(terms) /\ terms # <<>>
      BY <1>7, TitleTermsHeld DEF PlainQueries, terms
    <2> QED BY <1>2, <1>3, <1>5, <1>7, <2>1
  <1>8. ASSUME ~faiss, NEW d, NEW e, Before(byTerms, d, e), Before(byVector, d, e),
               e \in ToSet(byTerms) \cup ToSet(byVector)
        PROVE  Before(fused, d, e)
    <2>1. \A i, j \in DOMAIN byVector : byVector[i] = byVector[j] => i = j
      BY <1>4, <1>8
    <2> QED BY <1>3, <1>4, <1>8, <2>1, FusionFollows
  <1>9. ~faiss => ToSet(fused) \subseteq DOMAIN given
    BY <1>3, <1>4, <1>5, <1>6
  <1> QED BY <1>3, <1>5, <1>6, <1>7, <1>8, <1>9

\* Whatever was added, deleted, saved and loaded: a search with the title of a
\* document of the index finds the document, unless the limits cut it off; what
\* the keyword search finds is in the index; the fused list has each document once
\* and keeps the order the two sources agree on.
THEOREM TitlesFindDocuments == BuilderSpec => []FoundByTitle
  <1>1. BuilderInit => SearchInv /\ VectorInv
    <2> SUFFICES ASSUME BuilderInit
                 PROVE  SearchInv /\ VectorInv
      OBVIOUS
    <2>1. GraphInv
      BY DEF BuilderInit, VectorInit, EmptyMap, GraphInv
    <2> QED BY <2>1, SearchInitInv, ScanInitInv DEF BuilderInit, VectorInit, VectorInv
  <1>2. IndexInv /\ VectorInv /\ SearchInv => FoundByTitle
    BY SearchesFind
  <1> QED BY <1>1, <1>2, SearchNextInv, VectorNextInv, IndexInvariant, BuilderDrivesIndex, PTL DEF BuilderSpec

=============================================================================
