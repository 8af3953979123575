---------------------------- MODULE CacheProofs ----------------------------
(***************************************************************************)
(* TLAPS proofs about the two-level cache, for any number of threads, keys *)
(* and values, any capacity and any times to live.                         *)
(***************************************************************************)
EXTENDS Cache, FiniteSetTheorems, TLAPS

-----------------------------------------------------------------------------
(* The list of level 1: each key once, never more than the capacity, and   *)
(* in the order in which the keys were last asked for.                     *)

UniqueKeys(list) == \A i, j \in DOMAIN list : list[i].key = list[j].key => i = j
ListOK(list) == list \in Seq(Entry) /\ UniqueKeys(list)

Ordered(list, rel) ==
    \A i, j \in DOMAIN list : i < j => <<list[j].key, list[i].key>> \in rel

Latest(rel, k) == {p \in rel : p[1] # k} \cup ((Keys \ {k}) \X {k})

LEMMA RemoveAtIs ==
    ASSUME NEW S, NEW list \in Seq(S), NEW i \in DOMAIN list
    PROVE  /\ RemoveAt(list, i) \in Seq(S)
           /\ Len(RemoveAt(list, i)) = Len(list) - 1
           /\ \A j \in 1..(Len(list) - 1) :
                 RemoveAt(list, i)[j] = IF j < i THEN list[j] ELSE list[j + 1]
  <1> DEFINE n == Len(list)
             a == SubSeq(list, 1, i - 1)
             b == SubSeq(list, i + 1, n)
             cut == a \o b
  <1>1. n \in Nat /\ i \in 1..n
    OBVIOUS
  <1>2. a \in Seq(S) /\ Len(a) = i - 1 /\ \A j \in 1..(i - 1) : a[j] = list[j]
    BY <1>1
  <1>3. b \in Seq(S) /\ Len(b) = n - i /\ \A j \in 1..(n - i) : b[j] = list[i + j]
    BY <1>1
  <1> HIDE DEF a, b
  <1>4. /\ cut \in Seq(S) /\ Len(cut) = n - 1
        /\ \A j \in 1..(n - 1) : cut[j] = IF j <= i - 1 THEN a[j] ELSE b[j - (i - 1)]
    BY <1>1, <1>2, <1>3
  <1> HIDE DEF cut, n
  <1>5. ASSUME NEW j \in 1..(n - 1) PROVE cut[j] = IF j < i THEN list[j] ELSE list[j + 1]
    <2>1. CASE j < i
      BY <1>1, <1>2, <1>4, <2>1
    <2>2. CASE j >= i
      <3> DEFINE k == j - (i - 1)
      <3>1. k \in 1..(n - i) /\ i + k = j + 1 /\ ~(j <= i - 1)
        BY <1>1, <2>2
      <3>2. cut[j] = b[k]
        BY <1>4, <3>1
      <3> HIDE DEF k
      <3>3. b[k] = list[i + k]
        BY <1>3, <3>1
      <3> QED BY <2>2, <3>1, <3>2, <3>3
    <2> QED BY <1>1, <2>1, <2>2
  <1> QED BY <1>4, <1>5 DEF cut, a, b, n, RemoveAt

LEMMA RemoveAtKeeps ==
    ASSUME NEW list, ListOK(list), NEW i \in DOMAIN list
    PROVE  /\ ListOK(RemoveAt(list, i))
           /\ Len(RemoveAt(list, i)) = Len(list) - 1
           /\ ToSet(RemoveAt(list, i)) = ToSet(list) \ {list[i]}
           /\ \A e \in ToSet(list) : e.key = list[i].key => e = list[i]
           /\ \A rel : Ordered(list, rel) => Ordered(RemoveAt(list, i), rel)
  <1> DEFINE cut == RemoveAt(list, i)
             n == Len(list)
             old(j) == IF j < i THEN j ELSE j + 1
  <1>1. /\ list \in Seq(Entry) /\ n \in Nat /\ DOMAIN list = 1..n
        /\ \A a, b \in 1..n : list[a].key = list[b].key => a = b
    BY DEF ListOK, UniqueKeys
  <1>2. /\ cut \in Seq(Entry) /\ Len(cut) = n - 1
        /\ \A j \in 1..(n - 1) : cut[j] = IF j < i THEN list[j] ELSE list[j + 1]
    BY <1>1, RemoveAtIs
  <1>3. \A j \in 1..(n - 1) : cut[j] = list[old(j)] /\ old(j) \in 1..n /\ old(j) # i
    BY <1>1, <1>2
  <1>4. \A a, b \in 1..(n - 1) : (a < b => old(a) < old(b)) /\ (old(a) = old(b) => a = b)
    BY <1>1
  <1>5. \A a \in 1..n : a # i => \E j \in 1..(n - 1) : old(j) = a
    <2> SUFFICES ASSUME NEW a \in 1..n, a # i PROVE \E j \in 1..(n - 1) : old(j) = a
      OBVIOUS
    <2>1. CASE a < i
      BY <1>1, <2>1
    <2>2. CASE a > i
      <3>1. a - 1 \in 1..(n - 1) /\ old(a - 1) = a
        BY <1>1, <2>2
      <3> HIDE DEF old
      <3> QED BY <3>1
    <2> QED BY <1>1, <2>1, <2>2
  <1> HIDE DEF cut, old
  <1>6. DOMAIN cut = 1..(n - 1)
    BY <1>1, <1>2
  <1>7. UniqueKeys(cut)
    BY <1>1, <1>3, <1>4, <1>6 DEF UniqueKeys
  <1>8. ToSet(cut) = ToSet(list) \ {list[i]}
    <2>1. ASSUME NEW j \in 1..(n - 1) PROVE cut[j] \in ToSet(list) /\ cut[j] # list[i]
      <3>1. cut[j] = list[old(j)] /\ old(j) \in 1..n /\ old(j) # i
        BY <1>3
      <3>2. list[old(j)].key # list[i].key
        BY <1>1, <3>1
      <3> QED BY <1>1, <3>1, <3>2 DEF ToSet
    <2>2. ASSUME NEW a \in 1..n, a # i PROVE list[a] \in ToSet(cut)
      <3>1. PICK j \in 1..(n - 1) : old(j) = a
        BY <1>5, <2>2
      <3> QED BY <1>3, <1>6, <3>1 DEF ToSet
    <2> QED BY <1>1, <1>6, <2>1, <2>2 DEF ToSet
  <1>9. \A e \in ToSet(list) : e.key = list[i].key => e = list[i]
    BY <1>1 DEF ToSet
  <1>10. ASSUME NEW rel, Ordered(list, rel) PROVE Ordered(cut, rel)
    BY <1>1, <1>3, <1>4, <1>6, <1>10 DEF Ordered
  <1> QED BY <1>2, <1>7, <1>8, <1>9, <1>10 DEF ListOK, cut

LEMMA OthersAre ==
    ASSUME NEW list, ListOK(list), NEW k
    PROVE  /\ ListOK(Others(list, k))
           /\ Len(Others(list, k)) = IF Holds(list, k) THEN Len(list) - 1 ELSE Len(list)
           /\ ToSet(Others(list, k)) = {e \in ToSet(list) : e.key # k}
           /\ \A rel : Ordered(list, rel) => Ordered(Others(list, k), rel)
  <1>1. CASE Holds(list, k)
    <2> DEFINE i == CHOOSE i \in DOMAIN list : list[i].key = k
    <2>1. i \in DOMAIN list /\ list[i].key = k
      BY <1>1 DEF Holds, ToSet
    <2>2. Others(list, k) = RemoveAt(list, i)
      BY <1>1 DEF Others
    <2> HIDE DEF i
    <2>3. {e \in ToSet(list) : e.key # k} = ToSet(list) \ {list[i]}
      BY <2>1, RemoveAtKeeps
    <2> QED BY <1>1, <2>1, <2>2, <2>3, RemoveAtKeeps
  <1>2. CASE ~Holds(list, k)
    <2>1. Others(list, k) = list
      BY <1>2 DEF Others
    <2> QED BY <1>2, <2>1 DEF Holds
  <1> QED BY <1>1, <1>2

LEMMA InFront ==
    ASSUME NEW list, ListOK(list), NEW e \in Entry, \A f \in ToSet(list) : f.key # e.key
    PROVE  /\ ListOK(<<e>> \o list)
           /\ Len(<<e>> \o list) = Len(list) + 1
           /\ (<<e>> \o list)[1] = e
           /\ ToSet(<<e>> \o list) = {e} \cup ToSet(list)
           /\ \A rel : Ordered(list, rel) => Ordered(<<e>> \o list, Latest(rel, e.key))
  <1> DEFINE new == <<e>> \o list
             n == Len(list)
  <1>1. /\ list \in Seq(Entry) /\ n \in Nat /\ DOMAIN list = 1..n
        /\ \A a, b \in 1..n : list[a].key = list[b].key => a = b
    BY DEF ListOK, UniqueKeys
  <1>2. /\ new \in Seq(Entry) /\ Len(new) = n + 1 /\ DOMAIN new = 1..(n + 1)
        /\ new[1] = e /\ \A j \in 2..(n + 1) : new[j] = list[j - 1]
    BY <1>1
  <1>3. \A a \in 1..n : list[a].key # e.key /\ list[a].key \in Keys /\ list[a] = new[a + 1]
    <2> SUFFICES ASSUME NEW a \in 1..n
                 PROVE  list[a].key # e.key /\ list[a].key \in Keys /\ list[a] = new[a + 1]
      OBVIOUS
    <2>1. list[a] \in ToSet(list) /\ list[a] \in Entry
      BY <1>1 DEF ToSet
    <2>2. a + 1 \in 2..(n + 1) /\ (a + 1) - 1 = a
      BY <1>1
    <2> HIDE DEF new
    <2> QED BY <1>2, <2>1, <2>2 DEF Entry
  <1> HIDE DEF new
  <1>4. UniqueKeys(new)
    <2> SUFFICES ASSUME NEW a \in 1..(n + 1), NEW b \in 1..(n + 1), new[a].key = new[b].key
                 PROVE  a = b
      BY <1>2 DEF UniqueKeys
    <2>1. CASE a = 1 \/ b = 1
      BY <1>1, <1>2, <1>3, <2>1
    <2>2. CASE a # 1 /\ b # 1
      <3>1. a - 1 \in 1..n /\ b - 1 \in 1..n
        BY <1>1, <2>2
      <3> QED BY <1>1, <1>2, <2>2, <3>1
    <2> QED BY <2>1, <2>2
  <1>5. ToSet(new) = {e} \cup ToSet(list)
    <2>1. ASSUME NEW j \in 1..(n + 1) PROVE new[j] \in {e} \cup ToSet(list)
      <3>1. CASE j = 1
        BY <1>2, <3>1
      <3>2. CASE j # 1
        <4>1. j - 1 \in 1..n /\ new[j] = list[j - 1]
          BY <1>1, <1>2, <3>2
        <4> QED BY <1>1, <4>1 DEF ToSet
      <3> QED BY <3>1, <3>2
    <2>2. ASSUME NEW a \in 1..n PROVE list[a] \in ToSet(new)
      <3>1. a + 1 \in 1..(n + 1)
        BY <1>1
      <3> QED BY <1>2, <1>3, <3>1 DEF ToSet
    <2>3. e \in ToSet(new)
      BY <1>1, <1>2 DEF ToSet
    <2> QED BY <1>1, <1>2, <2>1, <2>2, <2>3 DEF ToSet
  <1>6. ASSUME NEW rel, Ordered(list, rel) PROVE Ordered(new, Latest(rel, e.key))
    <2> SUFFICES ASSUME NEW a \in 1..(n + 1), NEW b \in 1..(n + 1), a < b
                 PROVE  <<new[b].key, new[a].key>> \in Latest(rel, e.key)
      BY <1>2 DEF Ordered
    <2>1. /\ b - 1 \in 1..n /\ new[b] = list[b - 1]
          /\ list[b - 1].key # e.key /\ list[b - 1].key \in Keys
      BY <1>1, <1>2, <1>3
    <2>2. CASE a = 1
      BY <1>2, <2>1, <2>2 DEF Latest
    <2>3. CASE a # 1
      <3>1. a - 1 \in 1..n /\ a - 1 < b - 1 /\ new[a] = list[a - 1]
        BY <1>1, <1>2, <2>3
      <3>2. <<list[b - 1].key, list[a - 1].key>> \in rel
        BY <1>1, <1>6, <2>1, <3>1 DEF Ordered
      <3> QED BY <2>1, <3>1, <3>2 DEF Latest
    <2> QED BY <2>2, <2>3
  <1> QED BY <1>2, <1>4, <1>5, <1>6 DEF ListOK, new

\* A set of places of a list has a last one.
LEMMA LastPlace ==
    ASSUME NEW n \in Nat, NEW P \in SUBSET (1..n), P # {}
    PROVE  \E m \in P : \A j \in P : j <= m
  <1> DEFINE R == StrictSubsetOrdering(1..n)
             X == {i..n : i \in P}
  <1>1. IsWellFoundedOn(R, SUBSET (1..n))
    <2>1. IsFiniteSet(1..n)
      BY FS_Interval
    <2> QED BY <2>1, FS_StrictSubsetOrderingWellFounded, FS_FiniteSubsetsOfFinite
  <1>2. X \in SUBSET (SUBSET (1..n)) /\ X # {}
    <2>1. ASSUME NEW i \in P PROVE i..n \in SUBSET (1..n)
      <3>1. i \in 1..n
        OBVIOUS
      <3> QED BY <3>1
    <2> QED BY <2>1
  <1>3. PICK T \in X : \A U \in X : <<U, T>> \notin R
    <2> HIDE DEF R, X
    <2> QED BY <1>1, <1>2, WFMin
  <1>4. PICK m \in P : T = m..n
    OBVIOUS
  <1>5. ASSUME NEW j \in P, j > m PROVE FALSE
    <2>1. j..n \in X /\ j..n \in SUBSET (1..n) /\ m..n \in SUBSET (1..n)
      OBVIOUS
    <2>2. j..n \subseteq m..n /\ m \in m..n /\ m \notin j..n
      BY <1>5
    <2>3. <<j..n, m..n>> \in R
      BY <2>1, <2>2 DEF StrictSubsetOrdering
    <2> QED BY <1>3, <1>4, <2>1, <2>3
  <1> QED BY <1>5

\* EvictOneLocked takes one entry out: of the expired ones, and else of all, the
\* one nearest to the end.
ExpiredIn(list) == {i \in DOMAIN list : Expired(list[i].until)}
Candidates(list) == IF ExpiredIn(list) # {} THEN ExpiredIn(list) ELSE DOMAIN list

LEMMA EvictedIs ==
    ASSUME NEW list, ListOK(list), list # <<>>
    PROVE  \E i \in Candidates(list) :
              /\ \A j \in Candidates(list) : j <= i
              /\ Evicted(list) = RemoveAt(list, i)
  <1>1. list \in Seq(Entry) /\ Len(list) \in Nat \ {0} /\ DOMAIN list = 1..Len(list)
    BY DEF ListOK
  <1>2. CASE ExpiredIn(list) = {}
    <2>1. Len(list) \in Candidates(list) /\ \A j \in Candidates(list) : j <= Len(list)
      BY <1>1, <1>2 DEF Candidates
    <2>2. Evicted(list) = RemoveAt(list, Len(list))
      BY <1>2 DEF Evicted, ExpiredIn
    <2> QED BY <2>1, <2>2
  <1>3. CASE ExpiredIn(list) # {}
    <2> DEFINE i == CHOOSE i \in ExpiredIn(list) : \A j \in ExpiredIn(list) : j <= i
    <2>1. \E m \in ExpiredIn(list) : \A j \in ExpiredIn(list) : j <= m
      BY <1>1, <1>3, LastPlace DEF ExpiredIn
    <2>2. i \in ExpiredIn(list) /\ \A j \in ExpiredIn(list) : j <= i
      BY <2>1
    <2>3. Evicted(list) = RemoveAt(list, i)
      BY <1>3 DEF Evicted, ExpiredIn
    <2> HIDE DEF i
    <2> QED BY <1>3, <2>2, <2>3 DEF Candidates
  <1> QED BY <1>2, <1>3

-----------------------------------------------------------------------------
(* What the three operations of level 1 do to its list.                    *)

L1OK == ListOK(l1) /\ Len(l1) <= Capacity /\ Ordered(l1, older)

LEMMA AfterGetKeeps ==
    ASSUME L1OK, NEW k
    PROVE  /\ ListOK(AfterGet(k)) /\ Len(AfterGet(k)) <= Capacity
           /\ ToSet(AfterGet(k)) \subseteq ToSet(l1)
           /\ Ordered(AfterGet(k), IF Hit(k) THEN Latest(older, k) ELSE older)
           /\ AfterGet(k) # <<>> => AfterGet(k)[1] \in ToSet(l1)
  <1> USE CacheAssumption
  <1>1. /\ ListOK(Others(l1, k)) /\ ToSet(Others(l1, k)) = {e \in ToSet(l1) : e.key # k}
        /\ Len(Others(l1, k)) = (IF Holds(l1, k) THEN Len(l1) - 1 ELSE Len(l1))
        /\ Ordered(Others(l1, k), older)
    BY OthersAre DEF L1OK
  <1>2. Len(l1) \in Nat /\ Len(l1) <= Capacity
    BY DEF L1OK, ListOK
  <1>3. CASE Hit(k)
    <2> DEFINE e == CHOOSE e \in ToSet(l1) : e.key = k
    <2>1. e \in ToSet(l1) /\ e.key = k /\ Holds(l1, k)
      BY <1>3 DEF Hit, Holds
    <2>2. AfterGet(k) = <<e>> \o Others(l1, k)
      BY <1>3 DEF AfterGet
    <2>3. e \in Entry
      <3> HIDE DEF e
      <3>1. l1 \in Seq(Entry)
        BY DEF L1OK, ListOK
      <3> QED BY <2>1, <3>1 DEF ToSet
    <2> HIDE DEF e
    <2>4. /\ ListOK(<<e>> \o Others(l1, k))
          /\ Len(<<e>> \o Others(l1, k)) = Len(Others(l1, k)) + 1
          /\ (<<e>> \o Others(l1, k))[1] = e
          /\ ToSet(<<e>> \o Others(l1, k)) = {e} \cup ToSet(Others(l1, k))
          /\ Ordered(<<e>> \o Others(l1, k), Latest(older, e.key))
      BY <1>1, <2>1, <2>3, InFront
    <2> QED BY <1>1, <1>2, <1>3, <2>1, <2>2, <2>4
  <1>4. CASE ~Hit(k)
    <2>1. AfterGet(k) = Others(l1, k)
      BY <1>4 DEF AfterGet
    <2>2. Others(l1, k) # <<>> => Others(l1, k)[1] \in ToSet(Others(l1, k))
      BY <1>1 DEF ListOK, ToSet
    <2> QED BY <1>1, <1>2, <1>4, <2>1, <2>2
  <1> QED BY <1>3, <1>4

LEMMA AfterPutKeeps ==
    ASSUME L1OK, NEW k \in Keys, NEW v \in Values, NEW ttl \in Nat, clock \in Nat
    PROVE  /\ ListOK(AfterPut(k, v, ttl)) /\ Len(AfterPut(k, v, ttl)) <= Capacity
           /\ \A e \in ToSet(AfterPut(k, v, ttl)) :
                 (e.key = k /\ e.value = v) \/ (e.key # k /\ e \in ToSet(l1))
           /\ Ordered(AfterPut(k, v, ttl), Latest(older, k))
  <1> USE CacheAssumption
  <1> DEFINE e == [key |-> k, value |-> v, until |-> UntilAfter(ttl)]
             kept == IF ~Holds(l1, k) /\ Len(l1) >= Capacity THEN Evicted(l1) ELSE Others(l1, k)
  <1>1. e \in Entry /\ e.key = k /\ e.value = v
    BY DEF Entry, UntilAfter
  <1>2. l1 \in Seq(Entry) /\ Len(l1) \in Nat /\ Len(l1) <= Capacity
    BY DEF L1OK, ListOK
  <1>3. /\ ListOK(kept) /\ Len(kept) < Capacity /\ Ordered(kept, older)
        /\ ToSet(kept) \subseteq ToSet(l1) /\ \A f \in ToSet(kept) : f.key # k
    <2>1. CASE ~Holds(l1, k) /\ Len(l1) >= Capacity
      <3>1. l1 # <<>>
        BY <1>2, <2>1
      <3>2. PICK i \in Candidates(l1) : Evicted(l1) = RemoveAt(l1, i)
        BY <3>1, EvictedIs DEF L1OK
      <3>3. i \in DOMAIN l1
        BY DEF Candidates, ExpiredIn
      <3>4. /\ ListOK(RemoveAt(l1, i)) /\ Len(RemoveAt(l1, i)) = Len(l1) - 1
            /\ ToSet(RemoveAt(l1, i)) \subseteq ToSet(l1)
            /\ Ordered(RemoveAt(l1, i), older)
        BY <3>3, RemoveAtKeeps DEF L1OK
      <3>5. kept = RemoveAt(l1, i)
        BY <2>1, <3>2
      <3> HIDE DEF kept
      <3> QED BY <1>2, <2>1, <3>4, <3>5 DEF Holds
    <2>2. CASE Holds(l1, k) \/ Len(l1) < Capacity
      <3>1. kept = Others(l1, k)
        BY <1>2, <2>2
      <3>2. /\ ListOK(Others(l1, k)) /\ ToSet(Others(l1, k)) = {f \in ToSet(l1) : f.key # k}
            /\ Len(Others(l1, k)) = (IF Holds(l1, k) THEN Len(l1) - 1 ELSE Len(l1))
            /\ Ordered(Others(l1, k), older)
        BY OthersAre DEF L1OK
      <3> HIDE DEF kept
      <3> QED BY <1>2, <2>2, <3>1, <3>2
    <2> QED BY <1>2, <2>1, <2>2
  <1>4. AfterPut(k, v, ttl) = <<e>> \o kept
    BY DEF AfterPut
  <1> HIDE DEF e, kept
  <1>5. /\ ListOK(<<e>> \o kept) /\ Len(<<e>> \o kept) = Len(kept) + 1
        /\ ToSet(<<e>> \o kept) = {e} \cup ToSet(kept)
        /\ Ordered(<<e>> \o kept, Latest(older, e.key))
    BY <1>1, <1>3, InFront
  <1>6. Len(kept) \in Nat
    BY <1>3 DEF ListOK
  <1> QED BY <1>1, <1>3, <1>4, <1>5, <1>6

-----------------------------------------------------------------------------
(* Types, and the order of the list.                                       *)

Calls ==
    {Idle} \cup [at : {"get"}, key : Keys]
           \cup [at : {"fill"}, key : Keys, value : Values]
           \cup [at : {"set"}, key : Keys, value : Values, ttl : Nat \ {0}]
           \cup [at : {"delete"}, key : Keys]

TypeInv == TypeOK /\ call \in [Threads -> Calls] /\ Ordered(l1, older)

LEMMA CallIs ==
    ASSUME NEW c \in Calls
    PROVE  /\ c = Idle <=> c.at = "idle"
           /\ c # Idle => c.key \in Keys /\ c.at \in {"get", "fill", "set", "delete"}
           /\ c.at \in {"fill", "set"} => c.value \in Values
           /\ c.at = "set" => c.ttl \in Nat \ {0}
  BY DEF Calls, Idle

Fields ==
    /\ redis \in BOOLEAN
    /\ store \in [Keys -> Values \cup {None}] /\ expiry \in [Keys -> Nat]
    /\ clock \in Nat /\ calls \in 0..MaxCalls
    /\ last \in [Keys -> Values \cup {None}] /\ due \in [Keys -> Nat]
    /\ clean \in [Keys -> BOOLEAN] /\ cleared \subseteq Keys
    /\ call \in [Threads -> Calls]

LEMMA ListTyped == TypeInv <=> L1OK /\ Fields
  BY DEF TypeInv, TypeOK, Fields, L1OK, ListOK, UniqueKeys

LEMMA ListTypedNext == L1OK' /\ Fields' => TypeInv'
  BY DEF TypeInv, TypeOK, Fields, L1OK, ListOK, UniqueKeys

LEMMA TypeInitInv == Init => TypeInv
  <1> SUFFICES ASSUME Init PROVE TypeInv
    OBVIOUS
  <1>1. L1OK
    BY CacheAssumption DEF Init, L1OK, ListOK, UniqueKeys, Ordered
  <1>2. Idle \in Calls
    BY DEF Calls
  <1> QED BY <1>1, <1>2, ListTyped, CacheAssumption DEF Init, Fields

\* A step that writes level 1, or asks it for a key.
LEMMA PutStep ==
    ASSUME TypeInv, NEW k \in Keys, NEW v \in Values, NEW ttl \in Nat,
           l1' = AfterPut(k, v, ttl), Touch(k)
    PROVE  L1OK'
  <1>1. L1OK /\ clock \in Nat
    BY ListTyped DEF Fields
  <1>2. older' = Latest(older, k)
    BY DEF Touch, Latest
  <1> QED BY <1>1, <1>2, AfterPutKeeps DEF L1OK

LEMMA GetStep ==
    ASSUME TypeInv, NEW k \in Keys, l1' = AfterGet(k),
           IF Hit(k) THEN Touch(k) ELSE UNCHANGED older
    PROVE  L1OK'
  <1>1. L1OK
    BY ListTyped
  <1>2. older' = IF Hit(k) THEN Latest(older, k) ELSE older
    BY DEF Touch, Latest
  <1> QED BY <1>1, <1>2, AfterGetKeeps DEF L1OK

LEMMA TypeNextInv == TypeInv /\ [Next]_vars => TypeInv'
  <1> SUFFICES ASSUME TypeInv, [Next]_vars PROVE TypeInv'
    OBVIOUS
  <1> USE CacheAssumption
  <1>0. /\ L1OK /\ redis \in BOOLEAN
        /\ store \in [Keys -> Values \cup {None}] /\ expiry \in [Keys -> Nat]
        /\ clock \in Nat /\ calls \in 0..MaxCalls
        /\ last \in [Keys -> Values \cup {None}] /\ due \in [Keys -> Nat]
        /\ clean \in [Keys -> BOOLEAN] /\ cleared \subseteq Keys
        /\ call \in [Threads -> Calls]
    BY ListTyped DEF Fields
  <1>1. \A t : Called(t) => calls' \in 0..MaxCalls
    BY <1>0 DEF Called
  <1>2. /\ Idle \in Calls
        /\ \A k \in Keys : [at |-> "get", key |-> k] \in Calls /\ [at |-> "delete", key |-> k] \in Calls
    BY DEF Calls
  <1>3. ASSUME NEW k \in Keys, NEW v \in Values
        PROVE  /\ [at |-> "fill", key |-> k, value |-> v] \in Calls
               /\ \A ttl \in Nat \ {0} : [at |-> "set", key |-> k, value |-> v, ttl |-> ttl] \in Calls
    BY DEF Calls
  <1>4. ASSUME NEW t, NEW k \in Keys, NEW v \in Values \cup {None}, NEW ttl \in Nat,
               BeginWrite(t, k, v, ttl)
        PROVE  /\ last' \in [Keys -> Values \cup {None}] /\ due' \in [Keys -> Nat]
               /\ clean' \in [Keys -> BOOLEAN] /\ cleared' \subseteq Keys
    <2>1. clock + ttl \in Nat
      BY <1>0
    <2> QED BY <1>0, <1>4, <2>1 DEF BeginWrite
  <1>5. ASSUME NEW t \in Threads, NEW k \in Keys, Get(t, k) PROVE TypeInv'
    <2>1. L1OK'
      BY <1>5, GetStep DEF Get
    <2>2. call' \in [Threads -> Calls] /\ clean' \in [Keys -> BOOLEAN]
      BY <1>0, <1>2, <1>5 DEF Get
    <2>3. calls' \in 0..MaxCalls /\ UNCHANGED <<redis, store, expiry, clock, last, due, cleared>>
      BY <1>1, <1>5 DEF Get
    <2> QED BY <1>0, <2>1, <2>2, <2>3, ListTypedNext DEF Fields
  <1>6. ASSUME NEW t \in Threads, NEW k \in Keys, NEW v \in Values, NEW ttl \in Ttls, Set(t, k, v, ttl)
        PROVE  TypeInv'
    <2> DEFINE ttl1 == IF ttl > 0 THEN ttl ELSE LocalTtl
               ttl2 == IF ttl > 0 THEN ttl ELSE RedisTtl
    <2>0. ttl1 \in Nat /\ ttl2 \in Nat \ {0}
      OBVIOUS
    <2>1. /\ l1' = AfterPut(k, v, ttl1) /\ Touch(k)
          /\ call' = [call EXCEPT ![t] = IF ~redis THEN Idle
                         ELSE [at |-> "set", key |-> k, value |-> v, ttl |-> ttl2]]
          /\ BeginWrite(t, k, v, ttl2) /\ Called(t)
          /\ UNCHANGED <<redis, store, expiry, clock>>
      BY <1>6 DEF Set
    <2> HIDE DEF ttl1, ttl2
    <2>2. L1OK'
      BY <2>0, <2>1, PutStep
    <2>3. call' \in [Threads -> Calls]
      BY <1>0, <1>2, <1>3, <2>0, <2>1
    <2>4. calls' \in 0..MaxCalls
      BY <1>1, <2>1
    <2>5. /\ last' \in [Keys -> Values \cup {None}] /\ due' \in [Keys -> Nat]
          /\ clean' \in [Keys -> BOOLEAN] /\ cleared' \subseteq Keys
      BY <1>4, <2>0, <2>1
    <2> QED BY <1>0, <2>1, <2>2, <2>3, <2>4, <2>5, ListTypedNext DEF Fields
  <1>7. ASSUME NEW t \in Threads, NEW k \in Keys, Delete(t, k) PROVE TypeInv'
    <2>1. L1OK'
      BY <1>0, <1>7, OthersAre DEF Delete, L1OK, ListOK
    <2>2. call' \in [Threads -> Calls]
      BY <1>0, <1>2, <1>7 DEF Delete
    <2>3. calls' \in 0..MaxCalls /\ UNCHANGED <<redis, store, expiry, clock>>
      BY <1>1, <1>7 DEF Delete
    <2>4. /\ last' \in [Keys -> Values \cup {None}] /\ due' \in [Keys -> Nat]
          /\ clean' \in [Keys -> BOOLEAN] /\ cleared' \subseteq Keys
      BY <1>4, <1>7 DEF Delete
    <2> QED BY <1>0, <2>1, <2>2, <2>3, <2>4, ListTypedNext DEF Fields
  <1>8. ASSUME NEW t \in Threads, GetL2(t) PROVE TypeInv'
    <2> DEFINE k == call[t].key
    <2>1. call[t] \in Calls /\ k \in Keys
      BY <1>0, <1>8, CallIs DEF GetL2, Idle
    <2>2. store[k] \in Values \cup {None}
      BY <1>0, <2>1
    <2>3. store' \in [Keys -> Values \cup {None}] /\ expiry' \in [Keys -> Nat]
      BY <1>0, <1>8 DEF GetL2
    <2>4. call' \in [Threads -> Calls]
      <3>1. \/ call' = [call EXCEPT ![t] = Idle]
            \/ call' = [call EXCEPT ![t] = [at |-> "fill", key |-> k, value |-> store[k]]]
               /\ store[k] # None
        BY <1>8 DEF GetL2
      <3>2. store[k] # None => [at |-> "fill", key |-> k, value |-> store[k]] \in Calls
        BY <1>3, <2>1, <2>2
      <3> HIDE DEF k
      <3> QED BY <1>0, <1>2, <3>1, <3>2
    <2>5. UNCHANGED <<redis, l1, clock, calls, last, due, clean, cleared, older>>
      BY <1>8 DEF GetL2
    <2> QED BY <1>0, <2>3, <2>4, <2>5, ListTypedNext DEF Fields, L1OK
  <1>9. ASSUME NEW t \in Threads, Fill(t) PROVE TypeInv'
    <2>1. call[t] \in Calls /\ call[t].key \in Keys /\ call[t].value \in Values
      BY <1>0, <1>9, CallIs DEF Fill, Idle
    <2>2. L1OK'
      BY <1>9, <2>1, PutStep DEF Fill
    <2> QED BY <1>0, <1>2, <1>9, <2>2, ListTypedNext DEF Fields, Fill
  <1>10. ASSUME NEW t \in Threads, SetL2(t) PROVE TypeInv'
    <2>1. call[t] \in Calls /\ call[t].key \in Keys /\ call[t].value \in Values
          /\ call[t].ttl \in Nat
      BY <1>0, <1>10, CallIs DEF SetL2, Idle
    <2>2. clock + call[t].ttl \in Nat /\ UntilAfter(call[t].ttl) \in Nat
      BY <1>0, <2>1 DEF UntilAfter
    <2>3. store' \in [Keys -> Values \cup {None}] /\ expiry' \in [Keys -> Nat] /\ due' \in [Keys -> Nat]
      BY <1>0, <1>10, <2>1, <2>2 DEF SetL2
    <2>4. call' \in [Threads -> Calls]
      BY <1>0, <1>2, <1>10 DEF SetL2
    <2>5. UNCHANGED <<redis, l1, clock, calls, last, clean, cleared, older>>
      BY <1>10 DEF SetL2
    <2> QED BY <1>0, <2>3, <2>4, <2>5, ListTypedNext DEF Fields, L1OK
  <1>11. ASSUME NEW t \in Threads, DeleteL2(t) PROVE TypeInv'
    BY <1>0, <1>2, <1>11, ListTypedNext DEF Fields, DeleteL2, L1OK
  <1>12. ASSUME NEW t \in Threads, Clear(t) PROVE TypeInv'
    <2>1. L1OK'
      BY <1>12 DEF Clear, L1OK, ListOK, UniqueKeys, Ordered
    <2> QED BY <1>0, <1>12, <2>1, ListTypedNext DEF Fields, Clear
  <1>13. CASE Tick
    BY <1>0, <1>13, ListTypedNext DEF Fields, Tick, L1OK
  <1>14. CASE UNCHANGED vars
    BY <1>0, <1>14, ListTypedNext DEF Fields, vars, L1OK
  <1> QED
    BY <1>5, <1>6, <1>7, <1>8, <1>9, <1>10, <1>11, <1>12, <1>13, <1>14 DEF Next

\* The list and the index of level 1 stay of one size: each key is in the list
\* once, and there are never more entries than the capacity, whatever is put,
\* got, deleted and evicted.  (lru_cache.h 22-130.)
THEOREM TypeTheorem == Spec => []TypeOK
  <1>1. TypeInv => TypeOK
    BY DEF TypeInv
  <1> QED BY <1>1, TypeInitInv, TypeNextInv, PTL DEF Spec

-----------------------------------------------------------------------------
(* The two levels.  While the last write of a clean key is not over, it is *)
(* the only call on the key that is running; once it is over, all that     *)
(* either level and the calls that run hold for the key is its value, the  *)
(* expired entries included, and level 2 has it until it is due.           *)

On(t, k) == call[t] # Idle /\ call[t].key = k
Writes(t, k) == On(t, k) /\ call[t].at \in {"set", "delete"}

LocalAgrees(k) == \A e \in ToSet(l1) : e.key = k => e.value = last[k]

WriterAlone(k) ==
    \A t \in Threads : Writes(t, k) =>
        /\ \A s \in Threads : On(s, k) => s = t
        /\ call[t].at = "set" => call[t].value = last[k]
        /\ call[t].at = "delete" => last[k] = None

Quiet(k) == \A t \in Threads : ~Writes(t, k)

StoreAgrees(k) ==
    /\ store[k] \in {None, last[k]}
    /\ \A t \in Threads : On(t, k) /\ call[t].at = "fill" => call[t].value = last[k]
    /\ redis /\ last[k] # None => clock > due[k] \/ (store[k] = last[k] /\ expiry[k] = due[k])

Law(k) == clean[k] => LocalAgrees(k) /\ WriterAlone(k) /\ (Quiet(k) => StoreAgrees(k))

\* Without Redis there is no level 2.
NoLevel2 == ~redis => (\A k \in Keys : store[k] = None) /\ (\A t \in Threads : call[t] = Idle)

LevelsInv == TypeInv /\ NoLevel2 /\ \A k \in Keys : Law(k)

LEMMA LevelsInitInv == Init => LevelsInv
  <1> SUFFICES ASSUME Init PROVE LevelsInv
    OBVIOUS
  <1>1. TypeInv
    BY TypeInitInv
  <1>2. NoLevel2 /\ \A k \in Keys : Law(k)
    BY DEF Init, NoLevel2, Law, LocalAgrees, WriterAlone, Quiet, StoreAgrees, On, Writes, Idle, ToSet
  <1> QED BY <1>1, <1>2 DEF LevelsInv

\* A step that writes nothing of a key, begins no call on it and puts no entry
\* of it into level 1.
LEMMA LawKept ==
    ASSUME LevelsInv, NEW k \in Keys, clock' \in Nat, clock' >= clock,
           redis' = redis, store'[k] = store[k], expiry'[k] = expiry[k],
           last'[k] = last[k], due'[k] = due[k], clean'[k] = clean[k],
           \A e \in ToSet(l1') : e.key = k => e \in ToSet(l1),
           \A t \in Threads : On(t, k)' => On(t, k) /\ call'[t] = call[t],
           \A t \in Threads : Writes(t, k) => call'[t] = call[t]
    PROVE  Law(k)'
  <1> SUFFICES ASSUME clean[k] PROVE LocalAgrees(k)' /\ WriterAlone(k)' /\ (Quiet(k)' => StoreAgrees(k)')
    BY DEF Law
  <1>1. LocalAgrees(k) /\ WriterAlone(k) /\ (Quiet(k) => StoreAgrees(k))
    BY DEF LevelsInv, Law
  <1>2. LocalAgrees(k)'
    BY <1>1 DEF LocalAgrees
  <1>3. WriterAlone(k)'
    BY <1>1 DEF WriterAlone, Writes, On
  <1>4. ASSUME Quiet(k)' PROVE StoreAgrees(k)'
    <2>1. Quiet(k)
      BY <1>4 DEF Quiet, Writes, On
    <2>2. StoreAgrees(k)
      BY <1>1, <2>1
    <2>3. clock \in Nat /\ due[k] \in Nat
      BY ListTyped DEF LevelsInv, Fields
    <2>4. \A t \in Threads : On(t, k)' /\ call'[t].at = "fill" => call'[t].value = last'[k]
      BY <2>2 DEF StoreAgrees, On
    <2>5. redis' /\ last'[k] # None => clock' > due'[k] \/ (store'[k] = last'[k] /\ expiry'[k] = due'[k])
      BY <2>2, <2>3 DEF StoreAgrees
    <2> QED BY <2>2, <2>4, <2>5 DEF StoreAgrees
  <1> QED BY <1>2, <1>3, <1>4

\* The history variables of a write: its key is clean if no call runs on it.
LEMMA LawBegun ==
    ASSUME LevelsInv, NEW t \in Threads, NEW k \in Keys, NEW v \in Values \cup {None}, NEW ttl \in Nat,
           BeginWrite(t, k, v, ttl), call[t] = Idle,
           call' = [call EXCEPT ![t] = call'[t]],
           \/ call'[t] = Idle /\ ~redis
           \/ call'[t] = [at |-> "set", key |-> k, value |-> v, ttl |-> ttl]
           \/ call'[t] = [at |-> "delete", key |-> k] /\ v = None,
           UNCHANGED <<redis, store, expiry, clock>>,
           \A e \in ToSet(l1') : (e.key = k /\ e.value = v) \/ (e.key # k /\ e \in ToSet(l1))
    PROVE  \A j \in Keys : Law(j)'
  <1>0. /\ call \in [Threads -> Calls] /\ clock \in Nat
        /\ last \in [Keys -> Values \cup {None}] /\ due \in [Keys -> Nat]
        /\ clean \in [Keys -> BOOLEAN]
    BY ListTyped DEF LevelsInv, Fields
  <1>1. /\ last' = [last EXCEPT ![k] = v]
        /\ due' = [due EXCEPT ![k] = clock + ttl]
        /\ clean' = [clean EXCEPT ![k] = Running(k) = {}]
    BY DEF BeginWrite
  <1>2. \A s \in Threads : s # t => call'[s] = call[s]
    BY <1>0
  <1>3. ASSUME NEW j \in Keys, j # k PROVE Law(j)'
    <2>1. /\ last'[j] = last[j] /\ due'[j] = due[j] /\ clean'[j] = clean[j]
      BY <1>0, <1>1, <1>3
    <2>2. \A e \in ToSet(l1') : e.key = j => e \in ToSet(l1)
      BY <1>3
    <2>3. /\ \A s \in Threads : On(s, j)' => On(s, j) /\ call'[s] = call[s]
          /\ \A s \in Threads : Writes(s, j) => call'[s] = call[s]
      BY <1>2, <1>3 DEF On, Writes
    <2>4. clock' \in Nat /\ clock' >= clock
      BY <1>0
    <2> QED BY <2>1, <2>2, <2>3, <2>4, LawKept
  <1>4. Law(k)'
    <2> SUFFICES ASSUME clean'[k]
                 PROVE  LocalAgrees(k)' /\ WriterAlone(k)' /\ (Quiet(k)' => StoreAgrees(k)')
      BY DEF Law
    <2>1. Running(k) = {} /\ last'[k] = v
      BY <1>0, <1>1
    <2>2. \A s \in Threads : ~On(s, k)
      BY <2>1 DEF Running, On
    <2>3. \A s \in Threads : On(s, k)' => s = t
      BY <1>2, <2>2 DEF On
    <2>4. LocalAgrees(k)'
      BY <2>1 DEF LocalAgrees
    <2>5. WriterAlone(k)'
      BY <2>1, <2>3 DEF WriterAlone, Writes, On, Idle
    <2>6. ASSUME Quiet(k)' PROVE StoreAgrees(k)'
      <3>1. call'[t] = Idle /\ ~redis
        BY <2>6 DEF Quiet, Writes, On, Idle
      <3>2. store[k] = None
        BY <3>1 DEF LevelsInv, NoLevel2
      <3>3. \A s \in Threads : ~On(s, k)'
        BY <2>3, <3>1 DEF On
      <3> QED BY <3>1, <3>2, <3>3 DEF StoreAgrees
    <2> QED BY <2>4, <2>5, <2>6
  <1> QED BY <1>3, <1>4

\* What the steps have in common: a thread moves on in its call on k.
LEMMA LawOfOthers ==
    ASSUME LevelsInv, NEW t \in Threads, NEW k \in Keys,
           call[t] = Idle \/ call[t].key = k, call'[t] = Idle \/ call'[t].key = k,
           call' = [call EXCEPT ![t] = call'[t]],
           UNCHANGED <<redis, last, clock>>,
           \A j \in Keys : j # k => /\ store'[j] = store[j] /\ expiry'[j] = expiry[j]
                                    /\ due'[j] = due[j] /\ clean'[j] = clean[j],
           \A e \in ToSet(l1') : e.key # k => e \in ToSet(l1),
           NEW j \in Keys, j # k
    PROVE  Law(j)'
  <1>0. call \in [Threads -> Calls] /\ clock \in Nat
    BY ListTyped DEF LevelsInv, Fields
  <1>1. \A s \in Threads : s # t => call'[s] = call[s]
    BY <1>0
  <1>2. /\ \A s \in Threads : On(s, j)' => On(s, j) /\ call'[s] = call[s]
        /\ \A s \in Threads : Writes(s, j) => call'[s] = call[s]
    BY <1>1 DEF On, Writes
  <1>3. clock' \in Nat /\ clock' >= clock
    BY <1>0
  <1> QED BY <1>2, <1>3, LawKept

LEMMA LawAfterGet ==
    ASSUME LevelsInv, NEW t \in Threads, NEW k \in Keys, Get(t, k)
    PROVE  \A j \in Keys : Law(j)'
  <1>0. call \in [Threads -> Calls] /\ clean \in [Keys -> BOOLEAN] /\ L1OK
    BY ListTyped DEF LevelsInv, Fields
  <1>1. /\ call[t] = Idle
        /\ call' = [call EXCEPT ![t] = IF redis /\ ~Hit(k) THEN [at |-> "get", key |-> k] ELSE Idle]
        /\ clean' = [clean EXCEPT ![k] = @ /\ (redis /\ ~Hit(k) => Writers(k) = {})]
        /\ l1' = AfterGet(k)
        /\ UNCHANGED <<redis, store, expiry, clock, last, due>>
    BY DEF Get, Called
  <1>2. call'[t] = Idle \/ (call'[t] = [at |-> "get", key |-> k] /\ (clean'[k] => Writers(k) = {}))
    BY <1>0, <1>1
  <1>3. ToSet(l1') \subseteq ToSet(l1)
    BY <1>0, <1>1, AfterGetKeeps
  <1>4. \A s \in Threads : s # t => call'[s] = call[s]
    BY <1>0, <1>1
  <1>5. ASSUME NEW j \in Keys, j # k PROVE Law(j)'
    <2>1. call'[t] = Idle \/ call'[t].key = k
      BY <1>2
    <2>2. call' = [call EXCEPT ![t] = call'[t]]
      BY <1>0, <1>1
    <2>3. clean'[j] = clean[j]
      BY <1>0, <1>1, <1>5
    <2>4. \A i \in Keys : i # k => clean'[i] = clean[i]
      BY <1>0, <1>1
    <2> QED BY <1>1, <1>3, <1>5, <2>1, <2>2, <2>4, LawOfOthers
  <1>6. Law(k)'
    <2> SUFFICES ASSUME clean'[k]
                 PROVE  LocalAgrees(k)' /\ WriterAlone(k)' /\ (Quiet(k)' => StoreAgrees(k)')
      BY DEF Law
    <2>1. clean[k]
      BY <1>0, <1>1
    <2>2. LocalAgrees(k) /\ WriterAlone(k) /\ (Quiet(k) => StoreAgrees(k))
      BY <2>1 DEF LevelsInv, Law
    <2>3. LocalAgrees(k)'
      BY <1>1, <1>3, <2>2 DEF LocalAgrees
    <2>4. \A s \in Threads : Writes(s, k)' <=> Writes(s, k)
      BY <1>1, <1>2, <1>4 DEF Writes, On, Idle
    <2>5. call'[t] # Idle => Quiet(k)
      BY <1>2 DEF Quiet, Writes, On, Writers, Running
    <2>6. WriterAlone(k)'
      <3>1. CASE call'[t] = Idle
        BY <1>1, <1>4, <2>2, <3>1 DEF WriterAlone, Writes, On
      <3>2. CASE call'[t] # Idle
        BY <2>4, <2>5, <3>2 DEF WriterAlone, Quiet
      <3> QED BY <3>1, <3>2
    <2>7. ASSUME Quiet(k)' PROVE StoreAgrees(k)'
      <3>1. StoreAgrees(k)
        BY <2>2, <2>4, <2>7 DEF Quiet
      <3>2. \A s \in Threads : On(s, k)' /\ call'[s].at = "fill" => call'[s].value = last[k]
        BY <1>1, <1>2, <1>4, <3>1 DEF StoreAgrees, On
      <3> QED BY <1>1, <3>1, <3>2 DEF StoreAgrees
    <2> QED BY <2>3, <2>6, <2>7
  <1> QED BY <1>5, <1>6

\* The call of t on k in level 2: if k is clean, no write is running beside it.
LEMMA ReaderQuiet ==
    ASSUME LevelsInv, NEW t \in Threads, NEW k \in Keys, On(t, k), call[t].at \in {"get", "fill"}, clean[k]
    PROVE  Quiet(k) /\ LocalAgrees(k) /\ StoreAgrees(k)
  <1>1. LocalAgrees(k) /\ WriterAlone(k) /\ (Quiet(k) => StoreAgrees(k))
    BY DEF LevelsInv, Law
  <1>2. Quiet(k)
    BY <1>1 DEF Quiet, WriterAlone, Writes
  <1> QED BY <1>1, <1>2

LEMMA LawAfterGetL2 ==
    ASSUME LevelsInv, NEW t \in Threads, GetL2(t)
    PROVE  \A j \in Keys : Law(j)'
  <1>0. /\ call \in [Threads -> Calls] /\ clock \in Nat
        /\ store \in [Keys -> Values \cup {None}] /\ expiry \in [Keys -> Nat]
        /\ due \in [Keys -> Nat]
    BY ListTyped DEF LevelsInv, Fields
  <1>a. call[t].at = "get" /\ call[t].key \in Keys /\ call[t] # Idle
    BY <1>0, CallIs DEF GetL2, Idle
  <1>b. PICK k \in Keys : k = call[t].key
    BY <1>a
  <1>1. call[t].at = "get" /\ k \in Keys /\ On(t, k)
    BY <1>a, <1>b DEF On
  <1>2. \/ /\ Expired(expiry[k])
           /\ store' = [store EXCEPT ![k] = None] /\ expiry' = [expiry EXCEPT ![k] = 0]
           /\ call' = [call EXCEPT ![t] = Idle]
        \/ /\ UNCHANGED <<store, expiry>>
           /\ \/ call' = [call EXCEPT ![t] = Idle]
              \/ store[k] # None
                 /\ call' = [call EXCEPT ![t] = [at |-> "fill", key |-> k, value |-> store[k]]]
    BY <1>b DEF GetL2
  <1>3. UNCHANGED <<redis, l1, clock, last, due, clean>>
    BY DEF GetL2
  <1>4. \A s \in Threads : s # t => call'[s] = call[s]
    BY <1>0, <1>2
  <1>5. call'[t] = Idle \/ (call'[t] = [at |-> "fill", key |-> k, value |-> store[k]] /\ store[k] # None)
    BY <1>0, <1>2
  <1>6. ASSUME NEW j \in Keys, j # k PROVE Law(j)'
    <2>1. call[t].key = k /\ (call'[t] = Idle \/ call'[t].key = k)
      BY <1>b, <1>5
    <2>2. call' = [call EXCEPT ![t] = call'[t]]
      BY <1>0, <1>2
    <2>3. \A i \in Keys : i # k => store'[i] = store[i] /\ expiry'[i] = expiry[i]
      BY <1>0, <1>2
    <2> QED BY <1>1, <1>3, <1>6, <2>1, <2>2, <2>3, LawOfOthers
  <1>7. Law(k)'
    <2> SUFFICES ASSUME clean[k]
                 PROVE  LocalAgrees(k)' /\ WriterAlone(k)' /\ (Quiet(k)' => StoreAgrees(k)')
      BY <1>3 DEF Law
    <2>1. Quiet(k) /\ LocalAgrees(k) /\ StoreAgrees(k)
      BY <1>1, ReaderQuiet
    <2>2. LocalAgrees(k)'
      BY <1>3, <2>1 DEF LocalAgrees
    <2>3. WriterAlone(k)'
      BY <1>4, <1>5, <2>1 DEF WriterAlone, Quiet, Writes, On
    <2>4. CASE UNCHANGED <<store, expiry>>
      <3>1. \A s \in Threads : On(s, k)' /\ call'[s].at = "fill" => call'[s].value = last[k]
        BY <1>4, <1>5, <2>1 DEF StoreAgrees, On
      <3>2. StoreAgrees(k)'
        BY <1>3, <2>1, <2>4, <3>1 DEF StoreAgrees
      <3> QED BY <2>2, <2>3, <3>2
    <2>5. CASE /\ Expired(expiry[k])
               /\ store' = [store EXCEPT ![k] = None] /\ call' = [call EXCEPT ![t] = Idle]
      <3>1. store'[k] = None
        BY <1>0, <1>1, <2>5
      <3>2. \A s \in Threads : On(s, k)' /\ call'[s].at = "fill" => call'[s].value = last[k]
        BY <1>0, <1>4, <2>1, <2>5 DEF StoreAgrees, On
      <3>3. redis /\ last[k] # None => clock > due[k]
        BY <1>0, <1>1, <2>1, <2>5 DEF StoreAgrees, Expired
      <3>4. StoreAgrees(k)'
        BY <1>3, <3>1, <3>2, <3>3 DEF StoreAgrees
      <3> QED BY <2>2, <2>3, <3>4
    <2> QED BY <1>2, <2>4, <2>5
  <1> QED BY <1>6, <1>7

LEMMA LawAfterFill ==
    ASSUME LevelsInv, NEW t \in Threads, Fill(t)
    PROVE  \A j \in Keys : Law(j)'
  <1>0. call \in [Threads -> Calls] /\ clock \in Nat /\ L1OK
    BY ListTyped DEF LevelsInv, Fields
  <1>a. call[t].at = "fill" /\ call[t].key \in Keys /\ call[t].value \in Values /\ call[t] # Idle
    BY <1>0, CallIs DEF Fill, Idle
  <1>b. PICK k \in Keys : k = call[t].key
    BY <1>a
  <1>c. PICK v \in Values : v = call[t].value
    BY <1>a
  <1>1. call[t].at = "fill" /\ k \in Keys /\ v \in Values /\ On(t, k)
    BY <1>a, <1>b DEF On
  <1>2. /\ l1' = AfterPut(k, v, LocalTtl) /\ call' = [call EXCEPT ![t] = Idle]
        /\ UNCHANGED <<redis, store, expiry, clock, last, due, clean>>
    BY <1>b, <1>c DEF Fill
  <1>3. \A e \in ToSet(l1') : (e.key = k /\ e.value = v) \/ (e.key # k /\ e \in ToSet(l1))
    BY <1>0, <1>1, <1>2, AfterPutKeeps, CacheAssumption
  <1>4. \A s \in Threads : s # t => call'[s] = call[s]
    BY <1>0, <1>2
  <1>5. call'[t] = Idle
    BY <1>0, <1>2
  <1>6. ASSUME NEW j \in Keys, j # k PROVE Law(j)'
    <2>1. call[t].key = k
      BY <1>b
    <2>2. call' = [call EXCEPT ![t] = call'[t]]
      BY <1>0, <1>2
    <2> QED BY <1>1, <1>2, <1>3, <1>5, <1>6, <2>1, <2>2, LawOfOthers
  <1>7. Law(k)'
    <2> SUFFICES ASSUME clean[k]
                 PROVE  LocalAgrees(k)' /\ WriterAlone(k)' /\ (Quiet(k)' => StoreAgrees(k)')
      BY <1>2 DEF Law
    <2>1. Quiet(k) /\ LocalAgrees(k) /\ StoreAgrees(k)
      BY <1>1, ReaderQuiet
    <2>2. v = last[k]
      BY <1>1, <1>c, <2>1 DEF StoreAgrees
    <2>3. LocalAgrees(k)'
      BY <1>2, <1>3, <2>1, <2>2 DEF LocalAgrees
    <2>4. WriterAlone(k)'
      BY <1>4, <1>5, <2>1 DEF WriterAlone, Quiet, Writes, On
    <2>5. \A s \in Threads : On(s, k)' /\ call'[s].at = "fill" => call'[s].value = last[k]
      BY <1>4, <1>5, <2>1 DEF StoreAgrees, On
    <2>6. StoreAgrees(k)'
      BY <1>2, <2>1, <2>5 DEF StoreAgrees
    <2> QED BY <2>3, <2>4, <2>6
  <1> QED BY <1>6, <1>7

\* The second step of a write on a clean key: it is the last write, and alone.
LEMMA LawAfterWriteL2 ==
    ASSUME LevelsInv, NEW t \in Threads, SetL2(t) \/ DeleteL2(t)
    PROVE  \A j \in Keys : Law(j)'
  <1>0. /\ call \in [Threads -> Calls] /\ clock \in Nat
        /\ store \in [Keys -> Values \cup {None}] /\ expiry \in [Keys -> Nat]
        /\ due \in [Keys -> Nat]
    BY ListTyped DEF LevelsInv, Fields
  <1>a. call[t].at \in {"set", "delete"} /\ call[t].key \in Keys /\ call[t] # Idle
    BY <1>0, CallIs DEF SetL2, DeleteL2, Idle
  <1>b. PICK k \in Keys : k = call[t].key
    BY <1>a
  <1>1. k \in Keys /\ Writes(t, k)
    BY <1>a, <1>b DEF On, Writes
  <1>2. /\ call' = [call EXCEPT ![t] = Idle]
        /\ UNCHANGED <<redis, l1, clock, last, clean>>
        /\ \A i \in Keys : i # k => store'[i] = store[i] /\ expiry'[i] = expiry[i] /\ due'[i] = due[i]
    BY <1>0, <1>b DEF SetL2, DeleteL2
  <1>3. \/ /\ call[t].at = "set" /\ store'[k] = call[t].value
           /\ expiry'[k] = due'[k]
        \/ /\ call[t].at = "delete" /\ store'[k] = None
    <2>1. CASE SetL2(t)
      <3>1. call[t].at = "set" /\ call[t].ttl \in Nat \ {0}
        BY <1>0, <2>1, CallIs DEF SetL2
      <3>2. UntilAfter(call[t].ttl) = clock + call[t].ttl /\ clock + call[t].ttl # 0
        BY <1>0, <3>1 DEF UntilAfter
      <3> QED BY <1>0, <1>1, <1>b, <2>1, <3>1, <3>2 DEF SetL2
    <2>2. CASE DeleteL2(t)
      BY <1>0, <1>1, <1>b, <2>2 DEF DeleteL2
    <2> QED BY <2>1, <2>2
  <1>4. call'[t] = Idle /\ \A s \in Threads : s # t => call'[s] = call[s]
    BY <1>0, <1>2
  <1>5. ASSUME NEW j \in Keys, j # k PROVE Law(j)'
    <2>1. call[t].key = k
      BY <1>b
    <2>2. call' = [call EXCEPT ![t] = call'[t]]
      BY <1>0, <1>2
    <2> QED BY <1>1, <1>2, <1>4, <1>5, <2>1, <2>2, LawOfOthers
  <1>6. Law(k)'
    <2> SUFFICES ASSUME clean[k]
                 PROVE  LocalAgrees(k)' /\ WriterAlone(k)' /\ (Quiet(k)' => StoreAgrees(k)')
      BY <1>2 DEF Law
    <2>1. LocalAgrees(k) /\ WriterAlone(k)
      BY <1>1 DEF LevelsInv, Law
    <2>2. \A s \in Threads : ~On(s, k)'
      BY <1>1, <1>4, <2>1 DEF WriterAlone, On
    <2>3. LocalAgrees(k)'
      BY <1>2, <2>1 DEF LocalAgrees
    <2>4. WriterAlone(k)'
      BY <2>2 DEF WriterAlone, Writes
    <2>5. /\ call[t].at = "set" => store'[k] = last[k] /\ expiry'[k] = due'[k]
          /\ call[t].at = "delete" => store'[k] = None /\ last[k] = None
      BY <1>1, <1>3, <2>1 DEF WriterAlone
    <2>6. StoreAgrees(k)'
      BY <1>2, <1>3, <2>2, <2>5 DEF StoreAgrees
    <2> QED BY <2>3, <2>4, <2>6
  <1> QED BY <1>5, <1>6

LEMMA LawNextInv == LevelsInv /\ [Next]_vars => \A j \in Keys : Law(j)'
  <1> SUFFICES ASSUME LevelsInv, [Next]_vars PROVE \A j \in Keys : Law(j)'
    OBVIOUS
  <1> USE CacheAssumption
  <1>0. call \in [Threads -> Calls] /\ clock \in Nat /\ L1OK
    BY ListTyped DEF LevelsInv, Fields
  <1>1. ASSUME NEW t \in Threads, NEW k \in Keys, NEW v \in Values, NEW ttl \in Ttls, Set(t, k, v, ttl)
        PROVE  \A j \in Keys : Law(j)'
    <2>1. PICK ttl1 \in Nat, ttl2 \in Nat : /\ ttl1 = IF ttl > 0 THEN ttl ELSE LocalTtl
                                          /\ ttl2 = IF ttl > 0 THEN ttl ELSE RedisTtl
      OBVIOUS
    <2>2. /\ l1' = AfterPut(k, v, ttl1) /\ call[t] = Idle
          /\ call' = [call EXCEPT ![t] = IF ~redis THEN Idle
                         ELSE [at |-> "set", key |-> k, value |-> v, ttl |-> ttl2]]
          /\ BeginWrite(t, k, v, ttl2)
          /\ UNCHANGED <<redis, store, expiry, clock>>
      BY <1>1, <2>1 DEF Set, Called
    <2>3. \A e \in ToSet(l1') : (e.key = k /\ e.value = v) \/ (e.key # k /\ e \in ToSet(l1))
      BY <1>0, <2>2, AfterPutKeeps
    <2>4. /\ call' = [call EXCEPT ![t] = call'[t]]
          /\ \/ call'[t] = Idle /\ ~redis
             \/ call'[t] = [at |-> "set", key |-> k, value |-> v, ttl |-> ttl2]
             \/ call'[t] = [at |-> "delete", key |-> k] /\ v = None
      BY <1>0, <2>2
    <2>5. v \in Values \cup {None} /\ call[t] = Idle
          /\ BeginWrite(t, k, v, ttl2) /\ UNCHANGED <<redis, store, expiry, clock>>
      BY <2>2
    <2> QED BY <2>3, <2>4, <2>5, LawBegun
  <1>2. ASSUME NEW t \in Threads, NEW k \in Keys, Delete(t, k)
        PROVE  \A j \in Keys : Law(j)'
    <2>1. /\ l1' = Others(l1, k) /\ call[t] = Idle
          /\ call' = [call EXCEPT ![t] = IF redis THEN [at |-> "delete", key |-> k] ELSE Idle]
          /\ BeginWrite(t, k, None, 0)
          /\ UNCHANGED <<redis, store, expiry, clock>>
      BY <1>2 DEF Delete, Called
    <2>2. \A e \in ToSet(l1') : e.key # k /\ e \in ToSet(l1)
      BY <1>0, <2>1, OthersAre DEF L1OK
    <2>3. /\ call' = [call EXCEPT ![t] = call'[t]]
          /\ \/ call'[t] = Idle /\ ~redis
             \/ call'[t] = [at |-> "delete", key |-> k]
      BY <1>0, <2>1
    <2>4. None \in Values \cup {None}
      OBVIOUS
    <2> QED BY <2>1, <2>2, <2>3, <2>4, LawBegun
  <1>3. ASSUME NEW t \in Threads, NEW k \in Keys, Get(t, k)
        PROVE  \A j \in Keys : Law(j)'
    BY <1>3, LawAfterGet
  <1>4. ASSUME NEW t \in Threads, GetL2(t) \/ Fill(t) \/ SetL2(t) \/ DeleteL2(t)
        PROVE  \A j \in Keys : Law(j)'
    BY <1>4, LawAfterGetL2, LawAfterFill, LawAfterWriteL2
  <1>5. ASSUME UNCHANGED <<redis, store, expiry, call, last, due, clean>>,
               clock' \in Nat, clock' >= clock, ToSet(l1') \subseteq ToSet(l1)
        PROVE  \A j \in Keys : Law(j)'
    <2>1. ASSUME NEW j \in Keys
          PROVE  /\ \A t \in Threads : On(t, j)' => On(t, j) /\ call'[t] = call[t]
                 /\ \A t \in Threads : Writes(t, j) => call'[t] = call[t]
                 /\ store'[j] = store[j] /\ expiry'[j] = expiry[j]
                 /\ last'[j] = last[j] /\ due'[j] = due[j] /\ clean'[j] = clean[j]
      BY <1>5 DEF On
    <2> QED BY <1>5, <2>1, LawKept
  <1>6. ASSUME NEW t \in Threads, Clear(t) PROVE \A j \in Keys : Law(j)'
    <2>1. ToSet(l1') \subseteq ToSet(l1)
      BY <1>6 DEF Clear, ToSet
    <2> QED BY <1>0, <1>5, <1>6, <2>1 DEF Clear
  <1>7. CASE Tick
    BY <1>0, <1>5, <1>7 DEF Tick
  <1>8. CASE UNCHANGED vars
    BY <1>0, <1>5, <1>8 DEF vars
  <1> QED BY <1>1, <1>2, <1>3, <1>4, <1>6, <1>7, <1>8 DEF Next

LEMMA NoLevel2Next == LevelsInv /\ [Next]_vars => NoLevel2'
  <1> SUFFICES ASSUME LevelsInv, [Next]_vars, ~redis' PROVE NoLevel2'
    BY DEF NoLevel2
  <1>1. redis' = redis
    BY DEF Next, vars, Get, Set, Delete, GetL2, Fill, SetL2, DeleteL2, Clear, Tick
  <1>2. /\ \A t \in Threads : call[t] = Idle
        /\ \A k \in Keys : store[k] = None
    BY <1>1 DEF LevelsInv, NoLevel2
  <1>3. call \in [Threads -> Calls]
    BY ListTyped DEF LevelsInv, Fields
  <1>4. ASSUME UNCHANGED store, \A t \in Threads : call'[t] = Idle PROVE NoLevel2'
    BY <1>2, <1>4 DEF NoLevel2
  <1>5. ASSUME NEW t \in Threads, NEW k \in Keys, Get(t, k) PROVE NoLevel2'
    BY <1>1, <1>2, <1>3, <1>4, <1>5 DEF Get
  <1>6. ASSUME NEW t \in Threads, NEW k \in Keys, NEW v \in Values, NEW ttl \in Ttls, Set(t, k, v, ttl)
        PROVE  NoLevel2'
    BY <1>1, <1>2, <1>3, <1>4, <1>6 DEF Set
  <1>7. ASSUME NEW t \in Threads, NEW k \in Keys, Delete(t, k) PROVE NoLevel2'
    BY <1>1, <1>2, <1>3, <1>4, <1>7 DEF Delete
  <1>8. ASSUME NEW t \in Threads, GetL2(t) \/ Fill(t) \/ SetL2(t) \/ DeleteL2(t) PROVE NoLevel2'
    BY <1>2, <1>8 DEF GetL2, Fill, SetL2, DeleteL2, Idle
  <1>9. CASE Tick \/ (\E t \in Threads : Clear(t)) \/ UNCHANGED vars
    BY <1>2, <1>4, <1>9 DEF Tick, Clear, vars
  <1> QED BY <1>5, <1>6, <1>7, <1>8, <1>9 DEF Next

LEMMA LevelsNextInv == LevelsInv /\ [Next]_vars => LevelsInv'
  <1> SUFFICES ASSUME LevelsInv, [Next]_vars PROVE LevelsInv'
    OBVIOUS
  <1>1. TypeInv' /\ NoLevel2' /\ \A j \in Keys : Law(j)'
    BY TypeNextInv, NoLevel2Next, LawNextInv DEF LevelsInv
  <1> QED BY <1>1 DEF LevelsInv

LEMMA SettledAgrees ==
    ASSUME LevelsInv, NEW k \in Keys, Settled(k)
    PROVE  LocalAgrees(k) /\ StoreAgrees(k)
  <1>1. clean[k] /\ Quiet(k)
    BY DEF Settled, Quiet, Writers, Running, Writes, On
  <1> QED BY <1>1 DEF LevelsInv, Law

\* Once the last write of a key is over and no other call on it ran meanwhile,
\* both levels and every back-fill under way hold the value of that write or
\* none, for any number of threads, any capacity and any times to live.
\* (cache_manager.cpp 50-95; lru_cache.h 22-130; redis_client.cpp 38-78.)
THEOREM CacheCoherent == Spec => []LevelsAgree
  <1>1. LevelsInv => LevelsAgree
    <2> SUFFICES ASSUME LevelsInv, NEW k \in Keys, Settled(k)
                 PROVE  /\ \A e \in ToSet(l1) : e.key = k /\ ~Expired(e.until) => e.value = last[k]
                        /\ store[k] # None /\ ~Expired(expiry[k]) => store[k] = last[k]
                        /\ \A t \in Running(k) : call[t].at = "fill" => call[t].value = last[k]
      BY DEF LevelsAgree
    <2>1. LocalAgrees(k) /\ StoreAgrees(k)
      BY SettledAgrees
    <2> QED BY <2>1 DEF LocalAgrees, StoreAgrees, Running, On
  <1> QED BY <1>1, LevelsInitInv, LevelsNextInv, PTL DEF Spec

\* Level 2 keeps the value of the last write of a key until it is due, however
\* often level 1 evicts it or lets it expire and whatever an earlier value was
\* given; keys after a Clear are left out, as in the property.
\* (cache_manager.cpp 76-87; redis_client.cpp 38-70.)
THEOREM NothingForgottenEarly == Spec => []KeptUntilDue
  <1>1. LevelsInv => KeptUntilDue
    <2> SUFFICES ASSUME LevelsInv, redis, NEW k \in Keys, Settled(k), last[k] # None, clock <= due[k]
                 PROVE  store[k] = last[k] /\ ~Expired(expiry[k])
      BY DEF KeptUntilDue
    <2>1. StoreAgrees(k)
      BY SettledAgrees
    <2>2. clock \in Nat /\ due[k] \in Nat
      BY ListTyped DEF LevelsInv, Fields
    <2> QED BY <2>1, <2>2 DEF StoreAgrees, Expired
  <1> QED BY <1>1, LevelsInitInv, LevelsNextInv, PTL DEF Spec

-----------------------------------------------------------------------------
(* What a Put evicts.  The list is in the order of the last requests, so   *)
(* the place nearest to its end is the one asked for longest ago.          *)

LEMMA PutOfNewKey ==
    ASSUME L1OK, NEW k \in Keys, NEW v \in Values, NEW ttl \in Nat, clock \in Nat, ~Holds(l1, k)
    PROVE  \E e \in Entry :
              /\ e.key = k /\ AfterPut(k, v, ttl)[1] = e
              /\ Len(l1) < Capacity => ToSet(AfterPut(k, v, ttl)) = {e} \cup ToSet(l1)
              /\ Len(l1) = Capacity =>
                    \E i \in Candidates(l1) :
                        /\ \A j \in Candidates(l1) : j <= i
                        /\ ToSet(AfterPut(k, v, ttl)) = {e} \cup (ToSet(l1) \ {l1[i]})
  <1> USE CacheAssumption
  <1> DEFINE e == [key |-> k, value |-> v, until |-> UntilAfter(ttl)]
             kept == IF ~Holds(l1, k) /\ Len(l1) >= Capacity THEN Evicted(l1) ELSE Others(l1, k)
  <1>1. e \in Entry /\ e.key = k
    BY DEF Entry, UntilAfter
  <1>2. l1 \in Seq(Entry) /\ Len(l1) \in Nat
    BY DEF L1OK, ListOK
  <1>3. AfterPut(k, v, ttl) = <<e>> \o kept
    BY DEF AfterPut
  <1>4. CASE Len(l1) < Capacity
    <2>1. kept = l1
      BY <1>2, <1>4 DEF Others
    <2> HIDE DEF e, kept
    <2>2. /\ (<<e>> \o l1)[1] = e /\ ToSet(<<e>> \o l1) = {e} \cup ToSet(l1)
      BY <1>1, InFront DEF L1OK, Holds
    <2>3. ~(Len(l1) = Capacity)
      BY <1>2, <1>4
    <2> QED BY <1>1, <1>3, <2>1, <2>2, <2>3
  <1>5. CASE Len(l1) >= Capacity
    <2>1. kept = Evicted(l1) /\ l1 # <<>>
      BY <1>2, <1>5
    <2>2. PICK i \in Candidates(l1) :
             (\A j \in Candidates(l1) : j <= i) /\ Evicted(l1) = RemoveAt(l1, i)
      BY <2>1, EvictedIs DEF L1OK
    <2>3. i \in DOMAIN l1
      BY DEF Candidates, ExpiredIn
    <2> HIDE DEF e, kept
    <2>4. ListOK(kept) /\ ToSet(kept) = ToSet(l1) \ {l1[i]}
      BY <2>1, <2>2, <2>3, RemoveAtKeeps DEF L1OK
    <2>5. \A f \in ToSet(kept) : f.key # k
      BY <2>4 DEF Holds
    <2>6. (<<e>> \o kept)[1] = e /\ ToSet(<<e>> \o kept) = {e} \cup ToSet(kept)
      BY <1>1, <2>4, <2>5, InFront
    <2>7. ~(Len(l1) < Capacity)
      BY <1>2, <1>5
    <2> QED BY <1>1, <1>3, <2>2, <2>4, <2>6, <2>7
  <1> QED BY <1>2, <1>4, <1>5

Gone == {e \in ToSet(l1) : \A f \in ToSet(l1') : f.key # e.key}
ExpiredOnes == {e \in ToSet(l1) : Expired(e.until)}
Chosen == IF ExpiredOnes # {} THEN ExpiredOnes ELSE ToSet(l1)

VictimRule(k) ==
    l1' # l1 /\ l1' # <<>> /\ l1'[1].key = k /\ (\A e \in ToSet(l1) : e.key # k) =>
        /\ Gone # {} => Len(l1) = Capacity
        /\ Len(l1) = Capacity => \E victim \in Chosen :
            /\ Gone = {victim}
            /\ \A e \in Chosen \ {victim} : <<victim.key, e.key>> \in older

LEMMA ChosenAre == L1OK => Chosen = {l1[i] : i \in Candidates(l1)}
  <1> SUFFICES ASSUME L1OK PROVE Chosen = {l1[i] : i \in Candidates(l1)}
    OBVIOUS
  <1>1. ExpiredOnes = {l1[i] : i \in ExpiredIn(l1)}
    BY DEF ExpiredOnes, ExpiredIn, ToSet
  <1> QED BY <1>1 DEF Chosen, Candidates, ToSet

LEMMA PutVictim ==
    ASSUME TypeInv, NEW k \in Keys, NEW v \in Values, NEW ttl \in Nat, l1' = AfterPut(k, v, ttl),
           NEW j \in Keys
    PROVE  VictimRule(j)
  <1>0. L1OK /\ clock \in Nat /\ l1 \in Seq(Entry) /\ Len(l1) \in Nat /\ Len(l1) <= Capacity
    BY ListTyped DEF Fields, L1OK, ListOK
  <1> SUFFICES ASSUME l1'[1].key = j, l1' # <<>>, \A e \in ToSet(l1) : e.key # j
               PROVE  /\ Gone # {} => Len(l1) = Capacity
                      /\ Len(l1) = Capacity => \E victim \in Chosen :
                            /\ Gone = {victim}
                            /\ \A e \in Chosen \ {victim} : <<victim.key, e.key>> \in older
    BY DEF VictimRule
  <1>1. CASE Holds(l1, k)
    <2>1. l1'[1] \in ToSet(l1')
      <3>1. ListOK(l1')
        BY <1>0, AfterPutKeeps
      <3> QED BY <3>1 DEF ListOK, ToSet
    <2>2. l1'[1].key = k
      <3>1. l1'[1].key = k \/ l1'[1] \in ToSet(l1)
        BY <1>0, <2>1, AfterPutKeeps
      <3> QED BY <3>1
    <2> QED BY <1>1, <2>2 DEF Holds
  <1>2. CASE ~Holds(l1, k)
    <2>1. PICK e \in Entry :
             /\ e.key = k /\ l1'[1] = e
             /\ Len(l1) < Capacity => ToSet(l1') = {e} \cup ToSet(l1)
             /\ Len(l1) = Capacity =>
                   \E i \in Candidates(l1) :
                       /\ \A m \in Candidates(l1) : m <= i
                       /\ ToSet(l1') = {e} \cup (ToSet(l1) \ {l1[i]})
      BY <1>0, <1>2, PutOfNewKey
    <2>2. k = j
      BY <2>1
    <2>3. CASE Len(l1) < Capacity
      <3>1. Gone = {}
        BY <2>1, <2>3 DEF Gone
      <3> QED BY <1>0, <2>3, <3>1, CacheAssumption
    <2>4. CASE Len(l1) = Capacity
      <3>1. PICK i \in Candidates(l1) :
               /\ \A m \in Candidates(l1) : m <= i
               /\ ToSet(l1') = {e} \cup (ToSet(l1) \ {l1[i]})
        BY <2>1, <2>4
      <3>2. i \in DOMAIN l1 /\ l1[i] \in ToSet(l1) /\ Candidates(l1) \subseteq DOMAIN l1
        BY DEF Candidates, ExpiredIn, ToSet
      <3>3. \A f \in ToSet(l1) : f.key = l1[i].key => f = l1[i]
        BY <1>0, <3>2, RemoveAtKeeps DEF L1OK
      <3>4. Gone = {l1[i]}
        BY <2>1, <2>2, <3>1, <3>2, <3>3 DEF Gone
      <3>5. l1[i] \in Chosen
        BY <1>0, ChosenAre
      <3>6. ASSUME NEW f \in Chosen \ {l1[i]} PROVE <<l1[i].key, f.key>> \in older
        <4>1. PICK m \in Candidates(l1) : f = l1[m]
          BY <1>0, <3>6, ChosenAre
        <4>2. m \in DOMAIN l1 /\ m < i
          BY <1>0, <3>1, <3>2, <3>6, <4>1
        <4> QED BY <1>0, <3>2, <4>1, <4>2 DEF L1OK, Ordered
      <3> QED BY <2>4, <3>4, <3>5, <3>6
    <2> QED BY <1>0, <2>3, <2>4, CacheAssumption
  <1> QED BY <1>1, <1>2

LEMMA VictimStep ==
    ASSUME TypeInv, [Next]_vars, NEW j \in Keys
    PROVE  VictimRule(j)
  <1> USE CacheAssumption
  <1>0. L1OK /\ call \in [Threads -> Calls]
    BY ListTyped DEF Fields
  <1>1. ASSUME l1' # <<>> => l1'[1] \in ToSet(l1) PROVE VictimRule(j)
    BY <1>1 DEF VictimRule
  <1>2. ASSUME l1' = l1 PROVE VictimRule(j)
    BY <1>2 DEF VictimRule
  <1>3. ASSUME NEW t \in Threads, NEW k \in Keys, Get(t, k) PROVE VictimRule(j)
    BY <1>0, <1>1, <1>3, AfterGetKeeps DEF Get
  <1>4. ASSUME NEW t \in Threads, NEW k \in Keys, NEW v \in Values, NEW ttl \in Ttls, Set(t, k, v, ttl)
        PROVE  VictimRule(j)
    <2> DEFINE ttl1 == IF ttl > 0 THEN ttl ELSE LocalTtl
    <2>1. ttl1 \in Nat /\ l1' = AfterPut(k, v, ttl1)
      BY <1>4 DEF Set
    <2> HIDE DEF ttl1
    <2> QED BY <2>1, PutVictim
  <1>5. ASSUME NEW t \in Threads, NEW k \in Keys, Delete(t, k) PROVE VictimRule(j)
    <2>1. l1' = Others(l1, k) /\ ListOK(l1') /\ ToSet(l1') \subseteq ToSet(l1)
      BY <1>0, <1>5, OthersAre DEF Delete, L1OK
    <2>2. l1' # <<>> => l1'[1] \in ToSet(l1')
      BY <2>1 DEF ListOK, ToSet
    <2> QED BY <1>1, <2>1, <2>2
  <1>6. ASSUME NEW t \in Threads, Fill(t) PROVE VictimRule(j)
    <2>1. /\ call[t].key \in Keys /\ call[t].value \in Values
          /\ l1' = AfterPut(call[t].key, call[t].value, LocalTtl)
      BY <1>0, <1>6, CallIs DEF Fill, Idle
    <2> QED BY <2>1, PutVictim
  <1>7. ASSUME NEW t \in Threads, Clear(t) PROVE VictimRule(j)
    BY <1>1, <1>7 DEF Clear
  <1>8. ASSUME NEW t \in Threads, GetL2(t) \/ SetL2(t) \/ DeleteL2(t) PROVE VictimRule(j)
    BY <1>2, <1>8 DEF GetL2, SetL2, DeleteL2
  <1>9. CASE Tick \/ UNCHANGED vars
    BY <1>2, <1>9 DEF Tick, vars
  <1> QED BY <1>3, <1>4, <1>5, <1>6, <1>7, <1>8, <1>9 DEF Next

\* At its capacity level 1 gives up one entry for a new key, and no other: the
\* expired one, or else the one of all, that was asked for or written longest
\* ago, over any series of calls.  (lru_cache.h 41-68, 116-130.)
THEOREM EvictsTheOldest == Spec => VictimOldest
  <1>1. TypeInv /\ [Next]_vars =>
          [\A k \in Keys :
             LET gone == {e \in ToSet(l1) : \A f \in ToSet(l1') : f.key # e.key}
                 expired == {e \in ToSet(l1) : Expired(e.until)}
                 candidates == IF expired # {} THEN expired ELSE ToSet(l1)
             IN  l1' # l1 /\ l1' # <<>> /\ l1'[1].key = k /\ (\A e \in ToSet(l1) : e.key # k) =>
                   /\ gone # {} => Len(l1) = Capacity
                   /\ Len(l1) = Capacity => \E victim \in candidates :
                       /\ gone = {victim}
                       /\ \A e \in candidates \ {victim} : <<victim.key, e.key>> \in older]_vars
    BY VictimStep DEF VictimRule, Gone, ExpiredOnes, Chosen
  <1> QED BY <1>1, TypeInitInv, TypeNextInv, PTL DEF Spec, VictimOldest
====
