------------------------- MODULE EventHandlerProofs -------------------------
(***************************************************************************)
(* The report store doubles and reorders nothing between its queue and its *)
(* table and accounts for every event, for every batch size, whatever      *)
(* statement fails; the event handler uses the store only as its           *)
(* specification allows, so that the same holds while handlers, crashes    *)
(* and the end of the process interleave with the flush thread.            *)
(* Co-occurrence stays symmetric, profile files stay exact, and what is    *)
(* counted are events that came in.                                        *)
(***************************************************************************)
EXTENDS EventHandler, SequenceTheorems, FiniteSetTheorems, TLAPS

\* The numbers in a sequence grow, and all those of one set are below all
\* those of another.
Increasing(s) == \A i, j \in DOMAIN s : i < j => s[i] < s[j]
Before(A, B) == \A x \in A, y \in B : x < y

\* What Ledger says of the table, the transaction, the batch and the queue
\* taken one by one.
Arranged(r, x, b, q) ==
    /\ Increasing(r) /\ Increasing(x) /\ Increasing(b) /\ Increasing(q)
    /\ Before(Entries(r), Entries(x)) /\ Before(Entries(r), Entries(b))
    /\ Before(Entries(r), Entries(q)) /\ Before(Entries(x), Entries(b))
    /\ Before(Entries(x), Entries(q)) /\ Before(Entries(b), Entries(q))

HeldEntries == Entries(rows) \union Entries(txn) \union Entries(batch) \union Entries(queue)

LedgerParts ==
    /\ Arranged(rows, txn, batch, queue)
    /\ HeldEntries \union lost \union dropped = DOMAIN accepted
    /\ HeldEntries \intersect (lost \union dropped) = {}

\* The inductive invariant.  Ledger needs the types, and that there is no
\* batch when TakeBatch starts a new one, no row when a transaction begins,
\* and neither when the process ends in order.
StoreInv == StoreTypeOK /\ LedgerParts /\ BatchHeld

-----------------------------------------------------------------------------
(* Growing sequences.                                                      *)

LEMMA EntriesType ==
    ASSUME NEW s \in Seq(Nat)
    PROVE  Entries(s) \subseteq Nat
  BY DEF Entries

LEMMA NoEntries == Entries(<<>>) = {} /\ Increasing(<<>>) /\ <<>> \in Seq(Nat)
  BY DEF Entries, Increasing

LEMMA OneEntry ==
    ASSUME NEW n \in Nat
    PROVE  Entries(<<n>>) = {n} /\ Increasing(<<n>>) /\ <<n>> \in Seq(Nat)
  BY DEF Entries, Increasing

LEMMA EntriesConcat ==
    ASSUME NEW a \in Seq(Nat), NEW b \in Seq(Nat)
    PROVE  Entries(a \o b) = Entries(a) \union Entries(b)
  <1> DEFINE m == Len(a)
             n == Len(b)
             c == a \o b
  <1>1. /\ m \in Nat /\ n \in Nat /\ DOMAIN a = 1..m /\ DOMAIN b = 1..n /\ DOMAIN c = 1..(m + n)
        /\ \A i \in 1..m : c[i] = a[i]
        /\ \A i \in 1..n : c[i + m] = b[i] /\ i + m \in 1..(m + n)
        /\ \A i \in 1..(m + n) : i > m => c[i] = b[i - m] /\ i - m \in 1..n
    BY ConcatProperties
  <1> HIDE DEF c, m, n
  <1>2. Entries(c) \subseteq Entries(a) \union Entries(b)
    <2> SUFFICES ASSUME NEW i \in DOMAIN c PROVE c[i] \in Entries(a) \union Entries(b)
      BY DEF Entries
    <2>1. CASE i <= m
      BY <1>1, <2>1 DEF Entries
    <2>2. CASE i > m
      BY <1>1, <2>2 DEF Entries
    <2> QED BY <1>1, <2>1, <2>2
  <1>3. Entries(a) \subseteq Entries(c)
    <2> SUFFICES ASSUME NEW i \in DOMAIN a PROVE a[i] \in Entries(c)
      BY DEF Entries
    <2>1. i \in DOMAIN c /\ c[i] = a[i]
      BY <1>1
    <2> QED BY <2>1 DEF Entries
  <1>4. Entries(b) \subseteq Entries(c)
    <2> SUFFICES ASSUME NEW i \in DOMAIN b PROVE b[i] \in Entries(c)
      BY DEF Entries
    <2>1. i + m \in DOMAIN c /\ c[i + m] = b[i]
      BY <1>1
    <2> QED BY <2>1 DEF Entries
  <1> QED BY <1>2, <1>3, <1>4 DEF c

\* A concatenation grows exactly when its parts grow, one below the other.
LEMMA IncreasingConcat ==
    ASSUME NEW a \in Seq(Nat), NEW b \in Seq(Nat)
    PROVE  Increasing(a \o b) <=>
              Increasing(a) /\ Increasing(b) /\ Before(Entries(a), Entries(b))
  <1> DEFINE m == Len(a)
             n == Len(b)
             c == a \o b
  <1>1. /\ m \in Nat /\ n \in Nat /\ DOMAIN a = 1..m /\ DOMAIN b = 1..n /\ DOMAIN c = 1..(m + n)
        /\ \A i \in 1..m : c[i] = a[i] /\ i \in 1..(m + n)
        /\ \A i \in 1..n : c[i + m] = b[i] /\ i + m \in 1..(m + n)
        /\ \A i \in 1..(m + n) : i > m => c[i] = b[i - m] /\ i - m \in 1..n
    BY ConcatProperties
  <1> HIDE DEF c, m, n
  <1>2. ASSUME Increasing(c) PROVE Increasing(a)
    BY <1>1, <1>2 DEF Increasing
  <1>3. ASSUME Increasing(c) PROVE Increasing(b)
    <2> SUFFICES ASSUME NEW i \in 1..n, NEW j \in 1..n, i < j PROVE b[i] < b[j]
      BY <1>1 DEF Increasing
    <2>1. i + m < j + m /\ i + m \in DOMAIN c /\ j + m \in DOMAIN c
      BY <1>1
    <2>2. c[i + m] < c[j + m]
      BY <1>3, <2>1 DEF Increasing
    <2> QED BY <1>1, <2>2
  <1>4. ASSUME Increasing(c) PROVE Before(Entries(a), Entries(b))
    <2> SUFFICES ASSUME NEW i \in 1..m, NEW j \in 1..n PROVE a[i] < b[j]
      BY <1>1 DEF Before, Entries
    <2>1. i < j + m /\ i \in DOMAIN c /\ j + m \in DOMAIN c
      BY <1>1
    <2>2. c[i] < c[j + m]
      BY <1>4, <2>1 DEF Increasing
    <2> QED BY <1>1, <2>2
  <1>5. ASSUME Increasing(a), Increasing(b), Before(Entries(a), Entries(b)) PROVE Increasing(c)
    <2> SUFFICES ASSUME NEW i \in 1..(m + n), NEW j \in 1..(m + n), i < j PROVE c[i] < c[j]
      BY <1>1 DEF Increasing
    <2>1. CASE j <= m
      <3>1. i \in DOMAIN a /\ j \in DOMAIN a
        BY <1>1, <2>1
      <3>2. a[i] < a[j]
        BY <1>5, <3>1 DEF Increasing
      <3> QED BY <1>1, <3>1, <3>2
    <2>2. CASE i <= m /\ j > m
      <3>1. i \in DOMAIN a /\ j - m \in DOMAIN b /\ c[i] = a[i] /\ c[j] = b[j - m]
        BY <1>1, <2>2
      <3>2. a[i] \in Entries(a) /\ b[j - m] \in Entries(b)
        BY <3>1 DEF Entries
      <3> QED BY <1>5, <3>1, <3>2 DEF Before
    <2>3. CASE i > m
      <3>1. i - m \in DOMAIN b /\ j - m \in DOMAIN b /\ i - m < j - m
        BY <1>1, <2>3
      <3>2. b[i - m] < b[j - m]
        BY <1>5, <3>1 DEF Increasing
      <3> QED BY <1>1, <2>3, <3>2
    <2> QED BY <1>1, <2>1, <2>2, <2>3
  <1> QED BY <1>2, <1>3, <1>4, <1>5 DEF c

LEMMA EntriesAppend ==
    ASSUME NEW s \in Seq(Nat), NEW n \in Nat
    PROVE  /\ Append(s, n) \in Seq(Nat)
           /\ Entries(Append(s, n)) = Entries(s) \union {n}
           /\ Increasing(Append(s, n)) <=> Increasing(s) /\ Before(Entries(s), {n})
  <1> DEFINE h == <<n>>
  <1>1. h \in Seq(Nat) /\ Entries(h) = {n} /\ Increasing(h)
    BY OneEntry
  <1>2. Append(s, n) \in Seq(Nat) /\ Append(s, n) = s \o h
    BY AppendProperties, AppendIsConcat
  <1> HIDE DEF h
  <1>3. /\ Entries(s \o h) = Entries(s) \union Entries(h)
        /\ Increasing(s \o h) <=> Increasing(s) /\ Increasing(h) /\ Before(Entries(s), Entries(h))
    BY <1>1, EntriesConcat, IncreasingConcat
  <1> QED BY <1>1, <1>2, <1>3

\* The head of a batch and the rest of it.
LEMMA EntriesHeadTail ==
    ASSUME NEW s \in Seq(Nat), s # <<>>, Increasing(s)
    PROVE  /\ Head(s) \in Nat /\ Tail(s) \in Seq(Nat) /\ Len(Tail(s)) = Len(s) - 1
           /\ Entries(s) = {Head(s)} \union Entries(Tail(s))
           /\ Increasing(Tail(s)) /\ Before({Head(s)}, Entries(Tail(s)))
  <1> DEFINE h == <<Head(s)>>
             t == Tail(s)
  <1>1. Head(s) \in Nat /\ t \in Seq(Nat) /\ Len(t) = Len(s) - 1
    BY HeadTailProperties
  <1>2. h \in Seq(Nat) /\ Entries(h) = {Head(s)}
    BY <1>1, OneEntry
  <1>3. s = h \o t
    BY HeadTailProperties
  <1> HIDE DEF h, t
  <1>4. /\ Entries(h \o t) = Entries(h) \union Entries(t)
        /\ Increasing(h \o t) => Increasing(t) /\ Before(Entries(h), Entries(t))
    BY <1>1, <1>2, EntriesConcat, IncreasingConcat
  <1> QED BY <1>1, <1>2, <1>3, <1>4 DEF t

\* What TakeBatch takes out of the queue and what it leaves are the queue.
LEMMA TakenAndLeft ==
    ASSUME queue \in Seq(Nat)
    PROVE  /\ SubSeq(queue, 1, Taken) \in Seq(Nat)
           /\ SubSeq(queue, Taken + 1, Len(queue)) \in Seq(Nat)
           /\ Len(SubSeq(queue, 1, Taken)) <= BatchSize
           /\ SubSeq(queue, 1, Taken) \o SubSeq(queue, Taken + 1, Len(queue)) = queue
  <1>1. Taken \in Nat /\ Taken <= Len(queue) /\ Taken <= BatchSize
    BY BatchSizeAssumption DEF Taken
  <1>2. Len(queue) \in Nat
    BY LenProperties
  <1>3. SubSeq(queue, 1, Taken) \in Seq(Nat)
    BY <1>1, <1>2, SubSeqProperties
  <1>4. SubSeq(queue, Taken + 1, Len(queue)) \in Seq(Nat)
    BY <1>1, <1>2, SubSeqProperties
  <1>5. Len(SubSeq(queue, 1, Taken)) <= BatchSize
    BY <1>1, <1>2, SubSeqProperties, BatchSizeAssumption
  <1>6. SubSeq(queue, 1, Taken) \o SubSeq(queue, Taken + 1, Len(queue))
          = SubSeq(queue, 1, Len(queue))
    <2>1. 1 \in 1 .. Len(queue) + 1 /\ Taken \in 1 - 1 .. Len(queue)
          /\ Len(queue) \in Taken .. Len(queue)
      BY <1>1, <1>2
    <2> HIDE DEF Taken
    <2> QED BY <2>1, ConcatAdjacentSubSeq
  <1> QED BY <1>3, <1>4, <1>5, <1>6, SubSeqFull

\* Four sequences in a row, and what Ledger says of them.
LEMMA FourParts ==
    ASSUME NEW r \in Seq(Nat), NEW x \in Seq(Nat), NEW b \in Seq(Nat), NEW q \in Seq(Nat)
    PROVE  /\ Increasing(r \o x \o b \o q) <=> Arranged(r, x, b, q)
           /\ Entries(r \o x \o b \o q)
                = Entries(r) \union Entries(x) \union Entries(b) \union Entries(q)
  <1> DEFINE rx == r \o x
             rxb == rx \o b
  <1>1. rx \in Seq(Nat) /\ rxb \in Seq(Nat)
    BY ConcatProperties
  <1>2. Entries(rx) = Entries(r) \union Entries(x)
    BY EntriesConcat
  <1>3. Increasing(rx) <=> Increasing(r) /\ Increasing(x) /\ Before(Entries(r), Entries(x))
    BY IncreasingConcat
  <1> HIDE DEF rx
  <1>4. Entries(rxb) = Entries(rx) \union Entries(b)
    BY <1>1, EntriesConcat
  <1>5. Increasing(rxb) <=> Increasing(rx) /\ Increasing(b) /\ Before(Entries(rx), Entries(b))
    BY <1>1, IncreasingConcat
  <1> HIDE DEF rxb
  <1>6. Entries(rxb \o q) = Entries(rxb) \union Entries(q)
    BY <1>1, EntriesConcat
  <1>7. Increasing(rxb \o q) <=> Increasing(rxb) /\ Increasing(q) /\ Before(Entries(rxb), Entries(q))
    BY <1>1, IncreasingConcat
  <1>8. Entries(rxb \o q) = Entries(r) \union Entries(x) \union Entries(b) \union Entries(q)
    BY <1>2, <1>4, <1>6
  <1>9. Increasing(rxb \o q) <=> Arranged(r, x, b, q)
    BY <1>2, <1>3, <1>4, <1>5, <1>7 DEF Arranged, Before
  <1> QED BY <1>8, <1>9 DEF rx, rxb

LEMMA StoreInvLedger == StoreInv => Ledger
  <1> SUFFICES ASSUME StoreInv PROVE Ledger
    OBVIOUS
  <1>1. rows \in Seq(Nat) /\ txn \in Seq(Nat) /\ batch \in Seq(Nat) /\ queue \in Seq(Nat)
    BY DEF StoreInv, StoreTypeOK
  <1>2. Increasing(Held) /\ Entries(Held) = HeldEntries
    BY <1>1, FourParts DEF StoreInv, LedgerParts, Held, HeldEntries
  <1> QED BY <1>2 DEF Ledger, Increasing, StoreInv, LedgerParts

-----------------------------------------------------------------------------
LEMMA StoreInitInv == StoreInit => StoreInv
  <1> SUFFICES ASSUME StoreInit PROVE StoreInv
    OBVIOUS
  <1>1. StoreTypeOK
    BY EmptySeq DEF StoreInit, StoreTypeOK
  <1>2. LedgerParts
    BY NoEntries DEF StoreInit, LedgerParts, HeldEntries, Arranged, Before
  <1>3. BatchHeld
    BY EmptySeq, BatchSizeAssumption DEF StoreInit, BatchHeld
  <1> QED BY <1>1, <1>2, <1>3 DEF StoreInv

\* The steps that move no event.
LEMMA StoreStays ==
    ASSUME StoreInv,
           Initialize \/ RequestStop \/ LeaveLoop \/ EnterLoop \/ WaitEnds \/ BeginBatch
             \/ BeginFails \/ UNCHANGED storeVars
    PROVE  StoreInv'
  <1>1. /\ UNCHANGED <<queue, batch, txn, rows, accepted, lost, dropped>>
        /\ running' \in BOOLEAN /\ stopRequested' \in BOOLEAN /\ open' \in BOOLEAN
        /\ flush' \in {"none", "top", "wait", "begin", "insert", "exited"}
        /\ flush' \notin {"begin", "insert"} => flush \notin {"begin", "insert"}
        /\ ~open' => ~open
        /\ ~running' => ~running /\ flush' \in {"none", "exited"} /\ ~open'
    <2> USE DEF StoreInv, StoreTypeOK, BatchHeld
    <2>1. CASE Initialize \/ RequestStop
      BY <2>1 DEF Initialize, RequestStop
    <2>2. CASE LeaveLoop \/ EnterLoop \/ WaitEnds
      BY <2>2 DEF LeaveLoop, EnterLoop, WaitEnds
    <2>3. CASE BeginBatch
      BY <2>3 DEF BeginBatch
    <2>4. CASE BeginFails
      BY <2>4 DEF BeginFails
    <2>5. CASE UNCHANGED storeVars
      BY <2>5 DEF storeVars
    <2> QED BY <2>1, <2>2, <2>3, <2>4, <2>5
  <1>2. StoreTypeOK'
    BY <1>1 DEF StoreInv, StoreTypeOK
  <1>3. LedgerParts'
    BY <1>1 DEF StoreInv, LedgerParts, Arranged, HeldEntries
  <1>4. BatchHeld'
    BY <1>1 DEF StoreInv, BatchHeld
  <1> QED BY <1>2, <1>3, <1>4 DEF StoreInv

\* The numbers in the store.
LEMMA StoreNumbers ==
    ASSUME StoreInv
    PROVE  /\ rows \in Seq(Nat) /\ txn \in Seq(Nat) /\ batch \in Seq(Nat) /\ queue \in Seq(Nat)
           /\ Entries(rows) \subseteq Nat /\ Entries(txn) \subseteq Nat
           /\ Entries(batch) \subseteq Nat /\ Entries(queue) \subseteq Nat
  BY EntriesType DEF StoreInv, StoreTypeOK

LEMMA StoreReports ==
    ASSUME StoreInv, NEW e \in Events, Report(e), running
    PROVE  StoreInv'
  <1> DEFINE n == Len(accepted) + 1
  <1>1. /\ queue' = Append(queue, n) /\ accepted' = Append(accepted, e)
        /\ UNCHANGED <<running, stopRequested, flush, batch, open, txn, rows, lost, dropped>>
    BY DEF Report
  <1>2. /\ n \in Nat /\ accepted' \in Seq(Events) /\ DOMAIN accepted' = DOMAIN accepted \union {n}
        /\ Before(DOMAIN accepted, {n}) /\ n \notin DOMAIN accepted
    BY <1>1 DEF StoreInv, StoreTypeOK, Before
  <1> HIDE DEF n
  <1>3. /\ queue' \in Seq(Nat) /\ Entries(queue') = Entries(queue) \union {n}
        /\ Increasing(queue') <=> Increasing(queue) /\ Before(Entries(queue), {n})
    BY <1>1, <1>2, StoreNumbers, EntriesAppend
  <1>4. HeldEntries \subseteq DOMAIN accepted /\ lost \union dropped \subseteq DOMAIN accepted
    BY DEF StoreInv, LedgerParts
  <1>5. StoreTypeOK'
    BY <1>1, <1>2, <1>3 DEF StoreInv, StoreTypeOK
  <1>6. Arranged(rows, txn, batch, queue)'
    BY <1>1, <1>2, <1>3, <1>4 DEF StoreInv, LedgerParts, Arranged, Before, HeldEntries
  <1>7. LedgerParts'
    BY <1>1, <1>2, <1>3, <1>4, <1>6 DEF StoreInv, LedgerParts, HeldEntries
  <1>8. BatchHeld'
    BY <1>1 DEF StoreInv, BatchHeld
  <1> QED BY <1>5, <1>7, <1>8 DEF StoreInv

\* The ends of the store and of the process: the queue, the batch and the
\* transaction are emptied into lost or dropped, or were empty already.
LEMMA StoreEnds ==
    ASSUME StoreInv, StopAfterJoin \/ ProcessEnds \/ ProcessDies
    PROVE  StoreInv'
  <1>1. Entries(<<>>) = {} /\ Increasing(<<>>) /\ <<>> \in Seq(Nat) /\ Len(<<>>) = 0
    BY NoEntries
  <1>2. CASE StopAfterJoin
    <2>1. /\ flush = "exited" /\ running' = FALSE /\ open' = FALSE /\ txn' = <<>>
          /\ lost' = lost \union Entries(txn)
          /\ UNCHANGED <<stopRequested, queue, flush, batch, rows, accepted, dropped>>
      BY <1>2 DEF StopAfterJoin
    <2>2. Entries(txn) \intersect (Entries(rows) \union Entries(batch) \union Entries(queue)) = {}
      BY StoreNumbers DEF StoreInv, LedgerParts, Arranged, Before
    <2>3. StoreTypeOK'
      BY <1>1, <2>1, StoreNumbers DEF StoreInv, StoreTypeOK
    <2>4. LedgerParts'
      BY <1>1, <2>1, <2>2 DEF StoreInv, LedgerParts, Arranged, Before, HeldEntries
    <2>5. BatchHeld'
      BY <2>1 DEF StoreInv, BatchHeld
    <2> QED BY <2>3, <2>4, <2>5 DEF StoreInv
  <1>3. ASSUME ProcessEnds \/ ProcessDies,
               lost' \union dropped' = lost \union dropped \union
                   (Entries(txn) \union Entries(batch) \union Entries(queue)),
               lost' \subseteq Nat, dropped' \subseteq Nat
        PROVE  StoreInv'
    <2>1. /\ running' = FALSE /\ stopRequested' = FALSE /\ queue' = <<>> /\ flush' = "none"
          /\ batch' = <<>> /\ open' = FALSE /\ txn' = <<>> /\ UNCHANGED <<rows, accepted>>
      BY <1>3 DEF ProcessEnds, ProcessDies, Forget
    <2>2. (Entries(txn) \union Entries(batch) \union Entries(queue)) \intersect Entries(rows) = {}
      BY StoreNumbers DEF StoreInv, LedgerParts, Arranged, Before
    <2>3. StoreTypeOK'
      BY <1>1, <1>3, <2>1 DEF StoreInv, StoreTypeOK
    <2>4. LedgerParts'
      BY <1>1, <1>3, <2>1, <2>2 DEF StoreInv, LedgerParts, Arranged, Before, HeldEntries
    <2>5. BatchHeld'
      BY <1>1, <2>1, BatchSizeAssumption DEF BatchHeld
    <2> QED BY <2>3, <2>4, <2>5 DEF StoreInv
  <1>4. CASE ProcessEnds
    <2>1. /\ batch = <<>> /\ txn = <<>> /\ lost' = lost
          /\ dropped' = dropped \union Entries(queue)
      BY <1>4 DEF ProcessEnds, StoreInv, BatchHeld
    <2>2. dropped' \subseteq Nat /\ lost' \subseteq Nat
      BY <2>1, StoreNumbers DEF StoreInv, StoreTypeOK
    <2>3. lost' \union dropped' = lost \union dropped \union
              (Entries(txn) \union Entries(batch) \union Entries(queue))
      BY <1>1, <2>1
    <2> QED BY <1>3, <1>4, <2>2, <2>3
  <1>5. CASE ProcessDies
    <2>1. queue \o batch \in Seq(Nat) /\ Entries(queue \o batch) = Entries(queue) \union Entries(batch)
      BY StoreNumbers, EntriesConcat, ConcatProperties
    <2>2. Entries(queue \o batch \o txn) = Entries(queue \o batch) \union Entries(txn)
      BY <2>1, StoreNumbers, EntriesConcat
    <2>3. lost' = lost \union Entries(queue \o batch \o txn) /\ dropped' = dropped
      BY <1>5 DEF ProcessDies
    <2>4. lost' = lost \union Entries(queue) \union Entries(batch) \union Entries(txn)
      BY <2>1, <2>2, <2>3
    <2>5. dropped' \subseteq Nat /\ lost' \subseteq Nat
      BY <2>3, <2>4, StoreNumbers DEF StoreInv, StoreTypeOK
    <2>6. lost' \union dropped' = lost \union dropped \union
              (Entries(txn) \union Entries(batch) \union Entries(queue))
      BY <2>3, <2>4
    <2> QED BY <1>3, <1>5, <2>5, <2>6
  <1> QED BY <1>2, <1>4, <1>5

LEMMA StoreTakes ==
    ASSUME StoreInv, TakeBatch
    PROVE  StoreInv'
  <1> DEFINE b == SubSeq(queue, 1, Taken)
             q == SubSeq(queue, Taken + 1, Len(queue))
  <1>1. /\ flush = "wait" /\ flush' = "begin" /\ batch' = b /\ queue' = q
        /\ UNCHANGED <<running, stopRequested, open, txn, rows, accepted, lost, dropped>>
    BY DEF TakeBatch
  <1>2. batch = <<>>
    BY <1>1 DEF StoreInv, BatchHeld
  <1>3. b \in Seq(Nat) /\ q \in Seq(Nat) /\ Len(b) <= BatchSize /\ b \o q = queue
    BY StoreNumbers, TakenAndLeft
  <1> HIDE DEF b, q
  <1>4. /\ Entries(b \o q) = Entries(b) \union Entries(q)
        /\ Increasing(b \o q) <=> Increasing(b) /\ Increasing(q) /\ Before(Entries(b), Entries(q))
    BY <1>3, EntriesConcat, IncreasingConcat
  <1>5. Increasing(queue) /\ Before(Entries(rows), Entries(queue)) /\ Before(Entries(txn), Entries(queue))
    BY DEF StoreInv, LedgerParts, Arranged
  <1>6. Entries(queue) = Entries(b) \union Entries(q)
    BY <1>3, <1>4
  <1>7. Increasing(b) /\ Increasing(q) /\ Before(Entries(b), Entries(q))
    BY <1>3, <1>4, <1>5
  <1>8. StoreTypeOK'
    BY <1>1, <1>3 DEF StoreInv, StoreTypeOK
  <1>9. Arranged(rows, txn, batch, queue)'
    <2>1. Arranged(rows, txn, b, q)
      BY <1>5, <1>6, <1>7 DEF StoreInv, LedgerParts, Arranged, Before
    <2> QED BY <1>1, <2>1 DEF Arranged
  <1>10. LedgerParts'
    <2>1. Entries(batch) = {}
      BY <1>2, NoEntries
    <2>2. HeldEntries' = HeldEntries
      BY <1>1, <1>6, <2>1 DEF HeldEntries
    <2> QED BY <1>1, <1>9, <2>2 DEF StoreInv, LedgerParts
  <1>11. BatchHeld'
    BY <1>1, <1>3 DEF StoreInv, BatchHeld
  <1> QED BY <1>8, <1>10, <1>11 DEF StoreInv

\* An event leaves the head of the batch for the transaction or the table ...
LEMMA StoreInserts ==
    ASSUME StoreInv, InsertRow
    PROVE  StoreInv'
  <1> DEFINE h == Head(batch)
             b == Tail(batch)
  <1>1. /\ flush = "insert" /\ batch # <<>> /\ batch' = b
        /\ UNCHANGED <<running, stopRequested, queue, flush, open, accepted, lost, dropped>>
        /\ IF open THEN txn' = Append(txn, h) /\ rows' = rows
                   ELSE rows' = Append(rows, h) /\ txn' = txn
    BY DEF InsertRow
  <1>2. Arranged(rows, txn, batch, queue)
    BY DEF StoreInv, LedgerParts
  <1>3. /\ h \in Nat /\ b \in Seq(Nat) /\ Len(b) = Len(batch) - 1
        /\ Entries(batch) = {h} \union Entries(b) /\ Increasing(b) /\ Before({h}, Entries(b))
    BY <1>1, <1>2, StoreNumbers, EntriesHeadTail DEF Arranged
  <1> HIDE DEF h, b
  <1>4. /\ Append(txn, h) \in Seq(Nat) /\ Entries(Append(txn, h)) = Entries(txn) \union {h}
        /\ Increasing(Append(txn, h)) <=> Increasing(txn) /\ Before(Entries(txn), {h})
        /\ Append(rows, h) \in Seq(Nat) /\ Entries(Append(rows, h)) = Entries(rows) \union {h}
        /\ Increasing(Append(rows, h)) <=> Increasing(rows) /\ Before(Entries(rows), {h})
    BY <1>3, StoreNumbers, EntriesAppend
  <1>5. Len(batch) \in Nat /\ Len(batch') <= BatchSize
    BY <1>1, <1>3, StoreNumbers, LenProperties, BatchSizeAssumption DEF StoreInv, BatchHeld
  <1>6. StoreTypeOK'
    BY <1>1, <1>3, <1>4 DEF StoreInv, StoreTypeOK
  <1>7. BatchHeld'
    BY <1>1, <1>5 DEF StoreInv, BatchHeld
  <1>8. CASE open
    <2>1. Arranged(rows, Append(txn, h), b, queue)
      BY <1>2, <1>3, <1>4 DEF Arranged, Before
    <2>2. HeldEntries' = HeldEntries
      BY <1>1, <1>3, <1>4, <1>8 DEF HeldEntries
    <2>3. Arranged(rows, txn, batch, queue)'
      BY <1>1, <1>8, <2>1 DEF Arranged
    <2> QED BY <1>1, <1>6, <1>7, <2>2, <2>3 DEF StoreInv, LedgerParts
  <1>9. CASE ~open
    <2>1. txn = <<>>
      BY <1>9 DEF StoreInv, BatchHeld
    <2>2. Entries(txn) = {} /\ Increasing(txn)
      BY <2>1, NoEntries
    <2>3. Arranged(Append(rows, h), txn, b, queue)
      BY <1>2, <1>3, <1>4, <2>2 DEF Arranged, Before
    <2>4. HeldEntries' = HeldEntries
      BY <1>1, <1>3, <1>4, <1>9 DEF HeldEntries
    <2>5. Arranged(rows, txn, batch, queue)'
      BY <1>1, <1>9, <2>3 DEF Arranged
    <2> QED BY <1>1, <1>6, <1>7, <2>4, <2>5 DEF StoreInv, LedgerParts
  <1> QED BY <1>8, <1>9

\* ... and the transaction for the table.
LEMMA StoreCommits ==
    ASSUME StoreInv, Commit
    PROVE  StoreInv'
  <1> DEFINE r == rows \o txn
  <1>1. /\ batch = <<>> /\ rows' = r /\ txn' = <<>> /\ open' = FALSE /\ flush' = "top"
        /\ flush = "insert"
        /\ UNCHANGED <<running, stopRequested, queue, batch, accepted, lost, dropped>>
    BY DEF Commit
  <1>2. r \in Seq(Nat) /\ Entries(r) = Entries(rows) \union Entries(txn)
        /\ (Increasing(r) <=> Increasing(rows) /\ Increasing(txn) /\ Before(Entries(rows), Entries(txn)))
    BY StoreNumbers, ConcatProperties, EntriesConcat, IncreasingConcat
  <1> HIDE DEF r
  <1>3. Entries(<<>>) = {} /\ Increasing(<<>>) /\ <<>> \in Seq(Nat)
    BY NoEntries
  <1>4. StoreTypeOK'
    BY <1>1, <1>2, <1>3 DEF StoreInv, StoreTypeOK
  <1>5. Arranged(rows, txn, batch, queue)'
    <2>1. Arranged(r, <<>>, batch, queue)
      BY <1>2, <1>3 DEF StoreInv, LedgerParts, Arranged, Before
    <2> QED BY <1>1, <2>1 DEF Arranged
  <1>6. HeldEntries' = HeldEntries
    BY <1>1, <1>2, <1>3 DEF HeldEntries
  <1>7. BatchHeld'
    BY <1>1 DEF StoreInv, BatchHeld
  <1> QED BY <1>1, <1>4, <1>5, <1>6, <1>7 DEF StoreInv, LedgerParts

\* A statement that fails: events leave the batch or the transaction and are
\* lost, and no other moves.
LEMMA StoreLoses ==
    ASSUME StoreInv, PrepareFails \/ InsertFails \/ CommitFails
    PROVE  StoreInv'
  <1>1. Entries(<<>>) = {} /\ Increasing(<<>>) /\ <<>> \in Seq(Nat) /\ Len(<<>>) = 0
    BY NoEntries
  <1>2. Arranged(rows, txn, batch, queue)
    BY DEF StoreInv, LedgerParts
  <1>3. ASSUME NEW gone, gone \subseteq Nat, lost' = lost \union gone,
               txn' \in Seq(Nat), batch' \in Seq(Nat),
               Entries(txn') \union Entries(batch') \union gone = Entries(txn) \union Entries(batch),
               gone \intersect (Entries(txn') \union Entries(batch')) = {},
               Entries(txn') \subseteq Entries(txn), Entries(batch') \subseteq Entries(batch),
               Increasing(txn'), Increasing(batch'),
               UNCHANGED <<queue, rows, accepted, dropped>>
        PROVE  LedgerParts'
    <2>1. gone \intersect (Entries(rows) \union Entries(queue)) = {}
      <3>1. gone \subseteq Entries(txn) \union Entries(batch)
        BY <1>3
      <3>2. (Entries(txn) \union Entries(batch)) \intersect (Entries(rows) \union Entries(queue)) = {}
        BY <1>2, StoreNumbers DEF Arranged, Before
      <3> QED BY <3>1, <3>2
    <2>2. Arranged(rows, txn', batch', queue)
      BY <1>2, <1>3 DEF Arranged, Before
    <2>3. HeldEntries' \union gone = HeldEntries
      BY <1>3 DEF HeldEntries
    <2>4. gone \intersect HeldEntries' = {}
      BY <1>3, <2>1 DEF HeldEntries
    <2>5. Arranged(rows, txn, batch, queue)'
      BY <1>3, <2>2 DEF Arranged
    <2>6. /\ HeldEntries \union lost \union dropped = DOMAIN accepted
          /\ HeldEntries \intersect (lost \union dropped) = {}
      BY DEF StoreInv, LedgerParts
    <2>7. /\ HeldEntries' \union lost' \union dropped' = DOMAIN accepted'
          /\ HeldEntries' \intersect (lost' \union dropped') = {}
      BY <1>3, <2>3, <2>4, <2>6
    <2> QED BY <2>5, <2>7 DEF LedgerParts
  <1>4. CASE PrepareFails
    <2>1. /\ flush = "begin" /\ open' \in {open, TRUE} /\ lost' = lost \union Entries(batch)
          /\ batch' = <<>> /\ flush' = "insert"
          /\ UNCHANGED <<running, stopRequested, queue, txn, rows, accepted, dropped>>
      BY <1>4 DEF PrepareFails
    <2>2. Entries(batch) \intersect Entries(txn) = {}
      BY <1>2, StoreNumbers DEF Arranged, Before
    <2>3. LedgerParts'
      BY <1>1, <1>2, <1>3, <2>1, <2>2, StoreNumbers DEF Arranged
    <2>4. StoreTypeOK'
      BY <1>1, <2>1, StoreNumbers DEF StoreInv, StoreTypeOK
    <2>5. BatchHeld'
      <3>1. Len(batch') <= BatchSize
        BY <1>1, <2>1, BatchSizeAssumption
      <3>2. running /\ (~open => txn = <<>>)
        BY <2>1 DEF StoreInv, BatchHeld
      <3>3. ~open' => ~open
        BY <2>1
      <3> QED BY <2>1, <3>1, <3>2, <3>3 DEF BatchHeld
    <2> QED BY <2>3, <2>4, <2>5 DEF StoreInv
  <1>5. CASE InsertFails
    <2> DEFINE h == Head(batch)
               b == Tail(batch)
    <2>1. /\ flush = "insert" /\ batch # <<>> /\ batch' = b /\ TransactionFails({h})
          /\ UNCHANGED <<running, stopRequested, queue, flush, rows, accepted, dropped>>
      BY <1>5 DEF InsertFails
    <2>2. /\ h \in Nat /\ b \in Seq(Nat) /\ Len(b) = Len(batch) - 1
          /\ Entries(batch) = {h} \union Entries(b) /\ Increasing(b) /\ Before({h}, Entries(b))
      BY <1>2, <2>1, StoreNumbers, EntriesHeadTail DEF Arranged
    <2> HIDE DEF h, b
    <2>3. h \notin Entries(b) /\ h \notin Entries(txn) /\ Entries(txn) \intersect Entries(b) = {}
      BY <1>2, <2>2, StoreNumbers DEF Arranged, Before
    <2>4. Len(batch') <= BatchSize
      BY <2>1, <2>2, StoreNumbers, LenProperties, BatchSizeAssumption DEF StoreInv, BatchHeld
    <2>5. CASE lost' = lost \union {h} /\ UNCHANGED <<open, txn>>
      <3>1. LedgerParts'
        <4> DEFINE gone == {h}
        <4>1. /\ gone \subseteq Nat /\ lost' = lost \union gone
              /\ gone \intersect (Entries(txn') \union Entries(batch')) = {}
              /\ Entries(txn') \union Entries(batch') \union gone = Entries(txn) \union Entries(batch)
              /\ Entries(txn') \subseteq Entries(txn) /\ Entries(batch') \subseteq Entries(batch)
          BY <2>1, <2>2, <2>3, <2>5
        <4>2. txn' \in Seq(Nat) /\ batch' \in Seq(Nat) /\ Increasing(txn') /\ Increasing(batch')
          BY <1>2, <2>1, <2>2, <2>5, StoreNumbers DEF Arranged
        <4> HIDE DEF gone
        <4> QED BY <1>3, <2>1, <4>1, <4>2
      <3>2. StoreTypeOK'
        BY <2>1, <2>2, <2>5 DEF StoreInv, StoreTypeOK
      <3>3. BatchHeld'
        BY <2>1, <2>4, <2>5 DEF StoreInv, BatchHeld
      <3> QED BY <3>1, <3>2, <3>3 DEF StoreInv
    <2>6. CASE lost' = lost \union {h} \union Entries(txn) /\ open' = FALSE /\ txn' = <<>>
      <3> DEFINE gone == {h} \union Entries(txn)
      <3>1. /\ gone \subseteq Nat /\ lost' = lost \union gone
            /\ gone \intersect (Entries(txn') \union Entries(batch')) = {}
            /\ Entries(txn') \union Entries(batch') \union gone = Entries(txn) \union Entries(batch)
            /\ Entries(txn') \subseteq Entries(txn) /\ Entries(batch') \subseteq Entries(batch)
        BY <1>1, <2>1, <2>2, <2>3, <2>6, StoreNumbers
      <3>2. /\ txn' \in Seq(Nat) /\ batch' \in Seq(Nat) /\ Increasing(txn') /\ Increasing(batch')
        BY <1>1, <2>1, <2>2, <2>6
      <3> HIDE DEF gone
      <3>3. LedgerParts'
        BY <1>3, <2>1, <3>1, <3>2
      <3>4. StoreTypeOK'
        BY <1>1, <2>1, <2>2, <2>6, StoreNumbers DEF StoreInv, StoreTypeOK
      <3>5. BatchHeld'
        BY <2>1, <2>4, <2>6 DEF StoreInv, BatchHeld
      <3> QED BY <3>3, <3>4, <3>5 DEF StoreInv
    <2> QED BY <2>1, <2>5, <2>6 DEF TransactionFails
  <1>6. CASE CommitFails
    <2>1. /\ flush = "insert" /\ batch = <<>> /\ flush' = "top" /\ TransactionFails({})
          /\ UNCHANGED <<running, stopRequested, queue, batch, rows, accepted, dropped>>
      BY <1>6 DEF CommitFails
    <2>2. Entries(batch) = {}
      BY <1>1, <2>1
    <2>3. CASE lost' = lost \union {} /\ UNCHANGED <<open, txn>>
      <3>1. LedgerParts'
        BY <2>1, <2>3 DEF StoreInv, LedgerParts, Arranged, HeldEntries
      <3>2. StoreTypeOK'
        BY <2>1, <2>3 DEF StoreInv, StoreTypeOK
      <3>3. BatchHeld'
        BY <2>1, <2>3 DEF StoreInv, BatchHeld
      <3> QED BY <3>1, <3>2, <3>3 DEF StoreInv
    <2>4. CASE lost' = lost \union {} \union Entries(txn) /\ open' = FALSE /\ txn' = <<>>
      <3>1. LedgerParts'
        BY <1>1, <1>2, <1>3, <2>1, <2>2, <2>4, StoreNumbers DEF Arranged
      <3>2. StoreTypeOK'
        BY <1>1, <2>1, <2>4, StoreNumbers DEF StoreInv, StoreTypeOK
      <3>3. BatchHeld'
        BY <2>1, <2>4 DEF StoreInv, BatchHeld
      <3> QED BY <3>1, <3>2, <3>3 DEF StoreInv
    <2> QED BY <2>1, <2>3, <2>4 DEF TransactionFails
  <1> QED BY <1>4, <1>5, <1>6

LEMMA StoreNextInv == StoreInv /\ [StoreNext]_storeVars => StoreInv'
  <1> SUFFICES ASSUME StoreInv, [StoreNext]_storeVars PROVE StoreInv'
    OBVIOUS
  <1>1. ASSUME NEW e \in Events, Report(e) PROVE StoreInv'
    <2>1. CASE running
      BY <1>1, <2>1, StoreReports
    <2>2. CASE ~running
      BY <1>1, <2>2, StoreStays DEF Report
    <2> QED BY <2>1, <2>2
  <1>2. CASE Initialize \/ RequestStop \/ UNCHANGED storeVars
    BY <1>2, StoreStays
  <1>3. CASE StopAfterJoin \/ ProcessEnds \/ ProcessDies
    BY <1>3, StoreEnds
  <1>4. CASE FlushLoop
    BY <1>4, StoreStays, StoreTakes, StoreInserts, StoreCommits DEF FlushLoop
  <1>5. CASE StatementFails
    BY <1>5, StoreStays, StoreLoses DEF StatementFails
  <1> QED BY <1>1, <1>2, <1>3, <1>4, <1>5 DEF StoreNext

\* The report store by itself, whatever statements fail, whenever it stops
\* or crashes: every event ever accepted is in the table, the transaction,
\* the batch or the queue, in order and once, or was taken by a failed
\* statement, by a crash or by an end that left it in the queue; the flush
\* thread never holds more than a batch.  (report_store.cpp 15-123.)
THEOREM StoreLedger == StoreSpec => [](StoreTypeOK /\ Ledger /\ BatchHeld)
  <1>1. StoreInv => StoreTypeOK /\ Ledger /\ BatchHeld
    BY StoreInvLedger DEF StoreInv
  <1> QED BY StoreInitInv, StoreNextInv, <1>1, PTL DEF StoreSpec

-----------------------------------------------------------------------------
RequestsKnown == req \in [Threads -> Requests]

LEMMA RequestsKnownInit == Init => RequestsKnown
  BY RequestsAssumption DEF Init, RequestsKnown, AnyRequest

LEMMA RequestsKnownNext == RequestsKnown /\ [Next]_vars => RequestsKnown'
  <1> SUFFICES ASSUME RequestsKnown, [Next]_vars PROVE RequestsKnown'
    OBVIOUS
  <1> USE DEF RequestsKnown
  <1>0. AnyRequest \in Requests
    BY RequestsAssumption DEF AnyRequest
  <1>1. ASSUME NEW t \in Threads, NEW where, Goto(t, where) PROVE RequestsKnown'
    BY <1>0, <1>1 DEF Goto
  <1>2. ASSUME NEW t \in Threads, Handle(t) PROVE RequestsKnown'
    <2>1. CASE WriteEvent(t)
      BY <1>1, <2>1 DEF WriteEvent
    <2>2. CASE ReportEvent(t)
      BY <1>1, <2>2 DEF ReportEvent
    <2>3. CASE LoadAndUpdate(t)
      BY <2>3 DEF LoadAndUpdate
    <2>4. CASE OpenProfile(t)
      BY <1>1, <2>4 DEF OpenProfile
    <2>5. CASE WriteProfile(t)
      BY <1>1, <2>5 DEF WriteProfile
    <2>6. CASE IncrementQuery(t)
      BY <1>1, <2>6 DEF IncrementQuery
    <2>7. CASE SwapLastClick(t)
      BY <1>0, <2>7 DEF SwapLastClick
    <2>8. CASE RecordForth(t)
      BY <2>8 DEF RecordForth
    <2>9. CASE RecordBack(t)
      BY <1>1, <2>9 DEF RecordBack
    <2> QED
      BY <1>2, <2>1, <2>2, <2>3, <2>4, <2>5, <2>6, <2>7, <2>8, <2>9 DEF Handle
  <1>3. ASSUME NEW t \in Threads, NEW r \in Requests, Begin(t, r) PROVE RequestsKnown'
    BY <1>3 DEF Begin
  <1>4. ASSUME NEW r \in Requests, Impression(r.biz) PROVE RequestsKnown'
    BY <1>4 DEF Impression
  <1>5. CASE Start \/ ServerReturns \/ Exit
    BY <1>5 DEF Start, ServerReturns, Exit
  <1>6. CASE StopStore \/ Flush
    BY <1>6 DEF StopStore, Flush, handlerVars
  <1>7. CASE Crash
    BY <1>0, <1>7 DEF Crash
  <1>8. CASE Done \/ UNCHANGED vars
    BY <1>8 DEF Done, vars, handlerVars
  <1> QED
    BY <1>2, <1>3, <1>4, <1>5, <1>6, <1>7, <1>8 DEF Next

\* Every step of the event handler, of main and of a crash is a step of the
\* store or leaves it alone.
LEMMA StepUsesStore == RequestsKnown /\ [Next]_vars => [StoreNext]_storeVars
  <1> SUFFICES ASSUME RequestsKnown, [Next]_vars PROVE [StoreNext]_storeVars
    OBVIOUS
  <1>1. ASSUME NEW t \in Threads, Handle(t) PROVE [StoreNext]_storeVars
    <2>1. CASE ReportEvent(t)
      <3>1. CASE Reported(req[t])
        <4>1. req[t] \in Requests
          BY DEF RequestsKnown
        <4>2. [biz |-> req[t].biz, type |-> req[t].type] \in Events
          BY <3>1, <4>1, EventsAssumption DEF Reported
        <4>3. Report([biz |-> req[t].biz, type |-> req[t].type])
          BY <2>1, <3>1 DEF ReportEvent
        <4> QED BY <4>2, <4>3 DEF StoreNext
      <3>2. CASE ~Reported(req[t])
        BY <2>1, <3>2 DEF ReportEvent
      <3> QED BY <3>1, <3>2
    <2>2. CASE WriteEvent(t) \/ LoadAndUpdate(t) \/ OpenProfile(t) \/ WriteProfile(t)
      BY <2>2 DEF WriteEvent, LoadAndUpdate, OpenProfile, WriteProfile
    <2>3. CASE IncrementQuery(t) \/ SwapLastClick(t) \/ RecordForth(t) \/ RecordBack(t)
      BY <2>3 DEF IncrementQuery, SwapLastClick, RecordForth, RecordBack
    <2> QED BY <1>1, <2>1, <2>2, <2>3 DEF Handle
  <1>2. ASSUME NEW t \in Threads, NEW r \in Requests, Begin(t, r)
        PROVE  [StoreNext]_storeVars
    BY <1>2 DEF Begin
  <1>3. ASSUME NEW r \in Requests, Impression(r.biz) PROVE [StoreNext]_storeVars
    <2>1. [biz |-> r.biz, type |-> "impression"] \in Events
      BY <1>3, EventsAssumption
    <2> QED BY <1>3, <2>1 DEF Impression, StoreNext
  <1>4. CASE Start
    BY <1>4 DEF Start, StoreNext
  <1>5. CASE ServerReturns
    BY <1>5 DEF ServerReturns
  <1>6. CASE StopStore
    BY <1>6 DEF StopStore, StoreNext
  <1>7. CASE Exit \/ Crash
    BY <1>7 DEF Exit, Crash, StoreNext
  <1>8. CASE Flush
    BY <1>8 DEF Flush, StoreNext
  <1>9. CASE Done \/ UNCHANGED vars
    BY <1>9 DEF Done, vars
  <1> QED
    BY <1>1, <1>2, <1>3, <1>4, <1>5, <1>6, <1>7, <1>8, <1>9 DEF Next

\* The handlers, main and crashes use the store as its own specification
\* allows.  (event_handler.cpp 179-304; main.cpp 141, 193-196.)
THEOREM HandlerUsesStore == Spec => StoreSpec
  <1>1. Init => StoreInit
    BY DEF Init
  <1> QED
    BY <1>1, RequestsKnownInit, RequestsKnownNext, StepUsesStore, PTL DEF Spec, StoreSpec

\* Before the first fault nothing is lost, and a transaction is open only
\* while a batch is written, so that Stop finds none to roll back.
LossInv ==
    /\ StoreInv /\ RequestsKnown
    /\ faults \in Nat
    /\ faults = 0 => lost = {} /\ (open => flush = "insert")
    /\ phase # "exited" => dropped = {}

\* A step in which no statement fails and no crash comes.
LEMMA LossStays ==
    ASSUME LossInv, faults' \in Nat, faults' = 0 => faults = 0,
           UNCHANGED <<open, flush, lost, dropped>>, phase' # "exited" => phase # "exited"
    PROVE  /\ faults' \in Nat
           /\ faults' = 0 => lost' = {} /\ (open' => flush' = "insert")
           /\ phase' # "exited" => dropped' = {}
  BY DEF LossInv

LEMMA LossNextInv == LossInv /\ [Next]_vars => LossInv'
  <1> SUFFICES ASSUME LossInv, [Next]_vars PROVE LossInv'
    OBVIOUS
  <1>1. StoreInv' /\ RequestsKnown'
    BY StoreNextInv, RequestsKnownNext, StepUsesStore DEF LossInv
  <1> DEFINE Goal == /\ faults' \in Nat
                     /\ faults' = 0 => lost' = {} /\ (open' => flush' = "insert")
                     /\ phase' # "exited" => dropped' = {}
  <1> SUFFICES Goal
    BY <1>1 DEF LossInv
  <1>2. faults \in Nat /\ faults + 1 \in Nat /\ faults + 1 # 0
    BY DEF LossInv
  <1>3. ASSUME NEW e, Report(e) \/ UNCHANGED storeVars, UNCHANGED phase,
               faults' \in {faults, faults + 1}
        PROVE  Goal
    <2>1. UNCHANGED <<open, flush, lost, dropped>>
      BY <1>3 DEF Report, storeVars
    <2> QED BY <1>2, <1>3, <2>1, LossStays
  <1>4. ASSUME NEW t \in Threads, Handle(t) PROVE Goal
    <2>1. CASE ReportEvent(t)
      BY <1>3, <2>1 DEF ReportEvent
    <2>2. CASE WriteEvent(t) \/ LoadAndUpdate(t) \/ OpenProfile(t) \/ WriteProfile(t)
      <3>1. UNCHANGED <<storeVars, phase>> /\ faults' \in {faults, faults + 1}
        BY <2>2 DEF WriteEvent, LoadAndUpdate, OpenProfile, WriteProfile
      <3> QED BY <1>3, <3>1
    <2>3. CASE IncrementQuery(t) \/ SwapLastClick(t) \/ RecordForth(t) \/ RecordBack(t)
      <3>1. UNCHANGED <<storeVars, phase>> /\ faults' \in {faults, faults + 1}
        BY <2>3 DEF IncrementQuery, SwapLastClick, RecordForth, RecordBack, CountPair
      <3> QED BY <1>3, <3>1
    <2> QED BY <1>4, <2>1, <2>2, <2>3 DEF Handle
  <1>5. ASSUME NEW t \in Threads, NEW r \in Requests, Begin(t, r) PROVE Goal
    BY <1>3, <1>5 DEF Begin
  <1>6. ASSUME NEW r \in Requests, Impression(r.biz) PROVE Goal
    BY <1>3, <1>6 DEF Impression
  <1>7. CASE Start
    <2>1. phase = "down" /\ phase' = "up" /\ faults' = faults /\ (Initialize \/ UNCHANGED storeVars)
      BY <1>7 DEF Start
    <2>2. CASE Initialize
      <3>1. flush = "none" /\ UNCHANGED <<open, lost, dropped>>
        BY <2>2 DEF Initialize
      <3> QED BY <1>2, <2>1, <3>1 DEF LossInv
    <2>3. CASE UNCHANGED storeVars
      BY <1>2, <2>1, <2>3, LossStays DEF storeVars
    <2> QED BY <2>1, <2>2, <2>3
  <1>8. CASE ServerReturns
    BY <1>2, <1>8, LossStays DEF ServerReturns, storeVars
  <1>9. CASE StopStore
    <2>1. UNCHANGED <<faults, phase>> /\ (RequestStop \/ StopAfterJoin)
      BY <1>9 DEF StopStore, handlerVars
    <2>2. CASE RequestStop
      BY <1>2, <2>1, <2>2, LossStays DEF RequestStop
    <2>3. CASE StopAfterJoin
      <3>1. /\ flush = "exited" /\ open' = FALSE /\ lost' = lost \union Entries(txn)
            /\ UNCHANGED <<flush, dropped>>
        BY <2>3 DEF StopAfterJoin
      <3>2. faults = 0 => Entries(txn) = {} /\ lost = {}
        BY <3>1, NoEntries DEF LossInv, StoreInv, BatchHeld, StoreTypeOK
      <3>3. phase # "exited" => dropped = {}
        BY DEF LossInv
      <3> QED BY <1>2, <2>1, <3>1, <3>2, <3>3
    <2> QED BY <2>1, <2>2, <2>3
  <1>10. CASE Exit
    <2>1. phase' = "exited" /\ UNCHANGED <<faults, lost>> /\ open' = FALSE
      BY <1>10 DEF Exit, ProcessEnds, Forget
    <2> QED BY <1>2, <2>1 DEF LossInv
  <1>11. CASE Crash
    <2>1. phase # "exited" /\ faults' = faults + 1 /\ UNCHANGED dropped
      BY <1>11 DEF Crash, ProcessDies
    <2> QED BY <1>2, <2>1 DEF LossInv
  <1>12. CASE Flush
    <2>1. CASE FlushLoop /\ UNCHANGED handlerVars
      <3>1. UNCHANGED <<faults, phase, lost, dropped>>
        BY <2>1 DEF handlerVars, FlushLoop, LeaveLoop, EnterLoop, WaitEnds, TakeBatch,
                    BeginBatch, InsertRow, Commit
      <3>2. (open => flush = "insert") => (open' => flush' = "insert")
        BY <2>1 DEF FlushLoop, LeaveLoop, EnterLoop, WaitEnds, TakeBatch, BeginBatch,
                    InsertRow, Commit
      <3> QED BY <3>1, <3>2 DEF LossInv
    <2>2. CASE StatementFails /\ faults' = faults + 1 /\ UNCHANGED phase
      <3>1. UNCHANGED dropped
        BY <2>2 DEF StatementFails, BeginFails, PrepareFails, InsertFails, CommitFails
      <3> QED BY <1>2, <2>2, <3>1 DEF LossInv
    <2> QED BY <1>12, <2>1, <2>2 DEF Flush
  <1>13. CASE Done \/ UNCHANGED vars
    <2>1. UNCHANGED <<faults, phase, open, flush, lost, dropped>>
      BY <1>13 DEF Done, vars, handlerVars, storeVars
    <2> QED BY <1>2, <2>1, LossStays
  <1> QED
    BY <1>4, <1>5, <1>6, <1>7, <1>8, <1>9, <1>10, <1>11, <1>12, <1>13 DEF Next

\* The ledger in the whole composition: no report is doubled or overtaken;
\* none is lost as long as no statement fails and no crash comes, none is
\* dropped before the process ends in order, and then exactly what is still
\* queued is.  (event_handler.cpp 252-259; report_store.cpp 54-123.)
THEOREM HandlerLedger == Spec => []ReportsInOrder
  <1>1. Init => LossInv
    BY StoreInitInv, RequestsKnownInit DEF Init, StoreInit, LossInv
  <1>2. LossInv => ReportsInOrder
    BY StoreInvLedger DEF LossInv, ReportsInOrder
  <1> QED BY <1>1, <1>2, LossNextInv, PTL DEF Spec

-----------------------------------------------------------------------------
(* Co-occurrence.  The two statements of RecordCooccurrence run under one  *)
(* mutex, so one thread at most is between them; the symmetry of the table *)
(* is off by that thread's pair and by nothing else.                       *)

OneBetween == \A s, t \in Threads : pc[s] = "second" /\ pc[t] = "second" => s = t

PairsTyped ==
    /\ pairs \in [Docs \X Docs -> Nat]
    /\ halved \in BOOLEAN
    /\ DOMAIN pc = Threads /\ DOMAIN last = Threads

PairsInv == PairsTyped /\ RequestsKnown /\ OneBetween /\ PairsMirror

\* The threads that have stored the pair p and not its mirror image yet.
Storing(p) == {t \in Threads : pc[t] = "second" /\ p = <<last[t], req[t].doc>>}
Mirrored(p) == {t \in Threads : pc[t] = "second" /\ p = <<req[t].doc, last[t]>>}

LEMMA PairsInitInv == Init => PairsInv
  <1> SUFFICES ASSUME Init PROVE PairsInv
    OBVIOUS
  <1>1. PairsTyped /\ RequestsKnown /\ OneBetween
    BY RequestsKnownInit DEF Init, PairsTyped, OneBetween
  <1>2. ASSUME NEW p \in Docs \X Docs PROVE Storing(p) = {} /\ Mirrored(p) = {}
    BY DEF Init, Storing, Mirrored
  <1>3. Cardinality({}) = 0
    BY FS_EmptySet
  <1>4. ASSUME NEW p \in Docs \X Docs
        PROVE  pairs[p] = pairs[<<p[2], p[1]>>] + Cardinality(Storing(p)) - Cardinality(Mirrored(p))
    <2>1. <<p[2], p[1]>> \in Docs \X Docs
      OBVIOUS
    <2>2. pairs[p] = 0 /\ pairs[<<p[2], p[1]>>] = 0
      BY <2>1 DEF Init
    <2> QED BY <1>2, <1>3, <2>2
  <1>5. PairsMirror
    BY <1>4 DEF PairsMirror, Storing, Mirrored
  <1> QED BY <1>1, <1>5 DEF PairsInv

\* A step that leaves the table and the threads between the two statements
\* alone.
LEMMA PairsUntouched ==
    ASSUME PairsInv, RequestsKnown', DOMAIN pc' = Threads, DOMAIN last' = Threads,
           UNCHANGED <<pairs, halved>>,
           \A t \in Threads : pc'[t] = "second" <=> pc[t] = "second",
           \A t \in Threads : pc[t] = "second" => last'[t] = last[t] /\ req'[t] = req[t]
    PROVE  PairsInv'
  <1>1. PairsTyped' /\ OneBetween'
    BY DEF PairsInv, PairsTyped, OneBetween
  <1>2. ASSUME NEW p \in Docs \X Docs
        PROVE  Storing(p)' = Storing(p) /\ Mirrored(p)' = Mirrored(p)
    BY DEF Storing, Mirrored
  <1>3. PairsMirror'
    BY <1>2 DEF PairsInv, PairsMirror, Storing, Mirrored
  <1> QED BY <1>1, <1>3 DEF PairsInv

LEMMA CountPairTyped ==
    ASSUME PairsTyped, NEW p, CountPair(p)
    PROVE  pairs' \in [Docs \X Docs -> Nat] /\ halved' \in BOOLEAN
  <1>1. CASE pairs' = [pairs EXCEPT ![p] = @ + 1] /\ UNCHANGED <<faults, halved>>
    <2>1. \A q \in Docs \X Docs : pairs[q] + 1 \in Nat
      BY DEF PairsTyped
    <2> QED BY <1>1, <2>1 DEF PairsTyped
  <1>2. CASE halved' = TRUE /\ UNCHANGED pairs
    BY <1>2 DEF PairsTyped
  <1> QED BY <1>1, <1>2 DEF CountPair

\* The first statement: no thread was between the two, and now t is.
LEMMA PairForth ==
    ASSUME PairsInv, NEW t \in Threads, RecordForth(t)
    PROVE  PairsInv'
  <1> DEFINE p0 == <<last[t], req[t].doc>>
             m0 == <<req[t].doc, last[t]>>
  <1>1. /\ \A s \in Threads : pc[s] # "second"
        /\ CountPair(p0)
        /\ pc' = [pc EXCEPT ![t] = "second"]
        /\ UNCHANGED <<req, last>>
    BY DEF RecordForth
  <1>2. RequestsKnown' /\ OneBetween' /\ PairsTyped'
    <2>1. RequestsKnown' /\ OneBetween' /\ DOMAIN pc' = Threads /\ DOMAIN last' = Threads
      BY <1>1 DEF PairsInv, PairsTyped, OneBetween, RequestsKnown
    <2>2. CountPair(p0) => pairs' \in [Docs \X Docs -> Nat] /\ halved' \in BOOLEAN
      BY CountPairTyped DEF PairsInv
    <2> QED BY <1>1, <2>1, <2>2 DEF PairsTyped
  <1>3. ASSUME ~halved', NEW p \in Docs \X Docs
        PROVE  pairs'[p] = pairs'[<<p[2], p[1]>>] + Cardinality(Storing(p)') - Cardinality(Mirrored(p)')
    <2> DEFINE q == <<p[2], p[1]>>
    <2>1. ~halved /\ pairs' = [pairs EXCEPT ![p0] = @ + 1]
      BY <1>1, <1>3 DEF CountPair, PairsInv, PairsTyped
    <2>2. Storing(p) = {} /\ Mirrored(p) = {}
      BY <1>1 DEF Storing, Mirrored
    <2>3. q \in Docs \X Docs /\ pairs[p] \in Nat /\ pairs[q] \in Nat
      BY DEF PairsInv, PairsTyped
    <2>4. pairs[p] = pairs[q] + Cardinality({}) - Cardinality({})
      BY <2>1, <2>2 DEF PairsInv, PairsMirror, Storing, Mirrored
    <2>5. Cardinality({}) = 0 /\ Cardinality({t}) = 1
      BY FS_EmptySet, FS_Singleton
    <2>6. pairs[p] = pairs[q]
      BY <2>3, <2>4, <2>5
    <2>7. Storing(p)' = (IF p = p0 THEN {t} ELSE {}) /\ Mirrored(p)' = (IF p = m0 THEN {t} ELSE {})
      BY <1>1 DEF Storing, Mirrored, PairsInv, PairsTyped
    <2>8. q = p0 <=> p = m0
      OBVIOUS
    <2> HIDE DEF p0, m0, q
    <2>9. /\ pairs'[p] = pairs[p] + Cardinality(Storing(p)')
          /\ pairs'[q] = pairs[q] + Cardinality(Mirrored(p)')
      <3>1. /\ pairs'[p] = pairs[p] + (IF p = p0 THEN 1 ELSE 0)
            /\ pairs'[q] = pairs[q] + (IF q = p0 THEN 1 ELSE 0)
        BY <2>1, <2>3 DEF PairsInv, PairsTyped
      <3>2. /\ Cardinality(Storing(p)') = (IF p = p0 THEN 1 ELSE 0)
            /\ Cardinality(Mirrored(p)') = (IF q = p0 THEN 1 ELSE 0)
        BY <2>5, <2>7, <2>8
      <3> QED BY <3>1, <3>2
    <2>10. Cardinality(Storing(p)') \in {0, 1} /\ Cardinality(Mirrored(p)') \in {0, 1}
      BY <2>5, <2>7
    <2>11. pairs'[p] = pairs'[q] + Cardinality(Storing(p)') - Cardinality(Mirrored(p)')
      BY <2>3, <2>6, <2>9, <2>10
    <2> QED BY <2>11 DEF q
  <1>4. PairsMirror'
    BY <1>3 DEF PairsMirror, Storing, Mirrored
  <1> QED BY <1>2, <1>4 DEF PairsInv

\* The second statement: t was the only one between the two.
LEMMA PairBack ==
    ASSUME PairsInv, NEW t \in Threads, RecordBack(t), RequestsKnown'
    PROVE  PairsInv'
  <1> DEFINE p0 == <<last[t], req[t].doc>>
             m0 == <<req[t].doc, last[t]>>
  <1>1. /\ pc[t] = "second" /\ CountPair(m0)
        /\ pc' = [pc EXCEPT ![t] = "idle"] /\ DOMAIN last' = Threads
    BY DEF RecordBack, Goto, PairsInv, PairsTyped
  <1>2. \A s \in Threads : pc[s] = "second" => s = t
    BY <1>1 DEF PairsInv, OneBetween
  <1>3. \A s \in Threads : pc'[s] # "second"
    BY <1>1, <1>2 DEF PairsInv, PairsTyped
  <1>4. OneBetween' /\ PairsTyped'
    <2>1. OneBetween' /\ DOMAIN pc' = Threads /\ DOMAIN last' = Threads
      BY <1>1, <1>3 DEF PairsInv, PairsTyped, OneBetween
    <2>2. CountPair(m0) => pairs' \in [Docs \X Docs -> Nat] /\ halved' \in BOOLEAN
      BY CountPairTyped DEF PairsInv
    <2> QED BY <1>1, <2>1, <2>2 DEF PairsTyped
  <1>5. ASSUME ~halved', NEW p \in Docs \X Docs
        PROVE  pairs'[p] = pairs'[<<p[2], p[1]>>] + Cardinality(Storing(p)') - Cardinality(Mirrored(p)')
    <2> DEFINE q == <<p[2], p[1]>>
    <2>1. ~halved /\ pairs' = [pairs EXCEPT ![m0] = @ + 1]
      BY <1>1, <1>5 DEF CountPair, PairsInv, PairsTyped
    <2>2. Storing(p)' = {} /\ Mirrored(p)' = {}
      BY <1>3 DEF Storing, Mirrored
    <2>3. q \in Docs \X Docs /\ pairs[p] \in Nat /\ pairs[q] \in Nat
      BY DEF PairsInv, PairsTyped
    <2>4. pairs[p] = pairs[q] + Cardinality(Storing(p)) - Cardinality(Mirrored(p))
      BY <2>1 DEF PairsInv, PairsMirror, Storing, Mirrored
    <2>5. Cardinality({}) = 0 /\ Cardinality({t}) = 1
      BY FS_EmptySet, FS_Singleton
    <2>6. Storing(p) = (IF p = p0 THEN {t} ELSE {}) /\ Mirrored(p) = (IF p = m0 THEN {t} ELSE {})
      BY <1>1, <1>2 DEF Storing, Mirrored
    <2>7. q = m0 <=> p = p0
      OBVIOUS
    <2> HIDE DEF p0, m0, q
    <2>8. /\ pairs'[p] = pairs[p] + (IF p = m0 THEN 1 ELSE 0)
          /\ pairs'[q] = pairs[q] + (IF p = p0 THEN 1 ELSE 0)
      BY <2>1, <2>3, <2>7 DEF PairsInv, PairsTyped
    <2>9. /\ Cardinality(Storing(p)) = (IF p = p0 THEN 1 ELSE 0)
          /\ Cardinality(Mirrored(p)) = (IF p = m0 THEN 1 ELSE 0)
      BY <2>5, <2>6
    <2>10. pairs'[p] = pairs'[q]
      BY <2>3, <2>4, <2>8, <2>9
    <2>11. pairs'[q] \in Nat
      BY <2>3, <2>8
    <2>12. pairs'[p] = pairs'[q] + Cardinality(Storing(p)') - Cardinality(Mirrored(p)')
      BY <2>2, <2>5, <2>10, <2>11
    <2> QED BY <2>12 DEF q
  <1>6. PairsMirror'
    BY <1>5 DEF PairsMirror, Storing, Mirrored
  <1> QED BY <1>4, <1>6 DEF PairsInv

LEMMA PairsNextInv == PairsInv /\ [Next]_vars => PairsInv'
  <1> SUFFICES ASSUME PairsInv, [Next]_vars PROVE PairsInv'
    OBVIOUS
  <1>0. RequestsKnown'
    BY RequestsKnownNext DEF PairsInv
  <1> USE DEF PairsTyped
  <1>1. ASSUME NEW t \in Threads, NEW where, Goto(t, where), where # "second", pc[t] # "second",
               UNCHANGED <<pairs, halved>>
        PROVE  PairsInv'
    <2>1. /\ DOMAIN pc' = Threads /\ DOMAIN last' = Threads
          /\ \A s \in Threads : pc'[s] = "second" <=> pc[s] = "second"
          /\ \A s \in Threads : pc[s] = "second" => last'[s] = last[s] /\ req'[s] = req[s]
      BY <1>1 DEF Goto, PairsInv, RequestsKnown
    <2> QED BY <1>0, <1>1, <2>1, PairsUntouched
  <1>2. ASSUME UNCHANGED <<pc, last, req, pairs, halved>> PROVE PairsInv'
    BY <1>0, <1>2, PairsUntouched DEF PairsInv
  <1>3. ASSUME NEW t \in Threads, Handle(t) PROVE PairsInv'
    <2>1. CASE WriteEvent(t)
      BY <1>1, <2>1 DEF WriteEvent
    <2>2. CASE ReportEvent(t)
      <3>1. AfterReport(req[t]) # "second"
        BY DEF AfterReport, AfterProfile
      <3> QED BY <1>1, <2>2, <3>1 DEF ReportEvent
    <2>3. CASE LoadAndUpdate(t)
      <3>1. /\ DOMAIN pc' = Threads /\ UNCHANGED <<last, req, pairs, halved>>
            /\ \A s \in Threads : pc'[s] = "second" <=> pc[s] = "second"
        BY <2>3 DEF LoadAndUpdate, PairsInv
      <3> QED BY <1>0, <3>1, PairsUntouched DEF PairsInv
    <2>4. CASE OpenProfile(t)
      BY <1>1, <2>4 DEF OpenProfile
    <2>5. CASE WriteProfile(t)
      <3>1. AfterProfile(req[t]) # "second"
        BY DEF AfterProfile
      <3> QED BY <1>1, <2>5, <3>1 DEF WriteProfile
    <2>6. CASE IncrementQuery(t)
      <3>1. (IF Chained(req[t]) THEN "swap" ELSE "idle") # "second"
        OBVIOUS
      <3> QED BY <1>1, <2>6, <3>1 DEF IncrementQuery
    <2>7. CASE SwapLastClick(t)
      <3>1. /\ DOMAIN pc' = Threads /\ DOMAIN last' = Threads /\ UNCHANGED <<pairs, halved>>
            /\ \A s \in Threads : pc'[s] = "second" <=> pc[s] = "second"
            /\ \A s \in Threads : pc[s] = "second" => last'[s] = last[s] /\ req'[s] = req[s]
        BY <2>7 DEF SwapLastClick, PairsInv, RequestsKnown
      <3> QED BY <1>0, <3>1, PairsUntouched
    <2>8. CASE RecordForth(t)
      BY <2>8, PairForth
    <2>9. CASE RecordBack(t)
      BY <1>0, <2>9, PairBack
    <2> QED
      BY <1>3, <2>1, <2>2, <2>3, <2>4, <2>5, <2>6, <2>7, <2>8, <2>9 DEF Handle
  <1>4. ASSUME NEW t \in Threads, NEW r \in Requests, Begin(t, r) PROVE PairsInv'
    <2>1. /\ DOMAIN pc' = Threads /\ UNCHANGED <<last, pairs, halved>>
          /\ \A s \in Threads : pc'[s] = "second" <=> pc[s] = "second"
          /\ \A s \in Threads : pc[s] = "second" => req'[s] = req[s]
      BY <1>4 DEF Begin, PairsInv, RequestsKnown
    <2> QED BY <1>0, <2>1, PairsUntouched DEF PairsInv
  <1>5. ASSUME NEW r \in Requests, Impression(r.biz) PROVE PairsInv'
    BY <1>2, <1>5 DEF Impression
  <1>6. CASE Start \/ ServerReturns \/ StopStore \/ Exit \/ Flush
    BY <1>2, <1>6 DEF Start, ServerReturns, StopStore, Exit, Flush, handlerVars
  <1>7. CASE Crash
    <2>1. /\ \A t \in Threads : pc'[t] = "idle" /\ DOMAIN pc' = Threads /\ DOMAIN last' = Threads
          /\ pc' = [t \in Threads |-> "idle"] /\ last' = [t \in Threads |-> NoName]
          /\ pairs' = pairs
          /\ halved' = (halved \/ \E t \in Threads : pc[t] = "second")
      BY <1>7 DEF Crash
    <2>2. CASE halved'
      BY <1>0, <2>1, <2>2 DEF PairsInv, OneBetween, PairsMirror
    <2>3. CASE ~halved'
      <3>1. \A t \in Threads : pc[t] # "second"
        BY <2>1, <2>3
      <3>2. halved' = halved
        BY <2>1, <3>1 DEF PairsInv
      <3> QED BY <1>0, <2>1, <3>1, <3>2, PairsUntouched
    <2> QED BY <2>2, <2>3
  <1>8. CASE Done \/ UNCHANGED vars
    BY <1>2, <1>8 DEF Done, vars, handlerVars
  <1> QED
    BY <1>3, <1>4, <1>5, <1>6, <1>7, <1>8 DEF Next

\* Co-occurrence stays symmetric, up to the pair a thread is just storing,
\* whatever runs at the same time, unless a statement failed or a crash came
\* between the two.  (doc_cooccur_store.cpp 53-88.)
THEOREM CooccurrenceSymmetric == Spec => []PairsMirror
  <1>1. PairsInv => PairsMirror
    BY DEF PairsInv
  <1> QED BY <1>1, PairsInitInv, PairsNextInv, PTL DEF Spec

-----------------------------------------------------------------------------
(* Profiles.  What a profile file should hold is a function of the clicks  *)
(* and likes saved for the user; a thread that has loaded the profile of a *)
(* user nobody else is updating carries that value with its own event      *)
(* added, through the moment the file is truncated until it is written.    *)

LastOf(s) == SubSeq(s, IF Len(s) > HistoryCap THEN Len(s) - HistoryCap + 1 ELSE 1, Len(s))
FirstOf(s) == SubSeq(s, 1, IF Len(s) < HistoryCap THEN Len(s) ELSE HistoryCap)

Exact(u, s) ==
    [uid |-> u, click |-> LastOf(s.click), like |-> FirstOf(s.like),
     clicks |-> Len(s.click), likes |-> Len(s.like)]

Histories == [click : Seq(Docs), like : Seq(Docs)]

LEMMA LastOfShort ==
    ASSUME NEW s \in Seq(Docs), Len(s) <= HistoryCap
    PROVE  LastOf(s) = s
  <1>1. ~(Len(s) > HistoryCap)
    BY HistoryCapAssumption
  <1>2. LastOf(s) = SubSeq(s, 1, Len(s))
    BY <1>1, Zenon DEF LastOf
  <1> QED BY <1>2, SubSeqFull

LEMMA LastOfLong ==
    ASSUME NEW s \in Seq(Docs), Len(s) >= HistoryCap
    PROVE  LastOf(s) = SubSeq(s, Len(s) - HistoryCap + 1, Len(s))
  <1>1. Len(s) > HistoryCap \/ Len(s) - HistoryCap + 1 = 1
    BY HistoryCapAssumption
  <1> QED BY <1>1, Zenon DEF LastOf

LEMMA LastOfAppend ==
    ASSUME NEW s \in Seq(Docs), NEW d \in Docs
    PROVE  /\ LastOf(s) \in Seq(Docs)
           /\ LastOf(Append(s, d)) =
                Append(IF Len(LastOf(s)) < HistoryCap THEN LastOf(s) ELSE Tail(LastOf(s)), d)
  <1> USE HistoryCapAssumption
  <1>1. Len(s) \in Nat /\ Append(s, d) \in Seq(Docs) /\ Len(Append(s, d)) = Len(s) + 1
    OBVIOUS
  <1>2. CASE Len(s) < HistoryCap
    <2>1. LastOf(s) = s
      BY <1>1, <1>2, LastOfShort
    <2>2. LastOf(Append(s, d)) = Append(s, d)
      <3>1. Append(s, d) \in Seq(Docs) /\ Len(Append(s, d)) <= HistoryCap
        BY <1>1, <1>2
      <3> QED BY <3>1, LastOfShort, Zenon
    <2> QED BY <1>2, <2>1, <2>2
  <1>3. CASE Len(s) >= HistoryCap
    <2> DEFINE l == LastOf(s)
               a == Append(s, d)
               m == LastOf(a)
    <2>1. l = SubSeq(s, Len(s) - HistoryCap + 1, Len(s))
      BY <1>1, <1>3, LastOfLong
    <2>2. /\ l \in Seq(Docs) /\ Len(l) = HistoryCap
          /\ \A k \in 1..HistoryCap : l[k] = s[Len(s) - HistoryCap + k]
      BY <1>1, <1>3, <2>1
    <2>3. m = SubSeq(a, Len(s) - HistoryCap + 2, Len(s) + 1)
      <3>1. Len(a) = Len(s) + 1 /\ Len(a) - HistoryCap + 1 = Len(s) - HistoryCap + 2
        BY <1>1
      <3>2. m = SubSeq(a, Len(a) - HistoryCap + 1, Len(a))
        <4>1. a \in Seq(Docs) /\ Len(a) >= HistoryCap
          BY <1>1, <1>3
        <4> QED BY <4>1, LastOfLong, Zenon
      <3> QED BY <3>1, <3>2
    <2>4. /\ m \in Seq(Docs) /\ Len(m) = HistoryCap
          /\ \A k \in 1..HistoryCap : m[k] = a[Len(s) - HistoryCap + 1 + k]
      <3>1. a \in Seq(Docs) /\ Len(a) = Len(s) + 1 /\ Len(s) - HistoryCap + 2 \in 1..Len(a)
        BY <1>1, <1>3
      <3> HIDE DEF m, a
      <3> QED BY <1>1, <1>3, <2>3, <3>1
    <2>5. \A k \in 1..HistoryCap :
            m[k] = IF k < HistoryCap THEN s[Len(s) - HistoryCap + 1 + k] ELSE d
      <3>1. \A i \in 1..(Len(s) + 1) : a[i] = IF i <= Len(s) THEN s[i] ELSE d
        BY <1>1
      <3> HIDE DEF m, a
      <3> QED BY <1>1, <1>3, <2>4, <3>1
    <2>6. /\ Tail(l) \in Seq(Docs) /\ Len(Tail(l)) = HistoryCap - 1
          /\ \A k \in 1..(HistoryCap - 1) : Tail(l)[k] = l[k + 1]
      BY <2>2
    <2> HIDE DEF l, m, a
    <2>7. /\ Append(Tail(l), d) \in Seq(Docs) /\ Len(Append(Tail(l), d)) = HistoryCap
          /\ \A k \in 1..HistoryCap :
               Append(Tail(l), d)[k] = IF k < HistoryCap THEN s[Len(s) - HistoryCap + 1 + k] ELSE d
      BY <1>1, <1>3, <2>2, <2>6
    <2>8. m = Append(Tail(l), d)
      BY <2>4, <2>5, <2>7, SeqEqual
    <2> QED BY <2>2, <2>8 DEF l, m, a
  <1> QED BY <1>1, <1>2, <1>3

LEMMA FirstOfAppend ==
    ASSUME NEW s \in Seq(Docs), NEW d \in Docs
    PROVE  /\ FirstOf(s) \in Seq(Docs)
           /\ FirstOf(Append(s, d)) =
                IF Len(FirstOf(s)) < HistoryCap THEN Append(FirstOf(s), d) ELSE FirstOf(s)
  <1> USE HistoryCapAssumption
  <1>1. Len(s) \in Nat /\ Append(s, d) \in Seq(Docs) /\ Len(Append(s, d)) = Len(s) + 1
    OBVIOUS
  <1>2. CASE Len(s) < HistoryCap
    <2>1. FirstOf(s) = s
      BY <1>1, <1>2, SubSeqFull DEF FirstOf
    <2>2. FirstOf(Append(s, d)) = Append(s, d)
      BY <1>1, <1>2, SubSeqFull DEF FirstOf
    <2> QED BY <1>2, <2>1, <2>2
  <1>3. CASE Len(s) >= HistoryCap
    <2> DEFINE l == FirstOf(s)
               a == Append(s, d)
               m == FirstOf(a)
    <2>1. l = SubSeq(s, 1, HistoryCap) /\ m = SubSeq(a, 1, HistoryCap)
      BY <1>1, <1>3 DEF FirstOf
    <2>2. /\ l \in Seq(Docs) /\ Len(l) = HistoryCap
          /\ \A k \in 1..HistoryCap : l[k] = s[k]
      BY <1>1, <1>3, <2>1
    <2>3. /\ m \in Seq(Docs) /\ Len(m) = HistoryCap
          /\ \A k \in 1..HistoryCap : m[k] = a[k] /\ a[k] = s[k]
      BY <1>1, <1>3, <2>1
    <2> HIDE DEF l, m, a
    <2>4. m = l
      BY <2>2, <2>3, SeqEqual
    <2> QED BY <2>2, <2>4 DEF l, m, a
  <1> QED BY <1>1, <1>2, <1>3

LEMMA HistoryGrows ==
    ASSUME NEW s \in Histories, NEW y \in {"click", "like"}, NEW d \in Docs
    PROVE  [s EXCEPT ![y] = Append(@, d)] \in Histories
  <1>1. Append(s.click, d) \in Seq(Docs) /\ Append(s.like, d) \in Seq(Docs)
    BY DEF Histories
  <1>2. [s EXCEPT !["click"] = Append(@, d)] \in Histories
    BY <1>1 DEF Histories
  <1>3. [s EXCEPT !["like"] = Append(@, d)] \in Histories
    BY <1>1 DEF Histories
  <1> QED BY <1>2, <1>3, Zenon

LEMMA HistoryWith ==
    ASSUME NEW s \in Histories, NEW x \in Seq(Docs)
    PROVE  /\ [s EXCEPT !.click = x] = [click |-> x, like |-> s.like]
           /\ [s EXCEPT !.like = x] = [click |-> s.click, like |-> x]
  BY DEF Histories

\* One more event on both sides.
LEMMA UpdatedExact ==
    ASSUME NEW u \in Uids, NEW s \in Histories, NEW r \in Requests, Profiled(r)
    PROVE  Updated(Exact(u, s), r) = Exact(u, [s EXCEPT ![r.type] = Append(@, r.doc)])
  <1>1. r.doc \in Docs /\ r.type \in {"click", "like"}
    BY DEF Profiled, Reported, Docs
  <1>2. s.click \in Seq(Docs) /\ s.like \in Seq(Docs)
    BY DEF Histories
  <1>3. Len(Append(s.click, r.doc)) = Len(s.click) + 1 /\ Len(Append(s.like, r.doc)) = Len(s.like) + 1
    BY <1>1, <1>2
  <1>4. CASE r.type = "click"
    <2>1. [s EXCEPT ![r.type] = Append(@, r.doc)] = [click |-> Append(s.click, r.doc), like |-> s.like]
      <3>0. Append(s.click, r.doc) \in Seq(Docs)
        BY <1>1, <1>2
      <3>1. [s EXCEPT !.click = Append(@, r.doc)] = [click |-> Append(s.click, r.doc), like |-> s.like]
        BY <3>0, HistoryWith
      <3> QED BY <1>4, <3>1, Zenon
    <2>2. LastOf(Append(s.click, r.doc)) =
            Append(IF Len(LastOf(s.click)) < HistoryCap THEN LastOf(s.click) ELSE Tail(LastOf(s.click)), r.doc)
      BY <1>1, <1>2, LastOfAppend
    <2> QED BY <1>3, <1>4, <2>1, <2>2 DEF Updated, Exact
  <1>5. CASE r.type = "like"
    <2>1. [s EXCEPT ![r.type] = Append(@, r.doc)] = [click |-> s.click, like |-> Append(s.like, r.doc)]
      <3>0. Append(s.like, r.doc) \in Seq(Docs)
        BY <1>1, <1>2
      <3>1. [s EXCEPT !.like = Append(@, r.doc)] = [click |-> s.click, like |-> Append(s.like, r.doc)]
        BY <3>0, HistoryWith
      <3> QED BY <1>5, <3>1, Zenon
    <2>2. FirstOf(Append(s.like, r.doc)) =
            IF Len(FirstOf(s.like)) < HistoryCap THEN Append(FirstOf(s.like), r.doc) ELSE FirstOf(s.like)
      BY <1>1, <1>2, FirstOfAppend
    <2> QED BY <1>3, <1>5, <2>1, <2>2 DEF Updated, Exact
  <1> QED BY <1>1, <1>4, <1>5

LEMMA UpdatedTyped ==
    ASSUME NEW x \in Profiles, NEW r \in Requests, Profiled(r)
    PROVE  Updated(x, r) \in Profiles /\ Updated(x, r).uid = x.uid
  <1>1. r.doc \in Docs /\ r.type \in {"click", "like"}
    BY DEF Profiled, Reported, Docs
  <1>2. /\ x.click \in Seq(Docs) /\ x.like \in Seq(Docs) /\ x.clicks \in Nat /\ x.likes \in Nat
        /\ x.clicks + 1 \in Nat /\ x.likes + 1 \in Nat
    BY DEF Profiles
  <1>3. Len(x.click) >= HistoryCap => Tail(x.click) \in Seq(Docs)
    BY <1>2, HistoryCapAssumption
  <1>4. Append(IF Len(x.click) < HistoryCap THEN x.click ELSE Tail(x.click), r.doc) \in Seq(Docs)
    BY <1>1, <1>2, <1>3, HistoryCapAssumption
  <1>5. (IF Len(x.like) < HistoryCap THEN Append(x.like, r.doc) ELSE x.like) \in Seq(Docs)
    BY <1>1, <1>2
  <1> QED BY <1>1, <1>2, <1>4, <1>5 DEF Updated, Profiles

-----------------------------------------------------------------------------
Updating(t) == pc[t] \in {"open", "write"}
Writing(t, u) == pc[t] = "write" /\ req[t].uid = u

ProfileTyped ==
    /\ RequestsKnown
    /\ DOMAIN pc = Threads /\ DOMAIN prof = Threads
    /\ saved \in [Uids -> Histories]
    /\ \A u \in DOMAIN file : file[u] \in Profiles /\ file[u].uid \in {u, NoName}
    /\ \A t \in Threads : pc[t] \in {"load", "open", "write"} => Profiled(req[t])
    /\ \A t \in Threads : Updating(t) => prof[t] \in Profiles /\ prof[t].uid \in {req[t].uid, NoName}

\* Of a user that is not raced one thread at most updates the profile; it
\* carries what is to be saved; and the file is exact while nobody writes it.
ProfileLaw ==
    \A u \in Uids \ raced :
        /\ \A s, t \in Threads :
              Updating(s) /\ Updating(t) /\ req[s].uid = u /\ req[t].uid = u => s = t
        /\ (\A t \in Threads : ~Writing(t, u)) => LoadProfile(u) = Exact(u, saved[u])
        /\ \A t \in Threads :
              Updating(t) /\ req[t].uid = u => prof[t] = Updated(Exact(u, saved[u]), req[t])

ProfileInv == ProfileTyped /\ ProfileLaw

LEMMA ProfileInitInv == Init => ProfileInv
  <1> SUFFICES ASSUME Init PROVE ProfileInv
    OBVIOUS
  <1>1. ASSUME NEW u \in Uids PROVE LoadProfile(u) = Exact(u, saved[u])
    <2>1. LoadProfile(u) = NewProfile(u) /\ saved[u] = [click |-> <<>>, like |-> <<>>]
      BY <1>1 DEF Init, LoadProfile
    <2>2. Len(<<>>) = 0 /\ SubSeq(<<>>, 1, 0) = <<>>
      OBVIOUS
    <2>3. LastOf(<<>>) = <<>> /\ FirstOf(<<>>) = <<>>
      BY <2>2, HistoryCapAssumption DEF LastOf, FirstOf
    <2> QED BY <2>1, <2>2, <2>3 DEF NewProfile, Exact
  <1>2. ProfileTyped
    BY RequestsKnownInit DEF Init, ProfileTyped, Updating, Histories
  <1>3. ProfileLaw
    BY <1>1 DEF Init, ProfileLaw, Updating
  <1> QED BY <1>2, <1>3 DEF ProfileInv

\* A step that touches neither the files nor a thread that updates a profile.
LEMMA ProfilesUntouched ==
    ASSUME ProfileInv, RequestsKnown', DOMAIN pc' = Threads, DOMAIN prof' = Threads,
           UNCHANGED <<file, saved, raced>>,
           \A t \in Threads : pc'[t] = "load" => Profiled(req'[t]),
           \A t \in Threads : pc'[t] = "open" <=> pc[t] = "open",
           \A t \in Threads : pc'[t] = "write" <=> pc[t] = "write",
           \A t \in Threads : Updating(t) => prof'[t] = prof[t] /\ req'[t] = req[t]
    PROVE  ProfileInv'
  <1>1. \A t \in Threads : Updating(t)' = Updating(t)
    BY DEF Updating
  <1>2. ProfileTyped'
    BY <1>1 DEF ProfileInv, ProfileTyped, Updating
  <1>3. ASSUME NEW u \in Uids
        PROVE  /\ LoadProfile(u)' = LoadProfile(u)
               /\ \A t \in Threads : Writing(t, u)' = Writing(t, u)
    BY DEF LoadProfile, Writing, Updating
  <1>4. ProfileLaw'
    BY <1>1, <1>3 DEF ProfileInv, ProfileLaw, Updating
  <1> QED BY <1>2, <1>4 DEF ProfileInv

LEMMA ProfileLoaded ==
    ASSUME ProfileInv, RequestsKnown', NEW t \in Threads, LoadAndUpdate(t)
    PROVE  ProfileInv'
  <1> DEFINE u == req[t].uid
  <1>1. /\ pc[t] = "load" /\ pc' = [pc EXCEPT ![t] = "open"]
        /\ prof' = [prof EXCEPT ![t] = Updated(LoadProfile(u), req[t])]
        /\ raced' = IF Overlaps(t) THEN raced \union {u} ELSE raced
        /\ UNCHANGED <<file, saved, req>>
    BY DEF LoadAndUpdate
  <1>2. req[t] \in Requests /\ Profiled(req[t]) /\ u \in Uids
    BY <1>1 DEF ProfileInv, ProfileTyped, RequestsKnown, Profiled, Uids
  <1>3. LoadProfile(u) \in Profiles /\ LoadProfile(u).uid \in {u, NoName}
    <2>1. CASE u \in DOMAIN file
      BY <2>1 DEF LoadProfile, ProfileInv, ProfileTyped
    <2>2. CASE u \notin DOMAIN file
      <3>1. NewProfile(u) \in Profiles /\ NewProfile(u).uid = u
        BY <1>2 DEF NewProfile, Profiles
      <3> QED BY <2>2, <3>1 DEF LoadProfile
    <2> QED BY <2>1, <2>2
  <1>4. prof'[t] \in Profiles /\ prof'[t].uid \in {u, NoName}
    BY <1>1, <1>2, <1>3, UpdatedTyped DEF ProfileInv, ProfileTyped
  <1>5. ProfileTyped'
    BY <1>1, <1>2, <1>4 DEF ProfileInv, ProfileTyped, Updating
  <1>6. ASSUME NEW v \in Uids, v \notin raced'
        PROVE  /\ LoadProfile(v)' = LoadProfile(v) /\ v \notin raced
               /\ \A s \in Threads : Writing(s, v)' = Writing(s, v)
    BY <1>1, <1>6 DEF LoadProfile, Writing, ProfileInv, ProfileTyped
  <1>7. ASSUME NEW v \in Uids, v \notin raced', u = v
        PROVE  \A s \in Threads : req[s].uid = v => ~Updating(s)
    BY <1>1, <1>7 DEF Overlaps, Updating
  <1>8. ASSUME NEW v \in Uids, v \notin raced', u = v
        PROVE  prof'[t] = Updated(Exact(v, saved[v]), req[t])
    <2>1. \A s \in Threads : ~Writing(s, v)
      BY <1>7, <1>8 DEF Writing, Updating
    <2>2. LoadProfile(v) = Exact(v, saved[v])
      BY <1>6, <1>8, <2>1 DEF ProfileInv, ProfileLaw
    <2> QED BY <1>1, <1>8, <2>2 DEF ProfileInv, ProfileTyped
  <1>9. \A s \in Threads : Updating(s)' <=> s = t \/ Updating(s)
    BY <1>1 DEF Updating, ProfileInv, ProfileTyped
  <1>10. \A s \in Threads : s # t => prof'[s] = prof[s]
    BY <1>1 DEF ProfileInv, ProfileTyped
  <1> HIDE DEF u
  <1>11. ASSUME NEW v \in Uids, v \notin raced'
         PROVE  /\ \A r, s \in Threads :
                     Updating(r)' /\ Updating(s)' /\ req'[r].uid = v /\ req'[s].uid = v => r = s
                /\ \A s \in Threads :
                     Updating(s)' /\ req'[s].uid = v => prof'[s] = Updated(Exact(v, saved'[v]), req'[s])
    <2>1. req' = req /\ saved' = saved /\ v \notin raced
      BY <1>1, <1>6, <1>11
    <2>2. u = req[t].uid
      BY DEF u
    <2> QED
      BY <1>7, <1>8, <1>9, <1>10, <1>11, <2>1, <2>2 DEF ProfileInv, ProfileLaw
  <1>12. ProfileLaw'
    BY <1>1, <1>6, <1>11 DEF ProfileInv, ProfileLaw
  <1> QED BY <1>5, <1>12 DEF ProfileInv

\* What Store leaves alone.
LEMMA StoreElsewhere ==
    ASSUME NEW x, NEW y, Store(x, y), NEW v, v # x
    PROVE  LoadProfile(v)' = LoadProfile(v)
  BY DEF Store, LoadProfile

LEMMA ProfileOpened ==
    ASSUME ProfileInv, RequestsKnown', NEW t \in Threads, OpenProfile(t)
    PROVE  ProfileInv'
  <1> DEFINE u == req[t].uid
  <1>1. /\ pc[t] = "open" /\ Store(prof[t].uid, Blank)
        /\ pc' = [pc EXCEPT ![t] = "write"]
        /\ UNCHANGED <<saved, raced>>
        /\ DOMAIN prof' = Threads /\ req' \in [Threads -> Requests]
        /\ \A s \in Threads : req'[s] = req[s] /\ prof'[s] = prof[s]
    <2>1. Goto(t, "write") /\ DOMAIN prof = Threads /\ req \in [Threads -> Requests]
      BY DEF OpenProfile, ProfileInv, ProfileTyped, RequestsKnown
    <2>2. /\ DOMAIN prof' = Threads /\ \A s \in Threads : prof'[s] = prof[s]
          /\ req' \in [Threads -> Requests] /\ \A s \in Threads : req'[s] = req[s]
      BY <2>1 DEF Goto
    <2> QED BY <2>1, <2>2 DEF OpenProfile, Goto
  <1>2. /\ req[t] \in Requests /\ Profiled(req[t]) /\ u \in Uids /\ NoName \notin Uids
        /\ prof[t].uid \in {u, NoName}
    BY <1>1 DEF ProfileInv, ProfileTyped, RequestsKnown, Profiled, Uids, Updating
  <1>3. Blank \in Profiles /\ Blank.uid = NoName
    BY DEF Blank, NewProfile, Profiles
  <1>4. \A s \in Threads : Updating(s)' = Updating(s)
    BY <1>1 DEF Updating, ProfileInv, ProfileTyped
  <1>5. ProfileTyped'
    <2>1. \A v \in DOMAIN file' : file'[v] \in Profiles /\ file'[v].uid \in {v, NoName}
      BY <1>1, <1>3 DEF Store, ProfileInv, ProfileTyped
    <2>2. \A s \in Threads : pc'[s] \in {"load", "open", "write"} => pc[s] \in {"load", "open", "write"}
      BY <1>1 DEF ProfileInv, ProfileTyped
    <2> QED BY <1>1, <1>4, <2>1, <2>2 DEF ProfileInv, ProfileTyped, RequestsKnown
  <1>6. ASSUME NEW v \in Uids, v \notin raced, \A s \in Threads : ~Writing(s, v)'
        PROVE  LoadProfile(v)' = Exact(v, saved[v])
    <2>1. v # u
      BY <1>1, <1>6 DEF Writing, ProfileInv, ProfileTyped
    <2>2. LoadProfile(v)' = LoadProfile(v)
      BY <1>1, <1>2, <2>1, StoreElsewhere
    <2>3. \A s \in Threads : ~Writing(s, v)
      BY <1>1, <1>6, <2>1 DEF Writing, ProfileInv, ProfileTyped
    <2> QED BY <1>6, <2>2, <2>3 DEF ProfileInv, ProfileLaw
  <1>7. ProfileLaw'
    BY <1>1, <1>4, <1>6 DEF ProfileInv, ProfileLaw
  <1> QED BY <1>5, <1>7 DEF ProfileInv

LEMMA ProfileWritten ==
    ASSUME ProfileInv, RequestsKnown', NEW t \in Threads, WriteProfile(t)
    PROVE  ProfileInv'
  <1> DEFINE u == req[t].uid
             r == req[t]
             where == AfterProfile(req[t])
  <1>1. /\ pc[t] = "write" /\ Store(prof[t].uid, prof[t])
        /\ pc' = [pc EXCEPT ![t] = where]
        /\ saved' = [saved EXCEPT ![u][r.type] = Append(@, r.doc)]
        /\ DOMAIN prof' = Threads
        /\ \A s \in Threads : s # t => req'[s] = req[s] /\ prof'[s] = prof[s]
        /\ UNCHANGED raced
    <2>1. Goto(t, where) /\ DOMAIN prof = Threads /\ req \in [Threads -> Requests]
      BY DEF WriteProfile, ProfileInv, ProfileTyped, RequestsKnown
    <2> HIDE DEF where
    <2>2. /\ DOMAIN prof' = Threads /\ pc' = [pc EXCEPT ![t] = where]
          /\ \A s \in Threads : s # t => req'[s] = req[s] /\ prof'[s] = prof[s]
      BY <2>1 DEF Goto
    <2> QED BY <2>2 DEF WriteProfile
  <1>2. where \in {"query", "swap", "idle"}
    BY DEF AfterProfile
  <1>3. /\ r \in Requests /\ Profiled(r) /\ u \in Uids /\ NoName \notin Uids
        /\ prof[t] \in Profiles /\ prof[t].uid \in {u, NoName} /\ Updating(t)
    BY <1>1 DEF ProfileInv, ProfileTyped, RequestsKnown, Profiled, Uids, Updating
  <1> HIDE DEF where
  <1>4. /\ ~Updating(t)'
        /\ \A s \in Threads : s # t => pc'[s] = pc[s] /\ Updating(s)' = Updating(s)
    BY <1>1, <1>2 DEF Updating, ProfileInv, ProfileTyped
  <1>5. r.doc \in Docs /\ r.type \in {"click", "like"}
    BY <1>3 DEF Profiled, Reported, Docs
  <1>6. /\ saved' \in [Uids -> Histories]
        /\ saved'[u] = [saved[u] EXCEPT ![r.type] = Append(@, r.doc)]
        /\ \A v \in Uids : v # u => saved'[v] = saved[v]
    <2>1. saved[u] \in Histories
      BY <1>3 DEF ProfileInv, ProfileTyped
    <2>2. [saved[u] EXCEPT ![r.type] = Append(@, r.doc)] \in Histories
      BY <1>5, <2>1, HistoryGrows
    <2> QED BY <1>1, <1>3, <2>2 DEF ProfileInv, ProfileTyped
  <1>7. ProfileTyped'
    <2>1. \A v \in DOMAIN file' : file'[v] \in Profiles /\ file'[v].uid \in {v, NoName}
      BY <1>1, <1>3 DEF Store, ProfileInv, ProfileTyped
    <2>2. pc'[t] \notin {"load", "open", "write"} /\ DOMAIN pc' = Threads
      BY <1>1, <1>2 DEF ProfileInv, ProfileTyped
    <2> QED BY <1>1, <1>4, <1>6, <2>1, <2>2 DEF ProfileInv, ProfileTyped
  <1>8. ASSUME NEW v \in Uids, v = u, v \notin raced
        PROVE  /\ LoadProfile(v)' = Exact(v, saved'[v])
               /\ \A s \in Threads : s # t /\ Updating(s) => req[s].uid # v
    <2>1. prof[t] = Updated(Exact(v, saved[v]), r) /\ saved[v] \in Histories
      BY <1>3, <1>8 DEF ProfileInv, ProfileLaw, ProfileTyped
    <2>2. prof[t] = Exact(v, saved'[v])
      <3>1. Updated(Exact(v, saved[v]), r) = Exact(v, [saved[v] EXCEPT ![r.type] = Append(@, r.doc)])
        BY <1>3, <2>1, UpdatedExact, Zenon
      <3>2. saved'[v] = [saved[v] EXCEPT ![r.type] = Append(@, r.doc)]
        BY <1>6, <1>8
      <3> QED BY <2>1, <3>1, <3>2, Zenon
    <2>3. prof[t].uid = v
      BY <2>2 DEF Exact
    <2>4. LoadProfile(v)' = prof[t]
      BY <1>1, <2>3 DEF Store, LoadProfile
    <2>5. \A s \in Threads : s # t /\ Updating(s) => req[s].uid # v
      BY <1>3, <1>8 DEF ProfileInv, ProfileLaw
    <2> QED BY <2>2, <2>4, <2>5
  <1>9. ASSUME NEW v \in Uids, v # u
        PROVE  /\ LoadProfile(v)' = LoadProfile(v)
               /\ (\A s \in Threads : ~Writing(s, v)') => (\A s \in Threads : ~Writing(s, v))
    <2>1. LoadProfile(v)' = LoadProfile(v)
      BY <1>1, <1>3, <1>9, StoreElsewhere
    <2>2. \A s \in Threads : Writing(s, v) => Writing(s, v)'
      BY <1>1, <1>4, <1>9 DEF Writing
    <2> QED BY <2>1, <2>2
  <1> HIDE DEF u, r
  <1>10. u = req[t].uid
    BY DEF u
  <1>11. ASSUME NEW v \in Uids, v \notin raced'
         PROVE  /\ \A p, s \in Threads :
                     Updating(p)' /\ Updating(s)' /\ req'[p].uid = v /\ req'[s].uid = v => p = s
                /\ (\A s \in Threads : ~Writing(s, v)') => LoadProfile(v)' = Exact(v, saved'[v])
                /\ \A s \in Threads :
                     Updating(s)' /\ req'[s].uid = v => prof'[s] = Updated(Exact(v, saved'[v]), req'[s])
    <2>1. v \notin raced
      BY <1>1, <1>11
    <2>2. \A s \in Threads : Updating(s)' => s # t /\ Updating(s) /\ req'[s] = req[s] /\ prof'[s] = prof[s]
      BY <1>1, <1>4
    <2>3. CASE v = u
      BY <1>8, <2>1, <2>2, <2>3
    <2>4. CASE v # u
      BY <1>6, <1>9, <2>1, <2>2, <2>4 DEF ProfileInv, ProfileLaw
    <2> QED BY <2>3, <2>4
  <1>12. ProfileLaw'
    BY <1>11 DEF ProfileLaw
  <1> QED BY <1>7, <1>12 DEF ProfileInv

LEMMA ProfileNextInv == ProfileInv /\ [Next]_vars => ProfileInv'
  <1> SUFFICES ASSUME ProfileInv, [Next]_vars PROVE ProfileInv'
    OBVIOUS
  <1>0. RequestsKnown' /\ RequestsKnown /\ DOMAIN pc = Threads /\ DOMAIN prof = Threads
    BY RequestsKnownNext DEF ProfileInv, ProfileTyped
  <1>1. ASSUME NEW t \in Threads, NEW where, Goto(t, where), ~Updating(t),
               where \notin {"open", "write"}, where = "load" => Profiled(req[t]),
               UNCHANGED <<file, saved, raced>>
        PROVE  ProfileInv'
    <2>1. /\ DOMAIN pc' = Threads /\ DOMAIN prof' = Threads
          /\ \A s \in Threads : pc'[s] = "load" => Profiled(req'[s])
          /\ \A s \in Threads : pc'[s] = "open" <=> pc[s] = "open"
          /\ \A s \in Threads : pc'[s] = "write" <=> pc[s] = "write"
          /\ \A s \in Threads : Updating(s) => prof'[s] = prof[s] /\ req'[s] = req[s]
      BY <1>0, <1>1 DEF Goto, Updating, ProfileInv, ProfileTyped, RequestsKnown
    <2> QED BY <1>0, <1>1, <2>1, ProfilesUntouched
  <1>2. ASSUME UNCHANGED <<pc, prof, req, file, saved, raced>> PROVE ProfileInv'
    BY <1>0, <1>2, ProfilesUntouched DEF ProfileInv, ProfileTyped
  <1>3. ASSUME NEW t \in Threads, Handle(t) PROVE ProfileInv'
    <2>1. CASE WriteEvent(t)
      BY <1>1, <2>1 DEF WriteEvent, Updating
    <2>2. CASE ReportEvent(t)
      <3>1. /\ AfterReport(req[t]) \notin {"open", "write"}
            /\ AfterReport(req[t]) = "load" => Profiled(req[t])
        BY DEF AfterReport, AfterProfile
      <3> QED BY <1>1, <2>2, <3>1 DEF ReportEvent, Updating
    <2>3. CASE LoadAndUpdate(t)
      BY <1>0, <2>3, ProfileLoaded
    <2>4. CASE OpenProfile(t)
      BY <1>0, <2>4, ProfileOpened
    <2>5. CASE WriteProfile(t)
      BY <1>0, <2>5, ProfileWritten
    <2>6. CASE IncrementQuery(t)
      <3>1. (IF Chained(req[t]) THEN "swap" ELSE "idle") \in {"swap", "idle"}
        OBVIOUS
      <3> QED BY <1>1, <2>6, <3>1 DEF IncrementQuery, Updating
    <2>7. CASE SwapLastClick(t)
      <3>1. /\ DOMAIN pc' = Threads /\ UNCHANGED <<prof, file, saved, raced>>
            /\ pc[t] = "swap" /\ pc'[t] \in {"idle", "first"}
            /\ \A s \in Threads : s # t => pc'[s] = pc[s] /\ req'[s] = req[s]
        BY <1>0, <2>7 DEF SwapLastClick, RequestsKnown
      <3>2. /\ \A s \in Threads : pc'[s] = "load" => Profiled(req'[s])
            /\ \A s \in Threads : pc'[s] = "open" <=> pc[s] = "open"
            /\ \A s \in Threads : pc'[s] = "write" <=> pc[s] = "write"
            /\ \A s \in Threads : Updating(s) => prof'[s] = prof[s] /\ req'[s] = req[s]
        BY <3>1 DEF Updating, ProfileInv, ProfileTyped
      <3> QED BY <1>0, <3>1, <3>2, ProfilesUntouched
    <2>8. CASE RecordForth(t)
      <3>1. /\ DOMAIN pc' = Threads /\ UNCHANGED <<req, prof, file, saved, raced>>
            /\ pc[t] = "first" /\ pc'[t] = "second"
            /\ \A s \in Threads : s # t => pc'[s] = pc[s]
        BY <1>0, <2>8 DEF RecordForth
      <3>2. /\ \A s \in Threads : pc'[s] = "load" => Profiled(req'[s])
            /\ \A s \in Threads : pc'[s] = "open" <=> pc[s] = "open"
            /\ \A s \in Threads : pc'[s] = "write" <=> pc[s] = "write"
        BY <3>1 DEF ProfileInv, ProfileTyped
      <3> QED BY <1>0, <3>1, <3>2, ProfilesUntouched
    <2>9. CASE RecordBack(t)
      BY <1>1, <2>9 DEF RecordBack, Updating
    <2> QED
      BY <1>3, <2>1, <2>2, <2>3, <2>4, <2>5, <2>6, <2>7, <2>8, <2>9 DEF Handle
  <1>4. ASSUME NEW t \in Threads, NEW r \in Requests, Begin(t, r) PROVE ProfileInv'
    <2>1. /\ DOMAIN pc' = Threads /\ UNCHANGED <<prof, file, saved, raced>>
          /\ pc[t] = "idle" /\ pc'[t] = "log"
          /\ \A s \in Threads : s # t => pc'[s] = pc[s] /\ req'[s] = req[s]
      BY <1>0, <1>4 DEF Begin, RequestsKnown
    <2>2. /\ \A s \in Threads : pc'[s] = "load" => Profiled(req'[s])
          /\ \A s \in Threads : pc'[s] = "open" <=> pc[s] = "open"
          /\ \A s \in Threads : pc'[s] = "write" <=> pc[s] = "write"
          /\ \A s \in Threads : Updating(s) => prof'[s] = prof[s] /\ req'[s] = req[s]
      BY <2>1 DEF Updating, ProfileInv, ProfileTyped
    <2> QED BY <1>0, <2>1, <2>2, ProfilesUntouched
  <1>5. ASSUME NEW r \in Requests, Impression(r.biz) PROVE ProfileInv'
    BY <1>2, <1>5 DEF Impression
  <1>6. CASE Start \/ ServerReturns \/ StopStore \/ Exit \/ Flush
    BY <1>2, <1>6 DEF Start, ServerReturns, StopStore, Exit, Flush, handlerVars
  <1>7. CASE Crash
    <2>1. /\ pc' = [t \in Threads |-> "idle"] /\ prof' = [t \in Threads |-> Blank]
          /\ raced' = raced \union {req[t].uid : t \in {s \in Threads : pc[s] = "write"}}
          /\ UNCHANGED <<file, saved>>
      BY <1>7 DEF Crash
    <2>2. \A t \in Threads : ~Updating(t)' /\ pc'[t] = "idle"
      BY <2>1 DEF Updating
    <2>3. ProfileTyped'
      BY <1>0, <2>1, <2>2 DEF ProfileInv, ProfileTyped
    <2>4. ASSUME NEW u \in Uids, u \notin raced'
          PROVE  LoadProfile(u)' = Exact(u, saved'[u])
      <3>1. u \notin raced /\ \A t \in Threads : ~Writing(t, u)
        BY <2>1, <2>4 DEF Writing
      <3>2. LoadProfile(u) = Exact(u, saved[u])
        BY <3>1 DEF ProfileInv, ProfileLaw
      <3> QED BY <2>1, <3>2 DEF LoadProfile
    <2>5. ProfileLaw'
      BY <2>2, <2>4 DEF ProfileLaw
    <2> QED BY <2>3, <2>5 DEF ProfileInv
  <1>8. CASE Done \/ UNCHANGED vars
    BY <1>2, <1>8 DEF Done, vars, handlerVars
  <1> QED
    BY <1>3, <1>4, <1>5, <1>6, <1>7, <1>8 DEF Next

\* The profile file of a user holds exactly the counts, the last clicks and
\* the first likes that were saved, for every capacity of the histories and
\* every interleaving, except after two updates of that user overlapped or a
\* crash cut one.  (user_profile.cpp 27-126.)
THEOREM ProfilesExact == Spec => []ProfileExact
  <1>1. ProfileInv => ProfileExact
    <2> SUFFICES ASSUME ProfileInv, NEW u \in Uids \ raced,
                        \A t \in Threads : ~(pc[t] = "write" /\ req[t].uid = u)
                 PROVE  LoadProfile(u) = Exact(u, saved[u])
      BY DEF ProfileExact, Exact, LastOf, FirstOf
    <2> QED BY DEF ProfileInv, ProfileLaw, Writing
  <1> QED BY <1>1, ProfileInitInv, ProfileNextInv, PTL DEF Spec

-----------------------------------------------------------------------------
(***************************************************************************)
(* Counts.  WriteEvent is called before everything else an event changes,  *)
(* so what is counted already, and what the threads past that call are     *)
(* about to count, is never more than the events it was called for,        *)
(* whether it stored them or failed.                                       *)
(***************************************************************************)

Bizs == {r.biz : r \in Requests}
ClicksIn(biz) == {r \in Clicks : r.biz = biz}
ClicksFor(q) == {r \in Clicks : r.query = q}

LogTyped ==
    /\ RequestsKnown
    /\ logged \in [Requests -> Nat] /\ unlogged \in [Requests -> Nat]
    /\ freq \in [Queries -> Nat]
    /\ pairs \in [Docs \X Docs -> Nat]
    /\ DOMAIN pc = Threads /\ DOMAIN last = Threads

LogFinite == \A kinds \in SUBSET Requests : IsFiniteSet(Handled(kinds))

LogInv == LogTyped /\ LogFinite

LEMMA WrittenMore ==
    ASSUME NEW A, NEW B, A \subseteq B
    PROVE  Handled(A) \subseteq Handled(B)
  BY DEF Handled

\* A call of WriteEvent adds one element to the events written of each set
\* of kinds its request is in, and none to the others.
LEMMA HandledGrows ==
    ASSUME LogTyped, NEW t \in Threads, WriteEvent(t), NEW kinds \in SUBSET Requests
    PROVE  \E i \in Nat : /\ <<req[t], i>> \notin Handled(kinds)
                          /\ Handled(kinds)' = IF req[t] \in kinds
                                               THEN Handled(kinds) \union {<<req[t], i>>}
                                               ELSE Handled(kinds)
  <1> DEFINE r0 == req[t]
             n(r) == logged[r] + unlogged[r]
  <1>1. r0 \in Requests
    BY DEF LogTyped, RequestsKnown
  <1>2. /\ logged'[r0] + unlogged'[r0] = n(r0) + 1
        /\ \A r \in Requests : r # r0 => logged'[r] + unlogged'[r] = n(r)
    BY <1>1 DEF WriteEvent, LogTyped
  <1>3. \A r \in Requests : n(r) \in Nat
    BY DEF LogTyped
  <1>4. <<r0, n(r0) + 1>> \notin Handled(kinds)
    BY <1>1, <1>3 DEF Handled
  <1>5. ASSUME NEW x
        PROVE  x \in Handled(kinds)' <=>
                  x \in Handled(kinds) \/ (r0 \in kinds /\ x = <<r0, n(r0) + 1>>)
    <2>1. x \in Handled(kinds) <=> \E r \in kinds : \E i \in 1..n(r) : x = <<r, i>>
      BY DEF Handled
    <2>2. x \in Handled(kinds)' <=>
            \E r \in kinds : \E i \in 1..(logged'[r] + unlogged'[r]) : x = <<r, i>>
      BY DEF Handled
    <2>3. 1..(n(r0) + 1) = 1..n(r0) \union {n(r0) + 1}
      BY <1>1, <1>3
    <2> HIDE DEF r0, n
    <2>4. \A r \in kinds : 1..(logged'[r] + unlogged'[r])
                             = IF r = r0 THEN 1..n(r0) \union {n(r0) + 1} ELSE 1..n(r)
      BY <1>2, <2>3
    <2> QED BY <2>1, <2>2, <2>4
  <1>6. Handled(kinds)' = IF r0 \in kinds
                          THEN Handled(kinds) \union {<<r0, n(r0) + 1>>}
                          ELSE Handled(kinds)
    BY <1>5
  <1>7. n(r0) + 1 \in Nat
    BY <1>1, <1>3
  <1> WITNESS n(r0) + 1 \in Nat
  <1> QED BY <1>4, <1>6

LEMMA LogStep ==
    ASSUME [Next]_vars
    PROVE  UNCHANGED <<logged, unlogged>> \/ \E t \in Threads : WriteEvent(t)
  <1>1. ASSUME NEW t \in Threads, Handle(t), ~WriteEvent(t) PROVE UNCHANGED <<logged, unlogged>>
    BY <1>1 DEF Handle, ReportEvent, LoadAndUpdate, OpenProfile, WriteProfile, IncrementQuery,
                SwapLastClick, RecordForth, RecordBack
  <1>2. ASSUME NEW t \in Threads, NEW r \in Requests, Begin(t, r) PROVE UNCHANGED <<logged, unlogged>>
    BY <1>2 DEF Begin
  <1>3. ASSUME NEW r \in Requests, Impression(r.biz) PROVE UNCHANGED <<logged, unlogged>>
    BY <1>3 DEF Impression
  <1>4. CASE Start \/ ServerReturns \/ StopStore \/ Exit \/ Crash \/ Flush
    BY <1>4 DEF Start, ServerReturns, StopStore, Exit, Crash, Flush, handlerVars
  <1>5. CASE Done \/ UNCHANGED vars
    BY <1>5 DEF Done, vars, handlerVars
  <1> QED BY <1>1, <1>2, <1>3, <1>4, <1>5 DEF Next

LEMMA LogGrows ==
    ASSUME LogTyped, [Next]_vars, NEW kinds \in SUBSET Requests
    PROVE  /\ Handled(kinds) \subseteq Handled(kinds)'
           /\ IsFiniteSet(Handled(kinds)) => IsFiniteSet(Handled(kinds)')
  <1>1. CASE UNCHANGED <<logged, unlogged>>
    <2>1. Handled(kinds)' = Handled(kinds)
      BY <1>1 DEF Handled
    <2> QED BY <2>1
  <1>2. ASSUME NEW t \in Threads, WriteEvent(t)
        PROVE  /\ Handled(kinds) \subseteq Handled(kinds)'
               /\ IsFiniteSet(Handled(kinds)) => IsFiniteSet(Handled(kinds)')
    <2>1. PICK i \in Nat : Handled(kinds)' = IF req[t] \in kinds
                                             THEN Handled(kinds) \union {<<req[t], i>>}
                                             ELSE Handled(kinds)
      BY <1>2, HandledGrows
    <2>2. CASE req[t] \in kinds
      <3>1. Handled(kinds)' = Handled(kinds) \union {<<req[t], i>>}
        BY <2>1, <2>2
      <3>2. IsFiniteSet(Handled(kinds)) => IsFiniteSet(Handled(kinds) \union {<<req[t], i>>})
        BY FS_AddElement
      <3> QED BY <3>1, <3>2, Zenon
    <2>3. CASE req[t] \notin kinds
      BY <2>1, <2>3
    <2> QED BY <2>2, <2>3
  <1> QED BY <1>1, <1>2, LogStep

LEMMA LogInitInv == Init => LogInv
  <1> SUFFICES ASSUME Init PROVE LogInv
    OBVIOUS
  <1>1. LogTyped
    BY RequestsKnownInit DEF Init, LogTyped
  <1>2. ASSUME NEW kinds \in SUBSET Requests PROVE Handled(kinds) = {}
    <2>1. \A r \in kinds : 1..(logged[r] + unlogged[r]) = {}
      BY DEF Init
    <2> QED BY <2>1 DEF Handled
  <1> QED BY <1>1, <1>2, FS_EmptySet DEF LogInv, LogFinite

LEMMA LogTypedNext == LogTyped /\ [Next]_vars => LogTyped'
  <1> SUFFICES ASSUME LogTyped, [Next]_vars PROVE LogTyped'
    OBVIOUS
  <1>0. RequestsKnown'
    BY RequestsKnownNext DEF LogTyped
  <1> USE DEF LogTyped
  <1>1. ASSUME NEW t \in Threads, Handle(t) PROVE LogTyped'
    <2>1. CASE WriteEvent(t)
      <3>1. req[t] \in Requests /\ logged[req[t]] + 1 \in Nat /\ unlogged[req[t]] + 1 \in Nat
        BY DEF RequestsKnown
      <3> QED BY <1>0, <2>1, <3>1 DEF WriteEvent, Goto
    <2>2. CASE ReportEvent(t) \/ OpenProfile(t) \/ WriteProfile(t)
      BY <1>0, <2>2 DEF ReportEvent, OpenProfile, WriteProfile, Goto
    <2>3. CASE LoadAndUpdate(t) \/ SwapLastClick(t)
      BY <1>0, <2>3 DEF LoadAndUpdate, SwapLastClick
    <2>4. CASE IncrementQuery(t)
      <3>1. \A q \in Queries : freq[q] + 1 \in Nat
        OBVIOUS
      <3>2. freq' \in [Queries -> Nat]
        BY <2>4, <3>1 DEF IncrementQuery
      <3> QED BY <1>0, <2>4, <3>2 DEF IncrementQuery, Goto
    <2>5. CASE RecordForth(t) \/ RecordBack(t)
      <3>1. \A p \in Docs \X Docs : pairs[p] + 1 \in Nat
        OBVIOUS
      <3>2. ASSUME NEW p, CountPair(p) PROVE pairs' \in [Docs \X Docs -> Nat]
        BY <3>1, <3>2 DEF CountPair
      <3> QED BY <1>0, <2>5, <3>2 DEF RecordForth, RecordBack, Goto
    <2> QED BY <1>1, <2>1, <2>2, <2>3, <2>4, <2>5 DEF Handle
  <1>2. ASSUME NEW t \in Threads, NEW r \in Requests, Begin(t, r) PROVE LogTyped'
    BY <1>0, <1>2 DEF Begin
  <1>3. ASSUME NEW r \in Requests, Impression(r.biz) PROVE LogTyped'
    BY <1>0, <1>3 DEF Impression
  <1>4. CASE Start \/ ServerReturns \/ StopStore \/ Exit \/ Flush
    BY <1>0, <1>4 DEF Start, ServerReturns, StopStore, Exit, Flush, handlerVars
  <1>5. CASE Crash
    BY <1>0, <1>5 DEF Crash
  <1>6. CASE Done \/ UNCHANGED vars
    BY <1>0, <1>6 DEF Done, vars, handlerVars
  <1> QED BY <1>1, <1>2, <1>3, <1>4, <1>5, <1>6 DEF Next

LEMMA LogNextInv == LogInv /\ [Next]_vars => LogInv'
  <1> SUFFICES ASSUME LogInv, [Next]_vars PROVE LogInv'
    OBVIOUS
  <1>1. LogTyped'
    BY LogTypedNext DEF LogInv
  <1>2. ASSUME NEW kinds \in SUBSET Requests PROVE IsFiniteSet(Handled(kinds)')
    BY LogGrows DEF LogInv, LogFinite
  <1> QED BY <1>1, <1>2 DEF LogInv, LogFinite

\* The number of an event's places in a sequence of events.
Places(s, e) == {i \in DOMAIN s : s[i] = e}
Count(s, e) == Cardinality(Places(s, e))

LEMMA CountType ==
    ASSUME NEW s \in Seq(Events), NEW e
    PROVE  IsFiniteSet(Places(s, e)) /\ Count(s, e) \in Nat
  <1>1. Places(s, e) \subseteq 1..Len(s)
    BY DEF Places
  <1>2. IsFiniteSet(1..Len(s))
    BY FS_Interval
  <1> QED BY <1>1, <1>2, FS_Subset, FS_CardinalityType DEF Count

LEMMA CountEmpty == \A e : Count(<<>>, e) = 0
  <1>1. \A e : Places(<<>>, e) = {}
    BY DEF Places
  <1> QED BY <1>1, FS_EmptySet DEF Count

LEMMA CountAppend ==
    ASSUME NEW s \in Seq(Events), NEW e, NEW x \in Events
    PROVE  Count(Append(s, x), e) = Count(s, e) + (IF x = e THEN 1 ELSE 0)
  <1> DEFINE n == Len(s) + 1
             a == Append(s, x)
  <1>1. /\ DOMAIN a = DOMAIN s \union {n} /\ n \notin DOMAIN s
        /\ a[n] = x /\ \A i \in DOMAIN s : a[i] = s[i]
    OBVIOUS
  <1>2. IsFiniteSet(Places(s, e)) /\ Count(s, e) \in Nat
    BY CountType
  <1> HIDE DEF n, a
  <1>3. CASE x = e
    <2>1. Places(a, e) = Places(s, e) \union {n} /\ n \notin Places(s, e)
      BY <1>1, <1>3 DEF Places
    <2>2. Cardinality(Places(s, e) \union {n}) = Cardinality(Places(s, e)) + 1
      BY <1>2, <2>1, FS_AddElement
    <2> QED BY <1>3, <2>1, <2>2 DEF Count, a
  <1>4. CASE x # e
    <2>1. Places(a, e) = Places(s, e)
      BY <1>1, <1>4 DEF Places
    <2> QED BY <1>2, <1>4, <2>1 DEF Count, a
  <1> QED BY <1>3, <1>4

\* What a growing list of numbers points at is there at least as often.
LEMMA CountAtMost ==
    ASSUME NEW s \in Seq(Events), NEW seen \in Seq(Nat), Increasing(seen),
           Entries(seen) \subseteq DOMAIN s, NEW e
    PROVE  Cardinality({i \in DOMAIN seen : s[seen[i]] = e}) <= Count(s, e)
  <1> DEFINE P == {i \in DOMAIN seen : s[seen[i]] = e}
             f == [i \in P |-> seen[i]]
  <1>1. f \in [P -> Places(s, e)]
    BY DEF Entries, Places
  <1>2. \A i, j \in P : f[i] = f[j] => i = j
    <2> SUFFICES ASSUME NEW i \in P, NEW j \in P, seen[i] = seen[j], i # j PROVE FALSE
      OBVIOUS
    <2>1. i \in 1..Len(seen) /\ j \in 1..Len(seen) /\ seen[i] \in Nat /\ seen[j] \in Nat
      OBVIOUS
    <2>2. i < j \/ j < i
      BY <2>1
    <2> QED BY <2>1, <2>2 DEF Increasing
  <1>3. f \in Injection(P, Places(s, e))
    BY <1>1, <1>2 DEF Injection, IsInjective
  <1>4. Cardinality(P) <= Cardinality(Places(s, e))
    BY <1>3, CountType, FS_Injection
  <1> QED BY <1>4 DEF Count

\* Sets of threads.
LEMMA ThreadSets ==
    ASSUME NEW A \in SUBSET Threads
    PROVE  /\ Cardinality(A) \in Nat
           /\ \A B \in SUBSET A : Cardinality(B) <= Cardinality(A)
           /\ \A t \in A : Cardinality(A \ {t}) = Cardinality(A) - 1
  <1>1. IsFiniteSet(A) /\ Cardinality(A) \in Nat
    BY ThreadsAssumption, FS_Subset, FS_CardinalityType
  <1>2. ASSUME NEW B \in SUBSET A PROVE Cardinality(B) <= Cardinality(A)
    BY <1>1, FS_Subset
  <1>3. ASSUME NEW t \in A PROVE Cardinality(A \ {t}) = Cardinality(A) - 1
    BY <1>1, FS_RemoveElement
  <1> QED BY <1>1, <1>2, <1>3

\* A sum that is covered stays covered when nothing is added on the left, and
\* when one element is added on both sides.
Covered(n, who, what) == n + Cardinality(who) <= Cardinality(what)

LEMMA StillCovered ==
    ASSUME NEW n \in Nat, NEW m \in Nat, m <= n,
           NEW A \in SUBSET Threads, NEW B \in SUBSET A,
           NEW X, NEW Y, IsFiniteSet(Y), X \subseteq Y, Covered(n, A, X)
    PROVE  Covered(m, B, Y)
  <1>1. Cardinality(A) \in Nat /\ Cardinality(B) \in Nat /\ Cardinality(B) <= Cardinality(A)
    BY ThreadSets
  <1>2. IsFiniteSet(X) /\ Cardinality(X) <= Cardinality(Y)
    BY FS_Subset
  <1>3. Cardinality(X) \in Nat /\ Cardinality(Y) \in Nat
    BY <1>2, FS_CardinalityType
  <1> QED BY <1>1, <1>2, <1>3 DEF Covered

LEMMA CoveredBoth ==
    ASSUME NEW n \in Nat, NEW A \in SUBSET Threads, NEW t, NEW B \in SUBSET (A \union {t}),
           B \subseteq Threads,
           NEW X, NEW x, x \notin X, IsFiniteSet(X), Covered(n, A, X)
    PROVE  Covered(n, B, X \union {x})
  <1>1. Cardinality(X \union {x}) = Cardinality(X) + 1 /\ Cardinality(X) \in Nat
    BY FS_AddElement, FS_CardinalityType
  <1>2. Cardinality(B) \in Nat /\ Cardinality(A) \in Nat /\ Cardinality(B) <= Cardinality(A) + 1
    <2>1. Cardinality(A) \in Nat /\ Cardinality(B) \in Nat
      BY ThreadSets
    <2>2. CASE t \in B
      <3>1. B \ {t} \in SUBSET A
        OBVIOUS
      <3>2. Cardinality(B \ {t}) <= Cardinality(A)
        BY <3>1, ThreadSets
      <3>3. Cardinality(B \ {t}) = Cardinality(B) - 1
        BY <2>2, ThreadSets
      <3> QED BY <2>1, <3>2, <3>3
    <2>3. CASE t \notin B
      <3>1. B \in SUBSET A
        BY <2>3
      <3>2. Cardinality(B) <= Cardinality(A)
        BY <3>1, ThreadSets
      <3> QED BY <2>1, <3>2
    <2> QED BY <2>2, <2>3
  <1> QED BY <1>1, <1>2 DEF Covered

LEMMA CoveredMove ==
    ASSUME NEW n \in Nat, NEW m \in Nat, m <= n + 1,
           NEW A \in SUBSET Threads, NEW t \in A, NEW B \in SUBSET (A \ {t}),
           NEW X, Cardinality(X) \in Nat, Covered(n, A, X)
    PROVE  Covered(m, B, X)
  <1>1. Cardinality(A) \in Nat /\ Cardinality(A \ {t}) = Cardinality(A) - 1
    BY ThreadSets
  <1>2. A \ {t} \in SUBSET Threads
    OBVIOUS
  <1>3. Cardinality(B) \in Nat /\ Cardinality(B) <= Cardinality(A \ {t})
    BY <1>2, ThreadSets
  <1> QED BY <1>1, <1>3 DEF Covered

-----------------------------------------------------------------------------
\* The clicks of a business that are accepted, and those that have been given
\* to the log and are about to be reported.
ClickOf(biz) == [biz |-> biz, type |-> "click"]
Reporting(kinds) == {t \in Threads : pc[t] = "report" /\ req[t] \in kinds}

SeriesBackedFor(biz) ==
    Covered(Count(accepted, ClickOf(biz)), Reporting(ClicksIn(biz)), Handled(ClicksIn(biz)))

SeriesBacked == \A biz \in Bizs : SeriesBackedFor(biz)

SeriesInv == StoreInv /\ LogInv /\ SeriesBacked

\* Fewer events accepted and fewer threads about to report.
LEMMA SeriesKept ==
    ASSUME SeriesInv, LogInv', [Next]_vars, NEW biz \in Bizs, accepted' \in Seq(Events),
           Count(accepted, ClickOf(biz))' <= Count(accepted, ClickOf(biz)),
           Reporting(ClicksIn(biz))' \subseteq Reporting(ClicksIn(biz))
    PROVE  SeriesBackedFor(biz)'
  <1> DEFINE k == ClicksIn(biz)
             n == Count(accepted, ClickOf(biz))
  <1>1. k \in SUBSET Requests
    BY DEF ClicksIn, Clicks
  <1>2. n \in Nat /\ n' \in Nat
    BY CountType DEF SeriesInv, StoreInv, StoreTypeOK
  <1>3. Reporting(k) \in SUBSET Threads
    BY DEF Reporting
  <1>4. Handled(k) \subseteq Handled(k)' /\ IsFiniteSet(Handled(k)')
    BY <1>1, LogGrows DEF SeriesInv, LogInv, LogFinite
  <1>5. Covered(n, Reporting(k), Handled(k))
    BY DEF SeriesInv, SeriesBacked, SeriesBackedFor
  <1>6. Covered(n', Reporting(k)', Handled(k)')
    <2> HIDE DEF n, k
    <2>1. n' <= n /\ Reporting(k)' \in SUBSET Reporting(k)
      BY DEF n, k
    <2> QED BY <1>2, <1>3, <1>4, <1>5, <2>1, StillCovered
  <1> QED BY <1>6 DEF SeriesBackedFor

\* WriteEvent has been called, with or without success: the thread is about
\* to report the event.
LEMMA SeriesLogged ==
    ASSUME SeriesInv, LogInv', [Next]_vars, NEW t \in Threads, WriteEvent(t), NEW biz \in Bizs
    PROVE  SeriesBackedFor(biz)'
  <1> DEFINE k == ClicksIn(biz)
             n == Count(accepted, ClickOf(biz))
  <1>1. k \in SUBSET Requests
    BY DEF ClicksIn, Clicks
  <1>2. n \in Nat /\ UNCHANGED accepted
    BY CountType DEF SeriesInv, StoreInv, StoreTypeOK, WriteEvent, storeVars
  <1>3. /\ Reporting(k) \in SUBSET Threads /\ Reporting(k)' \subseteq Threads
        /\ Reporting(k)' \in SUBSET (Reporting(k) \union {t})
        /\ req[t] \notin k => Reporting(k)' \subseteq Reporting(k)
    BY DEF Reporting, WriteEvent, Goto, SeriesInv, LogInv, LogTyped, RequestsKnown
  <1>4. CASE req[t] \notin k
    BY <1>2, <1>3, <1>4, SeriesKept DEF SeriesInv, StoreInv, StoreTypeOK
  <1>5. CASE req[t] \in k
    <2>1. PICK i \in Nat : /\ <<req[t], i>> \notin Handled(k)
                           /\ Handled(k)' = Handled(k) \union {<<req[t], i>>}
      BY <1>1, <1>5, HandledGrows DEF SeriesInv, LogInv
    <2>2. Covered(n, Reporting(k), Handled(k)) /\ IsFiniteSet(Handled(k))
      BY <1>1 DEF SeriesInv, SeriesBacked, SeriesBackedFor, LogInv, LogFinite
    <2>3. Covered(n, Reporting(k)', Handled(k)')
      <3> HIDE DEF n, k
      <3>1. Covered(n, Reporting(k)', Handled(k) \union {<<req[t], i>>})
        BY <1>2, <1>3, <2>1, <2>2, CoveredBoth
      <3> QED BY <2>1, <3>1, Zenon
    <2> QED BY <1>2, <2>3 DEF SeriesBackedFor
  <1> QED BY <1>4, <1>5

\* An event reported: one more accepted, at most, and one thread less about
\* to report, if it is a click of the business.
LEMMA SeriesReported ==
    ASSUME SeriesInv, LogInv', [Next]_vars, accepted' \in Seq(Events),
           NEW t \in Threads, ReportEvent(t), NEW biz \in Bizs
    PROVE  SeriesBackedFor(biz)'
  <1> DEFINE k == ClicksIn(biz)
             e == ClickOf(biz)
             x == [biz |-> req[t].biz, type |-> req[t].type]
             n == Count(accepted, e)
  <1>1. k \in SUBSET Requests /\ req[t] \in Requests
    BY DEF ClicksIn, Clicks, SeriesInv, LogInv, LogTyped, RequestsKnown
  <1>2. n \in Nat /\ n' \in Nat
    BY CountType DEF SeriesInv, StoreInv, StoreTypeOK
  <1>3. AfterReport(req[t]) # "report"
    BY DEF AfterReport, AfterProfile
  <1>4. /\ Reporting(k) \in SUBSET Threads
        /\ Reporting(k)' \in SUBSET (Reporting(k) \ {t})
    BY <1>3 DEF Reporting, ReportEvent, Goto, SeriesInv, LogInv, LogTyped, RequestsKnown
  <1>5. UNCHANGED accepted \/ (Reported(req[t]) /\ accepted' = Append(accepted, x))
    BY DEF ReportEvent, Report, storeVars
  <1>6. n' <= n + (IF x = e THEN 1 ELSE 0)
    <2>1. CASE UNCHANGED accepted
      <3>1. n' = n
        BY <2>1
      <3> QED BY <1>2, <3>1
    <2>2. CASE Reported(req[t]) /\ accepted' = Append(accepted, x)
      <3>1. x \in Events /\ accepted \in Seq(Events)
        BY <1>1, <2>2, EventsAssumption DEF Reported, SeriesInv, StoreInv, StoreTypeOK
      <3>2. Count(Append(accepted, x), e) = Count(accepted, e) + (IF x = e THEN 1 ELSE 0)
        BY <3>1, CountAppend
      <3> QED BY <1>2, <2>2, <3>2
    <2> QED BY <1>5, <2>1, <2>2
  <1>7. CASE x = e
    <2>1. req[t] \in k /\ t \in Reporting(k)
      BY <1>1, <1>7 DEF ClickOf, ClicksIn, Clicks, Reporting, ReportEvent
    <2>2. Covered(n, Reporting(k), Handled(k)) /\ IsFiniteSet(Handled(k))
      BY <1>1 DEF SeriesInv, SeriesBacked, SeriesBackedFor, LogInv, LogFinite
    <2>3. Cardinality(Handled(k)) \in Nat /\ Handled(k)' = Handled(k)
      BY <2>2, FS_CardinalityType DEF ReportEvent, Handled
    <2>4. n' <= n + 1
      BY <1>6, <1>7
    <2>5. Covered(n', Reporting(k)', Handled(k))
      <3> HIDE DEF n, k, e, x
      <3> QED BY <1>2, <1>4, <2>1, <2>2, <2>3, <2>4, CoveredMove
    <2> QED BY <2>3, <2>5 DEF SeriesBackedFor
  <1>8. CASE x # e
    <2>1. n' <= n /\ Reporting(k)' \subseteq Reporting(k)
      BY <1>2, <1>4, <1>6, <1>8
    <2> QED BY <2>1, SeriesKept
  <1> QED BY <1>7, <1>8

LEMMA SeriesNextInv == SeriesInv /\ [Next]_vars => SeriesInv'
  <1> SUFFICES ASSUME SeriesInv, [Next]_vars PROVE SeriesInv'
    OBVIOUS
  <1>1. LogInv' /\ StoreInv'
    BY LogNextInv, StoreNextInv, StepUsesStore DEF SeriesInv, LogInv, LogTyped
  <1>2. accepted \in Seq(Events) /\ accepted' \in Seq(Events)
    BY <1>1 DEF SeriesInv, StoreInv, StoreTypeOK
  <1>3. \A biz \in Bizs : Count(accepted, ClickOf(biz)) \in Nat
    BY <1>2, CountType
  <1> SUFFICES ASSUME NEW biz \in Bizs PROVE SeriesBackedFor(biz)'
    BY <1>1 DEF SeriesInv, SeriesBacked
  <1> DEFINE k == ClicksIn(biz)
  <1>4. ASSUME UNCHANGED accepted, Reporting(k)' \subseteq Reporting(k)
        PROVE  SeriesBackedFor(biz)'
    <2>1. Count(accepted, ClickOf(biz))' = Count(accepted, ClickOf(biz))
      BY <1>4
    <2> QED BY <1>1, <1>2, <1>3, <1>4, <2>1, SeriesKept
  <1>6. ASSUME NEW t \in Threads, NEW where, Goto(t, where), where # "report", UNCHANGED accepted
        PROVE  SeriesBackedFor(biz)'
    <2>1. Reporting(k)' \subseteq Reporting(k)
      BY <1>6 DEF Reporting, Goto, SeriesInv, LogInv, LogTyped, RequestsKnown
    <2> QED BY <1>4, <1>6, <2>1
  <1>7. ASSUME NEW t \in Threads, Handle(t) PROVE SeriesBackedFor(biz)'
    <2>1. CASE WriteEvent(t)
      BY <1>1, <2>1, SeriesLogged
    <2>2. CASE ReportEvent(t)
      BY <1>1, <1>2, <2>2, SeriesReported
    <2>3. CASE LoadAndUpdate(t)
      <3>1. Reporting(k)' \subseteq Reporting(k) /\ UNCHANGED accepted
        BY <2>3 DEF LoadAndUpdate, storeVars, Reporting, SeriesInv, LogInv, LogTyped
      <3> QED BY <1>4, <3>1
    <2>4. CASE OpenProfile(t)
      BY <1>6, <2>4 DEF OpenProfile, storeVars
    <2>5. CASE WriteProfile(t)
      <3>1. AfterProfile(req[t]) # "report"
        BY DEF AfterProfile
      <3> QED BY <1>6, <2>5, <3>1 DEF WriteProfile, storeVars
    <2>6. CASE IncrementQuery(t)
      <3>1. (IF Chained(req[t]) THEN "swap" ELSE "idle") # "report"
        OBVIOUS
      <3> QED BY <1>6, <2>6, <3>1 DEF IncrementQuery, storeVars
    <2>7. CASE SwapLastClick(t)
      <3>1. Reporting(k)' \subseteq Reporting(k) /\ UNCHANGED accepted
        BY <2>7 DEF SwapLastClick, storeVars, Reporting, SeriesInv, LogInv, LogTyped, RequestsKnown
      <3> QED BY <1>4, <3>1
    <2>8. CASE RecordForth(t)
      <3>1. Reporting(k)' \subseteq Reporting(k) /\ UNCHANGED accepted
        BY <2>8 DEF RecordForth, storeVars, Reporting, SeriesInv, LogInv, LogTyped
      <3> QED BY <1>4, <3>1
    <2>9. CASE RecordBack(t)
      BY <1>6, <2>9 DEF RecordBack, storeVars
    <2> QED
      BY <1>7, <2>1, <2>2, <2>3, <2>4, <2>5, <2>6, <2>7, <2>8, <2>9 DEF Handle
  <1>8. ASSUME NEW t \in Threads, NEW r \in Requests, Begin(t, r) PROVE SeriesBackedFor(biz)'
    <2>1. Reporting(k)' \subseteq Reporting(k) /\ UNCHANGED accepted
      BY <1>8 DEF Begin, storeVars, Reporting, SeriesInv, LogInv, LogTyped, RequestsKnown
    <2> QED BY <1>4, <2>1
  <1>9. ASSUME NEW r \in Requests, Impression(r.biz) PROVE SeriesBackedFor(biz)'
    <2> DEFINE x == [biz |-> r.biz, type |-> "impression"]
    <2>1. x # ClickOf(biz) /\ x \in Events
      BY EventsAssumption DEF ClickOf
    <2>2. UNCHANGED accepted \/ accepted' = Append(accepted, x)
      BY <1>9 DEF Impression, Report, storeVars
    <2>3. Reporting(k)' = Reporting(k)
      BY <1>9 DEF Impression, Reporting
    <2>4. Count(Append(accepted, x), ClickOf(biz)) = Count(accepted, ClickOf(biz)) + 0
      BY <1>2, <2>1, CountAppend
    <2>5. Count(accepted, ClickOf(biz))' <= Count(accepted, ClickOf(biz))
      <3> HIDE DEF x
      <3>1. Count(accepted, ClickOf(biz)) \in Nat
        BY <1>3
      <3>2. Count(accepted, ClickOf(biz))' = Count(accepted', ClickOf(biz))
        OBVIOUS
      <3>3. CASE UNCHANGED accepted
        BY <3>1, <3>3
      <3>4. CASE accepted' = Append(accepted, x)
        BY <2>4, <3>1, <3>2, <3>4
      <3> QED BY <2>2, <3>3, <3>4
    <2> QED BY <1>1, <1>2, <2>3, <2>5, SeriesKept
  <1>10. CASE Start \/ ServerReturns \/ StopStore \/ Flush
    <2>1. Reporting(k)' = Reporting(k) /\ UNCHANGED accepted
      BY <1>10 DEF Start, ServerReturns, StopStore, Flush, handlerVars, storeVars, Reporting,
                   Initialize, RequestStop, StopAfterJoin, FlushLoop, LeaveLoop, EnterLoop,
                   WaitEnds, TakeBatch, BeginBatch, InsertRow, Commit, StatementFails,
                   BeginFails, PrepareFails, InsertFails, CommitFails
    <2> QED BY <1>4, <2>1
  <1>11. CASE Exit \/ Crash
    <2>1. UNCHANGED accepted
      BY <1>11 DEF Exit, Crash, ProcessEnds, ProcessDies, Forget
    <2>2. Reporting(k)' \subseteq Reporting(k)
      BY <1>11 DEF Exit, Crash, Reporting
    <2> QED BY <1>4, <2>1, <2>2
  <1>12. CASE Done \/ UNCHANGED vars
    <2>1. Reporting(k)' = Reporting(k) /\ UNCHANGED accepted
      BY <1>12 DEF Done, vars, handlerVars, storeVars, Reporting
    <2> QED BY <1>4, <2>1
  <1> QED
    BY <1>7, <1>8, <1>9, <1>10, <1>11, <1>12 DEF Next

-----------------------------------------------------------------------------
\* The uses of a query that are counted, and those that have been given to the
\* log and are not yet counted.
Counting(kinds) ==
    {t \in Threads : pc[t] \in {"report", "load", "open", "write", "query"} /\ req[t] \in kinds}

QueryBacked(q) == Covered(freq[q], Counting(ClicksFor(q)), Handled(ClicksFor(q)))
QueriesBacked == \A q \in Queries : QueryBacked(q)

CountsClicks == \A t \in Threads : pc[t] = "query" => req[t].type = "click"

QueriesInv == LogInv /\ CountsClicks /\ QueriesBacked

LEMMA QueryKept ==
    ASSUME QueriesInv, LogInv', [Next]_vars, NEW q \in Queries, freq'[q] = freq[q],
           Counting(ClicksFor(q))' \subseteq Counting(ClicksFor(q))
    PROVE  QueryBacked(q)'
  <1> DEFINE k == ClicksFor(q)
  <1>1. k \in SUBSET Requests
    BY DEF ClicksFor, Clicks
  <1>2. freq[q] \in Nat
    BY DEF QueriesInv, LogInv, LogTyped
  <1>3. Counting(k) \in SUBSET Threads
    BY DEF Counting
  <1>4. Handled(k) \subseteq Handled(k)' /\ IsFiniteSet(Handled(k)')
    BY <1>1, LogGrows DEF QueriesInv, LogInv, LogFinite
  <1>5. Covered(freq[q], Counting(k), Handled(k))
    BY DEF QueriesInv, QueriesBacked, QueryBacked
  <1>6. Covered(freq[q], Counting(k)', Handled(k)')
    <2> HIDE DEF k
    <2>1. freq[q] <= freq[q] /\ Counting(k)' \in SUBSET Counting(k)
      BY <1>2 DEF k
    <2> QED BY <1>2, <1>3, <1>4, <1>5, <2>1, StillCovered
  <1> QED BY <1>6 DEF QueryBacked

LEMMA QueryLogged ==
    ASSUME QueriesInv, LogInv', [Next]_vars, NEW t \in Threads, WriteEvent(t), NEW q \in Queries
    PROVE  QueryBacked(q)'
  <1> DEFINE k == ClicksFor(q)
  <1>1. k \in SUBSET Requests
    BY DEF ClicksFor, Clicks
  <1>2. freq[q] \in Nat /\ UNCHANGED freq
    BY DEF QueriesInv, LogInv, LogTyped, WriteEvent
  <1>3. /\ Counting(k) \in SUBSET Threads /\ Counting(k)' \subseteq Threads
        /\ Counting(k)' \in SUBSET (Counting(k) \union {t})
        /\ req[t] \notin k => Counting(k)' \subseteq Counting(k)
    BY DEF Counting, WriteEvent, Goto, QueriesInv, LogInv, LogTyped, RequestsKnown
  <1>4. CASE req[t] \notin k
    BY <1>2, <1>3, <1>4, QueryKept
  <1>5. CASE req[t] \in k
    <2>1. PICK i \in Nat : /\ <<req[t], i>> \notin Handled(k)
                           /\ Handled(k)' = Handled(k) \union {<<req[t], i>>}
      BY <1>1, <1>5, HandledGrows DEF QueriesInv, LogInv
    <2>2. Covered(freq[q], Counting(k), Handled(k)) /\ IsFiniteSet(Handled(k))
      BY <1>1 DEF QueriesInv, QueriesBacked, QueryBacked, LogInv, LogFinite
    <2>3. Covered(freq[q], Counting(k)', Handled(k)')
      <3> HIDE DEF k
      <3>1. Covered(freq[q], Counting(k)', Handled(k) \union {<<req[t], i>>})
        BY <1>2, <1>3, <2>1, <2>2, CoveredBoth
      <3> QED BY <2>1, <3>1, Zenon
    <2> QED BY <1>2, <2>3 DEF QueryBacked
  <1> QED BY <1>4, <1>5

\* A use counted: its thread has counted it.
LEMMA QueryCounted ==
    ASSUME QueriesInv, LogInv', [Next]_vars, NEW t \in Threads, IncrementQuery(t), NEW q \in Queries
    PROVE  QueryBacked(q)'
  <1> DEFINE k == ClicksFor(q)
  <1>1. k \in SUBSET Requests /\ req[t] \in Requests
    BY DEF ClicksFor, Clicks, QueriesInv, LogInv, LogTyped, RequestsKnown
  <1>2. freq[q] \in Nat /\ freq'[q] \in Nat
    BY DEF QueriesInv, LogInv, LogTyped
  <1>3. /\ Counting(k) \in SUBSET Threads
        /\ Counting(k)' \in SUBSET (Counting(k) \ {t})
    BY DEF Counting, IncrementQuery, Goto, QueriesInv, LogInv, LogTyped, RequestsKnown
  <1>4. freq'[q] = freq[q] \/ (freq'[q] = freq[q] + 1 /\ req[t].query = q)
    BY DEF IncrementQuery, QueriesInv, LogInv, LogTyped
  <1>5. CASE freq'[q] = freq[q]
    BY <1>3, <1>5, QueryKept
  <1>6. CASE freq'[q] = freq[q] + 1 /\ req[t] \in k
    <2>1. t \in Counting(k)
      BY <1>6 DEF Counting, IncrementQuery
    <2>2. Covered(freq[q], Counting(k), Handled(k)) /\ IsFiniteSet(Handled(k))
      BY <1>1 DEF QueriesInv, QueriesBacked, QueryBacked, LogInv, LogFinite
    <2>3. Cardinality(Handled(k)) \in Nat /\ Handled(k)' = Handled(k)
      BY <2>2, FS_CardinalityType DEF IncrementQuery, Handled
    <2>4. Covered(freq'[q], Counting(k)', Handled(k))
      <3> HIDE DEF k
      <3>1. freq'[q] <= freq[q] + 1
        BY <1>2, <1>6
      <3> QED BY <1>2, <1>3, <2>1, <2>2, <2>3, <3>1, CoveredMove
    <2> QED BY <2>3, <2>4 DEF QueryBacked
  <1>7. req[t].query = q => req[t] \in k
    BY <1>1 DEF ClicksFor, Clicks, QueriesInv, CountsClicks, IncrementQuery
  <1> QED BY <1>4, <1>5, <1>6, <1>7

LEMMA CountsClicksNext ==
    ASSUME QueriesInv, RequestsKnown', [Next]_vars
    PROVE  CountsClicks'
  <1> USE DEF CountsClicks, QueriesInv, LogInv, LogTyped
  <1>1. ASSUME NEW t \in Threads, NEW where, Goto(t, where),
               where = "query" => req[t].type = "click"
        PROVE  CountsClicks'
    BY <1>1 DEF Goto, RequestsKnown
  <1>2. ASSUME NEW t \in Threads, Handle(t) PROVE CountsClicks'
    <2>1. /\ AfterProfile(req[t]) = "query" => req[t].type = "click"
          /\ AfterReport(req[t]) = "query" => req[t].type = "click"
      BY DEF AfterReport, AfterProfile, Counted
    <2>2. CASE WriteEvent(t) \/ OpenProfile(t) \/ RecordBack(t)
      BY <1>1, <2>2 DEF WriteEvent, OpenProfile, RecordBack
    <2>3. CASE ReportEvent(t) \/ WriteProfile(t)
      BY <1>1, <2>1, <2>3 DEF ReportEvent, WriteProfile
    <2>4. CASE IncrementQuery(t)
      <3>1. (IF Chained(req[t]) THEN "swap" ELSE "idle") # "query"
        OBVIOUS
      <3> QED BY <1>1, <2>4, <3>1 DEF IncrementQuery
    <2>5. CASE LoadAndUpdate(t) \/ SwapLastClick(t) \/ RecordForth(t)
      BY <2>5 DEF LoadAndUpdate, SwapLastClick, RecordForth, RequestsKnown
    <2> QED BY <1>2, <2>2, <2>3, <2>4, <2>5 DEF Handle
  <1>3. ASSUME NEW t \in Threads, NEW r \in Requests, Begin(t, r) PROVE CountsClicks'
    BY <1>3 DEF Begin, RequestsKnown
  <1>4. ASSUME NEW r \in Requests, Impression(r.biz) PROVE CountsClicks'
    BY <1>4 DEF Impression
  <1>5. CASE Start \/ ServerReturns \/ StopStore \/ Exit \/ Flush
    BY <1>5 DEF Start, ServerReturns, StopStore, Exit, Flush, handlerVars
  <1>6. CASE Crash
    BY <1>6 DEF Crash
  <1>7. CASE Done \/ UNCHANGED vars
    BY <1>7 DEF Done, vars, handlerVars
  <1> QED BY <1>2, <1>3, <1>4, <1>5, <1>6, <1>7 DEF Next

LEMMA QueriesNextInv == QueriesInv /\ [Next]_vars => QueriesInv'
  <1> SUFFICES ASSUME QueriesInv, [Next]_vars PROVE QueriesInv'
    OBVIOUS
  <1>1. LogInv' /\ CountsClicks'
    BY LogNextInv, CountsClicksNext DEF QueriesInv, LogInv, LogTyped
  <1> SUFFICES ASSUME NEW q \in Queries PROVE QueryBacked(q)'
    BY <1>1 DEF QueriesInv, QueriesBacked
  <1> DEFINE k == ClicksFor(q)
             at == {"report", "load", "open", "write", "query"}
  <1>2. ASSUME UNCHANGED freq, Counting(k)' \subseteq Counting(k)
        PROVE  QueryBacked(q)'
    BY <1>1, <1>2, QueryKept
  <1>3. ASSUME NEW t \in Threads, NEW where, Goto(t, where), UNCHANGED freq,
               where \in at => pc[t] \in at
        PROVE  QueryBacked(q)'
    <2>1. Counting(k)' \subseteq Counting(k)
      BY <1>3 DEF Counting, Goto, QueriesInv, LogInv, LogTyped, RequestsKnown
    <2> QED BY <1>2, <1>3, <2>1
  <1>4. ASSUME NEW t \in Threads, Handle(t) PROVE QueryBacked(q)'
    <2>1. CASE WriteEvent(t)
      BY <1>1, <2>1, QueryLogged
    <2>2. CASE ReportEvent(t) \/ OpenProfile(t) \/ WriteProfile(t)
      BY <1>3, <2>2 DEF ReportEvent, OpenProfile, WriteProfile
    <2>3. CASE LoadAndUpdate(t)
      <3>1. Counting(k)' \subseteq Counting(k) /\ UNCHANGED freq
        BY <2>3 DEF LoadAndUpdate, Counting, QueriesInv, LogInv, LogTyped
      <3> QED BY <1>2, <3>1
    <2>4. CASE IncrementQuery(t)
      BY <1>1, <2>4, QueryCounted
    <2>5. CASE SwapLastClick(t)
      <3>1. Counting(k)' \subseteq Counting(k) /\ UNCHANGED freq
        BY <2>5 DEF SwapLastClick, Counting, QueriesInv, LogInv, LogTyped, RequestsKnown
      <3> QED BY <1>2, <3>1
    <2>6. CASE RecordForth(t)
      <3>1. Counting(k)' \subseteq Counting(k) /\ UNCHANGED freq
        BY <2>6 DEF RecordForth, Counting, QueriesInv, LogInv, LogTyped
      <3> QED BY <1>2, <3>1
    <2>7. CASE RecordBack(t)
      BY <1>3, <2>7 DEF RecordBack
    <2> QED BY <1>4, <2>1, <2>2, <2>3, <2>4, <2>5, <2>6, <2>7 DEF Handle
  <1>5. ASSUME NEW t \in Threads, NEW r \in Requests, Begin(t, r) PROVE QueryBacked(q)'
    <2>1. Counting(k)' \subseteq Counting(k) /\ UNCHANGED freq
      BY <1>5 DEF Begin, Counting, QueriesInv, LogInv, LogTyped, RequestsKnown
    <2> QED BY <1>2, <2>1
  <1>6. ASSUME NEW r \in Requests, Impression(r.biz) PROVE QueryBacked(q)'
    <2>1. Counting(k)' = Counting(k) /\ UNCHANGED freq
      BY <1>6 DEF Impression, Counting
    <2> QED BY <1>2, <2>1
  <1>7. CASE Start \/ ServerReturns \/ StopStore \/ Exit \/ Flush
    <2>1. Counting(k)' = Counting(k) /\ UNCHANGED freq
      BY <1>7 DEF Start, ServerReturns, StopStore, Exit, Flush, handlerVars, Counting
    <2> QED BY <1>2, <2>1
  <1>8. CASE Crash
    <2>1. Counting(k)' = {} /\ UNCHANGED freq
      BY <1>8 DEF Crash, Counting
    <2> QED BY <1>2, <2>1
  <1>9. CASE Done \/ UNCHANGED vars
    <2>1. Counting(k)' = Counting(k) /\ UNCHANGED freq
      BY <1>9 DEF Done, vars, handlerVars, Counting
    <2> QED BY <1>2, <2>1
  <1> QED BY <1>4, <1>5, <1>6, <1>7, <1>8, <1>9 DEF Next

-----------------------------------------------------------------------------
\* Threads past the log handle an event that is in it, and so do the last
\* clicks; two documents are only counted together when both were clicked by
\* the user.
LoggedFirst ==
    \A t \in Threads : \A r \in Requests :
        pc[t] \notin {"idle", "log"} /\ req[t] = r => Handled({r}) # {}

ChainBacked ==
    /\ \A t \in Threads : pc[t] \in {"swap", "first", "second"} => Chained(req[t])
    /\ \A u \in Uids : \A d \in Docs : u \in DOMAIN lastClick /\ lastClick[u] = d => Clicked(u, d)
    /\ \A t \in Threads : \A u \in Uids : \A d \in Docs :
          pc[t] \in {"first", "second"} /\ req[t].uid = u /\ last[t] = d =>
              d # req[t].doc /\ Clicked(u, d)
    /\ \A p \in Docs \X Docs : pairs[p] > 0 =>
          p[1] # p[2] /\ \E u \in Uids : Clicked(u, p[1]) /\ Clicked(u, p[2])

ChainInv == LogTyped /\ LoggedFirst /\ ChainBacked

LEMMA ClickedStays ==
    ASSUME LogTyped, [Next]_vars, NEW u, NEW d, Clicked(u, d)
    PROVE  Clicked(u, d)'
  <1>1. {r \in Clicks : r.uid = u /\ r.doc = d} \in SUBSET Requests
    BY DEF Clicks
  <1> QED BY <1>1, LogGrows DEF Clicked

LEMMA ClickedByThread ==
    ASSUME NEW r \in Requests, Handled({r}) # {}, r.type = "click"
    PROVE  Clicked(r.uid, r.doc)
  <1>1. {r} \subseteq {s \in Clicks : s.uid = r.uid /\ s.doc = r.doc}
    BY DEF Clicks
  <1> QED BY <1>1, WrittenMore DEF Clicked

\* A step after which the threads past the log are the same, or have just
\* been logged.
LEMMA LoggedStays ==
    ASSUME ChainInv, [Next]_vars,
           \A t \in Threads : \A r \in Requests :
              pc'[t] \notin {"idle", "log"} /\ req'[t] = r =>
                 req[t] = r /\ (pc[t] \notin {"idle", "log"} \/ Handled({r})' # {})
    PROVE  LoggedFirst'
  <1> SUFFICES ASSUME NEW t \in Threads, NEW r \in Requests,
                      pc'[t] \notin {"idle", "log"}, req'[t] = r
               PROVE  Handled({r})' # {}
    BY DEF LoggedFirst
  <1>1. CASE pc[t] \notin {"idle", "log"}
    <2>1. Handled({r}) # {}
      BY <1>1 DEF ChainInv, LoggedFirst
    <2>2. {r} \in SUBSET Requests
      OBVIOUS
    <2>3. Handled({r}) \subseteq Handled({r})'
      BY <2>2, LogGrows DEF ChainInv
    <2> QED BY <2>1, <2>3
  <1> QED BY <1>1

\* A step that counts no pair and remembers no click.
LEMMA ChainKept ==
    ASSUME ChainInv, LogTyped', LoggedFirst', [Next]_vars, UNCHANGED pairs,
           lastClick' \in {lastClick, <<>>},
           \A t \in Threads : pc'[t] = "swap" => Chained(req'[t]),
           \A t \in Threads : pc'[t] \in {"first", "second"} =>
              pc[t] \in {"first", "second"} /\ last'[t] = last[t] /\ req'[t] = req[t]
    PROVE  ChainInv'
  <1>1. ASSUME NEW u, NEW d, Clicked(u, d) PROVE Clicked(u, d)'
    BY <1>1, ClickedStays DEF ChainInv
  <1>2. \A t \in Threads : pc'[t] \in {"swap", "first", "second"} => Chained(req'[t])
    BY DEF ChainInv, ChainBacked
  <1>3. ASSUME NEW u \in Uids, NEW d \in Docs, u \in DOMAIN lastClick', lastClick'[u] = d
        PROVE  Clicked(u, d)'
    <2>1. lastClick' = lastClick
      BY <1>3
    <2> QED BY <1>1, <1>3, <2>1 DEF ChainInv, ChainBacked
  <1>4. ASSUME NEW t \in Threads, NEW u \in Uids, NEW d \in Docs,
               pc'[t] \in {"first", "second"}, req'[t].uid = u, last'[t] = d
        PROVE  d # req'[t].doc /\ Clicked(u, d)'
    <2>1. pc[t] \in {"first", "second"} /\ last'[t] = last[t] /\ req'[t] = req[t]
      BY <1>4
    <2>2. d # req[t].doc /\ Clicked(u, d)
      BY <1>4, <2>1 DEF ChainInv, ChainBacked
    <2> QED BY <1>1, <2>1, <2>2
  <1>5. ASSUME NEW p \in Docs \X Docs, pairs'[p] > 0
        PROVE  p[1] # p[2] /\ \E u \in Uids : Clicked(u, p[1])' /\ Clicked(u, p[2])'
    BY <1>1, <1>5 DEF ChainInv, ChainBacked
  <1>6. ChainBacked'
    BY <1>2, <1>3, <1>4, <1>5 DEF ChainBacked
  <1> QED BY <1>6 DEF ChainInv

\* The last click is replaced; the one before is the thread's.
LEMMA ChainSwap ==
    ASSUME ChainInv, LogTyped', [Next]_vars, NEW t \in Threads, SwapLastClick(t)
    PROVE  ChainInv'
  <1> DEFINE r == req[t]
             kept == IF Cardinality(DOMAIN lastClick) > LastClickCap THEN <<>> ELSE lastClick
             before == IF r.uid \in DOMAIN kept THEN kept[r.uid] ELSE NoName
  <1>1. /\ pc[t] = "swap" /\ r \in Requests /\ Chained(r)
        /\ UNCHANGED pairs
        /\ lastClick' = [x \in DOMAIN kept \union {r.uid} |-> IF x = r.uid THEN r.doc ELSE kept[x]]
        /\ pc'[t] \in {"idle", "first"}
        /\ pc'[t] = "first" => /\ req'[t] = r /\ last'[t] = before
                               /\ before # NoName /\ before # r.doc
        /\ \A s \in Threads : s # t => pc'[s] = pc[s] /\ req'[s] = req[s] /\ last'[s] = last[s]
    BY DEF SwapLastClick, ChainInv, ChainBacked, LogTyped, RequestsKnown
  <1>2. ASSUME NEW u, NEW d, Clicked(u, d) PROVE Clicked(u, d)'
    BY <1>2, ClickedStays DEF ChainInv
  <1>3. LoggedFirst'
    BY <1>1, LoggedStays
  <1>4. Clicked(r.uid, r.doc)
    <2> HIDE DEF r
    <2>1. Handled({r}) # {} /\ r.type = "click"
      BY <1>1 DEF ChainInv, LoggedFirst, Chained, r
    <2> QED BY <1>1, <2>1, ClickedByThread
  <1>5. \A s \in Threads : pc'[s] \in {"swap", "first", "second"} => Chained(req'[s])
    BY <1>1 DEF ChainInv, ChainBacked
  <1>6. ASSUME NEW u \in Uids, NEW d \in Docs, u \in DOMAIN kept, kept[u] = d
        PROVE  Clicked(u, d)
    <2>1. kept = lastClick
      BY <1>6
    <2> HIDE DEF kept
    <2> QED BY <1>6, <2>1 DEF ChainInv, ChainBacked
  <1>7. ASSUME NEW u \in Uids, NEW d \in Docs, u \in DOMAIN lastClick', lastClick'[u] = d
        PROVE  Clicked(u, d)'
    <2> HIDE DEF kept
    <2>1. CASE u = r.uid
      <3>1. d = r.doc
        BY <1>1, <1>7, <2>1
      <3>2. Clicked(u, d)
        BY <1>4, <2>1, <3>1
      <3> QED BY <1>2, <3>2
    <2>2. CASE u # r.uid
      <3>1. u \in DOMAIN kept /\ kept[u] = d
        BY <1>1, <1>7, <2>2
      <3> QED BY <1>2, <1>6, <3>1
    <2> QED BY <2>1, <2>2
  <1>8. ASSUME NEW s \in Threads, NEW u \in Uids, NEW d \in Docs,
               pc'[s] \in {"first", "second"}, req'[s].uid = u, last'[s] = d
        PROVE  d # req'[s].doc /\ Clicked(u, d)'
    <2>1. CASE s = t
      <3>1. /\ req'[s] = r /\ u = r.uid /\ d = before /\ before # NoName /\ before # r.doc
        BY <1>1, <1>8, <2>1
      <3>2. u \in DOMAIN kept /\ kept[u] = d
        <4> HIDE DEF kept
        <4> QED BY <3>1
      <3>3. Clicked(u, d)
        BY <1>6, <3>2
      <3> QED BY <1>2, <3>1, <3>3
    <2>2. CASE s # t
      <3>1. d # req[s].doc /\ Clicked(u, d) /\ req'[s] = req[s]
        BY <1>1, <1>8, <2>2 DEF ChainInv, ChainBacked
      <3> QED BY <1>2, <3>1
    <2> QED BY <2>1, <2>2
  <1>9. ASSUME NEW p \in Docs \X Docs, pairs'[p] > 0
        PROVE  p[1] # p[2] /\ \E u \in Uids : Clicked(u, p[1])' /\ Clicked(u, p[2])'
    BY <1>1, <1>2, <1>9 DEF ChainInv, ChainBacked
  <1>10. ChainBacked'
    BY <1>5, <1>7, <1>8, <1>9 DEF ChainBacked
  <1> QED BY <1>3, <1>10 DEF ChainInv

\* A pair is counted, in one of its directions.
LEMMA ChainPair ==
    ASSUME ChainInv, LogTyped', [Next]_vars, NEW t \in Threads, RecordForth(t) \/ RecordBack(t)
    PROVE  ChainInv'
  <1> DEFINE r == req[t]
             p1 == <<last[t], r.doc>>
             p2 == <<r.doc, last[t]>>
  <1>1. /\ pc[t] \in {"first", "second"} /\ r \in Requests /\ Chained(r)
        /\ CountPair(p1) \/ CountPair(p2)
        /\ UNCHANGED lastClick
        /\ pc'[t] \in {"idle", "second"}
        /\ pc'[t] = "second" => req'[t] = r /\ last'[t] = last[t]
        /\ \A s \in Threads : s # t => pc'[s] = pc[s] /\ req'[s] = req[s] /\ last'[s] = last[s]
    BY DEF RecordForth, RecordBack, Goto, ChainInv, ChainBacked, LogTyped, RequestsKnown
  <1>2. ASSUME NEW u, NEW d, Clicked(u, d) PROVE Clicked(u, d)'
    BY <1>2, ClickedStays DEF ChainInv
  <1>3. LoggedFirst'
    BY <1>1, LoggedStays
  <1>4. Clicked(r.uid, r.doc) /\ r.uid \in Uids
    <2> HIDE DEF r
    <2>1. Handled({r}) # {} /\ r.type = "click" /\ r.uid # NoName
      BY <1>1 DEF ChainInv, LoggedFirst, Chained, r
    <2> QED BY <1>1, <2>1, ClickedByThread DEF Uids
  <1>5. \A s \in Threads : pc'[s] \in {"swap", "first", "second"} => Chained(req'[s])
    BY <1>1 DEF ChainInv, ChainBacked
  <1>6. ASSUME NEW s \in Threads, NEW u \in Uids, NEW d \in Docs,
               pc'[s] \in {"first", "second"}, req'[s].uid = u, last'[s] = d
        PROVE  d # req'[s].doc /\ Clicked(u, d)'
    <2>1. req'[s] = req[s] /\ last'[s] = last[s] /\ pc[s] \in {"first", "second"}
      BY <1>1, <1>6
    <2>2. d # req[s].doc /\ Clicked(u, d)
      BY <1>6, <2>1 DEF ChainInv, ChainBacked
    <2> QED BY <1>2, <2>1, <2>2
  <1>7. ASSUME NEW p \in Docs \X Docs, pairs'[p] > 0
        PROVE  p[1] # p[2] /\ \E u \in Uids : Clicked(u, p[1])' /\ Clicked(u, p[2])'
    <2>1. CASE pairs'[p] = pairs[p]
      BY <1>2, <1>7, <2>1 DEF ChainInv, ChainBacked
    <2>2. CASE pairs'[p] # pairs[p]
      <3>1. p = p1 \/ p = p2
        BY <1>1, <2>2 DEF CountPair, ChainInv, LogTyped
      <3>2. last[t] \in Docs
        BY <3>1
      <3>3. last[t] # r.doc /\ Clicked(r.uid, last[t])
        BY <1>1, <1>4, <3>2 DEF ChainInv, ChainBacked
      <3>4. PICK u \in Uids : u = r.uid
        BY <1>4
      <3>5. p[1] # p[2] /\ Clicked(u, p[1]) /\ Clicked(u, p[2])
        BY <1>4, <3>1, <3>3, <3>4
      <3> QED BY <1>2, <3>5
    <2> QED BY <2>1, <2>2
  <1>8. ASSUME NEW u \in Uids, NEW d \in Docs, u \in DOMAIN lastClick', lastClick'[u] = d
        PROVE  Clicked(u, d)'
    BY <1>1, <1>2, <1>8 DEF ChainInv, ChainBacked
  <1>9. ChainBacked'
    BY <1>5, <1>6, <1>7, <1>8 DEF ChainBacked
  <1> QED BY <1>3, <1>9 DEF ChainInv

LEMMA ChainNextInv == ChainInv /\ [Next]_vars => ChainInv'
  <1> SUFFICES ASSUME ChainInv, [Next]_vars PROVE ChainInv'
    OBVIOUS
  <1>0. LogTyped'
    BY LogTypedNext DEF ChainInv
  <1>1. ASSUME NEW t \in Threads, NEW where, Goto(t, where), UNCHANGED <<pairs, lastClick>>,
               pc[t] \notin {"idle", "log"}, where \notin {"first", "second"},
               where = "swap" => Chained(req[t])
        PROVE  ChainInv'
    <2>1. LoggedFirst'
      BY <1>1, LoggedStays DEF Goto, ChainInv, LogTyped, RequestsKnown
    <2>2. \A s \in Threads : pc'[s] = "swap" => Chained(req'[s])
      BY <1>1 DEF Goto, ChainInv, ChainBacked, LogTyped, RequestsKnown
    <2>3. \A s \in Threads : pc'[s] \in {"first", "second"} =>
             pc[s] \in {"first", "second"} /\ last'[s] = last[s] /\ req'[s] = req[s]
      BY <1>1 DEF Goto, ChainInv, LogTyped, RequestsKnown
    <2> QED BY <1>0, <1>1, <2>1, <2>2, <2>3, ChainKept
  <1>2. ASSUME UNCHANGED <<pc, last, req, pairs>>, lastClick' \in {lastClick, <<>>}
        PROVE  ChainInv'
    <2>1. LoggedFirst'
      BY <1>2, LoggedStays
    <2>2. \A s \in Threads : pc'[s] = "swap" => Chained(req'[s])
      BY <1>2 DEF ChainInv, ChainBacked
    <2> QED BY <1>0, <1>2, <2>1, <2>2, ChainKept
  <1>3. ASSUME NEW t \in Threads, Handle(t) PROVE ChainInv'
    <2>0. /\ AfterProfile(req[t]) \notin {"first", "second"}
          /\ AfterReport(req[t]) \notin {"first", "second"}
          /\ AfterProfile(req[t]) = "swap" => Chained(req[t])
          /\ AfterReport(req[t]) = "swap" => Chained(req[t])
      BY DEF AfterReport, AfterProfile
    <2>1. CASE WriteEvent(t)
      <3>1. req[t] \in Requests
        BY DEF ChainInv, LogTyped, RequestsKnown
      <3>2. ASSUME NEW r \in Requests, req[t] = r PROVE Handled({r})' # {}
        <4>1. {r} \in SUBSET Requests
          OBVIOUS
        <4> QED BY <2>1, <3>2, <4>1, HandledGrows DEF ChainInv
      <3>3. LoggedFirst'
        BY <2>1, <3>2, LoggedStays DEF WriteEvent, Goto, ChainInv, LogTyped, RequestsKnown
      <3>4. \A s \in Threads : pc'[s] = "swap" => Chained(req'[s])
        BY <2>1 DEF WriteEvent, Goto, ChainInv, ChainBacked, LogTyped, RequestsKnown
      <3>5. \A s \in Threads : pc'[s] \in {"first", "second"} =>
               pc[s] \in {"first", "second"} /\ last'[s] = last[s] /\ req'[s] = req[s]
        BY <2>1 DEF WriteEvent, Goto, ChainInv, LogTyped, RequestsKnown
      <3>6. UNCHANGED <<pairs, lastClick>>
        BY <2>1 DEF WriteEvent
      <3> QED BY <1>0, <3>3, <3>4, <3>5, <3>6, ChainKept
    <2>2. CASE ReportEvent(t)
      BY <1>1, <2>0, <2>2 DEF ReportEvent
    <2>3. CASE LoadAndUpdate(t)
      <3>1. /\ pc[t] = "load" /\ pc'[t] = "open" /\ UNCHANGED <<req, last, pairs, lastClick>>
            /\ \A s \in Threads : s # t => pc'[s] = pc[s]
        BY <2>3 DEF LoadAndUpdate, ChainInv, LogTyped
      <3>2. LoggedFirst'
        BY <3>1, LoggedStays
      <3>3. \A s \in Threads : pc'[s] = "swap" => Chained(req'[s])
        BY <3>1 DEF ChainInv, ChainBacked
      <3> QED BY <1>0, <3>1, <3>2, <3>3, ChainKept
    <2>4. CASE OpenProfile(t)
      BY <1>1, <2>4 DEF OpenProfile
    <2>5. CASE WriteProfile(t)
      BY <1>1, <2>0, <2>5 DEF WriteProfile
    <2>6. CASE IncrementQuery(t)
      <3>1. /\ (IF Chained(req[t]) THEN "swap" ELSE "idle") \notin {"first", "second"}
            /\ (IF Chained(req[t]) THEN "swap" ELSE "idle") = "swap" => Chained(req[t])
        OBVIOUS
      <3> QED BY <1>1, <2>6, <3>1 DEF IncrementQuery
    <2>7. CASE SwapLastClick(t)
      BY <1>0, <2>7, ChainSwap
    <2>8. CASE RecordForth(t) \/ RecordBack(t)
      BY <1>0, <2>8, ChainPair
    <2> QED BY <1>3, <2>1, <2>2, <2>3, <2>4, <2>5, <2>6, <2>7, <2>8 DEF Handle
  <1>4. ASSUME NEW t \in Threads, NEW r \in Requests, Begin(t, r) PROVE ChainInv'
    <2>1. /\ pc'[t] = "log" /\ UNCHANGED <<last, pairs, lastClick>>
          /\ \A s \in Threads : s # t => pc'[s] = pc[s] /\ req'[s] = req[s]
      BY <1>4 DEF Begin, ChainInv, LogTyped, RequestsKnown
    <2>2. LoggedFirst'
      BY <2>1, LoggedStays
    <2>3. \A s \in Threads : pc'[s] = "swap" => Chained(req'[s])
      BY <2>1 DEF ChainInv, ChainBacked
    <2> QED BY <1>0, <2>1, <2>2, <2>3, ChainKept
  <1>5. ASSUME NEW r \in Requests, Impression(r.biz) PROVE ChainInv'
    BY <1>2, <1>5 DEF Impression
  <1>6. CASE Start \/ ServerReturns \/ StopStore \/ Exit \/ Flush
    BY <1>2, <1>6 DEF Start, ServerReturns, StopStore, Exit, Flush, handlerVars
  <1>7. CASE Crash
    <2>1. (\A t \in Threads : pc'[t] = "idle") /\ UNCHANGED pairs /\ lastClick' = <<>>
      BY <1>7 DEF Crash
    <2>2. LoggedFirst'
      BY <2>1 DEF LoggedFirst
    <2> QED BY <1>0, <2>1, <2>2, ChainKept
  <1>8. CASE Done \/ UNCHANGED vars
    BY <1>2, <1>8 DEF Done, vars, handlerVars
  <1> QED BY <1>3, <1>4, <1>5, <1>6, <1>7, <1>8 DEF Next

-----------------------------------------------------------------------------
CountsInv == SeriesInv /\ QueriesInv /\ ChainInv

LEMMA CountsInitInv == Init => CountsInv
  <1> SUFFICES ASSUME Init PROVE CountsInv
    OBVIOUS
  <1>1. LogInv /\ StoreInv
    BY LogInitInv, StoreInitInv DEF Init
  <1>2. \A t \in Threads : pc[t] = "idle"
    BY DEF Init
  <1>3. Cardinality({}) = 0 /\ \A kinds \in SUBSET Requests : Cardinality(Handled(kinds)) \in Nat
    BY <1>1, FS_EmptySet, FS_CardinalityType DEF LogInv, LogFinite
  <1>4. ASSUME NEW biz \in Bizs PROVE SeriesBackedFor(biz)
    <2>1. Reporting(ClicksIn(biz)) = {} /\ ClicksIn(biz) \in SUBSET Requests
      BY <1>2 DEF Reporting, ClicksIn, Clicks
    <2>2. Count(accepted, ClickOf(biz)) = 0
      BY CountEmpty DEF Init, StoreInit
    <2> QED BY <1>3, <2>1, <2>2 DEF SeriesBackedFor, Covered
  <1>5. ASSUME NEW q \in Queries PROVE QueryBacked(q)
    <2>1. Counting(ClicksFor(q)) = {} /\ ClicksFor(q) \in SUBSET Requests
      BY <1>2 DEF Counting, ClicksFor, Clicks
    <2>2. freq[q] = 0
      BY DEF Init
    <2> QED BY <1>3, <2>1, <2>2 DEF QueryBacked, Covered
  <1>6. LoggedFirst /\ ChainBacked /\ CountsClicks
    BY <1>2 DEF Init, LoggedFirst, ChainBacked, CountsClicks
  <1> QED
    BY <1>1, <1>4, <1>5, <1>6
    DEF CountsInv, SeriesInv, SeriesBacked, QueriesInv, QueriesBacked, ChainInv, LogInv

\* What the dashboard and the suggestions count are events that came in:
\* however handlers, the flush thread, failing statements and crashes
\* interleave, the clicks of a business and the uses of a query exceed the
\* clicks in the event log by the clicks whose WriteEvent failed at most, and
\* two documents have a co-occurrence only when some user clicked both.
\* (event_handler.cpp 238-297; report_store.cpp 64-180.)
THEOREM CountsStayWithinEvents == Spec => []CountsWithinEvents
  <1>1. CountsInv => CountsWithinEvents
    <2> SUFFICES ASSUME CountsInv PROVE CountsWithinEvents
      OBVIOUS
    <2>0. LogFinite
      BY DEF CountsInv, SeriesInv, LogInv
    <2>1. ASSUME NEW biz \in Bizs
          PROVE  QueryTimeSeries(biz).clicks <= Cardinality(Handled(ClicksIn(biz)))
      <3> DEFINE e == ClickOf(biz)
                 seen == rows \o txn
      <3>1. QueryTimeSeries(biz).clicks = Cardinality({i \in DOMAIN seen : accepted[seen[i]] = e})
        BY DEF QueryTimeSeries, ClickOf
      <3>2. /\ rows \in Seq(Nat) /\ txn \in Seq(Nat) /\ accepted \in Seq(Events)
            /\ Increasing(rows) /\ Increasing(txn) /\ Before(Entries(rows), Entries(txn))
            /\ Entries(rows) \union Entries(txn) \subseteq DOMAIN accepted
        BY DEF CountsInv, SeriesInv, StoreInv, StoreTypeOK, LedgerParts, Arranged, HeldEntries
      <3>3. /\ Cardinality({i \in DOMAIN seen : accepted[seen[i]] = e}) <= Count(accepted, e)
            /\ Cardinality({i \in DOMAIN seen : accepted[seen[i]] = e}) \in Nat
            /\ Count(accepted, e) \in Nat
        <4>1. seen \in Seq(Nat) /\ Entries(seen) \subseteq DOMAIN accepted /\ Increasing(seen)
          BY <3>2, EntriesConcat, IncreasingConcat, ConcatProperties
        <4> HIDE DEF e, seen
        <4>2. IsFiniteSet({i \in DOMAIN seen : accepted[seen[i]] = e})
          <5>1. {i \in DOMAIN seen : accepted[seen[i]] = e} \subseteq 1..Len(seen)
            BY <4>1
          <5>2. IsFiniteSet(1..Len(seen))
            BY <4>1, LenProperties, FS_Interval
          <5> QED BY <5>1, <5>2, FS_Subset
        <4> QED BY <3>2, <4>1, <4>2, CountAtMost, CountType, FS_CardinalityType
      <3>4. Covered(Count(accepted, e), Reporting(ClicksIn(biz)), Handled(ClicksIn(biz)))
        BY DEF CountsInv, SeriesInv, SeriesBacked, SeriesBackedFor
      <3>5. Cardinality(Reporting(ClicksIn(biz))) \in Nat
        BY ThreadSets DEF Reporting
      <3>6. Cardinality(Handled(ClicksIn(biz))) \in Nat
        BY <2>0, FS_CardinalityType DEF LogFinite, ClicksIn, Clicks
      <3> DEFINE n == Cardinality({i \in DOMAIN seen : accepted[seen[i]] = e})
      <3>7. QueryTimeSeries(biz).clicks = n /\ n <= Count(accepted, e) /\ n \in Nat
        BY <3>1, <3>3
      <3> HIDE DEF e, n
      <3> QED BY <3>3, <3>4, <3>5, <3>6, <3>7 DEF Covered
    <2>2. ASSUME NEW q \in Queries PROVE freq[q] <= Cardinality(Handled(ClicksFor(q)))
      <3>1. Covered(freq[q], Counting(ClicksFor(q)), Handled(ClicksFor(q)))
        BY DEF CountsInv, QueriesInv, QueriesBacked, QueryBacked
      <3>2. Cardinality(Counting(ClicksFor(q))) \in Nat
        BY ThreadSets DEF Counting
      <3>3. Cardinality(Handled(ClicksFor(q))) \in Nat
        BY <2>0, FS_CardinalityType DEF LogFinite, ClicksFor, Clicks
      <3>4. freq[q] \in Nat
        BY DEF CountsInv, QueriesInv, LogInv, LogTyped
      <3> QED BY <3>1, <3>2, <3>3, <3>4 DEF Covered
    <2>3. \A p \in Docs \X Docs : pairs[p] > 0 =>
             p[1] # p[2] /\ \E u \in Uids : Clicked(u, p[1]) /\ Clicked(u, p[2])
      BY DEF CountsInv, ChainInv, ChainBacked
    <2> QED BY <2>1, <2>2, <2>3 DEF CountsWithinEvents, Bizs, ClicksIn, ClicksFor
  <1>2. CountsInv /\ [Next]_vars => CountsInv'
    BY SeriesNextInv, QueriesNextInv, ChainNextInv DEF CountsInv
  <1> QED BY <1>1, <1>2, CountsInitInv, PTL DEF Spec
=============================================================================
