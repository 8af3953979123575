-------------------------- MODULE DocCorpusProofs --------------------------
(***************************************************************************)
(* TLAPS proofs about the documents and their indexes, for any sets of     *)
(* documents, clients and rebuild threads and any number of requests,      *)
(* rebuilds and crashes.                                                   *)
(***************************************************************************)
EXTENDS DocCorpus, TLAPS

-----------------------------------------------------------------------------
(* Where the threads are, and what that says of the mutex, the request and *)
(* the index object of each.                                               *)

Saving == {"save", "write", "rename", "vsave", "vwrite", "saved"}
Adding == {"put", "inv", "vec"} \union Saving
Making == {"provider", "read"}
Importing == {"import", "store"}

\* A client that adds holds the mutex, so that no rebuild switches the index.
ClientAt(c) ==
    \/ pc[c] = "idle" /\ mutex # c /\ req[c] = NoRequest
    \/ /\ pc[c] \in Adding /\ mutex = c /\ obj[c] = active
       /\ req[c].op = "add" /\ req[c].doc \in Docs /\ req[c].content \in Contents
    \/ /\ pc[c] \in {"get", "remove"} /\ mutex # c
       /\ req[c].op = "delete" /\ req[c].doc \in Docs /\ req[c].content = None
       /\ pc[c] = "remove" => obj[c] # 0

RebuilderAt(b) == pc[b] = "idle" \/ (pc[b] \in Making \union Saving /\ obj[b] # 0)

MainAt ==
    /\ pc[Main] \in {"boot", "up"} \union Importing \union Saving
    /\ pc[Main] = "boot" => heap = <<>>
    /\ pc[Main] # "boot" => active # 0
    /\ pc[Main] \in Importing \union Saving => obj[Main] = active
    /\ ~Up => /\ \A t \in Threads \ {Main} : pc[t] = "idle"
              /\ active = Len(heap) /\ Len(heap) \in {0, 1} /\ recall = 0

Control ==
    /\ \A c \in Clients : ClientAt(c)
    /\ \A b \in Rebuilders : RebuilderAt(b)
    /\ MainAt

\* The files are records, for EXCEPT.
FileShape(f) == DOMAIN f = {"kind", "open", "data", "taint"}
Shapes == FileShape(tmpFile) /\ FileShape(invFile) /\ FileShape(vecFile)

TypeInv == TypeOK /\ Shapes /\ Control

-----------------------------------------------------------------------------
(* As long as no two calls of Save overlap, the temporary file belongs to  *)
(* the one that is between its opening and its renaming.                   *)

Between(t) == pc[t] \in {"write", "rename"}

AloneInv ==
    ~overlapped =>
        /\ invFile.kind \in {"none", "whole"} /\ invFile.open = {}
        /\ \A t \in Threads :
             /\ pc[t] = "write" => tmpFile.kind = "partial" /\ tmpFile.open = {t}
             /\ pc[t] = "rename" => tmpFile.kind = "whole" /\ tmpFile.open = {}
             /\ Between(t) => \A u \in Threads \ {t} : ~Between(u)
        /\ (\A t \in Threads : ~Between(t)) => tmpFile.open = {}

-----------------------------------------------------------------------------
(* What the index objects and the files hold, on the documents that are    *)
(* not in doubt.                                                           *)

\* The documents that a rebuild has still to read into object o.
Unread(o, d) == \E b \in Rebuilders : pc[b] \in Making /\ obj[b] = o /\ d \in ids[b] /\ db[d] # None

\* Nobody writes an object that is being made but the thread that makes it.
MakersApart ==
    \A b \in Rebuilders : pc[b] \in Making =>
        /\ obj[b] # active
        /\ \A a \in Rebuilders \ {b} : obj[a] # obj[b]

ObjectsAgree ==
    \A o \in DOMAIN heap : \A d \in Docs \ taint[o] :
        /\ o # active => InFlight(d) = {}
        /\ InFlight(d) = {} => Agree(o, d) \/ Unread(o, d)

\* How far a request has taken the active index and docs.db, step by step.
Progress(c, d) ==
    /\ InFlight(d) = {c}
    /\ pc[c] \in {"put"} \union Saving => Agree(active, d)
    /\ pc[c] \in {"inv", "vec"} => db[d] = req[c].content
    /\ pc[c] = "vec" => heap[active].inv[d] = req[c].content
    /\ pc[c] \in {"get", "remove"} => db[d] = None
    /\ pc[c] = "remove" => obj[c] = active

RequestsAgree ==
    \A c \in Clients : \A d \in Docs : req[c].doc = d /\ d \notin taint[active] => Progress(c, d)

MemoryInv == MakersApart /\ ObjectsAgree /\ RequestsAgree

\* The import stores the one document that it has just indexed.
ImportInv ==
    /\ pc[Main] = "import" => ids[Main] \intersect heap[active].vec = {}
    /\ pc[Main] = "store" =>
         \E d \in Docs : /\ ids[Main] \intersect heap[active].vec = {d}
                        /\ heap[active].inv[d] = Sample[d]

\* A file that is not whole is in doubt about everything, and stays so until
\* the last of its writers has closed it.
Damage(f) ==
    /\ f.open # {} => f.kind \in {"partial", "mixed"}
    /\ f.kind \in {"partial", "mixed"} => f.taint = Docs

FilesMade ==
    /\ Damage(tmpFile) /\ Damage(invFile) /\ Damage(vecFile)
    /\ vecFile.kind # "none" => invFile.kind # "none"
    /\ \A t \in Threads :
         /\ Between(t) => tmpFile.kind # "none" \/ invFile.kind # "none"
         /\ pc[t] \in {"vsave", "vwrite"} => invFile.kind # "none"
         /\ pc[t] = "vwrite" => t \in vecFile.open
    /\ pc[Main] \in Importing => vecFile.kind # "whole" /\ ids[Main] \subseteq Stored(Sample)

\* No request that is under way has still to change docs.db or the index.
Settled(d) == \A c \in InFlight(d) : pc[c] \in Saving

\* inverted.idx may lack sample documents that were imported into docs.db and
\* not saved: as long as there is no vector.faiss it is not loaded on its own,
\* and it is replaced before vector.faiss is written.
Stale ==
    /\ vecFile.kind # "whole"
    /\ \A t \in Threads : pc[t] \notin {"vsave", "vwrite"} /\ (Between(t) => tmpFile.kind # "none")

FilesAgree ==
    /\ (\E t \in Threads : Between(t)) /\ tmpFile.kind = "whole" =>
         \A d \in Docs \ tmpFile.taint : Settled(d) /\ tmpFile.data[d] = db[d]
    /\ invFile.kind = "whole" =>
         \A d \in Docs \ invFile.taint :
             /\ Settled(d)
             /\ db[d] = None => invFile.data[d] = None
             /\ invFile.data[d] = db[d] \/ Stale
    /\ vecFile.kind = "whole" =>
         \A d \in Docs \ vecFile.taint : Settled(d) /\ (db[d] # None => d \in vecFile.data)

FilesInv == ~RebuildOnStart => FilesMade /\ FilesAgree

CorpusInv == TypeInv /\ MemoryInv /\ ImportInv /\ FilesInv

-----------------------------------------------------------------------------
(* The control invariant, action by action.                                *)

USE DEF Threads, Importing

FileOK(f, data) == FileType(f, data) /\ FileShape(f)

LEMMA FilesOK ==
    ASSUME TypeInv
    PROVE  FileOK(tmpFile, Held) /\ FileOK(invFile, Held) /\ FileOK(vecFile, SUBSET Docs)
  BY DEF TypeInv, TypeOK, Shapes, FileOK

LEMMA TruncatedOK ==
    ASSUME NEW f, NEW data, FileOK(f, data), NEW t \in Threads
    PROVE  FileOK(Truncated(f, t), data)
  BY DEF FileOK, FileType, FileShape, Truncated

LEMMA ClosedOK ==
    ASSUME NEW f, NEW data, FileOK(f, data), NEW t \in Threads, NEW x \in data,
           NEW doubt \in SUBSET Docs
    PROVE  FileOK(Closed(f, t, x, doubt), data)
  BY DEF FileOK, FileType, FileShape, Closed

LEMMA DoubtedOK ==
    ASSUME NEW f, NEW data, FileOK(f, data), NEW d \in Docs
    PROVE  FileOK(Doubted(f, d), data)
  BY DEF FileOK, FileType, FileShape, Doubted

LEMMA AbandonedOK ==
    ASSUME NEW f, NEW data, FileOK(f, data)
    PROVE  FileOK([f EXCEPT !.open = {}], data)
  BY DEF FileOK, FileType, FileShape

LEMMA ElementType ==
    ASSUME NEW S, NEW q \in Seq(S), NEW i \in DOMAIN q
    PROVE  q[i] \in S
  OBVIOUS

LEMMA ElementSet ==
    ASSUME NEW S, NEW q \in Seq(S), NEW i \in DOMAIN q, NEW e \in S
    PROVE  [q EXCEPT ![i] = e] \in Seq(S) /\ Len([q EXCEPT ![i] = e]) = Len(q)
  OBVIOUS

LEMMA ObjectType ==
    ASSUME TypeInv, NEW o \in DOMAIN heap
    PROVE  /\ heap[o] \in [inv : Held, vec : SUBSET Docs]
           /\ heap[o].inv \in Held /\ heap[o].vec \in SUBSET Docs
           /\ taint[o] \in SUBSET Docs
  <1>1. heap \in Seq([inv : Held, vec : SUBSET Docs]) /\ taint \in Seq(SUBSET Docs) /\ Len(taint) = Len(heap)
    BY DEF TypeInv, TypeOK
  <1>2. heap[o] \in [inv : Held, vec : SUBSET Docs]
    BY <1>1, ElementType
  <1>3. taint[o] \in SUBSET Docs
    BY <1>1
  <1> QED BY <1>2, <1>3

LEMMA DoubtType ==
    ASSUME TypeInv, NEW t \in Threads, obj[t] # 0
    PROVE  obj[t] \in DOMAIN heap /\ Doubt(t) \in SUBSET Docs
  <1>1. obj[t] \in DOMAIN heap /\ obj[t] \in DOMAIN taint
    BY DEF TypeInv, TypeOK
  <1>2. taint[obj[t]] \in SUBSET Docs
    BY <1>1 DEF TypeInv, TypeOK
  <1>3. \A c \in Clients : req[c].doc \in Docs \union {None}
    BY DEF TypeInv, TypeOK
  <1> QED BY <1>1, <1>2, <1>3 DEF Doubt

LEMMA NoFileOK == \A data : FileOK(NoFile, data)
  BY DEF FileOK, FileType, FileShape, NoFile

LEMMA TypeInit == Init => TypeInv
  <1> SUFFICES ASSUME Init
               PROVE  TypeInv
    OBVIOUS
  <1>1. FileOK(tmpFile, Held) /\ FileOK(invFile, Held) /\ FileOK(vecFile, SUBSET Docs)
    BY NoFileOK DEF Init
  <1>2. TypeOK
    <2>1. db \in Held /\ req \in [Clients -> [op : {"none", "add", "delete"}, doc : Docs \union {None},
                            content : Contents \union {None}]]
      BY DEF Init, Held, Empty, NoRequest
    <2>2. heap \in Seq([inv : Held, vec : SUBSET Docs]) /\ taint \in Seq(SUBSET Docs) /\ Len(heap) = 0 /\ Len(taint) = 0
      BY DEF Init
    <2>3. obj \in [Threads -> 0..Len(heap)] /\ active \in 0..Len(heap) /\ recall \in 0..Len(heap)
      BY <2>2 DEF Init
    <2>4. pc \in [Threads -> {"boot", "import", "store", "up", "idle", "add", "put", "inv", "vec", "delete", "get",
                            "remove", "provider", "read", "save", "write", "rename", "vsave", "vwrite", "saved"}]
      BY DEF Init
    <2> QED BY <1>1, <2>1, <2>2, <2>3, <2>4 DEF Init, TypeOK, FileOK
  <1>3. Control
    BY NoneAssumption, ThreadsAssumption
    DEF Init, Control, ClientAt, RebuilderAt, MainAt, NoRequest, Up, Saving
  <1> QED BY <1>1, <1>2, <1>3 DEF TypeInv, Shapes, FileOK

LEMMA TypeSaveOpen ==
    ASSUME TypeInv, NEW t \in Threads, SaveOpen(t)
    PROVE  TypeInv'
  <1>1. FileOK(tmpFile', Held)
    BY FilesOK, TruncatedOK DEF SaveOpen
  <1>2. TypeOK' /\ Shapes'
    BY <1>1 DEF TypeInv, TypeOK, Shapes, SaveOpen, memory, counters, Go, FileOK
  <1>3. Control'
    BY ThreadsAssumption DEF TypeInv, TypeOK, Control, ClientAt, RebuilderAt, MainAt, Up,
       SaveOpen, memory, counters, Go, Saving, Adding, Making
  <1> QED BY <1>2, <1>3 DEF TypeInv

LEMMA TypeSaveWrite ==
    ASSUME TypeInv, NEW t \in Threads, SaveWrite(t)
    PROVE  TypeInv'
  <1>1. obj[t] \in DOMAIN heap /\ Doubt(t) \in SUBSET Docs
    <2>1. obj[t] # 0
      BY ThreadsAssumption DEF TypeInv, TypeOK, Control, ClientAt, RebuilderAt, MainAt, Up, SaveWrite,
         Saving, Adding, Making
    <2> QED BY <2>1, DoubtType
  <1>2. heap[obj[t]].inv \in Held
    BY <1>1, ObjectType
  <1>3. FileOK(tmpFile', Held) /\ FileOK(invFile', Held)
    BY <1>1, <1>2, FilesOK, ClosedOK DEF SaveWrite
  <1>4. TypeOK' /\ Shapes'
    BY <1>3 DEF TypeInv, TypeOK, Shapes, SaveWrite, memory, counters, history, Go, FileOK
  <1>5. Control'
    BY ThreadsAssumption DEF TypeInv, TypeOK, Control, ClientAt, RebuilderAt, MainAt, Up,
       SaveWrite, memory, counters, history, Go, Saving, Adding, Making
  <1> QED BY <1>4, <1>5 DEF TypeInv

LEMMA TypeSaveRename ==
    ASSUME TypeInv, NEW t \in Threads, SaveRename(t)
    PROVE  TypeInv'
  <1>1. FileOK(tmpFile', Held) /\ FileOK(invFile', Held)
    BY FilesOK, NoFileOK DEF SaveRename
  <1>2. TypeOK' /\ Shapes'
    BY <1>1 DEF TypeInv, TypeOK, Shapes, SaveRename, memory, counters, history, Go, FileOK
  <1>3. PICK l \in {"vsave", "saved"} : pc' = [pc EXCEPT ![t] = l]
    BY DEF SaveRename, Go
  <1>4. pc[t] = "rename" /\ UNCHANGED <<heap, active, recall, mutex, req, obj>>
    BY DEF SaveRename, memory
  <1>5. Control'
    BY <1>3, <1>4, ThreadsAssumption DEF TypeInv, TypeOK, Control, ClientAt, RebuilderAt, MainAt, Up,
       Saving, Adding, Making
  <1> QED BY <1>2, <1>5 DEF TypeInv

LEMMA TypeVecOpen ==
    ASSUME TypeInv, NEW t \in Threads, VecOpen(t)
    PROVE  TypeInv'
  <1>1. FileOK(vecFile', SUBSET Docs)
    BY FilesOK, TruncatedOK DEF VecOpen
  <1>2. TypeOK' /\ Shapes'
    BY <1>1 DEF TypeInv, TypeOK, Shapes, VecOpen, memory, counters, history, Go, FileOK
  <1>3. Control'
    BY ThreadsAssumption DEF TypeInv, TypeOK, Control, ClientAt, RebuilderAt, MainAt, Up,
       VecOpen, memory, counters, history, Go, Saving, Adding, Making
  <1> QED BY <1>2, <1>3 DEF TypeInv

LEMMA TypeVecWrite ==
    ASSUME TypeInv, NEW t \in Threads, VecWrite(t)
    PROVE  TypeInv'
  <1>1. obj[t] \in DOMAIN heap /\ Doubt(t) \in SUBSET Docs
    <2>1. obj[t] # 0
      BY ThreadsAssumption DEF TypeInv, TypeOK, Control, ClientAt, RebuilderAt, MainAt, Up, VecWrite,
         Saving, Adding, Making
    <2> QED BY <2>1, DoubtType
  <1>2. heap[obj[t]].vec \in SUBSET Docs
    BY <1>1, ObjectType
  <1>3. FileOK(vecFile', SUBSET Docs)
    BY <1>1, <1>2, FilesOK, ClosedOK DEF VecWrite
  <1>4. TypeOK' /\ Shapes'
    BY <1>3 DEF TypeInv, TypeOK, Shapes, VecWrite, memory, counters, history, Go, FileOK
  <1>5. Control'
    BY ThreadsAssumption DEF TypeInv, TypeOK, Control, ClientAt, RebuilderAt, MainAt, Up,
       VecWrite, memory, counters, history, Go, Saving, Adding, Making
  <1> QED BY <1>4, <1>5 DEF TypeInv


LEMMA TypeBootLoad == TypeInv /\ BootLoad => TypeInv'
  <1> SUFFICES ASSUME TypeInv, BootLoad
               PROVE  TypeInv'
    OBVIOUS
  <1>1. PICK inv \in Readings(invFile, Held), vec \in Readings(vecFile, SUBSET Docs) :
             NewObject(inv, vec, invFile.taint \union vecFile.taint)
    BY DEF BootLoad
  <1>2. inv \in Held /\ vec \in SUBSET Docs /\ invFile.taint \union vecFile.taint \in SUBSET Docs
    BY DEF Readings, TypeInv, TypeOK, FileType
  <1>3. heap = <<>> /\ Len(taint) = 0 /\ taint \in Seq(SUBSET Docs)
    BY DEF TypeInv, Control, MainAt, TypeOK, BootLoad
  <1>4. /\ heap' \in Seq([inv : Held, vec : SUBSET Docs]) /\ Len(heap') = 1
        /\ taint' \in Seq(SUBSET Docs) /\ Len(taint') = 1
        /\ active' = 1 /\ obj' = [obj EXCEPT ![Main] = 1]
    BY <1>1, <1>2, <1>3 DEF NewObject
  <1>5. TypeOK' /\ Shapes'
    BY <1>3, <1>4 DEF TypeInv, TypeOK, Shapes, BootLoad, files, counters, Go
  <1>6. Control'
    BY <1>3, <1>4, ThreadsAssumption DEF TypeInv, TypeOK, Control, ClientAt, RebuilderAt, MainAt, Up,
       BootLoad, Go, Saving, Adding, Making
  <1> QED BY <1>5, <1>6 DEF TypeInv

LEMMA TypeBootBuild == TypeInv /\ BootBuild => TypeInv'
  <1> SUFFICES ASSUME TypeInv, BootBuild
               PROVE  TypeInv'
    OBVIOUS
  <1> DEFINE read == ~RebuildOnStart /\ invFile.kind # "none"
             held(old, found) == [d \in Docs |-> IF d \in found THEN db[d] ELSE old[d]]
             doubt(found) == (IF read THEN invFile.taint ELSE {}) \union (Stored(db) \ found)
  <1>1. PICK old \in IF read THEN Readings(invFile, Held) ELSE {Empty}, found \in SUBSET Stored(db) :
             NewObject(held(old, found), found, doubt(found))
    BY DEF BootBuild
  <1>2. /\ held(old, found) \in Held /\ found \in SUBSET Docs /\ doubt(found) \in SUBSET Docs
    <2>1. old \in Held
      BY DEF Readings, TypeInv, TypeOK, FileType, Empty, Held
    <2>2. db \in Held /\ invFile.taint \subseteq Docs
      BY DEF TypeInv, TypeOK, FileType
    <2> QED BY <2>1, <2>2 DEF Held, Stored
  <1>3. heap = <<>> /\ Len(taint) = 0 /\ taint \in Seq(SUBSET Docs)
    BY DEF TypeInv, Control, MainAt, TypeOK, BootBuild
  <1>4. /\ heap' \in Seq([inv : Held, vec : SUBSET Docs]) /\ Len(heap') = 1
        /\ taint' \in Seq(SUBSET Docs) /\ Len(taint') = 1
        /\ active' = 1 /\ obj' = [obj EXCEPT ![Main] = 1]
    <2> HIDE DEF held, doubt
    <2> QED BY <1>1, <1>2, <1>3 DEF NewObject
  <1>5. PICK l \in {"save", "up", "import"} : pc' = [pc EXCEPT ![Main] = l]
    BY DEF BootBuild, Go
  <1>6. ids' \in [Rebuilders \union {Main} -> SUBSET Docs]
    BY DEF BootBuild, TypeInv, TypeOK, Stored
  <1>7. pc[Main] = "boot" /\ UNCHANGED <<db, recall, mutex, req, files, counters, overlapped>>
    BY DEF BootBuild
  <1>8. TypeOK' /\ Shapes'
    BY <1>3, <1>4, <1>5, <1>6, <1>7 DEF TypeInv, TypeOK, Shapes, files, counters
  <1>9. Control'
    BY <1>3, <1>4, <1>5, <1>7, ThreadsAssumption DEF TypeInv, TypeOK, Control, ClientAt, RebuilderAt,
       MainAt, Up, Saving, Adding, Making
  <1> QED BY <1>8, <1>9 DEF TypeInv

\* The thread that starts the process moves between the steps of the import.
LEMMA StartMoves ==
    ASSUME TypeInv, pc[Main] \in Importing, NEW l \in {"import", "store", "save"}, pc' = [pc EXCEPT ![Main] = l],
           Len(heap') = Len(heap), UNCHANGED <<active, recall, mutex, req, obj>>
    PROVE  Control'
  <1>1. \A t \in Threads \ {Main} : pc[t] = "idle" /\ pc'[t] = "idle"
    BY DEF TypeInv, TypeOK, Control, MainAt, Up
  <1>2. \A c \in Clients : ClientAt(c)'
    BY <1>1, ThreadsAssumption DEF TypeInv, Control, ClientAt, Adding, Saving
  <1>3. \A b \in Rebuilders : RebuilderAt(b)'
    BY <1>1, ThreadsAssumption DEF RebuilderAt
  <1>4. obj'[Main] = active' /\ active' # 0 /\ active' = Len(heap') /\ Len(heap') \in {0, 1} /\ recall' = 0
    BY DEF TypeInv, Control, MainAt, Up
  <1>5. pc'[Main] = l
    BY DEF TypeInv, TypeOK
  <1>6. MainAt'
    BY <1>1, <1>4, <1>5 DEF MainAt, Up, Saving
  <1> QED BY <1>2, <1>3, <1>6 DEF Control

\* The one index object, while the process starts.
LEMMA StartObject ==
    ASSUME TypeInv, pc[Main] \in Importing
    PROVE  /\ active \in DOMAIN heap /\ DOMAIN heap = {active} /\ DOMAIN taint = {active}
           /\ heap[active] \in [inv : Held, vec : SUBSET Docs] /\ heap[active].inv \in Held
           /\ taint \in Seq(SUBSET Docs) /\ taint[active] \in SUBSET Docs
           /\ ~Up
  <1>1. /\ heap \in Seq([inv : Held, vec : SUBSET Docs]) /\ taint \in Seq(SUBSET Docs)
        /\ Len(taint) = Len(heap)
    BY DEF TypeInv, TypeOK
  <1>2. ~Up /\ active # 0 /\ active = Len(heap) /\ Len(heap) \in {0, 1}
    BY DEF TypeInv, Control, MainAt, Up
  <1>3. active = 1 /\ Len(heap) = 1 /\ Len(taint) = 1
    BY <1>1, <1>2
  <1>4. DOMAIN heap = 1..1 /\ DOMAIN taint = 1..1
    BY <1>1, <1>3
  <1>5. DOMAIN heap = {active} /\ DOMAIN taint = {active}
    BY <1>3, <1>4
  <1>6. heap[active] \in [inv : Held, vec : SUBSET Docs] /\ heap[active].inv \in Held
        /\ taint[active] \in SUBSET Docs
    BY <1>5, ObjectType
  <1> QED BY <1>1, <1>2, <1>5, <1>6

LEMMA TypeBootImport ==
    ASSUME TypeInv, NEW d \in Docs, BootImport(d)
    PROVE  TypeInv'
  <1>0. pc[Main] = "import" /\ pc' = [pc EXCEPT ![Main] = "store"]
        /\ UNCHANGED <<db, active, recall, mutex, req, obj, ids, files, counters, overlapped>>
    BY DEF BootImport, Go
  <1>1. active \in DOMAIN heap /\ heap[active] \in [inv : Held, vec : SUBSET Docs]
    BY <1>0, StartObject
  <1>2. Sample[d] \in Contents \union {None}
    BY SampleAssumption DEF Held
  <1> DEFINE o == [inv |-> [heap[active].inv EXCEPT ![d] = Sample[d]], vec |-> heap[active].vec \union {d}]
  <1>3. o \in [inv : Held, vec : SUBSET Docs]
    BY <1>1, <1>2 DEF Held
  <1>4. heap' = [heap EXCEPT ![active] = o]
    BY DEF BootImport
  <1> HIDE DEF o
  <1>5. heap' \in Seq([inv : Held, vec : SUBSET Docs]) /\ Len(heap') = Len(heap)
    BY <1>1, <1>3, <1>4 DEF TypeInv, TypeOK
  <1>6. taint' \in Seq(SUBSET Docs) /\ Len(taint') = Len(taint)
    <2>1. taint' = [taint EXCEPT ![active] = taint[active] \union {d}]
      BY DEF BootImport
    <2> QED BY <1>0, <2>1, StartObject, ElementSet
  <1>7. TypeOK' /\ Shapes'
    BY <1>0, <1>5, <1>6 DEF TypeInv, TypeOK, Shapes, files, counters
  <1>8. Control'
    BY <1>0, <1>5, StartMoves
  <1> QED BY <1>7, <1>8 DEF TypeInv

LEMMA TypeBootStore ==
    ASSUME TypeInv, NEW d \in Docs, BootStore(d)
    PROVE  TypeInv'
  <1>1. pc[Main] = "store" /\ UNCHANGED <<heap, active, recall, mutex, req, obj, files, counters, overlapped>>
    BY DEF BootStore, memory
  <1>2. PICK l \in {"save", "import"} : pc' = [pc EXCEPT ![Main] = l]
    BY DEF BootStore, Go
  <1>3. db' \in Held
    BY SampleAssumption DEF BootStore, TypeInv, TypeOK, Held
  <1>4. taint' \in Seq(SUBSET Docs) /\ Len(taint') = Len(taint)
    <2>1. taint' = [taint EXCEPT ![active] = taint[active] \ {d}] \/ taint' = taint
      BY DEF BootStore
    <2>2. taint \in Seq(SUBSET Docs) /\ active \in DOMAIN taint /\ taint[active] \ {d} \in SUBSET Docs
      BY <1>1, StartObject
    <2> QED BY <2>1, <2>2, ElementSet
  <1>5. ids' \in [Rebuilders \union {Main} -> SUBSET Docs]
    BY DEF BootStore, TypeInv, TypeOK
  <1>6. TypeOK' /\ Shapes'
    BY <1>1, <1>2, <1>3, <1>4, <1>5 DEF TypeInv, TypeOK, Shapes, files, counters
  <1>7. Control'
    BY <1>1, <1>2, StartMoves
  <1> QED BY <1>6, <1>7 DEF TypeInv

LEMMA TypeBootDone == TypeInv /\ BootDone => TypeInv'
  <1> SUFFICES ASSUME TypeInv, BootDone
               PROVE  TypeInv'
    OBVIOUS
  <1>1. TypeOK' /\ Shapes'
    BY DEF TypeInv, TypeOK, Shapes, BootDone, Go, memory, files, counters, history
  <1>2. Control'
    BY ThreadsAssumption DEF TypeInv, TypeOK, Control, ClientAt, RebuilderAt,
       MainAt, Up, Saving, Adding, Making, BootDone, Go, memory, files, counters, history
  <1> QED BY <1>1, <1>2 DEF TypeInv

LEMMA TypeCrash == TypeInv /\ Crash => TypeInv'
  <1> SUFFICES ASSUME TypeInv, Crash
               PROVE  TypeInv'
    OBVIOUS
  <1>1. FileOK(tmpFile', Held) /\ FileOK(invFile', Held) /\ FileOK(vecFile', SUBSET Docs)
    BY FilesOK, AbandonedOK DEF Crash
  <1>2. heap' \in Seq([inv : Held, vec : SUBSET Docs]) /\ taint' \in Seq(SUBSET Docs)
        /\ Len(heap') = 0 /\ Len(taint') = 0
    BY DEF Crash
  <1>3. obj' \in [Threads -> 0..Len(heap')] /\ active' \in 0..Len(heap') /\ recall' \in 0..Len(heap')
    BY <1>2 DEF Crash
  <1>4. TypeOK' /\ Shapes'
    BY <1>1, <1>2, <1>3 DEF TypeInv, TypeOK, Shapes, Crash, FileOK, NoRequest
  <1>5. /\ \A c \in Clients : pc'[c] = "idle" /\ mutex' # c /\ req'[c] = NoRequest
        /\ \A b \in Rebuilders : pc'[b] = "idle"
    BY NoneAssumption, ThreadsAssumption DEF Crash
  <1>6. MainAt'
    BY <1>2 DEF Crash, MainAt, Up, Saving
  <1>7. Control'
    BY <1>5, <1>6 DEF Control, ClientAt, RebuilderAt
  <1> QED BY <1>4, <1>7 DEF TypeInv

LEMMA DoubtedSeq ==
    ASSUME NEW q \in Seq(SUBSET Docs), NEW e \in [DOMAIN q -> SUBSET Docs]
    PROVE  e \in Seq(SUBSET Docs) /\ Len(e) = Len(q)
  <1>1. DOMAIN q = 1..Len(q) /\ Len(q) \in Nat
    OBVIOUS
  <1>2. e \in [1..Len(q) -> SUBSET Docs]
    BY <1>1
  <1> QED BY <1>1, <1>2

LEMMA TypeBegin ==
    ASSUME TypeInv, NEW c \in Clients, NEW op \in {"add", "delete"}, NEW d \in Docs,
           NEW v \in Contents \union {None}, Begin(c, op, d, v)
    PROVE  /\ FileOK(tmpFile', Held) /\ FileOK(invFile', Held) /\ FileOK(vecFile', SUBSET Docs)
           /\ requests' \in Nat
           /\ req' \in [Clients -> [op : {"none", "add", "delete"}, doc : Docs \union {None},
                                     content : Contents \union {None}]]
           /\ taint' \in Seq(SUBSET Docs) /\ Len(taint') = Len(heap)
           /\ req'[c].op = op /\ req'[c].doc = d /\ req'[c].content = v
           /\ \A a \in Clients \ {c} : req'[a] = req[a]
  <1>1. FileOK(tmpFile', Held) /\ FileOK(invFile', Held) /\ FileOK(vecFile', SUBSET Docs)
    BY FilesOK, DoubtedOK DEF Begin
  <1>2. taint \in Seq(SUBSET Docs) /\ Len(taint) = Len(heap)
    BY DEF TypeInv, TypeOK
  <1>3. \A o \in DOMAIN taint : taint[o] \in SUBSET Docs
    BY <1>2
  <1>4. taint' \in [DOMAIN taint -> SUBSET Docs]
    BY <1>3 DEF Begin
  <1>5. taint' \in Seq(SUBSET Docs) /\ Len(taint') = Len(heap)
    BY <1>2, <1>4, DoubtedSeq
  <1>6. /\ requests' \in Nat
        /\ req' \in [Clients -> [op : {"none", "add", "delete"}, doc : Docs \union {None},
                                  content : Contents \union {None}]]
        /\ req'[c].op = op /\ req'[c].doc = d /\ req'[c].content = v
        /\ \A a \in Clients \ {c} : req'[a] = req[a]
    BY DEF Begin, TypeInv, TypeOK
  <1> QED BY <1>1, <1>5, <1>6

LEMMA TypeAddLock ==
    ASSUME TypeInv, NEW c \in Clients, NEW d \in Docs, NEW v \in Contents, AddLock(c, d, v)
    PROVE  TypeInv'
  <1>1. Begin(c, "add", d, v)
    BY DEF AddLock
  <1>2. /\ FileOK(tmpFile', Held) /\ FileOK(invFile', Held) /\ FileOK(vecFile', SUBSET Docs)
        /\ requests' \in Nat
        /\ req' \in [Clients -> [op : {"none", "add", "delete"}, doc : Docs \union {None},
                                  content : Contents \union {None}]]
        /\ taint' \in Seq(SUBSET Docs) /\ Len(taint') = Len(heap)
        /\ req'[c].op = "add" /\ req'[c].doc = d /\ req'[c].content = v
        /\ \A a \in Clients \ {c} : req'[a] = req[a]
    BY <1>1, TypeBegin
  <1>3. /\ pc' = [pc EXCEPT ![c] = "put"] /\ obj' = [obj EXCEPT ![c] = active] /\ mutex = None /\ mutex' = c
        /\ UNCHANGED <<db, heap, active, recall, ids, rebuilds, crashes, overlapped>>
        /\ pc[Main] = "up"
    BY DEF AddLock, Begin, Go, Up, MutexFree
  <1>4. TypeOK' /\ Shapes'
    BY <1>2, <1>3 DEF TypeInv, TypeOK, Shapes, FileOK
  <1>5. Control'
    <2>1. \A a \in Clients : ClientAt(a)'
      BY <1>2, <1>3, NoneAssumption DEF TypeInv, TypeOK, Control, ClientAt, Adding, Saving
    <2>2. \A b \in Rebuilders : RebuilderAt(b)'
      BY <1>3, ThreadsAssumption DEF TypeInv, TypeOK, Control, RebuilderAt
    <2>3. MainAt'
      BY <1>3, ThreadsAssumption DEF TypeInv, TypeOK, Control, MainAt, Up, Saving
    <2> QED BY <2>1, <2>2, <2>3 DEF Control
  <1> QED BY <1>4, <1>5 DEF TypeInv

LEMMA TypeDeleteRow ==
    ASSUME TypeInv, NEW c \in Clients, NEW d \in Docs, DeleteRow(c, d)
    PROVE  TypeInv'
  <1>1. Begin(c, "delete", d, None)
    BY DEF DeleteRow
  <1>2. /\ FileOK(tmpFile', Held) /\ FileOK(invFile', Held) /\ FileOK(vecFile', SUBSET Docs)
        /\ requests' \in Nat
        /\ req' \in [Clients -> [op : {"none", "add", "delete"}, doc : Docs \union {None},
                                  content : Contents \union {None}]]
        /\ taint' \in Seq(SUBSET Docs) /\ Len(taint') = Len(heap)
        /\ req'[c].op = "delete" /\ req'[c].doc = d /\ req'[c].content = None
        /\ \A a \in Clients \ {c} : req'[a] = req[a]
    BY <1>1, TypeBegin
  <1>3. /\ pc' = [pc EXCEPT ![c] = "get"] /\ pc[c] = "idle"
        /\ UNCHANGED <<heap, active, recall, mutex, obj, ids, rebuilds, crashes, overlapped>>
        /\ pc[Main] = "up"
    BY DEF DeleteRow, Begin, Go, Up, memory
  <1>4. db' \in Held
    BY DEF DeleteRow, TypeInv, TypeOK, Held
  <1>5. mutex # c
    BY <1>3 DEF TypeInv, Control, ClientAt, Adding, Saving
  <1>6. TypeOK' /\ Shapes'
    BY <1>2, <1>3, <1>4, <1>5 DEF TypeInv, TypeOK, Shapes, FileOK
  <1>7. Control'
    <2>1. \A a \in Clients : ClientAt(a)'
      BY <1>2, <1>3, <1>5, NoneAssumption DEF TypeInv, TypeOK, Control, ClientAt, Adding, Saving
    <2>2. \A b \in Rebuilders : RebuilderAt(b)'
      BY <1>3, ThreadsAssumption DEF TypeInv, TypeOK, Control, RebuilderAt
    <2>3. MainAt'
      BY <1>3, ThreadsAssumption DEF TypeInv, TypeOK, Control, MainAt, Up, Saving
    <2> QED BY <2>1, <2>2, <2>3 DEF Control
  <1> QED BY <1>6, <1>7 DEF TypeInv

\* A client is at work only on a server that is up.
LEMMA Working ==
    ASSUME TypeInv, NEW c \in Clients, pc[c] # "idle"
    PROVE  /\ Up
           /\ req[c].doc \in Docs
           /\ pc[c] \in Adding => mutex = c /\ obj[c] = active /\ req[c].op = "add" /\ req[c].content \in Contents
           /\ pc[c] \in {"get", "remove"} => mutex # c /\ req[c].op = "delete" /\ req[c].content = None
           /\ pc[c] = "remove" => obj[c] # 0
           /\ pc[c] \in Adding \union {"get", "remove"}
           /\ active # 0
  BY ThreadsAssumption DEF TypeInv, Control, ClientAt, MainAt, Up, Adding, Saving

LEMMA TypeAddPut ==
    ASSUME TypeInv, NEW c \in Clients, AddPut(c)
    PROVE  TypeInv'
  <1>1. /\ pc[c] = "put" /\ pc' = [pc EXCEPT ![c] = "inv"]
        /\ UNCHANGED <<heap, active, recall, mutex, req, obj, ids, files, counters, history>>
    BY DEF AddPut, Go, memory
  <1>2. db' \in Held
    BY <1>1, Working DEF AddPut, TypeInv, TypeOK, Held, Adding
  <1>3. TypeOK' /\ Shapes'
    BY <1>1, <1>2 DEF TypeInv, TypeOK, Shapes, files, counters, history
  <1>4. Control'
    BY <1>1, ThreadsAssumption DEF TypeInv, TypeOK, Control, ClientAt, RebuilderAt, MainAt, Up, Saving, Adding, Making
  <1> QED BY <1>3, <1>4 DEF TypeInv

\* The end of a request.
LEMMA TypeAnswer ==
    ASSUME TypeInv, NEW c \in Clients, pc[c] # "idle", Answer(c),
           mutex' = IF mutex = c THEN None ELSE mutex,
           heap' \in Seq([inv : Held, vec : SUBSET Docs]), Len(heap') = Len(heap),
           UNCHANGED <<db, active, recall, ids, files, counters, taint, overlapped>>
    PROVE  TypeInv'
  <1>1. /\ pc' = [pc EXCEPT ![c] = "idle"] /\ req' = [req EXCEPT ![c] = NoRequest]
        /\ obj' = [obj EXCEPT ![c] = 0]
    BY DEF Answer, Go
  <1>2. TypeOK' /\ Shapes'
    <2>1. req' \in [Clients -> [op : {"none", "add", "delete"}, doc : Docs \union {None},
                                content : Contents \union {None}]]
      BY <1>1 DEF TypeInv, TypeOK, NoRequest
    <2>2. mutex' # None => req'[mutex'].op = "add"
      BY <1>1 DEF TypeInv, TypeOK
    <2> QED BY <1>1, <2>1, <2>2 DEF TypeInv, TypeOK, Shapes, files, counters
  <1>3. Control'
    <2>1. \A a \in Clients : ClientAt(a)'
      BY <1>1, NoneAssumption DEF TypeInv, TypeOK, Control, ClientAt, Adding, Saving
    <2>2. \A b \in Rebuilders : RebuilderAt(b)'
      BY <1>1, ThreadsAssumption DEF TypeInv, TypeOK, Control, RebuilderAt
    <2>3. MainAt'
      BY <1>1, Working, ThreadsAssumption DEF TypeInv, TypeOK, Control, MainAt, Up, Saving
    <2> QED BY <2>1, <2>2, <2>3 DEF Control
  <1> QED BY <1>2, <1>3 DEF TypeInv

LEMMA TypeAddPutFails ==
    ASSUME TypeInv, NEW c \in Clients, AddPutFails(c)
    PROVE  TypeInv'
  <1>1. pc[c] = "put" /\ Answer(c) /\ mutex' = None
        /\ UNCHANGED <<db, heap, active, recall, ids, files, counters, history>>
    BY DEF AddPutFails
  <1>2. mutex = c
    BY <1>1, Working DEF Adding
  <1>3. heap' \in Seq([inv : Held, vec : SUBSET Docs]) /\ Len(heap') = Len(heap)
    BY <1>1 DEF TypeInv, TypeOK
  <1> QED BY <1>1, <1>2, <1>3, TypeAnswer DEF history

LEMMA TypeAddDone ==
    ASSUME TypeInv, NEW c \in Clients, AddDone(c)
    PROVE  TypeInv'
  <1>1. pc[c] = "saved" /\ Answer(c) /\ mutex' = None
        /\ UNCHANGED <<db, heap, active, recall, ids, files, counters, history>>
    BY DEF AddDone
  <1>2. mutex = c
    BY <1>1, Working DEF Adding, Saving
  <1>3. heap' \in Seq([inv : Held, vec : SUBSET Docs]) /\ Len(heap') = Len(heap)
    BY <1>1 DEF TypeInv, TypeOK
  <1> QED BY <1>1, <1>2, <1>3, TypeAnswer DEF history

\* Writing one document into an index object.
LEMMA ObjectWritten ==
    ASSUME TypeInv, NEW o \in DOMAIN heap, NEW e \in [inv : Held, vec : SUBSET Docs],
           heap' = [heap EXCEPT ![o] = e]
    PROVE  /\ heap' \in Seq([inv : Held, vec : SUBSET Docs]) /\ Len(heap') = Len(heap)
           /\ DOMAIN heap' = DOMAIN heap /\ heap'[o] = e
           /\ \A x \in DOMAIN heap \ {o} : heap'[x] = heap[x]
  BY DEF TypeInv, TypeOK

WroteInv(o, d, v) ==
    /\ heap' \in Seq([inv : Held, vec : SUBSET Docs]) /\ Len(heap') = Len(heap)
    /\ DOMAIN heap' = DOMAIN heap
    /\ heap'[o].inv = [heap[o].inv EXCEPT ![d] = v] /\ heap'[o].vec = heap[o].vec
    /\ \A x \in DOMAIN heap \ {o} : heap'[x] = heap[x]

LEMMA InvWritten ==
    ASSUME TypeInv, NEW o \in DOMAIN heap, NEW d \in Docs, NEW v \in Contents \union {None},
           heap' = [heap EXCEPT ![o].inv[d] = v]
    PROVE  WroteInv(o, d, v)
  <1>1. heap[o] \in [inv : Held, vec : SUBSET Docs]
    BY ObjectType
  <1>2. [heap[o] EXCEPT !.inv[d] = v] \in [inv : Held, vec : SUBSET Docs]
    BY <1>1 DEF Held
  <1>3. heap' = [heap EXCEPT ![o] = [heap[o] EXCEPT !.inv[d] = v]]
    OBVIOUS
  <1>4. /\ [heap[o] EXCEPT !.inv[d] = v].inv = [heap[o].inv EXCEPT ![d] = v]
        /\ [heap[o] EXCEPT !.inv[d] = v].vec = heap[o].vec
    BY <1>1
  <1> QED BY <1>2, <1>3, <1>4, ObjectWritten DEF WroteInv

WroteVec(o, d) ==
    /\ heap' \in Seq([inv : Held, vec : SUBSET Docs]) /\ Len(heap') = Len(heap)
    /\ DOMAIN heap' = DOMAIN heap
    /\ heap'[o].inv = heap[o].inv /\ heap'[o].vec = heap[o].vec \union {d}
    /\ \A x \in DOMAIN heap \ {o} : heap'[x] = heap[x]

LEMMA VecWritten ==
    ASSUME TypeInv, NEW o \in DOMAIN heap, NEW d \in Docs,
           heap' = [heap EXCEPT ![o].vec = @ \union {d}]
    PROVE  WroteVec(o, d)
  <1>1. heap[o] \in [inv : Held, vec : SUBSET Docs]
    BY ObjectType
  <1>2. [heap[o] EXCEPT !.vec = @ \union {d}] \in [inv : Held, vec : SUBSET Docs]
    BY <1>1
  <1>3. heap' = [heap EXCEPT ![o] = [heap[o] EXCEPT !.vec = @ \union {d}]]
    OBVIOUS
  <1>4. /\ [heap[o] EXCEPT !.vec = @ \union {d}].inv = heap[o].inv
        /\ [heap[o] EXCEPT !.vec = @ \union {d}].vec = heap[o].vec \union {d}
    BY <1>1
  <1> QED BY <1>2, <1>3, <1>4, ObjectWritten DEF WroteVec

LEMMA TypeAddInv ==
    ASSUME TypeInv, NEW c \in Clients, AddInv(c)
    PROVE  TypeInv'
  <1>1. /\ pc[c] = "inv" /\ pc' = [pc EXCEPT ![c] = "vec"]
        /\ UNCHANGED <<db, active, recall, mutex, req, obj, ids, files, counters, history>>
    BY DEF AddInv, Go
  <1>2. obj[c] \in DOMAIN heap /\ req[c].doc \in Docs /\ req[c].content \in Contents
    BY <1>1, Working DEF Adding, TypeInv, TypeOK
  <1>3. heap' \in Seq([inv : Held, vec : SUBSET Docs]) /\ Len(heap') = Len(heap)
    BY <1>2, InvWritten DEF AddInv, WroteInv
  <1>4. TypeOK' /\ Shapes'
    BY <1>1, <1>3 DEF TypeInv, TypeOK, Shapes, files, counters, history
  <1>5. Up
    BY <1>1, Working
  <1>6. Control'
    BY <1>1, <1>3, <1>5, ThreadsAssumption DEF TypeInv, TypeOK, Control, ClientAt, RebuilderAt, MainAt, Up, Saving, Adding, Making
  <1> QED BY <1>4, <1>6 DEF TypeInv

LEMMA TypeAddVec ==
    ASSUME TypeInv, NEW c \in Clients, AddVec(c)
    PROVE  TypeInv'
  <1>1. /\ pc[c] = "vec" /\ pc' = [pc EXCEPT ![c] = "save"]
        /\ UNCHANGED <<db, active, recall, mutex, req, obj, ids, files, counters, history>>
    BY DEF AddVec, Go
  <1>2. obj[c] \in DOMAIN heap /\ req[c].doc \in Docs /\ req[c].content \in Contents
    BY <1>1, Working DEF Adding, TypeInv, TypeOK
  <1>3. heap' \in Seq([inv : Held, vec : SUBSET Docs]) /\ Len(heap') = Len(heap)
    BY <1>2, VecWritten DEF AddVec, WroteVec
  <1>4. TypeOK' /\ Shapes'
    BY <1>1, <1>3 DEF TypeInv, TypeOK, Shapes, files, counters, history
  <1>5. Up
    BY <1>1, Working
  <1>6. Control'
    BY <1>1, <1>3, <1>5, ThreadsAssumption DEF TypeInv, TypeOK, Control, ClientAt, RebuilderAt, MainAt, Up, Saving, Adding, Making
  <1> QED BY <1>4, <1>6 DEF TypeInv

LEMMA TypeDeleteGet ==
    ASSUME TypeInv, NEW c \in Clients, DeleteGet(c)
    PROVE  TypeInv'
  <1>1. /\ pc[c] = "get" /\ pc' = [pc EXCEPT ![c] = "remove"] /\ obj' = [obj EXCEPT ![c] = active]
        /\ UNCHANGED <<db, heap, active, recall, mutex, req, ids, files, counters, history>>
    BY DEF DeleteGet, Go, memory
  <1>2. TypeOK' /\ Shapes'
    BY <1>1 DEF TypeInv, TypeOK, Shapes, files, counters, history
  <1>3. Up /\ active # 0
    BY <1>1, Working
  <1>4. Control'
    <2>1. \A a \in Clients : ClientAt(a)'
      BY <1>1, <1>3 DEF TypeInv, TypeOK, Control, ClientAt, Adding, Saving
    <2>2. \A b \in Rebuilders : RebuilderAt(b)'
      BY <1>1, ThreadsAssumption DEF TypeInv, TypeOK, Control, RebuilderAt
    <2>3. MainAt'
      BY <1>1, <1>3, ThreadsAssumption DEF TypeInv, TypeOK, Control, MainAt, Up, Saving
    <2> QED BY <2>1, <2>2, <2>3 DEF Control
  <1> QED BY <1>2, <1>4 DEF TypeInv

LEMMA TypeDeleteRemove ==
    ASSUME TypeInv, NEW c \in Clients, DeleteRemove(c)
    PROVE  TypeInv'
  <1>1. pc[c] = "remove" /\ Answer(c)
        /\ UNCHANGED <<db, active, recall, mutex, ids, files, counters, taint, overlapped>>
    BY DEF DeleteRemove
  <1>2. obj[c] \in DOMAIN heap /\ req[c].doc \in Docs /\ mutex # c
    BY <1>1, Working DEF TypeInv, TypeOK
  <1>3. heap' \in Seq([inv : Held, vec : SUBSET Docs]) /\ Len(heap') = Len(heap)
    BY <1>2, InvWritten DEF DeleteRemove, WroteInv
  <1> QED BY <1>1, <1>2, <1>3, TypeAnswer

LEMMA TypeRebuildStart ==
    ASSUME TypeInv, NEW b \in Rebuilders, RebuildStart(b)
    PROVE  TypeInv'
  <1>0. PICK listed \in SUBSET Stored(db) :
             /\ ids' = [ids EXCEPT ![b] = listed]
             /\ taint' = Append(taint, BusyDocs \union (Stored(db) \ listed))
    BY DEF RebuildStart
  <1>1. /\ pc[b] = "idle" /\ pc' = [pc EXCEPT ![b] = "provider"] /\ Up
        /\ obj' = [obj EXCEPT ![b] = Len(heap) + 1]
        /\ rebuilds' = rebuilds + 1
        /\ UNCHANGED <<db, active, recall, mutex, req, files, requests, crashes, overlapped>>
    BY DEF RebuildStart, Go
  <1>2. /\ heap' \in Seq([inv : Held, vec : SUBSET Docs]) /\ Len(heap') = Len(heap) + 1
        /\ taint' \in Seq(SUBSET Docs) /\ Len(taint') = Len(heap) + 1
    <2>1. /\ [inv |-> Empty, vec |-> {}] \in [inv : Held, vec : SUBSET Docs]
          /\ BusyDocs \union (Stored(db) \ listed) \in SUBSET Docs
      BY DEF Empty, Held, BusyDocs, TypeInv, TypeOK, Stored
    <2>2. /\ heap' = Append(heap, [inv |-> Empty, vec |-> {}])
          /\ heap \in Seq([inv : Held, vec : SUBSET Docs]) /\ taint \in Seq(SUBSET Docs)
          /\ Len(taint) = Len(heap)
      BY DEF RebuildStart, TypeInv, TypeOK
    <2>3. heap' \in Seq([inv : Held, vec : SUBSET Docs]) /\ Len(heap') = Len(heap) + 1
      BY <2>1, <2>2
    <2>4. taint' \in Seq(SUBSET Docs) /\ Len(taint') = Len(taint) + 1
      BY <1>0, <2>1, <2>2
    <2> QED BY <2>2, <2>3, <2>4
  <1>3. obj' \in [Threads -> 0..Len(heap')] /\ active' \in 0..Len(heap') /\ recall' \in 0..Len(heap')
    BY <1>1, <1>2 DEF TypeInv, TypeOK
  <1>4. ids' \in [Rebuilders \union {Main} -> SUBSET Docs]
    BY <1>0 DEF TypeInv, TypeOK, Stored
  <1>5. TypeOK' /\ Shapes'
    BY <1>1, <1>2, <1>3, <1>4 DEF TypeInv, TypeOK, Shapes, files
  <1>6. Control'
    <2>1. \A a \in Clients : ClientAt(a)'
      BY <1>1, ThreadsAssumption DEF TypeInv, TypeOK, Control, ClientAt
    <2>2. \A a \in Rebuilders : RebuilderAt(a)'
      BY <1>1 DEF TypeInv, TypeOK, Control, RebuilderAt, Making
    <2>3. MainAt'
      BY <1>1, ThreadsAssumption DEF TypeInv, TypeOK, Control, MainAt, Up, Saving
    <2> QED BY <2>1, <2>2, <2>3 DEF Control
  <1> QED BY <1>5, <1>6 DEF TypeInv

\* A rebuild is at work only on a server that is up.
LEMMA Rebuilding ==
    ASSUME TypeInv, NEW b \in Rebuilders, pc[b] # "idle"
    PROVE  Up /\ active \in DOMAIN heap /\ obj[b] \in DOMAIN heap /\ pc[b] \in Making \union Saving
  <1>1. Up /\ active # 0
    BY ThreadsAssumption DEF TypeInv, Control, MainAt, Up
  <1>2. obj[b] # 0 /\ pc[b] \in Making \union Saving
    BY DEF TypeInv, Control, RebuilderAt
  <1> QED BY <1>1, <1>2 DEF TypeInv, TypeOK

LEMMA TypeRebuildProvider ==
    ASSUME TypeInv, NEW b \in Rebuilders, RebuildProvider(b)
    PROVE  TypeInv'
  <1>1. /\ pc[b] = "provider" /\ pc' = [pc EXCEPT ![b] = "read"]
        /\ UNCHANGED <<db, heap, active, recall, mutex, req, obj, ids, files, counters, history>>
    BY DEF RebuildProvider, Go, memory
  <1>2. TypeOK' /\ Shapes'
    BY <1>1 DEF TypeInv, TypeOK, Shapes, files, counters, history
  <1>3. Control'
    BY <1>1, ThreadsAssumption DEF TypeInv, TypeOK, Control, ClientAt, RebuilderAt, MainAt, Up, Saving, Adding, Making
  <1> QED BY <1>2, <1>3 DEF TypeInv

\* What a rebuild has read enters its index object; what it could not read is
\* in doubt there.
ReadMore(b, d) ==
    /\ heap' \in Seq([inv : Held, vec : SUBSET Docs]) /\ Len(heap') = Len(heap)
    /\ taint' \in Seq(SUBSET Docs) /\ Len(taint') = Len(taint)
    /\ DOMAIN heap' = DOMAIN heap /\ obj[b] \in DOMAIN heap
    /\ \A x \in DOMAIN heap \ {obj[b]} : heap'[x] = heap[x] /\ taint'[x] = taint[x]
    /\ \/ heap' = heap /\ taint'[obj[b]] = taint[obj[b]] /\ db[d] = None
       \/ heap' = heap /\ taint'[obj[b]] = taint[obj[b]] \union {d}
       \/ /\ taint' = taint /\ db[d] # None
          /\ heap'[obj[b]].inv = [heap[obj[b]].inv EXCEPT ![d] = db[d]]
          /\ heap'[obj[b]].vec = heap[obj[b]].vec \union {d}

LEMMA ReadInto ==
    ASSUME TypeInv, NEW b \in Rebuilders, NEW d \in Docs, RebuildRead(b, d)
    PROVE  ReadMore(b, d)
  <1>1. obj[b] \in DOMAIN heap
    BY Rebuilding DEF RebuildRead
  <1>2. /\ heap \in Seq([inv : Held, vec : SUBSET Docs]) /\ taint \in Seq(SUBSET Docs)
        /\ Len(taint) = Len(heap) /\ DOMAIN taint = DOMAIN heap
    BY DEF TypeInv, TypeOK
  <1>3. ASSUME heap' = heap, taint' = [taint EXCEPT ![obj[b]] = IF db[d] = None THEN @ ELSE @ \union {d}]
        PROVE  ReadMore(b, d)
    <2> DEFINE e == IF db[d] = None THEN taint[obj[b]] ELSE taint[obj[b]] \union {d}
    <2>1. taint' = [taint EXCEPT ![obj[b]] = e] /\ e \in SUBSET Docs
      BY <1>1, <1>3, ObjectType
    <2>2. (db[d] = None /\ e = taint[obj[b]]) \/ e = taint[obj[b]] \union {d}
      OBVIOUS
    <2> HIDE DEF e
    <2>3. taint' \in Seq(SUBSET Docs) /\ Len(taint') = Len(taint)
      BY <1>1, <1>2, <2>1, ElementSet
    <2>4. taint'[obj[b]] = e /\ \A x \in DOMAIN heap \ {obj[b]} : taint'[x] = taint[x]
      BY <1>1, <1>2, <2>1
    <2> QED BY <1>1, <1>2, <1>3, <2>2, <2>3, <2>4 DEF ReadMore
  <1>4. ASSUME db[d] # None, taint' = taint,
               heap' = [heap EXCEPT ![obj[b]] = [inv |-> [@.inv EXCEPT ![d] = db[d]], vec |-> @.vec \union {d}]]
        PROVE  ReadMore(b, d)
    <2> DEFINE e == [inv |-> [heap[obj[b]].inv EXCEPT ![d] = db[d]], vec |-> heap[obj[b]].vec \union {d}]
    <2>1. heap[obj[b]].inv \in Held /\ heap[obj[b]].vec \in SUBSET Docs
      BY <1>1, ObjectType
    <2>2. db[d] \in Contents \union {None}
      BY DEF TypeInv, TypeOK, Held
    <2>3. e \in [inv : Held, vec : SUBSET Docs]
      BY <2>1, <2>2 DEF Held
    <2>4. heap' = [heap EXCEPT ![obj[b]] = e]
      BY <1>4
    <2>5. e.inv = [heap[obj[b]].inv EXCEPT ![d] = db[d]] /\ e.vec = heap[obj[b]].vec \union {d}
      OBVIOUS
    <2> HIDE DEF e
    <2> QED BY <1>1, <1>2, <1>4, <2>3, <2>4, <2>5, ObjectWritten DEF ReadMore
  <1> QED BY <1>3, <1>4 DEF RebuildRead

LEMMA TypeRebuildRead ==
    ASSUME TypeInv, NEW b \in Rebuilders, NEW d \in Docs, RebuildRead(b, d)
    PROVE  TypeInv'
  <1>1. /\ heap' \in Seq([inv : Held, vec : SUBSET Docs]) /\ Len(heap') = Len(heap)
        /\ taint' \in Seq(SUBSET Docs) /\ Len(taint') = Len(taint)
    BY ReadInto DEF ReadMore
  <1>2. pc[b] = "read" /\ UNCHANGED <<db, active, recall, mutex, pc, req, obj, files, counters, overlapped>>
    BY DEF RebuildRead
  <1>3. ids' \in [Rebuilders \union {Main} -> SUBSET Docs]
    BY DEF RebuildRead, TypeInv, TypeOK
  <1>4. TypeOK' /\ Shapes'
    BY <1>1, <1>2, <1>3 DEF TypeInv, TypeOK, Shapes, files, counters
  <1>5. Control'
    <2>1. Up
      BY <1>2, Rebuilding
    <2>2. /\ \A a \in Clients : ClientAt(a)'
          /\ \A a \in Rebuilders : RebuilderAt(a)'
      BY <1>2 DEF TypeInv, Control, ClientAt, RebuilderAt
    <2>3. MainAt'
      BY <1>1, <1>2, <2>1 DEF TypeInv, Control, MainAt, Up, Saving
    <2> QED BY <2>2, <2>3 DEF Control
  <1> QED BY <1>4, <1>5 DEF TypeInv

LEMMA TypeRebuildSwap ==
    ASSUME TypeInv, NEW b \in Rebuilders, RebuildSwap(b)
    PROVE  TypeInv'
  <1>1. /\ pc[b] = "read" /\ pc' = [pc EXCEPT ![b] = "save"] /\ mutex = None /\ active' = obj[b]
        /\ UNCHANGED <<db, heap, recall, mutex, req, obj, ids, files, counters, overlapped>>
    BY DEF RebuildSwap, Go, MutexFree
  <1>2. Up /\ active \in DOMAIN heap /\ obj[b] \in DOMAIN heap
    BY <1>1, Rebuilding
  <1>3. taint' \in Seq(SUBSET Docs) /\ Len(taint') = Len(heap)
    <2>1. taint[active] \union BusyDocs \in SUBSET Docs
      BY <1>2, ObjectType DEF BusyDocs, TypeInv, TypeOK
    <2>2. taint' = [taint EXCEPT ![active] = taint[active] \union BusyDocs]
      BY DEF RebuildSwap
    <2>3. taint \in Seq(SUBSET Docs) /\ Len(taint) = Len(heap) /\ active \in DOMAIN taint
      BY <1>2 DEF TypeInv, TypeOK
    <2> QED BY <2>1, <2>2, <2>3, ElementSet
  <1>4. TypeOK' /\ Shapes'
    BY <1>1, <1>2, <1>3 DEF TypeInv, TypeOK, Shapes, files, counters
  <1>5. Control'
    <2>1. \A a \in Clients : ClientAt(a)'
      BY <1>1, ThreadsAssumption, NoneAssumption DEF TypeInv, TypeOK, Control, ClientAt, Adding, Saving
    <2>2. \A a \in Rebuilders : RebuilderAt(a)'
      BY <1>1 DEF TypeInv, TypeOK, Control, RebuilderAt, Making, Saving
    <2>3. MainAt'
      BY <1>1, <1>2, ThreadsAssumption DEF TypeInv, TypeOK, Control, MainAt, Up, Saving
    <2> QED BY <2>1, <2>2, <2>3 DEF Control
  <1> QED BY <1>4, <1>5 DEF TypeInv

LEMMA TypeRebuildDone ==
    ASSUME TypeInv, NEW b \in Rebuilders, RebuildDone(b)
    PROVE  TypeInv'
  <1>1. /\ pc[b] = "saved" /\ pc' = [pc EXCEPT ![b] = "idle"] /\ obj' = [obj EXCEPT ![b] = 0]
        /\ UNCHANGED <<db, heap, active, recall, mutex, req, ids, files, counters, history>>
    BY DEF RebuildDone, Go, memory
  <1>2. TypeOK' /\ Shapes'
    BY <1>1 DEF TypeInv, TypeOK, Shapes, files, counters, history
  <1>3. Control'
    BY <1>1, ThreadsAssumption DEF TypeInv, TypeOK, Control, ClientAt, RebuilderAt, MainAt, Up, Saving, Adding, Making
  <1> QED BY <1>2, <1>3 DEF TypeInv

LEMMA TypeSearch == TypeInv /\ Search => TypeInv'
  <1> SUFFICES ASSUME TypeInv, Search
               PROVE  TypeInv'
    OBVIOUS
  <1>1. TypeOK' /\ Shapes'
    BY DEF TypeInv, TypeOK, Shapes, Search, files, counters, history
  <1>2. Control'
    BY DEF TypeInv, TypeOK, Control, ClientAt, RebuilderAt, MainAt, Up, Saving, Search
  <1> QED BY <1>1, <1>2 DEF TypeInv

LEMMA TypeStutter == TypeInv /\ UNCHANGED vars => TypeInv'
  BY DEF vars, memory, files, counters, history, TypeInv, TypeOK, Shapes, FileShape, FileType, Control,
     ClientAt, RebuilderAt, MainAt, Up

LEMMA TypeSave ==
    ASSUME TypeInv, NEW t \in Threads, Save(t)
    PROVE  TypeInv'
  BY TypeSaveOpen, TypeSaveWrite, TypeSaveRename, TypeVecOpen, TypeVecWrite DEF Save

LEMMA TypeNext == TypeInv /\ [Next]_vars => TypeInv'
  <1> SUFFICES ASSUME TypeInv, [Next]_vars
               PROVE  TypeInv'
    OBVIOUS
  <1>1. CASE Boot
    BY <1>1, TypeBootLoad, TypeBootBuild, TypeBootImport, TypeBootStore, TypeSave, TypeBootDone DEF Boot
  <1>2. CASE Crash
    BY <1>2, TypeCrash
  <1>3. CASE \E c \in Clients, d \in Docs : DeleteRow(c, d) \/ \E v \in Contents : AddLock(c, d, v)
    BY <1>3, TypeDeleteRow, TypeAddLock
  <1>4. CASE \E c \in Clients : Serve(c)
    BY <1>4, TypeAddPut, TypeAddPutFails, TypeAddInv, TypeAddVec, TypeSave, TypeAddDone,
       TypeDeleteGet, TypeDeleteRemove DEF Serve
  <1>5. CASE \E b \in Rebuilders : RebuildStart(b) \/ Rebuild(b)
    BY <1>5, TypeRebuildStart, TypeRebuildProvider, TypeRebuildRead, TypeRebuildSwap, TypeSave,
       TypeRebuildDone DEF Rebuild
  <1>6. CASE Search
    BY <1>6, TypeSearch
  <1>7. CASE UNCHANGED vars
    BY <1>7, TypeStutter
  <1> QED BY <1>1, <1>2, <1>3, <1>4, <1>5, <1>6, <1>7 DEF Next, Waiting

LEMMA TypeAlways == Spec => []TypeInv
  <1>1. Init => TypeInv
    BY TypeInit
  <1>2. TypeInv /\ [Next]_vars => TypeInv'
    BY TypeNext
  <1> QED BY <1>1, <1>2, PTL DEF Spec

\* Type correctness: AppContext's state, the threads, docs.db and the index
\* files stay within their types whatever requests, rebuilds and crashes come.
THEOREM TypesStay == Spec => []TypeOK
  <1>1. TypeInv => TypeOK
    BY DEF TypeInv
  <1> QED BY <1>1, TypeAlways, PTL

-----------------------------------------------------------------------------
(* A file of the inverted index that is not damaged.                       *)

LEMMA AloneInit == Init => AloneInv
  BY DEF Init, AloneInv, Between, NoFile

LEMMA AloneNext == TypeInv /\ AloneInv /\ [Next]_vars => AloneInv'
  <1> SUFFICES ASSUME TypeInv, AloneInv, [Next]_vars, ~overlapped'
               PROVE  AloneInv'
    BY DEF AloneInv
  <1> USE DEF Between
  <1>0. pc \in [Threads -> {"boot", "import", "store", "up", "idle", "add", "put", "inv", "vec", "delete", "get",
                            "remove", "provider", "read", "save", "write", "rename", "vsave", "vwrite", "saved"}]
    BY DEF TypeInv, TypeOK
  \* A thread that is not saving moves, and the files of the inverted index stay open or closed as they are.
  <1>1. ASSUME NEW t \in Threads, NEW l, ~Between(t), l \notin {"write", "rename"}, pc' = [pc EXCEPT ![t] = l],
               overlapped' = overlapped,
               tmpFile'.kind = tmpFile.kind, tmpFile'.open = tmpFile.open,
               invFile'.kind = invFile.kind, invFile'.open = invFile.open
        PROVE  AloneInv'
    BY <1>0, <1>1 DEF AloneInv
  <1>2. ASSUME NEW t \in Threads, SaveOpen(t)
        PROVE  AloneInv'
    <2>1. /\ pc[t] = "save" /\ pc' = [pc EXCEPT ![t] = "write"] /\ ~overlapped
          /\ \A u \in Threads \ {t} : ~Between(u)
          /\ tmpFile' = Truncated(tmpFile, t) /\ invFile' = invFile
      BY <1>2 DEF SaveOpen, Go
    <2>2. tmpFile.open = {}
      BY <2>1 DEF AloneInv
    <2>3. tmpFile'.kind = "partial" /\ tmpFile'.open = {t}
      BY <2>1, <2>2 DEF Truncated
    <2> QED BY <1>0, <2>1, <2>3 DEF AloneInv
  <1>3. ASSUME NEW t \in Threads, SaveWrite(t)
        PROVE  AloneInv'
    <2>1. /\ pc[t] = "write" /\ pc' = [pc EXCEPT ![t] = "rename"] /\ overlapped' = overlapped
      BY <1>3 DEF SaveWrite, Go, history
    <2>2. tmpFile.kind = "partial" /\ tmpFile.open = {t} /\ invFile.open = {} /\ \A u \in Threads \ {t} : ~Between(u)
      BY <2>1 DEF AloneInv
    <2>3. tmpFile'.kind = "whole" /\ tmpFile'.open = {} /\ invFile' = invFile
      BY <1>3, <2>2 DEF SaveWrite, Closed
    <2> QED BY <1>0, <2>1, <2>2, <2>3 DEF AloneInv
  <1>4. ASSUME NEW t \in Threads, SaveRename(t)
        PROVE  AloneInv'
    <2>1. /\ pc[t] = "rename" /\ overlapped' = overlapped
      BY <1>4 DEF SaveRename, history
    <2>2. tmpFile.kind = "whole" /\ tmpFile.open = {} /\ \A u \in Threads \ {t} : ~Between(u)
      BY <2>1 DEF AloneInv
    <2>3. pc' = [pc EXCEPT ![t] = "vsave"] /\ invFile' = tmpFile /\ tmpFile' = NoFile
      BY <1>4, <2>2 DEF SaveRename, Go
    <2> QED BY <1>0, <2>1, <2>2, <2>3 DEF AloneInv, NoFile
  <1>5. ASSUME NEW t \in Threads, VecOpen(t) \/ VecWrite(t)
        PROVE  AloneInv'
    BY <1>0, <1>1, <1>5 DEF VecOpen, VecWrite, Go, history
  <1>6. ASSUME NEW t \in Threads, Save(t)
        PROVE  AloneInv'
    BY <1>2, <1>3, <1>4, <1>5, <1>6 DEF Save
  <1>7. CASE Boot
    <2>1. CASE BootLoad \/ BootBuild \/ BootDone \/ \E d \in Docs : BootImport(d) \/ BootStore(d)
      <3>1. PICK l \in {"up", "save", "import", "store"} : pc' = [pc EXCEPT ![Main] = l]
        BY <2>1 DEF BootLoad, BootBuild, BootDone, BootImport, BootStore, Go
      <3>2. pc[Main] \in {"boot", "import", "store", "saved"} /\ UNCHANGED <<files, overlapped>>
        BY <2>1 DEF BootLoad, BootBuild, BootDone, BootImport, BootStore, history
      <3> QED BY <1>1, <3>1, <3>2 DEF files
    <2> QED BY <1>6, <1>7, <2>1 DEF Boot
  <1>8. CASE Crash
    <2>1. \A t \in Threads : pc'[t] \in {"boot", "idle"}
      BY <1>8 DEF Crash
    <2>2. invFile'.kind = invFile.kind /\ invFile'.open = {} /\ tmpFile'.open = {} /\ overlapped' = overlapped
      BY <1>8 DEF Crash, TypeInv, Shapes, FileShape
    <2> QED BY <2>1, <2>2 DEF AloneInv
  <1>9. CASE \E c \in Clients, d \in Docs : DeleteRow(c, d) \/ \E v \in Contents : AddLock(c, d, v)
    <2>1. PICK c \in Clients, d \in Docs, v \in Contents \union {None}, op \in {"add", "delete"} :
             Begin(c, op, d, v)
      BY <1>9 DEF DeleteRow, AddLock
    <2>2. PICK t \in Clients, l \in {"get", "put"} : pc' = [pc EXCEPT ![t] = l] /\ pc[t] = "idle"
      BY <1>9 DEF DeleteRow, AddLock, Begin, Go
    <2>3. overlapped' = overlapped
      BY <1>9 DEF DeleteRow, AddLock
    <2>4. /\ tmpFile'.kind = tmpFile.kind /\ tmpFile'.open = tmpFile.open
          /\ invFile'.kind = invFile.kind /\ invFile'.open = invFile.open
      BY <2>1 DEF Begin, Doubted, TypeInv, Shapes, FileShape
    <2> QED BY <1>1, <2>2, <2>3, <2>4
  <1>10. CASE \E c \in Clients : Serve(c)
    <2> PICK c \in Clients : Serve(c)
      BY <1>10
    <2>1. CASE \/ AddPut(c) \/ AddPutFails(c) \/ AddInv(c) \/ AddVec(c) \/ AddDone(c)
               \/ DeleteGet(c) \/ DeleteRemove(c)
      <3>1. PICK l \in {"inv", "idle", "vec", "save", "remove"} : pc' = [pc EXCEPT ![c] = l]
        BY <2>1 DEF AddPut, AddPutFails, AddInv, AddVec, AddDone, DeleteGet, DeleteRemove, Answer, Go
      <3>2. pc[c] \in {"put", "inv", "vec", "saved", "get", "remove"} /\ UNCHANGED <<files, overlapped>>
        BY <2>1 DEF AddPut, AddPutFails, AddInv, AddVec, AddDone, DeleteGet, DeleteRemove, history
      <3> QED BY <1>1, <3>1, <3>2 DEF files
    <2> QED BY <1>6, <2>1 DEF Serve
  <1>11. CASE \E b \in Rebuilders : RebuildStart(b) \/ Rebuild(b)
    <2> PICK b \in Rebuilders : RebuildStart(b) \/ Rebuild(b)
      BY <1>11
    <2>1. CASE RebuildStart(b) \/ RebuildProvider(b) \/ RebuildSwap(b) \/ RebuildDone(b)
      <3>1. PICK l \in {"provider", "read", "save", "idle"} : pc' = [pc EXCEPT ![b] = l]
        BY <2>1 DEF RebuildStart, RebuildProvider, RebuildSwap, RebuildDone, Go
      <3>2. pc[b] \in {"idle", "provider", "read", "saved"} /\ UNCHANGED <<files, overlapped>>
        BY <2>1 DEF RebuildStart, RebuildProvider, RebuildSwap, RebuildDone, history
      <3> QED BY <1>1, <3>1, <3>2 DEF files
    <2>2. CASE \E d \in Docs : RebuildRead(b, d)
      <3>1. UNCHANGED <<pc, files, overlapped>>
        BY <2>2 DEF RebuildRead
      <3> QED BY <3>1 DEF files, AloneInv
    <2> QED BY <1>6, <2>1, <2>2 DEF Rebuild
  <1>12. CASE Search
    BY <1>12 DEF Search, files, history, AloneInv
  <1>13. CASE UNCHANGED vars
    BY <1>13 DEF vars, files, history, AloneInv
  <1> QED BY <1>7, <1>8, <1>9, <1>10, <1>11, <1>12, <1>13 DEF Next, Waiting

\* InvertedIndex::Save writes beside the file and renames: as long as no two
\* calls of it overlap, no crash, request or rebuild leaves a damaged inverted.idx.
THEOREM FileStaysWhole == Spec => []FileIntact
  <1>1. Init => AloneInv
    BY AloneInit
  <1>2. TypeInv /\ AloneInv /\ [Next]_vars => AloneInv'
    BY AloneNext
  <1>3. AloneInv => FileIntact
    BY DEF AloneInv, FileIntact
  <1> QED BY <1>1, <1>2, <1>3, TypeAlways, PTL DEF Spec

-----------------------------------------------------------------------------
(* The index objects agree with docs.db.                                   *)

LEMMA MemoryInit == Init => MemoryInv
  <1> SUFFICES ASSUME Init
               PROVE  MemoryInv
    OBVIOUS
  <1>1. \A c \in Clients : req[c].doc = None
    BY DEF Init, NoRequest
  <1>2. DOMAIN heap = {} /\ \A b \in Rebuilders : pc[b] = "idle"
    BY ThreadsAssumption DEF Init
  <1> QED BY <1>1, <1>2, NoneAssumption DEF MemoryInv, MakersApart, ObjectsAgree, RequestsAgree, Making

\* Steps that touch no index object, no document and no request.
LEMMA MemoryStays ==
    ASSUME TypeInv, MemoryInv, UNCHANGED <<db, heap, active, req, taint>>,
           \A c \in Clients : obj'[c] = obj[c] /\ (pc'[c] = pc[c] \/ (pc[c] \in Saving /\ pc'[c] \in Saving)),
           \A b \in Rebuilders :
              /\ pc'[b] \in Making <=> pc[b] \in Making
              /\ pc[b] \in Making => obj'[b] = obj[b] /\ ids'[b] = ids[b]
              /\ obj'[b] \in {0, obj[b]}
    PROVE  MemoryInv'
  <1>1. MakersApart'
    <2>1. \A b \in Rebuilders : pc[b] \in Making => obj[b] # 0
      BY DEF TypeInv, Control, RebuilderAt, Making
    <2> QED BY <2>1 DEF MemoryInv, MakersApart
  <1>2. \A o, d : Unread(o, d) => Unread(o, d)'
    BY DEF Unread
  <1>3. ObjectsAgree'
    BY <1>2 DEF MemoryInv, ObjectsAgree, InFlight, Agree
  <1>4. RequestsAgree'
    BY DEF MemoryInv, RequestsAgree, Progress, InFlight, Agree, Saving
  <1> QED BY <1>1, <1>3, <1>4 DEF MemoryInv

LEMMA MemorySave ==
    ASSUME TypeInv, MemoryInv, NEW t \in Threads, Save(t)
    PROVE  MemoryInv'
  <1>1. UNCHANGED <<db, heap, active, req, taint, obj, ids>>
    BY DEF Save, SaveOpen, SaveWrite, SaveRename, VecOpen, VecWrite, memory, history
  <1>2. PICK l \in Saving : pc' = [pc EXCEPT ![t] = l]
    BY DEF Save, SaveOpen, SaveWrite, SaveRename, VecOpen, VecWrite, Go, Saving
  <1>3. pc[t] \in Saving
    BY DEF Save, SaveOpen, SaveWrite, SaveRename, VecOpen, VecWrite, Saving
  <1>4. \A u \in Threads : pc'[u] = IF u = t THEN l ELSE pc[u]
    BY <1>2 DEF TypeInv, TypeOK
  <1> QED BY <1>1, <1>2, <1>3, <1>4, MemoryStays DEF Saving, Making

\* While the process starts there is no request and no rebuild.
LEMMA Starting ==
    ASSUME TypeInv, ~Up
    PROVE  /\ \A t \in Threads \ {Main} : pc[t] = "idle"
           /\ \A c \in Clients : pc[c] = "idle" /\ req[c].doc = None
           /\ \A b \in Rebuilders : pc[b] = "idle"
           /\ \A d \in Docs : InFlight(d) = {}
  <1>1. \A t \in Threads \ {Main} : pc[t] = "idle"
    BY DEF TypeInv, Control, MainAt
  <1>2. \A c \in Clients : pc[c] = "idle" /\ req[c].doc = None
    BY <1>1, ThreadsAssumption DEF TypeInv, Control, ClientAt, Adding, Saving, NoRequest
  <1>3. \A b \in Rebuilders : pc[b] = "idle"
    BY <1>1, ThreadsAssumption
  <1> QED BY <1>1, <1>2, <1>3, NoneAssumption DEF InFlight

\* It is enough, while the process starts, that the one index agrees with docs.db.
LEMMA MemoryStarts ==
    ASSUME TypeInv, TypeInv', ~Up, req' = req,
           NEW l, pc' = [pc EXCEPT ![Main] = l],
           DOMAIN heap' \subseteq {active'},
           \A d \in Docs \ taint'[active'] : active' \in DOMAIN heap' => Agree(active, d)'
    PROVE  MemoryInv'
  <1>1. \A b \in Rebuilders : pc'[b] \notin Making
    BY Starting, ThreadsAssumption DEF TypeInv, TypeOK, Making
  <1>2. \A c \in Clients : req'[c].doc = None
    BY Starting
  <1>3. MakersApart' /\ RequestsAgree'
    BY <1>1, <1>2, NoneAssumption DEF MakersApart, RequestsAgree
  <1>4. ObjectsAgree'
    BY <1>2 DEF ObjectsAgree, Agree
  <1> QED BY <1>3, <1>4 DEF MemoryInv

\* While the process starts, the one index agrees with docs.db but for what is in doubt.
LEMMA StartAgrees ==
    ASSUME TypeInv, MemoryInv, pc[Main] \in Importing, NEW e \in Docs, e \notin taint[active]
    PROVE  Agree(active, e)
  <1>1. active \in DOMAIN heap /\ ~Up
    BY StartObject
  <1>2. ~Unread(active, e) /\ InFlight(e) = {}
    BY <1>1, Starting DEF Unread, Making
  <1> QED BY <1>1, <1>2 DEF MemoryInv, ObjectsAgree

LEMMA MemoryBootImport ==
    ASSUME TypeInv, TypeInv', MemoryInv, NEW d \in Docs, BootImport(d)
    PROVE  MemoryInv'
  <1>1. pc[Main] = "import" /\ UNCHANGED <<db, active, req>>
    BY DEF BootImport
  <1>2. PICK l : pc' = [pc EXCEPT ![Main] = l]
    BY DEF BootImport, Go
  <1>3. /\ active \in DOMAIN heap /\ DOMAIN heap = {active} /\ DOMAIN taint = {active} /\ ~Up
        /\ heap[active].inv \in Held
    BY <1>1, StartObject
  <1>4. /\ DOMAIN heap' = DOMAIN heap
        /\ heap'[active].inv = [heap[active].inv EXCEPT ![d] = Sample[d]]
        /\ heap'[active].vec = heap[active].vec \union {d}
        /\ taint'[active] = taint[active] \union {d}
    BY <1>3 DEF BootImport
  <1>5. ASSUME NEW e \in Docs \ taint'[active']
        PROVE  Agree(active, e)'
    <2>1. e # d /\ e \notin taint[active]
      BY <1>1, <1>4, <1>5
    <2>2. Agree(active, e)
      BY <1>1, <2>1, StartAgrees
    <2> QED BY <1>1, <1>3, <1>4, <2>1, <2>2 DEF Agree, Held
  <1> QED BY <1>1, <1>2, <1>3, <1>4, <1>5, MemoryStarts

LEMMA MemoryBootStore ==
    ASSUME TypeInv, TypeInv', MemoryInv, ImportInv, NEW d \in Docs, BootStore(d)
    PROVE  MemoryInv'
  <1>1. pc[Main] = "store" /\ UNCHANGED <<heap, active, req>> /\ d \in ids[Main] \intersect heap[active].vec
    BY DEF BootStore, memory
  <1>2. PICK l : pc' = [pc EXCEPT ![Main] = l]
    BY DEF BootStore, Go
  <1>3. /\ DOMAIN heap = {active} /\ DOMAIN taint = {active} /\ ~Up
    BY <1>1, StartObject
  <1>4. \/ UNCHANGED <<db, taint>>
        \/ db' = [db EXCEPT ![d] = Sample[d]] /\ taint'[active] = taint[active] \ {d}
    BY <1>3 DEF BootStore
  <1>5. heap[active].inv[d] = Sample[d] /\ d \in heap[active].vec
    BY <1>1 DEF ImportInv
  <1>6. ASSUME NEW e \in Docs \ taint'[active']
        PROVE  Agree(active, e)'
    <2>1. CASE e \notin taint[active] /\ e # d
      <3>1. Agree(active, e)
        BY <1>1, <2>1, StartAgrees
      <3>2. db'[e] = db[e]
        BY <1>4, <2>1 DEF TypeInv, TypeOK, Held
      <3> QED BY <1>1, <3>1, <3>2 DEF Agree
    <2>2. CASE UNCHANGED <<db, taint>>
      <3>1. Agree(active, e)
        BY <1>1, <1>6, <2>2, StartAgrees
      <3> QED BY <1>1, <2>2, <3>1 DEF Agree
    <2>3. CASE e = d /\ db' = [db EXCEPT ![d] = Sample[d]]
      <3>1. db'[d] = Sample[d]
        BY <2>3 DEF TypeInv, TypeOK, Held
      <3> QED BY <1>1, <1>5, <2>3, <3>1 DEF Agree
    <2> QED BY <1>1, <1>4, <1>6, <2>1, <2>2, <2>3
  <1> QED BY <1>1, <1>2, <1>3, <1>6, MemoryStarts

LEMMA ImportInit == Init => ImportInv
  BY DEF Init, ImportInv

\* What the import has to store next is what it has just indexed.
LEMMA ImportNext == TypeInv /\ ImportInv /\ [Next]_vars => ImportInv'
  <1> SUFFICES ASSUME TypeInv, ImportInv, [Next]_vars
               PROVE  ImportInv'
    OBVIOUS
  <1>1. ASSUME NEW t \in Threads, NEW l, l \notin Importing, pc' = [pc EXCEPT ![t] = l], t = Main \/ Up
        PROVE  ImportInv'
    BY <1>1 DEF ImportInv, Up, TypeInv, TypeOK
  <1>2. ASSUME NEW t \in Threads, Save(t)
        PROVE  ImportInv'
    <2>1. PICK l \in Saving : pc' = [pc EXCEPT ![t] = l]
      BY <1>2 DEF Save, SaveOpen, SaveWrite, SaveRename, VecOpen, VecWrite, Go, Saving
    <2>2. pc[t] \in Saving
      BY <1>2 DEF Save, SaveOpen, SaveWrite, SaveRename, VecOpen, VecWrite, Saving
    <2>3. t = Main \/ Up
      BY <2>2 DEF TypeInv, Control, MainAt, Saving
    <2> QED BY <1>1, <2>1, <2>3 DEF Saving
  <1>3. CASE Boot
    <2>1. CASE BootLoad \/ BootDone
      BY <1>1, <2>1 DEF BootLoad, BootDone, Go
    <2>2. CASE BootBuild
      <3>1. PICK l \in {"save", "up", "import"} : pc' = [pc EXCEPT ![Main] = l]
        BY <2>2 DEF BootBuild, Go
      <3>2. pc'[Main] = l
        BY <3>1 DEF TypeInv, TypeOK
      <3>3. ASSUME l = "import"
            PROVE  heap'[active'].vec = {}
        <4> DEFINE read == ~RebuildOnStart /\ invFile.kind # "none"
                   held(old, found) == [d \in Docs |-> IF d \in found THEN db[d] ELSE old[d]]
                   doubt(found) == (IF read THEN invFile.taint ELSE {}) \union (Stored(db) \ found)
        <4>1. heap = <<>>
          BY <2>2 DEF BootBuild, TypeInv, Control, MainAt
        <4>2. PICK old \in IF read THEN Readings(invFile, Held) ELSE {Empty}, listed \in SUBSET Stored(db) :
                 \E found \in SUBSET listed :
                   /\ NewObject(held(old, found), found, doubt(found))
                   /\ ids' = [ids EXCEPT ![Main] = IF listed = {} THEN Stored(Sample) ELSE {}]
                   /\ Go(Main, IF listed # {} THEN "save" ELSE IF Sample = Empty THEN "up" ELSE "import")
          BY <2>2 DEF BootBuild
        <4>3. PICK found \in SUBSET listed :
                   /\ NewObject(held(old, found), found, doubt(found))
                   /\ Go(Main, IF listed # {} THEN "save" ELSE IF Sample = Empty THEN "up" ELSE "import")
          BY <4>2
        <4> HIDE DEF held, doubt, read
        <4>4. found = {}
          BY <3>2, <3>3, <4>3 DEF Go, TypeInv, TypeOK
        <4> QED BY <4>1, <4>3, <4>4 DEF NewObject
      <3> QED BY <3>2, <3>3 DEF ImportInv
    <2>3. ASSUME NEW d \in Docs, BootImport(d)
          PROVE  ImportInv'
      <3>1. pc[Main] = "import" /\ pc' = [pc EXCEPT ![Main] = "store"] /\ d \in ids[Main] /\ UNCHANGED <<active, ids>>
        BY <2>3 DEF BootImport, Go
      <3>2. active \in DOMAIN heap /\ heap[active].inv \in Held
        BY <3>1, StartObject
      <3>3. heap'[active].inv[d] = Sample[d] /\ heap'[active].vec = heap[active].vec \union {d}
        BY <2>3, <3>2 DEF BootImport, Held
      <3>4. ids[Main] \intersect heap'[active].vec = {d}
        BY <3>1, <3>3 DEF ImportInv
      <3>5. pc'[Main] = "store"
        BY <3>1 DEF TypeInv, TypeOK
      <3> QED BY <3>1, <3>3, <3>4, <3>5 DEF ImportInv
    <2>4. ASSUME NEW d \in Docs, BootStore(d)
          PROVE  ImportInv'
      <3>1. /\ pc[Main] = "store" /\ d \in ids[Main] \intersect heap[active].vec /\ UNCHANGED <<heap, active>>
            /\ ids' = [ids EXCEPT ![Main] = @ \ {d}]
        BY <2>4 DEF BootStore, memory
      <3>2. PICK l \in {"save", "import"} : pc' = [pc EXCEPT ![Main] = l]
        BY <2>4 DEF BootStore, Go
      <3>3. ids[Main] \intersect heap[active].vec = {d}
        BY <3>1 DEF ImportInv
      <3>4. ids'[Main] = ids[Main] \ {d} /\ pc'[Main] = l
        BY <3>1, <3>2 DEF TypeInv, TypeOK
      <3>5. ids'[Main] \intersect heap'[active'].vec = {}
        BY <3>1, <3>3, <3>4
      <3> QED BY <3>2, <3>4, <3>5 DEF ImportInv
    <2> QED BY <1>2, <1>3, <2>1, <2>2, <2>3, <2>4 DEF Boot
  <1>4. CASE Crash
    BY <1>4 DEF Crash, ImportInv
  <1>5. CASE \E c \in Clients, d \in Docs : DeleteRow(c, d) \/ \E v \in Contents : AddLock(c, d, v)
    <2>1. PICK c \in Clients, l \in {"get", "put"} : pc' = [pc EXCEPT ![c] = l] /\ Up
      BY <1>5 DEF DeleteRow, AddLock, Begin, Go
    <2> QED BY <1>1, <2>1
  <1>6. CASE \E c \in Clients : Serve(c)
    <2> PICK c \in Clients : Serve(c)
      BY <1>6
    <2>1. CASE \/ AddPut(c) \/ AddPutFails(c) \/ AddInv(c) \/ AddVec(c) \/ AddDone(c)
               \/ DeleteGet(c) \/ DeleteRemove(c)
      <3>1. PICK l \in {"inv", "idle", "vec", "save", "remove"} : pc' = [pc EXCEPT ![c] = l]
        BY <2>1 DEF AddPut, AddPutFails, AddInv, AddVec, AddDone, DeleteGet, DeleteRemove, Answer, Go
      <3>2. pc[c] # "idle"
        BY <2>1 DEF AddPut, AddPutFails, AddInv, AddVec, AddDone, DeleteGet, DeleteRemove
      <3>3. Up
        BY <3>2, ThreadsAssumption DEF TypeInv, Control, MainAt
      <3> QED BY <1>1, <3>1, <3>3
    <2> QED BY <1>2, <2>1 DEF Serve
  <1>7. CASE \E b \in Rebuilders : RebuildStart(b) \/ Rebuild(b)
    <2> PICK b \in Rebuilders : RebuildStart(b) \/ Rebuild(b)
      BY <1>7
    <2>1. CASE RebuildStart(b) \/ RebuildProvider(b) \/ RebuildSwap(b) \/ RebuildDone(b)
      <3>1. PICK l \in {"provider", "read", "save", "idle"} : pc' = [pc EXCEPT ![b] = l]
        BY <2>1 DEF RebuildStart, RebuildProvider, RebuildSwap, RebuildDone, Go
      <3>2. Up
        BY <2>1, Rebuilding DEF RebuildStart, RebuildProvider, RebuildSwap, RebuildDone
      <3> QED BY <1>1, <3>1, <3>2
    <2>2. CASE \E d \in Docs : RebuildRead(b, d)
      <3>1. UNCHANGED pc /\ Up
        BY <2>2, Rebuilding DEF RebuildRead
      <3> QED BY <3>1 DEF ImportInv, Up
    <2> QED BY <1>2, <2>1, <2>2 DEF Rebuild
  <1>8. CASE Search \/ UNCHANGED vars
    BY <1>8 DEF Search, vars, memory, ImportInv
  <1> QED BY <1>3, <1>4, <1>5, <1>6, <1>7, <1>8 DEF Next, Waiting

LEMMA MemoryCrash == Crash => MemoryInv'
  <1> SUFFICES ASSUME Crash
               PROVE  MemoryInv'
    OBVIOUS
  <1>1. \A c \in Clients : req'[c].doc = None
    BY DEF Crash, NoRequest
  <1>2. DOMAIN heap' = {} /\ \A b \in Rebuilders : pc'[b] = "idle"
    BY ThreadsAssumption DEF Crash
  <1> QED BY <1>1, <1>2, NoneAssumption DEF MemoryInv, MakersApart, ObjectsAgree, RequestsAgree, Making

\* A request that begins puts its document in doubt wherever it could be missed.
Apart(c, d, o, e) ==
    /\ e \notin taint[o]
    /\ e = d => o = active /\ InFlight(d) = {} /\ InFlight(e)' = {c}
    /\ e # d => InFlight(e)' = InFlight(e)

LEMMA BeginApart ==
    ASSUME TypeInv, NEW c \in Clients, NEW op, NEW d \in Docs, NEW v, Begin(c, op, d, v),
           NEW o \in DOMAIN heap, NEW e \in Docs \ taint'[o]
    PROVE  Apart(c, d, o, e)
  <1>1. o \in DOMAIN taint
    BY DEF TypeInv, TypeOK
  <1>2. taint'[o] = IF o = active /\ InFlight(d) = {} THEN taint[o] ELSE taint[o] \union {d}
    BY <1>1 DEF Begin
  <1>3. /\ pc[c] = "idle" /\ req[c].doc = None
        /\ req' = [req EXCEPT ![c] = [op |-> op, doc |-> d, content |-> v]]
    BY DEF Begin, TypeInv, Control, ClientAt, Adding, Saving, NoRequest
  <1>4. \A a \in Clients : req'[a] = IF a = c THEN [op |-> op, doc |-> d, content |-> v] ELSE req[a]
    BY <1>3 DEF TypeInv, TypeOK
  <1>5. e \notin taint[o] /\ (e = d => o = active /\ InFlight(d) = {})
    BY <1>2
  <1>6. \A a \in Clients : req'[a].doc = IF a = c THEN d ELSE req[a].doc
    BY <1>4
  <1>7. \A a \in Clients : a \in InFlight(e)' <=> (IF a = c THEN e = d ELSE a \in InFlight(e))
    BY <1>6 DEF InFlight
  <1>8. c \notin InFlight(e)
    BY <1>3, NoneAssumption DEF InFlight
  <1>9. InFlight(e) \subseteq Clients /\ InFlight(e)' \subseteq Clients
    BY DEF InFlight
  <1>10. e = d => InFlight(e)' = {c}
    BY <1>5, <1>7, <1>9
  <1>11. e # d => InFlight(e)' = InFlight(e)
    BY <1>7, <1>8, <1>9
  <1> QED BY <1>5, <1>10, <1>11 DEF Apart

LEMMA MemoryAddLock ==
    ASSUME TypeInv, MemoryInv, NEW c \in Clients, NEW d \in Docs, NEW v \in Contents, AddLock(c, d, v)
    PROVE  MemoryInv'
  <1>1. /\ pc' = [pc EXCEPT ![c] = "put"] /\ obj' = [obj EXCEPT ![c] = active] /\ pc[c] = "idle" /\ Up
        /\ req' = [req EXCEPT ![c] = [op |-> "add", doc |-> d, content |-> v]]
        /\ UNCHANGED <<db, heap, active, ids>> /\ Begin(c, "add", d, v)
    BY DEF AddLock, Begin, Go
  <1>2. active \in DOMAIN heap
    BY <1>1 DEF TypeInv, TypeOK, Control, MainAt, Up
  <1>3. \A b \in Rebuilders : pc'[b] = pc[b] /\ obj'[b] = obj[b]
    BY <1>1, ThreadsAssumption DEF TypeInv, TypeOK
  <1>4. MakersApart'
    BY <1>1, <1>3 DEF MemoryInv, MakersApart
  <1>5. \A o, e : Unread(o, e) => Unread(o, e)'
    BY <1>1, <1>3 DEF Unread
  <1>6. ObjectsAgree'
    <2> SUFFICES ASSUME NEW o \in DOMAIN heap, NEW e \in Docs, e \notin taint'[o]
                 PROVE  /\ o # active => InFlight(e)' = {}
                        /\ InFlight(e)' = {} => Agree(o, e)' \/ Unread(o, e)'
      BY <1>1 DEF ObjectsAgree
    <2> Apart(c, d, o, e)
      BY <1>1, <1>2, BeginApart
    <2>1. /\ e \notin taint[o]
          /\ e = d => o = active /\ InFlight(d) = {} /\ InFlight(e)' = {c}
          /\ e # d => InFlight(e)' = InFlight(e)
      BY DEF Apart
    <2>2. Agree(o, e) => Agree(o, e)'
      BY <1>1 DEF Agree
    <2> QED BY <1>5, <2>1, <2>2 DEF MemoryInv, ObjectsAgree
  <1>7. RequestsAgree'
    <2> SUFFICES ASSUME NEW a \in Clients, NEW e \in Docs, req'[a].doc = e, e \notin taint'[active]
                 PROVE  Progress(a, e)'
      BY <1>1 DEF RequestsAgree
    <2> Apart(c, d, active, e)
      BY <1>1, <1>2, BeginApart
    <2>1. /\ e \notin taint[active]
          /\ e = d => InFlight(d) = {} /\ InFlight(e)' = {c}
          /\ e # d => InFlight(e)' = InFlight(e)
      BY DEF Apart
    <2>2. Agree(active, e) => Agree(active, e)'
      BY <1>1 DEF Agree
    <2>3. CASE a = c
      <3>1. e = d /\ pc'[a] = "put"
        BY <1>1, <2>3 DEF TypeInv, TypeOK
      <3>2. ~Unread(active, e)
        BY DEF Unread, MemoryInv, MakersApart
      <3>3. Agree(active, e)
        BY <1>2, <2>1, <3>1, <3>2 DEF MemoryInv, ObjectsAgree
      <3> QED BY <2>1, <2>2, <2>3, <3>1, <3>3 DEF Progress
    <2>4. CASE a # c
      <3>1. req'[a] = req[a] /\ pc'[a] = pc[a] /\ obj'[a] = obj[a]
        BY <1>1, <2>4 DEF TypeInv, TypeOK
      <3>2. a \in InFlight(e) /\ e # d
        BY <2>1, <3>1 DEF InFlight
      <3>3. Progress(a, e)
        BY <2>1, <3>2 DEF MemoryInv, RequestsAgree, InFlight
      <3> QED BY <1>1, <2>1, <2>2, <3>1, <3>2, <3>3 DEF Progress
    <2> QED BY <2>3, <2>4
  <1> QED BY <1>4, <1>6, <1>7 DEF MemoryInv

LEMMA MemoryDeleteRow ==
    ASSUME TypeInv, MemoryInv, NEW c \in Clients, NEW d \in Docs, DeleteRow(c, d)
    PROVE  MemoryInv'
  <1>1. /\ pc' = [pc EXCEPT ![c] = "get"] /\ pc[c] = "idle" /\ Up
        /\ req' = [req EXCEPT ![c] = [op |-> "delete", doc |-> d, content |-> None]]
        /\ db' = [db EXCEPT ![d] = None]
        /\ UNCHANGED <<heap, active, obj, ids>> /\ Begin(c, "delete", d, None)
    BY DEF DeleteRow, Begin, Go, memory
  <1>2. active \in DOMAIN heap
    BY <1>1 DEF TypeInv, TypeOK, Control, MainAt, Up
  <1>3. \A b \in Rebuilders : pc'[b] = pc[b]
    BY <1>1, ThreadsAssumption DEF TypeInv, TypeOK
  <1>4. MakersApart'
    BY <1>1, <1>3 DEF MemoryInv, MakersApart
  <1>5. \A e \in Docs \ {d} : db'[e] = db[e]
    BY <1>1 DEF TypeInv, TypeOK, Held
  <1>6. \A o : \A e \in Docs \ {d} : (Unread(o, e) => Unread(o, e)') /\ (Agree(o, e) => Agree(o, e)')
    BY <1>1, <1>3, <1>5 DEF Unread, Agree
  <1>7. ObjectsAgree'
    <2> SUFFICES ASSUME NEW o \in DOMAIN heap, NEW e \in Docs, e \notin taint'[o]
                 PROVE  /\ o # active => InFlight(e)' = {}
                        /\ InFlight(e)' = {} => Agree(o, e)' \/ Unread(o, e)'
      BY <1>1 DEF ObjectsAgree
    <2> Apart(c, d, o, e)
      BY <1>1, <1>2, BeginApart
    <2>1. /\ e \notin taint[o]
          /\ e = d => o = active /\ InFlight(d) = {} /\ InFlight(e)' = {c}
          /\ e # d => InFlight(e)' = InFlight(e)
      BY DEF Apart
    <2> QED BY <1>6, <2>1 DEF MemoryInv, ObjectsAgree
  <1>8. RequestsAgree'
    <2> SUFFICES ASSUME NEW a \in Clients, NEW e \in Docs, req'[a].doc = e, e \notin taint'[active]
                 PROVE  Progress(a, e)'
      BY <1>1 DEF RequestsAgree
    <2> Apart(c, d, active, e)
      BY <1>1, <1>2, BeginApart
    <2>1. /\ e \notin taint[active]
          /\ e = d => InFlight(d) = {} /\ InFlight(e)' = {c}
          /\ e # d => InFlight(e)' = InFlight(e)
      BY DEF Apart
    <2>2. CASE a = c
      <3>1. e = d /\ pc'[a] = "get" /\ db'[d] = None
        BY <1>1, <2>2 DEF TypeInv, TypeOK, Held
      <3> QED BY <2>1, <2>2, <3>1 DEF Saving, Progress
    <2>3. CASE a # c
      <3>1. req'[a] = req[a] /\ pc'[a] = pc[a] /\ obj'[a] = obj[a]
        BY <1>1, <2>3 DEF TypeInv, TypeOK
      <3>2. a \in InFlight(e) /\ e # d
        BY <2>1, <3>1 DEF InFlight
      <3>3. Progress(a, e)
        BY <2>1, <3>2 DEF MemoryInv, RequestsAgree, InFlight
      <3> QED BY <1>1, <1>5, <1>6, <2>1, <3>1, <3>2, <3>3 DEF Progress
    <2> QED BY <2>2, <2>3
  <1> QED BY <1>4, <1>7, <1>8 DEF MemoryInv

\* A document that is not in doubt has one request at most.
LEMMA OneRequest ==
    ASSUME MemoryInv, NEW c \in Clients, NEW a \in Clients \ {c}, NEW e \in Docs \ taint[active],
           req[a].doc = e
    PROVE  req[c].doc # e /\ InFlight(e) = {a}
  <1>1. InFlight(e) = {a}
    BY DEF MemoryInv, RequestsAgree, Progress
  <1> QED BY <1>1 DEF InFlight

\* An index other than the active one is in doubt about what a request works on.
LEMMA OthersDoubt ==
    ASSUME MemoryInv, NEW c \in Clients, NEW o \in DOMAIN heap, NEW e \in Docs \ taint[o],
           req[c].doc = e
    PROVE  o = active /\ InFlight(e) # {}
  BY DEF MemoryInv, ObjectsAgree, InFlight

LEMMA MemoryAddPut ==
    ASSUME TypeInv, MemoryInv, NEW c \in Clients, AddPut(c)
    PROVE  MemoryInv'
  <1> DEFINE d == req[c].doc
  <1>1. /\ pc[c] = "put" /\ pc' = [pc EXCEPT ![c] = "inv"] /\ db' = [db EXCEPT ![d] = req[c].content]
        /\ UNCHANGED <<heap, active, req, obj, ids, taint>>
    BY DEF AddPut, Go, memory, history
  <1>2. d \in Docs
    BY <1>1, Working
  <1> HIDE DEF d
  <1>3. \A b \in Rebuilders : pc'[b] = pc[b]
    BY <1>1, ThreadsAssumption DEF TypeInv, TypeOK
  <1>4. MakersApart'
    BY <1>1, <1>3 DEF MemoryInv, MakersApart
  <1>5. \A e \in Docs \ {d} : db'[e] = db[e]
    BY <1>1 DEF TypeInv, TypeOK, Held
  <1>6. \A o : \A e \in Docs \ {d} : (Unread(o, e) => Unread(o, e)') /\ (Agree(o, e) => Agree(o, e)')
    BY <1>1, <1>3, <1>5 DEF Unread, Agree
  <1>7. \A e : InFlight(e)' = InFlight(e)
    BY <1>1 DEF InFlight
  <1>8. ObjectsAgree'
    <2> SUFFICES ASSUME NEW o \in DOMAIN heap, NEW e \in Docs, e \notin taint[o]
                 PROVE  /\ o # active => InFlight(e)' = {}
                        /\ InFlight(e)' = {} => Agree(o, e)' \/ Unread(o, e)'
      BY <1>1 DEF ObjectsAgree
    <2>1. e = d => o = active /\ InFlight(e) # {}
      BY OthersDoubt DEF d
    <2> QED BY <1>6, <1>7, <2>1 DEF MemoryInv, ObjectsAgree
  <1>9. RequestsAgree'
    <2> SUFFICES ASSUME NEW a \in Clients, NEW e \in Docs, req[a].doc = e, e \notin taint[active]
                 PROVE  Progress(a, e)'
      BY <1>1 DEF RequestsAgree
    <2>1. CASE a = c
      <3>1. e = d /\ pc'[a] = "inv" /\ db'[d] = req[a].content
        BY <1>1, <1>2, <2>1 DEF TypeInv, TypeOK, Held, d
      <3>2. Progress(a, e)
        BY DEF MemoryInv, RequestsAgree
      <3> QED BY <1>1, <1>7, <2>1, <3>1, <3>2 DEF Saving, Progress
    <2>2. CASE a # c
      <3>1. pc'[a] = pc[a] /\ e # d
        BY <1>1, <2>2, OneRequest DEF TypeInv, TypeOK, d
      <3>2. Progress(a, e)
        BY DEF MemoryInv, RequestsAgree
      <3> QED BY <1>1, <1>5, <1>6, <1>7, <3>1, <3>2 DEF Progress
    <2> QED BY <2>1, <2>2
  <1> QED BY <1>4, <1>8, <1>9 DEF MemoryInv

\* A request is answered.
LEMMA Answered ==
    ASSUME TypeInv, NEW c \in Clients, Answer(c), pc[c] # "idle"
    PROVE  /\ pc'[c] = "idle" /\ req'[c] = NoRequest
           /\ \A a \in Clients \ {c} : req'[a] = req[a] /\ pc'[a] = pc[a] /\ obj'[a] = obj[a]
           /\ \A b \in Rebuilders : pc'[b] = pc[b] /\ obj'[b] = obj[b]
           /\ \A e \in Docs : InFlight(e)' = InFlight(e) \ {c}
  <1>1. /\ pc'[c] = "idle" /\ req'[c] = NoRequest
        /\ \A a \in Clients \ {c} : req'[a] = req[a] /\ pc'[a] = pc[a] /\ obj'[a] = obj[a]
        /\ \A b \in Rebuilders : pc'[b] = pc[b] /\ obj'[b] = obj[b]
    BY ThreadsAssumption DEF Answer, Go, TypeInv, TypeOK
  <1>2. ASSUME NEW e \in Docs
        PROVE  InFlight(e)' = InFlight(e) \ {c}
    <2>1. \A a \in Clients : a \in InFlight(e)' <=> a \in InFlight(e) /\ a # c
      BY <1>1, NoneAssumption DEF InFlight, NoRequest
    <2>2. InFlight(e) \subseteq Clients /\ InFlight(e)' \subseteq Clients
      BY DEF InFlight
    <2> QED BY <2>1, <2>2
  <1> QED BY <1>1, <1>2

\* The last step of a request, which leaves the active index in agreement on its document.
LEMMA MemoryAnswer ==
    ASSUME TypeInv, TypeInv', MemoryInv, NEW c \in Clients, Answer(c), pc[c] # "idle",
           UNCHANGED <<db, active, ids, taint>>, DOMAIN heap' = DOMAIN heap,
           \A o \in DOMAIN heap : \A e \in Docs \ taint[o] :
              (req[c].doc # e /\ Agree(o, e)) \/ (o = active /\ req[c].doc = e) => Agree(o, e)',
           \A a \in Clients \ {c} : \A e \in Docs \ taint[active] :
              req[a].doc = e => heap'[active].inv[e] = heap[active].inv[e]
    PROVE  MemoryInv'
  <1>1. MakersApart'
    BY Answered DEF MemoryInv, MakersApart
  <1>2. ObjectsAgree'
    <2> SUFFICES ASSUME NEW o \in DOMAIN heap, NEW e \in Docs, e \notin taint[o]
                 PROVE  /\ o # active => InFlight(e)' = {}
                        /\ InFlight(e)' = {} => Agree(o, e)' \/ Unread(o, e)'
      BY DEF ObjectsAgree
    <2>1. InFlight(e)' = InFlight(e) \ {c}
      BY Answered
    <2>2. Unread(o, e) => Unread(o, e)'
      BY Answered DEF Unread
    <2>3. CASE req[c].doc = e
      <3>1. o = active
        BY <2>3, OthersDoubt
      <3> QED BY <2>3, <3>1
    <2>4. CASE req[c].doc # e
      <3>1. InFlight(e) = InFlight(e)'
        BY <2>1, <2>4 DEF InFlight
      <3> QED BY <2>2, <2>4, <3>1 DEF MemoryInv, ObjectsAgree
    <2> QED BY <2>3, <2>4
  <1>3. RequestsAgree'
    <2> SUFFICES ASSUME NEW a \in Clients, NEW e \in Docs, req'[a].doc = e, e \notin taint[active]
                 PROVE  Progress(a, e)'
      BY DEF RequestsAgree
    <2>1. a # c
      BY Answered, NoneAssumption DEF NoRequest
    <2>2. req'[a] = req[a] /\ pc'[a] = pc[a] /\ obj'[a] = obj[a] /\ InFlight(e)' = InFlight(e) \ {c}
      BY <2>1, Answered
    <2>3. Progress(a, e)
      BY <2>2 DEF MemoryInv, RequestsAgree
    <2>4. InFlight(e)' = {a} /\ req[c].doc # e
      BY <2>1, <2>2, <2>3 DEF Progress, InFlight
    <2>5. active \in DOMAIN heap
      <3>1. pc[a] # "idle"
        BY <2>2, NoneAssumption DEF TypeInv, Control, ClientAt, Adding, Saving, NoRequest
      <3> QED BY <3>1, Working DEF TypeInv, TypeOK
    <2>6. Agree(active, e) => Agree(active, e)'
      BY <2>4, <2>5
    <2>7. heap'[active].inv[e] = heap[active].inv[e]
      BY <2>1, <2>2
    <2> QED BY <2>2, <2>3, <2>4, <2>6, <2>7 DEF Progress
  <1> QED BY <1>1, <1>2, <1>3 DEF MemoryInv

LEMMA MemoryAddEnds ==
    ASSUME TypeInv, TypeInv', MemoryInv, NEW c \in Clients, AddPutFails(c) \/ AddDone(c)
    PROVE  MemoryInv'
  <1>1. /\ pc[c] \in {"put"} \union Saving /\ pc[c] # "idle" /\ Answer(c)
        /\ UNCHANGED <<db, heap, active, ids, taint>>
    BY DEF AddPutFails, AddDone, history, Saving
  <1>2. \A o : \A e : Agree(o, e) => Agree(o, e)'
    BY <1>1 DEF Agree
  <1>3. \A e \in Docs \ taint[active] : req[c].doc = e => Agree(active, e)
    BY <1>1 DEF MemoryInv, RequestsAgree, Progress
  <1>4. \A o \in DOMAIN heap : \A e \in Docs \ taint[o] :
           (req[c].doc # e /\ Agree(o, e)) \/ (o = active /\ req[c].doc = e) => Agree(o, e)'
    BY <1>2, <1>3
  <1> QED BY <1>1, <1>4, MemoryAnswer

LEMMA MemoryDeleteRemove ==
    ASSUME TypeInv, TypeInv', MemoryInv, NEW c \in Clients, DeleteRemove(c)
    PROVE  MemoryInv'
  <1> DEFINE d == req[c].doc
  <1>1. pc[c] = "remove" /\ Answer(c) /\ heap' = [heap EXCEPT ![obj[c]].inv[d] = None]
        /\ UNCHANGED <<db, active, ids, taint>>
    BY DEF DeleteRemove
  <1>2. obj[c] \in DOMAIN heap /\ d \in Docs
    BY <1>1, Working DEF TypeInv, TypeOK
  <1>3. heap[obj[c]].inv \in Held
    BY <1>2, ObjectType
  <1> HIDE DEF d
  <1>w. WroteInv(obj[c], d, None)
    BY <1>1, <1>2, InvWritten
  <1>4. /\ DOMAIN heap' = DOMAIN heap
        /\ heap'[obj[c]].inv = [heap[obj[c]].inv EXCEPT ![d] = None] /\ heap'[obj[c]].vec = heap[obj[c]].vec
        /\ \A x \in DOMAIN heap \ {obj[c]} : heap'[x] = heap[x]
    BY <1>w DEF WroteInv
  <1>5. \A o \in DOMAIN heap : \A e \in Docs \ {d} :
           heap'[o].inv[e] = heap[o].inv[e] /\ heap'[o].vec = heap[o].vec
    BY <1>3, <1>4 DEF Held
  <1>6. ASSUME NEW o \in DOMAIN heap, NEW e \in Docs \ taint[o],
               (d # e /\ Agree(o, e)) \/ (o = active /\ d = e)
        PROVE  Agree(o, e)'
    <2>1. CASE d # e /\ Agree(o, e)
      BY <1>1, <1>5, <2>1 DEF Agree
    <2>2. CASE o = active /\ d = e
      <3>1. Progress(c, d)
        BY <2>2 DEF MemoryInv, RequestsAgree, d
      <3>2. obj[c] = active /\ db[d] = None
        BY <1>1, <3>1 DEF Progress
      <3>3. heap'[active].inv[d] = None
        BY <1>2, <1>3, <1>4, <3>2 DEF Held
      <3> QED BY <1>1, <2>2, <3>2, <3>3 DEF Agree
    <2> QED BY <1>6, <2>1, <2>2
  <1>7. ASSUME NEW a \in Clients \ {c}, NEW e \in Docs \ taint[active], req[a].doc = e
        PROVE  heap'[active].inv[e] = heap[active].inv[e]
    <2>1. d # e
      BY <1>7, OneRequest DEF d
    <2>2. active \in DOMAIN heap
      BY <1>1, Working DEF TypeInv, TypeOK
    <2> QED BY <1>5, <2>1, <2>2
  <1> QED BY <1>1, <1>4, <1>6, <1>7, MemoryAnswer DEF d

LEMMA MemoryAddInv ==
    ASSUME TypeInv, MemoryInv, NEW c \in Clients, AddInv(c)
    PROVE  MemoryInv'
  <1> DEFINE d == req[c].doc
  <1>1. /\ pc[c] = "inv" /\ pc' = [pc EXCEPT ![c] = "vec"] /\ obj[c] = active
        /\ heap' = [heap EXCEPT ![active].inv[d] = req[c].content]
        /\ UNCHANGED <<db, active, req, obj, ids, taint>>
    BY Working DEF AddInv, Go, history, Adding
  <1>2. active \in DOMAIN heap /\ d \in Docs /\ req[c].content \in Contents
    BY <1>1, Working DEF TypeInv, TypeOK, Adding
  <1>3. heap[active].inv \in Held
    BY <1>2, ObjectType
  <1> HIDE DEF d
  <1>4. WroteInv(active, d, req[c].content)
    BY <1>1, <1>2, InvWritten
  <1>5. /\ DOMAIN heap' = DOMAIN heap
        /\ heap'[active].inv[d] = req[c].content
        /\ \A e \in Docs \ {d} : heap'[active].inv[e] = heap[active].inv[e]
        /\ heap'[active].vec = heap[active].vec
        /\ \A x \in DOMAIN heap \ {active} : heap'[x] = heap[x]
    BY <1>2, <1>3, <1>4 DEF WroteInv, Held
  <1>6. \A b \in Rebuilders : pc'[b] = pc[b]
    BY <1>1, ThreadsAssumption DEF TypeInv, TypeOK
  <1>7. MakersApart'
    BY <1>1, <1>6 DEF MemoryInv, MakersApart
  <1>8. \A o : \A e : (Unread(o, e) => Unread(o, e)') /\ InFlight(e)' = InFlight(e)
    BY <1>1, <1>6 DEF Unread, InFlight
  <1>9. \A o \in DOMAIN heap : \A e \in Docs : e # d \/ o # active => (Agree(o, e) => Agree(o, e)')
    BY <1>1, <1>5 DEF Agree
  <1>10. ObjectsAgree'
    <2> SUFFICES ASSUME NEW o \in DOMAIN heap, NEW e \in Docs, e \notin taint[o]
                 PROVE  /\ o # active => InFlight(e)' = {}
                        /\ InFlight(e)' = {} => Agree(o, e)' \/ Unread(o, e)'
      BY <1>1, <1>5 DEF ObjectsAgree
    <2>1. e = d => InFlight(e) # {}
      BY DEF InFlight, d
    <2> QED BY <1>8, <1>9, <2>1 DEF MemoryInv, ObjectsAgree
  <1>11. RequestsAgree'
    <2> SUFFICES ASSUME NEW a \in Clients, NEW e \in Docs, req[a].doc = e, e \notin taint[active]
                 PROVE  Progress(a, e)'
      BY <1>1 DEF RequestsAgree
    <2>1. Progress(a, e)
      BY DEF MemoryInv, RequestsAgree
    <2>2. CASE a = c
      <3>1. e = d /\ pc'[a] = "vec" /\ db[e] = req[a].content
        BY <1>1, <2>1, <2>2 DEF TypeInv, TypeOK, d, Progress
      <3> QED BY <1>1, <1>5, <1>8, <2>1, <2>2, <3>1 DEF Saving, Progress
    <2>3. CASE a # c
      <3>1. pc'[a] = pc[a] /\ e # d
        BY <1>1, <2>3, OneRequest DEF TypeInv, TypeOK, d
      <3> QED BY <1>1, <1>2, <1>5, <1>8, <1>9, <2>1, <3>1 DEF Progress
    <2> QED BY <2>2, <2>3
  <1> QED BY <1>7, <1>10, <1>11 DEF MemoryInv

LEMMA MemoryAddVec ==
    ASSUME TypeInv, MemoryInv, NEW c \in Clients, AddVec(c)
    PROVE  MemoryInv'
  <1> DEFINE d == req[c].doc
  <1>1. /\ pc[c] = "vec" /\ pc' = [pc EXCEPT ![c] = "save"] /\ obj[c] = active
        /\ heap' = [heap EXCEPT ![active].vec = @ \union {d}]
        /\ UNCHANGED <<db, active, req, obj, ids, taint>>
    BY Working DEF AddVec, Go, history, Adding
  <1>2. active \in DOMAIN heap /\ d \in Docs
    BY <1>1, Working DEF TypeInv, TypeOK, Adding
  <1> HIDE DEF d
  <1>3. WroteVec(active, d)
    BY <1>1, <1>2, VecWritten
  <1>4. /\ DOMAIN heap' = DOMAIN heap
        /\ heap'[active].inv = heap[active].inv /\ heap'[active].vec = heap[active].vec \union {d}
        /\ \A x \in DOMAIN heap \ {active} : heap'[x] = heap[x]
    BY <1>3 DEF WroteVec
  <1>5. \A b \in Rebuilders : pc'[b] = pc[b]
    BY <1>1, ThreadsAssumption DEF TypeInv, TypeOK
  <1>6. MakersApart'
    BY <1>1, <1>5 DEF MemoryInv, MakersApart
  <1>7. \A o : \A e : (Unread(o, e) => Unread(o, e)') /\ InFlight(e)' = InFlight(e)
    BY <1>1, <1>5 DEF Unread, InFlight
  <1>8. \A o \in DOMAIN heap : \A e \in Docs : Agree(o, e) => Agree(o, e)'
    BY <1>1, <1>4 DEF Agree
  <1>9. ObjectsAgree'
    BY <1>1, <1>4, <1>7, <1>8 DEF MemoryInv, ObjectsAgree
  <1>10. RequestsAgree'
    <2> SUFFICES ASSUME NEW a \in Clients, NEW e \in Docs, req[a].doc = e, e \notin taint[active]
                 PROVE  Progress(a, e)'
      BY <1>1 DEF RequestsAgree
    <2>1. Progress(a, e)
      BY DEF MemoryInv, RequestsAgree
    <2>2. CASE a = c
      <3>1. e = d /\ pc'[a] = "save" /\ heap[active].inv[e] = db[e]
        BY <1>1, <2>1, <2>2 DEF TypeInv, TypeOK, d, Progress
      <3>2. Agree(active, e)'
        BY <1>1, <1>4, <3>1 DEF Agree
      <3> QED BY <1>7, <2>1, <3>1, <3>2 DEF Progress
    <2>3. CASE a # c
      <3>1. pc'[a] = pc[a]
        BY <1>1, <2>3 DEF TypeInv, TypeOK
      <3> QED BY <1>1, <1>2, <1>4, <1>7, <1>8, <2>1, <3>1 DEF Progress
    <2> QED BY <2>2, <2>3
  <1> QED BY <1>6, <1>9, <1>10 DEF MemoryInv

LEMMA MemoryDeleteGet ==
    ASSUME TypeInv, MemoryInv, NEW c \in Clients, DeleteGet(c)
    PROVE  MemoryInv'
  <1>1. /\ pc[c] = "get" /\ pc' = [pc EXCEPT ![c] = "remove"] /\ obj' = [obj EXCEPT ![c] = active]
        /\ UNCHANGED <<db, heap, active, req, ids, taint>>
    BY DEF DeleteGet, Go, memory, history
  <1>2. \A b \in Rebuilders : pc'[b] = pc[b] /\ obj'[b] = obj[b]
    BY <1>1, ThreadsAssumption DEF TypeInv, TypeOK
  <1>3. MakersApart'
    BY <1>1, <1>2 DEF MemoryInv, MakersApart
  <1>4. \A o : \A e : (Unread(o, e) => Unread(o, e)') /\ InFlight(e)' = InFlight(e) /\ (Agree(o, e) => Agree(o, e)')
    BY <1>1, <1>2 DEF Unread, InFlight, Agree
  <1>5. ObjectsAgree'
    BY <1>1, <1>4 DEF MemoryInv, ObjectsAgree
  <1>6. RequestsAgree'
    <2> SUFFICES ASSUME NEW a \in Clients, NEW e \in Docs, req[a].doc = e, e \notin taint[active]
                 PROVE  Progress(a, e)'
      BY <1>1 DEF RequestsAgree
    <2>1. Progress(a, e)
      BY DEF MemoryInv, RequestsAgree
    <2>2. CASE a = c
      <3>1. pc'[a] = "remove" /\ obj'[a] = active
        BY <1>1, <2>2 DEF TypeInv, TypeOK
      <3> QED BY <1>1, <1>4, <2>1, <2>2, <3>1 DEF Saving, Progress
    <2>3. CASE a # c
      <3>1. pc'[a] = pc[a] /\ obj'[a] = obj[a]
        BY <1>1, <2>3 DEF TypeInv, TypeOK
      <3> QED BY <1>1, <1>4, <2>1, <3>1 DEF Progress
    <2> QED BY <2>2, <2>3
  <1> QED BY <1>3, <1>5, <1>6 DEF MemoryInv

LEMMA MemoryRebuildStart ==
    ASSUME TypeInv, MemoryInv, NEW b \in Rebuilders, RebuildStart(b)
    PROVE  MemoryInv'
  <1> DEFINE n == Len(heap) + 1
  <1>1. /\ pc[b] = "idle" /\ pc' = [pc EXCEPT ![b] = "provider"]
        /\ obj' = [obj EXCEPT ![b] = n] /\ heap' = Append(heap, [inv |-> Empty, vec |-> {}])
        /\ UNCHANGED <<db, active, req>>
    BY DEF RebuildStart, Go
  <1>0. PICK listed \in SUBSET Stored(db) :
             /\ ids' = [ids EXCEPT ![b] = listed]
             /\ taint' = Append(taint, BusyDocs \union (Stored(db) \ listed))
    BY DEF RebuildStart
  <1>2. /\ heap \in Seq([inv : Held, vec : SUBSET Docs]) /\ taint \in Seq(SUBSET Docs)
        /\ Len(taint) = Len(heap) /\ Len(heap) \in Nat /\ active \in 0..Len(heap)
        /\ obj \in [Threads -> 0..Len(heap)]
    BY DEF TypeInv, TypeOK
  <1>3. /\ DOMAIN heap' = DOMAIN heap \union {n} /\ n \notin DOMAIN heap /\ n # active
        /\ heap'[n] = [inv |-> Empty, vec |-> {}] /\ taint'[n] = BusyDocs \union (Stored(db) \ listed)
        /\ \A o \in DOMAIN heap : heap'[o] = heap[o] /\ taint'[o] = taint[o]
    BY <1>0, <1>1, <1>2
  <1>4. /\ pc'[b] = "provider" /\ obj'[b] = n /\ ids'[b] = listed
        /\ \A a \in Rebuilders \ {b} : pc'[a] = pc[a] /\ obj'[a] = obj[a] /\ ids'[a] = ids[a] /\ obj[a] # n
        /\ \A c \in Clients : pc'[c] = pc[c] /\ obj'[c] = obj[c]
    BY <1>0, <1>1, <1>2, ThreadsAssumption DEF TypeInv, TypeOK
  <1> HIDE DEF n
  <1>5. MakersApart'
    BY <1>1, <1>3, <1>4 DEF MemoryInv, MakersApart
  <1>6. \A o : \A e : (Unread(o, e) => Unread(o, e)') /\ InFlight(e)' = InFlight(e)
    BY <1>1, <1>4 DEF Unread, InFlight, Making
  <1>7. \A o \in DOMAIN heap : \A e : Agree(o, e) => Agree(o, e)'
    BY <1>1, <1>3 DEF Agree
  <1>8. ObjectsAgree'
    <2> SUFFICES ASSUME NEW o \in DOMAIN heap', NEW e \in Docs, e \notin taint'[o]
                 PROVE  /\ o # active => InFlight(e)' = {}
                        /\ InFlight(e)' = {} => Agree(o, e)' \/ Unread(o, e)'
      BY <1>1 DEF ObjectsAgree
    <2>1. CASE o \in DOMAIN heap
      BY <1>3, <1>6, <1>7, <2>1 DEF MemoryInv, ObjectsAgree
    <2>2. CASE o = n
      <3>1. InFlight(e) = {}
        BY <1>3, <2>2, NoneAssumption DEF InFlight, BusyDocs
      <3>2. heap'[o].inv[e] = None
        BY <1>3, <2>2 DEF Empty
      <3>3. CASE db[e] = None
        BY <1>1, <1>6, <3>1, <3>2, <3>3 DEF Agree
      <3>4. CASE db[e] # None
        <4>1. Unread(o, e)'
          BY <1>1, <1>3, <1>4, <2>2, <3>4 DEF Unread, Making, Stored
        <4> QED BY <1>6, <3>1, <4>1
      <3> QED BY <3>3, <3>4
    <2> QED BY <1>3, <2>1, <2>2
  <1>9. RequestsAgree'
    <2> SUFFICES ASSUME NEW a \in Clients, NEW e \in Docs, req[a].doc = e, e \notin taint'[active]
                 PROVE  Progress(a, e)'
      BY <1>1 DEF RequestsAgree
    <2>1. pc[a] # "idle"
      BY NoneAssumption DEF TypeInv, Control, ClientAt, Adding, Saving, NoRequest
    <2>2. active \in DOMAIN heap
      BY <2>1, Working DEF TypeInv, TypeOK
    <2>3. Progress(a, e)
      BY <1>3, <2>2 DEF MemoryInv, RequestsAgree
    <2> QED BY <1>1, <1>3, <1>4, <1>6, <1>7, <2>2, <2>3 DEF Progress
  <1> QED BY <1>5, <1>8, <1>9 DEF MemoryInv

LEMMA MemoryRebuildRead ==
    ASSUME TypeInv, MemoryInv, NEW b \in Rebuilders, NEW d \in Docs, RebuildRead(b, d)
    PROVE  MemoryInv'
  <1>0. PICK n : n = obj[b]
    OBVIOUS
  <1>1. /\ pc[b] = "read" /\ d \in ids[b] /\ ids' = [ids EXCEPT ![b] = @ \ {d}]
        /\ UNCHANGED <<db, active, pc, req, obj>>
    BY DEF RebuildRead
  <1>2. ReadMore(b, d)
    BY ReadInto
  <1>3. n # active /\ \A a \in Rebuilders \ {b} : pc[a] \in Making => obj[a] # n
    BY <1>0, <1>1 DEF MemoryInv, MakersApart, Making
  <1>4. n \in DOMAIN heap /\ heap[n].inv \in Held
    BY <1>0, <1>2, ObjectType DEF ReadMore
  <1>5. /\ DOMAIN heap' = DOMAIN heap
        /\ \A x \in DOMAIN heap \ {n} : heap'[x] = heap[x] /\ taint'[x] = taint[x]
        /\ \A e \in Docs : e \notin taint'[n] => e \notin taint[n]
        /\ \A e \in Docs \ {d} : Agree(n, e) => Agree(n, e)'
        /\ (heap' = heap /\ (db[d] = None \/ d \in taint'[n])) \/ Agree(n, d)'
    <2>1. DOMAIN heap' = DOMAIN heap /\ \A x \in DOMAIN heap \ {n} : heap'[x] = heap[x] /\ taint'[x] = taint[x]
      BY <1>0, <1>2 DEF ReadMore
    <2>2. CASE heap' = heap /\ ((taint'[n] = taint[n] /\ db[d] = None) \/ taint'[n] = taint[n] \union {d})
      BY <1>1, <2>1, <2>2 DEF Agree
    <2>3. CASE /\ taint' = taint /\ db[d] # None
               /\ heap'[n].inv = [heap[n].inv EXCEPT ![d] = db[d]] /\ heap'[n].vec = heap[n].vec \union {d}
      BY <1>1, <1>4, <2>1, <2>3 DEF Agree, Held
    <2> QED BY <1>0, <1>2, <2>1, <2>2, <2>3 DEF ReadMore
  <1>6. \A a \in Rebuilders : \A e : (a # b \/ e # d) /\ e \in ids[a] => e \in ids'[a]
    BY <1>1 DEF TypeInv, TypeOK
  <1>7. \A e : InFlight(e)' = InFlight(e)
    BY <1>1 DEF InFlight
  <1>8. MakersApart'
    BY <1>1 DEF MemoryInv, MakersApart
  <1>9. ObjectsAgree'
    <2> SUFFICES ASSUME NEW o \in DOMAIN heap, NEW e \in Docs, e \notin taint'[o]
                 PROVE  /\ o # active => InFlight(e)' = {}
                        /\ InFlight(e)' = {} => Agree(o, e)' \/ Unread(o, e)'
      BY <1>1, <1>5 DEF ObjectsAgree
    <2>1. /\ o # active => InFlight(e) = {}
          /\ InFlight(e) = {} => Agree(o, e) \/ Unread(o, e)
      BY <1>5 DEF MemoryInv, ObjectsAgree
    <2>2. CASE o # n
      <3>1. Agree(o, e) => Agree(o, e)'
        BY <1>1, <1>5, <2>2 DEF Agree
      <3>2. Unread(o, e) => Unread(o, e)'
        BY <1>0, <1>1, <1>6, <2>2 DEF Unread
      <3> QED BY <1>7, <2>1, <3>1, <3>2
    <2>3. CASE o = n /\ e # d
      <3>1. Unread(o, e) => Unread(o, e)'
        BY <1>0, <1>1, <1>6, <2>3 DEF Unread
      <3>2. Agree(o, e) => Agree(o, e)'
        BY <1>5, <2>3 DEF Agree
      <3> QED BY <1>7, <2>1, <3>1, <3>2
    <2>4. CASE o = n /\ e = d
      <3>1. CASE heap' = heap /\ db[d] = None
        <4>1. ~Unread(o, e)
          BY <2>4, <3>1 DEF Unread
        <4>2. Agree(o, e) => Agree(o, e)'
          BY <1>1, <3>1 DEF Agree
        <4> QED BY <1>7, <2>1, <4>1, <4>2
      <3>2. CASE Agree(n, d)'
        BY <1>7, <2>1, <2>4, <3>2
      <3> QED BY <1>5, <2>4, <3>1, <3>2
    <2> QED BY <2>2, <2>3, <2>4
  <1>10. RequestsAgree'
    <2> SUFFICES ASSUME NEW a \in Clients, NEW e \in Docs, req[a].doc = e, e \notin taint'[active]
                 PROVE  Progress(a, e)'
      BY <1>1 DEF RequestsAgree
    <2>2. active \in DOMAIN heap
      BY <1>1, Rebuilding
    <2>3. heap'[active] = heap[active] /\ taint'[active] = taint[active]
      BY <1>3, <1>5, <2>2
    <2>1. Progress(a, e)
      BY <2>3 DEF MemoryInv, RequestsAgree
    <2> QED BY <1>1, <1>7, <2>1, <2>3 DEF Progress, Agree
  <1> QED BY <1>8, <1>9, <1>10 DEF MemoryInv

LEMMA MemoryRebuildSwap ==
    ASSUME TypeInv, MemoryInv, NEW b \in Rebuilders, RebuildSwap(b)
    PROVE  MemoryInv'
  <1> DEFINE n == obj[b]
  <1>1. /\ pc[b] = "read" /\ pc' = [pc EXCEPT ![b] = "save"] /\ ids[b] = {} /\ active' = n
        /\ taint' = [taint EXCEPT ![active] = @ \union BusyDocs]
        /\ UNCHANGED <<db, heap, req, obj, ids>>
    BY DEF RebuildSwap, Go
  <1>2. active \in DOMAIN heap /\ n \in DOMAIN heap
    BY <1>1, Rebuilding
  <1>3. n # active /\ \A a \in Rebuilders \ {b} : pc[a] \in Making => obj[a] # n
    BY <1>1 DEF MemoryInv, MakersApart, Making
  <1>4. pc'[b] = "save" /\ \A a \in Rebuilders \ {b} : pc'[a] = pc[a]
    BY <1>1 DEF TypeInv, TypeOK
  <1>5. /\ \A o \in DOMAIN heap \ {active} : taint'[o] = taint[o]
        /\ taint'[active] = taint[active] \union BusyDocs
    BY <1>1, <1>2 DEF TypeInv, TypeOK
  <1>6. \A o : \A e : InFlight(e)' = InFlight(e) /\ (Agree(o, e) => Agree(o, e)')
    BY <1>1 DEF InFlight, Agree
  <1> HIDE DEF n
  <1>7. MakersApart'
    BY <1>1, <1>3, <1>4 DEF MemoryInv, MakersApart, Making
  <1>8. ObjectsAgree'
    <2> SUFFICES ASSUME NEW o \in DOMAIN heap, NEW e \in Docs, e \notin taint'[o]
                 PROVE  /\ o # n => InFlight(e)' = {}
                        /\ InFlight(e)' = {} => Agree(o, e)' \/ Unread(o, e)'
      BY <1>1 DEF ObjectsAgree
    <2>1. /\ o # active => InFlight(e) = {}
          /\ InFlight(e) = {} => Agree(o, e) \/ Unread(o, e)
      BY <1>5 DEF MemoryInv, ObjectsAgree
    <2>2. o = active => InFlight(e) = {}
      BY <1>5, NoneAssumption DEF BusyDocs, InFlight
    <2>3. Unread(o, e) => Unread(o, e)'
      BY <1>1, <1>4 DEF Unread
    <2> QED BY <1>6, <2>1, <2>2, <2>3
  <1>9. RequestsAgree'
    <2> SUFFICES ASSUME NEW a \in Clients, NEW e \in Docs, req[a].doc = e, e \notin taint'[n]
                 PROVE  FALSE
      BY <1>1 DEF RequestsAgree
    <2>1. e \notin taint[n]
      BY <1>2, <1>3, <1>5
    <2> QED BY <1>2, <1>3, <2>1, OthersDoubt
  <1> QED BY <1>7, <1>8, <1>9 DEF MemoryInv

LEMMA MemoryOthers ==
    ASSUME TypeInv, MemoryInv,
           \/ BootDone \/ Search \/ UNCHANGED vars
           \/ \E b \in Rebuilders : RebuildProvider(b) \/ RebuildDone(b)
    PROVE  MemoryInv'
  <1>1. CASE BootDone
    <2>1. \A t \in Threads \ {Main} : pc'[t] = pc[t]
      BY <1>1 DEF BootDone, Go, TypeInv, TypeOK
    <2>2. UNCHANGED <<db, heap, active, req, taint, obj, ids>>
      BY <1>1 DEF BootDone, memory, history
    <2> QED BY <2>1, <2>2, MemoryStays, ThreadsAssumption
  <1>2. CASE Search \/ UNCHANGED vars
    <2>1. UNCHANGED <<db, heap, active, req, taint, obj, ids, pc>>
      BY <1>2 DEF Search, vars, memory, history
    <2> QED BY <2>1, MemoryStays
  <1>3. ASSUME NEW b \in Rebuilders, RebuildProvider(b)
        PROVE  MemoryInv'
    <2>1. \A t \in Threads : pc'[t] = IF t = b THEN "read" ELSE pc[t]
      BY <1>3 DEF RebuildProvider, Go, TypeInv, TypeOK
    <2>2. pc[b] = "provider" /\ UNCHANGED <<db, heap, active, req, taint, obj, ids>>
      BY <1>3 DEF RebuildProvider, memory, history
    <2> QED BY <2>1, <2>2, MemoryStays, ThreadsAssumption DEF Making
  <1>4. ASSUME NEW b \in Rebuilders, RebuildDone(b)
        PROVE  MemoryInv'
    <2>1. \A t \in Threads : pc'[t] = (IF t = b THEN "idle" ELSE pc[t]) /\ obj'[t] = (IF t = b THEN 0 ELSE obj[t])
      BY <1>4 DEF RebuildDone, Go, TypeInv, TypeOK
    <2>2. pc[b] = "saved" /\ UNCHANGED <<db, heap, active, req, taint, ids>>
      BY <1>4 DEF RebuildDone, memory, history
    <2> QED BY <2>1, <2>2, MemoryStays, ThreadsAssumption DEF Making
  <1> QED BY <1>1, <1>2, <1>3, <1>4

-----------------------------------------------------------------------------
(* The index files.                                                        *)

LEMMA FilesInit == Init => FilesInv
  <1> SUFFICES ASSUME Init
               PROVE  FilesMade /\ FilesAgree
    BY DEF FilesInv
  <1>1. \A t \in Threads : pc[t] \in {"boot", "idle"}
    BY DEF Init
  <1>2. tmpFile = NoFile /\ invFile = NoFile /\ vecFile = NoFile
    BY DEF Init
  <1> QED BY <1>1, <1>2 DEF FilesMade, FilesAgree, Damage, NoFile, Between

Writing == {"write", "rename", "vsave", "vwrite"}

\* Steps that leave the files alone, and docs.db but for documents whose
\* request is under way.
LEMMA FilesStay ==
    ASSUME FilesInv, UNCHANGED files,
           \A t \in Threads : pc'[t] \in Writing => pc'[t] = pc[t],
           \A d \in Docs : Settled(d) => Settled(d)' /\ db'[d] = db[d],
           pc'[Main] \in Importing => pc[Main] \in Importing /\ ids' = ids
    PROVE  FilesInv'
  <1> SUFFICES ASSUME ~RebuildOnStart
               PROVE  FilesMade' /\ FilesAgree'
    BY DEF FilesInv
  <1> USE DEF Writing
  <1>1. FilesMade /\ FilesAgree
    BY DEF FilesInv
  <1>2. \A t \in Threads : Between(t)' => Between(t)
    BY DEF Between
  <1>3. FilesMade'
    BY <1>1, <1>2 DEF FilesMade, files, Damage
  <1>4. Stale => Stale'
    BY <1>2 DEF Stale, files
  <1>5. FilesAgree'
    <2>1. (\E t \in Threads : Between(t))' /\ tmpFile'.kind = "whole" =>
             \A d \in Docs \ tmpFile'.taint : Settled(d)' /\ tmpFile'.data[d] = db'[d]
      BY <1>1, <1>2 DEF FilesAgree, files
    <2>2. invFile'.kind = "whole" =>
             \A d \in Docs \ invFile'.taint :
                /\ Settled(d)'
                /\ db'[d] = None => invFile'.data[d] = None
                /\ invFile'.data[d] = db'[d] \/ Stale'
      BY <1>1, <1>4 DEF FilesAgree, files
    <2>3. vecFile'.kind = "whole" =>
             \A d \in Docs \ vecFile'.taint : Settled(d)' /\ (db'[d] # None => d \in vecFile'.data)
      BY <1>1 DEF FilesAgree, files
    <2> QED BY <2>1, <2>2, <2>3 DEF FilesAgree
  <1> QED BY <1>3, <1>5

\* A client that is not saving has its document in doubt in the files.
LEMMA Unsettled ==
    ASSUME NEW c \in Clients, pc[c] \notin Saving, NEW d \in Docs, Settled(d)
    PROVE  req[c].doc # d
  BY DEF Settled, InFlight

\* The steps of requests, rebuilds and searches between their saves.
LEMMA FilesServe ==
    ASSUME TypeInv, FilesInv, NEW c \in Clients,
           AddPut(c) \/ AddPutFails(c) \/ AddInv(c) \/ AddVec(c) \/ AddDone(c) \/ DeleteGet(c) \/ DeleteRemove(c)
    PROVE  FilesInv'
  <1>1. PICK l \in {"inv", "idle", "vec", "save", "remove"} : pc' = [pc EXCEPT ![c] = l]
    BY DEF AddPut, AddPutFails, AddInv, AddVec, AddDone, DeleteGet, DeleteRemove, Answer, Go
  <1>2. \A t \in Threads : pc'[t] = IF t = c THEN l ELSE pc[t]
    BY <1>1 DEF TypeInv, TypeOK
  <1>3. UNCHANGED files /\ ids' = ids
    BY DEF AddPut, AddPutFails, AddInv, AddVec, AddDone, DeleteGet, DeleteRemove
  <1>4. pc[c] \in {"put", "inv", "vec", "get", "remove", "saved"}
    BY DEF AddPut, AddPutFails, AddInv, AddVec, AddDone, DeleteGet, DeleteRemove
  <1>5. \/ req' = req /\ ~AddDone(c)
        \/ Answer(c)
    BY DEF AddPut, AddPutFails, AddInv, AddVec, AddDone, DeleteGet, DeleteRemove, Answer
  <1>6. pc[c] = "saved" => Answer(c)
    BY DEF AddPut, AddPutFails, AddInv, AddVec, AddDone, DeleteGet, DeleteRemove
  <1>7. ASSUME NEW d \in Docs, Settled(d)
        PROVE  Settled(d)' /\ db'[d] = db[d]
    <2>1. pc[c] # "saved" => req[c].doc # d
      BY <1>4, <1>7, Unsettled DEF Saving
    <2>2. Settled(d)'
      <3>1. \A a \in Clients \ {c} : req'[a] = req[a] /\ pc'[a] = pc[a]
        BY <1>2, <1>5 DEF Answer, TypeInv, TypeOK
      <3>2. req'[c].doc # d
        BY <1>5, <1>6, <2>1, NoneAssumption DEF Answer, TypeInv, TypeOK, NoRequest
      <3> QED BY <1>7, <3>1, <3>2 DEF Settled, InFlight
    <2>3. db'[d] = db[d]
      <3>1. CASE AddPut(c)
        <4>1. req[c].doc # d /\ db' = [db EXCEPT ![req[c].doc] = req[c].content]
          BY <2>1, <3>1 DEF AddPut
        <4> QED BY <4>1 DEF TypeInv, TypeOK, Held
      <3>2. CASE ~AddPut(c)
        BY <3>2 DEF AddPutFails, AddInv, AddVec, AddDone, DeleteGet, DeleteRemove
      <3> QED BY <3>1, <3>2
    <2> QED BY <2>2, <2>3
  <1>8. \A t \in Threads : pc'[t] \in Writing => pc'[t] = pc[t]
    BY <1>2 DEF Writing
  <1>9. pc'[Main] \in Importing => pc[Main] \in Importing /\ ids' = ids
    BY <1>2, <1>3, ThreadsAssumption
  <1> QED BY <1>3, <1>7, <1>8, <1>9, FilesStay

LEMMA FilesOthers ==
    ASSUME TypeInv, FilesInv,
           \/ BootLoad \/ BootDone \/ Search \/ UNCHANGED vars
           \/ \E b \in Rebuilders : \/ RebuildStart(b) \/ RebuildProvider(b) \/ RebuildSwap(b) \/ RebuildDone(b)
                                   \/ \E d \in Docs : RebuildRead(b, d)
    PROVE  FilesInv'
  <1>1. UNCHANGED <<db, req, files>>
    BY DEF BootLoad, BootDone, Search, vars, RebuildStart, RebuildProvider, RebuildSwap, RebuildDone, RebuildRead
  <1>2. /\ \A t \in Threads : pc'[t] \in Writing => pc'[t] = pc[t]
        /\ \A c \in Clients : pc'[c] = pc[c]
        /\ pc'[Main] \in Importing => pc[Main] \in Importing /\ ids' = ids
    <2>1. CASE BootLoad \/ BootDone
      <3>1. pc' = [pc EXCEPT ![Main] = "up"]
        BY <2>1 DEF BootLoad, BootDone, Go
      <3> QED BY <3>1, ThreadsAssumption DEF Writing, TypeInv, TypeOK
    <2>2. CASE Search \/ UNCHANGED vars
      BY <2>2 DEF Search, vars
    <2>3. ASSUME NEW b \in Rebuilders,
                 \/ RebuildStart(b) \/ RebuildProvider(b) \/ RebuildSwap(b) \/ RebuildDone(b)
                 \/ \E d \in Docs : RebuildRead(b, d)
          PROVE  /\ \A t \in Threads : pc'[t] \in Writing => pc'[t] = pc[t]
                 /\ \A c \in Clients : pc'[c] = pc[c]
                 /\ pc'[Main] \in Importing => pc[Main] \in Importing /\ ids' = ids
      <3>1. PICK l \in {"provider", "read", "save", "idle"} : pc' = [pc EXCEPT ![b] = l] \/ pc' = pc
        BY <2>3 DEF RebuildStart, RebuildProvider, RebuildSwap, RebuildDone, RebuildRead, Go
      <3>2. Up
        BY <2>3, Rebuilding DEF RebuildStart, RebuildProvider, RebuildSwap, RebuildDone, RebuildRead
      <3> QED BY <3>1, <3>2, ThreadsAssumption DEF Writing, TypeInv, TypeOK, Up
    <2> QED BY <2>1, <2>2, <2>3
  <1>3. \A d \in Docs : Settled(d) => Settled(d)' /\ db'[d] = db[d]
    BY <1>1, <1>2 DEF Settled, InFlight
  <1> QED BY <1>1, <1>2, <1>3, FilesStay

\* What Save writes agrees with docs.db on the documents that it does not doubt.
LEMMA Written ==
    ASSUME TypeInv, MemoryInv, NEW t \in Threads, pc[t] \in Saving, NEW d \in Docs \ Doubt(t)
    PROVE  /\ obj[t] \in DOMAIN heap
           /\ Agree(obj[t], d)
           /\ InFlight(d) \subseteq {t}
  <1>1. d \notin taint[obj[t]] /\ InFlight(d) \subseteq {t}
    BY NoneAssumption DEF Doubt, InFlight
  <1>2. CASE t \in Clients
    <2>1. obj[t] = active /\ active \in DOMAIN heap
      BY <1>2, Working DEF Adding, Saving, TypeInv, TypeOK
    <2>2. CASE InFlight(d) = {}
      <3>1. ~Unread(active, d)
        BY DEF Unread, MemoryInv, MakersApart
      <3> QED BY <1>1, <2>1, <2>2, <3>1 DEF MemoryInv, ObjectsAgree
    <2>3. CASE InFlight(d) # {}
      <3>1. req[t].doc = d
        BY <1>1, <2>3 DEF InFlight
      <3>2. Progress(t, d)
        BY <1>1, <1>2, <2>1, <3>1 DEF MemoryInv, RequestsAgree
      <3> QED BY <1>1, <2>1, <3>2 DEF Progress
    <2> QED BY <2>2, <2>3
  <1>3. CASE t \in Rebuilders
    <2>1. obj[t] \in DOMAIN heap
      BY <1>3, Rebuilding DEF Saving
    <2>2. InFlight(d) = {}
      BY <1>1, <1>3, ThreadsAssumption DEF InFlight
    <2>3. ~Unread(obj[t], d)
      BY <1>3 DEF Unread, MemoryInv, MakersApart, Making, Saving
    <2> QED BY <1>1, <2>1, <2>2, <2>3 DEF MemoryInv, ObjectsAgree
  <1>4. CASE t = Main
    <2>1. ~Up /\ obj[t] = active /\ active \in DOMAIN heap
      BY <1>4 DEF TypeInv, TypeOK, Control, MainAt, Up, Saving
    <2>2. InFlight(d) = {} /\ ~Unread(active, d)
      BY <2>1, Starting DEF Unread, Making
    <2> QED BY <1>1, <2>1, <2>2 DEF MemoryInv, ObjectsAgree
  <1> QED BY <1>2, <1>3, <1>4

\* The steps of Save move one thread that saves, and nothing but the files.
SaveMoves(t, l) ==
    /\ pc' = [pc EXCEPT ![t] = l]
    /\ pc[t] \in Saving /\ l \in Saving
    /\ UNCHANGED <<db, req, ids>>
    /\ \A u \in Threads : pc'[u] = IF u = t THEN l ELSE pc[u]
    /\ \A d \in Docs : Settled(d) => Settled(d)'
    /\ pc'[Main] \notin Importing

LEMMA SaveMoving ==
    ASSUME TypeInv, NEW t \in Threads, pc[t] \in Saving, NEW l \in Saving, pc' = [pc EXCEPT ![t] = l],
           UNCHANGED <<db, req, ids>>
    PROVE  SaveMoves(t, l)
  <1>1. \A u \in Threads : pc'[u] = IF u = t THEN l ELSE pc[u]
    BY DEF TypeInv, TypeOK
  <1>2. \A d \in Docs : Settled(d) => Settled(d)'
    BY <1>1 DEF Settled, InFlight
  <1>3. pc'[Main] \notin Importing
    <2>1. CASE t = Main
      BY <1>1, <2>1 DEF Saving
    <2>2. CASE t # Main
      BY <1>1, <2>2 DEF TypeInv, Control, MainAt, Up, Saving
    <2> QED BY <2>1, <2>2
  <1> QED BY <1>1, <1>2, <1>3 DEF SaveMoves

LEMMA FileKinds ==
    ASSUME TypeInv
    PROVE  /\ tmpFile.kind \in {"none", "partial", "mixed", "whole"}
           /\ invFile.kind \in {"none", "partial", "mixed", "whole"}
           /\ vecFile.kind \in {"none", "partial", "mixed", "whole"}
  BY DEF TypeInv, TypeOK, FileType

LEMMA FilesSaveOpen ==
    ASSUME TypeInv, FilesInv, NEW t \in Threads, SaveOpen(t)
    PROVE  FilesInv'
  <1> SUFFICES ASSUME ~RebuildOnStart
               PROVE  FilesMade' /\ FilesAgree'
    BY DEF FilesInv
  <1>1. FilesMade /\ FilesAgree
    BY DEF FilesInv
  <1>2. SaveMoves(t, "write") /\ pc[t] = "save"
    BY SaveMoving DEF SaveOpen, Go, Saving
  <1>3. /\ tmpFile'.kind = "partial" /\ tmpFile'.open = tmpFile.open \union {t} /\ tmpFile'.taint = Docs
        /\ UNCHANGED <<invFile, vecFile>>
    BY DEF SaveOpen, Truncated
  <1>4. FilesMade'
    <2>1. Damage(tmpFile)' /\ Damage(invFile)' /\ Damage(vecFile)'
      BY <1>1, <1>3 DEF FilesMade, Damage
    <2> QED BY <1>1, <1>2, <1>3, <2>1 DEF FilesMade, SaveMoves, Between
  <1>5. Stale => Stale'
    BY <1>2, <1>3 DEF Stale, SaveMoves, Between
  <1>6. FilesAgree'
    BY <1>1, <1>2, <1>3, <1>5 DEF FilesAgree, SaveMoves
  <1> QED BY <1>4, <1>6

\* A file that a thread has written and closed.
Finished(f, t) == f.kind = "partial" /\ f.open = {t}

LEMMA ClosedDamage ==
    ASSUME NEW f, FileShape(f), NEW t \in f.open, NEW x, NEW doubt, Damage(f)
    PROVE  /\ Damage(Closed(f, t, x, doubt)) /\ Closed(f, t, x, doubt).kind # "none"
           /\ \A u : u \in f.open /\ u # t => u \in Closed(f, t, x, doubt).open
           /\ Closed(f, t, x, doubt).kind = "whole" =>
                Closed(f, t, x, doubt).data = x /\ Closed(f, t, x, doubt).taint = doubt
  <1>1. f.kind \in {"partial", "mixed"} /\ f.taint = Docs
    BY DEF Damage
  <1>2. CASE Finished(f, t)
    BY <1>2 DEF Closed, Damage, Finished
  <1>3. CASE ~Finished(f, t)
    <2>1. Closed(f, t, x, doubt) = [f EXCEPT !.kind = "mixed", !.open = @ \ {t}]
      BY <1>3 DEF Closed, Finished
    <2> QED BY <1>1, <2>1 DEF FileShape, Damage
  <1> QED BY <1>2, <1>3

LEMMA FilesSaveWrite ==
    ASSUME TypeInv, MemoryInv, FilesInv, NEW t \in Threads, SaveWrite(t)
    PROVE  FilesInv'
  <1> SUFFICES ASSUME ~RebuildOnStart
               PROVE  FilesMade' /\ FilesAgree'
    BY DEF FilesInv
  <1> DEFINE data == heap[obj[t]].inv
             doubt == Doubt(t)
  <1>1. FilesMade /\ FilesAgree
    BY DEF FilesInv
  <1>2. SaveMoves(t, "rename") /\ pc[t] = "write"
    BY SaveMoving DEF SaveWrite, Go, Saving
  <1>3. /\ tmpFile' = IF t \in tmpFile.open THEN Closed(tmpFile, t, data, doubt) ELSE tmpFile
        /\ invFile' = IF t \in invFile.open THEN Closed(invFile, t, data, doubt) ELSE invFile
        /\ vecFile' = vecFile
    BY DEF SaveWrite
  <1>4. \A d \in Docs \ doubt : Settled(d)' /\ data[d] = db[d]
    <2> SUFFICES ASSUME NEW d \in Docs \ Doubt(t)
                 PROVE  Settled(d)' /\ data[d] = db[d]
      OBVIOUS
    <2>1. Agree(obj[t], d) /\ InFlight(d) \subseteq {t}
      BY <1>2, Written DEF Saving
    <2>2. Settled(d)
      BY <1>2, <2>1 DEF Settled, Saving
    <2> QED BY <1>2, <2>1, <2>2 DEF Agree, SaveMoves
  <1> HIDE DEF data, doubt
  <1>5. /\ Damage(tmpFile') /\ (tmpFile.kind # "none" => tmpFile'.kind # "none")
        /\ tmpFile' = tmpFile \/ (tmpFile'.kind = "whole" => tmpFile'.data = data /\ tmpFile'.taint = doubt)
    BY <1>1, <1>3, ClosedDamage DEF FilesMade, TypeInv, Shapes
  <1>6. /\ Damage(invFile') /\ (invFile.kind # "none" => invFile'.kind # "none")
        /\ invFile' = invFile \/ (invFile'.kind = "whole" => invFile'.data = data /\ invFile'.taint = doubt)
    BY <1>1, <1>3, ClosedDamage DEF FilesMade, TypeInv, Shapes
  <1>7. FilesMade'
    <2>1. Damage(tmpFile)' /\ Damage(invFile)' /\ Damage(vecFile)'
      BY <1>1, <1>3, <1>5, <1>6 DEF FilesMade, Damage
    <2> QED BY <1>1, <1>2, <1>3, <1>5, <1>6, <2>1 DEF FilesMade, SaveMoves, Between
  <1>8. Stale => Stale'
    BY <1>2, <1>3, <1>5 DEF Stale, SaveMoves, Between
  <1>9. Between(t)
    BY <1>2 DEF Between
  <1>10. FilesAgree'
    <2>1. tmpFile'.kind = "whole" =>
             \A d \in Docs \ tmpFile'.taint : Settled(d)' /\ tmpFile'.data[d] = db'[d]
      <3>1. CASE tmpFile' = tmpFile
        BY <1>1, <1>2, <1>9, <3>1 DEF FilesAgree, SaveMoves
      <3>2. CASE tmpFile'.kind = "whole" => tmpFile'.data = data /\ tmpFile'.taint = doubt
        BY <1>2, <1>4, <3>2 DEF SaveMoves
      <3> QED BY <1>5, <3>1, <3>2
    <2>2. invFile'.kind = "whole" =>
             \A d \in Docs \ invFile'.taint :
                /\ Settled(d)'
                /\ db'[d] = None => invFile'.data[d] = None
                /\ invFile'.data[d] = db'[d] \/ Stale'
      <3>1. CASE invFile' = invFile
        BY <1>1, <1>2, <1>8, <3>1 DEF FilesAgree, SaveMoves
      <3>2. CASE invFile'.kind = "whole" => invFile'.data = data /\ invFile'.taint = doubt
        BY <1>2, <1>4, <3>2 DEF SaveMoves
      <3> QED BY <1>6, <3>1, <3>2
    <2>3. vecFile'.kind = "whole" =>
             \A d \in Docs \ vecFile'.taint : Settled(d)' /\ (db'[d] # None => d \in vecFile'.data)
      BY <1>1, <1>2, <1>3 DEF FilesAgree, SaveMoves
    <2> QED BY <2>1, <2>2, <2>3 DEF FilesAgree
  <1> QED BY <1>7, <1>10

LEMMA FilesSaveRename ==
    ASSUME TypeInv, FilesInv, NEW t \in Threads, SaveRename(t)
    PROVE  FilesInv'
  <1> SUFFICES ASSUME ~RebuildOnStart
               PROVE  FilesMade' /\ FilesAgree'
    BY DEF FilesInv
  <1>1. FilesMade /\ FilesAgree
    BY DEF FilesInv
  <1>2. PICK l \in {"vsave", "saved"} : pc' = [pc EXCEPT ![t] = l]
    BY DEF SaveRename, Go
  <1>3. SaveMoves(t, l) /\ pc[t] = "rename" /\ Between(t)
    BY <1>2, SaveMoving DEF SaveRename, Saving, Between
  <1>4. vecFile' = vecFile
    BY DEF SaveRename
  <1>5. CASE tmpFile.kind = "none"
    <2>1. UNCHANGED <<tmpFile, invFile>>
      BY <1>5 DEF SaveRename
    <2>2. FilesMade'
      <3>1. Damage(tmpFile)' /\ Damage(invFile)' /\ Damage(vecFile)'
        BY <1>1, <1>4, <2>1 DEF FilesMade, Damage
      <3> QED BY <1>1, <1>2, <1>3, <1>4, <1>5, <2>1, <3>1 DEF FilesMade, SaveMoves, Between
    <2>3. ~Stale
      BY <1>3, <1>5 DEF Stale
    <2>4. FilesAgree'
      BY <1>1, <1>3, <1>4, <1>5, <2>1, <2>3 DEF FilesAgree, SaveMoves
    <2> QED BY <2>2, <2>4
  <1>6. CASE tmpFile.kind # "none"
    <2>1. invFile' = tmpFile /\ tmpFile'.kind = "none" /\ tmpFile'.open = {}
      BY <1>6 DEF SaveRename, NoFile
    <2>2. FilesMade'
      <3>1. Damage(tmpFile)' /\ Damage(invFile)' /\ Damage(vecFile)'
        BY <1>1, <1>4, <2>1 DEF FilesMade, Damage
      <3> QED BY <1>1, <1>2, <1>3, <1>4, <1>6, <2>1, <3>1 DEF FilesMade, SaveMoves, Between
    <2>3. FilesAgree'
      BY <1>1, <1>3, <1>4, <2>1 DEF FilesAgree, SaveMoves
    <2> QED BY <2>2, <2>3
  <1> QED BY <1>5, <1>6

LEMMA FilesVecOpen ==
    ASSUME TypeInv, FilesInv, NEW t \in Threads, VecOpen(t)
    PROVE  FilesInv'
  <1> SUFFICES ASSUME ~RebuildOnStart
               PROVE  FilesMade' /\ FilesAgree'
    BY DEF FilesInv
  <1>1. FilesMade /\ FilesAgree
    BY DEF FilesInv
  <1>2. SaveMoves(t, "vwrite") /\ pc[t] = "vsave"
    BY SaveMoving DEF VecOpen, Go, Saving
  <1>3. /\ vecFile'.kind = "partial" /\ vecFile'.open = vecFile.open \union {t} /\ vecFile'.taint = Docs
        /\ UNCHANGED <<tmpFile, invFile>>
    BY DEF VecOpen, Truncated
  <1>4. FilesMade'
    <2>1. Damage(tmpFile)' /\ Damage(invFile)' /\ Damage(vecFile)'
      BY <1>1, <1>3 DEF FilesMade, Damage
    <2> QED BY <1>1, <1>2, <1>3, <2>1 DEF FilesMade, SaveMoves, Between
  <1>5. ~Stale
    BY <1>2 DEF Stale
  <1>6. \A u \in Threads : Between(u)' => Between(u)
    BY <1>2 DEF SaveMoves, Between
  <1>7. FilesAgree'
    BY <1>1, <1>2, <1>3, <1>5, <1>6 DEF FilesAgree, SaveMoves
  <1> QED BY <1>4, <1>7

LEMMA FilesVecWrite ==
    ASSUME TypeInv, MemoryInv, FilesInv, NEW t \in Threads, VecWrite(t)
    PROVE  FilesInv'
  <1> SUFFICES ASSUME ~RebuildOnStart
               PROVE  FilesMade' /\ FilesAgree'
    BY DEF FilesInv
  <1> DEFINE data == heap[obj[t]].vec
             doubt == Doubt(t)
  <1>1. FilesMade /\ FilesAgree
    BY DEF FilesInv
  <1>2. SaveMoves(t, "saved") /\ pc[t] = "vwrite"
    BY SaveMoving DEF VecWrite, Go, Saving
  <1>3. vecFile' = Closed(vecFile, t, data, doubt) /\ UNCHANGED <<tmpFile, invFile>> /\ t \in vecFile.open
    BY <1>1, <1>2 DEF VecWrite, FilesMade
  <1>4. \A d \in Docs \ doubt : Settled(d)' /\ (db[d] # None => d \in data)
    <2> SUFFICES ASSUME NEW d \in Docs \ Doubt(t)
                 PROVE  Settled(d)' /\ (db[d] # None => d \in data)
      OBVIOUS
    <2>1. Agree(obj[t], d) /\ InFlight(d) \subseteq {t}
      BY <1>2, Written DEF Saving
    <2>2. Settled(d)
      BY <1>2, <2>1 DEF Settled, Saving
    <2> QED BY <1>2, <2>1, <2>2 DEF Agree, SaveMoves
  <1> HIDE DEF data, doubt
  <1>5. /\ Damage(vecFile') /\ vecFile'.kind # "none"
        /\ \A u : u \in vecFile.open /\ u # t => u \in vecFile'.open
        /\ vecFile'.kind = "whole" => vecFile'.data = data /\ vecFile'.taint = doubt
    BY <1>1, <1>3, ClosedDamage DEF FilesMade, TypeInv, Shapes
  <1>6. FilesMade'
    <2>1. Damage(tmpFile)' /\ Damage(invFile)' /\ Damage(vecFile)'
      BY <1>1, <1>3, <1>5 DEF FilesMade, Damage
    <2> QED BY <1>1, <1>2, <1>3, <1>5, <2>1 DEF FilesMade, SaveMoves, Between
  <1>7. ~Stale
    BY <1>2 DEF Stale
  <1>8. \A u \in Threads : Between(u)' => Between(u)
    BY <1>2 DEF SaveMoves, Between
  <1>9. FilesAgree'
    <2>1. (\E u \in Threads : Between(u))' /\ tmpFile'.kind = "whole" =>
             \A d \in Docs \ tmpFile'.taint : Settled(d)' /\ tmpFile'.data[d] = db'[d]
      BY <1>1, <1>2, <1>3, <1>8 DEF FilesAgree, SaveMoves
    <2>2. invFile'.kind = "whole" =>
             \A d \in Docs \ invFile'.taint :
                /\ Settled(d)'
                /\ db'[d] = None => invFile'.data[d] = None
                /\ invFile'.data[d] = db'[d] \/ Stale'
      BY <1>1, <1>2, <1>3, <1>7 DEF FilesAgree, SaveMoves
    <2>3. vecFile'.kind = "whole" =>
             \A d \in Docs \ vecFile'.taint : Settled(d)' /\ (db'[d] # None => d \in vecFile'.data)
      BY <1>2, <1>4, <1>5 DEF SaveMoves
    <2> QED BY <2>1, <2>2, <2>3 DEF FilesAgree
  <1> QED BY <1>6, <1>9

\* A request that begins puts its document in doubt in every file.
LEMMA FilesBegin ==
    ASSUME TypeInv, FilesInv, NEW c \in Clients, NEW op, NEW d \in Docs, NEW v, Begin(c, op, d, v),
           NEW l \in {"put", "get"}, pc' = [pc EXCEPT ![c] = l],
           \A e \in Docs \ {d} : db'[e] = db[e]
    PROVE  FilesInv'
  <1> SUFFICES ASSUME ~RebuildOnStart
               PROVE  FilesMade' /\ FilesAgree'
    BY DEF FilesInv
  <1>1. FilesMade /\ FilesAgree
    BY DEF FilesInv
  <1>2. \A t \in Threads : pc'[t] = IF t = c THEN l ELSE pc[t]
    BY DEF TypeInv, TypeOK
  <1>3. Up /\ pc[c] = "idle" /\ req' = [req EXCEPT ![c] = [op |-> op, doc |-> d, content |-> v]]
    BY DEF Begin
  <1>4. /\ tmpFile' = Doubted(tmpFile, d) /\ invFile' = Doubted(invFile, d) /\ vecFile' = Doubted(vecFile, d)
        /\ FileShape(tmpFile) /\ FileShape(invFile) /\ FileShape(vecFile)
    BY DEF Begin, TypeInv, Shapes
  <1>5. /\ tmpFile'.kind = tmpFile.kind /\ tmpFile'.open = tmpFile.open /\ tmpFile'.data = tmpFile.data
        /\ tmpFile'.taint = tmpFile.taint \union {d}
    BY <1>4 DEF Doubted, FileShape
  <1>6. /\ invFile'.kind = invFile.kind /\ invFile'.open = invFile.open /\ invFile'.data = invFile.data
        /\ invFile'.taint = invFile.taint \union {d}
    BY <1>4 DEF Doubted, FileShape
  <1>7. /\ vecFile'.kind = vecFile.kind /\ vecFile'.open = vecFile.open /\ vecFile'.data = vecFile.data
        /\ vecFile'.taint = vecFile.taint \union {d}
    BY <1>4 DEF Doubted, FileShape
  <1>8. \A t \in Threads : (Between(t)' <=> Between(t)) /\ (pc'[t] \in {"vsave", "vwrite"} <=> pc[t] \in {"vsave", "vwrite"})
                            /\ (pc'[t] = "vwrite" <=> pc[t] = "vwrite")
    BY <1>2, <1>3 DEF Between
  <1>9. pc'[Main] \notin Importing
    BY <1>2, <1>3, ThreadsAssumption DEF Up
  <1>10. FilesMade'
    <2>1. Damage(tmpFile)' /\ Damage(invFile)' /\ Damage(vecFile)'
      BY <1>1, <1>5, <1>6, <1>7 DEF FilesMade, Damage
    <2> QED BY <1>1, <1>5, <1>6, <1>7, <1>8, <1>9, <2>1 DEF FilesMade
  <1>11. Stale => Stale'
    BY <1>5, <1>7, <1>8 DEF Stale
  <1>12. \A e \in Docs \ {d} : Settled(e) => Settled(e)'
    <2>1. \A a \in Clients \ {c} : req'[a] = req[a] /\ pc'[a] = pc[a]
      BY <1>2, <1>3 DEF TypeInv, TypeOK
    <2>2. req'[c].doc = d
      BY <1>3 DEF TypeInv, TypeOK
    <2> QED BY <2>1, <2>2 DEF Settled, InFlight
  <1>13. FilesAgree'
    <2>1. (\E u \in Threads : Between(u))' /\ tmpFile'.kind = "whole" =>
             \A e \in Docs \ tmpFile'.taint : Settled(e)' /\ tmpFile'.data[e] = db'[e]
      BY <1>1, <1>5, <1>8, <1>12 DEF FilesAgree
    <2>2. invFile'.kind = "whole" =>
             \A e \in Docs \ invFile'.taint :
                /\ Settled(e)'
                /\ db'[e] = None => invFile'.data[e] = None
                /\ invFile'.data[e] = db'[e] \/ Stale'
      BY <1>1, <1>6, <1>11, <1>12 DEF FilesAgree
    <2>3. vecFile'.kind = "whole" =>
             \A e \in Docs \ vecFile'.taint : Settled(e)' /\ (db'[e] # None => e \in vecFile'.data)
      BY <1>1, <1>7, <1>12 DEF FilesAgree
    <2> QED BY <2>1, <2>2, <2>3 DEF FilesAgree
  <1> QED BY <1>10, <1>13

LEMMA FilesRequest ==
    ASSUME TypeInv, FilesInv, NEW c \in Clients, NEW d \in Docs,
           DeleteRow(c, d) \/ \E v \in Contents : AddLock(c, d, v)
    PROVE  FilesInv'
  <1>1. CASE DeleteRow(c, d)
    <2>1. \A e \in Docs \ {d} : db'[e] = db[e]
      BY <1>1 DEF DeleteRow, TypeInv, TypeOK, Held
    <2>2. Begin(c, "delete", d, None) /\ pc' = [pc EXCEPT ![c] = "get"]
      BY <1>1 DEF DeleteRow, Go
    <2> QED BY <2>1, <2>2, FilesBegin
  <1>2. CASE \E v \in Contents : AddLock(c, d, v)
    <2>1. PICK v \in Contents : AddLock(c, d, v)
      BY <1>2
    <2>2. Begin(c, "add", d, v) /\ pc' = [pc EXCEPT ![c] = "put"] /\ db' = db
      BY <2>1 DEF AddLock, Go
    <2> QED BY <2>2, FilesBegin
  <1> QED BY <1>1, <1>2

LEMMA FilesBootBuild == TypeInv /\ FilesInv /\ BootBuild => FilesInv'
  <1> SUFFICES ASSUME TypeInv, FilesInv, BootBuild, ~RebuildOnStart
               PROVE  FilesMade' /\ FilesAgree'
    BY DEF FilesInv
  <1>1. FilesMade /\ FilesAgree
    BY DEF FilesInv
  <1>2. /\ UNCHANGED <<db, req, tmpFile, invFile, vecFile>> /\ pc[Main] = "boot"
        /\ invFile.kind = "none" \/ vecFile.kind # "whole"
        /\ \E X \in {Stored(Sample), {}} : ids' = [ids EXCEPT ![Main] = X]
    BY DEF BootBuild, files
  <1>3. PICK l \in {"save", "up", "import"} : pc' = [pc EXCEPT ![Main] = l]
    BY DEF BootBuild, Go
  <1>4. \A t \in Threads : pc'[t] = IF t = Main THEN l ELSE pc[t]
    BY <1>3 DEF TypeInv, TypeOK
  <1>5. ids'[Main] \subseteq Stored(Sample)
    BY <1>2 DEF TypeInv, TypeOK
  <1>6. FilesMade'
    <2>1. Damage(tmpFile)' /\ Damage(invFile)' /\ Damage(vecFile)'
      BY <1>1, <1>2 DEF FilesMade, Damage
    <2> QED BY <1>1, <1>2, <1>4, <1>5, <2>1 DEF FilesMade, Between
  <1>7. Stale => Stale'
    BY <1>2, <1>4 DEF Stale, Between
  <1>8. \A t \in Threads : Between(t)' => Between(t)
    BY <1>4 DEF Between
  <1>9. \A d \in Docs : Settled(d) => Settled(d)'
    BY <1>2, <1>4, ThreadsAssumption DEF Settled, InFlight
  <1>10. FilesAgree'
    BY <1>1, <1>2, <1>7, <1>8, <1>9 DEF FilesAgree
  <1> QED BY <1>6, <1>10

LEMMA FilesBootImport ==
    ASSUME TypeInv, FilesInv, NEW d \in Docs, BootImport(d)
    PROVE  FilesInv'
  <1>1. /\ UNCHANGED <<db, req, ids, files>> /\ pc[Main] = "import" /\ pc' = [pc EXCEPT ![Main] = "store"]
    BY DEF BootImport, Go
  <1>2. \A t \in Threads : pc'[t] = IF t = Main THEN "store" ELSE pc[t]
    BY <1>1 DEF TypeInv, TypeOK
  <1>3. \A e \in Docs : Settled(e) => Settled(e)' /\ db'[e] = db[e]
    BY <1>1, <1>2, ThreadsAssumption DEF Settled, InFlight
  <1> QED BY <1>1, <1>2, <1>3, FilesStay DEF Writing

LEMMA FilesBootStore ==
    ASSUME TypeInv, FilesInv, NEW d \in Docs, BootStore(d)
    PROVE  FilesInv'
  <1> SUFFICES ASSUME ~RebuildOnStart
               PROVE  FilesMade' /\ FilesAgree'
    BY DEF FilesInv
  <1>1. FilesMade /\ FilesAgree
    BY DEF FilesInv
  <1>2. /\ UNCHANGED <<req, tmpFile, invFile, vecFile>> /\ pc[Main] = "store" /\ d \in ids[Main]
        /\ (db' = [db EXCEPT ![d] = Sample[d]]) \/ db' = db
        /\ ids' = [ids EXCEPT ![Main] = @ \ {d}]
    BY DEF BootStore, files
  <1>3. PICK l \in {"save", "import"} : pc' = [pc EXCEPT ![Main] = l]
    BY DEF BootStore, Go
  <1>4. \A t \in Threads : pc'[t] = IF t = Main THEN l ELSE pc[t]
    BY <1>3 DEF TypeInv, TypeOK
  <1>5. \A t \in Threads \ {Main} : pc[t] = "idle"
    BY <1>2 DEF TypeInv, Control, MainAt, Up
  <1>6. vecFile.kind # "whole" /\ ids[Main] \subseteq Stored(Sample) /\ ids'[Main] \subseteq ids[Main]
    BY <1>1, <1>2 DEF FilesMade, TypeInv, TypeOK
  <1>7. FilesMade'
    <2>1. Damage(tmpFile)' /\ Damage(invFile)' /\ Damage(vecFile)'
      BY <1>1, <1>2 DEF FilesMade, Damage
    <2> QED BY <1>1, <1>2, <1>4, <1>6, <2>1 DEF FilesMade, Between
  <1>8. Stale' /\ \A t \in Threads : ~Between(t)'
    BY <1>2, <1>4, <1>5, <1>6 DEF Stale, Between
  <1>9. \A e \in Docs : Settled(e) => Settled(e)'
    BY <1>2, <1>4, ThreadsAssumption DEF Settled, InFlight
  <1>10. \A e \in Docs : db'[e] = None => db[e] = None
    <2>1. Sample[d] # None
      BY <1>2, <1>6 DEF Stored
    <2> QED BY <1>2, <2>1 DEF TypeInv, TypeOK, Held
  <1>11. FilesAgree'
    BY <1>1, <1>2, <1>6, <1>8, <1>9, <1>10 DEF FilesAgree
  <1> QED BY <1>7, <1>11

LEMMA FilesCrash == TypeInv /\ FilesInv /\ Crash => FilesInv'
  <1> SUFFICES ASSUME TypeInv, FilesInv, Crash, ~RebuildOnStart
               PROVE  FilesMade' /\ FilesAgree'
    BY DEF FilesInv
  <1>1. FilesMade /\ FilesAgree
    BY DEF FilesInv
  <1>2. \A t \in Threads : pc'[t] \in {"boot", "idle"}
    BY DEF Crash
  <1>3. pc'[Main] = "boot" /\ db' = db /\ \A d \in Docs : InFlight(d)' = {}
    BY NoneAssumption DEF Crash, InFlight, NoRequest
  <1>4. /\ tmpFile' = [tmpFile EXCEPT !.open = {}] /\ invFile' = [invFile EXCEPT !.open = {}]
        /\ vecFile' = [vecFile EXCEPT !.open = {}]
        /\ FileShape(tmpFile) /\ FileShape(invFile) /\ FileShape(vecFile)
    BY DEF Crash, TypeInv, Shapes
  <1>5. tmpFile'.kind = tmpFile.kind /\ tmpFile'.open = {} /\ tmpFile'.taint = tmpFile.taint
    BY <1>4 DEF FileShape
  <1>6. /\ invFile'.kind = invFile.kind /\ invFile'.open = {} /\ invFile'.data = invFile.data
        /\ invFile'.taint = invFile.taint
    BY <1>4 DEF FileShape
  <1>7. /\ vecFile'.kind = vecFile.kind /\ vecFile'.open = {} /\ vecFile'.data = vecFile.data
        /\ vecFile'.taint = vecFile.taint
    BY <1>4 DEF FileShape
  <1>8. FilesMade'
    <2>1. Damage(tmpFile)' /\ Damage(invFile)' /\ Damage(vecFile)'
      BY <1>1, <1>5, <1>6, <1>7 DEF FilesMade, Damage
    <2> QED BY <1>1, <1>2, <1>3, <1>6, <1>7, <2>1 DEF FilesMade, Between
  <1>9. Stale => Stale'
    BY <1>2, <1>7 DEF Stale, Between
  <1>10. \A d \in Docs : Settled(d)'
    BY <1>3 DEF Settled
  <1>11. \A t \in Threads : ~Between(t)'
    BY <1>2 DEF Between
  <1>12. FilesAgree'
    BY <1>1, <1>3, <1>6, <1>7, <1>9, <1>10, <1>11 DEF FilesAgree
  <1> QED BY <1>8, <1>12

-----------------------------------------------------------------------------
(* Start-up: the index that is loaded or built agrees with docs.db.        *)

LEMMA Booted ==
    ASSUME TypeInv, pc[Main] = "boot", NEW inv, NEW vec, NEW doubt, NewObject(inv, vec, doubt)
    PROVE  /\ DOMAIN heap' = {1} /\ active' = 1
           /\ heap'[1].inv = inv /\ heap'[1].vec = vec /\ taint'[1] = doubt
  <1>1. heap = <<>> /\ taint \in Seq(SUBSET Docs) /\ Len(taint) = Len(heap)
    BY DEF TypeInv, TypeOK, Control, MainAt
  <1>2. heap' = <<[inv |-> inv, vec |-> vec]>> /\ active' = 1
    BY <1>1 DEF NewObject
  <1>3. Len(taint) = 0 /\ taint' = Append(taint, doubt)
    BY <1>1 DEF NewObject
  <1>4. taint'[1] = doubt
    BY <1>1, <1>3
  <1> QED BY <1>2, <1>4

LEMMA MemoryBootLoad == TypeInv /\ TypeInv' /\ FilesInv /\ BootLoad => MemoryInv'
  <1> SUFFICES ASSUME TypeInv, TypeInv', FilesInv, BootLoad
               PROVE  MemoryInv'
    OBVIOUS
  <1>1. PICK inv \in Readings(invFile, Held), vec \in Readings(vecFile, SUBSET Docs) :
             NewObject(inv, vec, invFile.taint \union vecFile.taint)
    BY DEF BootLoad
  <1>2. /\ pc[Main] = "boot" /\ ~Up /\ UNCHANGED <<db, req>> /\ pc' = [pc EXCEPT ![Main] = "up"]
        /\ invFile.kind # "none" /\ vecFile.kind # "none"
    BY DEF BootLoad, Up, Go
  <1>3. FilesMade /\ FilesAgree
    BY DEF FilesInv, BootLoad
  <1>4. /\ DOMAIN heap' = {1} /\ active' = 1
        /\ heap'[1].inv = inv /\ heap'[1].vec = vec /\ taint'[1] = invFile.taint \union vecFile.taint
    BY <1>1, <1>2, Booted
  <1>5. ASSUME NEW d \in Docs \ taint'[active']
        PROVE  Agree(active, d)'
    <2>1. d \notin invFile.taint /\ d \notin vecFile.taint
      BY <1>4, <1>5
    <2>2. invFile.kind = "whole" /\ vecFile.kind = "whole"
      BY <1>2, <1>3, <2>1, FileKinds DEF FilesMade, Damage
    <2>3. inv = invFile.data /\ vec = vecFile.data
      BY <2>2 DEF Readings
    <2>4. inv[d] = db[d] /\ (db[d] # None => d \in vec)
      BY <1>3, <2>1, <2>2, <2>3 DEF FilesAgree, Stale
    <2> QED BY <1>2, <1>4, <2>4 DEF Agree
  <1> QED BY <1>2, <1>4, <1>5, MemoryStarts

LEMMA MemoryBootBuild == TypeInv /\ TypeInv' /\ FilesInv /\ BootBuild => MemoryInv'
  <1> SUFFICES ASSUME TypeInv, TypeInv', FilesInv, BootBuild
               PROVE  MemoryInv'
    OBVIOUS
  <1> DEFINE read == ~RebuildOnStart /\ invFile.kind # "none"
             held(old, found) == [d \in Docs |-> IF d \in found THEN db[d] ELSE old[d]]
             doubt(found) == (IF read THEN invFile.taint ELSE {}) \union (Stored(db) \ found)
  <1>1. PICK old \in IF read THEN Readings(invFile, Held) ELSE {Empty}, found \in SUBSET Stored(db) :
             NewObject(held(old, found), found, doubt(found))
    BY DEF BootBuild
  <1>2. pc[Main] = "boot" /\ ~Up /\ UNCHANGED <<db, req>>
    BY DEF BootBuild, Up
  <1>3. PICK l \in {"save", "up", "import"} : pc' = [pc EXCEPT ![Main] = l]
    BY DEF BootBuild, Go
  <1>4. /\ DOMAIN heap' = {1} /\ active' = 1
        /\ heap'[1].inv = held(old, found) /\ heap'[1].vec = found /\ taint'[1] = doubt(found)
    <2> HIDE DEF held, doubt
    <2> QED BY <1>1, <1>2, Booted
  <1>5. ASSUME NEW d \in Docs \ taint'[active']
        PROVE  Agree(active, d)'
    <2>1. CASE db[d] # None
      <3>1. heap'[1].inv[d] = db[d] /\ d \in heap'[1].vec
        BY <1>4, <1>5, <2>1 DEF Stored
      <3> QED BY <1>2, <1>4, <3>1 DEF Agree
    <2>2. CASE db[d] = None
      <3>1. old[d] = None
        <4>1. CASE ~read
          BY <1>1, <4>1 DEF Empty
        <4>2. CASE read
          <5>1. d \notin invFile.taint
            BY <1>4, <1>5, <4>2
          <5>2. FilesMade /\ FilesAgree
            BY <4>2 DEF FilesInv
          <5>3. invFile.kind = "whole"
            BY <4>2, <5>1, <5>2, FileKinds DEF FilesMade, Damage
          <5>4. old = invFile.data
            BY <1>1, <4>2, <5>3 DEF Readings
          <5> QED BY <2>2, <5>1, <5>2, <5>3, <5>4 DEF FilesAgree
        <4> QED BY <4>1, <4>2
      <3>2. heap'[1].inv[d] = None
        BY <1>4, <2>2, <3>1 DEF Stored
      <3> QED BY <1>2, <1>4, <2>2, <3>2 DEF Agree
    <2> QED BY <2>1, <2>2
  <1>6. DOMAIN heap' \subseteq {active'}
    BY <1>4
  <1> QED BY <1>2, <1>3, <1>5, <1>6, MemoryStarts

-----------------------------------------------------------------------------
(* The invariant of the documents.                                         *)

LEMMA CorpusInit == Init => CorpusInv
  BY TypeInit, MemoryInit, ImportInit, FilesInit DEF CorpusInv

LEMMA CorpusNext == CorpusInv /\ [Next]_vars => CorpusInv'
  <1> SUFFICES ASSUME TypeInv, MemoryInv, ImportInv, FilesInv, [Next]_vars
               PROVE  MemoryInv' /\ FilesInv'
    BY TypeNext, ImportNext DEF CorpusInv
  <1>0. TypeInv'
    BY TypeNext
  <1>1. ASSUME NEW t \in Threads, Save(t)
        PROVE  MemoryInv' /\ FilesInv'
    BY <1>1, MemorySave, FilesSaveOpen, FilesSaveWrite, FilesSaveRename, FilesVecOpen, FilesVecWrite DEF Save
  <1>2. CASE Boot
    <2>1. CASE BootLoad
      BY <1>0, <2>1, MemoryBootLoad, FilesOthers
    <2>2. CASE BootBuild
      BY <1>0, <2>2, MemoryBootBuild, FilesBootBuild
    <2>3. CASE \E d \in Docs : BootImport(d) \/ BootStore(d)
      BY <1>0, <2>3, MemoryBootImport, MemoryBootStore, FilesBootImport, FilesBootStore
    <2>4. CASE BootDone
      BY <2>4, MemoryOthers, FilesOthers
    <2> QED BY <1>1, <1>2, <2>1, <2>2, <2>3, <2>4 DEF Boot
  <1>3. CASE Crash
    BY <1>3, MemoryCrash, FilesCrash
  <1>4. CASE \E c \in Clients, d \in Docs : DeleteRow(c, d) \/ \E v \in Contents : AddLock(c, d, v)
    BY <1>4, MemoryDeleteRow, MemoryAddLock, FilesRequest
  <1>5. CASE \E c \in Clients : Serve(c)
    <2> PICK c \in Clients : Serve(c)
      BY <1>5
    <2>1. CASE Save(c)
      BY <1>1, <2>1
    <2>2. CASE \/ AddPut(c) \/ AddPutFails(c) \/ AddInv(c) \/ AddVec(c) \/ AddDone(c)
               \/ DeleteGet(c) \/ DeleteRemove(c)
      <3>1. MemoryInv'
        BY <1>0, <2>2, MemoryAddPut, MemoryAddEnds, MemoryAddInv, MemoryAddVec, MemoryDeleteGet, MemoryDeleteRemove
      <3>2. FilesInv'
        BY <2>2, FilesServe
      <3> QED BY <3>1, <3>2
    <2> QED BY <2>1, <2>2 DEF Serve
  <1>6. CASE \E b \in Rebuilders : RebuildStart(b) \/ Rebuild(b)
    <2> PICK b \in Rebuilders : RebuildStart(b) \/ Rebuild(b)
      BY <1>6
    <2>1. CASE Save(b)
      BY <1>1, <2>1
    <2>2. CASE \/ RebuildStart(b) \/ RebuildProvider(b) \/ RebuildSwap(b) \/ RebuildDone(b)
               \/ \E d \in Docs : RebuildRead(b, d)
      <3>1. MemoryInv'
        BY <2>2, MemoryRebuildStart, MemoryOthers, MemoryRebuildRead, MemoryRebuildSwap
      <3>2. FilesInv'
        BY <2>2, FilesOthers
      <3> QED BY <3>1, <3>2
    <2> QED BY <2>1, <2>2 DEF Rebuild
  <1>7. CASE Search \/ UNCHANGED vars
    BY <1>7, MemoryOthers, FilesOthers
  <1> QED BY <1>2, <1>3, <1>4, <1>5, <1>6, <1>7 DEF Next, Waiting

LEMMA CorpusAlways == Spec => []CorpusInv
  <1>1. Init => CorpusInv
    BY CorpusInit
  <1>2. CorpusInv /\ [Next]_vars => CorpusInv'
    BY CorpusNext
  <1> QED BY <1>1, <1>2, PTL DEF Spec

\* AppContext's indexes and docs.db: on every document that no request is busy
\* with and that is not in doubt, the active indexes hold what the table holds,
\* through any requests, imports, background rebuilds, crashes and restarts, and
\* whatever statements on docs.db fail: a failure the code ignores puts the
\* document it was about in doubt, and no other.
THEOREM IndexFollowsTable == Spec => []IndexAgrees
  <1>1. CorpusInv => IndexAgrees
    <2> SUFFICES ASSUME CorpusInv, Up, NEW d \in Docs, InFlight(d) = {}, d \notin taint[active]
                 PROVE  Agree(active, d)
      BY DEF IndexAgrees
    <2>1. active \in DOMAIN heap
      BY DEF CorpusInv, TypeInv, TypeOK, Control, MainAt, Up
    <2>2. ~Unread(active, d)
      BY DEF Unread, CorpusInv, MemoryInv, MakersApart
    <2> QED BY <2>1, <2>2 DEF CorpusInv, MemoryInv, ObjectsAgree
  <1> QED BY <1>1, CorpusAlways, PTL

\* AddDocument writes docs.db before the indexes: the active index never shows
\* a document that docs.db has not got, but for a delete that is under way or a
\* document in doubt, such as one the first import could not store.
THEOREM TableIsFirst == Spec => []WriteAhead
  <1>1. CorpusInv => WriteAhead
    <2> SUFFICES ASSUME CorpusInv, Up, NEW d \in Docs, heap[active].inv[d] # None, db[d] = None,
                        d \notin taint[active]
                 PROVE  \E c \in InFlight(d) : req[c].op = "delete"
      BY DEF WriteAhead
    <2>1. active \in DOMAIN heap /\ ~Agree(active, d)
      BY DEF CorpusInv, TypeInv, TypeOK, Control, MainAt, Up, Agree
    <2>2. ~Unread(active, d)
      BY DEF Unread
    <2>3. InFlight(d) # {}
      BY <2>1, <2>2 DEF CorpusInv, MemoryInv, ObjectsAgree
    <2>4. PICK c \in Clients : req[c].doc = d
      BY <2>3 DEF InFlight
    <2>5. Progress(c, d)
      BY <2>4 DEF CorpusInv, MemoryInv, RequestsAgree
    <2>6. pc[c] # "idle"
      BY <2>4, NoneAssumption DEF CorpusInv, TypeInv, Control, ClientAt, Adding, Saving, NoRequest
    <2>7. pc[c] \notin Adding
      <3>1. CASE pc[c] \in {"put"} \union Saving
        BY <2>1, <2>5, <3>1 DEF Progress
      <3>2. CASE pc[c] \in {"inv", "vec"}
        <4>1. req[c].content \in Contents /\ db[d] = req[c].content
          BY <2>5, <2>6, <3>2, Working DEF Progress, CorpusInv, Adding
        <4> QED BY <4>1, NoneAssumption
      <3> QED BY <3>1, <3>2 DEF Adding
    <2> QED BY <2>4, <2>6, <2>7, Working DEF CorpusInv, InFlight
  <1> QED BY <1>1, CorpusAlways, PTL

=============================================================================
