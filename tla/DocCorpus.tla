----------------------------- MODULE DocCorpus -----------------------------
(***************************************************************************)
(* The documents and their indexes: docs.db (DocStore), the active pair of *)
(* indexes of AppContext, the index files, the requests that add and       *)
(* delete documents (DocHandler), the rebuild in the background or from    *)
(* the admin page (IndexRebuildTask), start-up (AppContext::Initialize)    *)
(* and the index the keyword recall searches (InvertedRecallProcessor).    *)
(*                                                                         *)
(* Every step is one critical section, one SQLite statement or one file    *)
(* operation.  A crash may come between any two.  An index object is       *)
(* abstracted to the content it holds for each document, which is what     *)
(* InvertedIndex implements, and to the documents that have a vector.      *)
(* Every SQLite statement may fail: a docs.db that did not open, with      *)
(* which Initialize goes on, is one where all of them do.                  *)
(***************************************************************************)
EXTENDS Integers, Sequences, FiniteSets

CONSTANTS
    Docs,            \* document ids
    Contents,        \* what a document may contain
    None,            \* no document
    Sample,          \* content of data/sample_docs.json: [Docs -> Contents or None]
    Clients,         \* HTTP threads that serve doc/add, doc/update and doc/delete
    Rebuilders,      \* threads that run RebuildAtomically
    Main,            \* the thread that runs Initialize
    RebuildOnStart,  \* index.rebuild_on_start of framework.yaml (shipped: false)
    MaxRequests, MaxRebuilds, MaxCrashes    \* bounds

Threads == Clients \union Rebuilders \union {Main}
Held == [Docs -> Contents \union {None}]

ASSUME NoneAssumption == None \notin Contents \union Docs \union Clients
ASSUME SampleAssumption == Sample \in Held
ASSUME ThreadsAssumption ==
    Clients \intersect Rebuilders = {} /\ Main \notin Clients \union Rebuilders
ASSUME StartAssumption == RebuildOnStart \in BOOLEAN

VARIABLES
    db,         \* table docs of docs.db
    heap,       \* the index objects made since start-up: [inv, vec]
    active,     \* AppContext::inverted_index_ and vector_index_, by position in heap
    recall,     \* InvertedRecallProcessor::index_, 0 before the first search
    mutex,      \* holder of AppContext::mutex_, or None
    pc,         \* where each thread is
    req,        \* the document request a client serves
    obj,        \* the index object a thread works on
    ids,        \* documents a rebuild or an import has still to process
    tmpFile,    \* inverted.idx.tmp
    invFile,    \* inverted.idx
    vecFile,    \* vector.faiss
    requests, rebuilds, crashes,    \* counters of the bounds
    taint,      \* history: documents on which an index object may differ from db,
                \* because requests overlapped on them or overlapped its construction,
                \* or because a statement that read or stored their row for it failed
    overlapped  \* history: two calls of InvertedIndex::Save have overlapped

memory == <<heap, active, recall, mutex>>
files == <<tmpFile, invFile, vecFile>>
counters == <<requests, rebuilds, crashes>>
history == <<taint, overlapped>>
vars == <<db, memory, pc, req, obj, ids, files, counters, history>>

NoRequest == [op |-> "none", doc |-> None, content |-> None]
NoFile == [kind |-> "none", open |-> {}, data |-> None, taint |-> {}]
Empty == [d \in Docs |-> None]
Stored(h) == {d \in Docs : h[d] # None}

Up == pc[Main] = "up"
MutexFree == mutex = None
InFlight(d) == {c \in Clients : req[c].doc = d}
BusyDocs == {req[c].doc : c \in Clients} \ {None}

\* InvertedIndex::rwlock_ is held shared through Save, rename included, and
\* VectorIndex::rwlock_ exclusively through VectorIndex::Save.
SavingInv(o) == \E t \in Threads : pc[t] \in {"write", "rename"} /\ obj[t] = o
SavingVec(o) == \E t \in Threads : pc[t] = "vwrite" /\ obj[t] = o

Go(t, label) == pc' = [pc EXCEPT ![t] = label]

Init ==
    /\ db = Empty
    /\ heap = <<>>
    /\ active = 0
    /\ recall = 0
    /\ mutex = None
    /\ pc = [t \in Threads |-> IF t = Main THEN "boot" ELSE "idle"]
    /\ req = [c \in Clients |-> NoRequest]
    /\ obj = [t \in Threads |-> 0]
    /\ ids = [t \in Rebuilders \union {Main} |-> {}]
    /\ tmpFile = NoFile
    /\ invFile = NoFile
    /\ vecFile = NoFile
    /\ requests = 0 /\ rebuilds = 0 /\ crashes = 0
    /\ taint = <<>>
    /\ overlapped = FALSE

-----------------------------------------------------------------------------
(* Files.  A truncated file with one writer becomes whole when it is       *)
(* closed; with two writers it is a mixture of what they wrote.            *)

Truncated(f, t) == [kind |-> "partial", open |-> f.open \union {t}, data |-> None, taint |-> Docs]

Closed(f, t, data, doubt) ==
    IF f.kind = "partial" /\ f.open = {t}
      THEN [kind |-> "whole", open |-> {}, data |-> data, taint |-> doubt]
      ELSE [f EXCEPT !.kind = "mixed", !.open = @ \ {t}]

Doubted(f, d) == [f EXCEPT !.taint = @ \union {d}]

\* What the file of object obj[t] may be wrong about when t writes it.
Doubt(t) == taint[obj[t]] \union ({req[c].doc : c \in Clients \ {t}} \ {None})

\* What reading a file yields: what was written, or anything if it is damaged.
Readings(f, all) == IF f.kind = "whole" THEN {f.data} ELSE all

(* InvertedIndex::Save and VectorIndex::Save of object obj[t].             *)

\* Mutant: Save truncates inverted.idx itself.
SaveInPlace(t) ==
    /\ pc[t] = "save"
    /\ invFile' = Truncated(invFile, t)
    /\ overlapped' = (overlapped \/ \E u \in Threads \ {t} : pc[u] \in {"write", "rename"})
    /\ Go(t, "write")
    /\ UNCHANGED <<db, memory, req, obj, ids, tmpFile, vecFile, counters, taint>>

SaveOpen(t) ==
    /\ pc[t] = "save"
    /\ tmpFile' = Truncated(tmpFile, t)
    /\ overlapped' = (overlapped \/ \E u \in Threads \ {t} : pc[u] \in {"write", "rename"})
    /\ Go(t, "write")
    /\ UNCHANGED <<db, memory, req, obj, ids, invFile, vecFile, counters, taint>>

\* The file is written and closed, wherever it has been renamed to meanwhile.
SaveWrite(t) ==
    LET written(f) == Closed(f, t, heap[obj[t]].inv, Doubt(t)) IN
    /\ pc[t] = "write"
    /\ tmpFile' = IF t \in tmpFile.open THEN written(tmpFile) ELSE tmpFile
    /\ invFile' = IF t \in invFile.open THEN written(invFile) ELSE invFile
    /\ Go(t, "rename")
    /\ UNCHANGED <<db, memory, req, obj, ids, vecFile, counters, history>>

\* rename fails when another Save has taken the temporary file away: then
\* SaveIndexes does not go on to the vectors, RebuildAtomically does.
SaveRename(t) ==
    /\ pc[t] = "rename"
    /\ IF tmpFile.kind = "none"
         THEN /\ Go(t, IF t \in Rebuilders THEN "vsave" ELSE "saved")
              /\ UNCHANGED <<tmpFile, invFile>>
         ELSE /\ invFile' = tmpFile
              /\ tmpFile' = NoFile
              /\ Go(t, "vsave")
    /\ UNCHANGED <<db, memory, req, obj, ids, vecFile, counters, history>>

VecOpen(t) ==
    /\ pc[t] = "vsave"
    /\ vecFile' = Truncated(vecFile, t)
    /\ Go(t, "vwrite")
    /\ UNCHANGED <<db, memory, req, obj, ids, tmpFile, invFile, counters, history>>

VecWrite(t) ==
    /\ pc[t] = "vwrite"
    /\ vecFile' = Closed(vecFile, t, heap[obj[t]].vec, Doubt(t))
    /\ Go(t, "saved")
    /\ UNCHANGED <<db, memory, req, obj, ids, tmpFile, invFile, counters, history>>

Save(t) == SaveOpen(t) \/ SaveWrite(t) \/ SaveRename(t) \/ VecOpen(t) \/ VecWrite(t)

-----------------------------------------------------------------------------
(* AppContext::Initialize.                                                 *)

NewObject(inv, vec, doubt) ==
    /\ heap' = Append(heap, [inv |-> inv, vec |-> vec])
    /\ taint' = Append(taint, doubt)
    /\ active' = Len(heap) + 1
    /\ obj' = [obj EXCEPT ![Main] = Len(heap) + 1]

\* LoadIndexes has succeeded.
BootLoad ==
    /\ pc[Main] = "boot"
    /\ ~RebuildOnStart
    /\ invFile.kind # "none"
    /\ vecFile.kind # "none"
    /\ \E inv \in Readings(invFile, Held), vec \in Readings(vecFile, SUBSET Docs) :
         NewObject(inv, vec, invFile.taint \union vecFile.taint)
    /\ Go(Main, "up")
    /\ UNCHANGED <<db, recall, mutex, req, ids, files, counters, overlapped>>

\* It was not tried, or it has failed, perhaps after the inverted index was
\* read: the documents of docs.db are added to what is there.  GetAllDocIds may
\* list fewer than there are, and a document that GetDoc fails on is left out.
BootBuild ==
    /\ pc[Main] = "boot"
    /\ RebuildOnStart \/ invFile.kind = "none" \/ vecFile.kind # "whole"
    /\ LET read == ~RebuildOnStart /\ invFile.kind # "none" IN
       \E old \in IF read THEN Readings(invFile, Held) ELSE {Empty}, listed \in SUBSET Stored(db) :
       \E found \in SUBSET listed :
         /\ NewObject([d \in Docs |-> IF d \in found THEN db[d] ELSE old[d]],
                      found,
                      (IF read THEN invFile.taint ELSE {}) \union (Stored(db) \ found))
         /\ ids' = [ids EXCEPT ![Main] = IF listed = {} THEN Stored(Sample) ELSE {}]
         /\ Go(Main, IF listed # {} THEN "save" ELSE IF Sample = Empty THEN "up" ELSE "import")
    /\ UNCHANGED <<db, recall, mutex, req, files, counters, overlapped>>

\* BuildFromJson takes the sample documents one by one: each enters the indexes
\* first, and is ahead of docs.db until it is stored there.
BootImport(d) ==
    /\ pc[Main] = "import"
    /\ d \in ids[Main]
    /\ heap' = [heap EXCEPT ![active] = [inv |-> [@.inv EXCEPT ![d] = Sample[d]],
                                         vec |-> @.vec \union {d}]]
    /\ taint' = [taint EXCEPT ![active] = @ \union {d}]
    /\ Go(Main, "store")
    /\ UNCHANGED <<db, active, recall, mutex, req, obj, ids, files, counters, overlapped>>

\* PutDoc of the document just indexed; when it fails nobody notices.
BootStore(d) ==
    /\ pc[Main] = "store"
    /\ d \in ids[Main] \intersect heap[active].vec
    /\ \/ /\ db' = [db EXCEPT ![d] = Sample[d]]
          /\ taint' = [taint EXCEPT ![active] = @ \ {d}]
       \/ UNCHANGED <<db, taint>>
    /\ ids' = [ids EXCEPT ![Main] = @ \ {d}]
    /\ Go(Main, IF ids[Main] = {d} THEN "save" ELSE "import")
    /\ UNCHANGED <<memory, req, obj, files, counters, overlapped>>

BootDone ==
    /\ pc[Main] = "saved"
    /\ Go(Main, "up")
    /\ UNCHANGED <<db, memory, req, obj, ids, files, counters, history>>

Boot ==
    \/ BootLoad \/ BootBuild \/ (\E d \in Docs : BootImport(d) \/ BootStore(d))
    \/ Save(Main) \/ BootDone

\* The process is killed: files and table stay as they are.
Crash ==
    /\ crashes < MaxCrashes
    /\ crashes' = crashes + 1
    /\ heap' = <<>>
    /\ active' = 0
    /\ recall' = 0
    /\ mutex' = None
    /\ pc' = [t \in Threads |-> IF t = Main THEN "boot" ELSE "idle"]
    /\ req' = [c \in Clients |-> NoRequest]
    /\ obj' = [t \in Threads |-> 0]
    /\ ids' = [t \in Rebuilders \union {Main} |-> {}]
    /\ tmpFile' = [tmpFile EXCEPT !.open = {}]
    /\ invFile' = [invFile EXCEPT !.open = {}]
    /\ vecFile' = [vecFile EXCEPT !.open = {}]
    /\ taint' = <<>>
    /\ UNCHANGED <<db, requests, rebuilds, overlapped>>

-----------------------------------------------------------------------------
(* A request takes effect: from now on the files are behind on its         *)
(* document, and so is every index object but the active one.              *)

Begin(c, op, d, v) ==
    /\ Up
    /\ pc[c] = "idle"
    /\ requests < MaxRequests
    /\ requests' = requests + 1
    /\ req' = [req EXCEPT ![c] = [op |-> op, doc |-> d, content |-> v]]
    /\ taint' = [o \in DOMAIN taint |->
                   IF o = active /\ InFlight(d) = {} THEN taint[o] ELSE taint[o] \union {d}]
    /\ tmpFile' = Doubted(tmpFile, d)
    /\ invFile' = Doubted(invFile, d)
    /\ vecFile' = Doubted(vecFile, d)

Answer(c) ==
    /\ req' = [req EXCEPT ![c] = NoRequest]
    /\ obj' = [obj EXCEPT ![c] = 0]
    /\ Go(c, "idle")

(* AppContext::AddDocument, for doc/add and doc/update alike.              *)

AddLock(c, d, v) ==
    /\ Begin(c, "add", d, v)
    /\ MutexFree
    /\ mutex' = c
    /\ obj' = [obj EXCEPT ![c] = active]
    /\ Go(c, "put")
    /\ UNCHANGED <<db, heap, active, recall, ids, rebuilds, crashes, overlapped>>

\* Write ahead: PutDoc first.
AddPut(c) ==
    /\ pc[c] = "put"
    /\ db' = [db EXCEPT ![req[c].doc] = req[c].content]
    /\ Go(c, "inv")
    /\ UNCHANGED <<memory, req, obj, ids, files, counters, history>>

\* Mutant: an early return that forgets to unlock.
AddPutFailsLocked(c) ==
    /\ pc[c] = "put"
    /\ Answer(c)
    /\ UNCHANGED <<db, memory, ids, files, counters, history>>

\* Mutant: the result of PutDoc is ignored.
AddPutIgnored(c) ==
    /\ pc[c] = "put"
    /\ Go(c, "inv")
    /\ UNCHANGED <<db, memory, req, obj, ids, files, counters, history>>

\* PutDoc returns false: the request fails and nothing has changed.
AddPutFails(c) ==
    /\ pc[c] = "put"
    /\ mutex' = None
    /\ Answer(c)
    /\ UNCHANGED <<db, heap, active, recall, ids, files, counters, history>>

AddInv(c) ==
    /\ pc[c] = "inv"
    /\ ~SavingInv(obj[c])
    /\ heap' = [heap EXCEPT ![obj[c]].inv[req[c].doc] = req[c].content]
    /\ Go(c, "vec")
    /\ UNCHANGED <<db, active, recall, mutex, req, obj, ids, files, counters, history>>

AddVec(c) ==
    /\ pc[c] = "vec"
    /\ ~SavingVec(obj[c])
    /\ heap' = [heap EXCEPT ![obj[c]].vec = @ \union {req[c].doc}]
    /\ Go(c, "save")
    /\ UNCHANGED <<db, active, recall, mutex, req, obj, ids, files, counters, history>>

AddDone(c) ==
    /\ pc[c] = "saved"
    /\ mutex' = None
    /\ Answer(c)
    /\ UNCHANGED <<db, heap, active, recall, ids, files, counters, history>>

(* DocHandler::HandleDelete: no mutex is held from one step to the next,   *)
(* the vectors stay, and nothing is saved.  When DeleteDoc fails the       *)
(* request is answered with 404 and changes nothing, which is no step.     *)

DeleteRow(c, d) ==
    /\ Begin(c, "delete", d, None)
    /\ db' = [db EXCEPT ![d] = None]
    /\ Go(c, "get")
    /\ UNCHANGED <<memory, obj, ids, rebuilds, crashes, overlapped>>

DeleteGet(c) ==
    /\ pc[c] = "get"
    /\ MutexFree
    /\ obj' = [obj EXCEPT ![c] = active]
    /\ Go(c, "remove")
    /\ UNCHANGED <<db, memory, req, ids, files, counters, history>>

\* Mutant: the delete forgets the inverted index.
DeleteKeepsPostings(c) ==
    /\ pc[c] = "remove"
    /\ Answer(c)
    /\ UNCHANGED <<db, memory, ids, files, counters, taint, overlapped>>

DeleteRemove(c) ==
    /\ pc[c] = "remove"
    /\ ~SavingInv(obj[c])
    /\ heap' = [heap EXCEPT ![obj[c]].inv[req[c].doc] = None]
    /\ Answer(c)
    /\ UNCHANGED <<db, active, recall, mutex, ids, files, counters, taint, overlapped>>

Serve(c) ==
    \/ AddPut(c) \/ AddPutFails(c) \/ AddInv(c) \/ AddVec(c) \/ Save(c) \/ AddDone(c)
    \/ DeleteGet(c) \/ DeleteRemove(c)

-----------------------------------------------------------------------------
(* IndexRebuildTask::RebuildAtomically.                                    *)

\* GetAllDocIds, which may list fewer than there are; nothing is rebuilt from
\* an empty list.
RebuildStart(b) ==
    /\ Up
    /\ pc[b] = "idle"
    /\ rebuilds < MaxRebuilds
    /\ rebuilds' = rebuilds + 1
    /\ heap' = Append(heap, [inv |-> Empty, vec |-> {}])
    /\ obj' = [obj EXCEPT ![b] = Len(heap) + 1]
    /\ \E listed \in SUBSET Stored(db) \ {{}} :
         /\ ids' = [ids EXCEPT ![b] = listed]
         /\ taint' = Append(taint, BusyDocs \union (Stored(db) \ listed))
    /\ Go(b, "provider")
    /\ UNCHANGED <<db, active, recall, mutex, req, files, requests, crashes, overlapped>>

\* GetEmbeddingProvider waits for the mutex.
RebuildProvider(b) ==
    /\ pc[b] = "provider"
    /\ MutexFree
    /\ Go(b, "read")
    /\ UNCHANGED <<db, memory, req, obj, ids, files, counters, history>>

\* GetDoc; a document deleted since the list was made is passed over, and so is
\* one whose row cannot be read.
RebuildRead(b, d) ==
    /\ pc[b] = "read"
    /\ d \in ids[b]
    /\ ids' = [ids EXCEPT ![b] = @ \ {d}]
    /\ \/ /\ db[d] # None
          /\ heap' = [heap EXCEPT ![obj[b]] = [inv |-> [@.inv EXCEPT ![d] = db[d]],
                                               vec |-> @.vec \union {d}]]
          /\ UNCHANGED taint
       \/ /\ taint' = [taint EXCEPT ![obj[b]] = IF db[d] = None THEN @ ELSE @ \union {d}]
          /\ UNCHANGED heap
    /\ UNCHANGED <<db, active, recall, mutex, pc, req, obj, files, counters, overlapped>>

RebuildSwap(b) ==
    /\ pc[b] = "read"
    /\ ids[b] = {}
    /\ MutexFree
    /\ active' = obj[b]
    /\ taint' = [taint EXCEPT ![active] = @ \union BusyDocs]
    /\ Go(b, "save")
    /\ UNCHANGED <<db, heap, recall, mutex, req, obj, ids, files, counters, overlapped>>

RebuildDone(b) ==
    /\ pc[b] = "saved"
    /\ obj' = [obj EXCEPT ![b] = 0]
    /\ Go(b, "idle")
    /\ UNCHANGED <<db, memory, req, ids, files, counters, history>>

Rebuild(b) ==
    \/ RebuildProvider(b)
    \/ \E d \in Docs : RebuildRead(b, d)
    \/ RebuildSwap(b)
    \/ Save(b)
    \/ RebuildDone(b)

-----------------------------------------------------------------------------
\* A search: InvertedRecallProcessor takes the active index once and keeps it.
Search ==
    /\ Up
    /\ recall = 0
    /\ MutexFree
    /\ recall' = active
    /\ UNCHANGED <<db, heap, active, mutex, pc, req, obj, ids, files, counters, history>>

\* The server waits for requests: the only place where it may stop.
Waiting == Up /\ (\A t \in Threads \ {Main} : pc[t] = "idle") /\ UNCHANGED vars

Next ==
    \/ Boot
    \/ Crash
    \/ \E c \in Clients, d \in Docs :
         DeleteRow(c, d) \/ \E v \in Contents : AddLock(c, d, v)
    \/ \E c \in Clients : Serve(c)
    \/ \E b \in Rebuilders : RebuildStart(b) \/ Rebuild(b)
    \/ Search
    \/ Waiting

Spec == Init /\ [][Next]_vars

-----------------------------------------------------------------------------
(* Properties.                                                             *)

FileType(f, data) ==
    /\ f.kind \in {"none", "partial", "mixed", "whole"}
    /\ f.open \subseteq Threads
    /\ f.kind = "whole" => f.data \in data
    /\ f.taint \subseteq Docs

\* Type correctness.
TypeOK ==
    /\ db \in Held
    /\ heap \in Seq([inv : Held, vec : SUBSET Docs])
    /\ active \in 0..Len(heap)
    /\ recall \in 0..Len(heap)
    /\ mutex \in Clients \union {None}
    /\ pc \in [Threads -> {"boot", "import", "store", "up", "idle", "add", "put", "inv", "vec", "delete", "get",
                            "remove", "provider", "read", "save", "write", "rename", "vsave", "vwrite", "saved"}]
    /\ req \in [Clients -> [op : {"none", "add", "delete"}, doc : Docs \union {None},
                            content : Contents \union {None}]]
    /\ obj \in [Threads -> 0..Len(heap)]
    /\ ids \in [Rebuilders \union {Main} -> SUBSET Docs]
    /\ FileType(tmpFile, Held) /\ FileType(invFile, Held) /\ FileType(vecFile, SUBSET Docs)
    /\ requests \in Nat /\ rebuilds \in Nat /\ crashes \in Nat
    /\ taint \in Seq(SUBSET Docs)
    /\ Len(taint) = Len(heap)
    /\ mutex # None => req[mutex].op = "add"
    /\ overlapped \in BOOLEAN

\* An index object holds of a document what docs.db holds, and a vector of it.
Agree(o, d) == heap[o].inv[d] = db[d] /\ (db[d] # None => d \in heap[o].vec)

\* The active indexes agree with docs.db on every document no request is busy
\* with, whatever ran before, crashes, restarts and rebuilds included: except
\* for the documents whose requests overlapped each other or the making of the
\* index, or were not saved when the process died, and for those whose row could
\* not be read into this index, or not be stored by the import that indexed them.
IndexAgrees ==
    Up => \A d \in Docs : InFlight(d) = {} /\ d \notin taint[active] => Agree(active, d)

\* Save writes to a temporary file so that a crash leaves no damaged file
\* (inverted_index.cpp:379): true as long as no two calls of Save overlap.
FileIntact == ~overlapped => invFile.kind \in {"none", "whole"}

\* AddDocument writes docs.db first (index_builder.cpp:116): of what requests
\* add, the index of AppContext never holds a document that docs.db has not got,
\* unless a delete that was under way, or overlapped, or was not saved, accounts
\* for it.  The import does not write ahead: it indexes first and ignores what
\* PutDoc answers, and the documents it failed to store are in taint.
WriteAhead ==
    Up => \A d \in Docs :
            heap[active].inv[d] # None /\ db[d] = None =>
                d \in taint[active] \/ \E c \in InFlight(d) : req[c].op = "delete"

\* Claimed by index_rebuild_task.h:3: after the switch searches use the new
\* index, so that what was added to the server is found by keyword.
RecallSeesStore ==
    Up /\ recall # 0 =>
        \A d \in Docs : InFlight(d) = {} /\ d \notin taint[active] => heap[recall].inv[d] = db[d]
=============================================================================
