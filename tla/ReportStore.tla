---------------------------- MODULE ReportStore ----------------------------
(***************************************************************************)
(* lib/storage/report_store.cpp: impressions and clicks are queued by the  *)
(* request threads and written to report.db by one flush thread, a         *)
(* transaction for each batch.  queue_ is only changed under queue_mutex_, *)
(* so a critical section is one step.  FlushLoop ignores the result of     *)
(* every statement, so each has a step in which it fails (the disk is      *)
(* full, another process holds the file).  An event is what                *)
(* QueryTimeSeries tells apart: its business and its type; all events are  *)
(* within the queried hours.  The queue, the batch and the rows hold the   *)
(* serial number of an event, its place in accepted, so that two events    *)
(* that look alike are still told apart.                                   *)
(***************************************************************************)
EXTENDS Integers, Sequences, FiniteSets

CONSTANTS
    Events,     \* the reported events, [biz, type]
    BatchSize   \* batch_size of FlushLoop

ASSUME BatchSizeAssumption == BatchSize \in Nat \ {0}

VARIABLES
    running,        \* running_
    stopRequested,  \* stop_requested_
    queue,          \* queue_
    flush,          \* where the flush thread is in FlushLoop
    batch,          \* the events of FlushLoop's batch not yet inserted
    open,           \* the connection has a transaction open
    txn,            \* rows inserted by the open transaction
    rows,           \* report_stats: the committed rows
    accepted,       \* history: all the events ever queued, in order
    lost,           \* history: events lost with a failed statement or a crash
    dropped         \* history: events an orderly end left in the queue

storeVars == <<running, stopRequested, queue, flush, batch, open, txn, rows,
               accepted, lost, dropped>>

StoreInit ==
    /\ running = FALSE
    /\ stopRequested = FALSE
    /\ queue = <<>>
    /\ flush = "none"
    /\ batch = <<>>
    /\ open = FALSE
    /\ txn = <<>>
    /\ rows = <<>>
    /\ accepted = <<>>
    /\ lost = {}
    /\ dropped = {}

\* The events a sequence holds.
Entries(s) == {s[i] : i \in DOMAIN s}

-----------------------------------------------------------------------------
(* The callers: main.cpp and the handlers.                                 *)

\* The database opens and the flush thread starts.  When it does not open
\* the store stays as it is, and main goes on.
Initialize ==
    /\ ~running
    /\ flush = "none"
    /\ running' = TRUE
    /\ flush' = "top"
    /\ UNCHANGED <<stopRequested, queue, batch, open, txn, rows, accepted, lost, dropped>>

\* Report returns at once when the store does not run.
Report(e) ==
    IF running
    THEN /\ queue' = Append(queue, Len(accepted) + 1)
         /\ accepted' = Append(accepted, e)
         /\ UNCHANGED <<running, stopRequested, flush, batch, open, txn, rows, lost, dropped>>
    ELSE UNCHANGED storeVars

\* Stop up to the join of the flush thread ...
RequestStop ==
    /\ running
    /\ ~stopRequested
    /\ stopRequested' = TRUE
    /\ UNCHANGED <<running, queue, flush, batch, open, txn, rows, accepted, lost, dropped>>

\* ... and after it: the database is closed, which rolls back a transaction
\* that a failed COMMIT has left open.
StopAfterJoin ==
    /\ stopRequested
    /\ flush = "exited"
    /\ running
    /\ running' = FALSE
    /\ open' = FALSE
    /\ txn' = <<>>
    /\ lost' = lost \union Entries(txn)
    /\ UNCHANGED <<stopRequested, queue, flush, batch, rows, accepted, dropped>>

Forget ==
    /\ running' = FALSE
    /\ stopRequested' = FALSE
    /\ queue' = <<>>
    /\ flush' = "none"
    /\ batch' = <<>>
    /\ open' = FALSE
    /\ txn' = <<>>
    /\ UNCHANGED <<rows, accepted>>

\* The process ends after Stop.  Nobody writes what is still queued, although
\* Stop is declared to flush.
ProcessEnds ==
    /\ ~running
    /\ Forget
    /\ dropped' = dropped \union Entries(queue)
    /\ UNCHANGED lost

\* The process crashes: what is in memory and the open transaction are gone.
ProcessDies ==
    /\ Forget
    /\ lost' = lost \union Entries(queue \o batch \o txn)
    /\ UNCHANGED dropped

-----------------------------------------------------------------------------
(* The flush thread.                                                       *)

\* The loop is left at its head only, whatever the queue holds.
LeaveLoop ==
    /\ flush = "top"
    /\ stopRequested
    /\ flush' = "exited"
    /\ UNCHANGED <<running, stopRequested, queue, batch, open, txn, rows, accepted, lost, dropped>>

EnterLoop ==
    /\ flush = "top"
    /\ ~stopRequested
    /\ flush' = "wait"
    /\ UNCHANGED <<running, stopRequested, queue, batch, open, txn, rows, accepted, lost, dropped>>

\* wait_for times out, or ends with the stop request.
WaitEnds ==
    /\ flush = "wait"
    /\ queue = <<>>
    /\ flush' = "top"
    /\ UNCHANGED <<running, stopRequested, queue, batch, open, txn, rows, accepted, lost, dropped>>

Taken == IF Len(queue) < BatchSize THEN Len(queue) ELSE BatchSize

\* Mutant: what does not fit the batch is dropped with it.
TakeBatchAndClear ==
    /\ flush = "wait"
    /\ queue # <<>>
    /\ batch' = SubSeq(queue, 1, Taken)
    /\ queue' = <<>>
    /\ flush' = "begin"
    /\ UNCHANGED <<running, stopRequested, open, txn, rows, accepted, lost, dropped>>

\* A batch leaves the queue, also when a stop request came during the wait.
TakeBatch ==
    /\ flush = "wait"
    /\ queue # <<>>
    /\ batch' = SubSeq(queue, 1, Taken)
    /\ queue' = SubSeq(queue, Taken + 1, Len(queue))
    /\ flush' = "begin"
    /\ UNCHANGED <<running, stopRequested, open, txn, rows, accepted, lost, dropped>>

\* BEGIN succeeds, or fails because a transaction is open: one is open then.
BeginBatch ==
    /\ flush = "begin"
    /\ open' = TRUE
    /\ flush' = "insert"
    /\ UNCHANGED <<running, stopRequested, queue, batch, txn, rows, accepted, lost, dropped>>

\* Without a transaction every INSERT is committed on its own.
InsertRow ==
    /\ flush = "insert"
    /\ batch # <<>>
    /\ batch' = Tail(batch)
    /\ IF open
       THEN txn' = Append(txn, Head(batch)) /\ UNCHANGED rows
       ELSE rows' = Append(rows, Head(batch)) /\ UNCHANGED txn
    /\ UNCHANGED <<running, stopRequested, queue, flush, open, accepted, lost, dropped>>

\* COMMIT, which without a transaction does nothing.
Commit ==
    /\ flush = "insert"
    /\ batch = <<>>
    /\ rows' = rows \o txn
    /\ txn' = <<>>
    /\ open' = FALSE
    /\ flush' = "top"
    /\ UNCHANGED <<running, stopRequested, queue, batch, accepted, lost, dropped>>

FlushLoop ==
    \/ LeaveLoop \/ EnterLoop \/ WaitEnds \/ TakeBatch
    \/ BeginBatch \/ InsertRow \/ Commit

-----------------------------------------------------------------------------
(* The statements of FlushLoop that fail; it goes on as if they had not.   *)

BeginFails ==
    /\ flush = "begin"
    /\ flush' = "insert"
    /\ UNCHANGED <<running, stopRequested, queue, batch, open, txn, rows, accepted, lost, dropped>>

\* The INSERT is not prepared, whatever became of BEGIN: the batch is lost.
PrepareFails ==
    /\ flush = "begin"
    /\ open' \in {open, TRUE}
    /\ lost' = lost \union Entries(batch)
    /\ batch' = <<>>
    /\ flush' = "insert"
    /\ UNCHANGED <<running, stopRequested, queue, txn, rows, accepted, dropped>>

\* A statement fails and the transaction stays as it is, or the failure rolls
\* it back and what it had inserted is gone; so are the other events given.
TransactionFails(others) ==
    \/ /\ lost' = lost \union others
       /\ UNCHANGED <<open, txn>>
    \/ /\ lost' = lost \union others \union Entries(txn)
       /\ open' = FALSE
       /\ txn' = <<>>

InsertFails ==
    /\ flush = "insert"
    /\ batch # <<>>
    /\ batch' = Tail(batch)
    /\ TransactionFails({Head(batch)})
    /\ UNCHANGED <<running, stopRequested, queue, flush, rows, accepted, dropped>>

\* A transaction that stays open takes the next batch too.
CommitFails ==
    /\ flush = "insert"
    /\ batch = <<>>
    /\ flush' = "top"
    /\ TransactionFails({})
    /\ UNCHANGED <<running, stopRequested, queue, batch, rows, accepted, dropped>>

StatementFails == BeginFails \/ PrepareFails \/ InsertFails \/ CommitFails

StoreNext ==
    \/ Initialize
    \/ \E e \in Events : Report(e)
    \/ RequestStop
    \/ StopAfterJoin
    \/ ProcessEnds
    \/ ProcessDies
    \/ FlushLoop
    \/ StatementFails

StoreSpec == StoreInit /\ [][StoreNext]_storeVars

-----------------------------------------------------------------------------
\* The sums of QueryTimeSeries.  It uses the connection of the flush thread,
\* so it also sees what the open transaction has inserted.
QueryTimeSeries(biz) ==
    LET seen == rows \o txn
        CountOf(type) == Cardinality({i \in DOMAIN seen :
                             accepted[seen[i]] = [biz |-> biz, type |-> type]})
    IN  [impressions |-> CountOf("impression"), clicks |-> CountOf("click")]

StoreTypeOK ==
    /\ running \in BOOLEAN
    /\ stopRequested \in BOOLEAN
    /\ queue \in Seq(Nat)
    /\ flush \in {"none", "top", "wait", "begin", "insert", "exited"}
    /\ batch \in Seq(Nat)
    /\ open \in BOOLEAN
    /\ txn \in Seq(Nat)
    /\ rows \in Seq(Nat)
    /\ accepted \in Seq(Events)
    /\ lost \subseteq Nat
    /\ dropped \subseteq Nat

\* What the store holds: the table, the transaction, the batch, the queue.
Held == rows \o txn \o batch \o queue

\* Between the queue, the batch, the transaction and the table no event is
\* doubled or overtaken, and every event ever accepted is still there or is
\* one of those a failed statement or a crash took (lost) or Stop left in
\* the queue (dropped), and never both.  (report_store.cpp 54-123; Stop does
\* not write the queue, although report_store.h:50 says that it flushes.)
Ledger ==
    /\ \A i, j \in DOMAIN Held : i < j => Held[i] < Held[j]
    /\ Entries(Held) \union lost \union dropped = DOMAIN accepted
    /\ Entries(Held) \intersect (lost \union dropped) = {}

\* A batch is out of the queue only while the flush thread writes, rows wait
\* for a COMMIT only in an open transaction, and nothing is held by a store
\* that does not run but the queue.
BatchHeld ==
    /\ flush \notin {"begin", "insert"} => batch = <<>>
    /\ Len(batch) <= BatchSize
    /\ ~open => txn = <<>>
    /\ ~running => flush \in {"none", "exited"} /\ ~open
=============================================================================
