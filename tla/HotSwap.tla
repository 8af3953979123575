------------------------------- MODULE HotSwap -------------------------------
(***************************************************************************)
(* What requests read while a task or another request replaces it: the     *)
(* trie of the suggestions (biz/sug/sug_trie.cpp), the hot list            *)
(* (lib/recall/hot_content_recall.cpp) and the ranking model               *)
(* (lib/rank/scorer/lgbm_rank_processor.cpp); with the tasks of the        *)
(* scheduler that replace them.  docs.db is a number that grows with each  *)
(* change of a document, 0 before the first; the trie is the number its    *)
(* documents were read at (one that changes while they are read may        *)
(* already be the new one), the hot list the time they were read at.       *)
(* Whether a task is due depends on times and counts that are left out, so *)
(* it may always be.                                                       *)
(***************************************************************************)
EXTENDS Scheduler

CONSTANTS
    Threads,        \* the request threads of the HTTP server, each with the recall it waits for
    Worker,         \* the scheduler thread
    RefreshInterval,\* refresh_interval_sec_, in ticks
    MaxDocs,        \* bound: changes of documents
    MaxClock,       \* bound: the time
    MaxRequests     \* bound: requests

ASSUME WorkerAssumption == Worker \notin Threads
ASSUME RefreshAssumption == RefreshInterval \in Nat
\* The tasks InitFromConfig knows.
ASSUME BackgroundAssumption ==
    TaskList \in Seq({"auto_train", "auto_index_rebuild", "sug_trie_rebuild"})
ASSUME BoundsAssumption ==
    /\ MaxDocs \in Nat \ {0}
    /\ MaxClock \in Nat /\ MaxClock > RefreshInterval
    /\ MaxRequests \in Nat

Actors == Threads \union {Worker}

VARIABLES
    pc,         \* where each thread is in its request or task
    docs,       \* docs.db
    trie,       \* active_buffer_
    dangling,   \* threads whose entries belong to a trie that is gone
    model,      \* s_booster: 0 for none
    hot,        \* hot_list_cache_
    lastRefresh,\* last_refresh_time_
    clock,      \* system_clock
    now, old,   \* ProcessDag's now and old_time, per thread
    got,        \* per thread: what a rebuild or refresh has read
    curl,       \* the reload request of the training task
    requests,   \* how many requests have begun
    settled,    \* history: how far back a rebuild may still take the trie
    slow,       \* history: a refresh took longer than the interval
    empty       \* history: the last refresh found no document

swapVars == <<pc, docs, trie, dangling, model, hot, lastRefresh, clock, now, old, got,
              curl, requests, settled, slow, empty>>
vars == <<swapVars, schedVars>>

\* ExtraInit builds the trie before the scheduler starts.  The clock starts
\* more than an interval after 0.
Init ==
    /\ SchedInit
    /\ pc = [a \in Actors |-> "idle"]
    /\ docs \in {0, 1}
    /\ trie = docs
    /\ dangling = {}
    /\ model = 0
    /\ hot = 0
    /\ lastRefresh = 0
    /\ clock = RefreshInterval + 1
    /\ now = [t \in Threads |-> 0]
    /\ old = [t \in Threads |-> 0]
    /\ got = [a \in Actors |-> 0]
    /\ curl = "none"
    /\ requests = 0
    /\ settled = docs
    /\ slow = FALSE
    /\ empty = FALSE

-----------------------------------------------------------------------------
(* Requests and tasks.                                                     *)

\* A request is routed to a thread: a rebuild, a suggestion whose Search has
\* just returned, or a recall of the hot list.
Request(t, where) ==
    /\ phase = "listening"
    /\ pc[t] = "idle"
    /\ requests < MaxRequests
    /\ requests' = requests + 1
    /\ pc' = [pc EXCEPT ![t] = where]
    /\ UNCHANGED <<schedVars, docs, trie, dangling, model, hot, lastRefresh, clock, now,
                   old, got, curl, settled, slow, empty>>

\* The end of a request, or of a task's CheckAndRun.
Finish(a) ==
    /\ pc' = [pc EXCEPT ![a] = "idle"]
    /\ IF a = Worker THEN TaskEnds ELSE UNCHANGED schedVars

\* A freed object is used, or a null deleter is called.
Dies ==
    /\ Abort
    /\ pc' = [a \in Actors |-> "idle"]
    /\ dangling' = {}
    /\ curl' = "none"

-----------------------------------------------------------------------------
(* The trie: RebuildTrie is called by the task and by an admin request.    *)

RebuildRead(a) ==
    /\ pc[a] = "rebuild"
    /\ got' = [got EXCEPT ![a] = docs]
    /\ pc' = [pc EXCEPT ![a] = "build"]
    /\ UNCHANGED <<schedVars, docs, trie, dangling, model, hot, lastRefresh, clock, now,
                   old, curl, requests, settled, slow, empty>>

\* Others that have read their documents and not yet switched.
Building(a) == {b \in Actors \ {a} : pc[b] = "build"}

\* The oldest that a, which switches, and the rebuilds still under way have read.
OldestRead(a) ==
    LET reads == {got[b] : b \in Building(a) \union {a}}
    IN  CHOOSE n \in reads : \A m \in reads : n <= m

\* What changes with the switch besides the trie.
Switched(a) ==
    /\ dangling' = {t \in Threads : pc[t] = "entries"}
    /\ settled' = IF OldestRead(a) > settled THEN OldestRead(a) ELSE settled
    /\ got' = [got EXCEPT ![a] = 0]
    /\ Finish(a)
    /\ UNCHANGED <<docs, model, hot, lastRefresh, clock, now, old, curl, requests, slow,
                   empty>>

\* Mutant: an admin's rebuild does not reach the trie that is in use.
BuildKeepsOld(a) ==
    /\ pc[a] = "build"
    /\ trie' = IF a = Worker THEN got[a] ELSE trie
    /\ Switched(a)

\* SugTrie::Build: the buffer is replaced under read_mutex_; the old one is
\* freed with its last reference, which Search does not keep.
Build(a) ==
    /\ pc[a] = "build"
    /\ trie' = got[a]
    /\ Switched(a)

\* SugTrieRecall reads the entries Search has returned pointers to.
ReadEntries(t) ==
    /\ pc[t] = "entries"
    /\ \/ /\ Finish(t)
          /\ dangling' = dangling \ {t}
          /\ UNCHANGED curl
       \/ t \in dangling /\ Dies
    /\ UNCHANGED <<docs, trie, model, hot, lastRefresh, clock, now, old, got, requests,
                   settled, slow, empty>>

-----------------------------------------------------------------------------
(* The hot list: HotContentRecallProcessor::ProcessDag.                    *)

\* now = system_clock::now()
ReadClock(t) ==
    /\ pc[t] = "hot"
    /\ now' = [now EXCEPT ![t] = clock]
    /\ pc' = [pc EXCEPT ![t] = "test"]
    /\ UNCHANGED <<schedVars, docs, trie, dangling, model, hot, lastRefresh, clock, old, got,
                   curl, requests, settled, slow, empty>>

\* old_time = last_refresh_time_.load(), and the test.
ReadLastRefresh(t) ==
    /\ pc[t] = "test"
    /\ IF now[t] - lastRefresh > RefreshInterval
       THEN /\ old' = [old EXCEPT ![t] = lastRefresh]
            /\ pc' = [pc EXCEPT ![t] = "cas"]
       ELSE /\ pc' = [pc EXCEPT ![t] = "take"]
            /\ UNCHANGED old
    /\ UNCHANGED <<schedVars, docs, trie, dangling, model, hot, lastRefresh, clock, now, got,
                   curl, requests, settled, slow, empty>>

CompareExchange(t) ==
    /\ pc[t] = "cas"
    /\ old' = [old EXCEPT ![t] = 0]
    /\ IF lastRefresh = old[t]
       THEN /\ lastRefresh' = now[t]
            /\ pc' = [pc EXCEPT ![t] = "refresh"]
       ELSE /\ pc' = [pc EXCEPT ![t] = "take"]
            /\ UNCHANGED lastRefresh
    /\ UNCHANGED <<schedVars, docs, trie, dangling, model, hot, clock, now, got, curl,
                   requests, settled, slow, empty>>

\* RefreshHotList: the documents are read; without any nothing is refreshed.
ReadDocs(t) ==
    /\ pc[t] = "refresh"
    /\ IF docs = 0
       THEN /\ empty' = TRUE
            /\ pc' = [pc EXCEPT ![t] = "take"]
            /\ UNCHANGED got
       ELSE /\ got' = [got EXCEPT ![t] = clock]
            /\ pc' = [pc EXCEPT ![t] = "list"]
            /\ UNCHANGED empty
    /\ UNCHANGED <<schedVars, docs, trie, dangling, model, hot, lastRefresh, clock, now, old,
                   curl, requests, settled, slow>>

\* Under hot_list_mutex_.
StoreList(t) ==
    /\ pc[t] = "list"
    /\ hot' = got[t]
    /\ pc' = [pc EXCEPT ![t] = "time"]
    /\ empty' = FALSE
    /\ UNCHANGED <<schedVars, docs, trie, dangling, model, lastRefresh, clock, now, old, got,
                   curl, requests, settled, slow>>

\* Mutant: the time of the end of the refresh instead of its beginning.
StoreRefreshEnd(t) ==
    /\ pc[t] = "time"
    /\ lastRefresh' = clock
    /\ pc' = [pc EXCEPT ![t] = "take"]
    /\ got' = [got EXCEPT ![t] = 0]
    /\ UNCHANGED <<schedVars, docs, trie, dangling, model, hot, clock, now, old, curl,
                   requests, settled, slow, empty>>

\* last_refresh_time_.store(now)
StoreRefreshTime(t) ==
    /\ pc[t] = "time"
    /\ lastRefresh' = got[t]
    /\ pc' = [pc EXCEPT ![t] = "take"]
    /\ got' = [got EXCEPT ![t] = 0]
    /\ UNCHANGED <<schedVars, docs, trie, dangling, model, hot, clock, now, old, curl,
                   requests, settled, slow, empty>>

\* The snapshot, under hot_list_mutex_; the rest of the recall reads only it.
TakeSnapshot(t) ==
    /\ pc[t] = "take"
    /\ Finish(t)
    /\ now' = [now EXCEPT ![t] = 0]
    /\ UNCHANGED <<docs, trie, dangling, model, hot, lastRefresh, clock, old, got, curl,
                   requests, settled, slow, empty>>

-----------------------------------------------------------------------------
(* The model: a reload request comes from the admin or from the training.  *)

\* HotReload under s_reload_mutex: LoadFromFile fails (always, in a build
\* without LightGBM), or the model replaces the one before, whose deleter is
\* a null pointer.
HotReload(reply) ==
    \/ /\ model' \in IF model = 0 THEN {0, 1} ELSE {model}
       /\ curl' = reply
       /\ UNCHANGED <<schedVars, pc, dangling>>
    \/ model = 1 /\ Dies /\ UNCHANGED model

AdminReload(t) ==
    /\ phase = "listening"
    /\ pc[t] = "idle"
    /\ requests < MaxRequests
    /\ requests' = requests + 1
    /\ HotReload(curl)
    /\ UNCHANGED <<docs, trie, hot, lastRefresh, clock, now, old, got, settled, slow, empty>>

\* The server answers the training task, with an error too.
ServeCurl(t) ==
    /\ phase \in {"listening", "draining"}
    /\ pc[t] = "idle"
    /\ curl = "sent"
    /\ HotReload("answered")
    /\ UNCHANGED <<docs, trie, hot, lastRefresh, clock, now, old, got, requests, settled,
                   slow, empty>>

-----------------------------------------------------------------------------
(* The tasks of the scheduler: CheckAndRun.                                *)

taskUnchanged == <<docs, trie, dangling, model, hot, lastRefresh, clock, now, old, got,
                   requests, settled, slow, empty>>

\* The loop calls a task.
CallTask ==
    /\ TaskStarts
    /\ pc' = [pc EXCEPT ![Worker] = TaskList[turn]]
    /\ UNCHANGED <<taskUnchanged, curl>>

\* It is not due, or it is the rebuild of the index, which DocCorpus models.
NotDue ==
    /\ pc[Worker] \in {"auto_train", "auto_index_rebuild", "sug_trie_rebuild"}
    /\ Finish(Worker)
    /\ UNCHANGED <<taskUnchanged, curl>>

RebuildTrie ==
    /\ pc[Worker] = "sug_trie_rebuild"
    /\ pc' = [pc EXCEPT ![Worker] = "rebuild"]
    /\ UNCHANGED <<schedVars, taskUnchanged, curl>>

\* The child processes that dump the events and train end with success or not.
RunChild(from, to) ==
    /\ pc[Worker] = from
    /\ UNCHANGED <<taskUnchanged, curl>>
    /\ \/ pc' = [pc EXCEPT ![Worker] = to] /\ UNCHANGED schedVars
       \/ Finish(Worker)

DumpTrainData == RunChild("auto_train", "train")
RunTrainScript == RunChild("train", "reload")

\* HotReloadModel: without a model file, or when the server does not listen,
\* the task ends; otherwise curl sends the request and waits.
HotReloadModel ==
    /\ pc[Worker] = "reload"
    /\ \/ Finish(Worker) /\ UNCHANGED curl
       \/ /\ phase = "listening"
          /\ curl' = "sent"
          /\ pc' = [pc EXCEPT ![Worker] = "curl"]
          /\ UNCHANGED schedVars
    /\ UNCHANGED taskUnchanged

\* The answer, or a connection closed by a server that stops.
CurlReturns ==
    /\ pc[Worker] = "curl"
    /\ curl = "answered" \/ phase \notin {"ready", "listening"}
    /\ curl' = "none"
    /\ Finish(Worker)
    /\ UNCHANGED taskUnchanged

Task ==
    \/ NotDue \/ RebuildTrie \/ RebuildRead(Worker) \/ Build(Worker)
    \/ DumpTrainData \/ RunTrainScript \/ HotReloadModel \/ CurlReturns

Serve(t) ==
    \/ RebuildRead(t) \/ Build(t) \/ ReadEntries(t)
    \/ ReadClock(t) \/ ReadLastRefresh(t) \/ CompareExchange(t) \/ ReadDocs(t)
    \/ StoreList(t) \/ StoreRefreshTime(t) \/ TakeSnapshot(t)
    \/ ServeCurl(t)

-----------------------------------------------------------------------------
(* The environment and the whole.                                          *)

Ended == phase \in {"exited", "aborted"}

\* A document request; only its effect on docs.db matters here.
DocsChange ==
    /\ phase = "listening"
    /\ docs < MaxDocs
    /\ docs' = docs + 1
    /\ UNCHANGED <<schedVars, pc, trie, dangling, model, hot, lastRefresh, clock, now, old,
                   got, curl, requests, settled, slow, empty>>

Refreshing == {t \in Threads : pc[t] \in {"refresh", "list", "time"}}

Tick ==
    /\ ~Ended
    /\ clock < MaxClock
    /\ clock' = clock + 1
    /\ slow' = (slow \/ \E t \in Refreshing \union {u \in Threads : pc[u] \in {"test", "cas"}} :
                          clock' - now[t] > RefreshInterval)
    /\ UNCHANGED <<schedVars, pc, docs, trie, dangling, model, hot, lastRefresh, now, old,
                   got, curl, requests, settled, empty>>

\* main and the scheduler's loop; the server returns when its threads are idle.
Main ==
    /\ \/ Start \/ Listen \/ SignalHandler \/ RequestStop \/ NotifyAll \/ Join
       \/ ServerReturns /\ \A t \in Threads : pc[t] = "idle"
    /\ UNCHANGED swapVars

Between ==
    /\ Test \/ Park \/ TimesOut \/ SkipDisabled \/ NextTask
    /\ UNCHANGED swapVars

Done == Ended /\ UNCHANGED vars

Next ==
    \/ \E t \in Threads :
          \/ \E where \in {"rebuild", "entries", "hot"} : Request(t, where)
          \/ AdminReload(t)
          \/ Serve(t)
    \/ CallTask \/ Task \/ Between \/ Main
    \/ DocsChange \/ Tick \/ Done

Spec == Init /\ [][Next]_vars

\* Threads that can take a step take one; a period ends, a child process ends,
\* main goes on once the server stops.  Nobody has to send a request or a
\* signal, and no task has to be due.
FairSpec ==
    /\ Spec
    /\ \A t \in Threads : WF_vars(Serve(t))
    /\ WF_vars(CallTask \/ Task \/ Between)
    /\ WF_vars(Main /\ phase \notin {"boot", "ready", "listening"})

-----------------------------------------------------------------------------
Places == {"idle", "rebuild", "build", "entries", "hot", "test", "cas", "refresh", "list",
           "time", "take", "auto_train", "auto_index_rebuild", "sug_trie_rebuild", "train",
           "reload", "curl"}

TypeOK ==
    /\ SchedTypeOK
    /\ pc \in [Actors -> Places]
    /\ docs \in 0..MaxDocs
    /\ trie \in 0..docs
    /\ dangling \subseteq Threads
    /\ model \in {0, 1}
    /\ hot \in 0..clock
    /\ lastRefresh \in 0..clock
    /\ clock \in 0..MaxClock
    /\ now \in [Threads -> 0..clock]
    /\ old \in [Threads -> 0..clock]
    /\ got \in [Actors -> Nat]
    /\ curl \in {"none", "sent", "answered"}
    /\ requests \in 0..MaxRequests
    /\ settled \in 0..docs
    /\ slow \in BOOLEAN
    /\ empty \in BOOLEAN

\* How far the trie may go back: when a rebuild switches, what it and those
\* between reading and switching have all seen is in the trie for good.  So a
\* rebuild that ends alone is not undone; of several that overlap, a later
\* switch may bring back an older state, but none older than each of those
\* under way had read.  (sug_handler.cpp 26-60, sug_trie.cpp 12-43.)
TrieKeepsUp == trie >= settled

\* The compare-exchange lets one thread refresh the hot list, as long as no
\* refresh takes longer than the interval.  (hot_content_recall.cpp 92-98,
\* "CAS" against a stampede.)
RefreshAlone == slow \/ \A t, u \in Refreshing : t = u

\* The list a recall is about to take is no older than the interval, except
\* while another thread refreshes it, after a refresh that found no document
\* and after one that took longer.  (hot_content_recall.cpp 32-105.)
HotListRecent ==
    \A t \in Threads :
        pc[t] = "take" /\ Refreshing = {} /\ ~empty /\ ~slow =>
            hot >= now[t] - RefreshInterval

\* A signal to a listening server ends the process, whatever the tasks wait
\* for, children and replies of the stopping server, and even when the
\* scheduler thread misses the notification; as long as the requests under way
\* end, which one on a refused recall graph does not (Serving).
\* (main.cpp 28-35, 196-203; scheduler.cpp 103-144.)
SignalEnds == phase = "draining" ~> Ended
=============================================================================
