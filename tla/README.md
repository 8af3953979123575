# MiniSearchRec in TLA+

A verification development for MiniSearchRec, a search and recommendation
server in C++: TLA+ modules for its concurrent core, configurations that check
them with TLC on small instances, and theorems proved with TLAPS. Paths below
are relative to the C++ sources, `src/src/`, unless they begin with `config/`.

## 1. The system

One process. `main.cpp` starts it in this order: configuration, pipelines
(`PipelineManager`), the DAG thread pool, `AppContext` (documents and indexes),
the report store, the handlers, the scheduler thread, the HTTP server. Requests
run on the threads of the HTTP library; everything they share is a singleton.

| Component | State | Operations | Called by | What is hard |
|---|---|---|---|---|
| DAG pipeline `framework/processor/dag_pipeline.*` | the loaded graph; per request: counters, outputs, a condition variable | `Execute`, `ExecuteNode`, `LoadFromConfig` | the recall stage of every request | lock-free counters shared by the caller and all workers; who submits a node; lost wake-ups; returning while a node still runs |
| DAG thread pool `dag_thread_pool.h` | FIFO of closures, `stop_`, `started_`, threads | `Init`, `Submit`, `Shutdown`, `WorkerLoop` | all DAG pipelines; static destructor | notification outside the mutex; draining; order between requests |
| Corpus `framework/app_context.*`, `lib/index/index_builder.*`, `biz/doc/doc_handler.*`, `scheduler/task/index_rebuild_task.*` | `docs.db`, the active pair of indexes, a recursive mutex, three index files | add/update, delete, rebuild-and-switch, save, load, first import | HTTP threads, scheduler thread, admin page, start-up | operations that are not atomic and not under one lock; crashes between their steps; objects replaced while in use |
| DocStore `lib/index/doc_store.*` | SQLite table | `PutDoc`, `DeleteDoc`, `GetDoc`, `GetAllDocIds` | corpus, recall, rank | one statement at a time, durable |
| Inverted index `lib/index/inverted_index.*` | posting lists, document lengths, term lists, three counters | `AddDocument`, `RemoveDocument`, `Clear`, `Save`, `Load`, queries | corpus, keyword recall, BM25 | four structures to keep in step; a text format |
| Vector index `lib/index/vector_index.*` | vectors by document, list of ids | `AddVector`, `Search`, `Save`, `Load` | corpus, vector recall | two builds (Faiss, brute force); no removal; non-atomic save |
| Request skeleton `framework/handler/base_handler.*`, `framework/session/*` | a `Session` per request | `Search` (nine stages), interposition | HTTP threads | early returns, fallbacks, the scope guard, time-outs |
| Pipelines `processor_pipeline.*` | processors by stage | `Execute`, `Init` | search handler | a time-out in the middle of the filters |
| Businesses `biz/search`, `biz/sug`, `biz/hint`, `biz/nav` | suggestion trie, query statistics, co-occurrences | the stages they override | skeleton | trie replaced while read; what is cut on the way; names of documents that are gone |
| Start and routing `main.cpp`, `framework/config/*`, `framework/handler/handler_manager.*`, `framework/session/session_factory.*`, `framework/class_register.h`, `framework/server/*` | the global configuration, the pipelines, the routing table, one singleton per handler | `LoadAll`, `PipelineManager::Init`, `HandlerManager::Init`, `HandleRequest` | `main`, HTTP threads | errors that are ignored; handlers shared by businesses |
| Query understanding `lib/query/*`, `utils/string_utils.*` | dictionaries | `Normalize`, `Tokenize`, `Expand`, `Parse` | search handler | documents and queries pass different tokenisers |
| Ranking `lib/rank/*` | chain of scorers, LightGBM model | `RankEngine::Score`, model reload, MMR | skeleton | model replaced while in use |
| Recall processors, fusion `lib/recall/*` | keyword recall keeps its index; hot list with refresh time | `ProcessDag` | DAG pipeline | stale cached pointers, refresh races |
| Events `biz/event/*`, `lib/storage/*`, `lib/user/*` | report queue and flush thread, statistics, co-occurrence, profiles | event handlers, flush, `Stop` | HTTP threads | lost events at stop; lost updates of profiles |
| Scheduler `scheduler/*` | tasks, a thread, a condition variable | `Start`, `Loop`, `Stop`; training, rebuilds | main thread | wake-up at stop; failing and blocking tasks |
| Cache `cache/*` | LRU map, Redis connection | `Get`, `Put`, `Delete` | tests only: no code of the server calls it | two levels |
| A/B `ab/*`, features, embedding, gateway, other utilities | mostly none | pure functions, formatting | everywhere | little |

How they interact: a search request goes gateway -> server -> handler; the recall
stage hands one closure per graph node to the pool and sleeps until the last
node wakes it; the recall processors read the indexes; the ranking reads
`docs.db` and statistics of the index. Document requests and the rebuild change
`docs.db`, the indexes and their files under different locks: `AppContext::mutex_`
(adds, switch, accessors), the `rwlock_` of each index object, the write mutex of
DocStore; deletes and rebuilds hold none from one step to the next.

What makes each component correct:

- DAG pipeline: each node of a request runs exactly once, after the nodes it
  depends on, alone on its output; `Execute` returns, and only when all is quiet.
- Pool: FIFO, nothing lost or repeated, no worker sleeps on a queued task,
  `Shutdown` drains and returns.
- Corpus: the active indexes should agree with `docs.db` on every document at rest, also
  after a crash, a restart or a rebuild; the index file should be whole, searches should
  use the active index, and what was deleted stay deleted. The code does not keep all of
  it: section 2 says which documents are left in doubt and why.
- Inverted index: its structures are inverse to each other, its counters exact, a
  document is found by what was last added under its id, also after save and load.
- Requests: every stage runs once and in order, filtered documents are not
  answered, the report is made on every exit.
- Hot swaps (model, trie, hot list): no reader uses a freed object; a switch is seen by the next
  reader. Suggestions: the most frequent entries that begin with the query, hints that lead to
  other stored documents. Routing: each business has the handler, session and configuration of
  its entry, and a recall graph that cannot run was refused. Cache: its levels agree, an
  eviction takes the right entry. Events: nothing accepted is doubled or reordered, and nothing
  is lost while the process lives and its statements succeed (an orderly stop does lose what is
  queued); updates of one profile that do not overlap are exact. Scheduler:
  `Stop` ends the thread, after at most one more task and one period.

`PROJECT.json` lists the components with their status, the hazards at their
lines, and for each definition the source lines it stands for.

## 2. The modules

| Module | Models | Checked by | Proved in |
|---|---|---|---|
| `DagSchedule` | what `Execute` promises: the abstract schedule | refined by `DagPipeline` | `DagProofs` |
| `DagPipeline` | `Execute` and `ExecuteNode`, one atomic access per step | `MCDagPipeline` | `DagProofs` |
| `DagThreadPool` | the pool, one critical section or notification per step | `MCDagThreadPool` | `DagProofs` |
| `DocCorpus` | documents, index objects, files, requests, rebuild, start-up, crash | `MCDocCorpus` | `DocCorpusProofs` |
| `SearchableDocs` | what the keyword index promises to those who search | refined by `InvertedIndex` | `IndexBuilderProofs` |
| `InvertedIndex` | the four structures of the keyword index and its file | `MCIndexBuilder` | `IndexBuilderProofs` |
| `VectorIndex` | the vectors, positions and ids of both builds, and their file | `MCIndexBuilder` | `IndexBuilderProofs` |
| `Places` | the elements of a list at a set of places, in order: what a loop that copies what passes a test leaves | within `QueryParser`, `VectorIndex` and `PipelineConfig` | `IndexBuilderProofs`, `ServingProofs` |
| `QueryParser` | normaliser, tokenisers, expander, parser | `MCIndexBuilder` | `IndexBuilderProofs` |
| `RecallFusion` | the fusion of recall lists by reciprocal ranks | `MCIndexBuilder` | `IndexBuilderProofs` |
| `IndexBuilder` | both indexes filled, saved and loaded together; the two recalls and their fusion; composes `InvertedIndex`, `VectorIndex`, `QueryParser` and `RecallFusion` | `MCIndexBuilder` | `IndexBuilderProofs` |
| `Cache` | the LRU list, the Redis client, the calls of `CacheManager` | `MCCache` | `CacheProofs` |
| `PipelineConfig` | `LoadFromConfig`, `BuildDag`, the chains, the rank stage of a business, as operators | within `Startup` | `ServingProofs` |
| `Startup` | `main` from the configuration to the listening server, and the tables it leaves | within `Serving` | `ServingProofs` |
| `Suggestions` | the trie, the recalls of sug, hint and nav, the weighted sum and the cut, as operators | within `Serving` | `ServingProofs` |
| `Serving` | requests, rebuilds and deletes on the started server; composes `Startup` and `Suggestions` | `MCServing` | `ServingProofs` |
| `SearchRequest` | a request from `Server::Search` through the stages of its handler | `MCSearchRequest` | `SearchRequestProofs` |
| `ReportStore` | the report queue, its flush thread, `Stop`, the time series | within `EventHandler` | `EventHandlerProofs` |
| `Scheduler` | the scheduler thread, its condition variable, and `main` from its start to the end | within `HotSwap` | `HotSwapProofs` |
| `HotSwap` | the suggestion trie, the hot list and the model, the requests that read them, the tasks and requests that replace them, composed with `Scheduler` | `MCHotSwap` | `HotSwapProofs` |
| `EventHandler` | `Handle` of an event on the request threads, with all it stores, composed with `ReportStore`, start, end and crash of the process | `MCEventHandler` | `EventHandlerProofs` |

### DagPipeline

State: `pending`, `completed` are the atomics of `DagExecState`; `items` the nodes
whose output has items; `epc` the caller's position in `Execute`, `next` its root
loop; `wpc`, `task`, `todo`, `ready` a worker's position in `ExecuteNode`;
`claimed`, `runs`, `finished` are history. Actions: `Begin` (allocate the state),
`SubmitRoot` (one round of the root loop), `Lock`, `TestCompleted`, `Park` (the
three parts of `cv.wait`), `Collect`; `TakeTask`, `SkipNode` (the two `goto
advance`), `StartProcessor`, `FinishProcessor`, `DecrementDown` (one `fetch_sub`),
`SubmitDown`, `CountCompleted` (the `fetch_add`), `Notify`. The mutex is held from
`Lock` to `Park`, so `Notify` is enabled only outside. A processor either leaves
items or not; its return code and its exceptions reach only the log. The pool is
here a plain FIFO, which `DagThreadPool` justifies (`StartedInOrder`,
`EverySubmittedTaskRuns`). `SessionExpires` is the clock passing the deadline;
the code reads a wall clock, and the case that it is set back is left out.
`Dags` stands for what `LoadFromConfig` accepted; disabled, unregistered and failed
processors are `Disabled`.

Abstract specification: `DagSchedule` knows neither counters nor threads; a node
starts when its dependencies are done, and the call returns when all are done.
`ImplementsSchedule` maps a node to busy while some worker is in it before its
outputs are final, and to done after.

### DagThreadPool

`tasks_` and `stop_` change only under `mu_`: a critical section is one step, a
notification is a step of its own, since `Submit` and `Shutdown` notify after the
unlock. `Child` lets a running task submit one more, as a recall node does for a
downstream node. Clients submit at any time, before `Init` and after `Shutdown`
too: such tasks are `late`, and only a new start runs them. `current` is the task a
worker holds. The pool has one owner, which calls `Init` and `Shutdown` in turn, as
`main` and the static destructor do.

### DocCorpus

State: `db` is the table; `heap` the index objects made since start-up, each
abstracted to the content it holds per document and the set of documents with a
vector; `active` the pair AppContext points to; `recall` the object the keyword
recall keeps; three files with their damage (`kind`: none, partial, mixed, whole)
and their writers; `pc`, `req`, `obj`, `ids` the threads. Each action is one
critical section, one SQL statement or one file operation:

| Code | Actions |
|---|---|
| `AppContext::AddDocument` | `AddLock`, `AddPut` or `AddPutFails`, `AddInv`, `AddVec`, `Save`, `AddDone` |
| `DocHandler::HandleDelete` | `DeleteRow`, `DeleteGet`, `DeleteRemove` |
| `IndexRebuildTask::RebuildAtomically` | `RebuildStart`, `RebuildProvider`, `RebuildRead` per document, `RebuildSwap`, `Save`, `RebuildDone` |
| `InvertedIndex::Save`, `VectorIndex::Save` | `SaveOpen`, `SaveWrite`, `SaveRename`, `VecOpen`, `VecWrite` |
| `AppContext::Initialize` | `BootLoad`, or `BootBuild`, `BootImport` (both indexes) and `BootStore` (`PutDoc`) per document, `Save`, `BootDone` |
| first search of the keyword recall | `Search` |
| the process is killed | `Crash`, at any step, start-up included |

Two `Save` calls may overlap, because the rebuild saves without AppContext's mutex:
they share the temporary file, and a rename may move a file that is still being
written. A damaged file reads as anything.

Statements on `docs.db` may fail, as they all do when it could not be opened and start-up goes
on without it: `PutDoc` of a request (`AddPutFails`, the request fails) and of the first import
(`BootStore`, which the code does not notice), `GetAllDocIds` and `GetDoc` of start-up
(`BootBuild`) and of a rebuild (`RebuildStart`, `RebuildRead`), which list less or pass a row over.
A failing `DeleteDoc` answers 404 and changes nothing.

`taint` is history: the documents in doubt, on which an index object (or file) may differ from
`db`, because requests overlapped on them or overlapped the making of the object, because they were
not saved before the process died, because their row could not be read when the object was made,
or because the import has indexed them and not stored them. It is kept per document and per
object, so a failure puts in doubt the document it was about and no other, and a new object starts
without the doubts of the old one. `IndexAgrees` says that these are the only causes, and
`WriteAhead` that of the others the index never shows one that `docs.db` lacks.

### InvertedIndex

A document is what `Tokenize` makes of it, a set of terms per field; `Inputs` are the
documents considered. Every operation runs under `rwlock_` and is one step. `file`
is the last saved content; `Load` builds a term list only from a line with terms,
as the stream does, and `wordless` remembers the documents for which there is none.
The average is kept as a fraction, so that no rounding is modelled. Ids and terms
contain no white space: that is so of the terms of `SimpleTokenize`, the tokenizer
in use (`SetJieba` has no caller); ids with white space would break the text format
and are left out. `SearchableDocs` is the promise to searches; `ImplementsSearch`
also requires that an addition sets the document's terms to exactly the new ones.

### IndexBuilder, VectorIndex, QueryParser, RecallFusion

`VectorIndex` has both builds, chosen in `VectorInit` (`faiss`): with Faiss, `points` has the
vector of each position and `idMap` the document; without, `vectors` has one vector per document
and `idMap` is only counted. Nothing removes a vector. Its file holds no ids with Faiss: after
`LoadVectors` the next `AddVector` puts its id at position 1, which belongs to another document.
`VectorsFollow` says what holds in spite of that: without Faiss every document ever added has
its last embedding; with it, until a file is loaded.

`IndexBuilder` makes a step of each of its calls: `Put` (`AddDocument` behind the row of
docs.db), `DeleteDocument`, `ClearIndex`, `SaveIndexes`, `LoadIndexes`. `given` and `givenFile`
are history: what each document was last added with. A search is an operator of the state:
`Parse` makes terms of the text, `InvertedRecall` and `VectorRecall` give lists, `FuseByRRF`
one. `std::sort` leaves equals in any order, so each gives a set of lists. The recall scores are
abstracted to the number of matching terms and to a similarity of two embeddings; the fusion
replaces them anyway and keeps only the order, in which sums of reciprocals are compared over a
common denominator.

`QueryParser` takes a text as a sequence of characters, of which a few stand for each class the
code tells apart (small and capital letters, a digit, a wide character, a full-width capital,
punctuation). `SimpleTokenize` makes the terms of documents, `Parse` those of queries, through
`Normalize` (full width to half, small letters, noise, spelling, stop words) and `Expand`.
The steps of the normaliser that drop characters leave those at some places, in their order
(`AtPlaces`), and a tokeniser cuts at the places where runs begin (`Starts`, `Run`), so that no
definition of the module is recursive. `FoundByTitle` contains a comparison of both tokenisers on all texts
(`TokenisersAgree`) and the bounds of the expansion (`ExpansionBounded`). A title finds its
document if it leaves at least one term and is without the quirks that `Plain` names: full-width
characters, apostrophes, a letter next to a digit, three equal letters in a row, punctuation
inside a word, and capitals that directly precede a wide character, which the tokeniser of
documents leaves as they are. Of such a text the query has all terms but those of stop words.
These need not be stop words themselves: a stop word of several wide characters ("没有",
"自己") is dropped as a word, while its document has a term for each of the characters. The
limits are part of the promise: `max_recall` of the keyword recall cuts documents that have
every term when there are more of them than it allows (`HavingAll`), and `max_total` cuts the
fused list.

### SearchRequest

One request and its session, which one thread works on; the only thing that happens
beside the stages is the clock (`SessionExpires`). `pc` names the stage. `business`
says whose hooks run: the search business, one of the three list businesses
(suggestions, hints, navigation, which have the same stages), a handler somebody
might add (`custom`: every hook may return any code, and it may want its
interposition to see rejected requests), or a name nobody registered. The lists
`recall`, `coarse`, `fine`, `final` and `vector` are the vectors the stages copy, sort,
cut and filter in place; they are sets as long as the code sorts them again before
their order matters. `title` holds what `MergeRecall` found in docs.db: the titles by
class of similarity. Scores are arbitrary numbers, 0 for what a scorer leaves out.

| Code | Actions |
|---|---|
| `Server::Search` | `Route`, `Answer` |
| `BaseHandler::Search` | one action per stage: `InitSession`, `CanSearch`, `PreSearch`, `DoSearch`, `BeforeRank`, `DoRank`, `AfterRank`, `DoRerank`, `Interpose`, `SetResponse`, `Report`; its returns are `Leave` and `Reject`, its `ScopeGuard` an action |
| `SearchBizHandler` | `Recall` (`MergeRecall`), `Rank` and `SortAndCut`, `Rerank`, `Postprocess`, the page in `SetResponse` |
| `ProcessorPipeline::Execute` with the filters | `RunFilter` per filter with the test of the deadline behind it, `FiltersDone` |

`opened`, `finals`, `impressions` and `ranked` are history. Left out: parsing the query,
interposition rules (nothing in the repository provides any), the A/B overrides of
the cuts (never set), page numbers below 1.

### ReportStore and EventHandler

`ReportStore` is the queue (`queue`), the batch of the flush thread with the part not yet
inserted (`batch`), the connection's transaction (`open`) and the rows in it (`txn`), the committed
table (`rows`) and the flags of `Stop`. An event is held by its serial number, its place in the
history `accepted`, so that two that look alike are told apart. The actions are `Initialize`,
`Report`, `Stop` in its two halves around the join, and for `FlushLoop` `LeaveLoop`, `EnterLoop`,
`WaitEnds`, `TakeBatch`, `BeginBatch`, `InsertRow`, `Commit`. `FlushLoop` tests the result of
`sqlite3_prepare_v2` only, so each statement also has a step in which it fails and the loop goes
on: `BeginFails` (then each row commits by itself), `PrepareFails` (the batch is lost),
`InsertFails` (one event is lost), `CommitFails` (the transaction stays open and takes the next
batch); SQLite may also roll the transaction back (`TransactionFails`).

What becomes of an event that does not reach the table is history too: `lost` are those that a
failed statement or a crash (`ProcessDies`) took, `dropped` those that were still queued at the
orderly end (`ProcessEnds`), which `Stop` does not write. `Ledger` says that the four places hold
every other event ever accepted, once and in order. The end of the process does not change
`accepted`, so an event that vanished at a stop would break `Ledger` if it were not counted as
dropped, and `ReportsInOrder` says that this happens at the end only.

`EventHandler` extends it. `pc` says where a request thread is in `Handle`:

| Code | Actions |
|---|---|
| `EventDB::WriteEvent`, the report of clicks and likes | `WriteEvent`, `ReportEvent` |
| `UserProfileManager::UpdateFromEvent` | `LoadAndUpdate`, `OpenProfile` (truncates the file), `WriteProfile` (the stream is closed) |
| `QueryStatsStore::IncrementQuery` | `IncrementQuery` |
| the block under `s_last_click_mutex` | `SwapLastClick` |
| `DocCooccurStore::RecordCooccurrence` | `RecordForth`, `RecordBack` |
| `main` | `Start`, `ServerReturns`, `StopStore`, `Exit` |
| search, sug, hint and nav report impressions | `Impression` |
| the process is killed | `Crash`, at any step |

A profile is read, changed and written without a lock. `file` is therefore a map of file names
to profiles: a reader that meets a truncated file gets a profile without a uid, and saves it
under the name `.pb`. `raced` is history: the users with overlapping updates or with an update
cut by a crash; `halved` says whether a pair was stored in one direction only. `ProfileExact`
and `PairsMirror` say that these are the only causes of a difference. A statement on `docs.db`
or `events.db` may fail, because other connections write the same file and no busy timeout is
set; so may those of `report.db`. `Handle` goes on after a failed `WriteEvent`, it reports and
counts an event that the log lacks: `unlogged` is the history of these, and
`CountsWithinEvents` bounds by how much counts can be ahead of the log. Left out: category weights of profiles, timestamps, what suggestions add to the query counts, and the tail
that stays when a shorter profile is written over a longer one by an overlapping update.

### Scheduler and HotSwap

`Scheduler` has `main` (`phase`) and the scheduler thread (`loop`, and `turn` for the task
the `for` loop is at). `Stop` is three steps: the store (`RequestStop`), the
notification, which wakes the thread only if it is asleep (`NotifyAll`), and the join. The
thread reads the flag at the head of the loop (`Test`), is awake for a moment after it
has found the predicate of `wait_for` false (`Park`), sleeps until it is notified or the
period ends (`TimesOut`), and then goes through the tasks (`SkipDisabled`, `TaskStarts`,
`TaskEnds`, `NextTask`). `late` is history: the tasks started after the request to stop. A
signal before the server listens does nothing, since httplib's `stop` has no
server to stop and nobody reads `g_shutdown_requested`: `SignalHandler` waits for
`listening`.

`HotSwap` extends it with what the tasks do and what requests share with them.

| Code | Actions |
|---|---|
| `SugBizHandler::RebuildTrie`, by the task and by a request | `RebuildRead`, `Build` (the switch) |
| `SugTrieRecallProcessor::ProcessDag` after `Search` | `ReadEntries` |
| `HotContentRecallProcessor::ProcessDag` | `ReadClock`, `ReadLastRefresh`, `CompareExchange`, `TakeSnapshot` |
| `RefreshHotList` | `ReadDocs`, `StoreList`, `StoreRefreshTime` |
| `LGBMRankProcessor::HotReload`, by an admin and by `curl` | `AdminReload`, `ServeCurl` |
| `AutoTrainTask::CheckAndRun` | `CallTask`, `NotDue`, `DumpTrainData`, `RunTrainScript`, `HotReloadModel`, `CurlReturns` |
| `TrieRebuildTask::CheckAndRun` | `CallTask`, `NotDue`, `RebuildTrie` |
| `main` and the loop | `Main`, `Between` |

`docs` numbers the states of `docs.db`, and `trie` is the number of the state its documents
were read at; `hot` and `lastRefresh` are times. `settled`, `slow` and `empty` are history:
what the trie must not fall behind (at each switch, the oldest that the rebuild and those still
between reading and switching have read: overlapping rebuilds may take the trie back, but not
behind that), whether a refresh took longer than the interval,
and whether the last one found nothing to list. Two things in the code are undefined behaviour,
and both are a choice between going on and the end of the process (`Dies`): reading entries of
a trie that was replaced (`Search` returns pointers and lets go of the buffer), and
replacing a model, because `BoosterDeleter{}` is a null function pointer. The same
deleter ends the process when it exits with a model, after everything modelled here. Left
out: words and prefixes, scores, when a task is due (it always may be), the
scoring that reads the model, and the rebuild of the index, which `DocCorpus` has.

### Cache

`CacheManager` locks nothing over its two levels: `Get`, `Set`, `Delete` are the step in level 1
and leave in `call` what the thread has still to do (`GetL2`, `Fill`, `SetL2`, `DeleteL2`). `l1`
is the list with the last used entry first; `list_` and `map_` are one. `Evicted` takes the
expired entry nearest to the end, or the last. `store` and `expiry` are the in-memory Redis
client, which is all the repository has. `clean` is history: no other call on the key ran
together with its last write; `cleared` are the keys for which `Clear` was called since: it clears
level 1 only, the header says both (`cache_manager.h:65`), and `KeptUntilDue` takes neither
side; `older` is history too: which of two keys level 1 was
asked for later, so that `VictimOldest` can say which entry an eviction may take. Left out: the
connection and its loss, lists and patterns of keys, statistics.

### PipelineConfig, Startup, Suggestions, Serving

A stage of a YAML file is absent, no list or a list of entries with a name, `enable` and
`depends_on`. `LoadRecall` gives the nodes, the slots (the empty one for a disabled,
unregistered or failing processor) and `loaded`; `BuildDag` is Kahn's algorithm in rounds
(`KahnRounds`), `ExecuteReturns` is what `Execute` makes of the same counters.
`GraphsRunOrRefused` compares both with `WaitForEachOther`, which says in terms of the graph
that some nodes wait for one another.

`Startup` has one action per step of `main`: `LoadAll`, `LoadBusiness` for each file of `biz/`
in any order, `InitPool`, `InitContext`, `ReadBusinesses`, `InitHandler` for each entry,
`StartServing`; `phase` "exited" is each return of main with an error. `Serving` adds the state
of the suggestions and the requests.

| Code | Definitions |
|---|---|
| `Server::HandleRequest`, `Server::Search` | `Request`, `QueryOf`, `DocIdOf`, `NoHandler`, `Answers`, `Hangs` |
| `SugBizHandler::RebuildTrie`, at the start, by the task, by an admin | `StartHandler`, `RebuildRequest`, `Entries` |
| `SugTrie::Build`, `Search` | `Through`, `Search` |
| `lib/recall/sug_*`, `hint_*`, `nav_*` | an operator of each recall's name, giving the set of its outcomes |
| `RankEngine::Score`, `ApplyRankOutput` | `Score`, `Ranked` |
| `SetResponse` of sug, which counts the query | `SugSetResponse` |
| `DocStore::DeleteDoc` | `DeleteDoc` |

A node of the trie keeps the first `NodeCap` entries that were inserted through it, in the order
of frequency in which `Build` has sorted them; what is cut among equals is any choice (`TopOf`).
`rebuilt` is history: what the last rebuild has read, which `SuggestsTheFrequent` compares
answers with. It does not claim that the queries suggested are the most frequent of all: of the
user queries `RebuildTrie` takes the first 200 (`TopQueries`), so that a query which begins as
asked may be missing while a less frequent title is there. `SurelyTaken` are those that no order
of equals can cut. A request is one step, since what it shares with others is covered elsewhere
(rebuilds in the middle of it in `HotSwap`, the recall graph in `DagPipeline`); any of its
recalls may be cut by the time-out. Features are numbers in thousandths, and all entries are of
one day.

## 3. Runs

| Run | Instance | Shows |
|---|---|---|
| `dag_graphs` | 1 request, 2 workers, all graphs on 3 nodes that list a node before its dependencies, node 2 unusable | single execution, no race on outputs, quiet return, no lost wake-up, the schedule is implemented, every call returns |
| `dag_listed_after` | 2 nodes, the second depends on the first | violation of `OutputsRaceFree`: double submission |
| `pool` | 2 workers, 3 tasks (one submits another), 2 starts | order, no lost wake-up, drain, every task runs, `Shutdown` returns |
| `corpus_requests` | 2 documents, 2 contents, 2 clients, 2 requests, 1 rebuild, 1 crash | with failing statements and the first import: agreement of index and table but for documents in doubt, integrity of the file, write-ahead of requests |
| `corpus_recall` | 1 client, 1 request, 1 rebuild | violation of `RecallSeesStore`: the recall keeps the old index |
| `inverted_index` | 3 documents, 4 inputs of up to 3 terms in 2 fields, both builds, 3 vectors, all texts up to 4 characters, at most 2 documents per recall | consistency of the structures, counters and vectors, `SearchableDocs` implemented, titles find their documents |
| `search_stages` | 3 documents, 2 title classes, 3 score values, 4 filters, the default configuration and one per `skip_*` flag, cuts of 3, 2 and 2, pages and sizes 1 and 2 | what a filter rejects is not answered, what all leave is, the best first, one report, impressions of what is answered |
| `search_dedup` | the same | violation of `NoNearDuplicates`: the dedup filter compares with an empty list |
| `events` | 2 request threads, 3 events out of 5 requests and impressions, batches of 2, 1 click kept per profile, last-click map cleared above 1 entry, 1 failing statement or crash | reports in order, none lost without a fault, only the queue dropped at the end; counts within the events that came in; profiles exact, co-occurrence symmetric |
| `hot_swap` | 2 request threads, 2 requests, 3 tasks of which one is disabled, 2 changes of documents, the clock from 2 to 4, an interval of 1 | at most one task after the request to stop, the trie does not fall behind what the rebuilds under way have read, a recent list, a signal ends the process |
| `cache` | 2 threads, 4 calls, 3 keys, 2 values, room for 2 entries, lives of 1 and 2 ticks, the clock up to 4, with and without Redis | agreement of the levels, level 2 keeps until due or cleared, the victim of an eviction |
| `serving` | every recall list of up to 3 nodes over 2 names; every list of up to 3 of 6 businesses; numbers at the limits of their ranges; 4 directories; 2 ways of sharing handlers and 2 sets of rank files, with 3 documents, 2 past queries and 9 requests; 3 requests, rebuilds or deletes | graphs run or are refused, routing, frequent suggestions, hints lead elsewhere |

Why the bounds are enough to be of interest. DAG: three nodes give chains, forks, joins and
independent roots; two workers give every race between two decrements and between a worker and
the caller; requests share only the queue, whose order the pool run covers, so one request is
checked and the proofs cover any number. Pool: a worker can be asleep, running or returning
while the other takes, and the second start shows what becomes of late tasks. Corpus: two
requests suffice to overlap on one document, to overlap with a rebuild and its two saves, and a
crash may fall between any two steps and be followed by a second life of the process; clients
are symmetric and no property of that run is temporal. Inverted index: the keyword index is
finite without a bound, and three vectors are enough for an update, a reload and an addition
behind it; the inputs include a document of no words, one with a term in two fields and two that
share a term. Cache: with three keys and room for two every fill evicts; four calls are enough
for a back-fill to meet a write and another key to be evicted in between. Serving: `NodeCap`
(200 in the code), the limits of the recalls and those of `top_k` are lowered to 2, 3 and 4 so
that each cuts something; three nodes give cycles of one, two and three, also behind unknown,
repeated and empty names. Requests: with three documents the cuts of the rerank and MMR stages
take something away, scores can tie and differ, one document is on the blacklist, one may lose
its title, and the fine list can be emptied while the coarse one is not; a request is a finite
sequence of stages. Events: three events fill a profile and overflow it, overfill a batch, make
a pair of documents and clear the last-click map, on threads that may overlap in each of these;
a crash may fall between any two steps and leaves room for a second life; the threads are
symmetric and no property of that run is temporal. Hot swaps: two requests refresh the list one
after the other or meet at the compare-exchange, or rebuild the trie beside the task, with three
rebuilds that have read three different states; two ticks let a list made at 2 become
stale, be refreshed, and a refresh take too long; the changes may fall between any two steps, and the proofs cover any numbers of all of these but for `SignalEnds`.

Each module has a type invariant (`TypeOK`, `PoolTypeOK`, `StartTypeOK`); the run of the corpus
checks its own, those of `DagPipeline`, `DagThreadPool`, `DocCorpus`, `SearchRequest`, `HotSwap`,
`Cache`, `Startup` and `Serving` are proved, and the others hold in the same runs when they are added to their configurations.

Deadlock is checked in every run; `AllReturned`, `Finished`, `Waiting`, `Rest` and `Done` (in
`SearchRequest` after the answer, in `EventHandler` and `HotSwap` after the end of the process)
are the places where the system may rest. In `DocCorpus` every thread's program is finite and
the only cycle is `Waiting`, so that the absence of deadlock says that every request, rebuild
and start-up comes to its end; no fairness is stated there.

Fairness (`FairSpec` of the two DAG modules): a thread that can take a step takes
one (the operating system schedules it and processors return); in the pool also
the notification that follows a push and the rest of a begun `Shutdown`. Nobody has to
send a request, start or stop the pool; no spurious wake-up and no time-out is relied
upon. In `HotSwap`: each request thread goes on, so does the scheduler thread, whose timed wait ends
(the timeout is relied upon there: the notification may come while the thread is at `Park`,
which sends it to sleep for a period), child processes end, and `main` goes on once the
server is told to stop. That each request thread goes on includes that the recall graph of its
request ends (`EveryCallReturns`); on a refused graph, which `Serving` has, it would not, and then
the server would never return from `stop`: `SignalEnds` says nothing of that case. Nobody has to send a request or a signal, and no task has to be due.

### Disagreements with the documentation

- `dag_listed_after`: "每个算子有独立 RecallOutput，写入无竞争" (`dag_pipeline.h:11`, `:58`)
  does not hold when a node is listed after one it depends on: line 182 of
  `dag_pipeline.cpp` reads the counter while workers already decrement it. The node is
  submitted twice; `completed` may then reach N early (a return while nodes run) or
  pass it (a caller that waits for ever). The shipped pipelines declare no
  dependencies and are not affected.
- `corpus_recall`: the atomic switch of `index_rebuild_task.h:3`, `app_context.h:86` and
  the README does not reach the keyword (and vector) recall, which keeps the index of
  its first search (`inverted_recall.cpp:29`).
- `search_dedup`: "与已保留的结果比较标题相似度" (`dedup_filter.cpp:66`) and `README.md:195`
  promise that similar titles are answered once. The filter compares with
  `final_results`, which only the stage after the filters fills: it removes nothing.

Met while modelling; the model has the code's behaviour, and no run is spent on them:

- A deleted document returns after a restart: `HandleDelete` saves nothing, and start-up loads
  the saved index. The comment at `doc_handler.cpp:136-137` relies on a rebuild from SQLite,
  which the shipped `rebuild_on_start: false` does not make.
- The first import does not write ahead: `BuildFromDocs` adds each document to both indexes and then
  ignores the result of `PutDoc` (`index_builder.cpp:78-98`), and start-up goes on when docs.db does not
  open (`app_context.cpp:57-60`), so that documents can be searched which docs.db lacks; a row that
  `GetDoc` fails on is passed over without a word (`app_context.cpp:93`, `index_rebuild_task.cpp:58`).
- `FlushLoop` ignores the results of `BEGIN`, of each `INSERT` and of `COMMIT`
  (`report_store.cpp:106-121`): the events concerned are lost, or wait in a transaction that is
  rolled back when the store is closed.
- `Handle` reports and counts an event whose `WriteEvent` has failed
  (`event_handler.cpp:244-259`): the dashboard can be ahead of the event log.
- Events queued at the stop are dropped: the thread leaves its loop at the next test of
  `stop_requested_` (`report_store.cpp:88`) without looking at the queue; `report_store.h:50` says
  "停止后台线程并刷盘".
- `config/biz/sug.yaml` and `README.md` weigh the features `prefix_match`, `freq_norm` and
  `freshness`; the recall provides `pm`, `fn` and `fs` (`sug_trie_recall.cpp:34-36`). Every score is
  0, and the order of suggestions is that of an unstable sort.
- A refused recall graph stays in place (`processor_pipeline.cpp:170` ignores the result), and
  requests of that business wait for ever (`Hangs`).
- Two businesses that share a handler both run under the configuration of the later one, and a
  handler whose business has another name than the one it is written for (`sug`, `hint`, `nav`)
  answers nothing, because it stores its candidates under its own name and the skeleton looks
  under the configured one.
- The tables of the statistics and co-occurrences are opened by the suggestion and hint handlers
  only: without these businesses in the list events are not counted.
- `Cache`: a capacity of 0 makes `Put` loop for ever, a `redis_ttl_seconds` of 0 leaves an old
  expiration on a new value, and `Clear` clears level 1 only, where `cache_manager.h:65` says both levels.
- `SimpleTokenize` lower-cases a run of letters before a space or punctuation, but not one that
  a wide character follows.
- With Faiss, an update leaves the old vector in place, ids are not saved, and positions of vectors
  added after a load are matched with the wrong documents.

## 4. Proofs

`DagProofs`, of the pipeline: for any requests, workers, `N >= 1` and graphs.

- `TypeCorrect`, `WakeTheorem` hold for every graph. For the second, `WakeInv` extends the
  property to the moment between the test and the sleep: `Notify` cannot happen
  there, because the caller holds the mutex.
- `OnceTheorem`, `RaceFreeTheorem`, `QuietTheorem` and `ImplementsTheorem` assume
  `ListedBefore`: every node is listed before the nodes it depends on. This is what the
  root loop needs (the violation run shows it is not superfluous): when the loop reaches
  a node, the nodes it depends on have not been submitted, for they come later in the
  loop and their own counters are not yet read. The graphs without dependencies, which
  the repository ships, satisfy it.
- The inductive invariant `IInv`: a node is claimed at most once, by the root loop
  or by the decrement that reads 1, when nothing is left to wait for (`ClaimInv`); a
  claimed node is in exactly one place: with a worker about to submit it (`ReadyInv`),
  in the queue (`QueueInv`) or run (`BusyInv`); the counters count (`CountInv`): `pending`
  the upstream nodes whose decrement is still to come, `completed` the finished nodes.
  The properties are not inductive by themselves: that no node runs twice follows only from
  where each submission can be.
- The refinement uses the invariant for the guards of `DagSchedule`: `TakeTask` needs that
  the node is new and its dependencies done, `Collect` that all nodes are done.

`DagProofs`, of the pool: for any threads, tasks, child relation and number of starts,
`PoolTypeCorrect`, `NoStuckTheorem`, `DrainTheorem`, from an invariant that says which
positions of the workers go with which position of the owner (`OwnerInv`), that queued
tasks keep some worker from returning (`DrainInv`), and that all workers asleep
over a queued task means a notification is on its way (`StuckInv`). `OrderTheorem`: tasks
start in the order of submission and each once. The queue alone does not give the second,
for a running task submits its child: `OnceInv` says that a task which runs was taken and has
one worker, and that a submitted child's parent was taken and is past the submission.

`DocCorpusProofs`: for any documents, contents, clients, rebuilds and crashes.

- `TypesStay` is the type invariant, with what it rests on: `Shapes` of the files and `Control`,
  which says of each position of a thread who has the mutex, what its request is and which index
  object it works on. A client that adds holds the mutex and has the active object; one that
  deletes holds nothing, and its object may have been replaced.
- `FileStaysWhole` (`FileIntact`): `AloneInv` says that as long as no two calls of `Save` have
  overlapped, the temporary file belongs to the one between its opening and its renaming.
- `IndexFollowsTable` (`IndexAgrees`) and `TableIsFirst` (`WriteAhead`) rest on `CorpusInv`. For the
  memory: no two rebuilds fill one object, and none fills the active one (`MakersApart`); every
  object agrees with docs.db on the documents not in doubt, or the rebuild that makes it has
  still to read the document (`ObjectsAgree`); and a request that is alone on its document has
  taken docs.db and the index exactly as far as its position says (`Progress`). The import stores
  the one document it has just indexed (`ImportInv`), so that what `PutDoc` writes when it succeeds
  is what the index holds, and when it fails that document alone is in doubt. For a restart the
  files must be known too (`FilesInv`, needed only where start-up loads them): a damaged file is
  in doubt about everything until its last writer closes it (`Damage`); what is certain of a
  whole file agrees with docs.db and has no request under way (`Settled`). One exception is
  necessary, `Stale`: after a second crash during the first import, `inverted.idx` may lack
  imported documents, which is harmless because it is not loaded without `vector.faiss`.

`IndexBuilderProofs`: for any documents, terms, inputs, vectors and operations.
`BuilderDrivesIndex` shows that `IndexBuilder` takes the keyword index through its own steps only,
so that what is proved of `InvertedIndex` holds in the composition.

- `ListsStayInverse`, `NodesStayCurrent`: posting lists and term lists are inverse and what a posting
  carries is current (`Consistent`). It is stated for any content, memory or file, because `Load`
  makes the content of the file that of memory.
- `IndexImplementsSearch`: every step is one of `SearchableDocs` or a stutter; `AddPutsTerms` and
  `RemoveDropsDocument` say what the two operations do to the terms a document is found by.
- `CountersStayExact`: the counters are kept up one addition at a time, whereas the property adds all
  the lengths up. What relates them is that any element may be taken out of a sum first
  (`SumWithout`); `MapThenSumSet` takes them in an order of its own, and the lemmas about sums are
  proved by looking at a smallest set on which they would fail.
- `VectorsKeepUp`: the builds share the list of ids only, so `VectorInv` has a part for each:
  without Faiss memory and file hold the last embeddings; with it, until a load, the last
  position of a document has its last embedding.

- `TokenisersDoAgree` (`TokenisersAgree`): for texts of any length over any alphabet. `InOrderIs` says
  what the order of a set of places is, `AtPlacesOfPlaces` that places of places are places, by
  which the steps of the normaliser become one set of places that are kept. That the steps
  change no term is `KeepsRuns`: a set of places that keeps each longest run of word characters
  whole, or drops it whole, and never drops all that separates two runs (`Neighbours`) leaves the same
  pieces (`PiecesKept`). `ClearedKeepsRuns` shows this of spaces, noise and spelling, which drop only
  separators of a plain text, and `StopWordsKeepRuns` of the stop words, which drop whole words between spaces. `Expand`
  adds nothing since what a tokeniser makes is one wide character, or small letters and digits, and no
  head word of the dictionaries is either (`TokensAreNoHeadwords`).
- `ExpansionStaysBounded` (`ExpansionBounded`): each dictionary keeps what was there in front and
  puts new words behind it, each unlike all before (`Extends`), and the filter keeps that front.
- `TitlesFindDocuments` (`FoundByTitle`): `SearchInv` says of memory and file that the term lists
  are those of the inputs last given, and that the graph holds embeddings. A document that has
  every term of the query has the highest number of matches, so if the cut left it out, all
  the documents before it would have every term too, and be more than `max_recall`
  (`SearchTermsIs`). In the fusion the product of the denominators is divided by each of them
  (`ProductsDivide`), so that a rank has a positive share, less than any rank before it (`Shares`);
  a score is the sum of the shares of both lists (`FusedScoresAdd`), hence greater for a document that is before
  another in both (`FusionFollows`).

`SearchRequestProofs`: for any finite set of documents, any titles, scores, list of
filters, configurations and cuts, `TypeCorrect`, `FilteredTheorem`, `ReportTheorem`,
`SurvivorTheorem` and `BestTheorem`. The invariant has four parts besides the types. `PassInv`
follows the search business: up to the recall the fine list is empty, up to the filters the step is 1, a document of the
fine list has passed every filter that has run, and the final list, the response and
the reply hold only such documents, of a pipeline that ended or was cut short by the
deadline. It is not enough to speak of the reply: that a filter works on the list
which is answered is decided three stages earlier, and titles must not change any more.
`ReportInv` says in which stages the session is open, reported and its impressions
sent. `StageCases` is the shape of the template method: a stage goes on, or leaves with
an error, or leaves with the empty response. `SurvivorInv` (`SurvivorsAnswered`) gives the fine
list exactly: from the re-ranking to the filters it is the ranked documents that every filter run
so far lets pass; the answer is then long enough, and exactly so when the clock did not cut it
short. `BestInv` (`BestFirst`) holds the promise at the three places where the code cuts: no
recalled document is more relevant than a ranked one it lost to (`RankedBest`), the first
of the final list is the best of those left (`FirstBest`), a list business cuts the worst
(`ListedBest`).

`EventHandlerProofs`: for any events and batch size, `StoreLedger` is the ledger of the reports,
whatever statements fail, through orderly ends, crashes and restarts. It is about one sequence,
`rows \o txn \o batch \o queue`; the proof works with the four parts, each increasing and each before
the next (`LedgerParts`, `Arranged`), since a step moves an event from one to another. It is inductive
with the types and with `BatchHeld`: outside the writing part of the loop the batch is empty, and
there are rows in a transaction only while one is open; without that a batch could be taken over
an unfinished one, or a row without a transaction overtake one that waits for a COMMIT.
`HandlerUsesStore` shows that the composed system, with any number of threads and requests,
implements `StoreSpec`: every step of a handler, of `main` and of a crash is a step of the store or
leaves it alone; the one invariant it needs is that a thread works on a request that exists.
`HandlerLedger` (`ReportsInOrder`) adds what the composition knows: before the first fault a
transaction is open only while a batch is written, so that the close in `Stop` finds none to roll
back and nothing is lost, and only the orderly end drops anything (`LossInv`). Of what the
handlers store:

- `CooccurrenceSymmetric` (`PairsMirror`): one thread at most is between the two statements of
  `RecordCooccurrence`, since both run under a mutex, and the table is off by its pair only.
- `ProfilesExact` (`ProfileExact`): `ProfileLaw` says of a user whose updates never overlapped that
  one thread at most updates the profile, that it carries the exact profile with its own event
  added, also while the file is truncated, and that the file is exact while nobody writes it.
- `CountsStayWithinEvents` (`CountsWithinEvents`): for each count there are the threads whose
  `WriteEvent` is over, well or badly, and which have not counted the event yet; what is counted and
  those threads together are no more than the events handled (`SeriesInv` for the reports,
  `QueriesInv` for the uses of a query). `ChainInv` does the same for pairs: the documents of the
  last-click map and of threads about to store a pair are of clicks of one user. It does not
  say that what is counted is in the log: after a failed `WriteEvent` it is not.

`HotSwapProofs`: for any tasks, threads, interval and bounds. `StopTheorem` is about `Scheduler`
alone; it needs that nothing has started late when the loop is about to choose (`LateInv`),
since the flag was read on the way there. `UsesScheduler` shows that every step of `HotSwap` is
one of the scheduler's or leaves it alone, and `StopInComposition` follows. `TrieTheorem` needs
that what a rebuild has read lies between what has settled and what is stored, so that its
switch cannot go back behind that; that the rebuilds under way have read an oldest state is taken
from the well-foundedness of finite sets. It does not say that a switch never goes back: with
rebuilds that overlap it may. `AloneTheorem` and `RecentTheorem` rest on `HotInv`, which holds until a
refresh takes longer than the interval: a refreshing thread's time is at most `lastRefresh`, so
another's compare-exchange on a value an interval older fails; a thread about to exchange has
seen the current value or one that is recent anyway; and the list is behind `lastRefresh` only
while somebody refreshes or when there was nothing to list.

`CacheProofs`: for any threads, keys, values, capacity and times to live, with and without Redis.

- `TypeTheorem`: level 1 has each key once and never more entries than the capacity.
- `CacheCoherent` (`LevelsAgree`) and `NothingForgottenEarly` (`KeptUntilDue`) rest on `Law`, a
  statement about one key: while the last write of a clean key is not over, it is the only call
  on it; once it is over, whatever either level and any back-fill under way hold for the key is its
  value, and level 2 has it with its own expiration until it is due or `Clear` is called. The properties speak of
  entries that have not expired; the invariant must speak of the expired ones too, for the
  back-fill gives an old value a new time to live.
- `EvictsTheOldest` (`VictimOldest`, an action property): the type invariant includes that the list
  is in the order of the last requests, so that the place nearest to the end is the oldest; that
  a set of places has a last one is taken from the well-foundedness of finite sets.

`ServingProofs`: for any deployments, that is any framework.yaml, any files of `biz/`, any docs.db,
statistics, co-occurrences and requests, and any limits.

- `BuildDagIs`: Kahn's algorithm accepts a list of nodes exactly when no nodes of it wait for one
  another. `KahnInv` says of each round that the nodes which have left the queue and those in it
  are exactly the ones whose dependencies have all left it, each once; that each round takes one
  more out as long as there is one; and that of nodes that wait for one another none ever
  leaves. When the queue is empty, the nodes that never entered it wait for one another. That repeated names
  leave edges to the last node of the name only, and that depending on a name twice counts
  twice, is in the lemmas about `Edges`.
- `BuiltReturns`: `Execute` reaches all nodes of an accepted graph, since each wave adds one as long
  as one is left. `WaitsOnlyOnRefused` (`GraphsRunOrRefused`) adds that the graph a request runs is
  one that `LoadRecall` made (`StartInv`), and that whoever waits runs one that does not end
  (`AnswerInv`), which deletes and rebuilds do not change.
- `EveryBusinessRouted` (`RoutesConfigured`): while the handlers are created the tables are those of
  the entries handled so far (`RoutesUpTo`); there is one lemma per step of `main`.
- `SuggestionsAreFrequent` (`SuggestsTheFrequent`): `TrieInv` says that the entries of the trie are an
  outcome of `Entries` for what the last rebuild has read, whatever was deleted or counted since.
  The rest is about one answer. What the trie left out for a suggestion is at least as rare, and
  the candidates that are more frequent are as many as their entries, none of which could be cut:
  an injection of the more frequent words into the entries found, of which there are at most
  `SearchLimit`. The last conjunct follows the entries through the recall, the merge of the
  recalls, the ranking and its cut, each of which then takes all.
- `HintsAreOfOthers` (`HintsLeadElsewhere`): each recall has a lemma on what its candidates have in
  common with the document of the request; merge and ranking take candidates as they are.

Assumptions on constants are the named `ASSUME`s of the modules: `N` positive, `Dags` graphs on
the nodes, `Disabled` nodes; at least one thread, and a task is the child of at most one task;
finitely many documents in a request, cuts, pages and page sizes of at least 1; in the corpus
`None` is no content, document or client, and clients, rebuild threads and `main` are different;
finitely many fields of a document, the title among them, with weights that are natural numbers; every input has an
embedding, a title that may be searched for, and in its title field the terms `SimpleTokenize` makes of it
(`InputsEncoded`); limits that are natural numbers; letters, digits, wide characters, the space and
the punctuation that is kept are different characters, and a capital has a small letter that is no
capital (`AlphabetAssumption`); the head words of the dictionaries have several characters of which one is
wide, or a capital, as all those in `query_expander.cpp` do (`DictionaryAssumption`; nothing calls the functions that would load other dictionaries); batches of at least 1, some request, finitely many request threads, and the events of
the store contain what the handlers report; a cache with room for one entry and a positive
`redis_ttl_seconds`; the scheduler thread is no request thread, the tasks are the three known
ones, and the clock has at least one tick beyond the interval; framework.yaml and the files
of `biz/` have fields of the types yaml-cpp reads them as (`FilesAssumption`), the tables of
docs.db and events.db rows of their types, where a count begins at 1 and nobody clicks from a
document to itself (`SitesAssumption`; `EventHandler` keeps both), and there are finitely many
preset words.

Only model-checked: liveness (`EveryCallReturns`, `EverySubmittedTaskRuns`, `ShutdownReturns`,
`SignalEnds`), since liveness under fairness is outside what the proof system handles. Every
other property of a passing run is stated by a theorem.

## 5. Not modelled

Not modelled: the numbers of the BM25, freshness, quality and LightGBM scorers, embeddings and
features (floating-point data the properties do not depend on); the assignment of A/B groups (a
hash compared with ratios); the history recall; interposition rules, `PutDocs`, `SearchAnd`,
`PipelineManager::HotReload`, the interest vectors and `UserEventHandler`, which nothing in the
repository calls or provides; the JSON, HTML and formatting of the gateway and of the admin
panel, logging, hashes and vector arithmetic. `rank_pipeline` and `rerank_pipeline` stages of a
file are loaded but never executed.
