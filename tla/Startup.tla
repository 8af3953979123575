------------------------------- MODULE Startup -------------------------------
(***************************************************************************)
(* main.cpp from the command line to the listening server, and the tables  *)
(* it leaves behind: the global configuration, the pipelines of the        *)
(* businesses, the routing table of the handlers, the sessions, the tasks  *)
(* of the scheduler.  Serving adds what the handlers open when they are    *)
(* created, and the requests that are answered with these tables.          *)
(*                                                                         *)
(* framework.yaml and the files of biz/ are inputs chosen in Init.  The    *)
(* indexes (DocCorpus), the running of a recall graph (DagPipeline), and   *)
(* of the tasks (Scheduler) are modelled in modules of their own.          *)
(***************************************************************************)
EXTENDS PipelineConfig

CONSTANTS
    Deployments,    \* pairs of a framework.yaml and the set of files in biz/
    Handlers,       \* the names registered by REGISTER_MSR_HANDLER
    Sessions,       \* the names registered by REGISTER_MSR_SESSION
    Cores           \* std::thread::hardware_concurrency(): 0 when unknown

ASSUME CoresAssumption == Cores \in Nat

VARIABLES
    main,       \* framework.yaml
    files,      \* the files of biz/ not read yet
    phase,      \* where main is
    config,     \* the numbers of global_config_, and loaded_
    pipelines,  \* PipelineManager::configs_
    rankConfig, \* RankConfigManager::configs_
    threads,    \* the threads of the DagThreadPool
    entry,      \* the next entry of configs_ in HandlerManager::Init
    routed,     \* HandlerManager::handler_map_
    handling,   \* config_ of the handlers that have been created
    sessionOf,  \* SessionFactory::type_session_map_
    tasks       \* the tasks of the scheduler and whether they are enabled

inputs == <<main, files>>
tables == <<config, pipelines, rankConfig, threads, routed, handling, sessionOf, tasks>>
startVars == <<inputs, phase, entry, tables>>

-----------------------------------------------------------------------------
(* The global configuration.                                               *)

Defaults ==
    [ port |-> 8080, worker_threads |-> 4, request_timeout_ms |-> 200,
      local_capacity |-> 100, redis_port |-> 6379, rebuild_batch_size |-> 1000,
      dag_pool_threads |-> 0 ]

Ports == {"port", "redis_port"}
Positive == {"worker_threads", "request_timeout_ms", "local_capacity", "rebuild_batch_size"}

\* A field that is not in the file has the default of config_manager.cpp.
Given(numbers) == [f \in DOMAIN Defaults |-> IF f \in DOMAIN numbers THEN numbers[f] ELSE Defaults[f]]

ValidateGlobalConfig(c, level) ==
    /\ \A f \in Ports : c[f] \in 1..65535
    /\ \A f \in Positive : c[f] > 0
    /\ level \in {"trace", "debug", "info", "warn", "error"}

\* The entries HandlerManager keeps.
HasNames(e) == e.business_type # "" /\ e.handler_name # ""
Businesses ==
    LET entries == main.businesses.entries
    IN  AtPlaces(entries, {i \in DOMAIN entries : HasNames(entries[i])})

\* AutoTrainTask and IndexRebuildTask are off, TrieRebuildTask on, by default.
TaskNames == {"auto_train", "auto_index_rebuild", "sug_trie_rebuild"}
EnableDefault == [t \in TaskNames |-> t = "sug_trie_rebuild"]

Nothing == [x \in {} |-> x]

\* map[x] = v
Put(map, x, v) == [y \in DOMAIN map \union {x} |-> IF y = x THEN v ELSE map[y]]

\* The files as yaml-cpp hands them over: a value of another type makes it
\* throw, and the file is unreadable.
BusinessEntry ==
    [business_type : STRING, handler_name : STRING, session_name : STRING,
     skip_search : BOOLEAN, skip_rank : BOOLEAN]

RecallEntry == [name : STRING, enable : BOOLEAN, deps : Seq(STRING)]

ASSUME FilesAssumption ==
    \A d \in Deployments :
        /\ d.main.numbers \in [DOMAIN d.main.numbers -> Int]
        /\ d.main.businesses.entries \in Seq(BusinessEntry)
        /\ DOMAIN d.main.background \subseteq TaskNames
        /\ \A f \in d.files :
             /\ f.recall \in {Absent, NotAList} \/ f.recall = ListOf(f.recall.entries)
             /\ f.recall.entries \in Seq(RecallEntry)
             /\ f.rank_config = <<>> \/ Head(f.rank_config).top_k \in Int

StartInit(deployment) ==
    /\ main = deployment.main
    /\ files = deployment.files
    /\ phase = "config"
    /\ config = Put(Given(Nothing), "loaded", FALSE)
    /\ pipelines = Nothing
    /\ rankConfig = Nothing
    /\ threads = 0
    /\ entry = 1
    /\ routed = Nothing
    /\ handling = Nothing
    /\ sessionOf = Nothing
    /\ tasks = Nothing

-----------------------------------------------------------------------------
(* The steps of main.                                                      *)

\* ConfigManager::LoadAll.  The values are stored before they are validated;
\* when they are not legal, main returns 1.
LoadAll ==
    LET read == Given(main.numbers)
        legal == main.state = "ok" /\ ValidateGlobalConfig(read, main.level)
    IN  /\ phase = "config"
        /\ config' = IF main.state = "ok" THEN Put(read, "loaded", legal) ELSE config
        /\ phase' = IF legal THEN "pipelines" ELSE "exited"
        /\ UNCHANGED <<inputs, entry, pipelines, rankConfig, threads, routed, handling,
                        sessionOf, tasks>>

\* One round of PipelineManager::Init.  The directory is read in any order;
\* the type of business is the name of the file without .yaml or .yml, so
\* there may be two files for one.  What the stages return is ignored.
LoadBusiness(f) ==
    /\ phase = "pipelines"
    /\ files' = files \ {f}
    /\ IF f.state = "ok"
       THEN /\ pipelines' = Put(pipelines, f.business_type,
                    [recall |-> LoadRecall(f.recall),
                     filter |-> LoadChain(f.filter),
                     postprocess |-> LoadChain(f.postprocess)])
            /\ rankConfig' = IF f.rank_config = <<>> THEN rankConfig
                             ELSE Put(rankConfig, f.business_type, ParseStageConfig(Head(f.rank_config)))
       ELSE UNCHANGED <<pipelines, rankConfig>>
    /\ UNCHANGED <<main, phase, entry, config, threads, routed, handling, sessionOf, tasks>>

\* All files have been read.  Then DagThreadPool::Init: the number of the
\* configuration, or of the processors, or 4.
InitPool ==
    /\ phase = "pipelines"
    /\ files = {}
    /\ threads' = IF config.dag_pool_threads > 0 THEN config.dag_pool_threads
                  ELSE IF Cores > 0 THEN Cores ELSE 4
    /\ phase' = "context"
    /\ UNCHANGED <<inputs, entry, config, pipelines, rankConfig, routed, handling, sessionOf,
                    tasks>>

\* AppContext::Initialize and ReportStore::Initialize go on without what they
\* cannot open.
InitContext ==
    /\ phase = "context"
    /\ phase' = "businesses"
    /\ UNCHANGED <<inputs, entry, tables>>

\* HandlerManager::InitFromConfig: the list is read, and the sessions of all
\* the businesses are registered, before the first handler is created.
ReadBusinesses ==
    /\ phase = "businesses"
    /\ IF main.businesses.kind # "list"
       THEN phase' = "exited" /\ UNCHANGED sessionOf
       ELSE /\ phase' = "handlers"
            /\ sessionOf' = [b \in {Businesses[k].business_type : k \in DOMAIN Businesses} |->
                    Businesses[Max({k \in DOMAIN Businesses : Businesses[k].business_type = b})]
                        .session_name]
    /\ UNCHANGED <<inputs, entry, config, pipelines, rankConfig, threads, routed, handling,
                    tasks>>

\* Mutant: a business that has a handler keeps it.
InitHandlerOnce ==
    LET e == Businesses[entry] IN
    /\ phase = "handlers"
    /\ entry <= Len(Businesses)
    /\ IF e.handler_name \in Handlers
       THEN /\ handling' = Put(handling, e.handler_name, e)
            /\ routed' = IF e.business_type \in DOMAIN routed THEN routed
                         ELSE Put(routed, e.business_type, e.handler_name)
            /\ entry' = entry + 1
            /\ UNCHANGED phase
       ELSE phase' = "exited" /\ UNCHANGED <<entry, routed, handling>>
    /\ UNCHANGED <<inputs, config, pipelines, rankConfig, threads, sessionOf, tasks>>

\* One round of HandlerManager::Init.  The handler is a singleton: a second
\* business that names it gives it another config_.
InitHandler ==
    LET e == Businesses[entry] IN
    /\ phase = "handlers"
    /\ entry <= Len(Businesses)
    /\ IF e.handler_name \in Handlers
       THEN /\ handling' = Put(handling, e.handler_name, e)
            /\ routed' = Put(routed, e.business_type, e.handler_name)
            /\ entry' = entry + 1
            /\ UNCHANGED phase
       ELSE phase' = "exited" /\ UNCHANGED <<entry, routed, handling>>
    /\ UNCHANGED <<inputs, config, pipelines, rankConfig, threads, sessionOf, tasks>>

\* Scheduler::InitFromConfig and Start, HttpServer::Initialize and Run.
StartServing ==
    /\ phase = "handlers"
    /\ entry > Len(Businesses)
    /\ tasks' = [t \in DOMAIN main.background |->
                    IF main.background[t] = "default" THEN EnableDefault[t]
                    ELSE main.background[t] = "on"]
    /\ phase' = "serving"
    /\ UNCHANGED <<inputs, entry, config, pipelines, rankConfig, threads, routed, handling,
                    sessionOf>>

\* The steps before the server listens, but for the handlers.
Boots ==
    \/ LoadAll
    \/ \E f \in files : LoadBusiness(f)
    \/ InitPool \/ InitContext \/ ReadBusinesses \/ StartServing

-----------------------------------------------------------------------------
(* What the tables say of a request for a business.                        *)

\* SessionFactory::CreateSession never fails.
SessionFor(b) ==
    IF b \in DOMAIN sessionOf /\ sessionOf[b] \in Sessions THEN sessionOf[b] ELSE "Session"

\* The configuration a request for a business runs under.
ConfigFor(b) == handling[routed[b]]

\* The recall graph of CommonDoSearch: that of config_.business_type.
RecallNodes(c) ==
    IF c.skip_search \/ c.business_type \notin DOMAIN pipelines THEN <<>>
    ELSE pipelines[c.business_type].recall.nodes

-----------------------------------------------------------------------------
(* Properties.                                                             *)

StartTypeOK ==
    /\ phase \in {"config", "pipelines", "context", "businesses", "handlers", "serving", "exited"}
    /\ DOMAIN config = DOMAIN Defaults \union {"loaded"}
    /\ phase \notin {"config", "exited"} => config.loaded
    /\ threads \in Nat
    /\ phase \notin {"config", "pipelines", "exited"} => threads > 0
    /\ \A b \in DOMAIN routed : routed[b] \in DOMAIN handling
    /\ DOMAIN handling \subseteq Handlers
    /\ DOMAIN tasks \subseteq TaskNames

\* When the server listens, every business of the list that has both names is
\* routed to the handler of its last entry, with the session type of the same
\* entry, and no other business is; and the handler has the configuration of
\* the last entry that names it, so a business runs under its own
\* configuration unless a later entry shares its handler.  (The handlers are
\* singletons, handler_manager.cpp:80-100.)
RoutesConfigured ==
    phase = "serving" =>
        LET entries(b) == {k \in DOMAIN Businesses : Businesses[k].business_type = b}
            naming(h) == {k \in DOMAIN Businesses : Businesses[k].handler_name = h}
        IN  /\ DOMAIN routed = {Businesses[k].business_type : k \in DOMAIN Businesses}
            /\ \A b \in DOMAIN routed :
                 LET last == Businesses[Max(entries(b))]
                 IN  /\ routed[b] = last.handler_name
                     /\ SessionFor(b) = (IF last.session_name \in Sessions
                                         THEN last.session_name ELSE "Session")
                     /\ ConfigFor(b) = Businesses[Max(naming(last.handler_name))]
                     /\ (\A k \in naming(last.handler_name) : k \in entries(b)) =>
                            ConfigFor(b) = last
=============================================================================
