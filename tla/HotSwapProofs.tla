---------------------------- MODULE HotSwapProofs ----------------------------
(***************************************************************************)
(* Proofs for Scheduler and HotSwap: the scheduler stops within one task,  *)
(* whatever its tasks are; the requests and tasks of HotSwap use it as     *)
(* Scheduler says; the trie keeps up; one thread refreshes the hot list,   *)
(* and the list is recent.                                                 *)
(***************************************************************************)
EXTENDS HotSwap, FiniteSetTheorems, TLAPS

-----------------------------------------------------------------------------
(* The scheduler.  No task has started after the request before there is   *)
(* one, and none when the loop is about to choose: a look at the flag sent *)
(* it there.                                                               *)

LateInv ==
    /\ phase = "boot" => ~stopRequested
    /\ ~stopRequested => late = 0
    /\ loop = "pick" => late = 0
    /\ late <= 1
    /\ loop \in {"pick", "work", "check"} => turn >= 1

SchedInv == SchedTypeOK /\ LateInv

LEMMA SchedInitial == SchedInit => SchedInv
  <1>1. Len(TaskList) \in Nat
    BY TaskListAssumption
  <1>2. ASSUME SchedInit PROVE running \in BOOLEAN /\ stopRequested \in BOOLEAN
    BY <1>2, Zenon DEF SchedInit
  <1>3. ASSUME SchedInit PROVE LateInv
    BY <1>3 DEF SchedInit, LateInv
  <1>4. ASSUME SchedInit PROVE turn \in 0..Len(TaskList) /\ late \in Nat
    BY <1>1, <1>4, SMT DEF SchedInit
  <1> QED
    BY <1>2, <1>3, <1>4 DEF SchedInit, SchedInv, SchedTypeOK

LEMMA SchedStep == SchedInv /\ [SchedNext]_schedVars => SchedInv'
  <1> SUFFICES ASSUME SchedInv, [SchedNext]_schedVars PROVE SchedInv'
    OBVIOUS
  <1>0. Len(TaskList) \in Nat /\ (TaskList # <<>> => Len(TaskList) >= 1)
    BY TaskListAssumption
  <1> USE DEF SchedInv, SchedTypeOK, LateInv
  <1>1. CASE Start
    BY <1>0, <1>1 DEF Start
  <1>2. CASE Listen
    BY <1>0, <1>2 DEF Listen
  <1>3. CASE SignalHandler
    BY <1>0, <1>3 DEF SignalHandler
  <1>4. CASE ServerReturns
    BY <1>0, <1>4 DEF ServerReturns
  <1>5. CASE RequestStop
    BY <1>0, <1>5 DEF RequestStop
  <1>6. CASE NotifyAll
    BY <1>0, <1>6 DEF NotifyAll
  <1>7. CASE Join
    BY <1>0, <1>7 DEF Join
  <1>8. CASE Abort
    BY <1>0, <1>8 DEF Abort
  <1>9. CASE Test
    BY <1>0, <1>9 DEF Test, Move
  <1>10. CASE Park
    BY <1>0, <1>10 DEF Park, Move
  <1>11. CASE TimesOut
    BY <1>0, <1>11 DEF TimesOut, Move
  <1>12. CASE SkipDisabled
    BY <1>0, <1>12 DEF SkipDisabled, Move
  <1>13. CASE TaskStarts
    BY <1>0, <1>13 DEF TaskStarts, Move
  <1>14. CASE TaskEnds
    BY <1>0, <1>14 DEF TaskEnds, Move
  <1>15. CASE NextTask
    BY <1>0, <1>15 DEF NextTask, Move
  <1>16. CASE UNCHANGED schedVars
    BY <1>0, <1>16 DEF schedVars
  <1> QED
    BY <1>1, <1>2, <1>3, <1>4, <1>5, <1>6, <1>7, <1>8, <1>9, <1>10, <1>11, <1>12, <1>13,
       <1>14, <1>15, <1>16 DEF SchedNext, Loop

LEMMA SchedInvariant == SchedSpec => []SchedInv
  BY SchedInitial, SchedStep, PTL DEF SchedSpec

\* After the request to stop at most one more task starts, for any list of
\* tasks.  (scheduler.cpp 103-144.)
THEOREM StopTheorem == SchedSpec => []StopsWithinOneTask
  <1>1. SchedInv => StopsWithinOneTask
    BY DEF SchedInv, LateInv, StopsWithinOneTask
  <1> QED
    BY <1>1, SchedInvariant, PTL

-----------------------------------------------------------------------------
(* The composition uses the scheduler as Scheduler says.                   *)

LEMMA InitScheduler == Init => SchedInit
  BY DEF Init

LEMMA StepScheduler == [Next]_vars => [SchedNext]_schedVars
  <1> SUFFICES ASSUME [Next]_vars PROVE SchedNext \/ UNCHANGED schedVars
    OBVIOUS
  <1> USE DEF Finish, Dies
  <1>1. ASSUME NEW t \in Threads, NEW where \in {"rebuild", "entries", "hot"},
               Request(t, where)
        PROVE  UNCHANGED schedVars
    BY <1>1 DEF Request
  <1>2. ASSUME NEW t \in Threads, AdminReload(t)
        PROVE  SchedNext \/ UNCHANGED schedVars
    BY <1>2 DEF AdminReload, HotReload, SchedNext
  <1>3. ASSUME NEW a \in Actors, RebuildRead(a) \/ Build(a)
        PROVE  SchedNext \/ UNCHANGED schedVars
    BY <1>3 DEF RebuildRead, Build, Switched, SchedNext
  <1>4. ASSUME NEW t \in Threads, Serve(t)
        PROVE  SchedNext \/ UNCHANGED schedVars
    <2>1. CASE RebuildRead(t) \/ Build(t)
      BY <1>3, <2>1 DEF Actors
    <2>2. CASE ReadEntries(t)
      BY <2>2 DEF ReadEntries, SchedNext
    <2>3. CASE ReadClock(t) \/ ReadLastRefresh(t) \/ CompareExchange(t) \/ ReadDocs(t)
               \/ StoreList(t) \/ StoreRefreshTime(t)
      BY <2>3 DEF ReadClock, ReadLastRefresh, CompareExchange, ReadDocs, StoreList,
                  StoreRefreshTime
    <2>4. CASE TakeSnapshot(t)
      BY <2>4 DEF TakeSnapshot, SchedNext
    <2>5. CASE ServeCurl(t)
      BY <2>5 DEF ServeCurl, HotReload, SchedNext
    <2> QED
      BY <1>4, <2>1, <2>2, <2>3, <2>4, <2>5 DEF Serve
  <1>5. CASE CallTask
    BY <1>5 DEF CallTask, SchedNext, Loop
  <1>6. CASE Task
    <2>1. CASE RebuildRead(Worker) \/ Build(Worker)
      BY <1>3, <2>1 DEF Actors
    <2>2. CASE NotDue \/ RebuildTrie \/ CurlReturns
      BY <2>2 DEF NotDue, RebuildTrie, CurlReturns, SchedNext
    <2>3. CASE DumpTrainData \/ RunTrainScript
      BY <2>3 DEF DumpTrainData, RunTrainScript, RunChild, SchedNext
    <2>4. CASE HotReloadModel
      BY <2>4 DEF HotReloadModel, SchedNext
    <2> QED
      BY <1>6, <2>1, <2>2, <2>3, <2>4 DEF Task
  <1>7. CASE Between \/ Main
    BY <1>7 DEF Between, Main, SchedNext, Loop
  <1>8. CASE DocsChange \/ Tick \/ Done
    BY <1>8 DEF DocsChange, Tick, Done, vars
  <1>9. CASE UNCHANGED vars
    BY <1>9 DEF vars
  <1> QED
    BY <1>1, <1>2, <1>4, <1>5, <1>6, <1>7, <1>8, <1>9 DEF Next

\* The requests, the tasks and main use the scheduler only as Scheduler
\* specifies: every step is one of its steps or leaves it alone.
THEOREM UsesScheduler == Spec => SchedSpec
  BY InitScheduler, StepScheduler, PTL DEF Spec, SchedSpec

\* And so at most one task starts after the request to stop, whatever the
\* requests and tasks do.
THEOREM StopInComposition == Spec => []StopsWithinOneTask
  BY UsesScheduler, StopTheorem, PTL

-----------------------------------------------------------------------------
(* Types, and the trie.  What a rebuild has read is between what has       *)
(* settled and what is stored; what a refresh has read is not in the       *)
(* future.                                                                 *)

TrieOK ==
    /\ docs \in 0..MaxDocs
    /\ trie \in 0..docs
    /\ settled \in 0..docs
    /\ trie >= settled
    /\ got \in [Actors -> Nat]
    /\ \A a \in Actors : pc[a] = "build" => settled <= got[a] /\ got[a] <= docs

TimesOK ==
    /\ clock \in 0..MaxClock
    /\ hot \in 0..clock
    /\ lastRefresh \in 0..clock
    /\ now \in [Threads -> 0..clock]
    /\ old \in [Threads -> 0..clock]
    /\ \A t \in Threads : pc[t] \in {"list", "time"} => got[t] <= clock

RestOK ==
    /\ dangling \subseteq Threads
    /\ model \in {0, 1}
    /\ curl \in {"none", "sent", "answered"}
    /\ requests \in 0..MaxRequests

FlagsOK == slow \in BOOLEAN /\ empty \in BOOLEAN

DataInv == pc \in [Actors -> Places] /\ TrieOK /\ TimesOK /\ RestOK /\ FlagsOK

TypeInv == SchedInv /\ DataInv

LEMMA DataInitial == Init => DataInv
  <1> SUFFICES ASSUME Init PROVE DataInv
    OBVIOUS
  <1> USE RefreshAssumption, BoundsAssumption DEF Init
  <1>1. pc \in [Actors -> Places]
    BY DEF Places
  <1>2. TrieOK
    BY DEF TrieOK
  <1>3. TimesOK
    BY DEF TimesOK, Actors
  <1>4. RestOK
    BY DEF RestOK
  <1>5. FlagsOK
    BY Zenon DEF FlagsOK
  <1> QED
    BY <1>1, <1>2, <1>3, <1>4, <1>5 DEF DataInv

LEMMA FlagsStep == FlagsOK /\ [Next]_vars => FlagsOK'
  <1> SUFFICES ASSUME FlagsOK, [Next]_vars PROVE FlagsOK'
    OBVIOUS
  <1>1. ASSUME UNCHANGED <<slow, empty>> PROVE FlagsOK'
    BY <1>1 DEF FlagsOK
  <1>2. CASE Tick
    BY <1>2, Zenon DEF Tick, FlagsOK
  <1>3. ASSUME NEW t \in Threads, ReadDocs(t) PROVE FlagsOK'
    BY <1>3, Zenon DEF ReadDocs, FlagsOK
  <1>4. ASSUME NEW t \in Threads, StoreList(t) PROVE FlagsOK'
    BY <1>4, Zenon DEF StoreList, FlagsOK
  <1>5. ASSUME NEW t \in Threads, NEW where \in {"rebuild", "entries", "hot"}, Request(t, where)
        PROVE  UNCHANGED <<slow, empty>>
    BY <1>5 DEF Request
  <1>6. ASSUME NEW t \in Threads, AdminReload(t) PROVE UNCHANGED <<slow, empty>>
    BY <1>6 DEF AdminReload
  <1>7. ASSUME NEW a \in Actors, RebuildRead(a) \/ Build(a) PROVE UNCHANGED <<slow, empty>>
    BY <1>7 DEF RebuildRead, Build, Switched
  <1>8. ASSUME NEW t \in Threads, Serve(t), ~ReadDocs(t), ~StoreList(t)
        PROVE  UNCHANGED <<slow, empty>>
    <2>1. CASE RebuildRead(t) \/ Build(t)
      BY <1>7, <2>1 DEF Actors
    <2>2. CASE ~RebuildRead(t) /\ ~Build(t)
      BY <1>8, <2>2 DEF Serve, ReadEntries, ReadClock, ReadLastRefresh, CompareExchange,
                        StoreRefreshTime, TakeSnapshot, ServeCurl
    <2> QED BY <2>1, <2>2
  <1>9. CASE CallTask
    BY <1>1, <1>9 DEF CallTask, taskUnchanged
  <1>10. ASSUME Task PROVE UNCHANGED <<slow, empty>>
    <2>1. CASE RebuildRead(Worker) \/ Build(Worker)
      BY <1>7, <2>1 DEF Actors
    <2>2. CASE ~RebuildRead(Worker) /\ ~Build(Worker)
      BY <1>10, <2>2 DEF Task, NotDue, RebuildTrie, DumpTrainData, RunTrainScript, RunChild,
                         HotReloadModel, CurlReturns, taskUnchanged
    <2> QED BY <2>1, <2>2
  <1>11. CASE Between \/ Main
    BY <1>1, <1>11 DEF Between, Main, swapVars
  <1>12. CASE DocsChange
    BY <1>1, <1>12 DEF DocsChange
  <1>13. CASE Done \/ UNCHANGED vars
    BY <1>1, <1>13 DEF Done, vars, swapVars
  <1> QED
    BY <1>1, <1>2, <1>3, <1>4, <1>5, <1>6, <1>8, <1>9, <1>10, <1>11, <1>12, <1>13 DEF Next

\* What a step keeps besides the flags.
Kept == pc' \in [Actors -> Places] /\ TrieOK' /\ TimesOK' /\ RestOK'

LEMMA KeptByRequests ==
    ASSUME DataInv, NEW t \in Threads,
           \/ \E where \in {"rebuild", "entries", "hot"} : Request(t, where)
           \/ AdminReload(t) \/ ServeCurl(t) \/ ReadEntries(t)
    PROVE  Kept
  <1> USE RefreshAssumption, BoundsAssumption
      DEF DataInv, TrieOK, TimesOK, RestOK, Kept, Actors, Places, Finish
  <1>1. CASE \E where \in {"rebuild", "entries", "hot"} : Request(t, where)
    BY <1>1 DEF Request
  <1>2. CASE AdminReload(t)
    BY <1>2 DEF AdminReload, HotReload, Dies
  <1>3. CASE ServeCurl(t)
    BY <1>3 DEF ServeCurl, HotReload, Dies
  <1>4. CASE ReadEntries(t)
    BY <1>4 DEF ReadEntries, Dies
  <1> QED BY <1>1, <1>2, <1>3, <1>4

\* A set of bounded numbers has a least one.
LEMMA LeastRead ==
    ASSUME NEW n \in Nat, NEW P \in SUBSET (0..n), P # {}
    PROVE  \E m \in P : \A j \in P : m <= j
  <1> DEFINE R == StrictSubsetOrdering(0..n)
             X == {0..i : i \in P}
  <1>1. IsWellFoundedOn(R, SUBSET (0..n))
    <2>1. IsFiniteSet(0..n)
      BY FS_Interval
    <2> QED BY <2>1, FS_StrictSubsetOrderingWellFounded, FS_FiniteSubsetsOfFinite
  <1>2. X \in SUBSET (SUBSET (0..n)) /\ X # {}
    <2>1. ASSUME NEW i \in P PROVE 0..i \in SUBSET (0..n)
      <3>1. i \in 0..n
        OBVIOUS
      <3> QED BY <3>1
    <2> QED BY <2>1
  <1>3. PICK T \in X : \A U \in X : <<U, T>> \notin R
    <2> HIDE DEF R, X
    <2> QED BY <1>1, <1>2, WFMin
  <1>4. PICK m \in P : T = 0..m
    OBVIOUS
  <1>5. ASSUME NEW j \in P, j < m PROVE FALSE
    <2>1. 0..j \in X /\ 0..j \in SUBSET (0..n) /\ 0..m \in SUBSET (0..n)
      OBVIOUS
    <2>2. 0..j \subseteq 0..m /\ m \in 0..m /\ m \notin 0..j
      BY <1>5
    <2>3. <<0..j, 0..m>> \in R
      BY <2>1, <2>2 DEF StrictSubsetOrdering
    <2> QED BY <1>3, <1>4, <2>1, <2>3
  <1> QED BY <1>5

\* OldestRead is one of the numbers it is about, and none of them is less.
LEMMA OldestReadIs ==
    ASSUME DataInv, NEW a \in Actors, pc[a] = "build"
    PROVE  LET reads == {got[b] : b \in Building(a) \union {a}}
           IN  /\ OldestRead(a) \in reads
               /\ \A m \in reads : OldestRead(a) <= m
  <1> DEFINE reads == {got[b] : b \in Building(a) \union {a}}
  <1>1. reads \in SUBSET (0..docs) /\ reads # {} /\ docs \in Nat
    BY BoundsAssumption DEF DataInv, TrieOK, Building
  <1>2. \E n \in reads : \A m \in reads : n <= m
    <2> HIDE DEF reads
    <2> QED BY <1>1, LeastRead
  <1> QED BY <1>2 DEF OldestRead

LEMMA KeptByTrie ==
    ASSUME DataInv, NEW a \in Actors, RebuildRead(a) \/ Build(a)
    PROVE  Kept
  <1> USE RefreshAssumption, BoundsAssumption
      DEF DataInv, TrieOK, TimesOK, RestOK, Kept, Places
  <1>1. CASE RebuildRead(a)
    BY <1>1, WorkerAssumption DEF RebuildRead, Actors
  <1>2. CASE Build(a)
    <2> USE <1>2 DEF Build, Switched, Finish
    <2>1. pc' \in [Actors -> Places]
      OBVIOUS
    <2>2. docs' = docs /\ got' \in [Actors -> Nat] /\ trie' \in 0..docs
      OBVIOUS
    <2>3. /\ OldestRead(a) \in 0..docs /\ OldestRead(a) <= got[a]
          /\ \A b \in Building(a) : OldestRead(a) <= got[b]
      BY OldestReadIs DEF Building
    <2>8. settled' \in 0..docs /\ trie' >= settled'
      BY <2>3
    <2>4. ASSUME NEW b \in Actors, pc'[b] = "build"
          PROVE  settled' <= got'[b] /\ got'[b] <= docs
      <3>1. b # a /\ pc[b] = "build" /\ got'[b] = got[b]
        BY <2>4
      <3>2. b \in Building(a)
        BY <3>1 DEF Building
      <3> QED BY <2>3, <3>1, <3>2
    <2>5. TrieOK'
      BY <2>2, <2>8, <2>4
    <2>6. TimesOK'
      BY DEF Actors
    <2>7. RestOK'
      OBVIOUS
    <2> QED BY <2>1, <2>5, <2>6, <2>7
  <1> QED BY <1>1, <1>2

LEMMA KeptByHotList ==
    ASSUME DataInv, NEW t \in Threads,
           \/ ReadClock(t) \/ ReadLastRefresh(t) \/ CompareExchange(t) \/ ReadDocs(t)
           \/ StoreList(t) \/ StoreRefreshTime(t) \/ TakeSnapshot(t)
    PROVE  Kept
  <1> USE RefreshAssumption, BoundsAssumption
      DEF DataInv, TrieOK, TimesOK, RestOK, Kept, Actors, Places
  <1>1. CASE ReadClock(t)
    BY <1>1 DEF ReadClock
  <1>2. CASE ReadLastRefresh(t)
    BY <1>2 DEF ReadLastRefresh
  <1>3. CASE CompareExchange(t)
    BY <1>3 DEF CompareExchange
  <1>4. CASE ReadDocs(t)
    BY <1>4 DEF ReadDocs
  <1>5. CASE StoreList(t)
    BY <1>5 DEF StoreList
  <1>6. CASE StoreRefreshTime(t)
    BY <1>6 DEF StoreRefreshTime
  <1>7. CASE TakeSnapshot(t)
    BY <1>7 DEF TakeSnapshot, Finish
  <1> QED BY <1>1, <1>2, <1>3, <1>4, <1>5, <1>6, <1>7

LEMMA KeptByTasks ==
    ASSUME DataInv, SchedInv, CallTask \/ Task
    PROVE  Kept
  <1> USE RefreshAssumption, BoundsAssumption
      DEF DataInv, TrieOK, TimesOK, RestOK, Kept, Places, Finish, taskUnchanged
  <1>1. CASE CallTask
    <2>1. TaskList[turn] \in {"auto_train", "auto_index_rebuild", "sug_trie_rebuild"}
      BY <1>1, BackgroundAssumption
         DEF CallTask, TaskStarts, Move, SchedInv, SchedTypeOK, LateInv
    <2> QED
      BY <1>1, <2>1, WorkerAssumption DEF CallTask, Actors
  <1>2. CASE RebuildRead(Worker) \/ Build(Worker)
    BY <1>2, KeptByTrie DEF Actors
  <1>3. CASE NotDue
    BY <1>3, WorkerAssumption DEF NotDue, Actors
  <1>4. CASE RebuildTrie
    BY <1>4, WorkerAssumption DEF RebuildTrie, Actors
  <1>5. CASE DumpTrainData
    BY <1>5, WorkerAssumption DEF DumpTrainData, RunChild, Actors
  <1>6. CASE RunTrainScript
    BY <1>6, WorkerAssumption DEF RunTrainScript, RunChild, Actors
  <1>7. CASE HotReloadModel
    BY <1>7, WorkerAssumption DEF HotReloadModel, Actors
  <1>8. CASE CurlReturns
    BY <1>8, WorkerAssumption DEF CurlReturns, Actors
  <1> QED BY <1>1, <1>2, <1>3, <1>4, <1>5, <1>6, <1>7, <1>8 DEF Task

LEMMA DataStep == TypeInv /\ [Next]_vars => DataInv'
  <1> SUFFICES ASSUME TypeInv, [Next]_vars PROVE DataInv'
    OBVIOUS
  <1> USE DEF TypeInv
  <1>1. FlagsOK'
    BY FlagsStep DEF DataInv
  <1>2. ASSUME UNCHANGED swapVars PROVE Kept
    BY <1>2 DEF DataInv, TrieOK, TimesOK, RestOK, Kept, swapVars
  <1>3. ASSUME DocsChange PROVE Kept
    <2> USE <1>3, BoundsAssumption DEF DocsChange, DataInv
    <2>1. TrieOK'
      BY DEF TrieOK
    <2>2. TimesOK' /\ RestOK'
      BY DEF TimesOK, RestOK
    <2> QED BY <2>1, <2>2 DEF Kept
  <1>4. ASSUME Tick PROVE Kept
    <2> USE <1>4, BoundsAssumption DEF Tick, DataInv
    <2>1. TrieOK' /\ RestOK'
      BY DEF TrieOK, RestOK
    <2>2. TimesOK'
      <3>1. clock' \in 0..MaxClock /\ 0..clock \subseteq 0..clock'
        BY DEF TimesOK
      <3>2. now' \in [Threads -> 0..clock'] /\ old' \in [Threads -> 0..clock']
        BY <3>1 DEF TimesOK
      <3>3. ASSUME NEW t \in Threads, pc'[t] \in {"list", "time"} PROVE got'[t] <= clock'
        BY <3>3 DEF TimesOK, TrieOK, Actors
      <3> QED BY <3>1, <3>2, <3>3 DEF TimesOK
    <2> QED BY <2>1, <2>2 DEF Kept
  <1>5. ASSUME NEW t \in Threads, Serve(t) PROVE Kept
    <2>1. t \in Actors
      BY DEF Actors
    <2> QED BY <1>5, <2>1, KeptByRequests, KeptByTrie, KeptByHotList, Zenon DEF Serve
  <1>6. Kept
    <2>1. CASE \E t \in Threads :
                  \/ \E where \in {"rebuild", "entries", "hot"} : Request(t, where)
                  \/ AdminReload(t)
      BY <2>1, KeptByRequests, Zenon
    <2>2. CASE CallTask \/ Task
      BY <2>2, KeptByTasks
    <2>3. CASE Between \/ Main \/ Done \/ UNCHANGED vars
      BY <1>2, <2>3 DEF Between, Main, Done, vars
    <2> QED BY <1>3, <1>4, <1>5, <2>1, <2>2, <2>3, Zenon DEF Next
  <1> QED
    BY <1>1, <1>6 DEF Kept, DataInv

LEMMA TypeInvariant == Spec => []TypeInv
  <1>1. Init => TypeInv
    BY DataInitial, SchedInitial, InitScheduler DEF TypeInv
  <1>2. TypeInv /\ [Next]_vars => TypeInv'
    BY DataStep, SchedStep, StepScheduler DEF TypeInv
  <1> QED BY <1>1, <1>2, PTL DEF Spec

\* The tasks, the requests and what they replace keep their types, for any number
\* of threads (trie_rebuild_task.cpp, hot_content_recall.cpp, auto_train_task.cpp).
THEOREM TypeCorrect == Spec => []TypeOK
  <1>1. TypeInv => TypeOK
    BY DEF TypeInv, SchedInv, DataInv, TrieOK, TimesOK, RestOK, FlagsOK, TypeOK
  <1> QED BY <1>1, TypeInvariant, PTL

\* When a rebuild of the suggestion trie switches, what it and the rebuilds
\* between reading and switching have all read stays for good, also through
\* rebuilds that overlap; newer documents than that may go again when those
\* switch later (sug_trie.cpp 12-43).
THEOREM TrieTheorem == Spec => []TrieKeepsUp
  <1>1. TypeInv => TrieKeepsUp
    BY DEF TypeInv, DataInv, TrieOK, TrieKeepsUp
  <1> QED BY <1>1, TypeInvariant, PTL

-----------------------------------------------------------------------------
(* The hot list, as long as no refresh takes longer than the interval: a   *)
(* thread that refreshes has put its time into lastRefresh, so another's   *)
(* compare-exchange on an old value fails; and lastRefresh is never ahead  *)
(* of the list but while somebody refreshes.                               *)

HotThread(t) ==
    /\ pc[t] \in {"test", "cas", "refresh", "list", "time"} => clock - now[t] <= RefreshInterval
    /\ pc[t] = "cas" => /\ now[t] - old[t] > RefreshInterval
                        /\ lastRefresh = old[t] \/ lastRefresh >= now[t] - RefreshInterval
    /\ pc[t] \in {"refresh", "list", "time"} => lastRefresh >= now[t]
    /\ pc[t] \in {"list", "time"} => got[t] >= now[t]
    /\ pc[t] = "time" => hot = got[t]
    /\ pc[t] = "take" => lastRefresh >= now[t] - RefreshInterval

Alone == \A t, u \in Refreshing : t = u

ListKeepsUp == Refreshing = {} /\ phase # "aborted" /\ ~empty => hot >= lastRefresh

HotCore == (\A t \in Threads : HotThread(t)) /\ Alone /\ ListKeepsUp

HotInv ==
    /\ phase = "aborted" => \A t \in Threads : pc[t] = "idle"
    /\ slow \/ HotCore

LEMMA HotInitial == Init => HotInv
  <1> SUFFICES ASSUME Init PROVE HotInv
    OBVIOUS
  <1>1. phase # "aborted" /\ hot = 0 /\ lastRefresh = 0
    BY DEF Init, SchedInit
  <1>2. ASSUME NEW t \in Threads PROVE pc[t] = "idle"
    BY <1>2 DEF Init, Actors
  <1>3. Refreshing = {}
    BY <1>2 DEF Refreshing
  <1> QED
    BY <1>1, <1>2, <1>3 DEF HotInv, HotCore, HotThread, Alone, ListKeepsUp

\* The facts about types the steps below need.
LEMMA HotTypes ==
    ASSUME DataInv
    PROVE  /\ RefreshInterval \in Nat
           /\ clock \in Nat /\ hot \in Nat /\ lastRefresh \in Nat
           /\ hot <= clock /\ lastRefresh <= clock
           /\ pc \in [Actors -> Places]
           /\ now \in [Threads -> Nat] /\ old \in [Threads -> Nat] /\ got \in [Actors -> Nat]
           /\ \A t \in Threads : now[t] <= clock /\ old[t] <= clock
  BY RefreshAssumption DEF DataInv, TrieOK, TimesOK

\* Steps that leave the list, its times and the threads at it alone.
Aside ==
    /\ hot' = hot /\ lastRefresh' = lastRefresh /\ clock' = clock
    /\ old' = old /\ slow' = slow /\ empty' = empty
    /\ \A t \in Threads :
          /\ pc'[t] \in {"test", "cas", "refresh", "list", "time", "take"} =>
                pc'[t] = pc[t] /\ got'[t] = got[t] /\ now'[t] = now[t]
          /\ pc[t] \in {"refresh", "list", "time"} => pc'[t] = pc[t]
    /\ (phase' = "aborted") <=> (phase = "aborted")

LEMMA ListKept ==
    ASSUME ListKeepsUp, Refreshing' = Refreshing, ~empty' => ~empty,
           phase' # "aborted" => phase # "aborted", hot' = hot, lastRefresh' = lastRefresh
    PROVE  ListKeepsUp'
  BY Zenon DEF ListKeepsUp

LEMMA AsideKeepsCore ==
    ASSUME HotCore, Aside
    PROVE  HotCore'
  <1>1. Refreshing' = Refreshing
    BY DEF Aside, Refreshing
  <1>2. ASSUME NEW t \in Threads PROVE HotThread(t)'
    BY DEF HotCore, HotThread, Aside
  <1>3. Alone'
    BY <1>1 DEF HotCore, Alone
  <1>4. ~empty' => ~empty
    BY Zenon DEF Aside
  <1>5. ListKeepsUp'
    BY <1>1, <1>4, ListKept DEF HotCore, Aside
  <1> QED BY <1>2, <1>3, <1>5 DEF HotCore

\* After an abort there is nobody left to be wrong.
LEMMA DiesKeepsHot ==
    ASSUME Dies
    PROVE  HotInv'
  <1>1. phase' = "aborted" /\ \A t \in Threads : pc'[t] = "idle"
    BY DEF Dies, Abort, Actors
  <1>2. Refreshing' = {}
    BY <1>1 DEF Refreshing
  <1> QED
    BY <1>1, <1>2 DEF HotInv, HotCore, HotThread, Alone, ListKeepsUp

LEMMA CompareExchangeKeepsCore ==
    ASSUME DataInv, HotCore, NEW t \in Threads, CompareExchange(t)
    PROVE  HotCore'
  <1> USE HotTypes DEF CompareExchange
  <1>1. CASE lastRefresh # old[t]
    <2>1. Refreshing' = Refreshing
      BY <1>1 DEF Refreshing, Actors
    <2>2. ASSUME NEW u \in Threads PROVE HotThread(u)'
      BY <1>1 DEF HotCore, HotThread, Actors
    <2>3. ~empty' => ~empty
      BY Zenon
    <2>4. ListKeepsUp'
      BY <1>1, <2>1, <2>3, ListKept DEF HotCore, schedVars
    <2>5. Alone'
      BY <2>1 DEF HotCore, Alone
    <2> QED
      BY <2>2, <2>4, <2>5 DEF HotCore
  <1>2. CASE lastRefresh = old[t]
    <2>1. Refreshing = {}
      <3>1. now[t] - lastRefresh > RefreshInterval
        BY <1>2 DEF HotCore, HotThread
      <3>2. ASSUME NEW u \in Refreshing PROVE FALSE
        <4>1. u \in Threads /\ lastRefresh >= now[u] /\ clock - now[u] <= RefreshInterval
          BY DEF HotCore, HotThread, Refreshing
        <4> QED BY <3>1, <4>1
      <3> QED BY <3>2
    <2>2. Refreshing' = {t}
      BY <1>2, <2>1 DEF Refreshing, Actors
    <2>3. ASSUME NEW u \in Threads PROVE HotThread(u)'
      <3>1. CASE u = t
        BY <1>2, <3>1 DEF HotCore, HotThread, Actors
      <3>2. CASE u # t
        <4>1. pc'[u] = pc[u] /\ pc[u] \notin {"refresh", "list", "time"}
          BY <2>1, <3>2 DEF Refreshing, Actors
        <4>2. lastRefresh' = now[t] /\ lastRefresh' >= lastRefresh
              /\ clock - now[t] <= RefreshInterval
          BY <1>2 DEF HotCore, HotThread
        <4>3. pc[u] = "cas" => lastRefresh' >= now[u] - RefreshInterval
          BY <4>2
        <4>4. HotThread(u)
          BY DEF HotCore
        <4> QED BY <1>2, <4>1, <4>2, <4>3, <4>4 DEF HotThread
      <3> QED BY <3>1, <3>2
    <2> QED BY <2>2, <2>3 DEF HotCore, Alone, ListKeepsUp
  <1> QED BY <1>1, <1>2

\* While t refreshes it is the only one; another thread's conditions can be
\* disturbed by what t stores.
LEMMA RefreshKeepsCore ==
    ASSUME DataInv, HotCore, NEW t \in Threads, ReadDocs(t) \/ StoreList(t) \/ StoreRefreshTime(t)
    PROVE  HotCore'
  <1>1. Refreshing = {t}
    BY DEF ReadDocs, StoreList, StoreRefreshTime, HotCore, Alone, Refreshing
  <1>2. ASSUME NEW u \in Threads, u # t
        PROVE  pc[u] \notin {"refresh", "list", "time"}
    BY <1>1, <1>2 DEF Refreshing
  <1>3. clock - now[t] <= RefreshInterval /\ lastRefresh >= now[t] /\ HotThread(t)
        /\ now[t] \in Nat /\ now[t] <= clock /\ got[t] \in Nat
    BY <1>1, HotTypes DEF HotCore, HotThread, Refreshing, Actors
  <1>4. ASSUME Refreshing' = {} \/ Refreshing' = {t} PROVE Alone'
    BY <1>4 DEF Alone
  <1>5. CASE ReadDocs(t)
    <2> USE HotTypes, <1>5 DEF ReadDocs
    <2>1. ASSUME NEW u \in Threads PROVE HotThread(u)'
      BY <1>3 DEF HotCore, HotThread, Actors
    <2>2. CASE docs = 0
      <3>1. Refreshing' = {}
        BY <1>1, <2>2 DEF Refreshing, Actors
      <3>2. empty'
        BY <2>2, Zenon
      <3>3. ListKeepsUp'
        BY <3>2, Zenon DEF ListKeepsUp
      <3> QED BY <1>4, <2>1, <3>1, <3>3 DEF HotCore
    <2>3. CASE docs # 0
      <3>1. Refreshing' = {t}
        BY <1>1, <2>3 DEF Refreshing, Actors
      <3>2. ListKeepsUp'
        BY <3>1 DEF ListKeepsUp
      <3> QED BY <1>4, <2>1, <3>1, <3>2 DEF HotCore
    <2> QED BY <2>2, <2>3
  <1>6. CASE StoreList(t)
    <2> USE HotTypes, <1>6 DEF StoreList
    <2>1. ASSUME NEW u \in Threads PROVE HotThread(u)'
      BY <1>2, <1>3 DEF HotCore, HotThread, Actors
    <2>2. Refreshing' = {t}
      BY <1>1 DEF Refreshing, Actors
    <2>3. ListKeepsUp'
      BY <2>2 DEF ListKeepsUp
    <2> QED BY <1>4, <2>1, <2>2, <2>3 DEF HotCore
  <1>7. CASE StoreRefreshTime(t)
    <2> USE HotTypes, <1>7 DEF StoreRefreshTime
    <2>1. lastRefresh' = got[t] /\ hot' = got[t] /\ got[t] >= now[t]
      BY <1>3 DEF HotThread
    <2>2. ASSUME NEW u \in Threads PROVE HotThread(u)'
      <3>1. CASE u = t
        BY <1>3, <2>1, <3>1 DEF HotThread, Actors
      <3>2. CASE u # t
        <4>1. pc'[u] = pc[u] /\ pc[u] \notin {"refresh", "list", "time"} /\ now'[u] = now[u]
              /\ old'[u] = old[u] /\ now[u] <= clock /\ now[u] \in Nat
          BY <1>2, <3>2 DEF Actors
        <4>2. lastRefresh' >= now[u] - RefreshInterval
          BY <1>3, <2>1, <4>1
        <4>3. HotThread(u)
          BY DEF HotCore
        <4> QED BY <4>1, <4>2, <4>3 DEF HotThread
      <3> QED BY <3>1, <3>2
    <2>3. Refreshing' = {}
      BY <1>1 DEF Refreshing, Actors
    <2>4. ListKeepsUp'
      BY <2>1 DEF ListKeepsUp
    <2> QED BY <1>4, <2>2, <2>3, <2>4 DEF HotCore
  <1> QED BY <1>5, <1>6, <1>7

LEMMA ReadTimesKeepCore ==
    ASSUME DataInv, HotCore, NEW t \in Threads, ReadClock(t) \/ ReadLastRefresh(t)
    PROVE  HotCore'
  <1> USE HotTypes DEF ReadClock, ReadLastRefresh
  <1>1. Refreshing' = Refreshing
    BY DEF Refreshing, Actors
  <1>2. ASSUME NEW u \in Threads PROVE HotThread(u)'
    BY DEF HotCore, HotThread, Actors
  <1>3. ~empty' => ~empty
    BY Zenon
  <1>4. ListKeepsUp'
    BY <1>1, <1>3, ListKept DEF HotCore, schedVars
  <1> QED
    BY <1>1, <1>2, <1>4 DEF HotCore, Alone

LEMMA TickKeepsCore ==
    ASSUME DataInv, HotCore, Tick, ~slow'
    PROVE  HotCore'
  <1> USE HotTypes
  <1>1. Refreshing' = Refreshing
    BY DEF Tick, Refreshing
  <1>2. ASSUME NEW t \in Threads, pc[t] \in {"test", "cas", "refresh", "list", "time"}
        PROVE  clock' - now[t] <= RefreshInterval
    <2>1. t \in Refreshing \union {u \in Threads : pc[u] \in {"test", "cas"}}
      BY <1>2 DEF Refreshing
    <2>2. ~(clock' - now[t] > RefreshInterval)
      BY <2>1, Zenon DEF Tick
    <2> QED BY <2>2 DEF Tick
  <1>3. ASSUME NEW t \in Threads PROVE HotThread(t)'
    BY <1>2 DEF HotCore, HotThread, Tick
  <1>4. ~empty' => ~empty
    BY Zenon DEF Tick
  <1>5. ListKeepsUp'
    BY <1>1, <1>4, ListKept DEF HotCore, Tick, schedVars
  <1> QED
    BY <1>1, <1>3, <1>5 DEF HotCore, Alone

LEMMA AsideKeepsHot ==
    ASSUME HotInv, Aside,
           phase = "aborted" => \A t \in Threads : pc[t] = "idle" => pc'[t] = "idle"
    PROVE  HotInv'
  <1>1. phase' = "aborted" => \A t \in Threads : pc'[t] = "idle"
    BY DEF HotInv, Aside
  <1>2. CASE slow
    BY <1>1, <1>2, Zenon DEF HotInv, Aside
  <1>3. CASE HotCore
    BY <1>1, <1>3, AsideKeepsCore, Zenon DEF HotInv
  <1> QED BY <1>2, <1>3 DEF HotInv

\* A step at the hot list of a process that runs.
LEMMA CoreKeepsHot ==
    ASSUME HotInv, UNCHANGED phase, NEW t \in Threads, pc[t] # "idle",
           ~slow' => ~slow, HotCore => (slow' \/ HotCore')
    PROVE  HotInv'
  <1>1. phase' # "aborted"
    BY DEF HotInv
  <1> QED BY <1>1, Zenon DEF HotInv

LEMMA HotStepOfRequests ==
    ASSUME DataInv, HotInv, NEW t \in Threads,
           \/ \E where \in {"rebuild", "entries", "hot"} : Request(t, where)
           \/ AdminReload(t)
           \/ Serve(t)
    PROVE  HotInv'
  <1> USE HotTypes, WorkerAssumption DEF Actors
  <1>0. t # Worker
    OBVIOUS
  <1>1. CASE \E where \in {"rebuild", "entries", "hot"} : Request(t, where)
    <2>1. Aside
      BY <1>1 DEF Aside, Request, schedVars
    <2>2. phase # "aborted"
      BY <1>1 DEF Request
    <2> QED BY <2>1, <2>2, AsideKeepsHot
  <1>2. CASE (AdminReload(t) \/ ServeCurl(t) \/ ReadEntries(t)) /\ Dies
    BY <1>2, DiesKeepsHot
  <1>3. CASE (AdminReload(t) \/ ServeCurl(t)) /\ ~Dies
    <2>1. Aside
      BY <1>3 DEF Aside, AdminReload, ServeCurl, HotReload, schedVars
    <2>2. pc' = pc
      BY <1>3 DEF AdminReload, ServeCurl, HotReload
    <2> QED BY <2>1, <2>2, AsideKeepsHot
  <1>4. CASE ReadEntries(t) /\ ~Dies
    <2>1. Aside
      BY <1>0, <1>4 DEF Aside, ReadEntries, Finish, schedVars
    <2>2. \A u \in Threads : pc[u] = "idle" => pc'[u] = "idle"
      BY <1>4 DEF ReadEntries, Finish
    <2> QED BY <2>1, <2>2, AsideKeepsHot
  <1>5. CASE RebuildRead(t)
    <2>1. Aside
      BY <1>5 DEF Aside, RebuildRead, schedVars
    <2>2. \A u \in Threads : pc[u] = "idle" => pc'[u] = "idle"
      BY <1>5 DEF RebuildRead
    <2> QED BY <2>1, <2>2, AsideKeepsHot
  <1>6. CASE Build(t)
    <2>1. Aside
      BY <1>0, <1>6 DEF Aside, Build, Switched, Finish, schedVars
    <2>2. \A u \in Threads : pc[u] = "idle" => pc'[u] = "idle"
      BY <1>6 DEF Build, Switched, Finish
    <2> QED BY <2>1, <2>2, AsideKeepsHot
  <1>7. CASE TakeSnapshot(t)
    <2>1. Aside
      BY <1>0, <1>7 DEF Aside, TakeSnapshot, Finish, schedVars
    <2>2. \A u \in Threads : pc[u] = "idle" => pc'[u] = "idle"
      BY <1>7 DEF TakeSnapshot, Finish
    <2> QED BY <2>1, <2>2, AsideKeepsHot
  <1>8. CASE ReadClock(t) \/ ReadLastRefresh(t) \/ CompareExchange(t) \/ ReadDocs(t)
             \/ StoreList(t) \/ StoreRefreshTime(t)
    <2>1. UNCHANGED phase /\ pc[t] # "idle"
      BY <1>8 DEF ReadClock, ReadLastRefresh, CompareExchange, ReadDocs, StoreList,
                  StoreRefreshTime, schedVars
    <2>2. ~slow' => ~slow
      BY <1>8, Zenon DEF ReadClock, ReadLastRefresh, CompareExchange, ReadDocs, StoreList,
                         StoreRefreshTime
    <2>3. HotCore => HotCore'
      BY <1>8, ReadTimesKeepCore, CompareExchangeKeepsCore, RefreshKeepsCore
    <2> QED BY <2>1, <2>2, <2>3, CoreKeepsHot
  <1> QED BY <1>1, <1>2, <1>3, <1>4, <1>5, <1>6, <1>7, <1>8 DEF Serve

LEMMA HotStepOfTasks ==
    ASSUME DataInv, HotInv, CallTask \/ Task
    PROVE  HotInv'
  <1> USE HotTypes, WorkerAssumption DEF Actors, Aside, taskUnchanged, Finish
  <1>1. ASSUME TaskEnds \/ TaskStarts \/ UNCHANGED schedVars PROVE phase' = phase
    BY <1>1 DEF TaskEnds, TaskStarts, Move, schedVars
  <1>2. Aside /\ \A t \in Threads : pc'[t] = pc[t]
    <2>1. CASE CallTask
      BY <1>1, <2>1 DEF CallTask
    <2>2. CASE NotDue
      BY <1>1, <2>2 DEF NotDue
    <2>3. CASE RebuildTrie
      BY <1>1, <2>3 DEF RebuildTrie
    <2>4. CASE RebuildRead(Worker)
      BY <1>1, <2>4 DEF RebuildRead
    <2>5. CASE Build(Worker)
      BY <1>1, <2>5 DEF Build, Switched
    <2>6. CASE DumpTrainData \/ RunTrainScript
      BY <1>1, <2>6 DEF DumpTrainData, RunTrainScript, RunChild
    <2>7. CASE HotReloadModel
      BY <1>1, <2>7 DEF HotReloadModel
    <2>8. CASE CurlReturns
      BY <1>1, <2>8 DEF CurlReturns
    <2> QED BY <2>1, <2>2, <2>3, <2>4, <2>5, <2>6, <2>7, <2>8 DEF Task
  <1> QED BY <1>2, AsideKeepsHot

LEMMA HotStep == DataInv /\ HotInv /\ [Next]_vars => HotInv'
  <1> SUFFICES ASSUME DataInv, HotInv, [Next]_vars PROVE HotInv'
    OBVIOUS
  <1>1. CASE Tick
    <2>1. phase' = phase /\ pc' = pc
      BY <1>1 DEF Tick, schedVars
    <2>2. ~slow' => ~slow
      BY <1>1, Zenon DEF Tick
    <2>3. HotCore /\ ~slow' => HotCore'
      BY <1>1, TickKeepsCore
    <2> QED BY <2>1, <2>2, <2>3, Zenon DEF HotInv
  <1>2. CASE DocsChange \/ Done \/ UNCHANGED vars
    <2>1. Aside /\ pc' = pc
      BY <1>2 DEF Aside, DocsChange, Done, vars, swapVars, schedVars
    <2> QED BY <2>1, AsideKeepsHot
  <1>3. CASE Between
    <2>1. Aside /\ pc' = pc
      BY <1>3 DEF Aside, Between, Test, Park, TimesOut, SkipDisabled, NextTask, Move, swapVars
    <2> QED BY <2>1, AsideKeepsHot
  <1>4. CASE Main
    <2>1. Aside /\ pc' = pc
      BY <1>4 DEF Aside, Main, Start, Listen, SignalHandler, ServerReturns, RequestStop,
                  NotifyAll, Join, swapVars
    <2> QED BY <2>1, AsideKeepsHot
  <1> QED
    BY <1>1, <1>2, <1>3, <1>4, HotStepOfRequests, HotStepOfTasks DEF Next

LEMMA HotInvariant == Spec => []HotInv
  <1>1. TypeInv => DataInv
    BY DEF TypeInv
  <1> QED
    BY <1>1, HotInitial, HotStep, TypeInvariant, PTL DEF Spec

\* One thread at a time refreshes the hot list, for any number of threads and
\* any interval, as long as no refresh takes longer than the interval.
\* (hot_content_recall.cpp 88-98.)
THEOREM AloneTheorem == Spec => []RefreshAlone
  <1>1. HotInv => RefreshAlone
    BY DEF HotInv, HotCore, Alone, RefreshAlone
  <1> QED BY <1>1, HotInvariant, PTL

\* The list a recall is about to take is then no older than the interval.
\* (hot_content_recall.cpp 32-104.)
THEOREM RecentTheorem == Spec => []HotListRecent
  <1>1. ASSUME DataInv, HotInv PROVE HotListRecent
    <2> SUFFICES ASSUME NEW t \in Threads, pc[t] = "take", Refreshing = {}, ~empty, ~slow
                 PROVE  hot >= now[t] - RefreshInterval
      BY DEF HotListRecent
    <2>1. phase # "aborted" /\ HotCore
      BY <1>1, Zenon DEF HotInv
    <2>2. hot >= lastRefresh
      BY <2>1, Zenon DEF HotCore, ListKeepsUp
    <2>3. lastRefresh >= now[t] - RefreshInterval
      BY <2>1 DEF HotCore, HotThread
    <2> QED BY <1>1, <2>2, <2>3, HotTypes
  <1>2. TypeInv => DataInv
    BY DEF TypeInv
  <1> QED BY <1>1, <1>2, HotInvariant, TypeInvariant, PTL
=============================================================================
