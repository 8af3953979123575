--------------------------- MODULE DagThreadPool ---------------------------
(***************************************************************************)
(* framework/processor/dag_thread_pool.h: the FIFO pool shared by all the  *)
(* DagPipelines.  tasks_ and stop_ are only changed under mu_, so what a   *)
(* thread does inside one critical section is one step; the notifications, *)
(* which the code sends after it has released the mutex, are steps of      *)
(* their own.  A task may submit one further task when it runs, as         *)
(* ExecuteNode does for a downstream node.  Requests submit from their own *)
(* threads at any time, also before Init and after Shutdown.               *)
(***************************************************************************)
EXTENDS Integers, Sequences, FiniteSets, Functions

CONSTANTS
    Threads,    \* the threads Init creates
    Closures,      \* the closures, each submitted at most once
    Child,      \* the task that a task submits when it runs, or NoTask
    NoClosure,
    MaxStarts   \* bound: how often the pool is started

ASSUME ThreadsAssumption == Threads # {}
ASSUME NoClosureAssumption == NoClosure \notin Closures
ASSUME ChildAssumption ==
    /\ Child \in [Closures -> Closures \union {NoClosure}]
    /\ \A t, u \in Closures : Child[t] = Child[u] /\ Child[t] # NoClosure => t = u

VARIABLES
    tasks,      \* tasks_
    stop,       \* stop_
    started,    \* started_
    ctl,        \* where the owner of the pool is in Init or Shutdown
    tpc,        \* where each worker is in WorkerLoop
    current,    \* the task a worker runs
    notifiers,  \* clients between the push and the notify_one of Submit
    starts,     \* how often Init has started the pool
    submitted,  \* history: all the tasks submitted, in order
    taken,      \* history: all the tasks workers took, in order
    late        \* history: tasks a client submitted while the pool was stopped

poolVars == <<tasks, stop, started, ctl, tpc, current, notifiers, starts, submitted, taken, late>>

\* Tasks that no client may submit: they are submitted by their parent.
Children == {Child[t] : t \in Closures} \ {NoClosure}

PoolInit ==
    /\ tasks = <<>>
    /\ stop = FALSE
    /\ started = FALSE
    /\ ctl = "idle"
    /\ tpc = [w \in Threads |-> "none"]
    /\ current = [w \in Threads |-> NoClosure]
    /\ notifiers = {}
    /\ starts = 0
    /\ submitted = <<>>
    /\ taken = <<>>
    /\ late = {}

-----------------------------------------------------------------------------
(* The owner: Init and Shutdown, called from one thread.                   *)

\* Init returns at once when the pool is started.
StartPool ==
    /\ ctl = "idle"
    /\ ~started
    /\ starts < MaxStarts
    /\ started' = TRUE
    /\ stop' = FALSE
    /\ tpc' = [w \in Threads |-> "test"]
    /\ starts' = starts + 1
    /\ UNCHANGED <<tasks, ctl, current, notifiers, submitted, taken, late>>

\* Shutdown: stop_ is set under the mutex.
ShutdownStop ==
    /\ ctl = "idle"
    /\ started
    /\ stop' = TRUE
    /\ ctl' = "notify"
    /\ UNCHANGED <<tasks, started, tpc, current, notifiers, starts, submitted, taken, late>>

\* Mutant: Shutdown wakes one worker only.
ShutdownNotifyOne ==
    /\ ctl = "notify"
    /\ \/ \E w \in Threads : tpc[w] = "asleep" /\ tpc' = [tpc EXCEPT ![w] = "test"]
       \/ (\A w \in Threads : tpc[w] # "asleep") /\ UNCHANGED tpc
    /\ ctl' = "join"
    /\ UNCHANGED <<tasks, stop, started, current, notifiers, starts, submitted, taken, late>>

\* notify_all wakes every sleeping worker.
ShutdownNotify ==
    /\ ctl = "notify"
    /\ tpc' = [w \in Threads |-> IF tpc[w] = "asleep" THEN "test" ELSE tpc[w]]
    /\ ctl' = "join"
    /\ UNCHANGED <<tasks, stop, started, current, notifiers, starts, submitted, taken, late>>

\* All the threads are joined, workers_ is cleared, started_ is reset.
ShutdownJoin ==
    /\ ctl = "join"
    /\ \A w \in Threads : tpc[w] = "exited"
    /\ tpc' = [w \in Threads |-> "none"]
    /\ started' = FALSE
    /\ ctl' = "idle"
    /\ UNCHANGED <<tasks, stop, current, notifiers, starts, submitted, taken, late>>

Owner == StartPool \/ ShutdownStop \/ ShutdownNotify \/ ShutdownJoin

-----------------------------------------------------------------------------
(* Submit, from a client thread or from the worker that runs the parent.   *)

\* Mutant: the newest task is run first.
PushFront(t) ==
    /\ tasks' = <<t>> \o tasks
    /\ submitted' = Append(submitted, t)

Push(t) ==
    /\ tasks' = Append(tasks, t)
    /\ submitted' = Append(submitted, t)

ClientSubmit(t) ==
    /\ t \notin Range(submitted) \union Children
    /\ Push(t)
    /\ notifiers' = notifiers \union {t}
    /\ late' = IF stop \/ ~started THEN late \union {t} ELSE late
    /\ UNCHANGED <<stop, started, ctl, tpc, current, starts, taken>>

\* Mutant: notify_one is forgotten.
WakeNobody(before, after) == after = before

\* What notify_one does to the workers: one of the sleeping ones, if any, wakes.
WakeOne(before, after) ==
    LET sleeping == {w \in Threads : before[w] = "asleep"} IN
    IF sleeping = {} THEN after = before
                     ELSE \E w \in sleeping : after = [before EXCEPT ![w] = "test"]

ClientNotify(t) ==
    /\ t \in notifiers
    /\ notifiers' = notifiers \ {t}
    /\ WakeOne(tpc, tpc')
    /\ UNCHANGED <<tasks, stop, started, ctl, current, starts, submitted, taken, late>>

-----------------------------------------------------------------------------
(* WorkerLoop.                                                             *)

\* The predicate of cv_.wait is false: the worker falls asleep.
Sleep(w) ==
    /\ tpc[w] = "test"
    /\ ~stop
    /\ tasks = <<>>
    /\ tpc' = [tpc EXCEPT ![w] = "asleep"]
    /\ UNCHANGED <<tasks, stop, started, ctl, current, notifiers, starts, submitted, taken, late>>

PoolSpuriousWakeup(w) ==
    /\ tpc[w] = "asleep"
    /\ tpc' = [tpc EXCEPT ![w] = "test"]
    /\ UNCHANGED <<tasks, stop, started, ctl, current, notifiers, starts, submitted, taken, late>>

\* Mutant: a worker returns as soon as the pool is stopped.
ExitAtOnce(w) ==
    /\ tpc[w] = "test"
    /\ stop
    /\ tpc' = [tpc EXCEPT ![w] = "exited"]
    /\ UNCHANGED <<tasks, stop, started, ctl, current, notifiers, starts, submitted, taken, late>>

\* if (stop_.load() && tasks_.empty()) return;
Exit(w) ==
    /\ tpc[w] = "test"
    /\ stop
    /\ tasks = <<>>
    /\ tpc' = [tpc EXCEPT ![w] = "exited"]
    /\ UNCHANGED <<tasks, stop, started, ctl, current, notifiers, starts, submitted, taken, late>>

Take(w) ==
    /\ tpc[w] = "test"
    /\ tasks # <<>>
    /\ current' = [current EXCEPT ![w] = Head(tasks)]
    /\ taken' = Append(taken, Head(tasks))
    /\ tasks' = Tail(tasks)
    /\ tpc' = [tpc EXCEPT ![w] = "run"]
    /\ UNCHANGED <<stop, started, ctl, notifiers, starts, submitted, late>>

\* The task pushes its child, and notifies in a step of its own.
RunSubmit(w) ==
    /\ tpc[w] = "run"
    /\ Child[current[w]] # NoClosure
    /\ Push(Child[current[w]])
    /\ tpc' = [tpc EXCEPT ![w] = "pushed"]
    /\ UNCHANGED <<stop, started, ctl, current, notifiers, starts, taken, late>>

RunNotify(w) ==
    /\ tpc[w] = "pushed"
    /\ WakeOne([tpc EXCEPT ![w] = "ran"], tpc')
    /\ UNCHANGED <<tasks, stop, started, ctl, current, notifiers, starts, submitted, taken, late>>

\* task() returns and the loop starts again.
RunEnd(w) ==
    /\ \/ tpc[w] = "run" /\ Child[current[w]] = NoClosure
       \/ tpc[w] = "ran"
    /\ tpc' = [tpc EXCEPT ![w] = "test"]
    /\ current' = [current EXCEPT ![w] = NoClosure]
    /\ UNCHANGED <<tasks, stop, started, ctl, notifiers, starts, submitted, taken, late>>

WorkerLoop(w) ==
    Sleep(w) \/ Exit(w) \/ Take(w) \/ RunSubmit(w) \/ RunNotify(w) \/ RunEnd(w)

-----------------------------------------------------------------------------
\* The pool has been shut down for good.
Finished ==
    /\ ctl = "idle"
    /\ ~started
    /\ starts = MaxStarts
    /\ UNCHANGED poolVars

PoolNext ==
    \/ Owner
    \/ \E t \in Closures : ClientSubmit(t) \/ ClientNotify(t)
    \/ \E w \in Threads : WorkerLoop(w) \/ PoolSpuriousWakeup(w)
    \/ Finished

PoolSpec == PoolInit /\ [][PoolNext]_poolVars

\* Running threads are scheduled, a thread that has pushed goes on to notify,
\* tasks end, and a Shutdown that has begun goes on.  Nobody has to submit, to
\* start the pool or to shut it down, and no wake-up is spurious for sure.
PoolFairSpec ==
    /\ PoolSpec
    /\ \A w \in Threads : WF_poolVars(WorkerLoop(w))
    /\ \A t \in Closures : WF_poolVars(ClientNotify(t))
    /\ WF_poolVars(ShutdownNotify \/ ShutdownJoin)

-----------------------------------------------------------------------------
(* Properties.                                                             *)

\* Type correctness.
PoolTypeOK ==
    /\ tasks \in Seq(Closures)
    /\ stop \in BOOLEAN
    /\ started \in BOOLEAN
    /\ ctl \in {"idle", "notify", "join"}
    /\ tpc \in [Threads -> {"none", "test", "asleep", "run", "pushed", "ran", "exited"}]
    /\ current \in [Threads -> Closures \union {NoClosure}]
    /\ \A w \in Threads : current[w] # NoClosure <=> tpc[w] \in {"run", "pushed", "ran"}
    /\ notifiers \in SUBSET Closures
    /\ starts \in Nat
    /\ submitted \in Seq(Closures)
    /\ taken \in Seq(Closures)
    /\ late \in SUBSET Closures

\* FIFO fairness (dag_thread_pool.h:2-4): whoever submits and whichever worker
\* is free, the tasks start in the order of their submission and none is lost
\* or started twice, over any number of starts and shutdowns.
StartedInOrder ==
    /\ submitted = taken \o tasks
    /\ \A k, l \in DOMAIN submitted : submitted[k] = submitted[l] => k = l

\* No lost wake-up: a task is not left waiting with all the workers asleep,
\* unless a thread that has pushed is on its way to notify.
NoStuckTask ==
    tasks # <<>> /\ (\A w \in Threads : tpc[w] \in {"asleep", "exited"}) /\ ctl = "idle" =>
        notifiers # {}

\* Shutdown drains the pool: when it is done no task is running, and all those
\* submitted before it began, and all those they submitted, have run.
ShutdownDrains ==
    ~started => /\ \A w \in Threads : tpc[w] = "none"
                /\ Range(tasks) \subseteq late

\* A task submitted to a running pool is run, also when the pool is shut down
\* before its turn.
EverySubmittedTaskRuns ==
    \A t \in Closures : t \in Range(tasks) /\ started /\ ~stop ~> t \in Range(taken)

\* Shutdown returns.
ShutdownReturns == ctl # "idle" ~> ctl = "idle"
=============================================================================
