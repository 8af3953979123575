------------------------------ MODULE Scheduler ------------------------------
(***************************************************************************)
(* scheduler/scheduler.cpp, and main.cpp from the moment the scheduler     *)
(* starts: one thread checks the background tasks in turn, sleeps in       *)
(* between, and is stopped by main when the HTTP server has returned.      *)
(* stop_requested_ is an atomic: Stop stores it and notifies without the   *)
(* mutex under which the thread tests it and goes to sleep.  What a task   *)
(* does is between TaskStarts and TaskEnds; how long the thread sleeps is  *)
(* left out.                                                               *)
(***************************************************************************)
EXTENDS Integers, Sequences

CONSTANTS
    TaskList,   \* the registered tasks, in the order of InitFromConfig
    Enabled     \* those with enable: true

ASSUME TaskListAssumption == TaskList \in Seq(STRING)

VARIABLES
    phase,          \* where main is
    running,        \* running_
    stopRequested,  \* stop_requested_
    loop,           \* where the scheduler thread is in Loop
    turn,           \* the task of the for loop
    late            \* history: how many tasks were started after the request to stop

schedVars == <<phase, running, stopRequested, loop, turn, late>>

SchedInit ==
    /\ phase = "boot"
    /\ running = FALSE
    /\ stopRequested = FALSE
    /\ loop = "none"
    /\ turn = 0
    /\ late = 0

-----------------------------------------------------------------------------
(* main.                                                                   *)

Start ==
    /\ phase = "boot"
    /\ ~running
    /\ phase' = "ready"
    /\ stopRequested' = FALSE
    /\ running' = TRUE
    /\ loop' = "test"
    /\ UNCHANGED <<turn, late>>

\* server->Run listens ...
Listen ==
    /\ phase = "ready"
    /\ phase' = "listening"
    /\ UNCHANGED <<running, stopRequested, loop, turn, late>>

\* ... until the signal handler stops it.  A signal that comes before has no
\* effect: the server is not running yet, and nobody reads
\* g_shutdown_requested.
SignalHandler ==
    /\ phase = "listening"
    /\ phase' = "draining"
    /\ UNCHANGED <<running, stopRequested, loop, turn, late>>

\* Run returns; at once when it cannot listen.
ServerReturns ==
    /\ phase \in {"ready", "draining"}
    /\ phase' = "stopping"
    /\ UNCHANGED <<running, stopRequested, loop, turn, late>>

\* Mutant: Stop notifies only.
NotifiesOnly ==
    /\ phase = "stopping"
    /\ running
    /\ phase' = "notifying"
    /\ UNCHANGED <<running, stopRequested, loop, turn, late>>

\* Scheduler::Stop: the store, the notification, the join.
RequestStop ==
    /\ phase = "stopping"
    /\ running
    /\ phase' = "notifying"
    /\ stopRequested' = TRUE
    /\ UNCHANGED <<running, loop, turn, late>>

NotifyAll ==
    /\ phase = "notifying"
    /\ phase' = "joining"
    /\ loop' = IF loop = "asleep" THEN "test" ELSE loop
    /\ UNCHANGED <<running, stopRequested, turn, late>>

Join ==
    /\ phase = "joining"
    /\ loop = "exited"
    /\ running' = FALSE
    /\ phase' = "exited"
    /\ UNCHANGED <<stopRequested, loop, turn, late>>

\* The process is killed by undefined behaviour of a request or a task.
Abort ==
    /\ phase' = "aborted"
    /\ running' = FALSE
    /\ loop' = "none"
    /\ UNCHANGED <<stopRequested, turn, late>>

-----------------------------------------------------------------------------
(* Loop.                                                                   *)

Move(from, to) ==
    /\ loop = from
    /\ loop' = to
    /\ UNCHANGED <<phase, running, stopRequested>>

\* The head of the loop and the predicate of wait_for read the flag one after
\* the other; the second has the mutex but is not yet asleep.
Test == Move("test", IF stopRequested THEN "exited" ELSE "park") /\ UNCHANGED <<turn, late>>

Park == Move("park", "asleep") /\ UNCHANGED <<turn, late>>

\* The period ends: the flag is read again, and the for loop begins.
TimesOut ==
    /\ IF stopRequested
       THEN Move("asleep", "exited") /\ UNCHANGED turn
       ELSE IF TaskList = <<>>
       THEN Move("asleep", "test") /\ UNCHANGED turn
       ELSE Move("asleep", "pick") /\ turn' = 1
    /\ UNCHANGED late

SkipDisabled ==
    /\ Move("pick", "check")
    /\ TaskList[turn] \notin Enabled
    /\ UNCHANGED <<turn, late>>

\* CheckAndRun is called ...
TaskStarts ==
    /\ Move("pick", "work")
    /\ TaskList[turn] \in Enabled
    /\ late' = late + (IF stopRequested THEN 1 ELSE 0)
    /\ UNCHANGED turn

\* ... and returns.
TaskEnds == Move("work", "check") /\ UNCHANGED <<turn, late>>

\* Mutant: the request to stop is not looked for between two tasks.
NextTaskAnyway ==
    /\ IF turn = Len(TaskList)
       THEN Move("check", "test") /\ turn' = 0
       ELSE Move("check", "pick") /\ turn' = turn + 1
    /\ UNCHANGED late

\* The request to stop leaves the for loop.
NextTask ==
    /\ IF stopRequested \/ turn = Len(TaskList)
       THEN Move("check", "test") /\ turn' = 0
       ELSE Move("check", "pick") /\ turn' = turn + 1
    /\ UNCHANGED late

Loop == Test \/ Park \/ TimesOut \/ SkipDisabled \/ TaskStarts \/ NextTask

SchedNext ==
    \/ Start \/ Listen \/ SignalHandler \/ ServerReturns
    \/ RequestStop \/ NotifyAll \/ Join \/ Abort
    \/ Loop \/ TaskEnds

SchedSpec == SchedInit /\ [][SchedNext]_schedVars

-----------------------------------------------------------------------------
SchedTypeOK ==
    /\ phase \in {"boot", "ready", "listening", "draining", "stopping", "notifying",
                  "joining", "exited", "aborted"}
    /\ running \in BOOLEAN
    /\ stopRequested \in BOOLEAN
    /\ loop \in {"none", "test", "park", "asleep", "pick", "work", "check", "exited"}
    /\ turn \in 0..Len(TaskList)
    /\ late \in Nat

\* After main has asked the scheduler to stop, at most one more task starts
\* before the thread ends: the request is looked for at every turn, but not
\* between that look and the call.  (scheduler.cpp 103-144.)
StopsWithinOneTask == late <= 1
=============================================================================
