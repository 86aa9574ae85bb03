----------------------------- MODULE TaskLoops -----------------------------
(***************************************************************************)
(* One life of the service around its task loops: run_relay and _run       *)
(* (relay/main.py), run_tasks and run_task_loop (relay/core/scheduler.py), *)
(* SvcStop and SvcDoRun (relay/service.py).                                *)
(*                                                                         *)
(* Three threads take part: the one of the Service Control Manager, which  *)
(* calls SvcStop; the stop watcher; and the event loop, which runs one     *)
(* loop per task, any number of them, side by side.  QBService looks into  *)
(* the ticks of the one task registered at this commit.                    *)
(***************************************************************************)
EXTENDS Naturals

CONSTANTS
  Integrations,   \* each a set of tasks (REGISTERED_INTEGRATIONS, build_tasks)
  Hanging         \* the tasks of which a tick may never end

Tasks == UNION Integrations

ASSUME TaskAssumption == Hanging \subseteq Tasks

VARIABLES
  stop,        \* the threading.Event of the service
  watcher,     \* the stop watcher: waiting, or its callback is on the event loop, or has run
  stopEvent,   \* the asyncio.Event the loops look at
  tasks,       \* the tasks of the integrations that could start
  loop,        \* per task: where its loop is
  phase        \* the service; "raised": an exception has left a loop, "cancelling": asyncio.run
               \* has cancelled the others and waits for them

vars == <<stop, watcher, stopEvent, tasks, loop, phase>>

TypeOK ==
  /\ stop \in BOOLEAN /\ stopEvent \in BOOLEAN
  /\ watcher \in {"waiting", "called", "done"}
  /\ tasks \subseteq Tasks
  /\ loop \in [Tasks -> {"none", "opening", "top", "run", "sleep", "ended"}]
  /\ phase \in {"starting", "building", "running", "raised", "cancelling",
                "closing", "stopped", "failed"}
  /\ \A t \in Tasks : loop[t] = "none" <=> t \notin tasks

Init ==
  /\ stop = FALSE /\ stopEvent = FALSE
  /\ watcher = "waiting"
  /\ tasks = {}
  /\ loop = [t \in Tasks |-> "none"]
  /\ phase = "starting"

\* Until asyncio.run cancels them the loops go on, also those beside one that has raised.
LoopsRun == phase \in {"running", "raised"}

-----------------------------------------------------------------------------
(* The Service Control Manager and the stop watcher                        *)

\* It may come at any time, also before anything has started.
SvcStop ==
  /\ phase \notin {"stopped", "failed"}
  /\ ~stop
  /\ stop' = TRUE
  /\ UNCHANGED <<watcher, stopEvent, tasks, loop, phase>>

\* stop.wait() returns at once if the stop came first.
WatchStop ==
  /\ phase \in {"building", "running", "raised", "cancelling"}
  /\ watcher = "waiting"
  /\ stop
  /\ watcher' = "called"
  /\ UNCHANGED <<stop, stopEvent, tasks, loop, phase>>

\* The callback of call_soon_threadsafe runs on the event loop.
SetStopEvent ==
  /\ phase \in {"running", "raised", "cancelling"}
  /\ watcher = "called"
  /\ watcher' = "done"
  /\ stopEvent' = TRUE
  /\ UNCHANGED <<stop, tasks, loop, phase>>

-----------------------------------------------------------------------------
(* Start                                                                   *)

\* The settings are loaded, the stop watcher is started - or they cannot be
\* loaded, and SvcDoRun raises.  Site says which.
LoadSettings(ok) ==
  /\ phase = "starting"
  /\ phase' = IF ok THEN "building" ELSE "failed"
  /\ UNCHANGED <<stop, watcher, stopEvent, tasks, loop>>

\* Mutation of BuildTasks: no `continue`, so the tasks of the last integration
\* that could start are taken for those of the one that could not.
BuildTasks_NoContinue ==
  /\ phase = "building"
  /\ \E started \in SUBSET Integrations : tasks' = UNION started
  /\ loop' = [t \in Tasks |-> IF tasks' # {} THEN "opening" ELSE "none"]
  /\ phase' = "running"
  /\ UNCHANGED <<stop, watcher, stopEvent>>

\* An integration that cannot start is skipped, the others start.
BuildTasks ==
  /\ phase = "building"
  /\ \E started \in SUBSET Integrations : tasks' = UNION started
  /\ loop' = [t \in Tasks |-> IF t \in tasks' THEN "opening" ELSE "none"]
  /\ phase' = "running"
  /\ UNCHANGED <<stop, watcher, stopEvent>>

-----------------------------------------------------------------------------
(* The loop of a task                                                      *)

\* The loop makes its HTTP client.
OpenClient(t) ==
  /\ LoopsRun /\ loop[t] = "opening"
  /\ loop' = [loop EXCEPT ![t] = "top"]
  /\ UNCHANGED <<stop, watcher, stopEvent, tasks, phase>>

\* It cannot be made (no certificates, say): the one exception that leaves a
\* loop.  gather hands it on, and leaves the other loops alone.
OpenClientFails(t) ==
  /\ LoopsRun /\ loop[t] = "opening"
  /\ loop' = [loop EXCEPT ![t] = "ended"]
  /\ phase' = "raised"
  /\ UNCHANGED <<stop, watcher, stopEvent, tasks>>

\* Mutation of LoopTop: a tick that waits blocks the thread of the event loop.
LoopTop_OneAtATime(t) ==
  /\ LoopsRun /\ loop[t] = "top"
  /\ \A u \in Tasks : loop[u] # "run"
  /\ loop' = [loop EXCEPT ![t] = IF stopEvent THEN "ended" ELSE "run"]
  /\ UNCHANGED <<stop, watcher, stopEvent, tasks, phase>>

LoopTop(t) ==
  /\ LoopsRun /\ loop[t] = "top"
  /\ loop' = [loop EXCEPT ![t] = IF stopEvent THEN "ended" ELSE "run"]
  /\ UNCHANGED <<stop, watcher, stopEvent, tasks, phase>>

\* Mutation of TickEnds: an exception of a tick ends its loop.
TickEnds_ExceptionEndsLoop(t) ==
  /\ LoopsRun /\ loop[t] = "run"
  /\ \E next \in {"sleep", "ended"} : loop' = [loop EXCEPT ![t] = next]
  /\ UNCHANGED <<stop, watcher, stopEvent, tasks, phase>>

\* The tick returns or raises; either way the loop goes on to its sleep.
TickEnds(t) ==
  /\ LoopsRun /\ loop[t] = "run"
  /\ loop' = [loop EXCEPT ![t] = "sleep"]
  /\ UNCHANGED <<stop, watcher, stopEvent, tasks, phase>>

\* Mutation of WakeUp: the sleep that a stop cuts short ends the wait for the
\* stop, not the loop, which goes on to the next tick without a look at it.
WakeUp_StraightToTick(t) ==
  /\ LoopsRun /\ loop[t] = "sleep"
  /\ loop' = [loop EXCEPT ![t] = "run"]
  /\ UNCHANGED <<stop, watcher, stopEvent, tasks, phase>>

\* _sleep_or_stop: the interval is over, or the stop event is set.
WakeUp(t) ==
  /\ LoopsRun /\ loop[t] = "sleep"
  /\ loop' = [loop EXCEPT ![t] = "top"]
  /\ UNCHANGED <<stop, watcher, stopEvent, tasks, phase>>

-----------------------------------------------------------------------------
(* The end                                                                 *)

\* Mutation of RunTasksReturns: the end of the first loop is enough.
RunTasksReturns_FirstEnded ==
  /\ phase = "running"
  /\ IF tasks = {} THEN stopEvent ELSE \E t \in tasks : loop[t] = "ended"
  /\ phase' = "closing"
  /\ UNCHANGED <<stop, watcher, stopEvent, tasks, loop>>

\* All loops have ended; without a task it waits for the stop.
RunTasksReturns ==
  /\ phase = "running"
  /\ IF tasks = {} THEN stopEvent ELSE \A t \in tasks : loop[t] = "ended"
  /\ phase' = "closing"
  /\ UNCHANGED <<stop, watcher, stopEvent, tasks, loop>>

\* _run has raised: asyncio.run cancels what is still there, ...
CancelLoops ==
  /\ phase = "raised"
  /\ phase' = "cancelling"
  /\ UNCHANGED <<stop, watcher, stopEvent, tasks, loop>>

\* ... one loop after the other ends, also in the middle of a tick, ...
Cancelled(t) ==
  /\ phase = "cancelling"
  /\ loop[t] \notin {"none", "ended"}
  /\ loop' = [loop EXCEPT ![t] = "ended"]
  /\ UNCHANGED <<stop, watcher, stopEvent, tasks, phase>>

\* ... and when all have, SvcDoRun raises.
Fails ==
  /\ phase = "cancelling"
  /\ \A t \in tasks : loop[t] = "ended"
  /\ phase' = "failed"
  /\ UNCHANGED <<stop, watcher, stopEvent, tasks, loop>>

\* The listener of the log is stopped (LogRelay) and SvcDoRun returns.
Stopped ==
  /\ phase = "closing"
  /\ phase' = "stopped"
  /\ UNCHANGED <<stop, watcher, stopEvent, tasks, loop>>

-----------------------------------------------------------------------------

\* All but the settings.
LoopsStep ==
  \/ SvcStop \/ WatchStop \/ SetStopEvent \/ BuildTasks
  \/ \E t \in Tasks : OpenClient(t) \/ OpenClientFails(t)
  \/ \E t \in Tasks : LoopTop(t) \/ TickEnds(t) \/ WakeUp(t)
  \/ RunTasksReturns \/ Stopped
  \/ CancelLoops \/ Fails \/ \E t \in Tasks : Cancelled(t)

Next == LoopsStep \/ \E ok \in BOOLEAN : LoadSettings(ok)

Spec == Init /\ [][Next]_vars

\* Threads and loops go on, intervals pass; a tick ends, unless it is of a task
\* that may hang.
Fairness ==
  /\ WF_vars(WatchStop) /\ WF_vars(SetStopEvent) /\ WF_vars(BuildTasks)
  /\ \A t \in Tasks : WF_vars(OpenClient(t)) /\ WF_vars(LoopTop(t)) /\ WF_vars(WakeUp(t))
  /\ \A t \in Tasks \ Hanging : WF_vars(TickEnds(t))
  /\ WF_vars(RunTasksReturns) /\ WF_vars(Stopped)
  /\ WF_vars(CancelLoops) /\ WF_vars(Fails) /\ \A t \in Tasks : WF_vars(Cancelled(t))

-----------------------------------------------------------------------------
(* Properties                                                              *)

\* The service ends only because it was asked to, whatever ticks raise and
\* whichever integrations are skipped: an end that nobody asked for would look
\* orderly to Windows, which restarts only what failed (scheduler.py:43-60).
StopsOnlyWhenAsked == phase \in {"closing", "stopped"} => stop

\* When it says that it has stopped, or failed, no tick is under way and none will
\* start (service.py:3-5, scheduler.py:60).
NothingRunsAfterStop ==
  phase \in {"closing", "stopped", "failed"} => \A t \in Tasks : loop[t] \in {"none", "ended"}

\* A stop stops the service, at whatever moment it comes, unless a tick hangs.
StopIsHeard ==
  stop ~> phase \in {"stopped", "failed"} \/ \E t \in Hanging : loop[t] = "run"

\* A loop keeps running its task whatever the ticks of other tasks do - also if
\* they never end (scheduler.py:48-51, 60).
LoopsGoOn ==
  \A t \in Tasks :
    loop[t] \in {"top", "sleep"} ~> loop[t] = "run" \/ stop \/ phase = "failed"

=============================================================================
