----------------------------- MODULE QBService -----------------------------
(***************************************************************************)
(* The service process around the QuickBooks workers: the task loop of     *)
(* relay/core/scheduler.py, one tick of QuickBooksRunner                   *)
(* (relay/integrations/quickbooks/runner.py), and the Windows service that *)
(* is started, asked to stop, crashes and is restarted by Windows recovery *)
(* (relay/service.py, relay/main.py).                                      *)
(*                                                                         *)
(* Every step of the runner that touches a worker or MyFuel is an action   *)
(* of QBWorker, so this module implements WSpec.  A worker process is not  *)
(* part of the service's memory: it lives on when the service crashes.     *)
(***************************************************************************)
EXTENDS QBWorker, FiniteSets

CONSTANT MaxCrashes   \* how often the service process may crash (a bound)

ASSUME ServiceAssumption == MaxCrashes \in Nat

VARIABLES
  rn,       \* the task loop and the tick it is in
  svc,      \* the service process
  stop,     \* SvcStop has been called in this life of the service
  alerts,   \* per run: the alarms raised about it (Sentry, and events on MyFuel)
  synced,   \* runs whose "last sync" was recorded on MyFuel
  ended,    \* runs whose _run_worker returned
  crashes   \* crashes so far

serviceVars == <<rn, svc, stop, alerts, synced, ended, crashes>>
vars == <<workerVars, serviceVars>>

\* Where the loop is: between ticks, posting session/start, starting the
\* process, at the head of the wait loop, in its body, in join after
\* terminate, collecting the messages, ending the session of a killed worker,
\* waiting for QuickBooks to exit.
RunnerPCs == {"sleep", "start", "spawn", "alive", "body", "deadline",
              "killWait", "collect", "endKilled", "verify"}

Alerts == {"QBWorkerTimeout", "failed", "QBCloseVerifyFailed"}

RunnerState ==
  [pc : RunnerPCs, run : Runs \cup {NoRun}, killed : BOOLEAN, stopSent : BOOLEAN,
   hardDue : BOOLEAN, graceDue : BOOLEAN, closeDue : BOOLEAN]

ServiceTypeOK ==
  /\ rn \in RunnerState
  /\ rn.pc \notin {"sleep", "start"} => rn.run \in Runs
  /\ svc \in {"up", "stopped", "crashed"}
  /\ stop \in BOOLEAN
  /\ alerts \in [Runs -> SUBSET Alerts]
  /\ synced \subseteq ended
  /\ ended \subseteq issued
  /\ crashes \in 0 .. MaxCrashes

Asleep ==
  [pc |-> "sleep", run |-> NoRun, killed |-> FALSE, stopSent |-> FALSE,
   hardDue |-> FALSE, graceDue |-> FALSE, closeDue |-> FALSE]

SInit ==
  /\ WInit
  /\ rn = Asleep
  /\ svc = "up"
  /\ stop = FALSE
  /\ alerts = [r \in Runs |-> {}]
  /\ synced = {}
  /\ ended = {}
  /\ crashes = 0

RunnerAt(p) == svc = "up" /\ rn.pc = p

RunnerGoto(p) == rn' = [rn EXCEPT !.pc = p]

Raise(a) == alerts' = [alerts EXCEPT ![rn.run] = @ \cup a]

-----------------------------------------------------------------------------
(* The task loop and the start of a tick                                   *)

\* The loop's stop check; a tick begins.
TickStart ==
  /\ RunnerAt("sleep")
  /\ ~stop
  /\ RunnerGoto("start")
  /\ UNCHANGED <<workerVars, svc, stop, alerts, synced, ended, crashes>>

\* The loop ends, and with it the service.
LoopExit ==
  /\ RunnerAt("sleep")
  /\ stop
  /\ svc' = "stopped"
  /\ UNCHANGED <<workerVars, rn, stop, alerts, synced, ended, crashes>>

\* Mutation of PostStart: run: false is not looked at.
PostStart_RunFalseRuns ==
  /\ RunnerAt("start")
  /\ \/ \E r \in Runs : StartSession(r) /\ rn' = [rn EXCEPT !.pc = "spawn", !.run = r]
     \/ UNCHANGED workerVars /\ RunnerGoto("spawn")
  /\ UNCHANGED <<svc, stop, alerts, synced, ended, crashes>>

\* POST session/start: nothing to do, a ticket, or an exception - after which
\* MyFuel may have opened a session whose ticket never arrived.  The exception
\* ends the tick, not the loop.
PostStart ==
  /\ RunnerAt("start")
  /\ \/ \E r \in Runs : StartSession(r) /\ rn' = [rn EXCEPT !.pc = "spawn", !.run = r]
     \/ (\E r \in Runs : StartSession(r)) /\ rn' = Asleep
     \/ UNCHANGED workerVars /\ rn' = Asleep
  /\ UNCHANGED <<svc, stop, alerts, synced, ended, crashes>>

\* worker.start(), which may raise.  Left out is a session/start answer whose fields
\* cannot be read (runner.py:107, 109): the tick then ends with the worker started,
\* but the worker reads the same fields before it opens QuickBooks.
SpawnWorker ==
  /\ RunnerAt("spawn")
  /\ \/ Spawn(rn.run) /\ RunnerGoto("alive")
     \/ UNCHANGED workerVars /\ rn' = Asleep
  /\ UNCHANGED <<svc, stop, alerts, synced, ended, crashes>>

-----------------------------------------------------------------------------
(* Waiting for the worker                                                  *)

\* The process object is gone: is_alive() is false and join returns at once.
Gone(r) == w[r].pc \in {"exited", "dead"}

\* The head of the wait loop, and the join(1.0) that follows.
WaitWorker ==
  /\ RunnerAt("alive")
  /\ RunnerGoto(IF Gone(rn.run) THEN "collect" ELSE "body")
  /\ UNCHANGED <<workerVars, svc, stop, alerts, synced, ended, crashes>>

\* The stop event of the service is passed on to the worker, once.
PassOnStop ==
  /\ RunnerAt("body")
  /\ IF stop /\ ~rn.stopSent
     THEN SetStop(rn.run) /\ rn' = [rn EXCEPT !.pc = "deadline", !.stopSent = TRUE]
     ELSE UNCHANGED workerVars /\ RunnerGoto("deadline")
  /\ UNCHANGED <<svc, stop, alerts, synced, ended, crashes>>

\* Mutation of CheckDeadlines: a worker past its deadline is left alone.
CheckDeadlines_NoTerminate ==
  /\ RunnerAt("deadline")
  /\ IF rn.hardDue \/ rn.graceDue
     THEN rn' = [rn EXCEPT !.pc = "killWait", !.killed = TRUE]
     ELSE RunnerGoto("alive")
  /\ UNCHANGED <<workerVars, svc, stop, alerts, synced, ended, crashes>>

\* Mutation of CheckDeadlines: the grace period of a stop is forgotten, and
\* the hard deadline too.
CheckDeadlines_Never ==
  /\ RunnerAt("deadline")
  /\ RunnerGoto("alive")
  /\ UNCHANGED <<workerVars, svc, stop, alerts, synced, ended, crashes>>

\* The deadlines; terminate() does nothing to a process that has exited since
\* the head of the loop, but the run counts as killed all the same.
CheckDeadlines ==
  /\ RunnerAt("deadline")
  /\ IF rn.hardDue \/ rn.graceDue
     THEN /\ rn' = [rn EXCEPT !.pc = "killWait", !.killed = TRUE]
          /\ IF Gone(rn.run) THEN UNCHANGED workerVars ELSE Terminate(rn.run)
     ELSE RunnerGoto("alive") /\ UNCHANGED workerVars
  /\ UNCHANGED <<svc, stop, alerts, synced, ended, crashes>>

\* join(10.0): the process is gone, or ten seconds are over.
KillWait ==
  /\ RunnerAt("killWait")
  /\ RunnerGoto("collect")
  /\ UNCHANGED <<workerVars, svc, stop, alerts, synced, ended, crashes>>

-----------------------------------------------------------------------------
(* After the worker                                                        *)

\* What the drained messages say of the run.  The pipe only grows while the
\* worker runs code, so the last drain holds what the earlier ones held.
RunOutcome ==
  IF "result" \in w[rn.run].pipe THEN w[rn.run].outcome
  ELSE IF rn.killed THEN "killed" ELSE "no_result"

FailedOutcomes == {"attach_refused", "com_error", "error", "no_result"}

\* Mutation of Collect: a worker that left no result raises no alarm.
Collect_NoResultIsFine ==
  /\ RunnerAt("collect")
  /\ \/ /\ rn.killed
        /\ Raise({"QBWorkerTimeout"})
        /\ RunnerGoto("endKilled")
     \/ /\ ~rn.killed
        /\ Raise(IF RunOutcome \in FailedOutcomes \ {"no_result"} THEN {"failed"} ELSE {})
        /\ RunnerGoto("verify")
  /\ UNCHANGED <<workerVars, svc, stop, synced, ended, crashes>>

Collect ==
  /\ RunnerAt("collect")
  /\ \/ /\ rn.killed
        /\ Raise({"QBWorkerTimeout"})
        /\ RunnerGoto("endKilled")
     \/ /\ ~rn.killed
        /\ Raise(IF RunOutcome \in FailedOutcomes THEN {"failed"} ELSE {})
        /\ RunnerGoto("verify")
  /\ UNCHANGED <<workerVars, svc, stop, synced, ended, crashes>>

EndKilled ==
  /\ RunnerAt("endKilled")
  /\ EndByParent(rn.run)
  /\ RunnerGoto("verify")
  /\ UNCHANGED <<svc, stop, alerts, synced, ended, crashes>>

\* Mutation of Finish: every run that did not fail is recorded.
Finish_RecordsEveryCleanRun ==
  /\ rn' = Asleep
  /\ ended' = ended \cup {rn.run}
  /\ \/ synced' = synced
     \/ RunOutcome \notin FailedOutcomes /\ synced' = synced \cup {rn.run}

\* _run_worker returns; a run that is done is recorded, if the POST gets through.
Finish ==
  /\ rn' = Asleep
  /\ ended' = ended \cup {rn.run}
  /\ \/ synced' = synced
     \/ RunOutcome = "done" /\ synced' = synced \cup {rn.run}

\* Nothing to wait for: the worker never reported a QuickBooks process, or that
\* process has exited.
VerifyExited ==
  /\ RunnerAt("verify")
  /\ "qb_process" \in w[rn.run].pipe => w[rn.run].ident \notin own
  /\ Finish
  /\ UNCHANGED <<workerVars, svc, stop, alerts, crashes>>

\* SYNC_QB_CloseWaitSecs are over and the process still runs, or Windows denies
\* access to it (is_running then says TRUE).
VerifyFailed ==
  /\ RunnerAt("verify")
  /\ "qb_process" \in w[rn.run].pipe
  /\ rn.closeDue
  /\ Raise({"QBCloseVerifyFailed"})
  /\ Finish
  /\ UNCHANGED <<workerVars, svc, stop, crashes>>

-----------------------------------------------------------------------------
(* Time, the Service Control Manager, crashes                              *)

\* SYNC_QB_MaxSessionMins + WORKER_TIMEOUT_GRACE_SECONDS are over.  The worker's
\* own deadline counts from its own start, so it need not be over before.
HardDue ==
  /\ svc = "up"
  /\ rn.pc \in {"alive", "body", "deadline"}
  /\ ~rn.hardDue
  /\ rn' = [rn EXCEPT !.hardDue = TRUE]
  /\ UNCHANGED <<workerVars, svc, stop, alerts, synced, ended, crashes>>

\* STOP_GRACE_SECONDS since the worker was asked to stop are over.
GraceDue ==
  /\ svc = "up"
  /\ rn.pc \in {"alive", "body", "deadline"}
  /\ rn.stopSent /\ ~rn.graceDue
  /\ rn' = [rn EXCEPT !.graceDue = TRUE]
  /\ UNCHANGED <<workerVars, svc, stop, alerts, synced, ended, crashes>>

CloseDue ==
  /\ RunnerAt("verify")
  /\ ~rn.closeDue
  /\ rn' = [rn EXCEPT !.closeDue = TRUE]
  /\ UNCHANGED <<workerVars, svc, stop, alerts, synced, ended, crashes>>

SvcStop ==
  /\ svc = "up"
  /\ ~stop
  /\ stop' = TRUE
  /\ UNCHANGED <<workerVars, rn, svc, alerts, synced, ended, crashes>>

\* The service process dies: its memory is gone, its worker is not.
Crash ==
  /\ svc = "up"
  /\ crashes < MaxCrashes
  /\ svc' = "crashed"
  /\ rn' = Asleep
  /\ crashes' = crashes + 1
  /\ UNCHANGED <<workerVars, stop, alerts, synced, ended>>

\* Windows recovery restarts a crashed service; an operator a stopped one.
StartService ==
  /\ svc \in {"stopped", "crashed"}
  /\ svc' = "up"
  /\ rn' = Asleep
  /\ stop' = FALSE
  /\ UNCHANGED <<workerVars, alerts, synced, ended, crashes>>

-----------------------------------------------------------------------------

RunnerStep ==
  \/ TickStart \/ LoopExit \/ PostStart \/ SpawnWorker \/ WaitWorker \/ PassOnStop
  \/ CheckDeadlines \/ KillWait \/ Collect \/ EndKilled \/ VerifyExited \/ VerifyFailed

TimePasses == HardDue \/ GraceDue \/ CloseDue

ServiceStep == RunnerStep \/ TimePasses \/ SvcStop \/ Crash \/ StartService

OutsideStep ==
  /\ (\E r \in Runs : WorkerStep(r)) \/ Surroundings
  /\ UNCHANGED serviceVars

SNext == ServiceStep \/ OutsideStep

SSpec == SInit /\ [][SNext]_vars

\* What the code's scheduling and its timeouts justify: the event loop runs the
\* tick on (every HTTP call has a timeout), clocks advance, Windows reaps a
\* terminated process and restarts a crashed service.  Nothing is assumed of
\* QuickBooks: a COM call may hang, and an instance may never exit.
Fairness ==
  /\ WF_vars(RunnerStep)
  /\ WF_vars(TimePasses)
  /\ WF_vars(svc = "crashed" /\ StartService)
  /\ \A r \in Runs : WF_vars(OutsideStep /\ Die(r))

FairSSpec == SSpec /\ Fairness

-----------------------------------------------------------------------------
(* Properties.  A crash of the service leaves its worker behind: those     *)
(* that speak of the service as a whole count its crashes.                 *)

\* Two workers never run code at the same time: the next tick begins only when
\* the worker of this one has exited or been terminated (runner.py:114-130).
\* Two of them would drive the same company file and lose each other's answers.
\* Only a crash leaves a worker running, and each crash one at most.
OneWorkerAtATime ==
  Cardinality({r \in Runs : w[r].pc \in Executing}) <= crashes + 1

\* "Last sync" is recorded (runner.py:71-72) only for a run MyFuel called done,
\* with every answer delivered and QuickBooks closed - also when the message
\* came from a worker that was being terminated.
SyncedMeansComplete ==
  \A r \in synced : /\ sess[r].saidDone
                    /\ sess[r].accepted = link[r].executed
                    /\ link[r].com = "none"

\* A run nobody was alarmed about (runner.py:136-150) left nothing behind: it
\* is disconnected, ended as planned, and its session is not the current one on
\* MyFuel unless ending it failed.  The QuickBooks it used has exited, unless a
\* worker left behind by a crash, or another user, had to do with it too.
QuietRunIsClean ==
  \A r \in ended : alerts[r] = {} =>
    /\ link[r].com = "none"
    /\ w[r].outcome \in LimitOutcomes \cup {"done", "superseded"}
    /\ current = r => sess[r].endFailed
    /\ ~ForeignDespiteOwn /\ crashes = 0 => link[r].target \notin own

\* The service reports that it has stopped only when no worker runs, and with
\* QuickBooks closed unless the alarm of a terminated worker says otherwise
\* (service.py:3-5, runner.py:11-12); each crash may have left one behind.
StoppedMeansClosed ==
  svc = "stopped" =>
    Cardinality({r \in Runs :
                   \/ w[r].pc \in Executing
                   \/ link[r].com # "none" /\ "QBWorkerTimeout" \notin alerts[r]}) <= crashes

\* No run keeps QuickBooks connected for ever, whatever call hangs (README,
\* "Never left logged in", layers 2 and 3).
LoggedOut == \A r \in Runs : link[r].com # "none" ~> link[r].com = "none"

\* A service that is asked to stop stops, even while QuickBooks hangs
\* (runner.py:117-130, scheduler.py:43-51).
StopCompletes == stop ~> svc # "up"

\* What README.md:72 and tests/test_quickbooks.py:286 say of the alarm: a worker
\* is reported as terminated only if it was, not if it stopped by itself.
TimeoutMeansTerminated ==
  \A r \in Runs : "QBWorkerTimeout" \in alerts[r] => w[r].pc # "exited"

\* What README.md:74-75 and runner.py:14-15 say of the wait: if the QuickBooks a
\* run launched keeps running after the run, QBCloseVerifyFailed is raised.
LaunchedIsVerified ==
  \A r \in Runs :
    <>[](r \in ended /\ link[r].target \in own \ w[r].before)
      => <>("QBCloseVerifyFailed" \in alerts[r])

=============================================================================
