-------------------------- MODULE QBServiceProofs --------------------------
(***************************************************************************)
(* Theorems about QBService, for any number of runs, QuickBooks processes, *)
(* requests and crashes.  The service does to its workers only what        *)
(* QBWorker allows, so the theorems about workers hold of it; the others   *)
(* need what the runner knows of the worker it waits for.                  *)
(***************************************************************************)
EXTENDS QBService, QBWorkerRefinement, FiniteSetTheorems

(***************************************************************************)
(* The inductive invariant of the service.                                 *)
(***************************************************************************)

\* A tick has a ticket MyFuel handed out, and there is no tick outside of a life.
TickKnown ==
  /\ rn.pc \notin {"sleep", "start"} => rn.run \in issued
  /\ svc # "up" => rn.pc = "sleep"

\* The wait loop is the only place of the runner where its worker may run code.
Watched(r) == rn.run = r /\ rn.pc \in {"alive", "body", "deadline"}

Unwatched == {r \in Runs : w[r].pc \in Executing /\ ~Watched(r)}

\* A worker that was terminated is being reported, or has been.
BeingReported(r) ==
  \/ rn.run = r /\ rn.killed /\ rn.pc \in {"killWait", "collect"}
  \/ "QBWorkerTimeout" \in alerts[r]

Unreported == {r \in Runs : w[r].pc = "dying" /\ ~BeingReported(r)}

\* Only a crash leaves a worker behind, and it leaves the one of its tick.
LeftBehind == Unwatched \cup Unreported

FewLeft == IsFiniteSet(LeftBehind) /\ Cardinality(LeftBehind) <= crashes

\* A result is put after QuickBooks was closed, and nothing is done after it.
Over(r) == w[r].pc \in {"exiting", "exited", "dying", "dead"} /\ link[r].com = "none"

ResultMeansOver ==
  \A r \in Runs : "result" \in w[r].outbox \cup w[r].pipe => Over(r)

SyncedOver ==
  \A r \in synced : Over(r) /\ sess[r].saidDone /\ sess[r].accepted = link[r].executed

SInv ==
  /\ IInv /\ ServiceTypeOK /\ TickKnown /\ FewLeft /\ ResultMeansOver /\ SyncedOver

LEMMA AsleepType == Asleep \in RunnerState /\ Asleep.pc = "sleep"
BY DEF Asleep, RunnerState, RunnerPCs

LEMMA RunnerGotoType ==
  ASSUME rn \in RunnerState, NEW p \in RunnerPCs, RunnerGoto(p)
  PROVE  rn' \in RunnerState /\ rn'.pc = p /\ rn'.run = rn.run /\ rn'.killed = rn.killed
BY DEF RunnerGoto, RunnerState

LEMMA RaiseType ==
  ASSUME alerts \in [Runs -> SUBSET Alerts], rn.run \in Runs, NEW a \in SUBSET Alerts, Raise(a)
  PROVE  /\ alerts' \in [Runs -> SUBSET Alerts]
         /\ \A r \in Runs : alerts[r] \subseteq alerts'[r]
         /\ a \subseteq alerts'[rn.run]
BY DEF Raise

LEMMA InitSInv == SInit => SInv
<1>1. SUFFICES ASSUME SInit PROVE SInv
  OBVIOUS
<1>2. IInv
  BY <1>1, InitIInv DEF SInit
<1>3. ServiceTypeOK /\ TickKnown
  <2>1. rn \in RunnerState /\ rn.pc = "sleep"
    BY <1>1, AsleepType DEF SInit
  <2>2. alerts \in [Runs -> SUBSET Alerts]
    BY <1>1 DEF SInit
  <2>3. crashes \in 0 .. MaxCrashes
    BY <1>1, ServiceAssumption DEF SInit
  <2>4. QED
    BY <1>1, <2>1, <2>2, <2>3 DEF SInit, ServiceTypeOK, TickKnown
<1>4. ResultMeansOver /\ SyncedOver
  BY <1>1 DEF SInit, WInit, NewWorker, ResultMeansOver, SyncedOver
<1>5. FewLeft
  <2>1. LeftBehind = {}
    BY <1>1 DEF SInit, WInit, NewWorker, LeftBehind, Unwatched, Unreported, Executing, Opening,
       Relaying, Closing, Finishing
  <2>2. crashes = 0
    BY <1>1 DEF SInit
  <2>3. QED
    BY <2>1, <2>2, FS_EmptySet DEF FewLeft
<1>6. QED
  BY <1>2, <1>3, <1>4, <1>5 DEF SInv

-----------------------------------------------------------------------------
(* The service implements the specification of its workers                 *)

LEMMA StepIsWorkerStep ==
  ASSUME SNext, ServiceTypeOK PROVE [WNext]_workerVars
<1>1. CASE UNCHANGED workerVars
  BY <1>1
<1>2. CASE OutsideStep
  BY <1>2 DEF OutsideStep, WNext
<1>3. CASE PostStart
  BY <1>3 DEF PostStart, WNext, ParentStep
<1>4. CASE SpawnWorker \/ PassOnStop \/ CheckDeadlines \/ EndKilled
  <2>1. rn.run \in Runs
    BY <1>4 DEF ServiceTypeOK, SpawnWorker, PassOnStop, CheckDeadlines, EndKilled, RunnerAt
  <2>2. QED
    BY <1>4, <2>1 DEF SpawnWorker, PassOnStop, CheckDeadlines, EndKilled, WNext, ParentStep
<1>5. CASE \/ TickStart \/ LoopExit \/ WaitWorker \/ KillWait \/ Collect \/ VerifyExited
           \/ VerifyFailed \/ TimePasses \/ SvcStop \/ Crash \/ StartService
  BY <1>5 DEF TickStart, LoopExit, WaitWorker, KillWait, Collect, VerifyExited, VerifyFailed,
     TimePasses, HardDue, GraceDue, CloseDue, SvcStop, Crash, StartService
<1>6. QED
  BY <1>1, <1>2, <1>3, <1>4, <1>5 DEF SNext, ServiceStep, RunnerStep

-----------------------------------------------------------------------------
(* The runner's own variables                                              *)

\* Only these steps touch the service's variables, and none touches a worker's
\* process, but for the start, the stop and the end of the worker waited for.

LEMMA ServiceTypeStep ==
  ASSUME SInv, SNext PROVE ServiceTypeOK' /\ TickKnown'
<1>0. /\ rn \in RunnerState /\ svc \in {"up", "stopped", "crashed"} /\ stop \in BOOLEAN
      /\ alerts \in [Runs -> SUBSET Alerts] /\ crashes \in 0 .. MaxCrashes
      /\ synced \subseteq ended /\ ended \subseteq issued /\ issued \subseteq Runs
      /\ rn.pc \notin {"sleep", "start"} => rn.run \in issued /\ rn.run \in Runs
      /\ svc # "up" => rn.pc = "sleep"
  BY DEF SInv, ServiceTypeOK, TickKnown, IInv, TypeOK
<1> USE <1>0 DEF ServiceTypeOK, TickKnown
<1>1. CASE TickStart
  BY <1>1, RunnerGotoType DEF TickStart, RunnerAt, RunnerPCs, workerVars
<1>2. CASE LoopExit
  BY <1>2 DEF LoopExit, RunnerAt, workerVars
<1>3. CASE PostStart
  <2>1. /\ issued \subseteq issued' /\ issued' \subseteq Runs
        /\ UNCHANGED <<svc, stop, alerts, synced, ended, crashes>> /\ svc = "up"
    BY <1>3 DEF PostStart, RunnerAt, StartSession, workerVars
  <2>2. CASE rn' = Asleep
    BY <2>1, <2>2, AsleepType
  <2>3. ASSUME NEW r \in Runs, StartSession(r), rn' = [rn EXCEPT !.pc = "spawn", !.run = r]
        PROVE  ServiceTypeOK' /\ TickKnown'
    <3>1. rn' \in RunnerState /\ rn'.pc = "spawn" /\ rn'.run = r
      BY <2>3 DEF RunnerState, RunnerPCs
    <3>2. r \in issued'
      BY <2>3 DEF StartSession
    <3>3. QED
      BY <2>1, <3>1, <3>2
  <2>4. QED
    BY <1>3, <2>2, <2>3 DEF PostStart
<1>4. CASE SpawnWorker
  BY <1>4, RunnerGotoType, AsleepType DEF SpawnWorker, RunnerAt, Spawn, RunnerPCs, workerVars
<1>5. CASE WaitWorker \/ KillWait
  BY <1>5, RunnerGotoType DEF WaitWorker, KillWait, RunnerAt, RunnerPCs, workerVars
<1>6. CASE PassOnStop
  <2>1. rn' \in RunnerState /\ rn'.pc = "deadline" /\ rn'.run = rn.run
    BY <1>6 DEF PassOnStop, RunnerGoto, RunnerState, RunnerPCs
  <2>2. QED
    BY <1>6, <2>1 DEF PassOnStop, RunnerAt, SetStop, workerVars
<1>7. CASE CheckDeadlines
  <2>1. rn' \in RunnerState /\ rn'.pc \in {"killWait", "alive"} /\ rn'.run = rn.run
    BY <1>7 DEF CheckDeadlines, RunnerGoto, RunnerState, RunnerPCs
  <2>2. QED
    BY <1>7, <2>1 DEF CheckDeadlines, RunnerAt, Terminate, workerVars
<1>8. CASE Collect
  <2>1. rn' \in RunnerState /\ rn'.pc \in {"endKilled", "verify"} /\ rn'.run = rn.run
    BY <1>8, RunnerGotoType DEF Collect, RunnerPCs
  <2>2. alerts' \in [Runs -> SUBSET Alerts]
    BY <1>8, RaiseType DEF Collect, RunnerAt, Alerts
  <2>3. QED
    BY <1>8, <2>1, <2>2 DEF Collect, RunnerAt, workerVars
<1>9. CASE EndKilled
  BY <1>9, RunnerGotoType DEF EndKilled, EndByParent, RunnerAt, RunnerPCs
<1>10. CASE VerifyExited \/ VerifyFailed
  <2>1. rn' \in RunnerState /\ rn'.pc = "sleep" /\ rn.run \in issued /\ svc = "up"
    BY <1>10, AsleepType DEF VerifyExited, VerifyFailed, Finish, RunnerAt
  <2>2. alerts' \in [Runs -> SUBSET Alerts]
    BY <1>10, RaiseType DEF VerifyExited, VerifyFailed, RunnerAt, Alerts
  <2>3. synced' \subseteq ended' /\ ended' = ended \cup {rn.run}
    BY <1>10 DEF VerifyExited, VerifyFailed, Finish
  <2>4. QED
    BY <1>10, <2>1, <2>2, <2>3 DEF VerifyExited, VerifyFailed, workerVars
<1>11. CASE TimePasses
  <2>1. rn' \in RunnerState /\ rn'.pc = rn.pc /\ rn'.run = rn.run
    BY <1>11 DEF TimePasses, HardDue, GraceDue, CloseDue, RunnerState
  <2>2. QED
    BY <1>11, <2>1 DEF TimePasses, HardDue, GraceDue, CloseDue, workerVars
<1>12. CASE SvcStop \/ StartService
  BY <1>12, AsleepType DEF SvcStop, StartService, workerVars
<1>13. CASE Crash
  <2>1. crashes' \in 0 .. MaxCrashes
    BY <1>13, ServiceAssumption DEF Crash
  <2>2. QED
    BY <1>13, <2>1, AsleepType DEF Crash, workerVars
<1>14. CASE OutsideStep
  <2>1. UNCHANGED serviceVars
    BY <1>14 DEF OutsideStep
  <2>2. issued' = issued
    BY <1>14 DEF OutsideStep, WorkerStep, Surroundings, ComStep, LocalStep, CreateProcessor,
       OpenConnection, BeginSession, BeginSessionReturns, ProcessRequest, EndSession,
       CloseConnection, Release, FindBefore, IdentifyOwn, LoopTop, PostNext, PostResponse,
       ReportError, PostEnd, PutResult, Flush, Exit, Expire, Die, WorkerCrash, EndedElsewhere, QBExit
  <2>3. QED
    BY <2>1, <2>2 DEF serviceVars
<1>15. QED
  BY <1>1, <1>2, <1>3, <1>4, <1>5, <1>6, <1>7, <1>8, <1>9, <1>10, <1>11, <1>12, <1>13, <1>14
  DEF SNext, ServiceStep, RunnerStep

-----------------------------------------------------------------------------
(* What a worker's step does to its own run                                *)

\* Nothing is put but a qb_process, and the end of the run is not reached.
Unfinished(q) ==
  /\ w[q].pc \in Executing \ {"exiting"} /\ w'[q].pc \in Executing \ {"exiting"}
  /\ w'[q].outbox \subseteq w[q].outbox \cup {"qb_process"} /\ w'[q].pipe = w[q].pipe

LEMMA LeaveUnfinished ==
  ASSUME TypeOK, NEW q \in Runs, NEW out, Leave(q, out), w[q].pc \in Executing \ {"exiting"}
  PROVE  Unfinished(q)
<1>1. w \in [Runs -> WorkerState]
  BY DEF TypeOK
<1>2. /\ w'[q].pc \in {"report", "endSession"}
      /\ w'[q].outbox = w[q].outbox /\ w'[q].pipe = w[q].pipe
  BY <1>1 DEF Leave, Become, WorkerState
<1>3. QED
  BY <1>2 DEF Unfinished, Executing, Closing

LEMMA GotoUnfinished ==
  ASSUME TypeOK, NEW q \in Runs, NEW p \in Executing \ {"exiting"}, Goto(q, p),
         w[q].pc \in Executing \ {"exiting"}
  PROVE  Unfinished(q)
<1>1. w \in [Runs -> WorkerState]
  BY DEF TypeOK
<1>2. w'[q].pc = p /\ w'[q].outbox = w[q].outbox /\ w'[q].pipe = w[q].pipe
  BY <1>1 DEF Goto, Become, WorkerState
<1>3. QED
  BY <1>2 DEF Unfinished

LEMMA ComStepUnfinished ==
  ASSUME TypeOK, NEW q \in Runs, ComStep(q) PROVE Unfinished(q)
<1>0. w \in [Runs -> WorkerState]
  BY DEF TypeOK
<1>1. w[q].pc \in Executing \ {"exiting"}
  BY DEF ComStep, CreateProcessor, OpenConnection, BeginSession, BeginSessionReturns,
     ProcessRequest, EndSession, CloseConnection, Release, At, Executing, Opening, Relaying, Closing
<1>2. CASE ComRaises(q)
  BY <1>1, <1>2, LeaveUnfinished DEF ComRaises
<1>3. CASE CreateProcessor(q) /\ ~ComRaises(q)
  <2> DEFINE x == [w[q] EXCEPT !.stage = "rp", !.pc = "open"]
  <2>1. w' = [w EXCEPT ![q] = x]
    BY <1>3 DEF CreateProcessor, Become
  <2>2. x.pc = "open" /\ x.outbox = w[q].outbox /\ x.pipe = w[q].pipe
    BY <1>0 DEF WorkerState
  <2> HIDE DEF x
  <2>3. QED
    BY <1>0, <1>1, <2>1, <2>2 DEF Unfinished, Executing, Opening
<1>4. CASE OpenConnection(q) /\ ~ComRaises(q)
  <2> DEFINE x == [w[q] EXCEPT !.stage = "connection", !.pc = "begin"]
  <2>1. w' = [w EXCEPT ![q] = x]
    BY <1>4 DEF OpenConnection, Become
  <2>2. x.pc = "begin" /\ x.outbox = w[q].outbox /\ x.pipe = w[q].pipe
    BY <1>0 DEF WorkerState
  <2> HIDE DEF x
  <2>3. QED
    BY <1>0, <1>1, <2>1, <2>2 DEF Unfinished, Executing, Opening
<1>5. CASE BeginSession(q)
  BY <1>1, <1>5, GotoUnfinished DEF BeginSession, Executing, Opening
<1>6. CASE BeginSessionReturns(q) /\ ~ComRaises(q)
  <2> DEFINE x == [w[q] EXCEPT !.stage = "session", !.pc = "identify"]
  <2>1. w' = [w EXCEPT ![q] = x]
    BY <1>6 DEF BeginSessionReturns, Become
  <2>2. x.pc = "identify" /\ x.outbox = w[q].outbox /\ x.pipe = w[q].pipe
    BY <1>0 DEF WorkerState
  <2> HIDE DEF x
  <2>3. QED
    BY <1>0, <1>1, <2>1, <2>2 DEF Unfinished, Executing, Relaying
<1>7. CASE ProcessRequest(q) /\ ~ComRaises(q)
  <2> DEFINE n == w[q].requests + 1
             x == [w[q] EXCEPT !.requests = n, !.pc = "response"]
  <2>1. w' = [w EXCEPT ![q] = x]
    BY <1>7 DEF ProcessRequest, Become
  <2> HIDE DEF n
  <2>2. x.pc = "response" /\ x.outbox = w[q].outbox /\ x.pipe = w[q].pipe
    BY <1>0 DEF WorkerState
  <2> HIDE DEF x
  <2>3. QED
    BY <1>0, <1>1, <2>1, <2>2 DEF Unfinished, Executing, Relaying
<1>8. CASE EndSession(q) \/ CloseConnection(q) \/ Release(q)
  BY <1>1, <1>8, GotoUnfinished DEF EndSession, CloseConnection, Release, Executing, Closing, Finishing
<1>9. QED
  BY <1>2, <1>3, <1>4, <1>5, <1>6, <1>7, <1>8 DEF ComStep

LEMMA LocalStepUnfinished ==
  ASSUME TypeOK, NEW q \in Runs, LocalStep(q)
  PROVE  Unfinished(q) \/ PutResult(q) \/ Flush(q) \/ Exit(q)
<1>0. w \in [Runs -> WorkerState]
  BY DEF TypeOK
<1>1. CASE FindBefore(q)
  <2>1. w[q].pc \in Executing \ {"exiting"}
    BY <1>1 DEF FindBefore, At, Executing, Opening
  <2>2. CASE Leave(q, "error")
    BY <2>1, <2>2, LeaveUnfinished
  <2>3. CASE Become(q, [w[q] EXCEPT !.before = own, !.pc = "create"])
    BY <1>0, <2>1, <2>3 DEF Become, Unfinished, WorkerState, Executing, Opening
  <2>4. QED
    BY <1>1, <2>2, <2>3 DEF FindBefore
<1>2. CASE IdentifyOwn(q)
  <2> DEFINE p == identify_own_instance(w[q].before, own)
             o == w[q].outbox \cup {"qb_process"}
             x == [w[q] EXCEPT !.ident = p, !.pc = "loop", !.outbox = o]
  <2>1. w[q].pc \in Executing \ {"exiting"}
    BY <1>2 DEF IdentifyOwn, At, Executing, Relaying
  <2>2. ASSUME NEW out, Leave(q, out) PROVE Unfinished(q)
    BY <2>1, <2>2, LeaveUnfinished
  <2>3. CASE w' = [w EXCEPT ![q] = x]
    <3> HIDE DEF p, o
    <3>1. x.pc = "loop" /\ x.outbox = o /\ x.pipe = w[q].pipe
      BY <1>0 DEF WorkerState
    <3> HIDE DEF x
    <3>2. w'[q] = x
      BY <1>0, <2>3
    <3>3. QED
      BY <2>1, <3>1, <3>2 DEF Unfinished, Executing, Relaying, o
  <2>4. QED
    BY <1>2, <2>2, <2>3 DEF IdentifyOwn, Become
<1>3. CASE LoopTop(q)
  <2>1. w[q].pc \in Executing \ {"exiting"}
    BY <1>3 DEF LoopTop, At, Executing, Relaying
  <2>2. QED
    BY <1>3, <2>1, LeaveUnfinished, GotoUnfinished DEF LoopTop, Executing, Relaying
<1>4. CASE PostNext(q)
  <2>1. w[q].pc \in Executing \ {"exiting"}
    BY <1>4 DEF PostNext, At, Executing, Relaying
  <2>2. QED
    BY <1>4, <2>1, LeaveUnfinished, GotoUnfinished DEF PostNext, Executing, Relaying
<1>5. CASE PostResponse(q)
  <2>1. w[q].pc \in Executing \ {"exiting"}
    BY <1>5 DEF PostResponse, At, Executing, Relaying
  <2>2. QED
    BY <1>5, <2>1, LeaveUnfinished, GotoUnfinished DEF PostResponse, Executing, Relaying
<1>6. CASE ReportError(q)
  <2>1. w[q].pc \in Executing \ {"exiting"}
    BY <1>6 DEF ReportError, At, Executing, Closing
  <2>2. QED
    BY <1>0, <1>6, <2>1 DEF ReportError, Become, Unfinished, WorkerState, Executing, Closing
<1>7. CASE PostEnd(q)
  BY <1>7, GotoUnfinished DEF PostEnd, At, Executing, Finishing
<1>8. QED
  BY <1>1, <1>2, <1>3, <1>4, <1>5, <1>6, <1>7 DEF LocalStep

\* What MyFuel and QuickBooks have of a run.
Done(r) == <<link[r].executed, sess[r].accepted, sess[r].saidDone>>

LEMMA OwnRunStep ==
  ASSUME IInv, NEW q \in Runs, WorkerStep(q)
  PROVE  /\ w'[q].pc \in Executing => w[q].pc \in Executing
         /\ w'[q].pc # "dying"
         /\ "result" \in w'[q].outbox \cup w'[q].pipe
              => "result" \in w[q].outbox \cup w[q].pipe \/ Over(q)'
         /\ Over(q) => Over(q)' /\ Done(q)' = Done(q)
<1>0. /\ TypeOK /\ w \in [Runs -> WorkerState] /\ link \in [Runs -> LinkState]
      /\ Connection(w[q], link[q])
  BY Known DEF IInv
<1>1. CASE Unfinished(q)
  <2>1. \/ w[q].pc \notin {"exiting", "exited", "dying", "dead"}
    BY <1>1 DEF Unfinished, Executing, Opening, Relaying, Closing, Finishing
  <2>2. w'[q].pc # "dying"
    BY <1>1 DEF Unfinished, Executing, Opening, Relaying, Closing, Finishing
  <2>3. QED
    BY <1>1, <2>1, <2>2 DEF Unfinished, Over
<1>2. CASE PutResult(q)
  <2>1. w'[q].pc = "exiting" /\ w[q].pc = "putResult" /\ link' = link
    BY <1>0, <1>2 DEF PutResult, At, Become, WorkerState
  <2>2. link[q].com = "none"
    BY <1>0, <2>1 DEF Connection, Finishing
  <2>3. QED
    BY <2>1, <2>2 DEF Over, Executing, Finishing
<1>3. CASE Flush(q)
  <2> DEFINE a == w[q].pipe \cup w[q].outbox
             x == [w[q] EXCEPT !.pipe = a, !.outbox = {}]
  <2>1. w' = [w EXCEPT ![q] = x] /\ UNCHANGED <<link, sess>> /\ w[q].pc \in Executing
    BY <1>3 DEF Flush, Become
  <2> HIDE DEF a
  <2>2. x.pc = w[q].pc /\ x.outbox = {} /\ x.pipe = a
    BY <1>0 DEF WorkerState
  <2> HIDE DEF x
  <2>3. w'[q] = x
    BY <1>0, <2>1
  <2>4. w[q].pc # "dying"
    BY <2>1 DEF Executing, Opening, Relaying, Closing, Finishing
  <2>5. QED
    BY <2>1, <2>2, <2>3, <2>4 DEF Over, Done, a
<1>4. CASE Exit(q)
  <2>1. /\ w'[q].pc = "exited" /\ w[q].pc = "exiting" /\ UNCHANGED <<link, sess>>
        /\ w'[q].outbox = w[q].outbox /\ w'[q].pipe = w[q].pipe
    BY <1>0, <1>4 DEF Exit, Goto, At, Become, WorkerState
  <2>2. QED
    BY <2>1 DEF Over, Done, Executing, Finishing
<1>5. CASE Expire(q)
  <2>1. /\ w'[q].pc = w[q].pc /\ w[q].pc \in Executing /\ UNCHANGED <<link, sess>>
        /\ w'[q].outbox = w[q].outbox /\ w'[q].pipe = w[q].pipe
    BY <1>0, <1>5 DEF Expire, Become, WorkerState
  <2>2. w[q].pc # "dying"
    BY <2>1 DEF Executing, Opening, Relaying, Closing, Finishing
  <2>3. QED
    BY <2>1, <2>2 DEF Over, Done
<1>6. CASE Die(q) \/ WorkerCrash(q)
  <2>1. /\ w'[q].pc = "dead" /\ link'[q].com = "none" /\ link'[q].executed = link[q].executed
        /\ sess' = sess
    BY <1>0, <1>6 DEF Die, WorkerCrash, Goto, SetCom, Become, WorkerState, LinkState
  <2>2. "dead" \notin Executing
    BY DEF Executing, Opening, Relaying, Closing, Finishing
  <2>3. QED
    BY <2>1, <2>2 DEF Over, Done
<1>7. QED
  BY <1>0, <1>1, <1>2, <1>3, <1>4, <1>5, <1>6, ComStepUnfinished, LocalStepUnfinished DEF WorkerStep

-----------------------------------------------------------------------------
(* What a step of the service does to a run                                *)

LEMMA ParentRunStep ==
  ASSUME IInv, NEW q \in Runs, Spawn(q) \/ SetStop(q) \/ Terminate(q) \/ EndByParent(q),
         NEW r \in Runs
  PROVE  /\ "result" \in w'[r].outbox \cup w'[r].pipe => "result" \in w[r].outbox \cup w[r].pipe
         /\ Over(r) => Over(r)' /\ Done(r)' = Done(r)
<1>0. /\ TypeOK /\ w \in [Runs -> WorkerState] /\ sess \in [Runs -> SessionState]
  BY DEF IInv, TypeOK
<1>1. CASE Spawn(q)
  <2>1. /\ w[q].pc = "idle" /\ w'[q].outbox = w[q].outbox /\ w'[q].pipe = w[q].pipe
        /\ UNCHANGED <<link, sess>> /\ (r # q => w'[r] = w[r])
    BY <1>0, <1>1 DEF Spawn, At, Goto, Become, WorkerState
  <2>2. QED
    BY <2>1 DEF Over, Done
<1>2. CASE SetStop(q)
  <2>1. /\ w'[q].pc = w[q].pc /\ w'[q].outbox = w[q].outbox /\ w'[q].pipe = w[q].pipe
        /\ UNCHANGED <<link, sess>> /\ (r # q => w'[r] = w[r])
    BY <1>0, <1>2 DEF SetStop, Become, WorkerState
  <2>2. QED
    BY <2>1 DEF Over, Done
<1>3. CASE Terminate(q)
  <2>1. /\ w'[q].pc = "dying" /\ w'[q].outbox = {} /\ w'[q].pipe = w[q].pipe
        /\ UNCHANGED <<link, sess>> /\ (r # q => w'[r] = w[r])
    BY <1>0, <1>3 DEF Terminate, Become, WorkerState
  <2>2. QED
    BY <2>1 DEF Over, Done
<1>4. CASE EndByParent(q)
  <2>1. /\ UNCHANGED <<w, link>>
        /\ sess'[r].accepted = sess[r].accepted /\ sess'[r].saidDone = sess[r].saidDone
    BY <1>0, <1>4 DEF EndByParent, EndOnMyFuel, SessionState
  <2>2. QED
    BY <2>1 DEF Over, Done
<1>5. QED
  BY <1>1, <1>2, <1>3, <1>4

\* The worker whose run a tick is about.
LEMMA RunOfTick == ASSUME SInv, rn.pc \notin {"sleep", "start"} PROVE rn.run \in Runs
BY DEF SInv, ServiceTypeOK

LEMMA RunStep ==
  ASSUME SInv, SNext, NEW r \in Runs
  PROVE  /\ "result" \in w'[r].outbox \cup w'[r].pipe
              => "result" \in w[r].outbox \cup w[r].pipe \/ Over(r)'
         /\ Over(r) => Over(r)' /\ Done(r)' = Done(r)
<1>0. IInv
  BY DEF SInv
<1>1. CASE UNCHANGED <<w, link, sess>>
  BY <1>1 DEF Over, Done
<1>2. ASSUME NEW q \in Runs, WorkerStep(q)
      PROVE  /\ "result" \in w'[r].outbox \cup w'[r].pipe
                  => "result" \in w[r].outbox \cup w[r].pipe \/ Over(r)'
             /\ Over(r) => Over(r)' /\ Done(r)' = Done(r)
  <2>1. CASE q = r
    BY <1>0, <1>2, <2>1, OwnRunStep
  <2>2. CASE q # r
    <3>1. w'[r] = w[r] /\ link'[r] = link[r] /\ sess'[r] = sess[r]
      BY <1>0, <1>2, <2>2, StepAlone DEF Alone, IInv
    <3>2. QED
      BY <3>1 DEF Over, Done
  <2>3. QED
    BY <2>1, <2>2
<1>3. CASE SpawnWorker \/ PassOnStop \/ CheckDeadlines \/ EndKilled
  <2>1. rn.run \in Runs
    BY <1>3, RunOfTick DEF SpawnWorker, PassOnStop, CheckDeadlines, EndKilled, RunnerAt
  <2>2. \/ UNCHANGED workerVars
        \/ Spawn(rn.run) \/ SetStop(rn.run) \/ Terminate(rn.run) \/ EndByParent(rn.run)
    BY <1>3 DEF SpawnWorker, PassOnStop, CheckDeadlines, EndKilled
  <2>3. QED
    BY <1>0, <1>1, <2>1, <2>2, ParentRunStep DEF workerVars
<1>4. CASE \/ TickStart \/ LoopExit \/ PostStart \/ WaitWorker \/ KillWait \/ Collect
           \/ VerifyExited \/ VerifyFailed \/ TimePasses \/ SvcStop \/ Crash \/ StartService
  <2>1. UNCHANGED <<w, link, sess>>
    BY <1>4 DEF TickStart, LoopExit, PostStart, StartSession, WaitWorker, KillWait, Collect,
       VerifyExited, VerifyFailed, TimePasses, HardDue, GraceDue, CloseDue, SvcStop, Crash,
       StartService, workerVars
  <2>2. QED
    BY <1>1, <2>1
<1>5. CASE Surroundings
  BY <1>1, <1>5 DEF Surroundings, EndedElsewhere, QBExit
<1>6. QED
  BY <1>2, <1>3, <1>4, <1>5 DEF SNext, ServiceStep, RunnerStep, OutsideStep

LEMMA ResultStep == ASSUME SInv, SNext PROVE ResultMeansOver'
BY RunStep DEF SInv, ResultMeansOver

\* A run that is recorded delivered a result, which says that it is done.
LEMMA RecordedIsOver ==
  ASSUME SInv, rn.pc = "verify", RunOutcome = "done"
  PROVE  LET r == rn.run IN Over(r) /\ sess[r].saidDone /\ sess[r].accepted = link[r].executed
<1>1. rn.run \in Runs
  BY RunOfTick
<1>2. "result" \in w[rn.run].pipe /\ w[rn.run].outcome = "done"
  BY DEF RunOutcome
<1>3. Over(rn.run)
  BY <1>1, <1>2 DEF SInv, ResultMeansOver
<1>4. DoneComplete(w[rn.run], link[rn.run], sess[rn.run])
  BY <1>1 DEF SInv, IInv, RunInv
<1>5. QED
  BY <1>2, <1>3, <1>4 DEF DoneComplete

LEMMA SyncedStep == ASSUME SInv, SNext PROVE SyncedOver'
<1>0. synced \subseteq Runs
  BY DEF SInv, ServiceTypeOK, IInv, TypeOK
<1>1. \A r \in synced : Over(r)' /\ sess'[r].saidDone /\ sess'[r].accepted = link'[r].executed
  BY <1>0, RunStep DEF SInv, SyncedOver, Done
<1>2. CASE synced' = synced
  BY <1>1, <1>2 DEF SyncedOver
<1>3. CASE rn.pc = "verify" /\ UNCHANGED workerVars /\ Finish
  <2>1. CASE RunOutcome = "done" /\ synced' = synced \cup {rn.run}
    <3>1. Over(rn.run) /\ sess[rn.run].saidDone /\ sess[rn.run].accepted = link[rn.run].executed
      BY <1>3, <2>1, RecordedIsOver
    <3>2. UNCHANGED <<w, link, sess>>
      BY <1>3 DEF workerVars
    <3>3. QED
      BY <1>1, <2>1, <3>1, <3>2 DEF SyncedOver, Over
  <2>2. QED
    BY <1>2, <1>3, <2>1 DEF Finish
<1>4. QED
  BY <1>2, <1>3 DEF SNext, ServiceStep, RunnerStep, OutsideStep, serviceVars, TickStart, LoopExit,
     PostStart, SpawnWorker, WaitWorker, PassOnStop, CheckDeadlines, KillWait, Collect, EndKilled,
     VerifyExited, VerifyFailed, RunnerAt, TimePasses, HardDue, GraceDue, CloseDue, SvcStop, Crash,
     StartService

-----------------------------------------------------------------------------
(* The workers left behind                                                 *)

\* Nobody starts to run code, and the worker waited for is still waited for.
LEMMA StillWatched ==
  ASSUME \A r \in Runs : w'[r].pc \in Executing => w[r].pc \in Executing,
         \A r \in Runs : Watched(r) => Watched(r)'
  PROVE  Unwatched' \subseteq Unwatched
BY DEF Unwatched

LEMMA UnwatchedStep == ASSUME SInv, SNext, ~Crash PROVE Unwatched' \subseteq Unwatched
<1>0. /\ w \in [Runs -> WorkerState] /\ rn \in RunnerState
      /\ svc # "up" => rn.pc = "sleep"
  BY DEF SInv, IInv, TypeOK, ServiceTypeOK, TickKnown
<1>1. CASE OutsideStep
  <2>1. \A r \in Runs : w'[r].pc \in Executing => w[r].pc \in Executing
    <3>1. CASE Surroundings
      BY <3>1 DEF Surroundings, EndedElsewhere, QBExit
    <3>2. ASSUME NEW q \in Runs, WorkerStep(q), NEW r \in Runs
          PROVE  w'[r].pc \in Executing => w[r].pc \in Executing
      BY <3>2, OwnRunStep, StepAlone DEF SInv, IInv, Alone
    <3>3. QED
      BY <1>1, <3>1, <3>2 DEF OutsideStep
  <2>2. QED
    BY <1>1, <2>1, StillWatched DEF OutsideStep, serviceVars, Watched
<1>2. CASE TickStart \/ LoopExit \/ PostStart \/ KillWait \/ Collect \/ EndKilled
           \/ VerifyExited \/ VerifyFailed \/ SvcStop \/ StartService
  <2>1. UNCHANGED <<w, crashes>>
    BY <1>2 DEF TickStart, LoopExit, PostStart, StartSession, KillWait, Collect, EndKilled,
       EndByParent, VerifyExited, VerifyFailed, SvcStop, StartService, workerVars
  <2>2. rn' = rn \/ rn.pc \notin {"alive", "body", "deadline"}
    BY <1>0, <1>2 DEF TickStart, LoopExit, PostStart, KillWait, Collect, EndKilled,
       VerifyExited, VerifyFailed, SvcStop, StartService, RunnerAt
  <2>3. QED
    BY <2>1, <2>2, StillWatched DEF Watched
<1>3. CASE TimePasses
  <2>1. UNCHANGED <<w, crashes>> /\ rn'.pc = rn.pc /\ rn'.run = rn.run
    BY <1>0, <1>3 DEF TimePasses, HardDue, GraceDue, CloseDue, workerVars, RunnerState
  <2>2. QED
    BY <2>1, StillWatched DEF Watched
<1>4. CASE PassOnStop
  <2>1. rn'.pc = "deadline" /\ rn'.run = rn.run /\ crashes' = crashes /\ rn.run \in Runs
    BY <1>0, <1>4, RunOfTick DEF PassOnStop, RunnerAt, RunnerGoto, RunnerState
  <2>2. \A r \in Runs : w'[r].pc = w[r].pc
    BY <1>0, <1>4, <2>1 DEF PassOnStop, SetStop, Become, workerVars, WorkerState
  <2>3. QED
    BY <2>1, <2>2, StillWatched DEF Watched
<1>5. CASE SpawnWorker
  <2>1. /\ rn.pc = "spawn" /\ rn.run \in Runs /\ crashes' = crashes
    BY <1>5, RunOfTick DEF SpawnWorker, RunnerAt
  <2>2. CASE UNCHANGED workerVars
    BY <2>1, <2>2, StillWatched DEF Watched, workerVars
  <2>3. CASE Spawn(rn.run) /\ RunnerGoto("alive")
    <3>1. rn'.pc = "alive" /\ rn'.run = rn.run
      BY <1>0, <2>3 DEF RunnerGoto, RunnerState
    <3>2. \A r \in Runs : r # rn.run => w'[r] = w[r]
      BY <1>0, <2>3 DEF Spawn, Goto, Become
    <3>3. QED
      BY <2>1, <3>1, <3>2 DEF Unwatched, Watched
  <2>4. QED
    BY <1>5, <2>2, <2>3 DEF SpawnWorker
<1>6. CASE WaitWorker
  <2>1. /\ rn.pc = "alive" /\ UNCHANGED <<w, crashes>> /\ rn'.run = rn.run
        /\ rn'.pc = IF Gone(rn.run) THEN "collect" ELSE "body"
    BY <1>0, <1>6 DEF WaitWorker, RunnerAt, RunnerGoto, RunnerState, workerVars
  <2>2. Gone(rn.run) => w[rn.run].pc \notin Executing
    BY DEF Gone, Executing, Opening, Relaying, Closing, Finishing
  <2>3. QED
    BY <2>1, <2>2 DEF Unwatched, Watched
<1>7. CASE CheckDeadlines
  <2>1. /\ rn.pc = "deadline" /\ rn'.run = rn.run /\ rn.run \in Runs /\ crashes' = crashes
        /\ rn'.pc \in {"alive", "killWait"}
    BY <1>0, <1>7, RunOfTick DEF CheckDeadlines, RunnerAt, RunnerGoto, RunnerState
  <2>2. CASE rn'.pc = "alive"
    <3>1. w' = w
      BY <1>0, <1>7, <2>2 DEF CheckDeadlines, RunnerGoto, RunnerState, workerVars
    <3>2. QED
      BY <2>1, <2>2, <3>1, StillWatched DEF Watched
  <2>3. CASE rn'.pc = "killWait"
    <3>1. (Gone(rn.run) /\ w' = w) \/ Terminate(rn.run)
      BY <1>0, <1>7, <2>3 DEF CheckDeadlines, RunnerGoto, RunnerState, workerVars
    <3>2. /\ w'[rn.run].pc \notin Executing
          /\ \A r \in Runs : r # rn.run => w'[r] = w[r]
      <4>1. CASE Gone(rn.run) /\ w' = w
        BY <4>1 DEF Gone, Executing, Opening, Relaying, Closing, Finishing
      <4>2. CASE Terminate(rn.run)
        <5>1. w'[rn.run].pc = "dying" /\ \A r \in Runs : r # rn.run => w'[r] = w[r]
          BY <1>0, <2>1, <4>2 DEF Terminate, Become, WorkerState
        <5>2. QED
          BY <5>1 DEF Executing, Opening, Relaying, Closing, Finishing
      <4>3. QED
        BY <3>1, <4>1, <4>2
    <3>3. QED
      BY <2>1, <3>2 DEF Unwatched, Watched
  <2>4. QED
    BY <2>1, <2>2, <2>3
<1>8. QED
  BY <1>1, <1>2, <1>3, <1>4, <1>5, <1>6, <1>7 DEF SNext, ServiceStep, RunnerStep

\* Nobody is terminated, no alarm is withdrawn, and a report due is still due.
LEMMA StillReported ==
  ASSUME \A r \in Runs : w'[r].pc = "dying" => w[r].pc = "dying",
         \A r \in Runs : "QBWorkerTimeout" \in alerts[r] => "QBWorkerTimeout" \in alerts'[r],
         rn.pc \in {"killWait", "collect"} /\ rn.killed
           => \/ rn'.pc \in {"killWait", "collect"} /\ rn'.killed /\ rn'.run = rn.run
              \/ "QBWorkerTimeout" \in alerts'[rn.run]
  PROVE  Unreported' \subseteq Unreported
BY DEF Unreported, BeingReported

LEMMA UnreportedStep == ASSUME SInv, SNext, ~Crash PROVE Unreported' \subseteq Unreported
<1>0. /\ w \in [Runs -> WorkerState] /\ rn \in RunnerState
      /\ svc # "up" => rn.pc = "sleep"
      /\ alerts \in [Runs -> SUBSET Alerts]
  BY DEF SInv, IInv, TypeOK, ServiceTypeOK, TickKnown
<1>1. CASE OutsideStep
  <2>1. \A r \in Runs : w'[r].pc = "dying" => w[r].pc = "dying"
    <3>1. CASE Surroundings
      BY <3>1 DEF Surroundings, EndedElsewhere, QBExit
    <3>2. ASSUME NEW q \in Runs, WorkerStep(q), NEW r \in Runs
          PROVE  w'[r].pc = "dying" => w[r].pc = "dying"
      BY <3>2, OwnRunStep, StepAlone DEF SInv, IInv, Alone
    <3>3. QED
      BY <1>1, <3>1, <3>2 DEF OutsideStep
  <2>2. QED
    BY <1>1, <2>1, StillReported DEF OutsideStep, serviceVars
<1>2. CASE TickStart \/ LoopExit \/ PostStart \/ WaitWorker \/ KillWait \/ EndKilled
           \/ VerifyExited \/ SvcStop \/ StartService \/ TimePasses
  <2>1. UNCHANGED <<w, crashes, alerts>>
    BY <1>2 DEF TickStart, LoopExit, PostStart, StartSession, WaitWorker, KillWait, EndKilled,
       EndByParent, VerifyExited, SvcStop, StartService, TimePasses, HardDue, GraceDue, CloseDue,
       workerVars
  <2>2. \/ rn' = rn \/ rn.pc \notin {"killWait", "collect"}
        \/ rn'.pc = "collect" /\ rn'.killed = rn.killed /\ rn'.run = rn.run
    BY <1>0, <1>2 DEF TickStart, LoopExit, PostStart, WaitWorker, KillWait, EndKilled,
       VerifyExited, SvcStop, StartService, TimePasses, HardDue, GraceDue, CloseDue,
       RunnerAt, RunnerGoto, RunnerState
  <2>3. QED
    BY <2>1, <2>2, StillReported
<1>3. CASE VerifyFailed
  <2>1. /\ rn.pc = "verify" /\ rn.run \in Runs /\ UNCHANGED <<w, crashes>>
        /\ Raise({"QBCloseVerifyFailed"})
    BY <1>3, RunOfTick DEF VerifyFailed, RunnerAt, workerVars
  <2>2. \A r \in Runs : alerts[r] \subseteq alerts'[r]
    BY <1>0, <2>1, RaiseType DEF Alerts
  <2>3. QED
    BY <2>1, <2>2, StillReported
<1>4. CASE SpawnWorker \/ PassOnStop
  <2>1. /\ rn.pc \notin {"killWait", "collect"} /\ rn.run \in Runs /\ UNCHANGED <<crashes, alerts>>
    BY <1>4, RunOfTick DEF SpawnWorker, PassOnStop, RunnerAt
  <2>2. \A r \in Runs : w'[r].pc = "dying" => w[r].pc = "dying"
    BY <1>0, <1>4, <2>1 DEF SpawnWorker, PassOnStop, Spawn, SetStop, Goto, Become, workerVars,
       WorkerState
  <2>3. QED
    BY <2>1, <2>2, StillReported
<1>5. CASE CheckDeadlines
  <2>1. /\ rn.pc = "deadline" /\ rn'.run = rn.run /\ rn.run \in Runs
        /\ UNCHANGED <<crashes, alerts>>
    BY <1>0, <1>5, RunOfTick DEF CheckDeadlines, RunnerAt, RunnerGoto, RunnerState
  <2>2. CASE w' = w
    BY <2>1, <2>2, StillReported
  <2>3. CASE Terminate(rn.run) /\ rn' = [rn EXCEPT !.pc = "killWait", !.killed = TRUE]
    <3>1. rn'.pc = "killWait" /\ rn'.killed
      BY <1>0, <2>3 DEF RunnerState
    <3>2. \A r \in Runs : r # rn.run => w'[r] = w[r]
      BY <1>0, <2>3 DEF Terminate, Become
    <3>3. QED
      BY <2>1, <3>1, <3>2 DEF Unreported, BeingReported
  <2>4. QED
    BY <1>5, <2>2, <2>3 DEF CheckDeadlines, workerVars
<1>6. CASE Collect
  <2>1. rn.pc = "collect" /\ rn.run \in Runs /\ UNCHANGED <<w, crashes>>
    BY <1>6, RunOfTick DEF Collect, RunnerAt, workerVars
  <2>2. /\ \A r \in Runs : alerts[r] \subseteq alerts'[r]
        /\ rn.killed => "QBWorkerTimeout" \in alerts'[rn.run]
    BY <1>0, <1>6, <2>1, RaiseType DEF Collect, Alerts
  <2>3. QED
    BY <2>1, <2>2, StillReported
<1>7. QED
  BY <1>1, <1>2, <1>3, <1>4, <1>5, <1>6 DEF SNext, ServiceStep, RunnerStep

LEMMA CrashesCounted == ASSUME SNext, ~Crash PROVE crashes' = crashes
BY DEF SNext, ServiceStep, RunnerStep, OutsideStep, serviceVars, TickStart, LoopExit, PostStart,
   SpawnWorker, WaitWorker, PassOnStop, CheckDeadlines, KillWait, Collect, EndKilled, VerifyExited,
   VerifyFailed, TimePasses, HardDue, GraceDue, CloseDue, SvcStop, StartService

LEMMA OneMore ==
  ASSUME NEW S, IsFiniteSet(S), NEW x
  PROVE  IsFiniteSet(S \cup {x}) /\ Cardinality(S \cup {x}) <= Cardinality(S) + 1
<1>1. /\ IsFiniteSet(S \cup {x})
      /\ \/ Cardinality(S \cup {x}) = Cardinality(S)
         \/ Cardinality(S \cup {x}) = Cardinality(S) + 1
  BY FS_AddElement
<1>2. Cardinality(S) \in Nat
  BY FS_CardinalityType
<1>3. QED
  BY <1>1, <1>2

LEMMA FewLeftStep == ASSUME SInv, SNext PROVE FewLeft'
<1>0. IsFiniteSet(LeftBehind) /\ Cardinality(LeftBehind) <= crashes /\ crashes \in Nat
  BY ServiceAssumption DEF SInv, FewLeft, ServiceTypeOK
<1>1. CASE ~Crash
  <2>1. LeftBehind' \subseteq LeftBehind /\ crashes' = crashes
    BY <1>1, UnwatchedStep, UnreportedStep, CrashesCounted DEF LeftBehind
  <2>2. /\ IsFiniteSet(LeftBehind') /\ Cardinality(LeftBehind') <= Cardinality(LeftBehind)
        /\ Cardinality(LeftBehind') \in Nat /\ Cardinality(LeftBehind) \in Nat
    BY <1>0, <2>1, FS_Subset, FS_CardinalityType
  <2>3. QED
    BY <1>0, <2>1, <2>2 DEF FewLeft
<1>2. CASE Crash
  <2> DEFINE L == LeftBehind \cup {rn.run}
  <2>1. UNCHANGED <<w, alerts>> /\ crashes' = crashes + 1
    BY <1>2 DEF Crash, workerVars
  <2>2. LeftBehind' \subseteq L
    BY <2>1 DEF LeftBehind, Unwatched, Watched, Unreported, BeingReported
  <2>3. IsFiniteSet(L) /\ Cardinality(L) <= Cardinality(LeftBehind) + 1
    BY <1>0, OneMore
  <2> HIDE DEF L
  <2>4. /\ IsFiniteSet(LeftBehind') /\ Cardinality(LeftBehind') <= Cardinality(L)
        /\ Cardinality(LeftBehind') \in Nat /\ Cardinality(L) \in Nat
        /\ Cardinality(LeftBehind) \in Nat
    BY <1>0, <2>2, <2>3, FS_Subset, FS_CardinalityType
  <2>5. QED
    BY <1>0, <2>1, <2>3, <2>4 DEF FewLeft
<1>3. QED
  BY <1>1, <1>2

-----------------------------------------------------------------------------

LEMMA NextSInv == ASSUME SInv, [SNext]_vars PROVE SInv'
<1>1. CASE UNCHANGED vars
  BY <1>1 DEF vars, workerVars, serviceVars, SInv, IInv, TypeOK, ServiceTypeOK, TickKnown,
     FewLeft, LeftBehind, Unwatched, Watched, Unreported, BeingReported, ResultMeansOver,
     SyncedOver, Over
<1>2. CASE SNext
  <2>1. IInv'
    BY <1>2, StepIsWorkerStep, NextIInv DEF SInv
  <2>2. QED
    BY <1>2, <2>1, ServiceTypeStep, FewLeftStep, ResultStep, SyncedStep DEF SInv
<1>3. QED
  BY <1>1, <1>2

\* The inductive invariant of the service.
THEOREM ServiceInvariant == SSpec => []SInv
BY InitSInv, NextSInv, PTL DEF SSpec

\* Whatever the service does to its workers is what QBWorker allows, so what is
\* proved of workers holds of the workers of the service.
THEOREM ServiceRunsWorkers == SSpec => WSpec
<1>1. SInit => WInit
  BY DEF SInit
<1>2. SInv /\ [SNext]_vars => [WNext]_workerVars
  BY StepIsWorkerStep DEF SInv, vars
<1>3. QED
  BY <1>1, <1>2, ServiceInvariant, PTL DEF SSpec, WSpec

\* The types of the service's variables.
THEOREM ServiceTypes == SSpec => []ServiceTypeOK
<1>1. SInv => ServiceTypeOK
  BY DEF SInv
<1>2. QED
  BY <1>1, ServiceInvariant, PTL

\* Before the first crash nobody is left behind.
LEMMA NobodyLeft == ASSUME SInv, crashes = 0 PROVE LeftBehind = {}
<1>1. IsFiniteSet(LeftBehind) /\ Cardinality(LeftBehind) <= 0
  BY DEF SInv, FewLeft
<1>2. QED
  BY <1>1, FS_EmptySet, FS_CardinalityType

\* Only the worker the runner waits for and those that crashes left behind run
\* code: without a crash, one at a time.
THEOREM ServiceOneWorker == SSpec => []OneWorkerAtATime
<1>1. ASSUME SInv PROVE OneWorkerAtATime
  <2> DEFINE L == LeftBehind \cup {rn.run}
             E == {r \in Runs : w[r].pc \in Executing}
  <2>1. IsFiniteSet(LeftBehind) /\ Cardinality(LeftBehind) <= crashes /\ crashes \in Nat
    BY <1>1, ServiceAssumption DEF SInv, FewLeft, ServiceTypeOK
  <2>2. E \subseteq L
    BY DEF LeftBehind, Unwatched, Watched
  <2>3. IsFiniteSet(L) /\ Cardinality(L) <= Cardinality(LeftBehind) + 1
    BY <2>1, OneMore
  <2> HIDE DEF L, E
  <2>4. /\ Cardinality(E) <= Cardinality(L)
        /\ Cardinality(E) \in Nat /\ Cardinality(L) \in Nat /\ Cardinality(LeftBehind) \in Nat
    BY <2>1, <2>2, <2>3, FS_Subset, FS_CardinalityType
  <2>5. Cardinality(E) <= crashes + 1
    BY <2>1, <2>3, <2>4
  <2>6. QED
    BY <2>5 DEF OneWorkerAtATime, E
<1>2. QED
  BY <1>1, ServiceInvariant, PTL

\* "Last sync" is recorded only for a run that is complete and disconnected.
THEOREM ServiceSyncedMeansComplete == SSpec => []SyncedMeansComplete
<1>1. SInv => SyncedMeansComplete
  BY DEF SInv, SyncedOver, Over, SyncedMeansComplete
<1>2. QED
  BY <1>1, ServiceInvariant, PTL

\* A service that has stopped leaves no worker running, and QuickBooks closed
\* unless it said otherwise, but for the workers that crashes left behind.
THEOREM ServiceStoppedMeansClosed == SSpec => []StoppedMeansClosed
<1>1. ASSUME SInv PROVE StoppedMeansClosed
  <2> DEFINE C == {r \in Runs : \/ w[r].pc \in Executing
                                \/ link[r].com # "none" /\ "QBWorkerTimeout" \notin alerts[r]}
  <2>0. SUFFICES ASSUME svc = "stopped" PROVE Cardinality(C) <= crashes
    BY DEF StoppedMeansClosed
  <2>1. IsFiniteSet(LeftBehind) /\ Cardinality(LeftBehind) <= crashes /\ crashes \in Nat
    BY <1>1, ServiceAssumption DEF SInv, FewLeft, ServiceTypeOK
  <2>2. rn.pc = "sleep"
    BY <1>1, <2>0 DEF SInv, TickKnown
  <2>3. ASSUME NEW r \in C PROVE r \in LeftBehind
    <3>1. CASE w[r].pc \in Executing
      BY <2>2, <3>1 DEF LeftBehind, Unwatched, Watched
    <3>2. CASE w[r].pc \notin Executing
      <4>1. Connection(w[r], link[r]) /\ w[r].pc \in PCs
        BY <1>1, <2>3, Known DEF SInv, WorkerState
      <4>2. w[r].pc = "dying"
        BY <2>3, <3>2, <4>1 DEF Connection, PCs
      <4>3. QED
        BY <2>2, <2>3, <3>2, <4>2 DEF LeftBehind, Unreported, BeingReported
    <3>3. QED
      BY <3>1, <3>2
  <2>4. C \subseteq LeftBehind
    BY <2>3
  <2> HIDE DEF C
  <2>5. /\ Cardinality(C) <= Cardinality(LeftBehind)
        /\ Cardinality(C) \in Nat /\ Cardinality(LeftBehind) \in Nat
    BY <2>1, <2>4, FS_Subset, FS_CardinalityType
  <2>6. QED
    BY <2>1, <2>5
<1>2. QED
  BY <1>1, ServiceInvariant, PTL

=============================================================================
