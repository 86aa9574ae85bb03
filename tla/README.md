# MyFuel.AI Connector in TLA+

The connector (`relay/`) is a Windows service that relays data between on-site
systems and the MyFuel API. At this commit it registers one integration,
QuickBooks Desktop: once a minute it asks MyFuel whether a sync is due, and if
so runs one sync in a child process that drives QuickBooks over COM. What can go
wrong there is not computation but order: QuickBooks left logged in, a request
executed whose answer is lost, another user's QuickBooks driven, a run recorded
as done that was not. These modules describe that order and check it.

Paths below are relative to the repository; line numbers are in `PROJECT.json`.

## 1. The system

| Part | State | Operations | Talks to |
|---|---|---|---|
| Windows service (`service.py`, `main.py`) | running / stopping / stopped, a stop event | start, `SvcStop`, crash and recovery by Windows | task loops, through the stop event |
| Task loops (`core/scheduler.py`) | between ticks or in one | tick, sleep, stop; one loop per task; an exception ends the tick only | the runner, MyFuel |
| QuickBooks runner (`integrations/quickbooks/runner.py`) | the local variables of one tick: process object, two deadlines, messages, `killed` | start POST, spawn, wait loop, terminate, collect, alarm, wait for QuickBooks to exit | worker (event, queue, terminate), MyFuel, Sentry, process table |
| QuickBooks worker (`worker.py`) | how far QuickBooks is open, request count, outcome, whether MyFuel was told | open, own-instance check, relay loop, close, report | SDK over COM, MyFuel over HTTP, parent over a queue |
| Process identification (`processes.py`) | none | list own instances, identify ours, is it running | process table |
| COM wrapper (`qbxmlrp2.py`) | the COM object | Dispatch, OpenConnection2, BeginSession, ProcessRequest, EndSession, CloseConnection, release | SDK |
| MyFuel client (`core/myfuel_client.py`) | none | POST | MyFuel |
| Log relay (`core/logging_setup.py`) | a queue, a listener thread | child handler, listener | worker, log files |
| PDI (`integrations/pdi/`) | the address learnt at the start, a batch within a tick | ask MyFuel for PDI's address; master data pull and push; orders pulled, pushed to PDI, back-office numbers told to MyFuel | PDI, MyFuel (not registered) |
| SmartTank (`integrations/smarttank/`) | a document within a tick | three fetch-and-push tasks | SmartTank, MyFuel (not registered) |
| Integration log (`core/integration_log.py`) | none | write a row, drop it on failure | MyFuel |
| Settings (`core/settings.py`) | what has been read so far | read `relay.json`, the environment and `.env`, decrypt, check | files, environment |
| Authorization command (`authorize.py`) | how far QuickBooks is open, exit code | read `relay.json`, open on the open file, one HostQuery, close | SDK, an Admin |
| Monitoring (`core/monitoring.py`), tools, build | none over time | run once | |

What is hard here:

* The worker and its parent are two processes. They share an event, a queue
  whose messages are written by a feeder thread some time after `put`, and the
  process object, which may be gone between any two looks at it.
* A COM call may succeed, raise, raise after having had its effect, or never
  return. A POST may be answered, refused with 409, or fail before or after it
  was applied.
* The worker may be terminated, or die of a native crash, between any two steps;
  the service may crash and be restarted while its worker lives on.
* QuickBooks instances start and exit on their own, and the process table is read
  twice, unsynchronised, to find out which of them is ours.
* MyFuel has one current session; a new start supersedes the old one at any time.
* A stop must end within the time Windows was told, and each step of a tick has a timeout
  of its own.
* `relay.json` is read by two programs, at different times, and may be changed in between.
* A POST that times out may be applied after the POST of a later tick.

What makes each part correct:

* worker: it never ends connected; one request at a time, none after a lost
  answer; at most the limit; at most one request after it should have stopped;
  `done` only on MyFuel's word with every answer delivered; only in an instance
  of the service's own; its session ended on MyFuel;
* runner: one worker at a time; "last sync" only for a complete run; a run without
  an alarm left nothing behind; a hung worker is ended;
* service: a stop completes, and then nothing is connected;
* task loops: they end when asked and only then; one task does not hold up another;
* log relay: what is in the files is what was logged, without a hole but for a record whose
  own write failed; nobody waits for the listener for ever, the service's process included;
* PDI orders: every order is tried, and none counts as posted that was not; none is repeated unless something failed; MyFuel is
  told only what is so;
* fetch-and-push tasks: MyFuel's copy never goes back, nor out of date, without anybody
  being told; SmartTank's never empties it;
* time: a worker is terminated when its time is over, whatever it hangs in, and for a stop
  only after its whole grace period; the stop ends within a bound;
* settings and authorization: the app an Admin has allowed is the one the service presents;
  at its exit QuickBooks holds nothing for the command, whichever of its calls raise.

The complete list of hazards, each with the properties aimed at it, or with the reason
why none covers it, is in `PROJECT.json`.

## 2. Modules

| Module | What it is |
|---|---|
| `Processes` | `identify_own_instance` as an operator on the two listings |
| `RelaySession` | the abstract promise of one run: connected for one stretch, one request at a time, at most `MaxRequests` |
| `QBWorker` | `run_worker` with the SDK, MyFuel and the process it runs in, for any number of runs that nothing keeps apart; its specification is `WSpec` |
| `QBWorkerProofs` | the inductive invariant of `QBWorker` and the theorems that follow from it |
| `QBWorkerRefinement` | proofs that `QBWorker` implements `RelaySession` and that no worker ends another's session |
| `QBService` | extends `QBWorker` with the task loop, the tick of the runner, and the service that is started, stopped, crashes and is restarted; `SSpec`, `FairSSpec` |
| `QBServiceProofs` | the inductive invariant of `QBService` and the theorems that follow from it |
| `QBOwnProofs` | proofs that the service drives only its own QuickBooks as long as no crash has its workers disturb each other, and that a quiet run is clean |
| `StopBudget`, `StopBudgetProofs` | the tick once more, with the time each call may take, against the wait hint and the time of a run; proofs of its bounds |
| `TaskLoops` | one life of the service: the stop on its way to the loops, integrations that start or are skipped, any number of loops side by side |
| `LogRelay` | the workers' log records on their way to the files, and who waits for whom there |
| `LogRelayProofs` | the inductive invariant of `LogRelay` and the theorems that follow from it |
| `Settings` | what `load_settings` makes of `relay.json`, the environment and `.env`, as operators |
| `Authorize` | the `authorize` command, from its start to its exit |
| `Site` | a site: `relay.json`, the start of the service and its loops (`TaskLoops`, `Settings`), the command (`Authorize`) |
| `SiteProofs` | proofs about `Site`, with the command's refinement of `RelaySession` and the site's of `TaskLoops` |
| `PdiOrders` | the order task of the PDI integration, with PDI and MyFuel around it |
| `Feeds` | SmartTank's tasks and PDI's master data, which fetch and push |
| `Integrations` | PDI and SmartTank in one service that may crash (`PdiOrders`, `Feeds`) |
| `IntegrationsProofs` | proofs about `PdiOrders` and `Feeds`, and that `Integrations` implements both |
| `MCWorker`, `MCService`, `MCRuns`, `MCSite`, `MCIntegrations` | symmetry, a view, constraints and values of constants for TLC |

`QBService` is composed with `QBWorker`, `Site` of `TaskLoops`, `Settings` and
`Authorize`, `Integrations` of `PdiOrders` and `Feeds`. They meet in the code they
describe: `TaskLoops` is the general form of the loop `QBService` has one of,
`StopBudget` is the tick of `QBService` on a clock, `LogRelay` the reason why a worker
of `QBWorker` may hang at its `Exit`, `Integrations` the inside of the ticks of tasks
other than QuickBooks, and `RelaySession` what both a sync run and the authorization
promise QuickBooks.

### QBWorker

`w[r]` is the memory of the worker of ticket `r` with its stop event and its
queue; `w[r].pc` names the place in `run_worker`. `stage` stands for `rp`,
`connected` and `qb_ticket`: how much the `finally` will close. `outbox` holds the
messages that were `put`, `pipe` those the feeder thread has written (`Flush`);
a kill loses the first, not the second. `link[r]` is what QuickBooks really holds
for the process, which is not always what the worker believes: a `BeginSession`
that raises may leave a session open. `link[r].target` is the instance the SDK is
connected to, which the worker never sees. `link[r].executed` and `.overrun`
count the requests QuickBooks executed, and those it executed when the run should
have been over. `sess[r]` is what MyFuel was told. `own` is the process table.

Each action is one call or one decision of the code with everything that follows
from it up to the next call. `BeginSession` is two steps, because the worker may
hang or be killed after QuickBooks was launched and before it returns.
`Leave(r, out)` is the way out of the `try` block: a `QBComError` goes to
`_report_error` first, everything else to the `finally`. An exception before the
`try` (settings, logging) ends the process with nothing opened and nothing told:
that is `WorkerCrash`. The events posted to MyFuel (`_event`) change nothing the
properties look at and are left out; so are texts, hresults and log lines.

Not in `src/` and modelled from how the worker uses it: the SDK, MyFuel's
session API (one current ticket, 409 for any other), the feeder thread, Windows
dropping the COM connection of a dead process (`Die`).

`ForeignDespiteOwn` is an assumption about the SDK that the code depends on: with
`FALSE` it attaches to another user's QuickBooks only when none of ours is
running. Every run assumes it. Without it `OnlyOwnQuickBooks` fails with one run: the
own-instance check infers the connection from the process table, and with a leftover of
our own and no new process it answers the leftover, whatever the SDK is attached to
(`processes.py:65`). Set it to `TRUE` in `MCWorker.cfg` to see that. Of the theorems, those about
whose QuickBooks it is need it, and the last conjunct of `QuietRunIsClean`.

### QBService

`rn` is the task loop with the local variables of the tick it is in, `rn.pc` the
place in the code. Every step that touches a worker or MyFuel is an action of
`QBWorker`. `hardDue`, `graceDue` and `closeDue` say that a deadline has passed:
time is a step that may happen at any moment, so no ordering of deadlines and
events is excluded. `alerts` collects the alarms per run, `synced` the runs whose
`last_sync_on` was posted, `ended` those whose `_run_worker` returned. A crash
loses `rn`, never the worker. An orderly exit of the service waits for its
children, which is why `daemon=True` matters only in a crash.

When the runner has terminated a worker it posts `session/end` for it. That is
`EndByParent`, an action of `QBWorker` as well, so every step of `QBService` is a
step of `QBWorker` or leaves its variables alone (`ServiceRunsWorkers`).

### StopBudget

`pc` is the place of the task loop, named as in `QBService`; `now` is the time since
`SvcStop`, which may come at any place, and `found` is that place. `left` is what is left
of the grace period, later of the wait for QuickBooks, and `passed` says that the worker's
stop event is set. `ran` is how long the worker has been waited for; `MaxRun` is what it is
given, `SYNC_QB_MaxSessionMins` and the two minutes. A call takes any time up to its limit. Why a
call ends as it does is left out, so that every order of results `QBService` allows is
allowed here. The code gives a POST a timeout but no limit: `httpx` applies it to connecting,
to each write and to each read by itself. `Phases` says in how many of these a POST may take
all of its timeout, `StartLimit` and `PostLimit` are what it then takes as a whole, and every
bound is one in terms of them. One thing favours the code: starting a process takes no time.

### TaskLoops

`stop` is the `threading.Event` of the service, `stopEvent` the `asyncio.Event` of the
loops, `watcher` the thread that carries the one to the other. `loop[t]` is the place in
`run_task_loop`: making the client, at the `while`, in the tick, asleep. `LoadSettings` is
told by `Site` whether the settings could be loaded; `BuildTasks` chooses which integrations
could start. A client that cannot be made is the one
exception that leaves a loop (`OpenClientFails`, phase `"raised"`). `gather` hands it on and
leaves the other loops alone, which go on until `asyncio.run` cancels them (`CancelLoops`);
they end one after the other, also in the middle of a tick (`Cancelled`), and when all have
ended the service fails (`Fails`). A tick of a task in `Hanging` may never end.

### Site, Settings, Authorize

`config` is `relay.json`, which somebody may change (`EditConfig`) while the service or the
command has still to read it. The service reads it first (`ReadConfig`), then the secrets
(`ReadSecrets`), and checks as it goes: `read` is what it has in between. A Fernet key
decrypts the blobs made with it and no others; `Environ` is `load_dotenv`, which replaces no
variable that is there, each by itself. `DefaultApp` stands for the two defaults in the
code. `app_id` and `app_name` are one value, the app, as QuickBooks knows an app by both.

In `Authorize`, `stage` is what the command's `finally` will close, `com` what QuickBooks
holds for it, also when it has exited, `allowed` the apps an Admin has let in. The Admin answers in `BeginSession`:
for good, for now, or not at all. Unlike a worker's, the command's connection is the open
QuickBooks whoever runs it, so there is no own-instance check to model. `readAt` and
`askedAt` number the versions of the file that the service and the command have read;
only the properties look at them.

### LogRelay

`buffer[e]` is what the feeder thread of the worker, or of the service, has still to
write, `pipe` what it has written, `written` the files, `listener` the thread of
`LogQueueListener`. `Read` writes the record it has read, or fails to: `logging` swallows what
a handler raises, on a full disk or at a rollover, and goes on with the next record. `failed`
are the records this happened to; no step reads it. A process that is killed loses its buffer. `StopListener` and
`JoinListener` are the two lines of `stop()`; before the first, the task loops have
ended, which is why no worker is alive there. `ServiceExit` is the end of the service's process, which waits for the feeder
thread that has the None to write. The queue, its feeder threads, and the
wait of an exiting process for its feeder thread are Python's, modelled as such.

### PdiOrders

The task keeps nothing between ticks: `batch`, `handed` and `sent` live for one tick.
`open` is what MyFuel hands out, `known` what it has been told, `executed` what PDI has
done, `late` what PDI will still do although the POST has failed. `failures[o]` counts
what went wrong with an order. Assumed of the two sides: PDI does not execute what it
answers with `<Result>2</Result>` or HTTP 400; MyFuel hands out an order once per answer
and not again once it has been told of it. An order whose text is null ends the tick.

`address` is what the service learns about PDI when it starts: the address (`"known"`),
that MyFuel has none (`"none"`: the task runs, every order fails, and nothing is posted), or no answer
(`"skipped"`: there is no task). A crash of the service is followed by a start that asks
again.

### Feeds, Integrations

A document is the tick that fetched it and whether there is anything in it. `copy[f]` is
what MyFuel has, `delayed[f]` the pushes that failed as far as the task knows and that
MyFuel has yet to apply. `alarmed`, `cut` and `skipped` record which ticks Sentry was told
of, which a crash cut off, and which pushed nothing; no step reads them. A fetch that fails
leaves an empty document, which PDI's task pushes and SmartTank's do not (`SkipsEmpty`).
Assumed of MyFuel: it keeps the document of the push it applied last.

`Integrations` puts the order task and the feeds into one service: the feeds of PDI start
only if MyFuel has answered, and a crash ends all ticks at once. It is a model of code that
is not registered in `main.py` at this commit, in the way it would be.

## 3. Runs

| Run | Bounds | Shows |
|---|---|---|
| `worker` | 1 run, 2 instances, 2 requests | all worker properties; `QBWorker` implements `RelaySession` |
| `service` | 1 run and a crash, or 2 runs and a crash, 1 instance, 1 request | `SyncedMeansComplete`, `QuietRunIsClean`, `StoppedMeansClosed`, `OneWorkerAtATime`, `EndsNoOtherSession` |
| `live` | 1 run, 1 instance, 1 request, no crash, fair | `LoggedOut`, `StopCompletes` |
| `site` | 2 integrations with a task each, 1 that may hang, 6 contents of `relay.json`, 1 change, 5 environments, fair | `StopsOnlyWhenAsked`, `NothingRunsAfterStop`, `StopIsHeard`, `LoopsGoOn`, `AuthorizedAppIsUsed`, `AuthorizesOneSession`: the command implements `RelaySession` and holds nothing at its exit |
| `log_relay` | 2 workers, 3 records each, any of which may fail to be written, a pipe of 2, fair | `KeepsABeginning`, `NothingLostAtStop`, `ExitNotHeldUp`, `ServiceExits` |
| `integrations` | 2 orders of any kind, 1 feed of SmartTank and PDI's, two ticks together or three of one task, crashes | `EveryOrderIsTried`, `RepeatsOnlyAfterFailure`, `KnownMeansExecuted`, `OlderOnlyAfterFailure`, `NeverEmptied`, `QuietTickIsDelivered` |
| `false_timeout` | 1 run, no crash | violation of `TimeoutMeansTerminated` |
| `launched_not_verified` | 1 run, no crash, fair | violation of `LaunchedIsVerified` |
| `orphan` | 1 run, 1 crash, fair | violation of `LoggedOut` |
| `stranger` | 2 runs, 1 instance, 1 request, 1 crash | violation of `OnlyOwnQuickBooks` |
| `stop_bounds` | steps of one second, `SYNC_QB_CloseWaitSecs` 60, a worker's time 60 s, a POST slow in two phases | `StopBound`, `FullGrace`, `RunBound` |
| `stop_late` | as `stop_bounds`, a POST slow in one phase | violation of `StopWithinHint` |

Why the bounds are enough. Runs do not share memory, so what goes wrong within
a run shows with one; two are needed to follow or overlap each other. One
instance can be launched, left over or attached to; with two, the identification
can be new, left over, ambiguous, and wrong. Two requests give a first, a last and
one too many. One crash is what leaves a worker behind. The worker's own run has two
instances; around it the service adds nothing that a second one would change.

Everything that can go wrong in two runs at once is out of TLC's reach. In `service`
(`MCRuns`) each behaviour therefore chooses at its start between one ticket, with all that
can go wrong and a crash, and two tickets, in which the runs follow each other or, after a
crash, overlap. With two tickets, as in `stranger`, a view and a constraint apply. The view
(`Present`) drops how a run went that is over: no later step reads it. The constraint,
`SmoothOrQuickRuns`, leaves out what one ticket shows: a stop, a call that raises, a POST
that should end a session and fails, a worker stopped by its own clock (`SmoothRuns`).
Deadlines and kills stay as long as the service has not crashed; after a crash no deadline
passes and nobody is terminated (`QuickRuns`). In `service`, with two tickets or after a crash,
there is moreover nobody else's QuickBooks and nothing to do, and no worker is stopped by its
own clock (`Plain`); its view keeps the alarms of workers that are not gone. A 409, a session ended
elsewhere, deaths, leftovers, refused attaches and lost starts remain. Two workers at once,
and a stopped service with a worker that a crash left behind, are reached: the bounds of
`OneWorkerAtATime` and `StoppedMeansClosed` are attained. The theorems of section 4 hold
without any of these constraints.

In `site` there are two loops, of which one may hang, and each may be the one that cannot be
started. The six contents of `relay.json` are one for each way `load_settings` and the
command can take; the environments hold none, one or both of the secrets, fitting or not.
One change of the file is what can come between two reads. In `log_relay` a worker has
more records than the pipe takes, so its exit depends on the listener; the second worker
writes behind what the first left. In `integrations` two orders, which are interchangeable
(symmetry), give one at hand and one behind it; three ticks of one task (`FewTicks`) give a
second try that is late as well as a third; two ticks of different tasks are what a crash
can end together. In `stop_bounds` and `stop_late` a unit is a second: the code's timeouts
are whole seconds. Two phases (`Phases`) in `stop_bounds` let a POST take more than its
timeout; in `stop_late` one is enough for the violation, which is the reading that favours the
code. A worker's time of 60 s instead of some twenty minutes is longer than the
grace period and lets either deadline be the first.

`live` runs `LiveSpec`, which is `FairSSpec` without the step in which a worker's own clock
runs out, to halve the states: a worker that hangs never looks at its clock, and one that
does not hang ends as it does after a stop, which `live` has.

Deadlock is checked wherever there is the service of `QBService`. `MCWorker`
does not check it: a worker alone really ends. Nor do `site`, `log_relay`,
`integrations`, `stop_bounds` and `stop_late`, which follow one life of the service, or a number of
ticks, to its end.

Fairness (`FairSSpec`) is what the code's scheduling justifies: the event loop
goes on (each of its HTTP calls has a timeout, each join too), deadlines pass,
Windows reaps a terminated process and restarts a crashed service. No fairness is
assumed of the worker or of QuickBooks: any COM call may hang for ever and an
instance may never exit. A deadline of the runner passes because the runner looks
at the clock; nothing is assumed of the worker's own clock, which a hung worker
never looks at.

In `Site` the service reads on, and as in `TaskLoops` threads and loops go on and intervals
pass; a tick ends if its task is not in `Hanging`; loops that `asyncio.run` cancels end. Nobody has to ask for a stop, change a
file or run the command. In `LogRelay` the feeder threads and the
listener go on - the listener unless it has failed -, a process that waits for nothing
exits, the service's like a worker's, and `join(timeout=5)` returns. No worker has to log, return or be killed. The
properties of `Integrations` are about safety only: nothing makes PDI or SmartTank answer.

### What disagrees with the documentation

* `false_timeout`: the deadline is looked at after `join(1.0)` without asking
  again whether the worker is alive (`runner.py:115-128`). A worker that closes
  and exits in that second is reported as terminated.
* `launched_not_verified`: the wait for QuickBooks to exit depends on the
  `qb_process` message, which is sent only after `BeginSession` returned and the
  instance was identified. When `BeginSession` raises or hangs after launching,
  nobody waits for what it launched (`runner.py:149`).
* `orphan`: after a crash of the service nobody has the deadline of the worker left
  behind; if it hangs, QuickBooks stays logged in (`runner.py:104`).
* `stranger`: a worker left behind by a crash launches an instance between the two
  listings of its successor, which is attached to another user's. The successor
  sees one new process of its own account and relays to the wrong one
  (`worker.py:83`). This needs no unusual SDK, only a crash.
* `stop_late`: the wait hint of 180 s does not cover the worst stop (`service.py:20-23`,
  README.md:189). A stop that comes while `session/start` is waited for still starts the run;
  that wait, the heartbeats, the join, the `QBWorkerTimeout` event, `session/end`, the
  `QBCloseVerifyFailed` event and the log listener come on top of 45 + 10 + 60 s: up to
  203 s with each POST taking its timeout in one phase. On the same reading a stop that finds
  the service anywhere else takes 173 s at most (`StopIsBounded`); nothing in the code keeps a
  POST to it.

## 4. Proofs

Everything here holds for any set of runs and of instances, any limit and any
number of crashes, with runs overlapping in any way. The assumptions are
`ConstantsAssumption` (distinct null values, a natural limit) and
`ServiceAssumption` (a natural number of crashes). The parts below `Whose QuickBooks` have
their own: each is said there.

### The worker

`QBWorkerProofs` proves `TypeOK`, `NeverEndsConnected`, `AtMostOneInDoubt`,
`DoneMeansComplete`, `RequestLimit`, `AtMostOneOverrun` and `EndsItsSession`.
None of them is inductive alone. The invariant `IInv` is `TypeOK`, the fact that
MyFuel's current ticket was issued, and for each run:

* `Undecided`: before its outcome is decided the run has no outcome that means
  something, and has told MyFuel nothing of an end;
* `Connection`: what QuickBooks holds is at most what the worker will close, at
  each place of the code;
* `Counts`: `executed` is the worker's count, or one more once it is leaving, and
  `accepted` is behind by one exactly between request and response;
* `LastOverrun`: a run that has overrun once is past the point where it could again;
* `SessionOver`: past the POST that ends it, a run's session is not current, or that
  POST failed;
* `DoneComplete`: `done` came with MyFuel's word and no answer missing.

The proof that a step preserves it has one lemma per action. Each is about the
run that moves; `StepOfRun` lifts it to all runs, because no action touches the
memory of another run, and `NoLongerCurrent` says that a session another party
ends can only help. The theorems combine `InitIInv`, `NextIInv` and the
consequence by temporal logic.

`QBWorkerRefinement` proves `RelaysOneSession` from the same invariant. A step moves
one run at most (`StepAlone`); what the abstract specification sees of that run,
`Seen`, either stays or moves as `RelaySession` allows (`StepMoves`), and
`MovesRefine` turns that into one of its actions. `EndsNoOtherSession` follows from
`StepAlone` too: whoever changes a worker's memory is that worker or its parent,
and the POST that ends a session names its ticket.

### The service

`ServiceRunsWorkers` (`SSpec => WSpec`) carries all of this over to the service.
`QBServiceProofs` then proves `ServiceTypeOK`, `OneWorkerAtATime`,
`SyncedMeansComplete` and `StoppedMeansClosed`. Its invariant `SInv` adds to `IInv`:

* `TickKnown`: a tick past its start has a ticket that was issued, and there is no
  tick while the service is down;
* `FewLeft`: the workers left behind are no more than the crashes. Left behind is a worker
  that runs code without the wait loop waiting for it (`Unwatched`), or was terminated and is
  neither on its way to its alarm nor has it (`Unreported`);
* `ResultMeansOver`: where a result has been put, QuickBooks is closed and the worker
  takes no further part, so what it says cannot become stale on its way;
* `SyncedOver`: what is recorded is complete and stays so.

`OwnRunStep` says what a worker's step may do to these, `ParentRunStep` and the lemmas
per conjunct what the runner's steps do. No step but a crash leaves anybody behind
(`UnwatchedStep`, `UnreportedStep`), and a crash only the worker of the tick it ends
(`FewLeftStep`). So the workers that run code are those and the one of the present tick:
`OneWorkerAtATime` for any number of crashes, and without one (`NobodyLeft`) what its name
says.

### Whose QuickBooks

`QBOwnProofs` proves `OnlyOwnQuickBooks` and `IdentifiedIsTarget` under `~ForeignDespiteOwn`
for as long as the service has not crashed; and `QuietRunIsClean`, of which only the last
conjunct, that the QuickBooks of the run has exited, has these two conditions. They are not
theorems about `QBWorker`: a worker that a crash left behind may launch an instance between
the two listings of another one (`stranger`). That is also the only harm such a worker does:
`UndisturbedOnlyOwnQuickBooks` proves both, for any number of crashes, of a service in which no
worker is about to begin its session while another is between its listings (`Undisturbed`).
In a life without a crash this is so because the runner has one worker at a time
(`NobodyDisturbs`, from `NobodyLeft`). Then whatever appears between the listings
(`processes.py:65`) is what the worker is connected to. `OwnInv` follows that
through a run: what ran when it connected it had listed (`Listed`), what it had not listed is
its target, and that is another user's only if none of ours runs (`Explained`); so the answer
of `identify_own_instance` (`IdentifyNew`) is the target, as long as it runs (`Identified`), and
it reaches the parent before the result (`Reported`). `LeaveKept`, `GoesOn` and `StaysThere`
are the shapes of a worker's steps, `OtherRun` says that an instance that exits, or is
launched while the run is not between its listings, changes nothing for it. A launch takes an instance
that never ran before, so the target of a run that is over cannot come back
(`OwnStep`). `QuietRunIsClean` adds three conjuncts: a result is put when the session is over
(`ResultEndsSession`), a tick that waits for QuickBooks without an alarm holds a result that
is no failure (`QuietTick`), and what a run left when it ended stays so (`QuietEnded`).

### The time of a stop

`StopBudgetProofs` proves `StopBound`, `StopOfRunWithinHint`, `FullGrace` and `RunBound`.
The second and third are what is left of the wait hint's promise, the last is `LoggedOut`
with a number: a worker that hangs is terminated a second after its time at the latest. All
hold for any length of a unit, any `CloseWait` and any `MaxRun` in `Nat`, and any number of
`Phases` (`BudgetAssumption`), so for POSTs of any length. Beside its POSTs a stop takes at most
63 s and `CloseWait`; five POSTs come on top, and the one to `session/start` if that is
where it finds the service. Found anywhere else, a stop is within the hint if `CloseWait` and
five POSTs take 117 s at most, which is an assumption of `StopOfRunIsWithinHint`: with the
default of 60 s it holds if none of the POSTs takes more than 11 s, and nothing in the code
sees to that. `now` and the place alone are not inductive: the invariant says
that `now` plus `Remaining`, the longest the rest of the tick can take from each place, stays
within the bound of the place the stop found, where what is left of the grace period counts
down against `now` (`Counting`). The clock is looked at once a second, so each countdown
may be overdrawn by a second, and the grace period begins up to a second after the stop:
that is where the bound is longer than the sum of the timeouts. `RunCounting` says the same of
the worker's time: where the loop goes on, it is not over.

### The site

`SiteProofs` holds for any integrations, tasks and contents of the files, under
`SettingsAssumption`, `SiteAssumption` and `TaskAssumption`. `StopsOnlyWhenAsked` and
`NothingRunsAfterStop` follow from `LoopsInv`: the stop event of the loops is set only by a
stop of the service (`StopTravels`), and a phase past the loops has none running (`LoopsEnd`), whether they ended
by themselves or were cancelled (`CancelMoves`).
`AuthorizedAppIsUsed` needs to relate what two programs have read of a file that changes:
the invariant says that what each has read is the file, as long as it is at the version of
its reading, and that two readings of one version agree on the app. The command implements
`RelaySession`: `CommandInv` says at which places it holds QuickBooks, not at its exit, and
that it has sent no request before the one place that sends it.

`SiteHasTypes` is more than bookkeeping in one place: that settings which could be loaded are a
URL, a token, an app and an interval of ten seconds or more is what `load_settings` checks in
four places, between which the file may change (`LoadedIsSettings`). `SiteRunsLoops` says that
`Site` implements `TaskLoops`, so the start, the file and the command do nothing to the loops
that `TaskLoops` does not allow.

### Orders and feeds

`IntegrationsProofs` proves the three properties of `PdiOrders`, under `OrdersAssumption`:
`Orders` is finite, without which a tick would have no sequence of them. `EveryOrderIsTried`
follows from `Batched` and `InOrder` - with PDI's address, what was sent, followed by what is
left, is what was handed out (`InTurn`); without it nothing was sent; `RepeatsOnlyAfterFailure` from `Bounded`, an account of each order in which an
execution is paid for by a failure or is the one MyFuel is still to be told of;
`KnownMeansExecuted` from `TellsTruth`. It proves the properties of `Feeds` under
`FeedAssumption`, for each feed by itself: a push that is still to be applied is of a tick
somebody knows of (`DelayedKnown`), nothing on its way from SmartTank is empty
(`NothingEmpty`), and a quiet tick in its push has its own document in hand (`TickQuiet`).
`IntegrationsRunBoth` carries both over: a step of the service with all tasks is a step, a stutter, of each part, so sharing a service and its crash costs neither its guarantees
(nor its types, `IntegrationsHaveTypes`).

### The log files

`LogRelayProofs` holds for any number of workers, of records and any size of the pipe, under
`LogAssumption`. `FilesHoldABeginning` and `StopLosesNoRecord` need one invariant. For each
worker, `InOneLine`: there are two numbers `a <= b`, such that the files hold its records up
to `a` but for those in `failed` (`Writable`), the pipe those after `a` up to `b`, and its buffer,
unless it was killed, the rest - each a set of numbers that the places of this worker in a
sequence have in order, the records of other workers in between not counting (`Holds`).
`OwnRecords` says that a buffer holds nobody else's records, and none when its worker is not
alive; `NoneIsLast` that the `None` of the service comes when no worker is alive and so is
behind every record, on the way and in the pipe. That is what makes the end of the listener the
end of the records. It needs `run_relay` to wait for the loops, and so for their workers,
before it stops the listener, which `StopListener_WithoutWaiting` does not. The lemmas say what a queue holds of a worker when a record
is appended (`AppendNext`, `AppendOther`) and when its head is taken (`TailNext`,
`TailOther`), `AppendToStretch` and `TailOfStretch` what that makes of a stretch of numbers,
`NextWritable` what it makes of those that can be written; `KeepsABeginning` and `NothingLostAtStop` are stated with `Holds` and not with
`SelectSeq`, whose result for every sequence would need an induction over data.

### Only model-checked

All liveness, which is outside the prover's reach, as is `ENABLED`: `LoggedOut` and
`StopCompletes` in `live`, `StopIsHeard` and `LoopsGoOn` in `site`, `ExitNotHeldUp` and
`ServiceExits` in `log_relay`. Of the first two, `RunIsBounded` and `StopIsBounded` prove the
part that can be said with clocks. Every invariant and every action property of a passing
run is proved.

### Not modelled

* Console mode (Ctrl+C reaches the worker's process too) and the command line: only
  developers run it; the service's way through the same loops is `TaskLoops`.
* The texts: requests and answers, SOAP, orders beyond the action found in them, hresults,
  log records and the set-up of log files. `PdiOrders` takes from the SOAP module only
  which answers mean yes.
* Rows of the integration log and messages to Sentry, whose failures are caught where they
  happen and change nothing else (monitoring and the integration log are therefore
  `not_modelled`; that an alarm was raised is recorded where a property is about it).
* Which token belongs to which API: nothing in the code relates them, so a `relay.json`
  and a `.env` of different installs are accepted, in the model as in the code.
* Where the two halves of the secrets come from: a variable in the environment wins over a
  rotated `.env`, which `Environ` says; that the tool empties `.env` before it writes is in
  `EnvFiles`. No document says what ought to happen, so there is no property of it.
* A `session/start` answer whose fields cannot be read. The tick then ends with a worker that
  was started and is not waited for (`runner.py:107`, `109`), but the worker reads the same
  fields before it opens QuickBooks (`worker.py:55-58`).
* How `psutil` reads the process table; a session id it cannot tell is taken as one that is
  equal to another such.
* Building and packaging.

## 5. Plan

1. Done: worker, runner, service, their runs; the invariants of both, the
   refinement, and the theorems of section 4.
2. Done: `StopBudget`; `Site` with `Settings`, `Authorize` and `TaskLoops`; `Integrations`
   with `PdiOrders` and `Feeds`; their runs and their theorems.
3. Done: `QBOwnProofs`, whose QuickBooks a run drives.
4. Done: `LogRelayProofs`; the types of every component; what crashes leave behind
   (`FewLeft`); the time of a run.
5. Left: an abstract specification of the tick that `QBService` and `StopBudget` are both
   shown to implement.

Not planned: build scripts, SOAP texts, Sentry, the encryption of secrets.
