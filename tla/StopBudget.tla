---------------------------- MODULE StopBudget ----------------------------
(***************************************************************************)
(* How long a stop takes, and a worker: the tick of QBService once more,   *)
(* with the time each of its calls may take and without what they do.  One *)
(* clock starts with SvcStop (relay/service.py), which may find the task   *)
(* loop anywhere, the other with the worker; the limits are the timeouts   *)
(* the code gives its calls.                                               *)
(*                                                                         *)
(* A call takes any time up to its limit.  The limit of a POST is not the  *)
(* timeout the code gives it: httpx applies that to connecting, to each    *)
(* write and to each read by itself, and nothing limits how many there     *)
(* are.  Phases says how many of them may take as long as that, so every   *)
(* bound is one in terms of Phases.  What has no limit in the code and is  *)
(* over at once as a rule (starting a process, writing a log line) takes   *)
(* no time here.                                                           *)
(***************************************************************************)
EXTENDS Integers

CONSTANTS
  Second,      \* in units of the model
  CloseWait,   \* SYNC_QB_CloseWaitSecs, in the same units
  MaxRun,      \* SYNC_QB_MaxSessionMins and WORKER_TIMEOUT_GRACE_SECONDS
  Phases       \* in how many of its phases a POST may take its whole timeout

ASSUME BudgetAssumption ==
  /\ Second \in Nat \ {0} /\ CloseWait \in Nat /\ MaxRun \in Nat
  /\ Phases \in Nat \ {0}

StartTimeout == 30 * Second    \* httpx timeout of POST session/start
PostTimeout == 10 * Second     \* ... and of the other POSTs
StartLimit == Phases * StartTimeout    \* what the whole of these POSTs takes
PostLimit == Phases * PostTimeout
JoinTimeout == Second          \* of the join in the wait loop
StopGrace == 45 * Second       \* STOP_GRACE_SECONDS
KillWait == 10 * Second        \* of the join after terminate()
ListenerWait == 5 * Second     \* of the join of the log listener
WaitHint == 180 * Second       \* STOP_WAIT_HINT_MS

VARIABLES
  pc,       \* where the loop is, named as in QBService
  asked,    \* SvcStop has been called
  now,      \* how long ago
  found,    \* where it found the loop
  passed,   \* the worker has been asked to stop
  left,     \* what is left of its grace period, or of the wait for QuickBooks
  ran,      \* how long the runner has been waiting for it
  killed    \* whether and why the worker was terminated

vars == <<pc, asked, now, found, passed, left, ran, killed>>

PCs == {"sleep", "start", "heartbeat", "alive", "join", "killWait", "event",
        "endKilled", "verify", "closeEvent", "synced", "listener", "stopped"}

TypeOK ==
  /\ pc \in PCs /\ found \in PCs
  /\ asked \in BOOLEAN /\ passed \in BOOLEAN
  /\ now \in Nat /\ left \in Int /\ ran \in Nat
  /\ killed \in {"no", "hard", "grace"}

Init ==
  /\ pc = "sleep" /\ found = "sleep"
  /\ asked = FALSE /\ passed = FALSE
  /\ now = 0 /\ left = 0 /\ ran = 0
  /\ killed = "no"

-----------------------------------------------------------------------------

\* Time is only looked at once the stop has come.
Pass(d) == now' = IF asked THEN now + d ELSE now

\* A call that takes up to limit and leads to one of the places in next.
Call(at, limit, next) ==
  /\ pc = at
  /\ \E d \in 0 .. limit : Pass(d)
  /\ pc' \in next

SvcStop ==
  /\ ~asked /\ pc # "stopped"
  /\ asked' = TRUE
  /\ found' = pc
  /\ UNCHANGED <<pc, now, passed, left, ran, killed>>

\* The loop looks at the stop; its sleep ends when one comes.
TickStart ==
  /\ pc = "sleep" /\ ~asked
  /\ pc' = "start"
  /\ killed' = "no"
  /\ UNCHANGED <<asked, now, found, passed, left, ran>>

LoopExit ==
  /\ pc = "sleep" /\ asked
  /\ pc' = "listener"
  /\ UNCHANGED <<asked, now, found, passed, left, ran, killed>>

\* An exception or run: false end the tick.  A run: true is followed whether or
\* not a stop has come since.
PostStart ==
  /\ Call("start", StartLimit, {"sleep", "heartbeat", "alive"})
  /\ UNCHANGED <<asked, found, passed, left, ran, killed>>

Heartbeat ==
  /\ Call("heartbeat", PostLimit, {"sleep", "alive"})
  /\ UNCHANGED <<asked, found, passed, left, ran, killed>>

-----------------------------------------------------------------------------
(* The wait for the worker                                                 *)

\* After the worker: the wait for its QuickBooks, if it reported one; then the
\* heartbeat of a run that is done - a worker that was terminated may have been.
Returned == pc' \in {"synced", "sleep"} /\ left' = left

AfterWorker ==
  /\ Returned \/ (pc' = "verify" /\ left' = CloseWait)
  /\ ran' = 0

WorkerGone ==
  /\ pc = "alive"
  /\ AfterWorker
  /\ UNCHANGED <<asked, now, found, passed, killed>>

WorkerAlive ==
  /\ pc = "alive"
  /\ pc' = "join"
  /\ UNCHANGED <<asked, now, found, passed, left, ran, killed>>

\* Mutation of HardOver: the deadline of a stop takes its place.
HardOver_BeforeStop == ~asked /\ ran' >= MaxRun

\* The deadlines, each counted from when it was set.
HardOver == ran' >= MaxRun

\* Mutation of GraceOver: the deadline is looked at before it is set.
GraceOver_NotYetSet == asked /\ left <= 0

GraceOver == passed' /\ left' <= 0

\* Mutation of Join: the grace period begins anew each time the stop is looked at.
Join_GraceBeginsAnew ==
  /\ pc = "join"
  /\ \E d \in 0 .. JoinTimeout :
       /\ Pass(d)
       /\ ran' = ran + d
       /\ left' = IF asked THEN StopGrace ELSE left
  /\ passed' = asked
  /\ \/ HardOver /\ killed' = "hard" /\ pc' = "killWait"
     \/ ~HardOver /\ GraceOver /\ killed' = "grace" /\ pc' = "killWait"
     \/ ~HardOver /\ ~GraceOver /\ killed' = killed /\ pc' = "alive"
  /\ UNCHANGED <<asked, found>>

\* One second at most; then the stop is passed on, once, with the grace period
\* that begins there, and the deadlines are looked at.
Join ==
  /\ pc = "join"
  /\ \E d \in 0 .. JoinTimeout :
       /\ Pass(d)
       /\ ran' = ran + d
       /\ left' = IF passed THEN left - d ELSE IF asked THEN StopGrace ELSE left
  /\ passed' = asked
  /\ \/ HardOver /\ killed' = "hard" /\ pc' = "killWait"
     \/ ~HardOver /\ GraceOver /\ killed' = "grace" /\ pc' = "killWait"
     \/ ~HardOver /\ ~GraceOver /\ killed' = killed /\ pc' = "alive"
  /\ UNCHANGED <<asked, found>>

\* The join after terminate(), the QBWorkerTimeout event, session/end.
WaitKilled ==
  /\ Call("killWait", KillWait, {"event"})
  /\ UNCHANGED <<asked, found, passed, left, ran, killed>>

TimeoutEvent ==
  /\ Call("event", PostLimit, {"endKilled"})
  /\ UNCHANGED <<asked, found, passed, left, ran, killed>>

EndKilled ==
  /\ pc = "endKilled"
  /\ \E d \in 0 .. PostLimit : Pass(d)
  /\ AfterWorker
  /\ UNCHANGED <<asked, found, passed, killed>>

-----------------------------------------------------------------------------
(* After the worker                                                        *)

QuickBooksExited ==
  /\ pc = "verify"
  /\ Returned
  /\ UNCHANGED <<asked, now, found, passed, ran, killed>>

\* The clock is looked at between sleeps of a second.
QuickBooksRuns ==
  /\ pc = "verify"
  /\ IF left <= 0
     THEN pc' = "closeEvent" /\ UNCHANGED <<now, left>>
     ELSE pc' = pc /\ Pass(Second) /\ left' = left - Second
  /\ UNCHANGED <<asked, found, passed, ran, killed>>

CloseEvent ==
  /\ Call("closeEvent", PostLimit, {"synced", "sleep"})
  /\ UNCHANGED <<asked, found, passed, left, ran, killed>>

Synced ==
  /\ Call("synced", PostLimit, {"sleep"})
  /\ UNCHANGED <<asked, found, passed, left, ran, killed>>

StopListener ==
  /\ Call("listener", ListenerWait, {"stopped"})
  /\ UNCHANGED <<asked, found, passed, left, ran, killed>>

-----------------------------------------------------------------------------

Next ==
  \/ SvcStop \/ TickStart \/ LoopExit \/ PostStart \/ Heartbeat
  \/ WorkerGone \/ WorkerAlive \/ Join \/ WaitKilled \/ TimeoutEvent \/ EndKilled
  \/ QuickBooksExited \/ QuickBooksRuns \/ CloseEvent \/ Synced \/ StopListener

Spec == Init /\ [][Next]_vars

-----------------------------------------------------------------------------
(* Properties                                                              *)

\* What service.py:20-23 and README.md:189 say of a stop: the wait hint covers its
\* worst case.
StopWithinHint == asked => now <= WaitHint

\* What is so, as long as the POSTs leave time for it: the hint covers a stop that does
\* not find the service waiting for the answer to session/start, which may still start
\* a run (runner.py:54-62).
StopOfRunWithinHint == found # "start" => StopWithinHint

\* The longest a stop may take, given where it finds the service and how long a POST
\* may: five of them, and one more for session/start, are on the stop's time
\* (runner.py:54-164, main.py:76-80).  The code bounds no POST as a whole, so this is
\* what a stop takes of time beside its POSTs.
StopBound ==
  asked =>
    now <= 63 * Second + CloseWait + 5 * PostLimit + (IF found = "start" THEN StartLimit ELSE 0)

\* A worker is terminated for a stop only when it has had the whole grace period
\* to finish its request and close (runner.py:117-125, README "Never left logged in").
FullGrace == killed = "grace" => asked /\ now >= StopGrace

\* Whatever a worker hangs in, the runner waits for it no longer than README.md:72
\* says before it terminates it, and the second its look at the clock may be late.
RunBound == pc \in {"alive", "join", "killWait"} => ran <= MaxRun + JoinTimeout

=============================================================================
