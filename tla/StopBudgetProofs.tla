------------------------- MODULE StopBudgetProofs -------------------------
(***************************************************************************)
(* Proofs about StopBudget, for any granularity of time, any               *)
(* SYNC_QB_CloseWaitSecs, any time for a run and any number of phases of a *)
(* POST.  The argument is one of budgets: Remaining says how long the code *)
(* still takes at most from where it is, every step spends no more than it *)
(* takes off that, and it fits the bound when the stop comes.              *)
(***************************************************************************)
EXTENDS StopBudget, TLAPS

\* A countdown may be overdrawn by what the last call before it is looked at takes.
Countdown(n) == IF n > 0 THEN n + Second ELSE 0

\* What a stop may still take.
Remaining ==
  CASE pc = "stopped" -> 0
    [] pc \in {"sleep", "listener"} -> 5 * Second
    [] pc = "synced" -> 5 * Second + PostLimit
    [] pc = "closeEvent" -> 5 * Second + 2 * PostLimit
    [] pc = "verify" -> 5 * Second + 2 * PostLimit + Countdown(left)
    [] pc = "endKilled" -> 6 * Second + 3 * PostLimit + CloseWait
    [] pc = "event" -> 6 * Second + 4 * PostLimit + CloseWait
    [] pc = "killWait" -> 16 * Second + 4 * PostLimit + CloseWait
    [] pc \in {"alive", "join"} ->
         16 * Second + 4 * PostLimit + CloseWait
           + (IF passed THEN Countdown(left) ELSE 47 * Second)
    [] pc = "heartbeat" -> 63 * Second + 5 * PostLimit + CloseWait
    [] pc = "start" -> 63 * Second + 5 * PostLimit + CloseWait + StartLimit

Budget ==
  63 * Second + 5 * PostLimit + CloseWait + (IF found = "start" THEN StartLimit ELSE 0)

\* The clock starts with the stop, the grace period when the worker is asked, which is
\* once it runs, and the wait for QuickBooks where the code enters it.
Counting ==
  /\ passed => asked
  /\ ~asked => now = 0
  /\ pc \in {"start", "heartbeat"} => ~passed
  /\ pc \in {"alive", "join"} /\ passed => left > 0 /\ now + left >= 45 * Second
  /\ pc = "verify" => left <= CloseWait

\* The worker's clock runs while it is waited for; past its time the loop is left.
RunCounting ==
  /\ pc \notin {"alive", "join", "killWait", "event", "endKilled"} => ran = 0
  /\ pc \in {"alive", "join"} => ran = 0 \/ ran < MaxRun

Within == asked => now + Remaining <= Budget

IInv == TypeOK /\ Counting /\ RunCounting /\ Within /\ FullGrace /\ RunBound

-----------------------------------------------------------------------------

\* How long a POST takes is a number; no more is used of it.
LEMMA LimitTypes == PostLimit \in Nat /\ StartLimit \in Nat
<1>1. \A a, b \in Nat : a * b \in Nat
  OBVIOUS
<1>2. StartTimeout \in Nat /\ PostTimeout \in Nat /\ Phases \in Nat
  BY BudgetAssumption DEF StartTimeout, PostTimeout
<1> QED
  BY <1>1, <1>2 DEF StartLimit, PostLimit

LEMMA InitIInv ==
  ASSUME Init
  PROVE  IInv
<1>1. asked \in BOOLEAN /\ passed \in BOOLEAN
  BY DEF Init
<1>2. TypeOK
  BY <1>1 DEF Init, TypeOK, PCs
<1>3. Counting /\ RunCounting /\ Within /\ FullGrace /\ RunBound
  BY DEF Init, Counting, RunCounting, Within, FullGrace, RunBound
<1> QED
  BY <1>2, <1>3 DEF IInv

\* Each call takes no more than the difference between the budgets of the two
\* places; a countdown takes the calls it is made of.
LEMMA NextIInv ==
  ASSUME IInv, [Next]_vars
  PROVE  IInv'
<1> USE BudgetAssumption, LimitTypes
        DEF IInv, TypeOK, PCs, Counting, RunCounting, Within, FullGrace, RunBound, Remaining,
            Countdown, Budget, StopGrace, JoinTimeout
<1>1. CASE SvcStop
  BY <1>1 DEF SvcStop
<1>2. CASE TickStart \/ LoopExit
  BY <1>2 DEF TickStart, LoopExit
<1>3. CASE PostStart
  <2>1. PICK d \in 0 .. StartLimit : Pass(d)
    BY <1>3 DEF PostStart, Call
  <2>2. d \in Nat /\ d <= StartLimit
    BY <2>1
  <2> QED
    BY <1>3, <2>1, <2>2 DEF PostStart, Call, Pass
<1>4. CASE Heartbeat
  <2>1. PICK d \in 0 .. PostLimit : Pass(d)
    BY <1>4 DEF Heartbeat, Call
  <2>2. d \in Nat /\ d <= PostLimit
    BY <2>1
  <2> QED
    BY <1>4, <2>1, <2>2 DEF Heartbeat, Call, Pass
<1>5. CASE WorkerGone \/ WorkerAlive
  BY <1>5 DEF WorkerGone, WorkerAlive, AfterWorker, Returned
<1>6. CASE Join
  <2>1. PICK d \in 0 .. Second :
          /\ Pass(d)
          /\ ran' = ran + d
          /\ left' = IF passed THEN left - d ELSE IF asked THEN StopGrace ELSE left
    BY <1>6 DEF Join
  <2>2. d \in Nat /\ d <= Second
    BY <2>1
  <2>3. /\ now' \in Nat /\ left' \in Int /\ now' = IF asked THEN now + d ELSE now
        /\ ran' \in Nat /\ (ran' >= MaxRun \/ ran' < MaxRun)
    BY <2>1, <2>2 DEF Pass
  <2>4. /\ pc = "join" /\ passed' = asked
        /\ UNCHANGED <<asked, found>>
    BY <1>6 DEF Join
  <2>5. \/ ran' >= MaxRun /\ killed' = "hard" /\ pc' = "killWait"
        \/ ran' < MaxRun /\ passed' /\ left' <= 0 /\ killed' = "grace" /\ pc' = "killWait"
        \/ ran' < MaxRun /\ ~(passed' /\ left' <= 0) /\ killed' = killed /\ pc' = "alive"
    <3>1. \/ HardOver /\ killed' = "hard" /\ pc' = "killWait"
          \/ ~HardOver /\ GraceOver /\ killed' = "grace" /\ pc' = "killWait"
          \/ ~HardOver /\ ~GraceOver /\ killed' = killed /\ pc' = "alive"
      BY <1>6 DEF Join
    <3> QED
      BY <2>3, <3>1 DEF HardOver, GraceOver
  <2>6. TypeOK'
    BY <2>3, <2>4, <2>5
  <2>7. Counting'
    BY <2>1, <2>2, <2>3, <2>4, <2>5
  <2>8. Within'
    BY <2>1, <2>2, <2>3, <2>4, <2>5
  <2>9. FullGrace'
    BY <2>1, <2>2, <2>3, <2>4, <2>5
  <2>10. RunCounting' /\ RunBound'
    BY <2>1, <2>2, <2>3, <2>4, <2>5
  <2> QED
    BY <2>6, <2>7, <2>8, <2>9, <2>10
<1>7. CASE WaitKilled \/ TimeoutEvent
  BY <1>7 DEF WaitKilled, TimeoutEvent, Call, Pass, KillWait
<1>8. CASE EndKilled
  BY <1>8 DEF EndKilled, Pass, AfterWorker, Returned
<1>9. CASE QuickBooksExited \/ QuickBooksRuns
  BY <1>9 DEF QuickBooksExited, QuickBooksRuns, Pass, Returned
<1>10. CASE CloseEvent \/ Synced \/ StopListener
  BY <1>10 DEF CloseEvent, Synced, StopListener, Call, Pass, ListenerWait
<1>11. CASE UNCHANGED vars
  BY <1>11 DEF vars
<1> QED
  BY <1>1, <1>2, <1>3, <1>4, <1>5, <1>6, <1>7, <1>8, <1>9, <1>10, <1>11 DEF Next

THEOREM Invariance == Spec => []IInv
<1>1. Init => IInv
  BY InitIInv
<1>2. IInv /\ [Next]_vars => IInv'
  BY NextIInv
<1> QED
  BY <1>1, <1>2, PTL DEF Spec

-----------------------------------------------------------------------------

LEMMA RemainingNatural ==
  ASSUME TypeOK
  PROVE  Remaining \in Nat
BY BudgetAssumption, LimitTypes DEF TypeOK, PCs, Remaining, Countdown

\* Beside its POSTs a stop takes no longer than StopBound says, wherever it finds the
\* service and whatever hangs or fails; how long these take is a parameter, because
\* httpx bounds each phase of a POST and not the whole (runner.py:53-164).
THEOREM StopIsBounded == Spec => []StopBound
<1>1. IInv => StopBound
  BY RemainingNatural, BudgetAssumption, LimitTypes DEF IInv, TypeOK, Within, Budget, StopBound
<1> QED
  BY <1>1, Invariance, PTL

\* The wait hint covers every stop but one that comes while session/start is asked, if
\* SYNC_QB_CloseWaitSecs and the five POSTs leave it that: they do with the default of
\* 60 s as long as none of the POSTs takes more than 11 s (service.py:20-23).
THEOREM StopOfRunIsWithinHint ==
  ASSUME CloseWait + 5 * PostLimit <= 117 * Second
  PROVE  Spec => []StopOfRunWithinHint
<1>1. IInv => TypeOK
  BY DEF IInv
<1>2. TypeOK /\ StopBound => StopOfRunWithinHint
  <2>1. now \in Nat /\ now <= 63 * Second + CloseWait + 5 * PostLimit => now <= WaitHint
    BY BudgetAssumption, LimitTypes DEF WaitHint
  <2>2. TypeOK /\ StopBound /\ asked /\ found # "start" =>
          now <= 63 * Second + CloseWait + 5 * PostLimit
    BY BudgetAssumption, LimitTypes DEF TypeOK, StopBound
  <2> QED
    BY <2>1, <2>2 DEF TypeOK, StopOfRunWithinHint, StopWithinHint
<1> QED
  BY <1>1, <1>2, Invariance, StopIsBounded, PTL

\* A worker that is terminated for a stop has had its whole grace period, so QuickBooks
\* is not cut off early (runner.py:117-125).
THEOREM GraceIsFull == Spec => []FullGrace
<1>1. IInv => FullGrace
  BY DEF IInv
<1> QED
  BY <1>1, Invariance, PTL

\* The runner terminates a worker a second after its time is over at the latest, whatever
\* it hangs in and however often the runner is asked to stop (runner.py:109-130, README.md:72).
THEOREM RunIsBounded == Spec => []RunBound
<1>1. IInv => RunBound
  BY DEF IInv
<1> QED
  BY <1>1, Invariance, PTL

=============================================================================
