--------------------------- MODULE QBWorkerProofs ---------------------------
(***************************************************************************)
(* Theorems about QBWorker, for any number of runs, QuickBooks processes   *)
(* and requests, with runs overlapping in any way.                         *)
(***************************************************************************)
EXTENDS QBWorker, TLAPS

(***************************************************************************)
(* The inductive invariant: what the program points of a run know, as a    *)
(* relation between its worker x, its link to QuickBooks l, its session s  *)
(* on MyFuel, and whether that session is MyFuel's current one.  Nothing   *)
(* is known of a process that is being terminated but what it owes to the  *)
(* steps it took before.                                                   *)
(***************************************************************************)

\* Until the try block is left, no outcome has been chosen and nothing reported.
Undecided(x) ==
  x.pc \in {"idle"} \cup Opening \cup Relaying => x.outcome = "error" /\ ~x.reported

\* The `finally` knows of everything QuickBooks may hold.
Connection(x, l) ==
  /\ x.pc \in {"idle", "before", "create"} => x.stage = "none"
  /\ x.pc \in {"open", "begin", "beginning"} \cup Relaying => x.stage # "none"
  /\ x.pc \in {"idle"} \cup Executing /\ x.stage = "none" => l.com = "none"
  /\ x.pc \in Opening \cup Relaying \cup Closing /\ x.stage # "none" => l.com # "none"
  /\ x.pc \in {"idle"} \cup Finishing \cup {"exited", "dead"} => l.com = "none"

\* Requests counted by the worker, executed by QuickBooks, accepted by MyFuel.
Counts(x, l, s) ==
  /\ l.executed = s.accepted \/ l.executed = s.accepted + 1
  /\ l.executed <= MaxRequests
  /\ x.pc \in {"idle", "identify"} \cup Opening => x.requests = 0 /\ l.executed = 0
  /\ x.pc \in Relaying => x.requests = l.executed
  /\ x.pc \in {"loop", "next", "request"} => l.executed = s.accepted
  /\ x.pc \in {"next", "request"} => l.executed < MaxRequests
  /\ x.pc = "response" => l.executed = s.accepted + 1

\* A request executed too late is the last one.
LastOverrun(x, l, cur) ==
  /\ l.overrun <= 1
  /\ x.pc \in {"idle", "identify", "next", "request"} \cup Opening => l.overrun = 0
  /\ x.pc = "loop" /\ l.overrun = 1 => x.stop \/ x.expired
  /\ x.pc = "response" /\ l.overrun = 1 => x.stop \/ x.expired \/ ~cur

SessionOver(x, s, cur) ==
  x.reported \/ x.pc \in {"putResult", "exiting", "exited"} => ~cur \/ s.endFailed

DoneComplete(x, l, s) ==
  x.outcome = "done" => s.saidDone /\ s.accepted = l.executed

RunInv(x, l, s, cur) ==
  /\ Undecided(x) /\ Connection(x, l) /\ Counts(x, l, s) /\ LastOverrun(x, l, cur)
  /\ SessionOver(x, s, cur) /\ DoneComplete(x, l, s)

IInv ==
  /\ TypeOK
  /\ current \in issued \cup {NoRun}
  /\ \A r \in Runs : /\ RunInv(w[r], link[r], sess[r], current = r)
                     /\ w[r].pc # "idle" => r \in issued

LEMMA InitIInv == WInit => IInv
<1>1. SUFFICES ASSUME WInit PROVE IInv
  OBVIOUS
<1>2. TypeOK
  BY <1>1, ConstantsAssumption DEF WInit, TypeOK, NewWorker, WorkerState, LinkState,
     SessionState, PCs, Executing, Opening, Relaying, Closing, Finishing, Stages,
     Outcomes, LimitOutcomes, Messages
<1>3. \A r \in Runs : RunInv(w[r], link[r], sess[r], current = r)
  BY <1>1, ConstantsAssumption DEF WInit, NewWorker, RunInv, Undecided, Connection,
     Counts, LastOverrun, SessionOver, DoneComplete, Executing, Opening, Relaying, Closing, Finishing
<1>4. QED
  BY <1>1, <1>2, <1>3 DEF WInit, IInv, NewWorker

\* A run whose session stops being current, or stays it, keeps its invariant.
LEMMA NoLongerCurrent ==
  ASSUME NEW x, NEW l, NEW s, NEW b \in BOOLEAN, NEW c \in BOOLEAN,
         RunInv(x, l, s, b), c => b
  PROVE  RunInv(x, l, s, c)
BY DEF RunInv, LastOverrun, SessionOver

\* A step of run q may touch q's own state; of the rest it may only end
\* sessions, hand out new tickets, and start or end QuickBooks processes.
LEMMA StepOfRun ==
  ASSUME IInv, NEW q \in Runs,
         NEW x \in WorkerState, NEW l \in LinkState, NEW s \in SessionState,
         w' = [w EXCEPT ![q] = x], link' = [link EXCEPT ![q] = l],
         sess' = [sess EXCEPT ![q] = s],
         own' \subseteq spawned', spawned' \subseteq Procs,
         issued' \subseteq Runs, issued \subseteq issued',
         current' \in issued' \cup {NoRun},
         \A r \in Runs \ {q} : current' = r => current = r,
         RunInv(x, l, s, current' = q), x.pc # "idle" => q \in issued'
  PROVE  IInv'
<1>1. TypeOK'
  BY ConstantsAssumption DEF IInv, TypeOK
<1>2. ASSUME NEW r \in Runs, r # q
      PROVE RunInv(w[r], link[r], sess[r], current' = r)
  <2>1. RunInv(w[r], link[r], sess[r], current = r)
    BY DEF IInv
  <2>2. (current' = r) => (current = r)
    BY <1>2
  <2>3. (current' = r) \in BOOLEAN /\ (current = r) \in BOOLEAN
    OBVIOUS
  <2>4. QED
    BY <2>1, <2>2, <2>3, NoLongerCurrent
<1>3. ASSUME NEW r \in Runs
      PROVE RunInv(w'[r], link'[r], sess'[r], current' = r)
  BY <1>2 DEF IInv, TypeOK
<1>4. \A r \in Runs : w'[r].pc # "idle" => r \in issued'
  BY DEF IInv, TypeOK
<1>5. QED
  BY <1>1, <1>3, <1>4 DEF IInv

-----------------------------------------------------------------------------
(* What a step knows of its run, and the usual shapes of a step            *)

LEMMA Here ==
  ASSUME IInv, NEW q \in Runs
  PROVE  /\ w[q] \in WorkerState /\ link[q] \in LinkState /\ sess[q] \in SessionState
         /\ RunInv(w[q], link[q], sess[q], current = q)
         /\ w[q].pc # "idle" => q \in issued
         /\ own \subseteq spawned /\ spawned \subseteq Procs /\ issued \subseteq Runs
         /\ current \in issued \cup {NoRun}
         /\ w = [w EXCEPT ![q] = w[q]]
         /\ link = [link EXCEPT ![q] = link[q]]
         /\ sess = [sess EXCEPT ![q] = sess[q]]
BY DEF IInv, TypeOK

\* The step of a worker process in its own memory.
LEMMA OwnMemory ==
  ASSUME IInv, NEW q \in Runs, NEW x \in WorkerState, Become(q, x),
         UNCHANGED <<link, sess, own, spawned, current, issued>>,
         RunInv(x, link[q], sess[q], current = q),
         x.pc # "idle" => q \in issued
  PROVE  IInv'
<1>1. /\ w' = [w EXCEPT ![q] = x]
      /\ link' = [link EXCEPT ![q] = link[q]]
      /\ sess' = [sess EXCEPT ![q] = sess[q]]
  BY Here DEF Become
<1>2. link[q] \in LinkState /\ sess[q] \in SessionState
  BY Here
<1>3. /\ own' \subseteq spawned' /\ spawned' \subseteq Procs /\ issued' \subseteq Runs
      /\ issued \subseteq issued' /\ current' \in issued' \cup {NoRun}
      /\ \A r \in Runs \ {q} : current' = r => current = r
      /\ current' = current
  BY Here
<1>4. RunInv(x, link[q], sess[q], current' = q) /\ (x.pc # "idle" => q \in issued')
  BY <1>3
<1>5. QED
  BY <1>1, <1>2, <1>3, <1>4, StepOfRun

\* ... or in its memory and in its link to QuickBooks.
LEMMA WithQuickBooks ==
  ASSUME IInv, NEW q \in Runs, NEW x \in WorkerState, NEW l \in LinkState,
         Become(q, x), link' = [link EXCEPT ![q] = l],
         own' \subseteq spawned', spawned' \subseteq Procs,
         UNCHANGED <<sess, current, issued>>,
         RunInv(x, l, sess[q], current = q),
         x.pc # "idle" => q \in issued
  PROVE  IInv'
<1>1. w' = [w EXCEPT ![q] = x] /\ sess' = [sess EXCEPT ![q] = sess[q]]
  BY Here DEF Become
<1>2. sess[q] \in SessionState
  BY Here
<1>3. /\ issued' \subseteq Runs /\ issued \subseteq issued' /\ current' \in issued' \cup {NoRun}
      /\ \A r \in Runs \ {q} : current' = r => current = r
      /\ current' = current
  BY Here
<1>4. QED
  BY <1>1, <1>2, <1>3, StepOfRun

LEMMA WithMyFuel ==
  ASSUME IInv, NEW q \in Runs, NEW x \in WorkerState, NEW s \in SessionState,
         Become(q, x), sess' = [sess EXCEPT ![q] = s],
         current' = current \/ (current = q /\ current' = NoRun),
         UNCHANGED <<link, own, spawned, issued>>,
         RunInv(x, link[q], s, current' = q),
         x.pc # "idle" => q \in issued
  PROVE  IInv'
<1>1. w' = [w EXCEPT ![q] = x] /\ link' = [link EXCEPT ![q] = link[q]]
  BY Here DEF Become
<1>2. link[q] \in LinkState
  BY Here
<1>3. /\ own' \subseteq spawned' /\ spawned' \subseteq Procs /\ issued' \subseteq Runs
      /\ issued \subseteq issued' /\ current' \in issued' \cup {NoRun}
      /\ \A r \in Runs \ {q} : current' = r => current = r
  BY Here, ConstantsAssumption
<1>4. QED
  BY <1>1, <1>2, <1>3, StepOfRun

\* Leaving the try block, with a reason or with an exception, is always sound,
\* whatever QuickBooks made of the call that raised.
Left(x, out) ==
  [x EXCEPT !.outcome = out,
            !.pc = IF out = "com_error" THEN "report" ELSE "endSession"]

LEMMA LeaveSound ==
  ASSUME NEW x \in WorkerState, NEW l \in LinkState, NEW s \in SessionState,
         NEW cur \in BOOLEAN, NEW out \in Outcomes,
         RunInv(x, l, s, cur), x.pc \in Opening \cup Relaying,
         out = "done" => s.saidDone /\ s.accepted = l.executed
  PROVE  /\ Left(x, out) \in WorkerState
         /\ RunInv(Left(x, out), l, s, cur)
         /\ Left(x, out).pc # "idle"
<1> USE DEF Left, Opening, Relaying, Closing, Finishing, Executing
<1>1. Left(x, out) \in WorkerState
  BY DEF WorkerState, PCs
<1>2. Left(x, out).pc \in {"report", "endSession"} /\ Left(x, out).outcome = out
  BY DEF WorkerState
<1>3. /\ Left(x, out).stage = x.stage /\ Left(x, out).requests = x.requests
      /\ Left(x, out).reported = x.reported
  BY DEF WorkerState
<1>4. QED
  BY <1>1, <1>2, <1>3 DEF RunInv, Undecided, Connection, Counts, LastOverrun, SessionOver,
     DoneComplete

-----------------------------------------------------------------------------
(* One lemma per action of run_worker                                      *)

LEMMA LeaveOwnMemory ==
  ASSUME IInv, NEW q \in Runs, NEW out \in Outcomes, Leave(q, out),
         w[q].pc \in Opening \cup Relaying,
         out = "done" => sess[q].saidDone /\ sess[q].accepted = link[q].executed,
         UNCHANGED <<link, sess, own, spawned, current, issued>>
  PROVE  IInv'
<1>1. /\ w[q] \in WorkerState /\ link[q] \in LinkState /\ sess[q] \in SessionState
      /\ RunInv(w[q], link[q], sess[q], current = q)
      /\ q \in issued
  BY Here DEF Opening, Relaying
<1>2. /\ Left(w[q], out) \in WorkerState
      /\ RunInv(Left(w[q], out), link[q], sess[q], current = q)
  BY <1>1, LeaveSound
<1>3. Become(q, Left(w[q], out))
  BY DEF Leave, Left
<1>4. QED
  BY <1>1, <1>2, <1>3, OwnMemory

\* The own-instance check answers with a process of the second listing or refuses.
LEMMA IdentifyRange ==
  ASSUME NEW b, NEW a PROVE identify_own_instance(b, a) \in a \cup {NoProc}
BY DEF identify_own_instance

LEMMA FindBeforeStep ==
  ASSUME IInv, NEW q \in Runs, FindBefore(q) PROVE IInv'
<1> DEFINE y == w[q]  l == link[q]  s == sess[q]  c == (current = q)
           x == [y EXCEPT !.before = own, !.pc = "create"]
<1>1. /\ y \in WorkerState /\ l \in LinkState /\ s \in SessionState /\ c \in BOOLEAN
      /\ RunInv(y, l, s, c) /\ y.pc = "before" /\ own \in SUBSET Procs
  BY Here DEF FindBefore, At
<1>2. CASE Leave(q, "error")
  BY <1>1, <1>2, LeaveOwnMemory DEF FindBefore, Opening, Outcomes
<1>3. CASE Become(q, x)
  <2> HIDE DEF y, l, s, c
  <2>1. x \in WorkerState /\ RunInv(x, l, s, c)
    BY <1>1 DEF WorkerState, PCs, Executing, Opening, RunInv, Undecided, Connection, Counts,
       LastOverrun, SessionOver, DoneComplete, Relaying, Finishing
  <2>2. q \in issued /\ UNCHANGED <<link, sess, own, spawned, current, issued>>
    BY <1>1, Here DEF FindBefore, y
  <2> HIDE DEF x
  <2>3. QED
    BY <1>3, <2>1, <2>2, OwnMemory DEF l, s, c
<1>4. QED
  BY <1>2, <1>3 DEF FindBefore

LEMMA CreateProcessorStep ==
  ASSUME IInv, NEW q \in Runs, CreateProcessor(q) PROVE IInv'
<1> DEFINE y == w[q]  l == link[q]  s == sess[q]  c == (current = q)
           x == [y EXCEPT !.stage = "rp", !.pc = "open"]
           m == [l EXCEPT !.com = "rp"]
<1>1. /\ y \in WorkerState /\ l \in LinkState /\ s \in SessionState /\ c \in BOOLEAN
      /\ RunInv(y, l, s, c) /\ y.pc = "create"
  BY Here DEF CreateProcessor, At
<1>2. CASE ComRaises(q) /\ UNCHANGED link
  BY <1>1, <1>2, LeaveOwnMemory DEF CreateProcessor, ComRaises, Opening, Outcomes
<1>3. CASE Become(q, x) /\ SetCom(q, "rp")
  <2>1. link' = [link EXCEPT ![q] = m]
    BY <1>3 DEF SetCom
  <2> HIDE DEF y, l, s, c
  <2>2. x \in WorkerState /\ m \in LinkState /\ RunInv(x, m, s, c)
    BY <1>1 DEF WorkerState, LinkState, Stages, PCs, Executing, Opening, RunInv, Undecided,
       Connection, Counts, LastOverrun, SessionOver, DoneComplete, Relaying, Finishing
  <2>3. /\ q \in issued /\ own' \subseteq spawned' /\ spawned' \subseteq Procs
        /\ UNCHANGED <<sess, current, issued>>
    BY <1>1, Here DEF CreateProcessor, y
  <2> HIDE DEF x, m
  <2>4. QED
    BY <1>3, <2>1, <2>2, <2>3, WithQuickBooks DEF s, c
<1>4. QED
  BY <1>2, <1>3 DEF CreateProcessor

LEMMA OpenConnectionStep ==
  ASSUME IInv, NEW q \in Runs, OpenConnection(q) PROVE IInv'
<1> DEFINE y == w[q]  l == link[q]  s == sess[q]  c == (current = q)
           x == [y EXCEPT !.stage = "connection", !.pc = "begin"]
           m == [l EXCEPT !.com = "connection"]
<1>1. /\ y \in WorkerState /\ l \in LinkState /\ s \in SessionState /\ c \in BOOLEAN
      /\ RunInv(y, l, s, c) /\ y.pc = "open"
  BY Here DEF OpenConnection, At
<1>2. CASE ComRaises(q) /\ UNCHANGED link
  BY <1>1, <1>2, LeaveOwnMemory DEF OpenConnection, ComRaises, Opening, Relaying, Outcomes
<1>3. CASE Become(q, x) /\ SetCom(q, "connection")
  <2>1. link' = [link EXCEPT ![q] = m] /\ Become(q, x)
    BY <1>3 DEF SetCom, Goto
  <2> HIDE DEF y, l, s, c
  <2>2. x \in WorkerState /\ x.pc = "begin" /\ x.stage = "connection"
        /\ x.requests = y.requests /\ x.outcome = y.outcome /\ x.reported = y.reported
        /\ x.stop = y.stop /\ x.expired = y.expired
    BY <1>1 DEF Stages, WorkerState, PCs, Executing, Opening, Relaying, Closing, Finishing
  <2>3. m \in LinkState /\ m.com = "connection" /\ m.executed = l.executed /\ m.overrun = l.overrun
    BY <1>1 DEF LinkState, Stages
  <2> HIDE DEF x, m
  <2>4. RunInv(x, m, s, c)
    BY <1>1, <2>2, <2>3
    DEF LinkState, SessionState, WorkerState, RunInv, Undecided, Connection, Counts,
       LastOverrun, SessionOver, DoneComplete, Opening, Relaying, Finishing, Closing, Executing
  <2>5. /\ q \in issued /\ own' \subseteq spawned' /\ spawned' \subseteq Procs
        /\ UNCHANGED <<sess, current, issued>>
    BY <1>1, Here DEF OpenConnection, y
  <2>6. QED
    BY <2>1, <2>2, <2>3, <2>4, <2>5, WithQuickBooks DEF s, c
<1>4. QED
  BY <1>2, <1>3 DEF OpenConnection

LEMMA BeginSessionStep ==
  ASSUME IInv, NEW q \in Runs, BeginSession(q) PROVE IInv'
<1> DEFINE y == w[q]  l == link[q]  s == sess[q]  c == (current = q)
           x == [y EXCEPT !.pc = "beginning"]
<1>1. /\ y \in WorkerState /\ l \in LinkState /\ s \in SessionState /\ c \in BOOLEAN
      /\ RunInv(y, l, s, c) /\ y.pc = "begin"
  BY Here DEF BeginSession, At
<1>2. PICK t \in Procs \cup {Foreign, NoProc} : link' = [link EXCEPT ![q].target = t]
  <2>1. CASE UNCHANGED link
    BY <2>1, <1>1, Here DEF LinkState
  <2>2. CASE ~ UNCHANGED link
    BY <2>2, Here DEF BeginSession
  <2>3. QED
    BY <2>1, <2>2
<1> DEFINE m == [l EXCEPT !.target = t]
<1>3. link' = [link EXCEPT ![q] = m] /\ Become(q, x)
  BY <1>2 DEF BeginSession, Goto
<1>4. /\ q \in issued /\ own' \subseteq spawned' /\ spawned' \subseteq Procs
      /\ UNCHANGED <<sess, current, issued>>
  BY <1>1, Here DEF BeginSession
<1> HIDE DEF y, l, s, c
<1>5. x \in WorkerState /\ m \in LinkState /\ RunInv(x, m, s, c)
  BY <1>1 DEF WorkerState, LinkState, RunInv, Undecided, Connection, Counts,
       LastOverrun, SessionOver, DoneComplete, Opening, Relaying, Finishing, Closing, Executing, PCs
<1> HIDE DEF x, m
<1>6. QED
  BY <1>3, <1>4, <1>5, WithQuickBooks DEF s, c

LEMMA BeginSessionReturnsStep ==
  ASSUME IInv, NEW q \in Runs, BeginSessionReturns(q) PROVE IInv'
<1> DEFINE y == w[q]  l == link[q]  s == sess[q]  c == (current = q)
           x == [y EXCEPT !.stage = "session", !.pc = "identify"]
           m == [l EXCEPT !.com = "session"]
<1>1. /\ y \in WorkerState /\ l \in LinkState /\ s \in SessionState /\ c \in BOOLEAN
      /\ RunInv(y, l, s, c) /\ y.pc = "beginning"
  BY Here DEF BeginSessionReturns, At
<1>2. CASE ComRaises(q) /\ UNCHANGED link
  BY <1>1, <1>2, LeaveOwnMemory DEF BeginSessionReturns, ComRaises, Opening, Relaying, Outcomes
<1>3. CASE Become(q, x) /\ SetCom(q, "session")
  <2>1. link' = [link EXCEPT ![q] = m] /\ Become(q, x)
    BY <1>3 DEF SetCom, Goto
  <2> HIDE DEF y, l, s, c
  <2>2. x \in WorkerState /\ x.pc = "identify" /\ x.stage = "session"
        /\ x.requests = y.requests /\ x.outcome = y.outcome /\ x.reported = y.reported
        /\ x.stop = y.stop /\ x.expired = y.expired
    BY <1>1 DEF Stages, WorkerState, PCs, Executing, Opening, Relaying, Closing, Finishing
  <2>3. m \in LinkState /\ m.com = "session" /\ m.executed = l.executed /\ m.overrun = l.overrun
    BY <1>1 DEF LinkState, Stages
  <2> HIDE DEF x, m
  <2>4. RunInv(x, m, s, c)
    BY <1>1, <2>2, <2>3
    DEF LinkState, SessionState, WorkerState, RunInv, Undecided, Connection, Counts,
       LastOverrun, SessionOver, DoneComplete, Opening, Relaying, Finishing, Closing, Executing
  <2>5. /\ q \in issued /\ own' \subseteq spawned' /\ spawned' \subseteq Procs
        /\ UNCHANGED <<sess, current, issued>>
    BY <1>1, Here DEF BeginSessionReturns, y
  <2>6. QED
    BY <2>1, <2>2, <2>3, <2>4, <2>5, WithQuickBooks DEF s, c
<1>4. ASSUME NEW out \in {"com_error", "error"}, Leave(q, out), SetCom(q, "session")
      PROVE  IInv'
  <2>1. link' = [link EXCEPT ![q] = m] /\ Become(q, Left(y, out))
    BY <1>4 DEF SetCom, Leave, Left
  <2> HIDE DEF y, l, s, c
  <2>2. m \in LinkState /\ RunInv(y, m, s, c)
    BY <1>1 DEF WorkerState, LinkState, Stages, RunInv, Undecided, Connection, Counts,
       LastOverrun, SessionOver, DoneComplete, Opening, Relaying, Finishing, Closing, Executing, PCs
  <2> HIDE DEF m
  <2>3. /\ Left(y, out) \in WorkerState
        /\ RunInv(Left(y, out), m, s, c)
    BY <1>1, <2>2, LeaveSound DEF Opening, Outcomes
  <2>4. /\ q \in issued /\ own' \subseteq spawned' /\ spawned' \subseteq Procs
        /\ UNCHANGED <<sess, current, issued>>
    BY <1>1, Here DEF BeginSessionReturns, y
  <2>5. QED
    BY <2>1, <2>2, <2>3, <2>4, WithQuickBooks DEF s, c
<1>5. QED
  BY <1>2, <1>3, <1>4 DEF BeginSessionReturns, ComRaises

LEMMA IdentifyOwnStep ==
  ASSUME IInv, NEW q \in Runs, IdentifyOwn(q) PROVE IInv'
<1> DEFINE y == w[q]  l == link[q]  s == sess[q]  c == (current = q)
           p == identify_own_instance(w[q].before, own)
           b == w[q].outbox \cup {"qb_process"}
           x == [y EXCEPT !.ident = p, !.pc = "loop", !.outbox = b]
<1>1. /\ y \in WorkerState /\ l \in LinkState /\ s \in SessionState /\ c \in BOOLEAN
      /\ RunInv(y, l, s, c) /\ y.pc = "identify"
  BY Here DEF IdentifyOwn, At
<1>2. p \in Procs \cup {NoProc}
  BY Here, IdentifyRange
<1>3. CASE Leave(q, "attach_refused") \/ Leave(q, "error")
  BY <1>1, <1>3, LeaveOwnMemory DEF IdentifyOwn, Relaying, Outcomes
<1>4. CASE Become(q, x)
  <2>1. b \in SUBSET Messages
    BY <1>1 DEF WorkerState, Messages
  <2> HIDE DEF y, l, s, c, p, b
  <2>2. x \in WorkerState /\ x.pc = "loop" /\ x.stage = y.stage
        /\ x.requests = y.requests /\ x.outcome = y.outcome /\ x.reported = y.reported
        /\ x.stop = y.stop /\ x.expired = y.expired
    BY <1>1, <1>2, <2>1 DEF WorkerState, PCs, Executing, Opening, Relaying, Closing, Finishing
  <2> HIDE DEF x
  <2>3. RunInv(x, l, s, c)
    BY <1>1, <2>2 DEF LinkState, SessionState, WorkerState, RunInv, Undecided, Connection, Counts,
       LastOverrun, SessionOver, DoneComplete, Opening, Relaying, Finishing, Closing, Executing
  <2>4. q \in issued /\ UNCHANGED <<link, sess, own, spawned, current, issued>>
    BY <1>1, Here DEF IdentifyOwn, y
  <2>5. Become(q, x)
    BY <1>4 DEF x, y, b, p
  <2>6. QED
    BY <2>2, <2>3, <2>4, <2>5, OwnMemory DEF l, s, c
<1>5. QED
  BY <1>3, <1>4 DEF IdentifyOwn

LEMMA LoopTopStep ==
  ASSUME IInv, NEW q \in Runs, LoopTop(q) PROVE IInv'
<1> DEFINE y == w[q]  l == link[q]  s == sess[q]  c == (current = q)
           x == [y EXCEPT !.pc = "next"]
<1>1. /\ y \in WorkerState /\ l \in LinkState /\ s \in SessionState /\ c \in BOOLEAN
      /\ RunInv(y, l, s, c) /\ y.pc = "loop"
  BY Here DEF LoopTop, At
<1>2. CASE LoopCheck(w[q]) # "relay"
  <2>1. LoopCheck(w[q]) \in LimitOutcomes /\ Leave(q, LoopCheck(w[q]))
    BY <1>2 DEF LoopTop, LoopCheck, LimitOutcomes
  <2>2. LoopCheck(w[q]) \in Outcomes /\ LoopCheck(w[q]) # "done"
    BY <2>1 DEF Outcomes, LimitOutcomes
  <2>3. QED
    BY <1>1, <2>1, <2>2, LeaveOwnMemory DEF LoopTop, Relaying
<1>3. ASSUME LoopCheck(w[q]) = "relay"
      PROVE  ~y.stop /\ ~y.expired /\ y.requests < MaxRequests
  BY <1>1, <1>3, ConstantsAssumption DEF LoopCheck, WorkerState
<1>4. CASE LoopCheck(w[q]) = "relay"
  <2> HIDE DEF y, l, s, c
  <2>1. x \in WorkerState /\ x.pc = "next" /\ x.stage = y.stage
        /\ x.requests = y.requests /\ x.outcome = y.outcome /\ x.reported = y.reported
        /\ x.stop = y.stop /\ x.expired = y.expired
    BY <1>1 DEF WorkerState, PCs, Executing, Opening, Relaying, Closing, Finishing
  <2> HIDE DEF x
  <2>2. RunInv(x, l, s, c)
    BY <1>1, <1>3, <1>4, <2>1, ConstantsAssumption
    DEF LinkState, SessionState, WorkerState, RunInv, Undecided, Connection, Counts,
       LastOverrun, SessionOver, DoneComplete, Opening, Relaying, Finishing, Closing, Executing
  <2>3. q \in issued /\ UNCHANGED <<link, sess, own, spawned, current, issued>>
    BY <1>1, Here DEF LoopTop, y
  <2>4. Become(q, x)
    BY <1>4 DEF LoopTop, Goto, x, y
  <2>5. QED
    BY <2>1, <2>2, <2>3, <2>4, OwnMemory DEF l, s, c
<1>5. QED
  BY <1>2, <1>4 DEF LoopTop

LEMMA PostNextStep ==
  ASSUME IInv, NEW q \in Runs, PostNext(q) PROVE IInv'
<1> DEFINE y == w[q]  l == link[q]  s == sess[q]  c == (current = q)
           x == [y EXCEPT !.pc = "request"]
<1>1. /\ y \in WorkerState /\ l \in LinkState /\ s \in SessionState /\ c \in BOOLEAN
      /\ RunInv(y, l, s, c) /\ y.pc = "next"
  BY Here DEF PostNext, At
<1>2. CASE Goto(q, "request") /\ UNCHANGED sess
  <2> HIDE DEF y, l, s, c
  <2>1. x \in WorkerState /\ x.pc = "request" /\ x.stage = y.stage
        /\ x.requests = y.requests /\ x.outcome = y.outcome /\ x.reported = y.reported
        /\ x.stop = y.stop /\ x.expired = y.expired
    BY <1>1 DEF WorkerState, PCs, Executing, Opening, Relaying, Closing, Finishing
  <2> HIDE DEF x
  <2>2. RunInv(x, l, s, c)
    BY <1>1, <1>2, <2>1, ConstantsAssumption
    DEF LinkState, SessionState, WorkerState, RunInv, Undecided, Connection, Counts,
       LastOverrun, SessionOver, DoneComplete, Opening, Relaying, Finishing, Closing, Executing
  <2>3. q \in issued /\ UNCHANGED <<link, sess, own, spawned, current, issued>>
    BY <1>1, <1>2, Here DEF PostNext, y
  <2>4. Become(q, x)
    BY <1>2 DEF Goto, x, y
  <2>5. QED
    BY <2>1, <2>2, <2>3, <2>4, OwnMemory DEF l, s, c
<1>3. CASE (Leave(q, "superseded") \/ Leave(q, "error")) /\ UNCHANGED sess
  BY <1>1, <1>3, LeaveOwnMemory DEF PostNext, Relaying, Outcomes
<1>4. CASE /\ Leave(q, "done")
           /\ sess' = [sess EXCEPT ![q].saidDone = TRUE]
  <2> DEFINE t == [s EXCEPT !.saidDone = TRUE]
  <2>1. sess' = [sess EXCEPT ![q] = t] /\ Become(q, Left(y, "done"))
    BY <1>4 DEF Leave, Left
  <2> HIDE DEF y, l, s, c
  <2>2. /\ t \in SessionState /\ t.saidDone /\ t.accepted = s.accepted
        /\ t.endFailed = s.endFailed
    BY <1>1 DEF SessionState
  <2> HIDE DEF t
  <2>3. RunInv(y, l, t, c) /\ t.accepted = l.executed
    BY <1>1, <2>2 DEF LinkState, SessionState, WorkerState, RunInv, Undecided, Connection, Counts,
       LastOverrun, SessionOver, DoneComplete, Opening, Relaying, Finishing, Closing, Executing
  <2>4. /\ Left(y, "done") \in WorkerState
        /\ RunInv(Left(y, "done"), l, t, c)
    BY <1>1, <2>2, <2>3, LeaveSound DEF Relaying, Outcomes
  <2>5. q \in issued /\ UNCHANGED <<link, own, spawned, current, issued>>
    BY <1>1, Here DEF PostNext, y
  <2>6. RunInv(Left(y, "done"), link[q], t, current' = q)
    BY <2>4, <2>5 DEF l, c
  <2>7. QED
    BY <2>1, <2>2, <2>4, <2>5, <2>6, WithMyFuel
<1>5. QED
  BY <1>2, <1>3, <1>4 DEF PostNext

LEMMA ProcessRequestStep ==
  ASSUME IInv, NEW q \in Runs, ProcessRequest(q) PROVE IInv'
<1> DEFINE y == w[q]  l == link[q]  s == sess[q]  c == (current = q)
           n == w[q].requests + 1
           e == link[q].executed + 1
           v == link[q].overrun + (IF Overdue(q) THEN 1 ELSE 0)
           x == [y EXCEPT !.requests = n, !.pc = "response"]
           m == [l EXCEPT !.executed = e, !.overrun = v]
<1>1. /\ y \in WorkerState /\ l \in LinkState /\ s \in SessionState /\ c \in BOOLEAN
      /\ RunInv(y, l, s, c) /\ y.pc = "request"
  BY Here DEF ProcessRequest, At
<1>2. /\ n \in Nat /\ n = y.requests + 1 /\ e \in Nat /\ e = l.executed + 1
      /\ v \in Nat /\ v = l.overrun + (IF y.stop \/ y.expired \/ ~c THEN 1 ELSE 0)
  BY Here DEF WorkerState, LinkState, Overdue
<1>3. CASE ComRaises(q) /\ UNCHANGED link
  BY <1>1, <1>3, LeaveOwnMemory DEF ProcessRequest, ComRaises, Relaying, Outcomes
<1>4. /\ q \in issued /\ own' \subseteq spawned' /\ spawned' \subseteq Procs
      /\ UNCHANGED <<sess, current, issued>>
  BY <1>1, Here DEF ProcessRequest, y
<1>5. ASSUME Execute(q)
      PROVE  link' = [link EXCEPT ![q] = m]
  BY <1>5 DEF Execute
<1> HIDE DEF y, l, s, c, n, e, v
<1>6. m \in LinkState /\ m.com = l.com /\ m.executed = e /\ m.overrun = v
  BY <1>1, <1>2 DEF LinkState
<1>7. CASE Become(q, x) /\ Execute(q)
  <2>1. x \in WorkerState /\ x.pc = "response" /\ x.stage = y.stage
        /\ x.requests = n /\ x.outcome = y.outcome /\ x.reported = y.reported
        /\ x.stop = y.stop /\ x.expired = y.expired
    BY <1>1, <1>2 DEF WorkerState, PCs, Executing, Opening, Relaying, Closing, Finishing
  <2> HIDE DEF x, m
  <2>2. RunInv(x, m, s, c)
    BY <1>1, <1>2, <1>6, <2>1, ConstantsAssumption
    DEF LinkState, SessionState, WorkerState, RunInv, Undecided, Connection, Counts,
       LastOverrun, SessionOver, DoneComplete, Opening, Relaying, Finishing, Closing, Executing
  <2>3. QED
    BY <1>4, <1>5, <1>6, <1>7, <2>1, <2>2, WithQuickBooks DEF s, c
<1>8. ASSUME NEW out \in {"com_error", "error"}, Leave(q, out), Execute(q)
      PROVE  IInv'
  <2>1. Left(y, out) \in WorkerState /\ Left(y, out).pc \in {"report", "endSession"}
        /\ Left(y, out).stage = y.stage /\ Left(y, out).requests = y.requests
        /\ Left(y, out).outcome = out /\ Left(y, out).reported = y.reported
    BY <1>1 DEF Left, Outcomes, WorkerState, PCs, Executing, Opening, Relaying, Closing, Finishing
  <2> HIDE DEF x, m
  <2>2. Undecided(Left(y, out)) /\ Connection(Left(y, out), m)
    BY <1>1, <1>6, <2>1 DEF RunInv, Undecided, Connection, Opening, Relaying, Finishing,
       Closing, Executing
  <2>3. Counts(Left(y, out), m, s)
    <3>1. /\ l.executed = s.accepted /\ l.executed < MaxRequests
          /\ l.executed \in Nat /\ s.accepted \in Nat
      BY <1>1 DEF RunInv, Counts, LinkState, SessionState
    <3>2. m.executed = s.accepted + 1 /\ m.executed <= MaxRequests
      BY <1>2, <1>6, <3>1, ConstantsAssumption
    <3>3. Left(y, out).pc \notin {"idle", "identify"} \cup Opening \cup Relaying
      BY <2>1 DEF Opening, Relaying
    <3>4. QED
      BY <3>2, <3>3 DEF Counts, Relaying
  <2>4. LastOverrun(Left(y, out), m, c)
    <3>1. l.overrun = 0 /\ m.overrun <= 1
      BY <1>1, <1>2, <1>6 DEF RunInv, LastOverrun
    <3>2. QED
      BY <2>1, <3>1 DEF LastOverrun, Opening
  <2>5. SessionOver(Left(y, out), s, c) /\ DoneComplete(Left(y, out), m, s)
    BY <1>1, <2>1, <1>8 DEF RunInv, Undecided, SessionOver, DoneComplete, Relaying
  <2>6. RunInv(Left(y, out), m, s, c)
    BY <2>2, <2>3, <2>5, <2>4 DEF RunInv
  <2>7. Become(q, Left(y, out))
    BY <1>8 DEF Leave, Left, y
  <2>8. QED
    BY <1>4, <1>5, <1>6, <1>8, <2>1, <2>6, <2>7, WithQuickBooks DEF s, c
<1>9. QED
  BY <1>3, <1>7, <1>8 DEF ProcessRequest, ComRaises, Become, x, n, y

LEMMA PostResponseStep ==
  ASSUME IInv, NEW q \in Runs, PostResponse(q) PROVE IInv'
<1> DEFINE y == w[q]  l == link[q]  s == sess[q]  c == (current = q)
           x == [y EXCEPT !.pc = "loop"]
           a == sess[q].accepted + 1
           t == [s EXCEPT !.accepted = a]
<1>1. /\ y \in WorkerState /\ l \in LinkState /\ s \in SessionState /\ c \in BOOLEAN
      /\ RunInv(y, l, s, c) /\ y.pc = "response"
  BY Here DEF PostResponse, At
<1>2. CASE (Leave(q, "superseded") \/ Leave(q, "error")) /\ UNCHANGED sess
  BY <1>1, <1>2, LeaveOwnMemory DEF PostResponse, Relaying, Outcomes
<1>3. CASE /\ current = q
           /\ Goto(q, "loop") \/ Leave(q, "error")
           /\ sess' = [sess EXCEPT ![q].accepted = @ + 1]
  <2>1. /\ sess' = [sess EXCEPT ![q] = t] /\ a \in Nat /\ a = s.accepted + 1
        /\ Become(q, x) \/ Become(q, Left(y, "error"))
        /\ c = TRUE
    BY <1>1, <1>3 DEF Goto, Leave, Left, SessionState
  <2>2. q \in issued /\ UNCHANGED <<link, own, spawned, current, issued>>
    BY <1>1, Here DEF PostResponse
  <2> HIDE DEF y, l, s, c, a
  <2>3. t \in SessionState /\ t.accepted = a /\ t.saidDone = s.saidDone /\ t.endFailed = s.endFailed
    BY <1>1, <2>1 DEF SessionState
  <2>4. x \in WorkerState /\ x.pc = "loop" /\ x.stage = y.stage
        /\ x.requests = y.requests /\ x.outcome = y.outcome /\ x.reported = y.reported
        /\ x.stop = y.stop /\ x.expired = y.expired
    BY <1>1 DEF WorkerState, PCs, Executing, Opening, Relaying, Closing, Finishing
  <2>5. Left(y, "error") \in WorkerState /\ Left(y, "error").pc = "endSession"
        /\ Left(y, "error").stage = y.stage /\ Left(y, "error").requests = y.requests
        /\ Left(y, "error").outcome = "error" /\ Left(y, "error").reported = y.reported
    BY <1>1 DEF Left, Outcomes, WorkerState, PCs, Executing, Opening, Relaying, Closing, Finishing
  <2> HIDE DEF x, t
  <2>6. RunInv(x, l, t, c) /\ RunInv(Left(y, "error"), l, t, c)
    BY <1>1, <2>1, <2>3, <2>4, <2>5, ConstantsAssumption
    DEF LinkState, SessionState, WorkerState, RunInv, Undecided, Connection, Counts,
       LastOverrun, SessionOver, DoneComplete, Opening, Relaying, Finishing, Closing, Executing
  <2>7. RunInv(x, link[q], t, current' = q) /\ RunInv(Left(y, "error"), link[q], t, current' = q)
    BY <2>2, <2>6 DEF l, c
  <2>8. QED
    BY <2>1, <2>2, <2>3, <2>4, <2>5, <2>7, WithMyFuel
<1>4. QED
  BY <1>2, <1>3 DEF PostResponse

\* A POST that ends the session leaves it ended, or known to have failed.
LEMMA EndOnMyFuelEffect ==
  ASSUME IInv, NEW q \in Runs, EndOnMyFuel(q)
  PROVE  \E t \in SessionState :
           /\ sess' = [sess EXCEPT ![q] = t]
           /\ t.accepted = sess[q].accepted /\ t.saidDone = sess[q].saidDone
           /\ sess[q].endFailed => t.endFailed
           /\ current' = q => t.endFailed
           /\ current' = current \/ (current = q /\ current' = NoRun)
<1> DEFINE s == sess[q]
           t == [s EXCEPT !.endFailed = TRUE]
<1>1. s \in SessionState /\ sess = [sess EXCEPT ![q] = s]
  BY Here
<1>2. CASE current' = (IF current = q THEN NoRun ELSE current) /\ UNCHANGED sess
  BY <1>1, <1>2, ConstantsAssumption
<1>3. CASE /\ current' \in {current, IF current = q THEN NoRun ELSE current}
           /\ sess' = [sess EXCEPT ![q].endFailed = TRUE]
  <2>1. sess' = [sess EXCEPT ![q] = t]
    BY <1>3
  <2> HIDE DEF s
  <2>2. t \in SessionState /\ t.accepted = s.accepted /\ t.saidDone = s.saidDone /\ t.endFailed
    BY <1>1 DEF SessionState
  <2> HIDE DEF t
  <2>3. current' = current \/ (current = q /\ current' = NoRun)
    BY <1>3
  <2>4. QED
    BY <2>1, <2>2, <2>3 DEF s
<1>4. QED
  BY <1>2, <1>3 DEF EndOnMyFuel

LEMMA ReportErrorStep ==
  ASSUME IInv, NEW q \in Runs, ReportError(q) PROVE IInv'
<1> DEFINE y == w[q]  l == link[q]  s == sess[q]  c == (current = q)
           x == [y EXCEPT !.reported = TRUE, !.pc = "endSession"]
<1>1. /\ y \in WorkerState /\ l \in LinkState /\ s \in SessionState /\ c \in BOOLEAN
      /\ RunInv(y, l, s, c) /\ y.pc = "report"
  BY Here DEF ReportError, At
<1>2. Become(q, x) /\ q \in issued /\ UNCHANGED <<link, own, spawned, issued>>
  BY <1>1, Here DEF ReportError, Goto
<1>3. PICK t \in SessionState :
        /\ sess' = [sess EXCEPT ![q] = t]
        /\ t.accepted = s.accepted /\ t.saidDone = s.saidDone
        /\ s.endFailed => t.endFailed
        /\ current' = current \/ (current = q /\ current' = NoRun)
        /\ current' = q => t.endFailed
  BY EndOnMyFuelEffect DEF ReportError
<1> DEFINE d == (current' = q)
<1>4. d \in BOOLEAN /\ (d => c) /\ (d => t.endFailed)
  BY <1>3, ConstantsAssumption
<1> HIDE DEF y, l, s, c, d
<1>5. x \in WorkerState /\ x.pc = "endSession" /\ x.stage = y.stage
        /\ x.requests = y.requests /\ x.outcome = y.outcome /\ x.reported = TRUE
        /\ x.stop = y.stop /\ x.expired = y.expired
  BY <1>1 DEF WorkerState, PCs, Executing, Opening, Relaying, Closing, Finishing
<1> HIDE DEF x
<1>6. RunInv(x, l, t, d)
  BY <1>1, <1>3, <1>4, <1>5
  DEF LinkState, SessionState, WorkerState, RunInv, Undecided, Connection, Counts,
       LastOverrun, SessionOver, DoneComplete, Opening, Relaying, Finishing, Closing, Executing
<1>7. QED
  BY <1>2, <1>3, <1>5, <1>6, WithMyFuel DEF l, d

LEMMA EndSessionStep ==
  ASSUME IInv, NEW q \in Runs, EndSession(q) PROVE IInv'
<1> DEFINE y == w[q]  l == link[q]  s == sess[q]  c == (current = q)
           x == [y EXCEPT !.pc = "closeConnection"]
           m == [l EXCEPT !.com = "connection"]
<1>1. /\ y \in WorkerState /\ l \in LinkState /\ s \in SessionState /\ c \in BOOLEAN
      /\ RunInv(y, l, s, c) /\ y.pc = "endSession"
  BY Here DEF EndSession, At
<1>2. CASE UNCHANGED link
  <2> HIDE DEF y, l, s, c
  <2>1. x \in WorkerState /\ x.pc = "closeConnection" /\ x.stage = y.stage
        /\ x.requests = y.requests /\ x.outcome = y.outcome /\ x.reported = y.reported
        /\ x.stop = y.stop /\ x.expired = y.expired
    BY <1>1 DEF WorkerState, PCs, Executing, Opening, Relaying, Closing, Finishing
  <2> HIDE DEF x
  <2>2. RunInv(x, l, s, c)
    BY <1>1, <1>2, <2>1, ConstantsAssumption
    DEF LinkState, SessionState, WorkerState, RunInv, Undecided, Connection, Counts,
       LastOverrun, SessionOver, DoneComplete, Opening, Relaying, Finishing, Closing, Executing
  <2>3. q \in issued /\ UNCHANGED <<link, sess, own, spawned, current, issued>>
    BY <1>1, <1>2, Here DEF EndSession, y
  <2>4. Become(q, x)
    BY DEF EndSession, Goto, x, y
  <2>5. QED
    BY <2>1, <2>2, <2>3, <2>4, OwnMemory DEF l, s, c
<1>3. CASE SetCom(q, "connection") /\ w[q].stage = "session"
  <2>1. link' = [link EXCEPT ![q] = m] /\ Become(q, x)
    BY <1>3 DEF EndSession, SetCom, Goto
  <2> HIDE DEF y, l, s, c
  <2>2. x \in WorkerState /\ x.pc = "closeConnection" /\ x.stage = y.stage
        /\ x.requests = y.requests /\ x.outcome = y.outcome /\ x.reported = y.reported
        /\ x.stop = y.stop /\ x.expired = y.expired
    BY <1>1 DEF Stages, WorkerState, PCs, Executing, Opening, Relaying, Closing, Finishing
  <2>3. m \in LinkState /\ m.com = "connection" /\ m.executed = l.executed /\ m.overrun = l.overrun
    BY <1>1 DEF LinkState, Stages
  <2> HIDE DEF x, m
  <2>4. RunInv(x, m, s, c)
    BY <1>1, <1>3, <2>2, <2>3
    DEF y, LinkState, SessionState, WorkerState, RunInv, Undecided, Connection, Counts,
       LastOverrun, SessionOver, DoneComplete, Opening, Relaying, Finishing, Closing, Executing
  <2>5. /\ q \in issued /\ own' \subseteq spawned' /\ spawned' \subseteq Procs
        /\ UNCHANGED <<sess, current, issued>>
    BY <1>1, Here DEF EndSession, y
  <2>6. QED
    BY <2>1, <2>2, <2>3, <2>4, <2>5, WithQuickBooks DEF s, c
<1>4. QED
  BY <1>2, <1>3 DEF EndSession

LEMMA CloseConnectionStep ==
  ASSUME IInv, NEW q \in Runs, CloseConnection(q) PROVE IInv'
<1> DEFINE y == w[q]  l == link[q]  s == sess[q]  c == (current = q)
           x == [y EXCEPT !.pc = "release"]
           m == [l EXCEPT !.com = "rp"]
<1>1. /\ y \in WorkerState /\ l \in LinkState /\ s \in SessionState /\ c \in BOOLEAN
      /\ RunInv(y, l, s, c) /\ y.pc = "closeConnection"
  BY Here DEF CloseConnection, At
<1>2. CASE UNCHANGED link
  <2> HIDE DEF y, l, s, c
  <2>1. x \in WorkerState /\ x.pc = "release" /\ x.stage = y.stage
        /\ x.requests = y.requests /\ x.outcome = y.outcome /\ x.reported = y.reported
        /\ x.stop = y.stop /\ x.expired = y.expired
    BY <1>1 DEF WorkerState, PCs, Executing, Opening, Relaying, Closing, Finishing
  <2> HIDE DEF x
  <2>2. RunInv(x, l, s, c)
    BY <1>1, <1>2, <2>1, ConstantsAssumption
    DEF LinkState, SessionState, WorkerState, RunInv, Undecided, Connection, Counts,
       LastOverrun, SessionOver, DoneComplete, Opening, Relaying, Finishing, Closing, Executing
  <2>3. q \in issued /\ UNCHANGED <<link, sess, own, spawned, current, issued>>
    BY <1>1, <1>2, Here DEF CloseConnection, y
  <2>4. Become(q, x)
    BY DEF CloseConnection, Goto, x, y
  <2>5. QED
    BY <2>1, <2>2, <2>3, <2>4, OwnMemory DEF l, s, c
<1>3. CASE SetCom(q, "rp") /\ w[q].stage \in {"connection", "session"}
  <2>1. link' = [link EXCEPT ![q] = m] /\ Become(q, x)
    BY <1>3 DEF CloseConnection, SetCom, Goto
  <2> HIDE DEF y, l, s, c
  <2>2. x \in WorkerState /\ x.pc = "release" /\ x.stage = y.stage
        /\ x.requests = y.requests /\ x.outcome = y.outcome /\ x.reported = y.reported
        /\ x.stop = y.stop /\ x.expired = y.expired
    BY <1>1 DEF Stages, WorkerState, PCs, Executing, Opening, Relaying, Closing, Finishing
  <2>3. m \in LinkState /\ m.com = "rp" /\ m.executed = l.executed /\ m.overrun = l.overrun
    BY <1>1 DEF LinkState, Stages
  <2> HIDE DEF x, m
  <2>4. RunInv(x, m, s, c)
    BY <1>1, <1>3, <2>2, <2>3
    DEF y, LinkState, SessionState, WorkerState, RunInv, Undecided, Connection, Counts,
       LastOverrun, SessionOver, DoneComplete, Opening, Relaying, Finishing, Closing, Executing
  <2>5. /\ q \in issued /\ own' \subseteq spawned' /\ spawned' \subseteq Procs
        /\ UNCHANGED <<sess, current, issued>>
    BY <1>1, Here DEF CloseConnection, y
  <2>6. QED
    BY <2>1, <2>2, <2>3, <2>4, <2>5, WithQuickBooks DEF s, c
<1>4. QED
  BY <1>2, <1>3 DEF CloseConnection

LEMMA ReleaseStep ==
  ASSUME IInv, NEW q \in Runs, Release(q) PROVE IInv'
<1> DEFINE y == w[q]  l == link[q]  s == sess[q]  c == (current = q)
           x == [y EXCEPT !.pc = "endPost"]
           m == [l EXCEPT !.com = "none"]
<1>1. /\ y \in WorkerState /\ l \in LinkState /\ s \in SessionState /\ c \in BOOLEAN
      /\ RunInv(y, l, s, c) /\ y.pc = "release"
  BY Here DEF Release, At
<1>2. CASE UNCHANGED link /\ w[q].stage = "none"
  <2> HIDE DEF y, l, s, c
  <2>1. x \in WorkerState /\ x.pc = "endPost" /\ x.stage = y.stage
        /\ x.requests = y.requests /\ x.outcome = y.outcome /\ x.reported = y.reported
        /\ x.stop = y.stop /\ x.expired = y.expired
    BY <1>1 DEF WorkerState, PCs, Executing, Opening, Relaying, Closing, Finishing
  <2> HIDE DEF x
  <2>2. RunInv(x, l, s, c)
    BY <1>1, <1>2, <2>1, ConstantsAssumption
    DEF y, LinkState, SessionState, WorkerState, RunInv, Undecided, Connection, Counts,
       LastOverrun, SessionOver, DoneComplete, Opening, Relaying, Finishing, Closing, Executing
  <2>3. q \in issued /\ UNCHANGED <<link, sess, own, spawned, current, issued>>
    BY <1>1, <1>2, Here DEF Release, y
  <2>4. Become(q, x)
    BY DEF Release, Goto, x, y
  <2>5. QED
    BY <2>1, <2>2, <2>3, <2>4, OwnMemory DEF l, s, c
<1>3. CASE SetCom(q, "none") /\ w[q].stage # "none"
  <2>1. link' = [link EXCEPT ![q] = m] /\ Become(q, x)
    BY <1>3 DEF Release, SetCom, Goto
  <2> HIDE DEF y, l, s, c
  <2>2. x \in WorkerState /\ x.pc = "endPost" /\ x.stage = y.stage
        /\ x.requests = y.requests /\ x.outcome = y.outcome /\ x.reported = y.reported
        /\ x.stop = y.stop /\ x.expired = y.expired
    BY <1>1 DEF Stages, WorkerState, PCs, Executing, Opening, Relaying, Closing, Finishing
  <2>3. m \in LinkState /\ m.com = "none" /\ m.executed = l.executed /\ m.overrun = l.overrun
    BY <1>1 DEF LinkState, Stages
  <2> HIDE DEF x, m
  <2>4. RunInv(x, m, s, c)
    BY <1>1, <1>3, <2>2, <2>3
    DEF y, LinkState, SessionState, WorkerState, RunInv, Undecided, Connection, Counts,
       LastOverrun, SessionOver, DoneComplete, Opening, Relaying, Finishing, Closing, Executing
  <2>5. /\ q \in issued /\ own' \subseteq spawned' /\ spawned' \subseteq Procs
        /\ UNCHANGED <<sess, current, issued>>
    BY <1>1, Here DEF Release, y
  <2>6. QED
    BY <2>1, <2>2, <2>3, <2>4, <2>5, WithQuickBooks DEF s, c
<1>4. QED
  BY <1>2, <1>3 DEF Release

LEMMA PostEndStep ==
  ASSUME IInv, NEW q \in Runs, PostEnd(q) PROVE IInv'
<1> DEFINE y == w[q]  l == link[q]  s == sess[q]  c == (current = q)
           x == [y EXCEPT !.pc = "putResult"]
<1>1. /\ y \in WorkerState /\ l \in LinkState /\ s \in SessionState /\ c \in BOOLEAN
      /\ RunInv(y, l, s, c) /\ y.pc = "endPost"
  BY Here DEF PostEnd, At
<1>2. Become(q, x) /\ q \in issued /\ UNCHANGED <<link, own, spawned, issued>>
  BY <1>1, Here DEF PostEnd, Goto
<1>3. PICK t \in SessionState :
        /\ sess' = [sess EXCEPT ![q] = t]
        /\ t.accepted = s.accepted /\ t.saidDone = s.saidDone
        /\ s.endFailed => t.endFailed
        /\ current' = current \/ (current = q /\ current' = NoRun)
        /\ current' = q => t.endFailed \/ w[q].reported
  BY EndOnMyFuelEffect, Here DEF PostEnd
<1> DEFINE d == (current' = q)
<1>4. d \in BOOLEAN /\ (d => c) /\ (d => t.endFailed \/ y.reported)
  BY <1>3, ConstantsAssumption
<1> HIDE DEF y, l, s, c, d
<1>5. x \in WorkerState /\ x.pc = "putResult" /\ x.stage = y.stage
        /\ x.requests = y.requests /\ x.outcome = y.outcome /\ x.reported = y.reported
        /\ x.stop = y.stop /\ x.expired = y.expired
  BY <1>1 DEF WorkerState, PCs, Executing, Opening, Relaying, Closing, Finishing
<1> HIDE DEF x
<1>6. RunInv(x, l, t, d)
  BY <1>1, <1>3, <1>4, <1>5
  DEF LinkState, SessionState, WorkerState, RunInv, Undecided, Connection, Counts,
       LastOverrun, SessionOver, DoneComplete, Opening, Relaying, Finishing, Closing, Executing
<1>7. QED
  BY <1>2, <1>3, <1>5, <1>6, WithMyFuel DEF l, d

LEMMA PutResultStep ==
  ASSUME IInv, NEW q \in Runs, PutResult(q) PROVE IInv'
<1> DEFINE y == w[q]  l == link[q]  s == sess[q]  c == (current = q)
           b == w[q].outbox \cup {"result"}
           x == [y EXCEPT !.outbox = b, !.pc = "exiting"]
<1>1. /\ y \in WorkerState /\ l \in LinkState /\ s \in SessionState /\ c \in BOOLEAN
      /\ RunInv(y, l, s, c) /\ y.pc = "putResult"
  BY Here DEF PutResult, At
<1>2. /\ q \in issued /\ UNCHANGED <<link, sess, own, spawned, current, issued>>
      /\ Become(q, x)
  BY <1>1, Here DEF PutResult, Goto, Executing, Opening, Relaying, Closing, Finishing
<1>3. b \in SUBSET Messages
  BY <1>1 DEF WorkerState, Messages
<1> HIDE DEF y, l, s, c, b
<1>4. x \in WorkerState /\ x.pc = "exiting" /\ x.stage = y.stage
        /\ x.requests = y.requests /\ x.outcome = y.outcome /\ x.reported = y.reported
        /\ x.stop = y.stop /\ x.expired = y.expired
  BY <1>1, <1>3 DEF WorkerState, PCs, Executing, Opening, Relaying, Closing, Finishing
<1> HIDE DEF x
<1>5. RunInv(x, l, s, c)
  BY <1>1, <1>4
  DEF LinkState, SessionState, WorkerState, RunInv, Undecided, Connection, Counts,
       LastOverrun, SessionOver, DoneComplete, Opening, Relaying, Finishing, Closing, Executing
<1>6. QED
  BY <1>2, <1>4, <1>5, OwnMemory DEF l, s, c

LEMMA FlushStep ==
  ASSUME IInv, NEW q \in Runs, Flush(q) PROVE IInv'
<1> DEFINE y == w[q]  l == link[q]  s == sess[q]  c == (current = q)
           b == w[q].pipe \cup w[q].outbox
           x == [y EXCEPT !.pipe = b, !.outbox = {}]
<1>1. /\ y \in WorkerState /\ l \in LinkState /\ s \in SessionState /\ c \in BOOLEAN
      /\ RunInv(y, l, s, c) /\ y.pc \in Executing
  BY Here DEF Flush, At
<1>2. /\ q \in issued /\ UNCHANGED <<link, sess, own, spawned, current, issued>>
      /\ Become(q, x)
  BY <1>1, Here DEF Flush, Goto, Executing, Opening, Relaying, Closing, Finishing
<1>3. b \in SUBSET Messages
  BY <1>1 DEF WorkerState, Messages
<1> HIDE DEF y, l, s, c, b
<1>4. x \in WorkerState /\ x.pc = y.pc /\ x.stage = y.stage
        /\ x.requests = y.requests /\ x.outcome = y.outcome /\ x.reported = y.reported
        /\ x.stop = y.stop /\ x.expired = y.expired
  BY <1>1, <1>3 DEF WorkerState, PCs, Executing, Opening, Relaying, Closing, Finishing
<1> HIDE DEF x
<1>5. RunInv(x, l, s, c)
  BY <1>1, <1>4
  DEF LinkState, SessionState, WorkerState, RunInv, Undecided, Connection, Counts,
       LastOverrun, SessionOver, DoneComplete, Opening, Relaying, Finishing, Closing, Executing
<1>6. QED
  BY <1>2, <1>4, <1>5, OwnMemory DEF l, s, c

LEMMA ExitStep ==
  ASSUME IInv, NEW q \in Runs, Exit(q) PROVE IInv'
<1> DEFINE y == w[q]  l == link[q]  s == sess[q]  c == (current = q)
           x == [y EXCEPT !.pc = "exited"]
<1>1. /\ y \in WorkerState /\ l \in LinkState /\ s \in SessionState /\ c \in BOOLEAN
      /\ RunInv(y, l, s, c) /\ y.pc = "exiting"
  BY Here DEF Exit, At
<1>2. /\ q \in issued /\ UNCHANGED <<link, sess, own, spawned, current, issued>>
      /\ Become(q, x)
  BY <1>1, Here DEF Exit, Goto, Executing, Opening, Relaying, Closing, Finishing
<1> HIDE DEF y, l, s, c
<1>3. x \in WorkerState /\ x.pc = "exited" /\ x.stage = y.stage
        /\ x.requests = y.requests /\ x.outcome = y.outcome /\ x.reported = y.reported
        /\ x.stop = y.stop /\ x.expired = y.expired
  BY <1>1 DEF WorkerState, PCs, Executing, Opening, Relaying, Closing, Finishing
<1> HIDE DEF x
<1>4. RunInv(x, l, s, c)
  BY <1>1, <1>3
  DEF LinkState, SessionState, WorkerState, RunInv, Undecided, Connection, Counts,
       LastOverrun, SessionOver, DoneComplete, Opening, Relaying, Finishing, Closing, Executing
<1>5. QED
  BY <1>2, <1>3, <1>4, OwnMemory DEF l, s, c

LEMMA ExpireStep ==
  ASSUME IInv, NEW q \in Runs, Expire(q) PROVE IInv'
<1> DEFINE y == w[q]  l == link[q]  s == sess[q]  c == (current = q)
           x == [y EXCEPT !.expired = TRUE]
<1>1. /\ y \in WorkerState /\ l \in LinkState /\ s \in SessionState /\ c \in BOOLEAN
      /\ RunInv(y, l, s, c) /\ y.pc \in Executing
  BY Here DEF Expire, At
<1>2. /\ q \in issued /\ UNCHANGED <<link, sess, own, spawned, current, issued>>
      /\ Become(q, x)
  BY <1>1, Here DEF Expire, Goto, Executing, Opening, Relaying, Closing, Finishing
<1> HIDE DEF y, l, s, c
<1>3. x \in WorkerState /\ x.pc = y.pc /\ x.stage = y.stage
        /\ x.requests = y.requests /\ x.outcome = y.outcome /\ x.reported = y.reported
        /\ x.stop = y.stop /\ x.expired = TRUE
  BY <1>1 DEF WorkerState, PCs, Executing, Opening, Relaying, Closing, Finishing
<1> HIDE DEF x
<1>4. RunInv(x, l, s, c)
  BY <1>1, <1>3
  DEF LinkState, SessionState, WorkerState, RunInv, Undecided, Connection, Counts,
       LastOverrun, SessionOver, DoneComplete, Opening, Relaying, Finishing, Closing, Executing
<1>5. QED
  BY <1>2, <1>3, <1>4, OwnMemory DEF l, s, c

-----------------------------------------------------------------------------
(* The surroundings and the parent                                         *)

LEMMA TerminateStep ==
  ASSUME IInv, NEW q \in Runs, Terminate(q) PROVE IInv'
<1> DEFINE y == w[q]  l == link[q]  s == sess[q]  c == (current = q)
           x == [y EXCEPT !.pc = "dying", !.outbox = {}]
<1>1. /\ y \in WorkerState /\ l \in LinkState /\ s \in SessionState /\ c \in BOOLEAN
      /\ RunInv(y, l, s, c) /\ y.pc \in Executing
  BY Here DEF Terminate, At
<1>2. /\ q \in issued /\ UNCHANGED <<link, sess, own, spawned, current, issued>>
      /\ Become(q, x)
  BY <1>1, Here DEF Terminate, Goto, Executing, Opening, Relaying, Closing, Finishing
<1> HIDE DEF y, l, s, c
<1>3. x \in WorkerState /\ x.pc = "dying" /\ x.stage = y.stage
        /\ x.requests = y.requests /\ x.outcome = y.outcome /\ x.reported = y.reported
        /\ x.stop = y.stop /\ x.expired = y.expired
  BY <1>1 DEF WorkerState, PCs, Executing, Opening, Relaying, Closing, Finishing
<1> HIDE DEF x
<1>4. RunInv(x, l, s, c)
  BY <1>1, <1>3
  DEF LinkState, SessionState, WorkerState, RunInv, Undecided, Connection, Counts,
       LastOverrun, SessionOver, DoneComplete, Opening, Relaying, Finishing, Closing, Executing
<1>5. QED
  BY <1>2, <1>3, <1>4, OwnMemory DEF l, s, c

LEMMA DieStep ==
  ASSUME IInv, NEW q \in Runs, Die(q) PROVE IInv'
<1> DEFINE y == w[q]  l == link[q]  s == sess[q]  c == (current = q)
           x == [y EXCEPT !.pc = "dead"]
           m == [l EXCEPT !.com = "none"]
<1>1. /\ y \in WorkerState /\ l \in LinkState /\ s \in SessionState /\ c \in BOOLEAN
      /\ RunInv(y, l, s, c) /\ y.pc = "dying"
  BY Here DEF Die, At
<1>2. /\ q \in issued /\ Become(q, x) /\ link' = [link EXCEPT ![q] = m]
      /\ own' \subseteq spawned' /\ spawned' \subseteq Procs /\ UNCHANGED <<sess, current, issued>>
  BY <1>1, Here DEF Die, Goto, SetCom, Executing, Opening, Relaying, Closing, Finishing
<1> HIDE DEF y, l, s, c
<1>3. x \in WorkerState /\ x.pc = "dead" /\ x.stage = y.stage
        /\ x.requests = y.requests /\ x.outcome = y.outcome /\ x.reported = y.reported
        /\ x.stop = y.stop /\ x.expired = y.expired
  BY <1>1 DEF WorkerState, PCs, Executing, Opening, Relaying, Closing, Finishing
<1>4. m \in LinkState /\ m.com = "none" /\ m.executed = l.executed /\ m.overrun = l.overrun
  BY <1>1 DEF LinkState, Stages
<1> HIDE DEF x, m
<1>5. RunInv(x, m, s, c)
  BY <1>1, <1>3, <1>4
  DEF LinkState, SessionState, WorkerState, RunInv, Undecided, Connection, Counts,
       LastOverrun, SessionOver, DoneComplete, Opening, Relaying, Finishing, Closing, Executing
<1>6. QED
  BY <1>2, <1>3, <1>4, <1>5, WithQuickBooks DEF s, c

LEMMA WorkerCrashStep ==
  ASSUME IInv, NEW q \in Runs, WorkerCrash(q) PROVE IInv'
<1> DEFINE y == w[q]  l == link[q]  s == sess[q]  c == (current = q)
           x == [y EXCEPT !.pc = "dead", !.outbox = {}]
           m == [l EXCEPT !.com = "none"]
<1>1. /\ y \in WorkerState /\ l \in LinkState /\ s \in SessionState /\ c \in BOOLEAN
      /\ RunInv(y, l, s, c) /\ y.pc \in Executing
  BY Here DEF WorkerCrash, At
<1>2. /\ q \in issued /\ Become(q, x) /\ link' = [link EXCEPT ![q] = m]
      /\ own' \subseteq spawned' /\ spawned' \subseteq Procs /\ UNCHANGED <<sess, current, issued>>
  BY <1>1, Here DEF WorkerCrash, Goto, SetCom, Executing, Opening, Relaying, Closing, Finishing
<1> HIDE DEF y, l, s, c
<1>3. x \in WorkerState /\ x.pc = "dead" /\ x.stage = y.stage
        /\ x.requests = y.requests /\ x.outcome = y.outcome /\ x.reported = y.reported
        /\ x.stop = y.stop /\ x.expired = y.expired
  BY <1>1 DEF WorkerState, PCs, Executing, Opening, Relaying, Closing, Finishing
<1>4. m \in LinkState /\ m.com = "none" /\ m.executed = l.executed /\ m.overrun = l.overrun
  BY <1>1 DEF LinkState, Stages
<1> HIDE DEF x, m
<1>5. RunInv(x, m, s, c)
  BY <1>1, <1>3, <1>4
  DEF LinkState, SessionState, WorkerState, RunInv, Undecided, Connection, Counts,
       LastOverrun, SessionOver, DoneComplete, Opening, Relaying, Finishing, Closing, Executing
<1>6. QED
  BY <1>2, <1>3, <1>4, <1>5, WithQuickBooks DEF s, c

LEMMA SpawnStep ==
  ASSUME IInv, NEW q \in Runs, Spawn(q) PROVE IInv'
<1> DEFINE y == w[q]  l == link[q]  s == sess[q]  c == (current = q)
           x == [y EXCEPT !.pc = "before"]
<1>1. /\ y \in WorkerState /\ l \in LinkState /\ s \in SessionState /\ c \in BOOLEAN
      /\ RunInv(y, l, s, c) /\ y.pc = "idle"
  BY Here DEF Spawn, At
<1>2. /\ q \in issued /\ UNCHANGED <<link, sess, own, spawned, current, issued>>
      /\ Become(q, x)
  BY <1>1, Here DEF Spawn, Goto, Executing, Opening, Relaying, Closing, Finishing
<1> HIDE DEF y, l, s, c
<1>3. x \in WorkerState /\ x.pc = "before" /\ x.stage = y.stage
        /\ x.requests = y.requests /\ x.outcome = y.outcome /\ x.reported = y.reported
        /\ x.stop = y.stop /\ x.expired = y.expired
  BY <1>1 DEF WorkerState, PCs, Executing, Opening, Relaying, Closing, Finishing
<1> HIDE DEF x
<1>4. RunInv(x, l, s, c)
  BY <1>1, <1>3
  DEF LinkState, SessionState, WorkerState, RunInv, Undecided, Connection, Counts,
       LastOverrun, SessionOver, DoneComplete, Opening, Relaying, Finishing, Closing, Executing
<1>5. QED
  BY <1>2, <1>3, <1>4, OwnMemory DEF l, s, c

LEMMA SetStopStep ==
  ASSUME IInv, NEW q \in Runs, SetStop(q) PROVE IInv'
<1> DEFINE y == w[q]  l == link[q]  s == sess[q]  c == (current = q)
           x == [y EXCEPT !.stop = TRUE]
<1>1. /\ y \in WorkerState /\ l \in LinkState /\ s \in SessionState /\ c \in BOOLEAN
      /\ RunInv(y, l, s, c) /\ y.pc \in PCs
  BY Here DEF WorkerState
<1>2. /\ UNCHANGED <<link, sess, own, spawned, current, issued>>
      /\ Become(q, x)
  BY DEF SetStop
<1> HIDE DEF y, l, s, c
<1>3. x \in WorkerState /\ x.pc = y.pc /\ x.stage = y.stage
        /\ x.requests = y.requests /\ x.outcome = y.outcome /\ x.reported = y.reported
        /\ x.stop = TRUE /\ x.expired = y.expired
  BY <1>1 DEF WorkerState, PCs, Executing, Opening, Relaying, Closing, Finishing
<1> HIDE DEF x
<1>4. RunInv(x, l, s, c)
  BY <1>1, <1>3
  DEF LinkState, SessionState, WorkerState, RunInv, Undecided, Connection, Counts,
       LastOverrun, SessionOver, DoneComplete, Opening, Relaying, Finishing, Closing, Executing
<1>5. QED
  BY <1>2, <1>3, <1>4, Here, OwnMemory DEF y, l, s, c

LEMMA StartSessionStep ==
  ASSUME IInv, NEW q \in Runs, StartSession(q) PROVE IInv'
<1>1. /\ w' = [w EXCEPT ![q] = w[q]] /\ link' = [link EXCEPT ![q] = link[q]]
      /\ sess' = [sess EXCEPT ![q] = sess[q]]
  BY Here DEF StartSession
<1>2. /\ w[q] \in WorkerState /\ link[q] \in LinkState /\ sess[q] \in SessionState
      /\ w[q].pc = "idle" /\ RunInv(w[q], link[q], sess[q], current = q)
  BY Here DEF StartSession
<1>3. /\ own' \subseteq spawned' /\ spawned' \subseteq Procs /\ issued' \subseteq Runs
      /\ issued \subseteq issued' /\ current' \in issued' \cup {NoRun}
      /\ \A r \in Runs \ {q} : current' = r => current = r
      /\ q \in issued'
  BY Here DEF StartSession
<1>4. ~w[q].reported
  BY <1>2 DEF RunInv, Undecided
<1>5. RunInv(w[q], link[q], sess[q], current' = q)
  BY <1>2, <1>4 DEF RunInv, LastOverrun, SessionOver
<1>6. QED
  BY <1>1, <1>2, <1>3, <1>5, StepOfRun

LEMMA EndByParentStep ==
  ASSUME IInv, NEW q \in Runs, EndByParent(q) PROVE IInv'
<1>1. PICK t \in SessionState :
        /\ sess' = [sess EXCEPT ![q] = t]
        /\ t.accepted = sess[q].accepted /\ t.saidDone = sess[q].saidDone
        /\ sess[q].endFailed => t.endFailed
        /\ current' = current \/ (current = q /\ current' = NoRun)
        /\ current' = q => t.endFailed
  BY EndOnMyFuelEffect DEF EndByParent
<1>2. /\ w[q] \in WorkerState /\ Become(q, w[q]) /\ q \in issued
      /\ UNCHANGED <<link, own, spawned, issued>>
      /\ RunInv(w[q], link[q], sess[q], current = q)
  BY Here DEF EndByParent, Become
<1>3. (current' = q) => (current = q) /\ t.endFailed
  BY <1>1, ConstantsAssumption
<1>4. RunInv(w[q], link[q], t, current' = q)
  BY <1>1, <1>2, <1>3 DEF RunInv, Counts, LastOverrun, SessionOver, DoneComplete
<1>5. QED
  BY <1>1, <1>2, <1>4, WithMyFuel

LEMMA EndedElsewhereStep ==
  ASSUME IInv, EndedElsewhere PROVE IInv'
<1>1. PICK q \in Runs : current = q
  BY DEF EndedElsewhere, IInv, TypeOK
<1>2. /\ w' = [w EXCEPT ![q] = w[q]] /\ link' = [link EXCEPT ![q] = link[q]]
      /\ sess' = [sess EXCEPT ![q] = sess[q]]
  BY Here DEF EndedElsewhere
<1>3. /\ w[q] \in WorkerState /\ link[q] \in LinkState /\ sess[q] \in SessionState
      /\ RunInv(w[q], link[q], sess[q], current = q) /\ (w[q].pc # "idle" => q \in issued')
  BY Here DEF EndedElsewhere
<1>4. /\ own' \subseteq spawned' /\ spawned' \subseteq Procs /\ issued' \subseteq Runs
      /\ issued \subseteq issued' /\ current' \in issued' \cup {NoRun}
      /\ \A r \in Runs : current' # r
  BY Here, ConstantsAssumption DEF EndedElsewhere
<1>5. RunInv(w[q], link[q], sess[q], current' = q)
  BY <1>3, <1>4 DEF RunInv, LastOverrun, SessionOver
<1>6. QED
  BY <1>2, <1>3, <1>4, <1>5, StepOfRun

LEMMA QBExitStep ==
  ASSUME IInv, NEW p \in own, QBExit(p) PROVE IInv'
<1>1. UNCHANGED <<w, link, sess, spawned, current, issued>> /\ own' \subseteq own
  BY DEF QBExit
<1>2. QED
  BY <1>1 DEF IInv, TypeOK

-----------------------------------------------------------------------------

LEMMA NextIInv ==
  ASSUME IInv, [WNext]_workerVars PROVE IInv'
<1>1. CASE UNCHANGED workerVars
  BY <1>1 DEF IInv, TypeOK, workerVars
<1>2. ASSUME NEW q \in Runs, ComStep(q) PROVE IInv'
  BY <1>2, CreateProcessorStep, OpenConnectionStep, BeginSessionStep, BeginSessionReturnsStep,
     ProcessRequestStep, EndSessionStep, CloseConnectionStep, ReleaseStep DEF ComStep
<1>3. ASSUME NEW q \in Runs, LocalStep(q) PROVE IInv'
  BY <1>3, FindBeforeStep, IdentifyOwnStep, LoopTopStep, PostNextStep, PostResponseStep,
     ReportErrorStep, PostEndStep, PutResultStep, FlushStep, ExitStep DEF LocalStep
<1>4. ASSUME NEW q \in Runs, WorkerStep(q) PROVE IInv'
  BY <1>2, <1>3, <1>4, ExpireStep, DieStep, WorkerCrashStep DEF WorkerStep
<1>5. ASSUME NEW q \in Runs, ParentStep(q) PROVE IInv'
  BY <1>5, StartSessionStep, SpawnStep, SetStopStep, TerminateStep, EndByParentStep DEF ParentStep
<1>6. CASE Surroundings
  BY <1>6, EndedElsewhereStep, QBExitStep DEF Surroundings
<1>7. QED
  BY <1>1, <1>4, <1>5, <1>6 DEF WNext

\* The inductive invariant holds of every reachable state.
THEOREM WorkerInvariant == WSpec => []IInv
BY InitIInv, NextIInv, PTL DEF WSpec

-----------------------------------------------------------------------------
(* What the invariant says of the properties of QBWorker                   *)

\* Every variable keeps its type, and no QuickBooks runs that was never started.
THEOREM WorkerTypeOK == WSpec => []TypeOK
<1>1. IInv => TypeOK
  BY DEF IInv
<1>2. QED
  BY <1>1, WorkerInvariant, PTL

\* No exit path leaves a finished or dead worker connected to QuickBooks.
THEOREM WorkerNeverEndsConnected == WSpec => []NeverEndsConnected
<1>1. IInv => NeverEndsConnected
  BY DEF IInv, RunInv, Connection, NeverEndsConnected
<1>2. QED
  BY <1>1, WorkerInvariant, PTL

\* At most one executed request has an answer MyFuel does not have.
THEOREM WorkerAtMostOneInDoubt == WSpec => []AtMostOneInDoubt
<1>1. ASSUME IInv, NEW r \in Runs
      PROVE  link[r].executed - sess[r].accepted \in {0, 1}
  <2>1. link[r].executed \in Nat /\ sess[r].accepted \in Nat
    BY <1>1, Here DEF LinkState, SessionState
  <2>2. link[r].executed = sess[r].accepted \/ link[r].executed = sess[r].accepted + 1
    BY <1>1 DEF IInv, RunInv, Counts
  <2>3. QED
    BY <2>1, <2>2
<1>2. IInv => AtMostOneInDoubt
  BY <1>1 DEF AtMostOneInDoubt
<1>3. QED
  BY <1>2, WorkerInvariant, PTL

\* "done" is said only of runs MyFuel called done with every answer in.
THEOREM WorkerDoneMeansComplete == WSpec => []DoneMeansComplete
<1>1. IInv => DoneMeansComplete
  BY DEF IInv, RunInv, DoneComplete, DoneMeansComplete
<1>2. QED
  BY <1>1, WorkerInvariant, PTL

\* QuickBooks executes at most SYNC_QB_MaxSessionRequests requests of a run.
THEOREM WorkerRequestLimit == WSpec => []RequestLimit
<1>1. IInv => RequestLimit
  BY DEF IInv, RunInv, Counts, RequestLimit
<1>2. QED
  BY <1>1, WorkerInvariant, PTL

\* At most one request is executed after a run should have been over.
THEOREM WorkerAtMostOneOverrun == WSpec => []AtMostOneOverrun
<1>1. IInv => AtMostOneOverrun
  BY DEF IInv, RunInv, LastOverrun, AtMostOneOverrun
<1>2. QED
  BY <1>1, WorkerInvariant, PTL

\* A run that ended by itself has ended its session or failed in the attempt.
THEOREM WorkerEndsItsSession == WSpec => []EndsItsSession
<1>1. IInv => EndsItsSession
  BY DEF IInv, RunInv, SessionOver, EndsItsSession
<1>2. QED
  BY <1>1, WorkerInvariant, PTL
=============================================================================
