---------------------------- MODULE QBOwnProofs ----------------------------
(***************************************************************************)
(* Whose QuickBooks a run drives, for any number of runs, of QuickBooks    *)
(* processes and of crashes, and an SDK that prefers ours                  *)
(* (~ForeignDespiteOwn).  The own-instance check infers the connection     *)
(* from two listings of the process table; that it infers right needs      *)
(* whatever appears between the two to have been launched for this run.    *)
(* The runner sees to that with one worker at a time; with workers left    *)
(* behind by crashes it is what Undisturbed says.                          *)
(***************************************************************************)
EXTENDS QBServiceProofs

Clean == LimitOutcomes \cup {"done", "superseded"}

Identifying == {"beginning", "identify"}

(***************************************************************************)
(* What is known of the worker x of a run and of its link l, when the      *)
(* processes in o run and those in s have ever run.                        *)
(***************************************************************************)

\* Before it is connected it has listed every process of ours that runs.
Listed(x, l, o) ==
  /\ x.pc \in {"idle", "before", "create", "open", "begin"} => l.target = NoProc
  /\ x.pc \in {"create", "open", "begin"} => o \subseteq x.before

\* What it has not listed is what it is connected to, which is another user's
\* only if none of ours runs.
Explained(x, l, o) ==
  /\ x.pc \in Identifying => o \subseteq x.before \cup {l.target} /\ (l.target = Foreign => o = {})
  /\ x.pc = "identify" => l.target # NoProc

\* What it has identified is what it is connected to, as long as that runs.
Identified(x, l, o) ==
  /\ x.pc \in {"idle"} \cup Opening => x.ident = NoProc
  /\ x.pc \in Relaying \ {"identify"} \/ x.outcome \in Clean => x.ident # NoProc
  /\ x.ident # NoProc => l.target \in Procs /\ (l.target \in o => x.ident = l.target)

\* The process identified is on its way to the parent, before the result.
Reported(x) ==
  x.ident # NoProc =>
    /\ x.pc \in Executing => "qb_process" \in x.outbox \cup x.pipe
    /\ "result" \in x.pipe => "qb_process" \in x.pipe

OwnInv(x, l, o, s) ==
  /\ Listed(x, l, o) /\ Explained(x, l, o) /\ Identified(x, l, o) /\ Reported(x)
  /\ l.executed > 0 => l.target \in Procs
  /\ l.target \in s \cup {Foreign, NoProc}

AllOwn == \A r \in Runs : OwnInv(w[r], link[r], own, spawned)

\* Between its two listings a worker is disturbed by one thing only: another of
\* ours that may launch a QuickBooks.
Between == {"create", "open", "begin"} \cup Identifying

Undisturbed ==
  \A q, r \in Runs : q # r /\ w[q].pc = "begin" => w[r].pc \notin Between

OwnRuns == ~ForeignDespiteOwn /\ crashes = 0 => AllOwn

(***************************************************************************)
(* What a run left that is over without an alarm.                          *)
(***************************************************************************)

\* Its result has been put when its session was over.
ResultEndsSession ==
  \A r \in Runs : "result" \in w[r].outbox \cup w[r].pipe => current # r \/ sess[r].endFailed

CleanResult(r) == "result" \in w[r].pipe /\ w[r].outcome \in Clean

QuietTick ==
  /\ rn.pc = "verify" /\ alerts[rn.run] = {} => CleanResult(rn.run)
  /\ rn.pc = "endKilled" => alerts[rn.run] # {}

QuietEnded ==
  \A r \in ended : alerts[r] = {} =>
    /\ CleanResult(r)
    /\ ~ForeignDespiteOwn /\ crashes = 0 => link[r].target \notin own

QInv == SInv /\ OwnRuns /\ ResultEndsSession /\ QuietTick /\ QuietEnded


-----------------------------------------------------------------------------
(* The own-instance check                                                  *)

\* One new process is the answer; without one, an only old one.
LEMMA IdentifyNew ==
  ASSUME NEW b, NEW a, NEW t \in a, a \subseteq b \cup {t},
         identify_own_instance(b, a) # NoProc
  PROVE  identify_own_instance(b, a) = t
<1> DEFINE c == IF a \ b # {} THEN a \ b ELSE a
<1>1. PICK p \in c : c = {p}
  BY DEF identify_own_instance
<1>2. identify_own_instance(b, a) = p
  BY <1>1 DEF identify_own_instance
<1>3. t \in c
  BY <1>1
<1> QED  BY <1>1, <1>2, <1>3

-----------------------------------------------------------------------------
(* A run's invariant when something moves                                  *)

\* Another run: between the listings of this one, nobody launches a QuickBooks.
LEMMA OtherRun ==
  ASSUME NEW x, NEW l, NEW o, NEW s, NEW o2, NEW s2, OwnInv(x, l, o, s),
         x.pc \notin Between \/ o2 \subseteq o, s \subseteq s2, (o2 \ o) \cap s = {}
  PROVE  OwnInv(x, l, o2, s2)
<1>1. l.target \in Procs /\ l.target \in o2 => l.target \in o
  BY ConstantsAssumption DEF OwnInv
<1>2. Identified(x, l, o2)
  BY <1>1 DEF OwnInv, Identified
<1>3. Listed(x, l, o2) /\ Explained(x, l, o2)
  BY DEF OwnInv, Listed, Explained, Between
<1> QED  BY <1>2, <1>3 DEF OwnInv

\* This one goes on, past the check or out of the try block.
LEMMA GoesOn ==
  ASSUME NEW y, NEW l, NEW o, NEW s, NEW x, NEW m, OwnInv(y, l, o, s),
         x.ident = y.ident, m.target = l.target,
         x.pc \notin {"idle", "identify"} \cup Opening,
         x.pc \in Relaying \/ x.outcome \in Clean => y.ident # NoProc,
         x.pc \in Executing => y.pc \in Executing /\ y.outbox \subseteq x.outbox,
         x.pipe = y.pipe,
         m.executed > 0 => l.executed > 0 \/ l.target \in Procs
  PROVE  OwnInv(x, m, o, s)
<1>1. Listed(x, m, o) /\ Explained(x, m, o)
  BY DEF Listed, Explained, Identifying, Opening
<1>2. Identified(x, m, o)
  BY DEF OwnInv, Identified
<1>3. Reported(x)
  BY DEF OwnInv, Reported
<1> QED  BY <1>1, <1>2, <1>3 DEF OwnInv

\* It stays where it is.
LEMMA StaysThere ==
  ASSUME NEW y, NEW l, NEW o, NEW s, NEW x, OwnInv(y, l, o, s),
         x.pc = y.pc, x.ident = y.ident, x.before = y.before, x.outcome = y.outcome,
         \/ x.outbox = y.outbox /\ x.pipe = y.pipe
         \/ y.pc \in Executing /\ x.pipe = y.pipe \cup y.outbox
  PROVE  OwnInv(x, l, o, s)
BY DEF OwnInv, Listed, Explained, Identified, Reported

\* What one run's worker knows, and what the listings may hold.
LEMMA Knows ==
  ASSUME SInv, AllOwn, ~ForeignDespiteOwn, NEW q \in Runs
  PROVE  /\ w \in [Runs -> WorkerState] /\ link \in [Runs -> LinkState]
         /\ OwnInv(w[q], link[q], own, spawned)
         /\ Undecided(w[q]) /\ Counts(w[q], link[q], sess[q])
         /\ own \subseteq spawned /\ spawned \subseteq Procs
BY DEF SInv, IInv, TypeOK, RunInv, AllOwn

-----------------------------------------------------------------------------
(* A worker's own step                                                     *)

Kept(q) == OwnInv(w'[q], link'[q], own', spawned')

\* Any way out of the try block, also by a request that raises.
LEMMA LeaveKept ==
  ASSUME SInv, AllOwn, ~ForeignDespiteOwn, NEW q \in Runs, NEW out,
         Leave(q, out), out \in Clean => w[q].ident # NoProc,
         w[q].pc \in Opening \cup Relaying,
         link'[q].target = link[q].target,
         link'[q].executed > 0 => link[q].executed > 0 \/ link[q].target \in Procs,
         UNCHANGED <<own, spawned>>
  PROVE  Kept(q)
<1>1. /\ w'[q].pc \in {"report", "endSession"} /\ w'[q].outcome = out
      /\ w'[q].ident = w[q].ident /\ w'[q].outbox = w[q].outbox /\ w'[q].pipe = w[q].pipe
  BY Knows DEF Leave, Become, WorkerState
<1>2. w[q].pc \in Executing
  BY DEF Executing
<1>3. w'[q].pc \notin {"idle", "identify"} \cup Opening \cup Relaying
  BY <1>1 DEF Opening, Relaying
<1> QED  BY <1>1, <1>2, <1>3, Knows, GoesOn DEF Kept

\* A COM call that raises, before or after the process is identified.
LEMMA ComRaisesKept ==
  ASSUME SInv, AllOwn, ~ForeignDespiteOwn, NEW q \in Runs, ComRaises(q),
         w[q].pc \in Opening \cup Relaying,
         link'[q].target = link[q].target,
         link'[q].executed > 0 => link[q].executed > 0 \/ link[q].target \in Procs,
         UNCHANGED <<own, spawned>>
  PROVE  Kept(q)
<1>1. "com_error" \notin Clean /\ "error" \notin Clean
  BY DEF Clean, LimitOutcomes
<1> QED  BY <1>1, LeaveKept DEF ComRaises

LEMMA OpeningKept ==
  ASSUME SInv, AllOwn, ~ForeignDespiteOwn, NEW q \in Runs,
         FindBefore(q) \/ CreateProcessor(q) \/ OpenConnection(q)
  PROVE  Kept(q)
<1>0. /\ w \in [Runs -> WorkerState] /\ link \in [Runs -> LinkState]
      /\ OwnInv(w[q], link[q], own, spawned) /\ Undecided(w[q])
  BY Knows
<1>1. UNCHANGED <<own, spawned>> /\ w[q].pc \in Opening
  BY DEF FindBefore, CreateProcessor, OpenConnection, At, Opening
<1>2. "error" \notin Clean
  BY DEF Clean, LimitOutcomes
<1>3. CASE FindBefore(q) /\ Leave(q, "error")
  <2>1. UNCHANGED link
    BY <1>3 DEF FindBefore
  <2> QED  BY <1>1, <1>2, <1>3, <2>1, LeaveKept
<1>4. CASE (CreateProcessor(q) \/ OpenConnection(q)) /\ ComRaises(q)
  <2>1. link'[q].target = link[q].target /\ link'[q].executed = link[q].executed
    BY <1>0, <1>4 DEF CreateProcessor, OpenConnection, SetCom, LinkState
  <2> QED  BY <1>1, <1>4, <2>1, ComRaisesKept
<1>5. ASSUME NEW p \in {"create", "open", "begin"},
             w'[q].pc = p, w'[q].ident = w[q].ident, w'[q].outcome = w[q].outcome,
             w'[q].pipe = w[q].pipe, own \subseteq w'[q].before,
             link'[q].target = link[q].target, link'[q].executed = link[q].executed,
             w[q].pc \in {"before", "create", "open"}
      PROVE  Kept(q)
  BY <1>0, <1>1, <1>2, <1>5 DEF Kept, OwnInv, Listed, Explained, Identified, Reported, Identifying,
     Undecided, Opening, Relaying
<1>6. CASE FindBefore(q) /\ ~Leave(q, "error")
  <2>1. /\ w'[q].pc = "create" /\ w'[q].ident = w[q].ident /\ w'[q].outcome = w[q].outcome
        /\ w'[q].pipe = w[q].pipe /\ w'[q].before = own /\ w[q].pc = "before"
    <3> DEFINE x == [w[q] EXCEPT !.before = own, !.pc = "create"]
    <3>1. w[q].pc = "before" /\ w' = [w EXCEPT ![q] = x]
      BY <1>6 DEF FindBefore, At, Become
    <3>2. /\ x.pc = "create" /\ x.before = own /\ x.ident = w[q].ident
          /\ x.outcome = w[q].outcome /\ x.pipe = w[q].pipe
      BY <1>0 DEF WorkerState
    <3> HIDE DEF x
    <3> QED  BY <1>0, <3>1, <3>2
  <2>2. link'[q].target = link[q].target /\ link'[q].executed = link[q].executed
    BY <1>6 DEF FindBefore
  <2>3. own \subseteq w'[q].before
    BY <2>1
  <2> QED  BY <1>5, <2>1, <2>2, <2>3
<1>7. CASE CreateProcessor(q) /\ ~ComRaises(q)
  <2>1. /\ w'[q].pc = "open" /\ w'[q].ident = w[q].ident /\ w'[q].outcome = w[q].outcome
        /\ w'[q].pipe = w[q].pipe /\ w'[q].before = w[q].before /\ w[q].pc = "create"
    BY <1>0, <1>7 DEF CreateProcessor, At, Become, WorkerState
  <2>2. link'[q].target = link[q].target /\ link'[q].executed = link[q].executed
    BY <1>0, <1>7 DEF CreateProcessor, SetCom, LinkState
  <2>3. own \subseteq w'[q].before
    BY <1>0, <2>1 DEF OwnInv, Listed
  <2> QED  BY <1>5, <2>1, <2>2, <2>3
<1>8. CASE OpenConnection(q) /\ ~ComRaises(q)
  <2>1. /\ w'[q].pc = "begin" /\ w'[q].ident = w[q].ident /\ w'[q].outcome = w[q].outcome
        /\ w'[q].pipe = w[q].pipe /\ w'[q].before = w[q].before /\ w[q].pc = "open"
    BY <1>0, <1>8 DEF OpenConnection, At, Become, WorkerState
  <2>2. link'[q].target = link[q].target /\ link'[q].executed = link[q].executed
    BY <1>0, <1>8 DEF OpenConnection, SetCom, LinkState
  <2>3. own \subseteq w'[q].before
    BY <1>0, <2>1 DEF OwnInv, Listed
  <2> QED  BY <1>5, <2>1, <2>2, <2>3
<1> QED  BY <1>3, <1>4, <1>6, <1>7, <1>8

\* QuickBooks is launched, attached to, or not there: all that was not listed is
\* what this run is connected to.
LEMMA BeginSessionKept ==
  ASSUME SInv, AllOwn, ~ForeignDespiteOwn, NEW q \in Runs, BeginSession(q)
  PROVE  Kept(q)
<1>0. /\ w \in [Runs -> WorkerState] /\ link \in [Runs -> LinkState]
      /\ OwnInv(w[q], link[q], own, spawned) /\ Undecided(w[q])
      /\ Counts(w[q], link[q], sess[q]) /\ own \subseteq spawned /\ spawned \subseteq Procs
  BY Knows
<1>1. /\ w[q].pc = "begin" /\ w'[q].pc = "beginning"
      /\ w'[q].ident = w[q].ident /\ w'[q].outcome = w[q].outcome
      /\ w'[q].pipe = w[q].pipe /\ w'[q].before = w[q].before
  BY <1>0 DEF BeginSession, At, Goto, Become, WorkerState
<1>2. /\ link[q].target = NoProc /\ own \subseteq w[q].before /\ w[q].ident = NoProc
      /\ w[q].outcome = "error" /\ link[q].executed = 0
  BY <1>0, <1>1 DEF OwnInv, Listed, Identified, Undecided, Counts, Opening
<1>3. link'[q].executed = 0
  BY <1>0, <1>2 DEF BeginSession, LinkState
<1>4. /\ own' \subseteq w[q].before \cup {link'[q].target}
      /\ link'[q].target = Foreign => own' = {}
      /\ link'[q].target \in spawned' \cup {Foreign, NoProc}
  <2>1. CASE \E p \in Procs \ spawned : /\ own' = own \cup {p} /\ spawned' = spawned \cup {p}
                                        /\ link' = [link EXCEPT ![q].target = p]
    <3>1. PICK p \in Procs \ spawned : /\ own' = own \cup {p} /\ spawned' = spawned \cup {p}
                                       /\ link' = [link EXCEPT ![q].target = p]
      BY <2>1
    <3>2. link'[q].target = p
      BY <1>0, <3>1 DEF LinkState
    <3> QED  BY <1>2, <3>1, <3>2, ConstantsAssumption
  <2>2. CASE (\E p \in own : link' = [link EXCEPT ![q].target = p]) /\ UNCHANGED <<own, spawned>>
    <3>1. PICK p \in own : link'[q].target = p
      BY <1>0, <2>2 DEF LinkState
    <3> QED  BY <1>0, <1>2, <2>2, <3>1, ConstantsAssumption
  <2>3. CASE /\ own = {} /\ link' = [link EXCEPT ![q].target = Foreign]
             /\ UNCHANGED <<own, spawned>>
    BY <1>0, <2>3 DEF LinkState
  <2>4. CASE UNCHANGED <<link, own, spawned>>
    BY <1>2, <2>4, ConstantsAssumption
  <2> QED  BY <2>1, <2>2, <2>3, <2>4 DEF BeginSession
<1>5. "error" \notin Clean
  BY DEF Clean, LimitOutcomes
<1> QED  BY <1>1, <1>2, <1>3, <1>4, <1>5 DEF Kept, OwnInv, Listed, Explained, Identified, Reported,
            Identifying, Opening, Relaying

LEMMA BeginSessionReturnsKept ==
  ASSUME SInv, AllOwn, ~ForeignDespiteOwn, NEW q \in Runs, BeginSessionReturns(q)
  PROVE  Kept(q)
<1>0. /\ w \in [Runs -> WorkerState] /\ link \in [Runs -> LinkState]
      /\ OwnInv(w[q], link[q], own, spawned) /\ Undecided(w[q])
      /\ own \subseteq spawned /\ spawned \subseteq Procs
  BY Knows
<1>1. UNCHANGED <<own, spawned>> /\ w[q].pc = "beginning"
  BY DEF BeginSessionReturns, At
<1>2. link'[q].target = link[q].target /\ link'[q].executed = link[q].executed
  BY <1>0 DEF BeginSessionReturns, SetCom, LinkState
<1>3. CASE ComRaises(q)
  BY <1>1, <1>2, <1>3, ComRaisesKept DEF Opening
<1>4. CASE ~ComRaises(q)
  <2>1. /\ w'[q].pc = "identify" /\ w'[q].ident = w[q].ident /\ w'[q].outcome = w[q].outcome
        /\ w'[q].pipe = w[q].pipe /\ w'[q].before = w[q].before /\ Reachable(q)
    BY <1>0, <1>4 DEF BeginSessionReturns, Become, WorkerState
  <2>2. link[q].target # NoProc
    BY <1>0, <2>1, ConstantsAssumption DEF Reachable
  <2>3. w[q].ident = NoProc /\ w[q].outcome = "error" /\ "error" \notin Clean
    BY <1>0, <1>1 DEF OwnInv, Identified, Undecided, Opening, Clean, LimitOutcomes
  <2> QED  BY <1>0, <1>1, <1>2, <2>1, <2>2, <2>3 DEF Kept, OwnInv, Listed, Explained, Identified,
              Reported, Identifying, Opening, Relaying
<1> QED  BY <1>3, <1>4

\* What the check answers is what the run is connected to.
LEMMA IdentifyOwnKept ==
  ASSUME SInv, AllOwn, ~ForeignDespiteOwn, NEW q \in Runs, IdentifyOwn(q)
  PROVE  Kept(q)
<1> DEFINE p == identify_own_instance(w[q].before, own)
           b == w[q].outbox \cup {"qb_process"}
           x == [w[q] EXCEPT !.ident = p, !.pc = "loop", !.outbox = b]
<1>0. /\ w \in [Runs -> WorkerState] /\ link \in [Runs -> LinkState]
      /\ OwnInv(w[q], link[q], own, spawned) /\ Undecided(w[q])
      /\ own \subseteq spawned /\ spawned \subseteq Procs
  BY Knows
<1>1. UNCHANGED <<link, own, spawned>> /\ w[q].pc = "identify"
  BY DEF IdentifyOwn, At
<1>2. ASSUME NEW out \in {"attach_refused", "error"}, Leave(q, out) PROVE Kept(q)
  <2>1. out \notin Clean
    BY <1>2 DEF Clean, LimitOutcomes
  <2> QED  BY <1>1, <1>2, <2>1, LeaveKept DEF Relaying
<1>3. CASE p # NoProc /\ Become(q, x)
  <2>1. p \in own
    BY <1>3, IdentifyRange
  <2>2. own \subseteq w[q].before \cup {link[q].target} /\ link[q].target \in Procs
    BY <1>0, <1>1, <2>1 DEF OwnInv, Explained, Identifying
  <2>3. link[q].target \in own => p = link[q].target
    BY <1>3, <2>2, IdentifyNew
  <2> HIDE DEF p, b
  <2>4. /\ x.pc = "loop" /\ x.ident = p /\ x.outbox = b /\ x.pipe = w[q].pipe
        /\ x.outcome = w[q].outcome
    BY <1>0 DEF WorkerState
  <2> HIDE DEF x
  <2>5. w'[q] = x
    BY <1>0, <1>3 DEF Become
  <2>6. "result" \notin w[q].pipe
    BY <1>1 DEF SInv, ResultMeansOver, Over
  <2>7. w[q].outcome \notin Clean
    BY <1>0, <1>1 DEF Undecided, Relaying, Clean, LimitOutcomes
  <2>8. Listed(x, link[q], own) /\ Explained(x, link[q], own) /\ Identified(x, link[q], own)
        /\ Reported(x)
    BY <1>3, <2>2, <2>3, <2>4, <2>6, <2>7
    DEF Listed, Explained, Identified, Reported, Identifying, Opening, b
  <2> QED  BY <1>0, <1>1, <2>5, <2>8 DEF Kept, OwnInv
<1> QED  BY <1>2, <1>3 DEF IdentifyOwn

\* A step within the relay loop; only what was identified is ever asked.
LEMMA LoopingKept ==
  ASSUME SInv, AllOwn, ~ForeignDespiteOwn, NEW q \in Runs,
         w[q].pc \in Relaying \ {"identify"}, UNCHANGED <<own, spawned>>,
         w'[q].pc \in Relaying \ {"identify"},
         w'[q].ident = w[q].ident, w'[q].outbox = w[q].outbox, w'[q].pipe = w[q].pipe,
         link'[q].target = link[q].target
  PROVE  Kept(q)
<1>1. w[q].ident # NoProc /\ link[q].target \in Procs
  BY Knows DEF OwnInv, Identified
<1>2. w'[q].pc \notin {"idle", "identify"} \cup Opening /\ w[q].pc \in Executing
  BY DEF Executing, Opening, Relaying
<1> QED  BY <1>1, <1>2, Knows, GoesOn DEF Kept

LEMMA RelayingKept ==
  ASSUME SInv, AllOwn, ~ForeignDespiteOwn, NEW q \in Runs,
         LoopTop(q) \/ PostNext(q) \/ ProcessRequest(q) \/ PostResponse(q)
  PROVE  Kept(q)
<1>0. /\ w \in [Runs -> WorkerState] /\ link \in [Runs -> LinkState]
      /\ OwnInv(w[q], link[q], own, spawned)
  BY Knows
<1>1. UNCHANGED <<own, spawned>> /\ w[q].pc \in Relaying \ {"identify"}
  BY DEF LoopTop, PostNext, ProcessRequest, PostResponse, At, Relaying
<1>2. w[q].ident # NoProc /\ link[q].target \in Procs
  BY <1>0, <1>1 DEF OwnInv, Identified
<1>3. link'[q].target = link[q].target
  BY <1>0 DEF LoopTop, PostNext, ProcessRequest, PostResponse, Execute, LinkState
<1>4. ASSUME NEW out, Leave(q, out) PROVE Kept(q)
  BY <1>1, <1>2, <1>3, <1>4, LeaveKept
<1>5. ASSUME NEW p \in Relaying \ {"identify"}, Goto(q, p) PROVE Kept(q)
  <2>1. /\ w'[q].pc = p /\ w'[q].ident = w[q].ident /\ w'[q].outbox = w[q].outbox
        /\ w'[q].pipe = w[q].pipe
    BY <1>0, <1>5 DEF Goto, Become, WorkerState
  <2> QED  BY <1>1, <1>3, <2>1, LoopingKept
<1>6. CASE LoopTop(q) \/ PostNext(q) \/ PostResponse(q)
  BY <1>4, <1>5, <1>6 DEF LoopTop, PostNext, PostResponse, Relaying
<1>7. CASE ProcessRequest(q)
  <2> DEFINE n == w[q].requests + 1
             x == [w[q] EXCEPT !.requests = n, !.pc = "response"]
  <2>1. CASE ComRaises(q)
    BY <1>4, <2>1 DEF ComRaises
  <2>2. CASE w' = [w EXCEPT ![q] = x]
    <3> HIDE DEF n
    <3>1. /\ x.pc = "response" /\ x.ident = w[q].ident /\ x.outbox = w[q].outbox
          /\ x.pipe = w[q].pipe
      BY <1>0 DEF WorkerState
    <3> HIDE DEF x
    <3>2. w'[q] = x /\ "response" \in Relaying \ {"identify"}
      BY <1>0, <2>2 DEF Relaying
    <3> QED  BY <1>1, <1>3, <3>1, <3>2, LoopingKept
  <2> QED  BY <1>7, <2>1, <2>2 DEF ProcessRequest, Become
<1> QED  BY <1>6, <1>7

\* The `finally`, and the end of the process.
LEMMA ClosingKept ==
  ASSUME SInv, AllOwn, ~ForeignDespiteOwn, NEW q \in Runs,
         \/ ReportError(q) \/ EndSession(q) \/ CloseConnection(q) \/ Release(q) \/ PostEnd(q)
         \/ PutResult(q) \/ Exit(q) \/ Die(q) \/ WorkerCrash(q) \/ Terminate(q)
  PROVE  Kept(q)
<1>0. /\ w \in [Runs -> WorkerState] /\ link \in [Runs -> LinkState]
      /\ OwnInv(w[q], link[q], own, spawned)
  BY Knows
<1> USE DEF ReportError, EndSession, CloseConnection, Release, PostEnd, PutResult, Exit, Die,
            WorkerCrash, Terminate
<1>1. UNCHANGED <<own, spawned>>
  OBVIOUS
<1>2. link'[q].target = link[q].target /\ link'[q].executed = link[q].executed
  BY <1>0 DEF SetCom, LinkState
<1>3. ASSUME NEW x, w' = [w EXCEPT ![q] = x], x.ident = w[q].ident, x.outcome = w[q].outcome,
             x.pipe = w[q].pipe, x.pc \in Closing \cup Finishing \cup {"exited", "dying", "dead"},
             x.pc \in Executing => w[q].pc \in Executing /\ w[q].outbox \subseteq x.outbox
      PROVE  Kept(q)
  <2>1. w'[q] = x
    BY <1>0, <1>3
  <2>2. x.pc \notin {"idle", "identify"} \cup Opening \cup Relaying
    BY <1>3 DEF Opening, Relaying, Closing, Finishing
  <2>3. x.outcome \in Clean => w[q].ident # NoProc
    BY <1>0, <1>3 DEF OwnInv, Identified
  <2> QED  BY <1>0, <1>1, <1>2, <1>3, <2>1, <2>2, <2>3, GoesOn DEF Kept
<1>4. ASSUME NEW p \in Closing \cup Finishing \cup {"exited", "dead"}, Goto(q, p),
             p \in Executing => w[q].pc \in Executing
      PROVE  Kept(q)
  <2> DEFINE x == [w[q] EXCEPT !.pc = p]
  <2>1. w' = [w EXCEPT ![q] = x]
    BY <1>4 DEF Goto, Become
  <2>2. /\ x.pc = p /\ x.ident = w[q].ident /\ x.outcome = w[q].outcome
        /\ x.pipe = w[q].pipe /\ x.outbox = w[q].outbox
    BY <1>0 DEF WorkerState
  <2> HIDE DEF x
  <2> QED  BY <1>3, <1>4, <2>1, <2>2
<1>5. CASE EndSession(q) \/ CloseConnection(q) \/ Release(q) \/ PostEnd(q) \/ Exit(q) \/ Die(q)
  BY <1>4, <1>5 DEF At, Executing, Closing, Finishing, Opening, Relaying
<1>6. CASE ReportError(q)
  <2> DEFINE x == [w[q] EXCEPT !.reported = TRUE, !.pc = "endSession"]
  <2>1. w' = [w EXCEPT ![q] = x] /\ w[q].pc \in Executing
    BY <1>6 DEF Become, At, Executing, Closing
  <2>2. /\ x.pc = "endSession" /\ x.ident = w[q].ident /\ x.outcome = w[q].outcome
        /\ x.pipe = w[q].pipe /\ x.outbox = w[q].outbox
    BY <1>0 DEF WorkerState
  <2> HIDE DEF x
  <2> QED  BY <1>3, <2>1, <2>2 DEF Closing
<1>7. CASE PutResult(q)
  <2> DEFINE b == w[q].outbox \cup {"result"}
             x == [w[q] EXCEPT !.outbox = b, !.pc = "exiting"]
  <2>1. w' = [w EXCEPT ![q] = x] /\ w[q].pc \in Executing
    BY <1>7 DEF Become, At, Executing, Finishing
  <2> HIDE DEF b
  <2>2. /\ x.pc = "exiting" /\ x.ident = w[q].ident /\ x.outcome = w[q].outcome
        /\ x.pipe = w[q].pipe /\ x.outbox = b
    BY <1>0 DEF WorkerState
  <2> HIDE DEF x
  <2> QED  BY <1>3, <2>1, <2>2 DEF Finishing, b
<1>8. CASE WorkerCrash(q) \/ Terminate(q)
  <2>1. PICK p \in {"dead", "dying"} : w' = [w EXCEPT ![q] = [w[q] EXCEPT !.pc = p, !.outbox = {}]]
    BY <1>8 DEF Become
  <2> DEFINE x == [w[q] EXCEPT !.pc = p, !.outbox = {}]
  <2>2. /\ x.pc = p /\ x.ident = w[q].ident /\ x.outcome = w[q].outcome /\ x.pipe = w[q].pipe
    BY <1>0 DEF WorkerState
  <2>3. p \notin Executing
    BY DEF Executing, Opening, Relaying, Closing, Finishing
  <2> HIDE DEF x
  <2>4. w' = [w EXCEPT ![q] = x]
    BY <2>1 DEF x
  <2> QED  BY <1>3, <2>2, <2>3, <2>4
<1> QED  BY <1>5, <1>6, <1>7, <1>8

\* What moves while the worker stays where it is, and the start of its process.
LEMMA StayingKept ==
  ASSUME SInv, AllOwn, ~ForeignDespiteOwn, NEW q \in Runs,
         Flush(q) \/ Expire(q) \/ SetStop(q) \/ Spawn(q)
  PROVE  Kept(q)
<1>0. /\ w \in [Runs -> WorkerState] /\ OwnInv(w[q], link[q], own, spawned) /\ Undecided(w[q])
  BY Knows
<1>1. UNCHANGED <<link, own, spawned>>
  BY DEF Flush, Expire, SetStop, Spawn
<1>2. CASE Flush(q)
  <2> DEFINE a == w[q].pipe \cup w[q].outbox
             x == [w[q] EXCEPT !.pipe = a, !.outbox = {}]
  <2>1. w' = [w EXCEPT ![q] = x] /\ w[q].pc \in Executing
    BY <1>2 DEF Flush, Become
  <2> HIDE DEF a
  <2>2. /\ x.pc = w[q].pc /\ x.ident = w[q].ident /\ x.before = w[q].before
        /\ x.outcome = w[q].outcome /\ x.pipe = a
    BY <1>0 DEF WorkerState
  <2> HIDE DEF x
  <2>3. w'[q] = x
    BY <1>0, <2>1
  <2> QED  BY <1>0, <1>1, <2>1, <2>2, <2>3, StaysThere DEF Kept, a
<1>3. CASE Expire(q) \/ SetStop(q)
  <2>1. /\ w'[q].pc = w[q].pc /\ w'[q].ident = w[q].ident /\ w'[q].before = w[q].before
        /\ w'[q].outcome = w[q].outcome /\ w'[q].outbox = w[q].outbox /\ w'[q].pipe = w[q].pipe
    BY <1>0, <1>3 DEF Expire, SetStop, Become, WorkerState
  <2> QED  BY <1>0, <1>1, <2>1, StaysThere DEF Kept
<1>4. CASE Spawn(q)
  <2>1. /\ w[q].pc = "idle" /\ w'[q].pc = "before" /\ w'[q].ident = w[q].ident
        /\ w'[q].outcome = w[q].outcome /\ w'[q].pipe = w[q].pipe
    BY <1>0, <1>4 DEF Spawn, Goto, At, Become, WorkerState
  <2>2. "error" \notin Clean
    BY DEF Clean, LimitOutcomes
  <2> QED  BY <1>0, <1>1, <2>1, <2>2 DEF Kept, OwnInv, Listed, Explained, Identified, Reported,
              Identifying, Undecided, Opening, Relaying
<1> QED  BY <1>2, <1>3, <1>4

LEMMA WorkerKept ==
  ASSUME SInv, AllOwn, ~ForeignDespiteOwn, NEW q \in Runs,
         WorkerStep(q) \/ Spawn(q) \/ SetStop(q) \/ Terminate(q)
  PROVE  Kept(q)
BY OpeningKept, BeginSessionKept, BeginSessionReturnsKept, IdentifyOwnKept, RelayingKept,
   ClosingKept, StayingKept DEF WorkerStep, ComStep, LocalStep

-----------------------------------------------------------------------------
(* Every run, when the service or its surroundings move                    *)

\* Only the worker at work has QuickBooks launched, and it launches a new one.
LEMMA OwnStep ==
  ASSUME SInv, SNext
  PROVE  /\ spawned \subseteq spawned' /\ (own' \ own) \cap spawned = {}
         /\ (\E q \in Runs : BeginSession(q)) \/ own' \subseteq own
BY DEF SNext, ServiceStep, RunnerStep, OutsideStep, TickStart, LoopExit, PostStart, StartSession,
   SpawnWorker, Spawn, WaitWorker, PassOnStop, SetStop, CheckDeadlines, Terminate, KillWait, Collect,
   EndKilled, EndByParent, VerifyExited, VerifyFailed, TimePasses, HardDue, GraceDue, CloseDue,
   SvcStop, Crash, StartService, workerVars, WorkerStep, Surroundings, ComStep, LocalStep,
   CreateProcessor, OpenConnection, BeginSession, BeginSessionReturns, ProcessRequest, EndSession,
   CloseConnection, Release, FindBefore, IdentifyOwn, LoopTop, PostNext, PostResponse, ReportError,
   PostEnd, PutResult, Flush, Exit, Expire, Die, WorkerCrash, EndedElsewhere, QBExit

LEMMA NoCrashYet == ASSUME SInv, SNext, crashes' = 0 PROVE crashes = 0
<1>1. crashes \in Nat
  BY ServiceAssumption DEF SInv, ServiceTypeOK
<1>2. CASE Crash
  BY <1>1, <1>2 DEF Crash
<1>3. CASE crashes' = crashes
  BY <1>3
<1> QED
  BY <1>2, <1>3 DEF SNext, ServiceStep, RunnerStep, OutsideStep, serviceVars, TickStart, LoopExit,
     PostStart, SpawnWorker, WaitWorker, PassOnStop, CheckDeadlines, KillWait, Collect, EndKilled,
     VerifyExited, VerifyFailed, TimePasses, HardDue, GraceDue, CloseDue, SvcStop, StartService

\* In a life without a crash there is one worker at a time.
LEMMA NobodyDisturbs == ASSUME SInv, crashes = 0 PROVE Undisturbed
<1>1. \A q, r \in Runs : w[q].pc \in Executing /\ w[r].pc \in Executing => q = r
  BY NobodyLeft DEF LeftBehind, Unwatched, Watched
<1> QED  BY <1>1 DEF Undisturbed, Between, Identifying, Executing, Opening, Relaying

LEMMA AllOwnStep ==
  ASSUME SInv, AllOwn, ~ForeignDespiteOwn, Undisturbed, SNext PROVE AllOwn'
<1>1. SUFFICES ASSUME NEW r \in Runs PROVE Kept(r)
  BY DEF AllOwn, Kept
<1>2. OwnInv(w[r], link[r], own, spawned) /\ IInv
  BY DEF AllOwn, SInv
<1>3. ASSUME w'[r] = w[r], link'[r] = link[r],
             own' \subseteq own \/ \E q \in Runs \ {r} : w[q].pc = "begin"
      PROVE  Kept(r)
  <2>1. w[r].pc \notin Between \/ own' \subseteq own
    BY <1>3 DEF Undisturbed
  <2> QED  BY <1>2, <1>3, <2>1, OwnStep, OtherRun DEF Kept
<1>4. ASSUME NEW q \in Runs, WorkerStep(q) PROVE Kept(r)
  <2>1. CASE q = r
    BY <1>4, <2>1, WorkerKept
  <2>2. CASE q # r
    <3>1. w'[r] = w[r] /\ link'[r] = link[r]
      BY <1>2, <1>4, <2>2, StepAlone DEF IInv, Alone
    <3>2. own' \subseteq own \/ BeginSession(q)
      BY <1>4 DEF WorkerStep, ComStep, LocalStep, CreateProcessor, OpenConnection,
         BeginSessionReturns, ProcessRequest, EndSession, CloseConnection, Release, FindBefore,
         IdentifyOwn, LoopTop, PostNext, PostResponse, ReportError, PostEnd, PutResult, Flush, Exit,
         Expire, Die, WorkerCrash
    <3>3. BeginSession(q) => w[q].pc = "begin"
      BY DEF BeginSession, At
    <3> QED  BY <1>3, <2>2, <3>1, <3>2, <3>3
  <2> QED  BY <2>1, <2>2
<1>5. CASE SpawnWorker \/ PassOnStop \/ CheckDeadlines \/ EndKilled
  <2> DEFINE q == rn.run
  <2>1. q \in Runs
    BY <1>5, RunOfTick DEF SpawnWorker, PassOnStop, CheckDeadlines, EndKilled, RunnerAt
  <2> HIDE DEF q
  <2>2. UNCHANGED workerVars \/ Spawn(q) \/ SetStop(q) \/ Terminate(q) \/ EndByParent(q)
    BY <1>5 DEF SpawnWorker, PassOnStop, CheckDeadlines, EndKilled, q
  <2>3. CASE UNCHANGED workerVars \/ EndByParent(q)
    BY <1>3, <2>3 DEF workerVars, EndByParent
  <2>4. CASE (Spawn(q) \/ SetStop(q) \/ Terminate(q)) /\ q = r
    BY <2>4, WorkerKept
  <2>5. CASE (Spawn(q) \/ SetStop(q) \/ Terminate(q)) /\ q # r
    <3>1. w'[r] = w[r] /\ link'[r] = link[r]
      BY <1>2, <2>1, <2>5, StepAlone DEF IInv, Alone, ParentStep
    <3>2. own' = own
      BY <2>5 DEF Spawn, SetStop, Terminate
    <3> QED  BY <1>3, <3>1, <3>2
  <2> QED  BY <2>2, <2>3, <2>4, <2>5
<1>6. CASE \/ TickStart \/ LoopExit \/ PostStart \/ WaitWorker \/ KillWait \/ Collect
           \/ VerifyExited \/ VerifyFailed \/ TimePasses \/ SvcStop \/ Crash \/ StartService
           \/ Surroundings
  <2>1. UNCHANGED <<w, link>> /\ own' \subseteq own
    BY <1>6 DEF TickStart, LoopExit, PostStart, StartSession, WaitWorker, KillWait, Collect,
       VerifyExited, VerifyFailed, TimePasses, HardDue, GraceDue, CloseDue, SvcStop, Crash,
       StartService, workerVars, Surroundings, EndedElsewhere, QBExit
  <2> QED  BY <1>3, <2>1
<1> QED  BY <1>4, <1>5, <1>6 DEF SNext, ServiceStep, RunnerStep, OutsideStep

LEMMA OwnRunsStep == ASSUME SInv, OwnRuns, SNext PROVE OwnRuns'
BY NoCrashYet, NobodyDisturbs, AllOwnStep DEF OwnRuns

-----------------------------------------------------------------------------
(* What a result says of the session, and of the run                       *)

\* No ticket becomes current twice, and a POST that failed stays failed.
LEMMA SessionStep ==
  ASSUME IInv, WNext, NEW r \in Runs
  PROVE  /\ sess[r].endFailed => sess'[r].endFailed
         /\ current' = r => current = r \/ r \notin issued
<1>0. sess \in [Runs -> SessionState] /\ NoRun # r
  BY ConstantsAssumption DEF IInv, TypeOK
<1>1. ASSUME NEW q \in Runs, EndOnMyFuel(q)
      PROVE  /\ sess[r].endFailed => sess'[r].endFailed
             /\ current' = r => current = r
  BY <1>0, <1>1 DEF EndOnMyFuel, SessionState
<1>2. ASSUME NEW q \in Runs, ReportError(q) \/ PostEnd(q) \/ EndByParent(q)
      PROVE  /\ sess[r].endFailed => sess'[r].endFailed
             /\ current' = r => current = r
  BY <1>1, <1>2 DEF ReportError, PostEnd, EndByParent
<1>3. ASSUME NEW q \in Runs, PostNext(q) \/ PostResponse(q)
      PROVE  sess'[r].endFailed = sess[r].endFailed /\ current' = current
  BY <1>0, <1>3 DEF PostNext, PostResponse, SessionState
<1>4. ASSUME NEW q \in Runs, StartSession(q)
      PROVE  sess' = sess /\ (current' = r => r \notin issued)
  BY <1>4 DEF StartSession
<1>5. CASE Surroundings
  BY <1>0, <1>5 DEF Surroundings, EndedElsewhere, QBExit
<1>6. ASSUME NEW q \in Runs, WorkerStep(q) \/ ParentStep(q)
      PROVE  \/ ReportError(q) \/ PostEnd(q) \/ EndByParent(q) \/ PostNext(q) \/ PostResponse(q)
             \/ StartSession(q) \/ UNCHANGED <<sess, current>>
  BY <1>6 DEF WorkerStep, ParentStep, ComStep, LocalStep, CreateProcessor, OpenConnection,
     BeginSession, BeginSessionReturns, ProcessRequest, EndSession, CloseConnection, Release,
     FindBefore, IdentifyOwn, LoopTop, PutResult, Flush, Exit, Expire, Die, WorkerCrash, Spawn,
     SetStop, Terminate
<1> QED  BY <1>2, <1>3, <1>4, <1>5, <1>6 DEF WNext

\* Only PutResult puts a result.
LEMMA ResultIsPut ==
  ASSUME IInv, NEW q \in Runs, WorkerStep(q), "result" \in w'[q].outbox \cup w'[q].pipe
  PROVE  "result" \in w[q].outbox \cup w[q].pipe \/ PutResult(q)
<1>0. TypeOK /\ w \in [Runs -> WorkerState]
  BY DEF IInv, TypeOK
<1>1. CASE Flush(q)
  <2> DEFINE a == w[q].pipe \cup w[q].outbox
             x == [w[q] EXCEPT !.pipe = a, !.outbox = {}]
  <2>1. w' = [w EXCEPT ![q] = x]
    BY <1>1 DEF Flush, Become
  <2> HIDE DEF a
  <2>2. x.outbox = {} /\ x.pipe = a
    BY <1>0 DEF WorkerState
  <2> HIDE DEF x
  <2> QED  BY <1>0, <2>1, <2>2 DEF a
<1>2. CASE Exit(q) \/ Die(q) \/ Expire(q) \/ WorkerCrash(q)
  <2>1. CASE Exit(q) \/ Die(q)
    BY <1>0, <2>1 DEF Exit, Die, Goto, Become, WorkerState
  <2>2. CASE Expire(q)
    BY <1>0, <2>2 DEF Expire, Become, WorkerState
  <2>3. CASE WorkerCrash(q)
    BY <1>0, <2>3 DEF WorkerCrash, Become, WorkerState
  <2> QED  BY <1>2, <2>1, <2>2, <2>3
<1>3. CASE Unfinished(q)
  BY <1>3 DEF Unfinished
<1> QED  BY <1>0, <1>1, <1>2, <1>3, ComStepUnfinished, LocalStepUnfinished DEF WorkerStep

LEMMA ResultEndsStep == ASSUME SInv, ResultEndsSession, SNext PROVE ResultEndsSession'
<1>0. /\ IInv /\ w \in [Runs -> WorkerState]
  BY DEF SInv, IInv, TypeOK
<1>1. SUFFICES ASSUME NEW r \in Runs, "result" \in w'[r].outbox \cup w'[r].pipe
               PROVE  current' # r \/ sess'[r].endFailed
  BY DEF ResultEndsSession
<1>2. CASE UNCHANGED workerVars
  BY <1>1, <1>2 DEF workerVars, ResultEndsSession
<1>3. CASE WNext
  <2>1. CASE "result" \in w[r].outbox \cup w[r].pipe
    <3>1. r \in issued
      BY <1>0, <2>1 DEF SInv, IInv, ResultMeansOver, Over
    <3> QED  BY <1>0, <1>3, <2>1, <3>1, SessionStep DEF ResultEndsSession
  <2>2. CASE PutResult(r)
    <3>1. w[r].pc = "putResult" /\ UNCHANGED <<sess, current>>
      BY <2>2 DEF PutResult, At
    <3>2. SessionOver(w[r], sess[r], current = r)
      BY <1>0 DEF IInv, RunInv
    <3> QED  BY <3>1, <3>2 DEF SessionOver
  <2>3. "result" \in w[r].outbox \cup w[r].pipe \/ PutResult(r)
    <3>1. ASSUME NEW q \in Runs, WorkerStep(q)
          PROVE  "result" \in w[r].outbox \cup w[r].pipe \/ PutResult(r)
      BY <1>0, <1>1, <3>1, ResultIsPut, StepAlone DEF IInv, Alone
    <3>2. ASSUME NEW q \in Runs, ParentStep(q) PROVE "result" \in w[r].outbox \cup w[r].pipe
      BY <1>0, <1>1, <3>2, ParentRunStep DEF ParentStep, StartSession
    <3>3. CASE Surroundings
      BY <1>1, <3>3 DEF Surroundings, EndedElsewhere, QBExit
    <3> QED  BY <1>3, <3>1, <3>2, <3>3 DEF WNext
  <2> QED  BY <2>1, <2>2, <2>3
<1> QED  BY <1>2, <1>3, StepIsWorkerStep DEF SInv

-----------------------------------------------------------------------------
(* The end of a run without an alarm                                       *)

\* A result that has arrived is not changed by what happens after it.
SameResult(r) ==
  /\ "result" \in w[r].pipe => "result" \in w'[r].pipe
  /\ w'[r].outcome = w[r].outcome
  /\ link'[r].target = link[r].target

LEMMA OverStep ==
  ASSUME IInv, NEW q \in Runs, WorkerStep(q) \/ Spawn(q) \/ SetStop(q) \/ Terminate(q), Over(q)
  PROVE  SameResult(q)
<1>0. w \in [Runs -> WorkerState] /\ link \in [Runs -> LinkState]
  BY DEF IInv, TypeOK
<1>1. Flush(q) \/ Exit(q) \/ Expire(q) \/ Die(q) \/ WorkerCrash(q) \/ SetStop(q) \/ Terminate(q)
  BY DEF Over, At, WorkerStep, ComStep, LocalStep, CreateProcessor, OpenConnection, BeginSession,
     BeginSessionReturns, ProcessRequest, EndSession, CloseConnection, Release, FindBefore,
     IdentifyOwn, LoopTop, PostNext, PostResponse, ReportError, PostEnd, PutResult, Spawn
<1>2. link'[q].target = link[q].target
  BY <1>0, <1>1 DEF Flush, Exit, Expire, Die, WorkerCrash, SetStop, Terminate, SetCom, LinkState
<1>3. CASE Flush(q)
  <2> DEFINE a == w[q].pipe \cup w[q].outbox
             x == [w[q] EXCEPT !.pipe = a, !.outbox = {}]
  <2>1. w' = [w EXCEPT ![q] = x]
    BY <1>3 DEF Flush, Become
  <2> HIDE DEF a
  <2>2. x.outcome = w[q].outcome /\ x.pipe = a
    BY <1>0 DEF WorkerState
  <2> HIDE DEF x
  <2> QED  BY <1>0, <1>2, <2>1, <2>2 DEF SameResult, a
<1>4. CASE Exit(q) \/ Die(q)
  BY <1>0, <1>2, <1>4 DEF Exit, Die, Goto, Become, WorkerState, SameResult
<1>5. CASE Expire(q) \/ SetStop(q)
  BY <1>0, <1>2, <1>5 DEF Expire, SetStop, Become, WorkerState, SameResult
<1>6. CASE WorkerCrash(q) \/ Terminate(q)
  BY <1>0, <1>2, <1>6 DEF WorkerCrash, Terminate, Become, WorkerState, SameResult
<1> QED  BY <1>1, <1>3, <1>4, <1>5, <1>6

LEMMA ResultStays ==
  ASSUME SInv, SNext, NEW r \in Runs, CleanResult(r)
  PROVE  CleanResult(r)' /\ link'[r].target = link[r].target
<1>0. IInv /\ Over(r)
  BY DEF SInv, ResultMeansOver, CleanResult
<1>1. CASE UNCHANGED <<w, link>>
  BY <1>1 DEF CleanResult
<1>2. ASSUME NEW q \in Runs, WorkerStep(q) \/ Spawn(q) \/ SetStop(q) \/ Terminate(q)
      PROVE  SameResult(r)
  <2>1. CASE q = r
    BY <1>0, <1>2, <2>1, OverStep
  <2>2. CASE q # r
    <3>1. w'[r] = w[r] /\ link'[r] = link[r]
      BY <1>0, <1>2, <2>2, StepAlone DEF IInv, Alone, ParentStep
    <3> QED  BY <3>1 DEF SameResult
  <2> QED  BY <2>1, <2>2
<1>3. CASE SpawnWorker \/ PassOnStop \/ CheckDeadlines \/ EndKilled
  <2>1. rn.run \in Runs
    BY <1>3, RunOfTick DEF SpawnWorker, PassOnStop, CheckDeadlines, EndKilled, RunnerAt
  <2>2. \/ UNCHANGED <<w, link>>
        \/ Spawn(rn.run) \/ SetStop(rn.run) \/ Terminate(rn.run)
    BY <1>3 DEF SpawnWorker, PassOnStop, CheckDeadlines, EndKilled, EndByParent, workerVars
  <2> QED  BY <1>1, <1>2, <2>1, <2>2 DEF SameResult, CleanResult
<1>4. CASE \/ TickStart \/ LoopExit \/ PostStart \/ WaitWorker \/ KillWait \/ Collect
           \/ VerifyExited \/ VerifyFailed \/ TimePasses \/ SvcStop \/ Crash \/ StartService
           \/ Surroundings
  <2>1. UNCHANGED <<w, link>>
    BY <1>4 DEF TickStart, LoopExit, PostStart, StartSession, WaitWorker, KillWait, Collect,
       VerifyExited, VerifyFailed, TimePasses, HardDue, GraceDue, CloseDue, SvcStop, Crash,
       StartService, workerVars, Surroundings, EndedElsewhere, QBExit
  <2> QED  BY <1>1, <2>1
<1>5. ASSUME NEW q \in Runs, WorkerStep(q) PROVE CleanResult(r)' /\ link'[r].target = link[r].target
  BY <1>2, <1>5 DEF SameResult, CleanResult
<1> QED  BY <1>3, <1>4, <1>5 DEF SNext, ServiceStep, RunnerStep, OutsideStep

\* Without an alarm the runner goes on only with a result that is no failure.
LEMMA CollectQuiet ==
  ASSUME SInv, Collect
  PROVE  /\ rn'.run = rn.run /\ rn'.pc \in {"verify", "endKilled"} /\ UNCHANGED <<w, link>>
         /\ rn'.pc = "endKilled" => alerts'[rn.run] # {}
         /\ rn'.pc = "verify" /\ alerts'[rn.run] = {} => CleanResult(rn.run)
<1>0. /\ rn \in RunnerState /\ alerts \in [Runs -> SUBSET Alerts] /\ rn.run \in Runs
      /\ w \in [Runs -> WorkerState] /\ UNCHANGED <<w, link>>
  BY RunOfTick DEF SInv, IInv, TypeOK, ServiceTypeOK, Collect, RunnerAt, workerVars
<1>1. CASE Raise({"QBWorkerTimeout"}) /\ RunnerGoto("endKilled")
  BY <1>0, <1>1, RaiseType DEF RunnerGoto, RunnerState, Alerts
<1>2. CASE /\ ~rn.killed /\ RunnerGoto("verify")
           /\ Raise(IF RunOutcome \in FailedOutcomes THEN {"failed"} ELSE {})
  <2>1. rn'.pc = "verify" /\ rn'.run = rn.run
    BY <1>0, <1>2 DEF RunnerGoto, RunnerState
  <2>2. CASE RunOutcome \in FailedOutcomes
    <3>1. Raise({"failed"})
      BY <1>2, <2>2
    <3> QED  BY <1>0, <2>1, <3>1, RaiseType DEF Alerts
  <2>3. CASE RunOutcome \notin FailedOutcomes
    <3>1. "result" \in w[rn.run].pipe
      BY <1>2, <2>3 DEF RunOutcome, FailedOutcomes
    <3>2. w[rn.run].outcome \in Outcomes \ FailedOutcomes
      BY <1>0, <2>3, <3>1 DEF RunOutcome, WorkerState
    <3> QED  BY <1>0, <2>1, <3>1, <3>2 DEF CleanResult, Clean, Outcomes, FailedOutcomes
  <2> QED  BY <2>2, <2>3
<1> QED  BY <1>0, <1>1, <1>2 DEF Collect

LEMMA QuietTickStep == ASSUME SInv, QuietTick, SNext PROVE QuietTick'
<1>0. rn \in RunnerState /\ alerts \in [Runs -> SUBSET Alerts]
  BY DEF SInv, ServiceTypeOK
<1>1. CASE Collect
  BY <1>1, CollectQuiet DEF QuietTick, CleanResult
<1>2. CASE EndKilled
  BY <1>0, <1>2 DEF EndKilled, RunnerAt, RunnerGoto, RunnerState, QuietTick
<1>3. CASE (OutsideStep \/ TimePasses \/ SvcStop) /\ rn.pc \in {"verify", "endKilled"}
  <2>1. UNCHANGED alerts /\ rn'.pc = rn.pc /\ rn'.run = rn.run /\ rn.run \in Runs
    BY <1>0, <1>3, RunOfTick DEF OutsideStep, serviceVars, TimePasses, HardDue, GraceDue, CloseDue,
       SvcStop, RunnerState
  <2>2. CleanResult(rn.run) => "result" \in w'[rn.run].pipe /\ w'[rn.run].outcome \in Clean
    BY <2>1, ResultStays DEF CleanResult
  <2> QED  BY <2>1, <2>2 DEF QuietTick, CleanResult
<1>4. CASE (OutsideStep \/ TimePasses \/ SvcStop) /\ rn.pc \notin {"verify", "endKilled"}
  <2>1. rn'.pc = rn.pc
    BY <1>0, <1>4 DEF OutsideStep, serviceVars, TimePasses, HardDue, GraceDue, CloseDue, SvcStop,
       RunnerState
  <2> QED  BY <1>4, <2>1 DEF QuietTick
<1>5. CASE \/ TickStart \/ LoopExit \/ PostStart \/ SpawnWorker \/ WaitWorker \/ PassOnStop
           \/ CheckDeadlines \/ KillWait \/ VerifyExited \/ VerifyFailed \/ Crash \/ StartService
  <2>1. rn'.pc \notin {"verify", "endKilled"}
    BY <1>0, <1>5, AsleepType DEF TickStart, LoopExit, PostStart, SpawnWorker, WaitWorker,
       PassOnStop, CheckDeadlines, KillWait, VerifyExited, VerifyFailed, Finish, Crash,
       StartService, RunnerAt, RunnerGoto, RunnerState
  <2> QED  BY <2>1 DEF QuietTick
<1> QED  BY <1>1, <1>2, <1>3, <1>4, <1>5 DEF SNext, ServiceStep, RunnerStep

\* No alarm is withdrawn, and a run is ended only after it has been verified.
LEMMA EndedStep ==
  ASSUME SInv, SNext, NEW r \in Runs, alerts'[r] = {}
  PROVE  /\ alerts[r] = {}
         /\ r \in ended' => r \in ended \/ (rn.run = r /\ VerifyExited)
<1>0. alerts \in [Runs -> SUBSET Alerts]
  BY DEF SInv, ServiceTypeOK
<1>1. CASE Collect
  <2>1. rn.run \in Runs
    BY <1>1, RunOfTick DEF Collect, RunnerAt
  <2>2. alerts[r] \subseteq alerts'[r]
    BY <1>0, <1>1, <2>1, RaiseType DEF Collect, Alerts
  <2> QED  BY <1>1, <2>2 DEF Collect
<1>2. CASE VerifyFailed
  <2>1. rn.run \in Runs
    BY <1>2, RunOfTick DEF VerifyFailed, RunnerAt
  <2>2. alerts[r] \subseteq alerts'[r] /\ rn.run # r
    BY <1>0, <1>2, <2>1, RaiseType DEF VerifyFailed, Alerts
  <2> QED  BY <1>2, <2>2 DEF VerifyFailed, Finish
<1>3. CASE VerifyExited
  BY <1>3 DEF VerifyExited, Finish
<1>4. CASE UNCHANGED <<alerts, ended>>
  BY <1>4
<1> QED
  BY <1>1, <1>2, <1>3, <1>4 DEF SNext, ServiceStep, RunnerStep, OutsideStep, serviceVars, TickStart,
     LoopExit, PostStart, SpawnWorker, WaitWorker, PassOnStop, CheckDeadlines, KillWait, EndKilled,
     TimePasses, HardDue, GraceDue, CloseDue, SvcStop, Crash, StartService

\* The runner waited for the process the result's worker had reported.
LEMMA VerifiedIsGone ==
  ASSUME SInv, AllOwn, ~ForeignDespiteOwn, VerifyExited, CleanResult(rn.run)
  PROVE  link[rn.run].target \notin own
<1>1. rn.run \in Runs
  BY RunOfTick DEF VerifyExited, RunnerAt
<1>2. w[rn.run].ident # NoProc /\ "qb_process" \in w[rn.run].pipe
  BY <1>1, Knows DEF OwnInv, Identified, Reported, CleanResult
<1>3. w[rn.run].ident \notin own
  BY <1>2 DEF VerifyExited
<1> QED  BY <1>1, <1>2, <1>3, Knows DEF OwnInv, Identified

LEMMA QuietEndedStep ==
  ASSUME SInv, OwnRuns, QuietTick, QuietEnded, SNext PROVE QuietEnded'
<1>0. ended' \subseteq Runs
  <2>1. ServiceTypeOK' /\ IInv'
    BY ServiceTypeStep, StepIsWorkerStep, NextIInv DEF SInv
  <2> QED  BY <2>1 DEF ServiceTypeOK, IInv, TypeOK
<1>1. SUFFICES ASSUME NEW r \in ended', alerts'[r] = {}
               PROVE  /\ CleanResult(r)'
                      /\ ~ForeignDespiteOwn /\ crashes' = 0 => link'[r].target \notin own'
  BY DEF QuietEnded
<1>2. r \in Runs /\ alerts[r] = {} /\ (r \in ended \/ (rn.run = r /\ VerifyExited))
  BY <1>0, <1>1, EndedStep
<1>3. CleanResult(r)
  BY <1>2 DEF QuietEnded, QuietTick, VerifyExited, RunnerAt
<1>4. CleanResult(r)' /\ link'[r].target = link[r].target
  BY <1>2, <1>3, ResultStays
<1>5. ASSUME ~ForeignDespiteOwn, crashes' = 0 PROVE link'[r].target \notin own'
  <2>1. crashes = 0
    BY <1>5, NoCrashYet
  <2>2. link[r].target \notin own
    BY <1>2, <1>3, <1>5, <2>1, VerifiedIsGone DEF QuietEnded, OwnRuns
  <2>3. link[r].target \in spawned \cup {Foreign, NoProc} /\ own' \subseteq Procs
    <3>1. IInv'
      BY StepIsWorkerStep, NextIInv DEF SInv
    <3> QED  BY <1>2, <1>5, <2>1, <3>1, Knows DEF OwnRuns, OwnInv, IInv, TypeOK
  <2> QED  BY <1>4, <2>2, <2>3, OwnStep, ConstantsAssumption
<1> QED  BY <1>4, <1>5

-----------------------------------------------------------------------------

LEMMA InitQInv == SInit => QInv /\ AllOwn
<1>1. SUFFICES ASSUME SInit PROVE QInv /\ AllOwn
  OBVIOUS
<1>2. AllOwn
  <2>1. "error" \notin Clean
    BY DEF Clean, LimitOutcomes
  <2> QED  BY <1>1, <2>1 DEF SInit, WInit, NewWorker, AllOwn, OwnInv, Listed, Explained, Identified,
              Reported, Identifying, Opening, Relaying
<1>3. ResultEndsSession /\ QuietTick /\ QuietEnded
  BY <1>1, AsleepType DEF SInit, WInit, NewWorker, ResultEndsSession, QuietTick, QuietEnded
<1> QED  BY <1>1, <1>2, <1>3, InitSInv DEF QInv, OwnRuns

LEMMA NextQInv == ASSUME QInv, [SNext]_vars PROVE QInv'
<1>1. CASE UNCHANGED vars
  <2>1. OwnRuns' /\ ResultEndsSession' /\ QuietTick' /\ QuietEnded'
    BY <1>1 DEF QInv, vars, workerVars, serviceVars, OwnRuns, AllOwn, ResultEndsSession, QuietTick,
       QuietEnded, CleanResult
  <2> QED  BY <2>1, NextSInv DEF QInv
<1>2. CASE SNext
  BY <1>2, NextSInv, OwnRunsStep, ResultEndsStep, QuietTickStep, QuietEndedStep DEF QInv
<1> QED  BY <1>1, <1>2

LEMMA QuietInvariant == SSpec => []QInv
BY InitQInv, NextQInv, PTL DEF SSpec

\* In a life without a crash, and with an SDK that prefers ours, a request runs
\* only in a QuickBooks of the service's own.
THEOREM ServiceOnlyOwnQuickBooks ==
  ASSUME ~ForeignDespiteOwn PROVE SSpec => [](crashes = 0 => OnlyOwnQuickBooks)
<1>1. QInv => (crashes = 0 => OnlyOwnQuickBooks)
  BY DEF QInv, OwnRuns, AllOwn, OwnInv, OnlyOwnQuickBooks
<1> QED  BY <1>1, QuietInvariant, PTL

\* ... and the process the runner waits for is the one that was driven.
THEOREM ServiceIdentifiedIsTarget ==
  ASSUME ~ForeignDespiteOwn PROVE SSpec => [](crashes = 0 => IdentifiedIsTarget)
<1>1. QInv => (crashes = 0 => IdentifiedIsTarget)
  BY ConstantsAssumption DEF QInv, OwnRuns, AllOwn, OwnInv, Identified, IdentifiedIsTarget
<1> QED  BY <1>1, QuietInvariant, PTL

\* A crash alone does no harm: with any number of workers left behind, both hold
\* for as long as none of them begins its session between the listings of another.
LEMMA UndisturbedAllOwn ==
  ASSUME ~ForeignDespiteOwn PROVE SSpec /\ []Undisturbed => []AllOwn
<1>1. SInit => AllOwn
  BY InitQInv
<1>2. SInv /\ AllOwn /\ Undisturbed /\ [SNext]_vars => AllOwn'
  <2>1. CASE UNCHANGED vars
    BY <2>1 DEF vars, workerVars, AllOwn
  <2> QED  BY <2>1, AllOwnStep
<1> QED  BY <1>1, <1>2, ServiceInvariant, PTL DEF SSpec

THEOREM UndisturbedOnlyOwnQuickBooks ==
  ASSUME ~ForeignDespiteOwn
  PROVE  SSpec /\ []Undisturbed => [](OnlyOwnQuickBooks /\ IdentifiedIsTarget)
<1>1. AllOwn => OnlyOwnQuickBooks /\ IdentifiedIsTarget
  BY ConstantsAssumption
  DEF AllOwn, OwnInv, Identified, OnlyOwnQuickBooks, IdentifiedIsTarget
<1> QED  BY <1>1, UndisturbedAllOwn, PTL

\* A run nobody was alarmed about left nothing behind.
THEOREM ServiceQuietRunIsClean == SSpec => []QuietRunIsClean
<1>1. ASSUME QInv, NEW r \in ended, alerts[r] = {}
      PROVE  /\ link[r].com = "none"
             /\ w[r].outcome \in LimitOutcomes \cup {"done", "superseded"}
             /\ current = r => sess[r].endFailed
             /\ ~ForeignDespiteOwn /\ crashes = 0 => link[r].target \notin own
  <2>1. r \in Runs
    BY <1>1 DEF QInv, SInv, ServiceTypeOK, IInv, TypeOK
  <2>2. CleanResult(r) /\ (~ForeignDespiteOwn /\ crashes = 0 => link[r].target \notin own)
    BY <1>1 DEF QInv, QuietEnded
  <2> QED  BY <1>1, <2>1, <2>2 DEF QInv, SInv, ResultMeansOver, Over, ResultEndsSession, CleanResult,
              Clean
<1>2. QInv => QuietRunIsClean
  BY <1>1 DEF QuietRunIsClean
<1> QED  BY <1>2, QuietInvariant, PTL

=============================================================================
