------------------------- MODULE QBWorkerRefinement -------------------------
(***************************************************************************)
(* QBWorker implements RelaySession, for any number of runs: every step    *)
(* moves one run as RelaySession allows, or none.                          *)
(***************************************************************************)
EXTENDS QBWorkerProofs

\* What RelaySession sees of run r.
Seen(r) == <<Phase(r), link[r].executed, sess[r].accepted>>

Moved(r) ==
  \/ Phase(r) = "waiting" /\ Seen(r)' = <<"connected", Seen(r)[2], Seen(r)[3]>>
  \/ /\ Phase(r) = "connected"
     /\ link[r].executed = sess[r].accepted /\ link[r].executed < MaxRequests
     /\ Seen(r)' = <<"connected", Seen(r)[2] + 1, Seen(r)[3]>>
  \/ /\ Phase(r) = "connected" /\ link[r].executed = sess[r].accepted + 1
     /\ Seen(r)' = <<"connected", Seen(r)[2], Seen(r)[3] + 1>>
  \/ Phase(r) # "over" /\ Seen(r)' = <<"over", Seen(r)[2], Seen(r)[3]>>

\* If a step moves run q at most, and as it may, RelaySession allows the step.
LEMMA MovesRefine ==
  ASSUME NEW q \in Runs, \A r \in Runs \ {q} : Seen(r)' = Seen(r),
         Seen(q)' = Seen(q) \/ Moved(q)
  PROVE  [Relay!Next]_(Relay!sessionVars)
<1>1. CASE Seen(q)' = Seen(q)
  <2>1. \A r \in Runs : Seen(r)' = Seen(r)
    BY <1>1
  <2>2. QED
    BY <2>1 DEF Seen, Relay!sessionVars
<1>2. CASE Phase(q) = "waiting" /\ Seen(q)' = <<"connected", Seen(q)[2], Seen(q)[3]>>
  <2>1. Relay!Connect(q)
    BY <1>2 DEF Seen, Relay!Connect
  <2>2. QED
    BY <2>1 DEF Relay!Next
<1>3. CASE /\ Phase(q) = "connected"
           /\ link[q].executed = sess[q].accepted /\ link[q].executed < MaxRequests
           /\ Seen(q)' = <<"connected", Seen(q)[2] + 1, Seen(q)[3]>>
  <2>1. Relay!Execute(q)
    BY <1>3 DEF Seen, Relay!Execute
  <2>2. QED
    BY <2>1 DEF Relay!Next
<1>4. CASE /\ Phase(q) = "connected" /\ link[q].executed = sess[q].accepted + 1
           /\ Seen(q)' = <<"connected", Seen(q)[2], Seen(q)[3] + 1>>
  <2>1. Relay!Accept(q)
    BY <1>4 DEF Seen, Relay!Accept
  <2>2. QED
    BY <2>1 DEF Relay!Next
<1>5. CASE Phase(q) # "over" /\ Seen(q)' = <<"over", Seen(q)[2], Seen(q)[3]>>
  <2>1. Phase(q) \in {"waiting", "connected"}
    BY <1>5 DEF Phase
  <2>2. Relay!Disconnect(q)
    BY <1>5, <2>1 DEF Seen, Relay!Disconnect
  <2>3. QED
    BY <2>2 DEF Relay!Next
<1>6. QED
  BY <1>1, <1>2, <1>3, <1>4, <1>5 DEF Moved

-----------------------------------------------------------------------------
(* A step of one run leaves the others alone                               *)

Alone(q) ==
  \A r \in Runs \ {q} : w'[r] = w[r] /\ link'[r] = link[r] /\ sess'[r] = sess[r]

\* The shapes of a step.
LEMMA LeaveAlone ==
  ASSUME TypeOK, NEW q \in Runs, NEW out, Leave(q, out) PROVE \A r \in Runs \ {q} : w'[r] = w[r]
BY DEF TypeOK, Leave, Become

LEMMA EndOnMyFuelAlone ==
  ASSUME TypeOK, NEW q \in Runs, EndOnMyFuel(q)
  PROVE  /\ \A r \in Runs \ {q} : sess'[r] = sess[r] /\ (current = r => current' = r)
BY DEF TypeOK, EndOnMyFuel

LEMMA ComStepAlone ==
  ASSUME TypeOK, NEW q \in Runs, ComStep(q) PROVE Alone(q)
<1>0. w \in [Runs -> WorkerState] /\ link \in [Runs -> LinkState] /\ sess \in [Runs -> SessionState]
  BY DEF TypeOK
<1> USE <1>0 DEF Alone, Become, Goto, SetCom, Leave, ComRaises
<1>1. CASE CreateProcessor(q)
  BY <1>1 DEF CreateProcessor
<1>2. CASE OpenConnection(q)
  BY <1>2 DEF OpenConnection
<1>3. CASE BeginSession(q)
  BY <1>3 DEF BeginSession
<1>4. CASE BeginSessionReturns(q)
  BY <1>4 DEF BeginSessionReturns
<1>5. CASE ProcessRequest(q)
  BY <1>5 DEF ProcessRequest, Execute
<1>6. CASE EndSession(q)
  BY <1>6 DEF EndSession
<1>7. CASE CloseConnection(q)
  BY <1>7 DEF CloseConnection
<1>8. CASE Release(q)
  BY <1>8 DEF Release
<1>9. QED
  BY <1>1, <1>2, <1>3, <1>4, <1>5, <1>6, <1>7, <1>8 DEF ComStep

LEMMA LocalStepAlone ==
  ASSUME TypeOK, NEW q \in Runs, LocalStep(q) PROVE Alone(q)
<1>0. w \in [Runs -> WorkerState] /\ link \in [Runs -> LinkState] /\ sess \in [Runs -> SessionState]
  BY DEF TypeOK
<1> USE <1>0 DEF Alone, Become, Goto, SetCom, Leave
<1>1. CASE FindBefore(q)
  BY <1>1 DEF FindBefore
<1>2. CASE IdentifyOwn(q)
  BY <1>2 DEF IdentifyOwn
<1>3. CASE LoopTop(q)
  BY <1>3 DEF LoopTop
<1>4. CASE PostNext(q)
  BY <1>4 DEF PostNext
<1>5. CASE PostResponse(q)
  BY <1>5 DEF PostResponse
<1>6. CASE ReportError(q)
  BY <1>6, EndOnMyFuelAlone DEF ReportError
<1>7. CASE PostEnd(q)
  BY <1>7, EndOnMyFuelAlone DEF PostEnd
<1>8. CASE PutResult(q)
  BY <1>8 DEF PutResult
<1>9. CASE Flush(q) \/ Exit(q)
  BY <1>9 DEF Flush, Exit
<1>10. QED
  BY <1>1, <1>2, <1>3, <1>4, <1>5, <1>6, <1>7, <1>8, <1>9 DEF LocalStep

LEMMA StepAlone ==
  ASSUME TypeOK, NEW q \in Runs, WorkerStep(q) \/ ParentStep(q) PROVE Alone(q)
<1>0. w \in [Runs -> WorkerState] /\ link \in [Runs -> LinkState] /\ sess \in [Runs -> SessionState]
  BY DEF TypeOK
<1> USE <1>0 DEF Alone, Become, Goto, SetCom
<1>1. CASE Expire(q) \/ Die(q) \/ WorkerCrash(q)
  BY <1>1 DEF Expire, Die, WorkerCrash
<1>2. CASE ParentStep(q)
  BY <1>2, EndOnMyFuelAlone DEF ParentStep, StartSession, Spawn, SetStop, Terminate, EndByParent
<1>3. QED
  BY <1>1, <1>2, ComStepAlone, LocalStepAlone DEF WorkerStep

-----------------------------------------------------------------------------
(* What a step does to its own run                                         *)

Waiting == {"idle", "before", "create"}

\* Nothing executed, nothing accepted.
Idle(q) ==
  link'[q].executed = link[q].executed /\ sess'[q].accepted = sess[q].accepted

\* A step that leaves the COM object as it is does not go back to waiting.
LEMMA SameObject ==
  ASSUME NEW q \in Runs, Idle(q), link'[q].com = link[q].com,
         w'[q].pc \in Waiting => w[q].pc \in Waiting
  PROVE  Seen(q)' = Seen(q) \/ Moved(q)
BY DEF Idle, Seen, Moved, Phase, Waiting

\* A step that has the object before and after it.
LEMMA ObjectKept ==
  ASSUME NEW q \in Runs, Idle(q), link[q].com # "none", link'[q].com # "none"
  PROVE  Seen(q)' = Seen(q)
BY DEF Idle, Seen, Phase

\* A step after which the object is gone.
LEMMA ObjectGone ==
  ASSUME NEW q \in Runs, Idle(q), link'[q].com = "none", w'[q].pc \notin Waiting
  PROVE  Seen(q)' = Seen(q) \/ Moved(q)
BY DEF Idle, Seen, Moved, Phase, Waiting

\* What the invariant adds to the types.
LEMMA Known ==
  ASSUME IInv, NEW q \in Runs
  PROVE  /\ w \in [Runs -> WorkerState] /\ link \in [Runs -> LinkState]
         /\ sess \in [Runs -> SessionState]
         /\ Connection(w[q], link[q]) /\ Counts(w[q], link[q], sess[q])
BY DEF IInv, TypeOK, RunInv

LEMMA LeaveMoves ==
  ASSUME IInv, NEW q \in Runs, NEW out, Leave(q, out), UNCHANGED link, Idle(q)
  PROVE  Seen(q)' = Seen(q) \/ Moved(q)
<1>1. w'[q].pc \in {"report", "endSession"}
  BY Known DEF Leave, Become, WorkerState
<1>2. QED
  BY <1>1, SameObject DEF Waiting

LEMMA ComStepMoves ==
  ASSUME IInv, NEW q \in Runs, ComStep(q) PROVE Seen(q)' = Seen(q) \/ Moved(q)
<1>0. /\ w \in [Runs -> WorkerState] /\ link \in [Runs -> LinkState]
      /\ sess \in [Runs -> SessionState]
      /\ Connection(w[q], link[q]) /\ Counts(w[q], link[q], sess[q])
  BY Known
<1>1. CASE ComRaises(q) /\ UNCHANGED <<link, sess>>
  BY <1>1, LeaveMoves DEF ComRaises, Idle
<1>2. CASE CreateProcessor(q) /\ SetCom(q, "rp") /\ Become(q, [w[q] EXCEPT !.stage = "rp", !.pc = "open"])
  <2>1. link[q].com = "none" /\ link'[q].com = "rp" /\ Idle(q) /\ w[q].pc = "create"
    BY <1>0, <1>2 DEF CreateProcessor, At, SetCom, Idle, Connection, LinkState, Executing, Opening
  <2>2. QED
    BY <2>1 DEF Idle, Seen, Moved, Phase
<1>3. CASE OpenConnection(q) /\ SetCom(q, "connection")
  <2>1. link[q].com # "none" /\ link'[q].com = "connection" /\ Idle(q)
    BY <1>0, <1>3 DEF OpenConnection, At, SetCom, Idle, Connection, LinkState, Opening
  <2>2. QED
    BY <2>1, ObjectKept
<1>4. CASE BeginSession(q)
  <2>1. link'[q].com = link[q].com /\ Idle(q) /\ w'[q].pc = "beginning"
    BY <1>0, <1>4 DEF BeginSession, Goto, Become, Idle, LinkState, WorkerState
  <2>2. QED
    BY <2>1, SameObject DEF Waiting
<1>5. CASE BeginSessionReturns(q) /\ SetCom(q, "session")
  <2>1. link[q].com # "none" /\ link'[q].com = "session" /\ Idle(q)
    BY <1>0, <1>5 DEF BeginSessionReturns, At, SetCom, Idle, Connection, LinkState, Opening
  <2>2. QED
    BY <2>1, ObjectKept
<1>6. CASE ProcessRequest(q) /\ Execute(q)
  <2>1. /\ link[q].com # "none" /\ link'[q].com = link[q].com
        /\ link'[q].executed = link[q].executed + 1 /\ sess'[q].accepted = sess[q].accepted
        /\ link[q].executed = sess[q].accepted /\ link[q].executed < MaxRequests
    BY <1>0, <1>6 DEF ProcessRequest, Execute, At, Connection, Counts, LinkState, Relaying
  <2>2. QED
    BY <2>1 DEF Seen, Moved, Phase
<1>7. CASE EndSession(q)
  <2>1. Idle(q) /\ w'[q].pc = "closeConnection"
    BY <1>0, <1>7 DEF EndSession, Goto, Become, SetCom, Idle, LinkState, WorkerState
  <2>2. \/ link'[q].com = link[q].com
        \/ link[q].com # "none" /\ link'[q].com = "connection"
    BY <1>0, <1>7 DEF EndSession, At, SetCom, Connection, LinkState, Closing
  <2>3. QED
    BY <2>1, <2>2, SameObject, ObjectKept DEF Waiting
<1>8. CASE CloseConnection(q)
  <2>1. Idle(q) /\ w'[q].pc = "release"
    BY <1>0, <1>8 DEF CloseConnection, Goto, Become, SetCom, Idle, LinkState, WorkerState
  <2>2. \/ link'[q].com = link[q].com
        \/ link[q].com # "none" /\ link'[q].com = "rp"
    BY <1>0, <1>8 DEF CloseConnection, At, SetCom, Connection, LinkState, Closing
  <2>3. QED
    BY <2>1, <2>2, SameObject, ObjectKept DEF Waiting
<1>9. CASE Release(q)
  <2>1. Idle(q) /\ w'[q].pc = "endPost" /\ link'[q].com = "none"
    BY <1>0, <1>9 DEF Release, At, Goto, Become, SetCom, Idle, LinkState, WorkerState,
       Connection, Executing, Closing
  <2>2. QED
    BY <2>1, ObjectGone DEF Waiting
<1>10. QED
  BY <1>1, <1>2, <1>3, <1>4, <1>5, <1>6, <1>7, <1>8, <1>9
  DEF ComStep, CreateProcessor, OpenConnection, BeginSessionReturns, ProcessRequest, ComRaises

LEMMA LocalStepMoves ==
  ASSUME IInv, NEW q \in Runs, LocalStep(q) PROVE Seen(q)' = Seen(q) \/ Moved(q)
<1>0. /\ w \in [Runs -> WorkerState] /\ link \in [Runs -> LinkState]
      /\ sess \in [Runs -> SessionState]
      /\ Connection(w[q], link[q]) /\ Counts(w[q], link[q], sess[q])
  BY Known
<1>1. ASSUME NEW out, Leave(q, out), UNCHANGED link, Idle(q)
      PROVE  Seen(q)' = Seen(q) \/ Moved(q)
  BY <1>1, LeaveMoves
<1>2. CASE FindBefore(q)
  <2>1. Idle(q) /\ UNCHANGED link
    BY <1>2 DEF FindBefore, Idle
  <2>2. CASE Become(q, [w[q] EXCEPT !.before = own, !.pc = "create"])
    <3>1. w[q].pc = "before"
      BY <1>2 DEF FindBefore, At
    <3>2. QED
      BY <2>1, <3>1, SameObject DEF Waiting
  <2>3. QED
    BY <1>1, <1>2, <2>1, <2>2 DEF FindBefore
<1>3. CASE IdentifyOwn(q) \/ LoopTop(q)
  <2>1. Idle(q) /\ UNCHANGED link
    BY <1>3 DEF IdentifyOwn, LoopTop, Idle
  <2>2. w'[q].pc \in {"loop", "next", "report", "endSession"}
    BY <1>0, <1>3 DEF IdentifyOwn, LoopTop, Leave, Goto, Become, WorkerState
  <2>3. QED
    BY <2>1, <2>2, SameObject DEF Waiting
<1>4. CASE PostNext(q)
  <2>1. Idle(q) /\ UNCHANGED link
    BY <1>0, <1>4 DEF PostNext, Idle, SessionState
  <2>2. w'[q].pc \in {"request", "report", "endSession"}
    BY <1>0, <1>4 DEF PostNext, Leave, Goto, Become, WorkerState
  <2>3. QED
    BY <2>1, <2>2, SameObject DEF Waiting
<1>5. CASE PostResponse(q)
  <2>1. /\ link' = link /\ w[q].pc = "response" /\ link[q].com # "none"
        /\ link[q].executed = sess[q].accepted + 1
    BY <1>0, <1>5 DEF PostResponse, At, Connection, Counts, Relaying
  <2>2. sess'[q].accepted \in {sess[q].accepted, sess[q].accepted + 1}
    BY <1>0, <1>5 DEF PostResponse, SessionState
  <2>3. QED
    BY <2>1, <2>2 DEF Seen, Moved, Phase
<1>6. CASE ReportError(q) \/ PostEnd(q)
  <2>1. Idle(q) /\ UNCHANGED link
    BY <1>0, <1>6 DEF ReportError, PostEnd, EndOnMyFuel, Idle, SessionState
  <2>2. w'[q].pc \in {"endSession", "putResult"}
    BY <1>0, <1>6 DEF ReportError, PostEnd, Goto, Become, WorkerState
  <2>3. QED
    BY <2>1, <2>2, SameObject DEF Waiting
<1>7. CASE PutResult(q) \/ Exit(q)
  <2>1. Idle(q) /\ UNCHANGED link
    BY <1>7 DEF PutResult, Exit, Idle
  <2>2. w'[q].pc \in {"exiting", "exited"}
    BY <1>0, <1>7 DEF PutResult, Exit, Goto, Become, WorkerState
  <2>3. QED
    BY <2>1, <2>2, SameObject DEF Waiting
<1>8. CASE Flush(q)
  <2> DEFINE a == w[q].pipe \cup w[q].outbox
             x == [w[q] EXCEPT !.pipe = a, !.outbox = {}]
  <2>1. Idle(q) /\ UNCHANGED link /\ w' = [w EXCEPT ![q] = x]
    BY <1>8 DEF Flush, Become, Idle
  <2> HIDE DEF a
  <2>2. x.pc = w[q].pc
    BY <1>0 DEF WorkerState
  <2> HIDE DEF x
  <2>3. w'[q].pc = w[q].pc
    BY <1>0, <2>1, <2>2
  <2>4. QED
    BY <2>1, <2>3, SameObject
<1>9. QED
  BY <1>2, <1>3, <1>4, <1>5, <1>6, <1>7, <1>8 DEF LocalStep

LEMMA StepMoves ==
  ASSUME IInv, NEW q \in Runs, WorkerStep(q) \/ ParentStep(q)
  PROVE  Seen(q)' = Seen(q) \/ Moved(q)
<1>0. /\ w \in [Runs -> WorkerState] /\ link \in [Runs -> LinkState]
      /\ Connection(w[q], link[q])
  BY Known
<1>1. CASE Expire(q) \/ SetStop(q) \/ StartSession(q)
  <2>1. Idle(q) /\ UNCHANGED link /\ w'[q].pc = w[q].pc
    BY <1>0, <1>1 DEF Expire, SetStop, StartSession, Become, Idle, WorkerState
  <2>2. QED
    BY <2>1, SameObject
<1>2. CASE Die(q) \/ WorkerCrash(q)
  <2>1. Idle(q) /\ link'[q].com = "none" /\ w'[q].pc = "dead"
    BY <1>0, <1>2 DEF Die, WorkerCrash, SetCom, Goto, Become, Idle, LinkState, WorkerState
  <2>2. QED
    BY <2>1, ObjectGone DEF Waiting
<1>3. CASE Spawn(q)
  BY <1>3, SameObject DEF Spawn, At, Idle, Waiting
<1>4. CASE Terminate(q)
  <2>1. Idle(q) /\ UNCHANGED link /\ w'[q].pc = "dying"
    BY <1>0, <1>4 DEF Terminate, Become, Idle, WorkerState
  <2>2. QED
    BY <2>1, SameObject DEF Waiting
<1>5. CASE EndByParent(q)
  <2>1. Idle(q) /\ UNCHANGED <<w, link>>
    BY <1>5, Known DEF EndByParent, EndOnMyFuel, Idle, SessionState
  <2>2. QED
    BY <2>1, SameObject
<1>6. QED
  BY <1>1, <1>2, <1>3, <1>4, <1>5, ComStepMoves, LocalStepMoves DEF WorkerStep, ParentStep

-----------------------------------------------------------------------------

LEMMA InitRefines == WInit => Relay!Init
BY DEF WInit, NewWorker, Relay!Init, Phase

LEMMA NextRefines ==
  ASSUME IInv, [WNext]_workerVars PROVE [Relay!Next]_(Relay!sessionVars)
<1>1. CASE UNCHANGED <<w, link, sess>>
  BY <1>1 DEF Relay!sessionVars, Phase
<1>2. ASSUME NEW q \in Runs, WorkerStep(q) \/ ParentStep(q)
      PROVE  [Relay!Next]_(Relay!sessionVars)
  <2>1. \A r \in Runs \ {q} : Seen(r)' = Seen(r)
    BY <1>2, StepAlone DEF IInv, Alone, Seen, Phase
  <2>2. QED
    BY <1>2, <2>1, StepMoves, MovesRefine
<1>3. CASE Surroundings \/ UNCHANGED workerVars
  BY <1>1, <1>3 DEF Surroundings, EndedElsewhere, QBExit, workerVars
<1>4. QED
  BY <1>2, <1>3 DEF WNext

\* Every run, as QuickBooks and MyFuel see it, is a run of RelaySession.
THEOREM WorkerRelaysOneSession == WSpec => RelaysOneSession
BY InitRefines, NextRefines, WorkerInvariant, PTL DEF WSpec, RelaysOneSession, Relay!Spec

\* No step of one worker ends the session of another.
THEOREM WorkerEndsNoOtherSession == WSpec => EndsNoOtherSession
<1>1. ASSUME IInv, [WNext]_workerVars, NEW r \in Runs, NEW s \in Runs,
             r # s, current = r, w'[s] # w[s]
      PROVE  current' = r
  <2>1. PICK q \in Runs : WorkerStep(q) \/ ParentStep(q)
    BY <1>1 DEF WNext, workerVars, Surroundings, EndedElsewhere, QBExit
  <2>2. q = s
    BY <1>1, <2>1, StepAlone DEF IInv, Alone
  <2>3. CASE ReportError(s) \/ PostEnd(s)
    BY <1>1, <2>3, EndOnMyFuelAlone DEF IInv, ReportError, PostEnd
  <2>4. CASE StartSession(s)
    BY <1>1, <2>4 DEF StartSession
  <2>5. QED
    BY <1>1, <2>1, <2>2, <2>3, <2>4
    DEF WorkerStep, ParentStep, ComStep, LocalStep, CreateProcessor, OpenConnection, BeginSession,
        BeginSessionReturns, ProcessRequest, EndSession, CloseConnection, Release, FindBefore,
        IdentifyOwn, LoopTop, PostNext, PostResponse, PutResult, Flush, Exit, Expire, Die,
        WorkerCrash, Spawn, SetStop, Terminate, EndByParent
<1>2. IInv /\ [WNext]_workerVars
        => [\A r, s \in Runs : r # s /\ current = r /\ w'[s] # w[s] => current' = r]_workerVars
  BY <1>1
<1>3. QED
  BY <1>2, WorkerInvariant, PTL DEF WSpec, EndsNoOtherSession

=============================================================================
