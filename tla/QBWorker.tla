------------------------------ MODULE QBWorker ------------------------------
(***************************************************************************)
(* One QuickBooks sync run in its own child process                        *)
(* (relay/integrations/quickbooks/worker.py, run_worker), with the three   *)
(* things it talks to: the QuickBooks SDK over COM, the MyFuel session API *)
(* over HTTP, and the parent over a multiprocessing queue and event.       *)
(*                                                                         *)
(* Several runs may be alive at once: nothing in this module keeps them    *)
(* apart.  Whether the service does is the subject of QBService.           *)
(*                                                                         *)
(* Every COM call may succeed, raise QBComError, raise something else, or  *)
(* never return (the step is simply never taken).  Every POST may be       *)
(* answered, be answered 409, or fail with or without having been applied. *)
(* The process may be terminated, or die of a native crash, between any    *)
(* two steps.                                                              *)
(***************************************************************************)
EXTENDS Naturals, Processes

CONSTANTS
  Runs,              \* the tickets MyFuel may hand out, one sync run each
  NoRun,             \* MyFuel has no current QB service session
  Procs,             \* QuickBooks processes of the service's account and session
  Foreign,           \* a QuickBooks process of another Windows user
  MaxRequests,       \* SYNC_QB_MaxSessionRequests
  ForeignDespiteOwn  \* may the SDK attach to another user's QuickBooks even
                     \* while one of ours is running?

ASSUME ConstantsAssumption ==
  /\ NoRun \notin Runs
  /\ Foreign \notin Procs
  /\ NoProc \notin Procs \cup {Foreign}
  /\ MaxRequests \in Nat
  /\ ForeignDespiteOwn \in BOOLEAN

VARIABLES
  w,        \* per run: the worker process's own memory, its stop event, its queue
  link,     \* per run: what the QuickBooks SDK really holds for that process
  sess,     \* per run: what MyFuel has been told by that run
  own,      \* QuickBooks processes of ours that are running now
  spawned,  \* QuickBooks processes of ours that have ever run
  current,  \* the ticket of MyFuel's current session
  issued    \* the tickets MyFuel has handed out

workerVars == <<w, link, sess, own, spawned, current, issued>>

(***************************************************************************)
(* Program points of run_worker.  "beginning" is inside BeginSession;      *)
(* "report" is _report_error; from "endSession" on it is the `finally`.    *)
(***************************************************************************)
Opening  == {"before", "create", "open", "begin", "beginning"}
Relaying == {"identify", "loop", "next", "request", "response"}
Closing  == {"report", "endSession", "closeConnection", "release"}
Finishing == {"endPost", "putResult", "exiting"}
Executing == Opening \cup Relaying \cup Closing \cup Finishing
PCs == Executing \cup {"idle", "exited", "dying", "dead"}

\* How far the connection to QuickBooks got: nothing, the COM object, the open
\* connection, the begun session.
Stages == {"none", "rp", "connection", "session"}

LimitOutcomes == {"stopped", "max_session_mins", "max_session_requests"}
Outcomes == LimitOutcomes \cup
            {"done", "superseded", "com_error", "attach_refused", "error"}

Messages == {"qb_process", "result"}

WorkerState ==
  [pc : PCs, stage : Stages, before : SUBSET Procs, ident : Procs \cup {NoProc},
   requests : Nat, outcome : Outcomes, reported : BOOLEAN,
   stop : BOOLEAN, expired : BOOLEAN,
   outbox : SUBSET Messages, pipe : SUBSET Messages]

LinkState ==
  [com : Stages, target : Procs \cup {Foreign, NoProc}, executed : Nat, overrun : Nat]

SessionState == [accepted : Nat, saidDone : BOOLEAN, endFailed : BOOLEAN]

TypeOK ==
  /\ w \in [Runs -> WorkerState]
  /\ link \in [Runs -> LinkState]
  /\ sess \in [Runs -> SessionState]
  /\ own \subseteq spawned
  /\ spawned \subseteq Procs
  /\ current \in Runs \cup {NoRun}
  /\ issued \subseteq Runs

NewWorker ==
  [pc |-> "idle", stage |-> "none", before |-> {}, ident |-> NoProc,
   requests |-> 0, outcome |-> "error", reported |-> FALSE,
   stop |-> FALSE, expired |-> FALSE, outbox |-> {}, pipe |-> {}]

\* Leftovers of an earlier life of the service may be running.
WInit ==
  /\ w = [r \in Runs |-> NewWorker]
  /\ link = [r \in Runs |-> [com |-> "none", target |-> NoProc,
                             executed |-> 0, overrun |-> 0]]
  /\ sess = [r \in Runs |-> [accepted |-> 0, saidDone |-> FALSE, endFailed |-> FALSE]]
  /\ own \in SUBSET Procs
  /\ spawned = own
  /\ current = NoRun
  /\ issued = {}

-----------------------------------------------------------------------------
(* Control flow                                                            *)

At(r, p) == w[r].pc = p

Become(r, s) == w' = [w EXCEPT ![r] = s]

Goto(r, p) == Become(r, [w[r] EXCEPT !.pc = p])

\* Mutation of Leave: a refused attach returns before the `finally`.
Leave_RefusalSkipsClose(r, out) ==
  Become(r, [w[r] EXCEPT !.outcome = out,
                         !.pc = CASE out = "com_error"      -> "report"
                                  [] out = "attach_refused" -> "endPost"
                                  [] OTHER                  -> "endSession"])

\* Leave the try block with an outcome: a QBComError is first reported to
\* MyFuel, everything else goes straight to the `finally`.
Leave(r, out) ==
  Become(r, [w[r] EXCEPT !.outcome = out,
                         !.pc = IF out = "com_error" THEN "report" ELSE "endSession"])

ComRaises(r) == \E out \in {"com_error", "error"} : Leave(r, out)

SetCom(r, c) == link' = [link EXCEPT ![r].com = c]

-----------------------------------------------------------------------------
(* Opening QuickBooks                                                      *)

\* before = process_finder()
FindBefore(r) ==
  /\ At(r, "before")
  /\ \/ Become(r, [w[r] EXCEPT !.before = own, !.pc = "create"])
     \/ Leave(r, "error")
  /\ UNCHANGED <<link, sess, own, spawned, current, issued>>

\* rp = rp_factory(): a failed Dispatch leaves nothing behind
CreateProcessor(r) ==
  /\ At(r, "create")
  /\ \/ Become(r, [w[r] EXCEPT !.stage = "rp", !.pc = "open"]) /\ SetCom(r, "rp")
     \/ ComRaises(r) /\ UNCHANGED link
  /\ UNCHANGED <<sess, own, spawned, current, issued>>

OpenConnection(r) ==
  /\ At(r, "open")
  /\ \/ /\ Become(r, [w[r] EXCEPT !.stage = "connection", !.pc = "begin"])
        /\ SetCom(r, "connection")
     \/ ComRaises(r) /\ UNCHANGED link
  /\ UNCHANGED <<sess, own, spawned, current, issued>>

\* BeginSession reaches a QuickBooks: it launches one of ours, attaches to one
\* of ours that is running, attaches to another user's, or finds none.
BeginSession(r) ==
  /\ At(r, "begin")
  /\ Goto(r, "beginning")
  /\ \/ \E p \in Procs \ spawned :
          /\ own' = own \cup {p}
          /\ spawned' = spawned \cup {p}
          /\ link' = [link EXCEPT ![r].target = p]
     \/ /\ \E p \in own : link' = [link EXCEPT ![r].target = p]
        /\ UNCHANGED <<own, spawned>>
     \/ /\ own = {} \/ ForeignDespiteOwn
        /\ link' = [link EXCEPT ![r].target = Foreign]
        /\ UNCHANGED <<own, spawned>>
     \/ UNCHANGED <<link, own, spawned>>
  /\ UNCHANGED <<sess, current, issued>>

Reachable(r) == link[r].target \in own \cup {Foreign}

\* ... and returns, or raises; QuickBooks may hold a session even if it raises.
BeginSessionReturns(r) ==
  /\ At(r, "beginning")
  /\ \/ /\ Reachable(r)
        /\ Become(r, [w[r] EXCEPT !.stage = "session", !.pc = "identify"])
        /\ SetCom(r, "session")
     \/ ComRaises(r) /\ UNCHANGED link
     \/ ComRaises(r) /\ Reachable(r) /\ SetCom(r, "session")
  /\ UNCHANGED <<sess, own, spawned, current, issued>>

\* Mutation of IdentifyOwn: the None of a refused attach is not checked.
IdentifyOwn_NoneAccepted(r) ==
  /\ At(r, "identify")
  /\ Become(r, [w[r] EXCEPT !.ident = identify_own_instance(w[r].before, own), !.pc = "loop"])
  /\ UNCHANGED <<link, sess, own, spawned, current, issued>>

\* The own-instance check; only a process of ours is reported to the parent,
\* and only then is anything relayed.
IdentifyOwn(r) ==
  /\ At(r, "identify")
  /\ LET p == identify_own_instance(w[r].before, own)
     IN  \/ p = NoProc /\ Leave(r, "attach_refused")
         \/ /\ p # NoProc
            /\ Become(r, [w[r] EXCEPT !.ident = p, !.pc = "loop",
                                      !.outbox = w[r].outbox \cup {"qb_process"}])
         \/ Leave(r, "error")
  /\ UNCHANGED <<link, sess, own, spawned, current, issued>>

-----------------------------------------------------------------------------
(* The relay loop                                                          *)

\* Mutation of LoopCheck: an outcome the parent has no name for.
LoopCheck_UnknownOutcome(s) ==
  IF s.stop THEN "stopping"
  ELSE IF s.expired THEN "max_session_mins"
  ELSE IF s.requests >= MaxRequests THEN "max_session_requests" ELSE "relay"

\* Mutation of LoopCheck: off by one, > instead of >=.
LoopCheck_OffByOne(s) ==
  IF s.stop THEN "stopped"
  ELSE IF s.expired THEN "max_session_mins"
  ELSE IF s.requests > MaxRequests THEN "max_session_requests" ELSE "relay"

\* Mutation of LoopCheck: the stop event is not looked at.
LoopCheck_IgnoresStop(s) ==
  IF s.expired THEN "max_session_mins"
  ELSE IF s.requests >= MaxRequests THEN "max_session_requests" ELSE "relay"

\* The three checks at the top of _sync_loop, in their order.
LoopCheck(s) ==
  IF s.stop THEN "stopped"
  ELSE IF s.expired THEN "max_session_mins"
  ELSE IF s.requests >= MaxRequests THEN "max_session_requests" ELSE "relay"

LoopTop(r) ==
  /\ At(r, "loop")
  /\ IF LoopCheck(w[r]) = "relay" THEN Goto(r, "next") ELSE Leave(r, LoopCheck(w[r]))
  /\ UNCHANGED <<link, sess, own, spawned, current, issued>>

\* Mutation of PostNext: a failed POST is taken for "nothing more to do".
PostNext_FailureIsDone(r) ==
  /\ At(r, "next")
  /\ \/ current = r /\ Goto(r, "request") /\ UNCHANGED sess
     \/ /\ current = r
        /\ Leave(r, "done")
        /\ sess' = [sess EXCEPT ![r].saidDone = TRUE]
     \/ Leave(r, "done") /\ UNCHANGED sess
  /\ UNCHANGED <<link, own, spawned, current, issued>>

\* POST session/next: a request to relay, done, 409 for a ticket that is no
\* longer current, or a failure.
PostNext(r) ==
  /\ At(r, "next")
  /\ \/ current = r /\ Goto(r, "request") /\ UNCHANGED sess
     \/ /\ current = r
        /\ Leave(r, "done")
        /\ sess' = [sess EXCEPT ![r].saidDone = TRUE]
     \/ current # r /\ Leave(r, "superseded") /\ UNCHANGED sess
     \/ Leave(r, "error") /\ UNCHANGED sess
  /\ UNCHANGED <<link, own, spawned, current, issued>>

\* The run should already be over: it was asked to stop, its time is up, or
\* MyFuel has moved on to another session.
Overdue(r) == w[r].stop \/ w[r].expired \/ current # r

\* QuickBooks executes the request.
Execute(r) ==
  link' = [link EXCEPT ![r] =
             [@ EXCEPT !.executed = link[r].executed + 1,
                       !.overrun = link[r].overrun + (IF Overdue(r) THEN 1 ELSE 0)]]

ProcessRequest(r) ==
  /\ At(r, "request")
  /\ \/ /\ Reachable(r)
        /\ Execute(r)
        /\ Become(r, [w[r] EXCEPT !.requests = w[r].requests + 1, !.pc = "response"])
     \/ ComRaises(r) /\ UNCHANGED link
     \/ ComRaises(r) /\ Reachable(r) /\ Execute(r)
  /\ UNCHANGED <<sess, own, spawned, current, issued>>

\* Mutation of PostResponse: a failed POST is logged and the loop goes on.
PostResponse_GoesOn(r) ==
  /\ At(r, "response")
  /\ \/ /\ current = r
        /\ Goto(r, "loop")
        /\ sess' = [sess EXCEPT ![r].accepted = @ + 1]
     \/ current # r /\ Leave(r, "superseded") /\ UNCHANGED sess
     \/ Goto(r, "loop") /\ UNCHANGED sess
  /\ UNCHANGED <<link, own, spawned, current, issued>>

\* POST session/response: a failed POST may still have been applied.
PostResponse(r) ==
  /\ At(r, "response")
  /\ \/ /\ current = r
        /\ Goto(r, "loop") \/ Leave(r, "error")
        /\ sess' = [sess EXCEPT ![r].accepted = @ + 1]
     \/ current # r /\ Leave(r, "superseded") /\ UNCHANGED sess
     \/ Leave(r, "error") /\ UNCHANGED sess
  /\ UNCHANGED <<link, own, spawned, current, issued>>

-----------------------------------------------------------------------------
(* Closing: _report_error, then the `finally`                              *)

\* Mutation of EndOnMyFuel: the POST does not name its ticket.
EndOnMyFuel_NoTicket(r) ==
  \/ current' = NoRun /\ UNCHANGED sess
  \/ /\ current' \in {current, NoRun}
     /\ sess' = [sess EXCEPT ![r].endFailed = TRUE]

\* A POST that ends the session of ticket r (session/error or session/end).
\* A failed one may still have been applied.
EndOnMyFuel(r) ==
  LET ended == IF current = r THEN NoRun ELSE current
  IN  \/ current' = ended /\ UNCHANGED sess
      \/ /\ current' \in {current, ended}
         /\ sess' = [sess EXCEPT ![r].endFailed = TRUE]

ReportError(r) ==
  /\ At(r, "report")
  /\ EndOnMyFuel(r)
  /\ Become(r, [w[r] EXCEPT !.reported = TRUE, !.pc = "endSession"])
  /\ UNCHANGED <<link, own, spawned, issued>>

\* EndSession and CloseConnection are called only if what they close was
\* opened; an exception of theirs is logged and the next step runs anyway.
EndSession(r) ==
  /\ At(r, "endSession")
  /\ Goto(r, "closeConnection")
  /\ \/ w[r].stage = "session" /\ SetCom(r, "connection")
     \/ UNCHANGED link
  /\ UNCHANGED <<sess, own, spawned, current, issued>>

CloseConnection(r) ==
  /\ At(r, "closeConnection")
  /\ Goto(r, "release")
  /\ \/ w[r].stage \in {"connection", "session"} /\ SetCom(r, "rp")
     \/ UNCHANGED link
  /\ UNCHANGED <<sess, own, spawned, current, issued>>

\* release() drops the COM reference before anything in it can fail.
Release(r) ==
  /\ At(r, "release")
  /\ Goto(r, "endPost")
  /\ IF w[r].stage = "none" THEN UNCHANGED link ELSE SetCom(r, "none")
  /\ UNCHANGED <<sess, own, spawned, current, issued>>

\* Mutation of PostEnd: only a run that is done ends its session.
PostEnd_OnlyDone(r) ==
  /\ At(r, "endPost")
  /\ Goto(r, "putResult")
  /\ IF w[r].outcome # "done" THEN UNCHANGED <<sess, current>> ELSE EndOnMyFuel(r)
  /\ UNCHANGED <<link, own, spawned, issued>>

\* POST session/end, unless POST session/error has been tried.
PostEnd(r) ==
  /\ At(r, "endPost")
  /\ Goto(r, "putResult")
  /\ IF w[r].reported THEN UNCHANGED <<sess, current>> ELSE EndOnMyFuel(r)
  /\ UNCHANGED <<link, own, spawned, issued>>

PutResult(r) ==
  /\ At(r, "putResult")
  /\ Become(r, [w[r] EXCEPT !.outbox = w[r].outbox \cup {"result"}, !.pc = "exiting"])
  /\ UNCHANGED <<link, sess, own, spawned, current, issued>>

\* multiprocessing.Queue.put only hands the message to a feeder thread, which
\* writes it to the pipe some time later; the process waits for that at exit.
Flush(r) ==
  /\ w[r].pc \in Executing
  /\ w[r].outbox # {}
  /\ Become(r, [w[r] EXCEPT !.pipe = w[r].pipe \cup w[r].outbox, !.outbox = {}])
  /\ UNCHANGED <<link, sess, own, spawned, current, issued>>

Exit(r) ==
  /\ At(r, "exiting")
  /\ w[r].outbox = {}
  /\ Goto(r, "exited")
  /\ UNCHANGED <<link, sess, own, spawned, current, issued>>

-----------------------------------------------------------------------------
(* The process's surroundings                                              *)

\* SYNC_QB_MaxSessionMins have passed.
Expire(r) ==
  /\ w[r].pc \in Executing
  /\ ~w[r].expired
  /\ Become(r, [w[r] EXCEPT !.expired = TRUE])
  /\ UNCHANGED <<link, sess, own, spawned, current, issued>>

\* A terminated process runs no more code; Windows then drops its COM
\* connection.  What the feeder thread had not written is lost.
Die(r) ==
  /\ At(r, "dying")
  /\ Goto(r, "dead")
  /\ SetCom(r, "none")
  /\ UNCHANGED <<sess, own, spawned, current, issued>>

\* The process dies by itself, e.g. of an access violation in the SDK.
WorkerCrash(r) ==
  /\ w[r].pc \in Executing
  /\ Become(r, [w[r] EXCEPT !.pc = "dead", !.outbox = {}])
  /\ SetCom(r, "none")
  /\ UNCHANGED <<sess, own, spawned, current, issued>>

\* A QuickBooks of ours exits, as it should once nothing is connected to it.
QBExit(p) ==
  /\ own' = own \ {p}
  /\ UNCHANGED <<w, link, sess, spawned, current, issued>>

\* MyFuel ends the current session for reasons of its own, e.g. because Web
\* Connector starts one.
EndedElsewhere ==
  /\ current # NoRun
  /\ current' = NoRun
  /\ UNCHANGED <<w, link, sess, own, spawned, issued>>

-----------------------------------------------------------------------------
(* What the parent does to it                                              *)

\* POST session/start answered run: true; the previous session is ended.
StartSession(r) ==
  /\ r \notin issued
  /\ current' = r
  /\ issued' = issued \cup {r}
  /\ UNCHANGED <<w, link, sess, own, spawned>>

Spawn(r) ==
  /\ At(r, "idle")
  /\ r \in issued
  /\ Goto(r, "before")
  /\ UNCHANGED <<link, sess, own, spawned, current, issued>>

SetStop(r) ==
  /\ Become(r, [w[r] EXCEPT !.stop = TRUE])
  /\ UNCHANGED <<link, sess, own, spawned, current, issued>>

Terminate(r) ==
  /\ w[r].pc \in Executing
  /\ Become(r, [w[r] EXCEPT !.pc = "dying", !.outbox = {}])
  /\ UNCHANGED <<link, sess, own, spawned, current, issued>>

\* POST session/end on behalf of a worker that was terminated.
EndByParent(r) ==
  /\ r \in issued
  /\ EndOnMyFuel(r)
  /\ UNCHANGED <<w, link, own, spawned, issued>>

-----------------------------------------------------------------------------

\* Steps that may hang in QuickBooks, and steps that cannot (HTTP has timeouts).
ComStep(r) ==
  \/ CreateProcessor(r) \/ OpenConnection(r) \/ BeginSession(r)
  \/ BeginSessionReturns(r) \/ ProcessRequest(r)
  \/ EndSession(r) \/ CloseConnection(r) \/ Release(r)

LocalStep(r) ==
  \/ FindBefore(r) \/ IdentifyOwn(r) \/ LoopTop(r) \/ PostNext(r)
  \/ PostResponse(r) \/ ReportError(r) \/ PostEnd(r) \/ PutResult(r)
  \/ Flush(r) \/ Exit(r)

WorkerStep(r) ==
  \/ ComStep(r) \/ LocalStep(r)
  \/ Expire(r) \/ Die(r) \/ WorkerCrash(r)

Surroundings == EndedElsewhere \/ \E p \in own : QBExit(p)

ParentStep(r) ==
  \/ StartSession(r) \/ Spawn(r) \/ SetStop(r) \/ Terminate(r) \/ EndByParent(r)

WNext ==
  \/ \E r \in Runs : WorkerStep(r) \/ ParentStep(r)
  \/ Surroundings

WSpec == WInit /\ [][WNext]_workerVars

-----------------------------------------------------------------------------
(* Properties                                                              *)

\* The run as RelaySession sees it: connected while the process holds the COM
\* object of the request processor.
Phase(r) ==
  IF link[r].com # "none" THEN "connected"
  ELSE IF w[r].pc \in {"idle", "before", "create"} THEN "waiting" ELSE "over"

Relay == INSTANCE RelaySession WITH
  phase    <- [r \in Runs |-> Phase(r)],
  executed <- [r \in Runs |-> link[r].executed],
  accepted <- [r \in Runs |-> sess[r].accepted]

\* The worker implements RelaySession (worker.py:3-10): QuickBooks is connected
\* once, for one stretch, and relays one request at a time in it.
RelaysOneSession == Relay!Spec

\* "This process never ends still connected to QuickBooks" (worker.py:7-10):
\* whichever way the run went, once it is past the `finally`'s
\* _close_quickbooks - so before it tells MyFuel or the parent that it is over
\* - and once it is gone, QuickBooks holds nothing of it.
NeverEndsConnected ==
  \A r \in Runs :
    w[r].pc \in {"idle"} \cup Finishing \cup {"exited", "dead"} => link[r].com = "none"

\* The check of worker.py:83-92 over three unsynchronised reads of the process
\* table: a request runs only in a QuickBooks of the service's own.
OnlyOwnQuickBooks ==
  \A r \in Runs : link[r].executed > 0 => link[r].target \in Procs

\* ... and the process reported to the parent, which waits for it to exit, is
\* the one the SDK is really connected to, unless that one is gone.
IdentifiedIsTarget ==
  \A r \in Runs :
    w[r].ident # NoProc /\ link[r].target \in own \cup {Foreign}
      => w[r].ident = link[r].target

\* QuickBooks never runs two requests whose answers MyFuel has not been given
\* (worker.py:136-141): after a lost answer nothing more is sent, so at most
\* one executed request is in doubt, and no answer is invented.
AtMostOneInDoubt ==
  \A r \in Runs : link[r].executed - sess[r].accepted \in {0, 1}

\* A run that calls itself done was told so by MyFuel after MyFuel had every
\* answer (worker.py:136-141, 95): "last sync" is recorded on its strength.
DoneMeansComplete ==
  \A r \in Runs :
    w[r].outcome = "done" => sess[r].saidDone /\ sess[r].accepted = link[r].executed

\* SYNC_QB_MaxSessionRequests bounds what QuickBooks executes, not only what
\* the worker counts: a request may run and still raise (worker.py:132-140).
RequestLimit == \A r \in Runs : link[r].executed <= MaxRequests

\* Once the run is asked to stop, out of time or superseded on MyFuel, at most
\* the request already on its way is still executed (worker.py:127-139).
AtMostOneOverrun == \A r \in Runs : link[r].overrun <= 1

\* A run that ends by itself leaves no session open on MyFuel unless a POST
\* that should have ended it failed (worker.py:80, 101, 110-114).
EndsItsSession ==
  \A r \in Runs : w[r].pc = "exited" /\ current = r => sess[r].endFailed

\* A worker that has been superseded closes late, when its successor is at work:
\* no step of one worker ends the session of another (worker.py:112, 147).
EndsNoOtherSession ==
  [][\A r, s \in Runs :
       r # s /\ current = r /\ w'[s] # w[s] => current' = r]_workerVars

=============================================================================
