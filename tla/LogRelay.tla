------------------------------ MODULE LogRelay ------------------------------
(***************************************************************************)
(* The log records of the QuickBooks workers on their way to the files     *)
(* (relay/core/logging_setup.py): a worker hands each record to the feeder *)
(* thread of a multiprocessing queue, which writes it to a pipe; a thread  *)
(* of the service reads the pipe and logs the record again.  The service   *)
(* ends that thread with a None behind the last record (relay/main.py).    *)
(*                                                                         *)
(* A process waits at its exit until its feeder thread has written all,    *)
(* and the pipe takes only so much: the thread that reads decides whether  *)
(* a worker whose run is over can exit, and whether the service can.       *)
(*                                                                         *)
(* A record that has been read need not reach its file: logging swallows   *)
(* what its handlers raise, and goes on.                                   *)
(***************************************************************************)
EXTENDS Naturals, SequencesExt

CONSTANTS
  Workers,      \* the workers of one life of the service, one after the other
  Service,      \* the service's own end of the queue
  EndOfLog,     \* the None that ends the listener
  MaxRecords,   \* how many records a worker logs (a bound)
  PipeSize      \* how many records fit into the pipe

ASSUME LogAssumption ==
  /\ Service \notin Workers
  /\ EndOfLog \notin Workers \X Nat
  /\ MaxRecords \in Nat
  /\ PipeSize \in Nat \ {0}

VARIABLES
  proc,      \* per worker: how far its process is
  logged,    \* per worker: how many records it has logged
  buffer,    \* per end of the queue: what its feeder thread has still to write
  pipe,      \* what is in the pipe
  written,   \* the records in the log files
  failed,    \* the records that were read and could not be written
  listener,  \* the thread "log-queue-listener"
  svc        \* the service: its tasks run, it waits for the listener, SvcDoRun has
             \* returned, its process has exited

fileVars == <<written, failed>>
vars == <<proc, logged, buffer, pipe, fileVars, listener, svc>>

Records == Workers \X (1 .. MaxRecords)

TypeOK ==
  /\ proc \in [Workers -> {"idle", "running", "exiting", "exited", "killed"}]
  /\ logged \in [Workers -> 0 .. MaxRecords]
  /\ buffer \in [Workers \cup {Service} -> Seq(Records \cup {EndOfLog})]
  /\ pipe \in Seq(Records \cup {EndOfLog}) /\ Len(pipe) <= PipeSize
  /\ written \in Seq(Records) /\ failed \subseteq Records
  /\ listener \in {"reading", "ended", "died", "stuck"}
  /\ svc \in {"running", "stopping", "stopped", "exited"}

Init ==
  /\ proc = [s \in Workers |-> "idle"]
  /\ logged = [s \in Workers |-> 0]
  /\ buffer = [e \in Workers \cup {Service} |-> <<>>]
  /\ pipe = <<>>
  /\ written = <<>> /\ failed = {}
  /\ listener = "reading"
  /\ svc = "running"

Alive(s) == proc[s] \in {"running", "exiting"}

Put(e, record) == buffer' = [buffer EXCEPT ![e] = Append(@, record)]

-----------------------------------------------------------------------------
(* The workers                                                             *)

\* The runner starts a worker only when it has seen the end of the last one.
Start(s) ==
  /\ svc = "running"
  /\ proc[s] = "idle"
  /\ \A t \in Workers : ~Alive(t)
  /\ proc' = [proc EXCEPT ![s] = "running"]
  /\ UNCHANGED <<logged, buffer, pipe, fileVars, listener, svc>>

\* Mutation of Log: the queue is bounded, and QueueHandler's put_nowait drops
\* the record when it is full.
Log_BoundedQueue(s) ==
  /\ proc[s] = "running"
  /\ logged[s] < MaxRecords
  /\ logged' = [logged EXCEPT ![s] = @ + 1]
  /\ IF buffer[s] = <<>> THEN Put(s, <<s, logged[s] + 1>>) ELSE UNCHANGED buffer
  /\ UNCHANGED <<proc, pipe, fileVars, listener, svc>>

Log(s) ==
  /\ proc[s] = "running"
  /\ logged[s] < MaxRecords
  /\ logged' = [logged EXCEPT ![s] = @ + 1]
  /\ Put(s, <<s, logged[s] + 1>>)
  /\ UNCHANGED <<proc, pipe, fileVars, listener, svc>>

\* run_worker returns.
Return(s) ==
  /\ proc[s] = "running"
  /\ proc' = [proc EXCEPT ![s] = "exiting"]
  /\ UNCHANGED <<logged, buffer, pipe, fileVars, listener, svc>>

\* The process waits for its feeder thread.
Exit(s) ==
  /\ proc[s] = "exiting"
  /\ buffer[s] = <<>>
  /\ proc' = [proc EXCEPT ![s] = "exited"]
  /\ UNCHANGED <<logged, buffer, pipe, fileVars, listener, svc>>

\* The runner terminates it, or it crashes.
Kill(s) ==
  /\ Alive(s)
  /\ proc' = [proc EXCEPT ![s] = "killed"]
  /\ buffer' = [buffer EXCEPT ![s] = <<>>]
  /\ UNCHANGED <<logged, pipe, fileVars, listener, svc>>

-----------------------------------------------------------------------------
(* The queue and the listener                                              *)

\* A feeder thread writes; on Windows a write is one message, so a process that
\* is killed leaves no half of one, and holds no lock.
Feed(e) ==
  /\ buffer[e] # <<>>
  /\ Len(pipe) < PipeSize
  /\ pipe' = Append(pipe, Head(buffer[e]))
  /\ buffer' = [buffer EXCEPT ![e] = Tail(@)]
  /\ UNCHANGED <<proc, logged, fileVars, listener, svc>>

Reading == listener = "reading" /\ pipe # <<>> /\ svc # "exited"

\* Mutation of Read: the None is not looked at.
Read_NoneIsARecord ==
  /\ Reading
  /\ pipe' = Tail(pipe)
  /\ written' = Append(written, Head(pipe))
  /\ UNCHANGED <<proc, logged, buffer, failed, listener, svc>>

\* _run: the end is read only behind everything that was written before it.  A
\* write that fails, or the rollover before it, costs its own record and nothing else.
Read ==
  /\ Reading
  /\ pipe' = Tail(pipe)
  /\ IF Head(pipe) = EndOfLog
     THEN listener' = "ended" /\ UNCHANGED fileVars
     ELSE /\ \/ written' = Append(written, Head(pipe)) /\ UNCHANGED failed
             \/ failed' = failed \cup {Head(pipe)} /\ UNCHANGED written
          /\ UNCHANGED listener
  /\ UNCHANGED <<proc, logged, buffer, svc>>

\* get() raises - an EOFError or OSError is caught and ends the thread as well as
\* any other - or the disk does not answer.
ListenerFails ==
  /\ listener = "reading" /\ svc # "exited"
  /\ listener' \in {"died", "stuck"}
  /\ UNCHANGED <<proc, logged, buffer, pipe, fileVars, svc>>

\* Mutation of StopListener: the listener is stopped while a worker may run.
StopListener_WithoutWaiting ==
  /\ svc = "running"
  /\ svc' = "stopping"
  /\ Put(Service, EndOfLog)
  /\ UNCHANGED <<proc, logged, pipe, fileVars, listener>>

\* The task loops have ended, so the runner waits for no worker: put(None).
StopListener ==
  /\ svc = "running"
  /\ \A s \in Workers : ~Alive(s)
  /\ svc' = "stopping"
  /\ Put(Service, EndOfLog)
  /\ UNCHANGED <<proc, logged, pipe, fileVars, listener>>

\* Mutation of JoinListener: join() without a timeout.
JoinListener_NoTimeout ==
  /\ svc = "stopping"
  /\ listener \in {"ended", "died"}
  /\ svc' = "stopped"
  /\ UNCHANGED <<proc, logged, buffer, pipe, fileVars, listener>>

\* join(timeout=5): the thread has ended, or five seconds are over.
JoinListener ==
  /\ svc = "stopping"
  /\ svc' = "stopped"
  /\ UNCHANGED <<proc, logged, buffer, pipe, fileVars, listener>>

\* The process waits for its feeder thread, as a worker does; the listener is a
\* daemon thread and ends with it.
ServiceExit ==
  /\ svc = "stopped"
  /\ buffer[Service] = <<>>
  /\ svc' = "exited"
  /\ UNCHANGED <<proc, logged, buffer, pipe, fileVars, listener>>

-----------------------------------------------------------------------------

Next ==
  \/ \E s \in Workers : Start(s) \/ Log(s) \/ Return(s) \/ Exit(s) \/ Kill(s)
  \/ \E e \in Workers \cup {Service} : Feed(e)
  \/ Read \/ ListenerFails \/ StopListener \/ JoinListener \/ ServiceExit

Spec == Init /\ [][Next]_vars

\* The threads run on: feeders, the listener unless it has failed, a process that
\* has nothing left to wait for, and the thread that joins the listener for five seconds.
FairSpec ==
  /\ Spec
  /\ \A e \in Workers \cup {Service} : WF_vars(Feed(e))
  /\ \A s \in Workers : WF_vars(Exit(s))
  /\ WF_vars(Read) /\ WF_vars(JoinListener) /\ WF_vars(ServiceExit)

-----------------------------------------------------------------------------
(* Properties                                                              *)

\* The places of a sequence where the records of worker s are.
PlacesOf(s, q) == {i \in DOMAIN q : q[i] # EndOfLog /\ q[i][1] = s}

\* Of worker s, the sequence holds the records with numbers in N, each once and in order.
Holds(q, s, N) ==
  /\ \A i \in PlacesOf(s, q) : q[i][2] \in N
  /\ \A n \in N : \E i \in PlacesOf(s, q) : q[i][2] = n
  /\ \A i, j \in PlacesOf(s, q) : i < j => q[i][2] < q[j][2]

\* Of the first k records of worker s, those that could be written.
Writable(s, k) == {n \in 1 .. k : <<s, n>> \notin failed}

\* The files hold a beginning of what a worker logged, but for the records whose own
\* write failed: nothing else is missing before something that is kept, nothing is
\* repeated or out of order, also when the worker is killed or the listener dies
\* (logging_setup.py:81-91).
KeepsABeginning ==
  \A s \in Workers : \E k \in 0 .. logged[s] : Holds(written, s, Writable(s, k))

\* When the listener was ended by the None, everything is in the files that a worker
\* logged which exited by itself and that could be written (main.py:76-80): the None
\* is behind it, and a write that fails does not end the listener.
NothingLostAtStop ==
  listener = "ended" =>
    \A s \in Workers : proc[s] = "exited" => Holds(written, s, Writable(s, logged[s]))

\* A worker whose run is over exits, however much it logged, unless it is killed
\* or the listener has failed: the service never ends the listener first, nor does a
\* record that cannot be written.
ExitNotHeldUp ==
  \A s \in Workers :
    proc[s] = "exiting" ~> proc[s] # "exiting" \/ listener \in {"died", "stuck"}

\* The process of a service that stops is gone at last, even if the listener has
\* failed, unless it has done so with a pipe that is full: then nobody takes the None,
\* and the exit waits for the feeder thread that has to write it
\* (logging_setup.py:77-79).
ServiceExits ==
  svc = "stopping" ~>
    svc = "exited" \/ (listener \in {"died", "stuck"} /\ Len(pipe) = PipeSize)

=============================================================================
