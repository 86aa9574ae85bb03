----------------------------- MODULE MCService -----------------------------
(***************************************************************************)
(* QBService for TLC: symmetric model values, and for the runs with two    *)
(* tickets a view and constraints that keep them small.                    *)
(***************************************************************************)
EXTENDS QBService, TLC

Symmetry == Permutations(Runs) \cup Permutations(Procs)

\* How a run that is over went is read by no later step: states that differ
\* only in that have the same future.
Present ==
  <<[r \in Runs |-> IF Gone(r) /\ rn.run # r THEN "over" ELSE <<w[r], link[r], sess[r]>>],
    own, spawned, current, issued, rn, svc, stop, crashes>>

\* Runs with two tickets look at how the runs follow or overlap each other, and
\* leave to the runs with one ticket what can go wrong within a run: POSTs that
\* end a session get through, no call raises, a worker is not stopped by its own
\* clock (the service's may stop it).
SmoothRuns ==
  /\ ~stop
  /\ \A r \in Runs : /\ ~sess[r].endFailed
                     /\ ~w[r].expired
                     /\ w[r].pc \in Closing \cup Finishing
                          => w[r].outcome \notin {"error", "com_error"}

\* ... and once the service has crashed, or another user's QuickBooks is met,
\* nothing takes too long for the service's clock either.
QuickRuns ==
  /\ ~rn.hardDue /\ ~rn.graceDue /\ ~rn.closeDue
  /\ \A r \in Runs : w[r].pc # "dying"

SmoothOrQuickRuns ==
  /\ SmoothRuns
  /\ QuickRuns \/ (crashes = 0 /\ \A r \in Runs : link[r].target # Foreign)

\* For liveness: a worker is not stopped by its own clock.  One that hangs never
\* looks at it; one that does not hang ends in the same way as when it is stopped.
LiveNext == SNext /\ \A r \in Runs : ~w'[r].expired

LiveSpec == SInit /\ [][LiveNext]_vars /\ Fairness

=============================================================================
