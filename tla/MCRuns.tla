----------------------------- MODULE MCRuns -----------------------------
(***************************************************************************)
(* QBService for TLC with two tickets.  All that can go wrong in two runs  *)
(* in any order is out of TLC's reach, so each behaviour chooses at its    *)
(* start what it looks at (scope):                                         *)
(*   "one"  one ticket, and everything that can go wrong, a crash too;     *)
(*   "two"  two tickets and a crash: how runs follow or overlap each       *)
(*          other.                                                         *)
(***************************************************************************)
EXTENDS MCService

VARIABLE scope

RunsInit == SInit /\ scope \in {"one", "two"}
RunsNext == SNext /\ UNCHANGED scope
RunsSpec == RunsInit /\ [][RunsNext]_<<vars, scope>>

\* What is not looked at with two tickets or after a crash: another user's
\* QuickBooks, a request, a worker stopped by its own clock.
Plain ==
  \A r \in Runs : link[r].target # Foreign /\ link[r].executed = 0 /\ ~w[r].expired

InScope ==
  \/ scope = "one" /\ Cardinality(issued) <= 1 /\ (crashes > 0 => Plain)
  \/ scope = "two" /\ SmoothOrQuickRuns /\ Plain

\* The alarms of workers that are not gone are what a stop is judged by.
View ==
  <<scope, IF scope = "one" /\ crashes = 0 THEN vars
           ELSE <<Present, [r \in Runs |-> IF Gone(r) THEN {} ELSE alerts[r]]>> >>

=============================================================================
