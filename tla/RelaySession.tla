---------------------------- MODULE RelaySession ----------------------------
(***************************************************************************)
(* What one sync run promises, seen from QuickBooks and MyFuel: it holds   *)
(* the QuickBooks connection during one stretch of time and never again,   *)
(* executes at most MaxRequests requests in it, one at a time, and none    *)
(* before MyFuel has the answer to the one before.                         *)
(***************************************************************************)
EXTENDS Naturals

CONSTANTS Runs, MaxRequests

VARIABLES
  phase,      \* per run: "waiting", "connected" or "over"
  executed,   \* per run: requests QuickBooks executed
  accepted    \* per run: answers MyFuel took

sessionVars == <<phase, executed, accepted>>

Init ==
  /\ phase = [r \in Runs |-> "waiting"]
  /\ executed = [r \in Runs |-> 0]
  /\ accepted = [r \in Runs |-> 0]

Connect(r) ==
  /\ phase[r] = "waiting"
  /\ phase' = [phase EXCEPT ![r] = "connected"]
  /\ UNCHANGED <<executed, accepted>>

Execute(r) ==
  /\ phase[r] = "connected"
  /\ executed[r] = accepted[r]
  /\ executed[r] < MaxRequests
  /\ executed' = [executed EXCEPT ![r] = @ + 1]
  /\ UNCHANGED <<phase, accepted>>

Accept(r) ==
  /\ phase[r] = "connected"
  /\ executed[r] = accepted[r] + 1
  /\ accepted' = [accepted EXCEPT ![r] = @ + 1]
  /\ UNCHANGED <<phase, executed>>

\* The end of the run, or its failure before it was connected.
Disconnect(r) ==
  /\ phase[r] \in {"waiting", "connected"}
  /\ phase' = [phase EXCEPT ![r] = "over"]
  /\ UNCHANGED <<executed, accepted>>

Next == \E r \in Runs : Connect(r) \/ Execute(r) \/ Accept(r) \/ Disconnect(r)

Spec == Init /\ [][Next]_sessionVars

=============================================================================
