----------------------------- MODULE Processes -----------------------------
(***************************************************************************)
(* relay/integrations/quickbooks/processes.py: which QuickBooks process a  *)
(* sync run is connected to.  A process is a QBProcess (pid, create_time), *)
(* so two processes that reuse a pid are two different values.             *)
(***************************************************************************)

CONSTANT NoProc     \* Python's None: no process of ours

\* Mutation of identify_own_instance: new processes are not preferred.
identify_own_instance_AnyOwn(before, after) ==
  IF after = {} THEN NoProc ELSE CHOOSE p \in after : TRUE

(***************************************************************************)
(* `before` and `after` are the service's own QuickBooks processes listed  *)
(* around BeginSession.  One new process is ours; with no new process, the *)
(* only old one is ours (a leftover of an earlier run); anything else is   *)
(* refused.                                                                *)
(***************************************************************************)
identify_own_instance(before, after) ==
  LET new        == after \ before
      candidates == IF new # {} THEN new ELSE after
  IN  IF \E p \in candidates : candidates = {p}
      THEN CHOOSE p \in candidates : TRUE
      ELSE NoProc

=============================================================================
