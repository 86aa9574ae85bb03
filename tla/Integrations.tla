---------------------------- MODULE Integrations ----------------------------
(***************************************************************************)
(* PDI and SmartTank as they would be if they were registered in           *)
(* relay/main.py: PDI's two tasks and those of SmartTank in one service.   *)
(* The tasks share nothing but the service: its start, at which PDI is     *)
(* skipped if MyFuel does not answer, and its crash, which ends the ticks  *)
(* of all of them at once.                                                 *)
(***************************************************************************)
EXTENDS PdiOrders, Feeds

allVars == <<vars, feedVars>>

IntegrationsTypeOK == TypeOK /\ FeedTypeOK

IntegrationsInit == Init /\ FeedInit

OrdersGoOn == OrderStep /\ UNCHANGED feedVars

\* The tasks are started when all integrations have been asked for theirs.
FeedStarts(f) ==
  /\ address # "unknown"
  /\ address = "skipped" => f \in SkipsEmpty
  /\ BeginTick(f)

FeedGoesOn(f) ==
  /\ FeedStarts(f) \/ TickGoesOn(f)
  /\ UNCHANGED vars

ServiceCrash == Crash /\ FeedCrash

IntegrationsNext == OrdersGoOn \/ ServiceCrash \/ \E f \in Feed : FeedGoesOn(f)

IntegrationsSpec == IntegrationsInit /\ [][IntegrationsNext]_allVars

=============================================================================
