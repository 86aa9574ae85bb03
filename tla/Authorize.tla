----------------------------- MODULE Authorize -----------------------------
(***************************************************************************)
(* `MyfuelaiConnector.exe authorize`                                       *)
(* (relay/integrations/quickbooks/authorize.py): a QuickBooks Admin has    *)
(* the app authorized in the QuickBooks that is open, and one HostQuery    *)
(* shows that it is.                                                       *)
(*                                                                         *)
(* QuickBooks asks the Admin in BeginSession.  As in QBWorker, a call that *)
(* raises may have had its effect, and what QuickBooks holds is apart from *)
(* what the command believes.                                              *)
(***************************************************************************)
EXTENDS Naturals

CONSTANTS Apps, NoApp

VARIABLES
  at,        \* where the command is; "exited": authorize() has returned, or its process is gone
  app,       \* the app it authorizes
  stage,     \* how much its `finally` will close: rp, connected, qb_ticket
  exit,      \* its exit code
  com,       \* what QuickBooks holds for it
  queries,   \* requests QuickBooks executed for it
  allowed    \* the apps QuickBooks lets in unattended

commandVars == <<at, app, stage, exit, com, queries, allowed>>

Stages == {"none", "rp", "connection", "session"}

AuthorizeTypeOK ==
  /\ at \in {"start", "create", "open", "begin", "query",
             "endSession", "closeConnection", "release", "exited"}
  /\ app \in Apps \cup {NoApp}
  /\ stage \in Stages /\ com \in Stages
  /\ exit \in 0 .. 1
  /\ queries \in Nat
  /\ allowed \subseteq Apps

CInit ==
  /\ at = "start"
  /\ app = NoApp
  /\ stage = "none" /\ com = "none"
  /\ exit = 1
  /\ queries = 0
  /\ allowed = {}

\* The app comes from relay.json, and a file that cannot be read ends the command.
ReadApp(a) ==
  /\ at = "start"
  /\ app' = a
  /\ at' = IF a = NoApp THEN "exited" ELSE "create"
  /\ UNCHANGED <<stage, exit, com, queries, allowed>>

\* To the `finally`, with an exit code: any exception is a failure.
Leave(code) == exit' = code /\ at' = "endSession"

CreateProcessor ==
  /\ at = "create"
  /\ \/ stage' = "rp" /\ com' = "rp" /\ at' = "open" /\ UNCHANGED exit
     \/ Leave(1) /\ UNCHANGED <<stage, com>>
  /\ UNCHANGED <<app, queries, allowed>>

OpenConnection ==
  /\ at = "open"
  /\ \/ stage' = "connection" /\ com' = "connection" /\ at' = "begin" /\ UNCHANGED exit
     \/ Leave(1) /\ UNCHANGED <<stage, com>>
  /\ UNCHANGED <<app, queries, allowed>>

\* The Admin allows the app for good, or for the time being, or not at all.
BeginSession ==
  /\ at = "begin"
  /\ \/ stage' = "session" /\ com' = "session" /\ at' = "query" /\ UNCHANGED exit
     \/ Leave(1) /\ com' \in {com, "session"} /\ UNCHANGED stage
  /\ allowed' = allowed \/ (com' = "session" /\ allowed' = allowed \cup {app})
  /\ UNCHANGED <<app, queries>>

\* The answer has status 0 or another one, or the call raises.
HostQuery ==
  /\ at = "query"
  /\ \/ Leave(0) /\ queries' = queries + 1
     \/ Leave(1) /\ queries' \in {queries, queries + 1}
  /\ UNCHANGED <<app, stage, com, allowed>>

\* Mutation of EndSession: what it raises leaves the `finally`.
EndSession_RaiseLeaves ==
  /\ at = "endSession"
  /\ \/ stage # "session" /\ at' = "closeConnection" /\ UNCHANGED com
     \/ stage = "session" /\ com = "session" /\ at' = "closeConnection" /\ com' = "connection"
     \/ stage = "session" /\ at' = "exited" /\ UNCHANGED com
  /\ UNCHANGED <<app, stage, exit, queries, allowed>>

\* The `finally`.  An EndSession or a CloseConnection that raises does not keep the
\* next call from being made.
EndSession ==
  /\ at = "endSession"
  /\ at' = "closeConnection"
  /\ \/ stage = "session" /\ com = "session" /\ com' = "connection"
     \/ UNCHANGED com
  /\ UNCHANGED <<app, stage, exit, queries, allowed>>

CloseConnection ==
  /\ at = "closeConnection"
  /\ at' = "release"
  /\ \/ stage \in {"connection", "session"} /\ com # "none" /\ com' = "rp"
     \/ UNCHANGED com
  /\ UNCHANGED <<app, stage, exit, queries, allowed>>

\* Without a COM object there is nothing to release.
Release ==
  /\ at = "release"
  /\ at' = "exited"
  /\ IF stage = "none" THEN UNCHANGED com ELSE com' = "none"
  /\ UNCHANGED <<app, stage, exit, queries, allowed>>

\* The console is closed, or what the `finally` does not catch ends it early; Windows
\* drops the connection of a process that is gone.
Killed ==
  /\ at \notin {"start", "exited"}
  /\ at' = "exited"
  /\ exit' = 1
  /\ com' = "none"
  /\ UNCHANGED <<app, stage, queries, allowed>>

CommandStep ==
  \/ CreateProcessor \/ OpenConnection \/ BeginSession \/ HostQuery
  \/ EndSession \/ CloseConnection \/ Release \/ Killed

-----------------------------------------------------------------------------

\* As a session: connected as long as QuickBooks holds anything for the command, also
\* when it has exited.
Relay == INSTANCE RelaySession WITH
  Runs <- {"authorize"}, MaxRequests <- 1,
  phase <- [r \in {"authorize"} |->
              IF com # "none" THEN "connected" ELSE IF at \in {"start", "create"} THEN "waiting" ELSE "over"],
  executed <- [r \in {"authorize"} |-> queries],
  accepted <- [r \in {"authorize"} |-> 0]

=============================================================================
