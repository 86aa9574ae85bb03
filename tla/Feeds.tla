------------------------------- MODULE Feeds -------------------------------
(***************************************************************************)
(* Tasks that copy a document from an on-site system to MyFuel, tick after *)
(* tick: the three of SmartTank (relay/integrations/smarttank) and PDI's   *)
(* get_master_data (relay/integrations/pdi).  Neither integration is       *)
(* registered at this commit.                                              *)
(*                                                                         *)
(* A document is known by the tick that fetched it, and by whether there   *)
(* is anything in it.  MyFuel keeps the document of the push it has        *)
(* applied last.                                                           *)
(***************************************************************************)
EXTENDS Naturals

CONSTANTS
  Feed,           \* the tasks
  SkipsEmpty,     \* those that do not push an empty document: SmartTank's
  MaxFeedTicks    \* ticks of a task (a bound)

ASSUME FeedAssumption == SkipsEmpty \subseteq Feed /\ MaxFeedTicks \in Nat

Documents == [tick : Nat, full : BOOLEAN]

VARIABLES
  at,        \* per task: where its tick is
  tick,      \* the ticks it has begun
  data,      \* the document it has fetched, or "" as an empty one
  copy,      \* the document MyFuel has
  delayed,   \* pushes that have failed, as far as the task knows, and will be applied
  alarmed,   \* ticks Sentry was told of
  cut,       \* ticks a crash has ended
  skipped,   \* ticks without a push
  regress    \* ticks of which a push has put an older document in place of a newer one

taskVars == <<at, tick, data>>
reportVars == <<alarmed, cut, skipped>>
feedVars == <<taskVars, copy, delayed, reportVars, regress>>

FeedTypeOK ==
  /\ at \in [Feed -> {"idle", "fetch", "push"}]
  /\ tick \in [Feed -> Nat]
  /\ data \in [Feed -> Documents] /\ copy \in [Feed -> Documents]
  /\ delayed \in [Feed -> SUBSET Documents]
  /\ alarmed \in [Feed -> SUBSET Nat] /\ cut \in [Feed -> SUBSET Nat]
  /\ skipped \in [Feed -> SUBSET Nat] /\ regress \in [Feed -> SUBSET Nat]
  /\ \A f \in Feed : at[f] = "push" => data[f].tick = tick[f]
  /\ \A f \in Feed : copy[f].tick <= tick[f]

\* MyFuel has a document of the time before.
FeedInit ==
  /\ at = [f \in Feed |-> "idle"]
  /\ tick = [f \in Feed |-> 0]
  /\ data = [f \in Feed |-> [tick |-> 0, full |-> TRUE]]
  /\ copy = data
  /\ delayed = [f \in Feed |-> {}]
  /\ alarmed = [f \in Feed |-> {}] /\ cut = alarmed
  /\ skipped = alarmed /\ regress = alarmed

Alarm(f) == alarmed' = [alarmed EXCEPT ![f] = @ \cup {tick[f]}]

\* MyFuel applies a push of the document d.
Apply(f, d) ==
  /\ copy' = [copy EXCEPT ![f] = d]
  /\ regress' = [regress EXCEPT ![f] = IF d.tick < copy[f].tick THEN @ \cup {d.tick} ELSE @]

-----------------------------------------------------------------------------
(* A tick                                                                  *)

BeginTick(f) ==
  /\ at[f] = "idle"
  /\ tick[f] < MaxFeedTicks
  /\ tick' = [tick EXCEPT ![f] = @ + 1]
  /\ at' = [at EXCEPT ![f] = "fetch"]
  /\ UNCHANGED <<data, copy, delayed, reportVars, regress>>

\* Mutation of GoesOn: an empty document is pushed by every task.
GoesOn_AlwaysPushes(f, d) ==
  /\ at' = [at EXCEPT ![f] = "push"]
  /\ UNCHANGED skipped

\* From the fetch to the push, which a task of SmartTank leaves out when there is
\* nothing to push.
GoesOn(f, d) ==
  IF d.full \/ f \notin SkipsEmpty
  THEN at' = [at EXCEPT ![f] = "push"] /\ UNCHANGED skipped
  ELSE at' = [at EXCEPT ![f] = "idle"] /\ skipped' = [skipped EXCEPT ![f] = @ \cup {tick[f]}]

\* The source answers, with a document or with nothing.
FetchReturns(f) ==
  /\ at[f] = "fetch"
  /\ \E full \in BOOLEAN :
       LET d == [tick |-> tick[f], full |-> full]
       IN  data' = [data EXCEPT ![f] = d] /\ GoesOn(f, d)
  /\ UNCHANGED <<tick, copy, delayed, alarmed, cut, regress>>

\* It does not, or with an error status: the document is "", and Sentry is told.
FetchFails(f) ==
  /\ at[f] = "fetch"
  /\ LET d == [tick |-> tick[f], full |-> FALSE]
     IN  data' = [data EXCEPT ![f] = d] /\ GoesOn(f, d)
  /\ Alarm(f)
  /\ UNCHANGED <<tick, copy, delayed, cut, regress>>

\* Mutation of PushReturns: the push is not awaited.
PushReturns_NotAwaited(f) ==
  /\ at[f] = "push"
  /\ at' = [at EXCEPT ![f] = "idle"]
  /\ delayed' = [delayed EXCEPT ![f] = @ \cup {data[f]}]
  /\ UNCHANGED <<tick, data, copy, reportVars, regress>>

PushReturns(f) ==
  /\ at[f] = "push"
  /\ at' = [at EXCEPT ![f] = "idle"]
  /\ Apply(f, data[f])
  /\ UNCHANGED <<tick, data, delayed, reportVars>>

\* Mutation of PushFails: raise_for_status is left out, so an answer that says no
\* is a success.
PushFails_Unnoticed(f) ==
  /\ at[f] = "push"
  /\ at' = [at EXCEPT ![f] = "idle"]
  /\ UNCHANGED <<tick, data, copy, delayed, reportVars, regress>>

\* The POST times out or is answered with an error: it is never applied, or will be -
\* at once if the task only missed the answer.
PushFails(f) ==
  /\ at[f] = "push"
  /\ at' = [at EXCEPT ![f] = "idle"]
  /\ delayed' = delayed \/ delayed' = [delayed EXCEPT ![f] = @ \cup {data[f]}]
  /\ Alarm(f)
  /\ UNCHANGED <<tick, data, copy, cut, skipped, regress>>

-----------------------------------------------------------------------------
(* Around it                                                               *)

\* MyFuel gets to a push the task has given up.
ApplyDelayed(f) ==
  /\ \E d \in delayed[f] :
       Apply(f, d) /\ delayed' = [delayed EXCEPT ![f] = @ \ {d}]
  /\ UNCHANGED <<taskVars, reportVars>>

\* The service dies, with whatever ticks are under way; of a push MyFuel may have
\* all it needs.
FeedCrash ==
  /\ at' = [f \in Feed |-> "idle"]
  /\ cut' = [f \in Feed |-> IF at[f] = "idle" THEN cut[f] ELSE cut[f] \cup {tick[f]}]
  /\ \E sent \in SUBSET {f \in Feed : at[f] = "push"} :
       delayed' = [f \in Feed |-> IF f \in sent THEN delayed[f] \cup {data[f]} ELSE delayed[f]]
  /\ UNCHANGED <<tick, data, copy, alarmed, skipped, regress>>

-----------------------------------------------------------------------------

\* All but the beginning of a tick.
TickGoesOn(f) ==
  FetchReturns(f) \/ FetchFails(f) \/ PushReturns(f) \/ PushFails(f) \/ ApplyDelayed(f)

FeedNext == FeedCrash \/ \E f \in Feed : BeginTick(f) \/ TickGoesOn(f)

FeedSpec == FeedInit /\ [][FeedNext]_feedVars

-----------------------------------------------------------------------------
(* Properties                                                              *)

\* The ticks that somebody knows went wrong.
Known(f) == alarmed[f] \cup cut[f]

\* MyFuel's copy goes back to an older document only by a push that was reported as
\* failed, or cut off by a crash (smarttank/__init__.py:73-83, pdi/__init__.py:94-105).
OlderOnlyAfterFailure == \A f \in Feed : regress[f] \subseteq Known(f)

\* A task of SmartTank never puts nothing in place of MyFuel's copy, however late a
\* push arrives (smarttank/__init__.py:69-71).
NeverEmptied == \A f \in SkipsEmpty : copy[f].full

\* Silence means delivery: a tick that ended without an alarm, and had something to
\* push, has its document on MyFuel - or a failed push of an earlier one has come
\* after it (smarttank/__init__.py:57-83, pdi/__init__.py:79-105).
QuietTickIsDelivered ==
  \A f \in Feed :
    at[f] = "idle" /\ tick[f] > 0 /\ tick[f] \notin Known(f) \cup skipped[f] =>
      copy[f].tick \in {tick[f]} \cup Known(f)

=============================================================================
