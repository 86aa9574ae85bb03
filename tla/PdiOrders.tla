----------------------------- MODULE PdiOrders -----------------------------
(***************************************************************************)
(* The order task of the PDI integration (relay/integrations/pdi), which   *)
(* is in the repository but not registered at this commit: every tick it   *)
(* pulls the open orders from MyFuel, sends each to PDI, and tells MyFuel  *)
(* what came of those PDI took.  The task itself remembers nothing from    *)
(* one tick to the next; that an order is not sent twice depends on MyFuel *)
(* having been told.                                                       *)
(*                                                                         *)
(* Rows of the integration log and messages to Sentry are left out: their  *)
(* failures are caught where they happen and change nothing here.          *)
(***************************************************************************)
EXTENDS Naturals, SequencesExt

CONSTANTS
  Orders,     \* the order messages MyFuel has for PDI
  MaxTicks    \* how many ticks there are (a bound)

ASSUME OrdersAssumption == IsFiniteSet(Orders) /\ MaxTicks \in Nat

\* "None" is an order with none of the three actions, "Unreadable" one whose
\* order_xml is null, so that looking for an action in it raises.
Actions == {"AddFuelOrder", "UpdateFuelOrder", "CancelFuelOrder", "None", "Unreadable"}

\* The actions MyFuel is told about (_BACKOFFICE_ENDPOINTS).
Told == {"AddFuelOrder", "UpdateFuelOrder"}

VARIABLES
  address,    \* what the service has learnt of PDI's address when it started
  action,     \* per order: its soap_action
  open,       \* the orders MyFuel would hand out
  known,      \* the orders MyFuel has been told about
  executed,   \* per order: how often PDI has executed it
  late,       \* the orders PDI still executes although the POST has failed
  pc,         \* the task: between ticks, sending to PDI, telling MyFuel
  batch,      \* the orders of this tick that are left, the one at hand first
  handed,     \* the orders MyFuel handed out for this tick
  sent,       \* those of them that were posted to PDI
  failures,   \* per order: how often a call about it went wrong
  ticks       \* ticks so far

myfuelVars == <<open, known>>
pdiVars == <<executed, late>>
vars == <<address, action, open, known, executed, late, pc, batch, handed, sent, failures, ticks>>

TypeOK ==
  /\ address \in {"unknown", "known", "none", "skipped"}
  /\ action \in [Orders -> Actions]
  /\ open \subseteq Orders /\ known \subseteq Orders
  /\ executed \in [Orders -> Nat] /\ failures \in [Orders -> Nat]
  /\ late \in [Orders -> Nat]
  /\ pc \in {"idle", "send", "tell"}
  /\ batch \in Seq(Orders) /\ handed \in Seq(Orders) /\ sent \in Seq(Orders)
  /\ pc # "idle" => batch # <<>>
  /\ ticks \in 0 .. MaxTicks

Init ==
  /\ address = "unknown"
  /\ action \in [Orders -> Actions]
  /\ open = Orders /\ known = {}
  /\ executed = [o \in Orders |-> 0]
  /\ late = [o \in Orders |-> 0]
  /\ pc = "idle"
  /\ batch = <<>> /\ handed = <<>> /\ sent = <<>>
  /\ failures = [o \in Orders |-> 0]
  /\ ticks = 0

\* The order at hand.
item == Head(batch)

Execute(o) == executed' = [executed EXCEPT ![o] = @ + 1]

Fails(o) == failures' = [failures EXCEPT ![o] = @ + 1]

\* An order is at hand that can be sent, and it is known where.
Sending == pc = "send" /\ action[item] # "Unreadable" /\ address = "known"

\* Mutation of NextItem: the end of the batch is not noticed.
NextItem_KeepsSending ==
  /\ batch' = Tail(batch)
  /\ pc' = "send"

\* On to the next order of the batch, or to the end of the tick.
NextItem ==
  /\ batch' = Tail(batch)
  /\ pc' = IF Len(batch) = 1 THEN "idle" ELSE "send"

-----------------------------------------------------------------------------
(* The start, and a tick                                                   *)

\* The address is asked for once, at the start of the service.  MyFuel may have
\* none; without an answer the integration is skipped.
LoadCredentials ==
  /\ address = "unknown"
  /\ address' \in {"known", "none", "skipped"}
  /\ UNCHANGED <<action, myfuelVars, pdiVars, pc, batch, handed, sent, failures, ticks>>

\* MyFuel hands out its open orders, in an order of its choice - none of them,
\* or an answer that cannot be read, or no answer, which end the tick.
PullOrders ==
  /\ address \in {"known", "none"}
  /\ pc = "idle"
  /\ ticks < MaxTicks
  /\ ticks' = ticks + 1
  /\ sent' = <<>>
  /\ \/ /\ open # {}
        /\ handed' \in SetToSeqs(open)
        /\ batch' = handed'
        /\ pc' = "send"
     \/ handed' = <<>> /\ UNCHANGED <<batch, pc>>
  /\ UNCHANGED <<address, action, myfuelVars, pdiVars, failures>>

\* The action is looked for before the try: the exception ends the tick, and with
\* it what follows this order.
Unreadable ==
  /\ pc = "send"
  /\ action[item] = "Unreadable"
  /\ pc' = "idle"
  /\ batch' = <<>>
  /\ UNCHANGED <<address, action, myfuelVars, pdiVars, handed, sent, failures, ticks>>

\* PDI took the order and answered with its numbers.
PdiTakes ==
  /\ Sending
  /\ sent' = Append(sent, item)
  /\ Execute(item)
  /\ IF action[item] \in Told THEN pc' = "tell" /\ UNCHANGED batch ELSE NextItem
  /\ UNCHANGED <<address, action, myfuelVars, late, handed, failures, ticks>>

\* ... or answered without them - an HTTP 500 is such an answer, and does not say
\* whether the order was executed: MyFuel is not told.
PdiTakesWithoutNumber ==
  /\ Sending
  /\ sent' = Append(sent, item)
  /\ Execute(item) \/ UNCHANGED executed
  /\ Fails(item)
  /\ NextItem
  /\ UNCHANGED <<address, action, myfuelVars, late, handed, ticks>>

\* Mutation of PdiRefuses: the answer's Result is not looked at.
PdiRefuses_TellsAnyway ==
  /\ Sending
  /\ sent' = Append(sent, item)
  /\ IF action[item] \in Told THEN pc' = "tell" /\ UNCHANGED batch ELSE NextItem
  /\ UNCHANGED <<address, action, myfuelVars, pdiVars, handed, failures, ticks>>

\* <Result>2</Result>, or HTTP 400.
PdiRefuses ==
  /\ Sending
  /\ sent' = Append(sent, item)
  /\ NextItem
  /\ UNCHANGED <<address, action, myfuelVars, pdiVars, handed, failures, ticks>>

\* Mutation of SendFails: the exception ends the tick.
SendFails_EndsTick ==
  /\ Sending
  /\ sent' = Append(sent, item)
  /\ \/ Execute(item) /\ UNCHANGED late
     \/ late' = [late EXCEPT ![item] = @ + 1] /\ UNCHANGED executed
     \/ UNCHANGED pdiVars
  /\ Fails(item)
  /\ batch' = <<>> /\ pc' = "idle"
  /\ UNCHANGED <<address, action, myfuelVars, handed, ticks>>

\* The POST to PDI raises: PDI executed the order, or will once it gets to it,
\* or never saw it.  The exception ends this order, not the batch.
SendFails ==
  /\ Sending
  /\ sent' = Append(sent, item)
  /\ \/ Execute(item) /\ UNCHANGED late
     \/ late' = [late EXCEPT ![item] = @ + 1] /\ UNCHANGED executed
     \/ UNCHANGED pdiVars
  /\ Fails(item)
  /\ NextItem
  /\ UNCHANGED <<address, action, myfuelVars, handed, ticks>>

\* There is no address to send to, which is an exception like another; nothing is sent.
NoAddress ==
  /\ pc = "send"
  /\ action[item] # "Unreadable"
  /\ address = "none"
  /\ Fails(item)
  /\ NextItem
  /\ UNCHANGED <<address, action, myfuelVars, pdiVars, handed, sent, ticks>>

\* Mutation of TellMyFuel: only a new order is told, an update is not.
TellMyFuel_OnlyAdds ==
  /\ pc = "tell"
  /\ IF action[item] = "AddFuelOrder"
     THEN known' = known \cup {item} /\ open' = open \ {item}
     ELSE UNCHANGED myfuelVars
  /\ NextItem
  /\ UNCHANGED <<address, action, pdiVars, handed, sent, failures, ticks>>

\* MyFuel records the number of a new order, or the state of a changed one.
TellMyFuel ==
  /\ pc = "tell"
  /\ known' = known \cup {item}
  /\ open' = open \ {item}
  /\ NextItem
  /\ UNCHANGED <<address, action, pdiVars, handed, sent, failures, ticks>>

\* The POST raises, or is answered with an error, which nothing looks at.
TellFails ==
  /\ pc = "tell"
  /\ \/ known' = known \cup {item} /\ open' = open \ {item}
     \/ UNCHANGED myfuelVars
  /\ Fails(item)
  /\ NextItem
  /\ UNCHANGED <<address, action, pdiVars, handed, sent, ticks>>

-----------------------------------------------------------------------------
(* Around it                                                               *)

\* PDI gets to an order whose POST has timed out.
ExecuteLate(o) ==
  /\ late[o] > 0
  /\ late' = [late EXCEPT ![o] = @ - 1]
  /\ Execute(o)
  /\ UNCHANGED <<address, action, myfuelVars, pc, batch, handed, sent, failures, ticks>>

\* MyFuel does not wait to be told of an order it is not told about.
Forget(o) ==
  /\ action[o] \notin Told
  /\ o \in open
  /\ open' = open \ {o}
  /\ UNCHANGED <<address, action, known, pdiVars, pc, batch, handed, sent, failures, ticks>>

\* The service dies and is started again.  In the middle of a tick the order at
\* hand may be in PDI already.
Crash ==
  /\ address # "unknown"
  /\ address' = "unknown"
  /\ IF pc = "idle" THEN UNCHANGED failures ELSE Fails(item)
  /\ pc' = "idle"
  /\ batch' = <<>>
  /\ handed' = <<>> /\ sent' = <<>>
  /\ UNCHANGED <<action, myfuelVars, pdiVars, ticks>>

-----------------------------------------------------------------------------

OrderStep ==
  \/ LoadCredentials
  \/ PullOrders \/ Unreadable \/ PdiTakes \/ PdiTakesWithoutNumber \/ PdiRefuses \/ SendFails
  \/ NoAddress \/ TellMyFuel \/ TellFails
  \/ \E o \in Orders : ExecuteLate(o) \/ Forget(o)

Next == OrderStep \/ Crash

Spec == Init /\ [][Next]_vars

-----------------------------------------------------------------------------
(* Properties                                                              *)

\* What goes wrong with one order does not cost another its turn, unless it is
\* unreadable: a tick that ran to its end posted what it was handed, up to the first of
\* those, in that order - and nothing as long as PDI's address is not known
\* (pdi/__init__.py:125-151).
EveryOrderIsTried ==
  pc = "idle" =>
    \E n \in 0 .. Len(handed) :
      /\ sent = IF address = "known" THEN SubSeq(handed, 1, n) ELSE <<>>
      /\ n < Len(handed) => action[handed[n + 1]] = "Unreadable"

\* Each repetition of an order in PDI costs a failure: with none, what MyFuel is
\* told about is executed once, over any number of ticks (pdi/__init__.py:144-145).
RepeatsOnlyAfterFailure ==
  \A o \in Orders :
    action[o] \in Told => executed[o] + late[o] <= failures[o] + 1

\* MyFuel is told only of what PDI has executed (pdi/__init__.py:136-145, 163).
KnownMeansExecuted == \A o \in known : executed[o] > 0

=============================================================================
