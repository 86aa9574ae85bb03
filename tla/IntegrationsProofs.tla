------------------------- MODULE IntegrationsProofs -------------------------
(***************************************************************************)
(* Proofs about Feeds, for any tasks and any number of their ticks; about  *)
(* PdiOrders, for any finite set of orders of any kind and any number of   *)
(* ticks; and about Integrations, which has what its parts have.           *)
(***************************************************************************)
EXTENDS Integrations, TLAPS, FiniteSetTheorems, SequenceTheorems

-----------------------------------------------------------------------------
(* Feeds                                                                   *)

\* What is on its way to MyFuel behind a task's back is known to have gone wrong,
\* and is a document the task may push.
DelayedKnown(f) ==
  \A d \in delayed[f] :
    /\ d.tick \in Known(f)
    /\ d.tick <= tick[f]
    /\ f \in SkipsEmpty => d.full

\* A task of SmartTank pushes nothing that is empty, and nothing that is empty is there.
NothingEmpty(f) ==
  f \in SkipsEmpty => copy[f].full /\ (at[f] = "push" => data[f].full)

TickQuiet(f) ==
  at[f] = "idle" /\ tick[f] > 0 /\ tick[f] \notin Known(f) \cup skipped[f] =>
    copy[f].tick \in {tick[f]} \cup Known(f)

FInv(f) ==
  /\ DelayedKnown(f) /\ NothingEmpty(f) /\ TickQuiet(f)
  /\ regress[f] \subseteq Known(f)

FeedInv == FeedTypeOK /\ \A f \in Feed : FInv(f)

\* A step leaves alone what another task has.
Same(g) ==
  /\ at'[g] = at[g] /\ tick'[g] = tick[g] /\ data'[g] = data[g] /\ copy'[g] = copy[g]
  /\ delayed'[g] = delayed[g] /\ alarmed'[g] = alarmed[g] /\ cut'[g] = cut[g]
  /\ skipped'[g] = skipped[g] /\ regress'[g] = regress[g]

-----------------------------------------------------------------------------

LEMMA SameKeeps ==
  ASSUME NEW g \in Feed, FInv(g), Same(g)
  PROVE  FInv(g)'
BY DEF FInv, DelayedKnown, NothingEmpty, TickQuiet, Known, Same

\* A step of one task is no other's.
LEMMA StepAlone ==
  ASSUME FeedTypeOK, NEW f \in Feed, BeginTick(f) \/ TickGoesOn(f),
         NEW g \in Feed, g # f
  PROVE  Same(g)
<1>1. CASE BeginTick(f)
  BY <1>1 DEF FeedTypeOK, BeginTick, Same, reportVars
<1>2. CASE FetchReturns(f)
  BY <1>2 DEF FeedTypeOK, FetchReturns, GoesOn, Same
<1>3. CASE FetchFails(f)
  BY <1>3 DEF FeedTypeOK, FetchFails, GoesOn, Alarm, Same
<1>4. CASE PushReturns(f)
  BY <1>4 DEF FeedTypeOK, PushReturns, Apply, reportVars, Same
<1>5. CASE PushFails(f)
  BY <1>5 DEF FeedTypeOK, PushFails, Alarm, Same
<1>6. CASE ApplyDelayed(f)
  BY <1>6 DEF FeedTypeOK, ApplyDelayed, Apply, taskVars, reportVars, Same
<1> QED  BY <1>1, <1>2, <1>3, <1>4, <1>5, <1>6 DEF TickGoesOn

LEMMA InitFeedInv == FeedInit => FeedInv
BY DEF FeedInit, FeedInv, FeedTypeOK, FInv, DelayedKnown, NothingEmpty, TickQuiet, Known, Documents

-----------------------------------------------------------------------------
(* The steps, one lemma each                                               *)

LEMMA BeginTickInv ==
  ASSUME FeedTypeOK, NEW f \in Feed, FInv(f), BeginTick(f)
  PROVE  FeedTypeOK' /\ FInv(f)'
<1>1. FeedTypeOK'
  BY DEF FeedTypeOK, BeginTick, reportVars, Documents
<1>2. FInv(f)'
  BY DEF FeedTypeOK, BeginTick, reportVars, FInv, DelayedKnown, NothingEmpty, TickQuiet, Known, Documents
<1> QED  BY <1>1, <1>2

LEMMA FetchReturnsInv ==
  ASSUME FeedTypeOK, NEW f \in Feed, FInv(f), FetchReturns(f)
  PROVE  FeedTypeOK' /\ FInv(f)'
<1>1. PICK full \in BOOLEAN :
        /\ data' = [data EXCEPT ![f] = [tick |-> tick[f], full |-> full]]
        /\ GoesOn(f, [tick |-> tick[f], full |-> full])
  BY DEF FetchReturns
<1>2. FeedTypeOK'
  <2>1. data' \in [Feed -> Documents] /\ \A g \in Feed : at'[g] = "push" => data'[g].tick = tick'[g]
    BY <1>1 DEF FeedTypeOK, FetchReturns, GoesOn, Documents
  <2>2. /\ at' \in [Feed -> {"idle", "fetch", "push"}]
        /\ alarmed' \in [Feed -> SUBSET Nat] /\ skipped' \in [Feed -> SUBSET Nat]
    BY <1>1 DEF FeedTypeOK, FetchReturns, GoesOn
  <2> QED  BY <2>1, <2>2 DEF FeedTypeOK, FetchReturns
<1>3. FInv(f)'
  BY <1>1 DEF FeedTypeOK, FetchReturns, GoesOn, FInv, DelayedKnown, NothingEmpty, TickQuiet, Known, Documents
<1> QED  BY <1>2, <1>3

LEMMA FetchFailsInv ==
  ASSUME FeedTypeOK, NEW f \in Feed, FInv(f), FetchFails(f)
  PROVE  FeedTypeOK' /\ FInv(f)'
<1>1. FeedTypeOK'
  <2>1. data' \in [Feed -> Documents] /\ \A g \in Feed : at'[g] = "push" => data'[g].tick = tick'[g]
    BY DEF FeedTypeOK, FetchFails, GoesOn, Alarm, Documents
  <2>2. /\ at' \in [Feed -> {"idle", "fetch", "push"}]
        /\ alarmed' \in [Feed -> SUBSET Nat] /\ skipped' \in [Feed -> SUBSET Nat]
    BY DEF FeedTypeOK, FetchFails, GoesOn, Alarm
  <2> QED  BY <2>1, <2>2 DEF FeedTypeOK, FetchFails
<1>2. FInv(f)'
  BY DEF FeedTypeOK, FetchFails, GoesOn, Alarm, FInv, DelayedKnown, NothingEmpty, TickQuiet, Known, Documents
<1> QED  BY <1>1, <1>2

LEMMA PushReturnsInv ==
  ASSUME FeedTypeOK, NEW f \in Feed, FInv(f), PushReturns(f)
  PROVE  FeedTypeOK' /\ FInv(f)'
<1>1. FeedTypeOK'
  BY DEF FeedTypeOK, PushReturns, Apply, reportVars, Documents
<1>2. FInv(f)'
  BY DEF FeedTypeOK, PushReturns, Apply, reportVars, FInv, DelayedKnown, NothingEmpty, TickQuiet, Known, Documents
<1> QED  BY <1>1, <1>2

LEMMA PushFailsInv ==
  ASSUME FeedTypeOK, NEW f \in Feed, FInv(f), PushFails(f)
  PROVE  FeedTypeOK' /\ FInv(f)'
<1>1. FeedTypeOK'
  BY DEF FeedTypeOK, PushFails, Alarm
<1>2. FInv(f)'
  BY DEF FeedTypeOK, PushFails, Alarm, FInv, DelayedKnown, NothingEmpty, TickQuiet, Known, Documents
<1> QED  BY <1>1, <1>2

LEMMA ApplyDelayedInv ==
  ASSUME FeedTypeOK, NEW f \in Feed, FInv(f), ApplyDelayed(f)
  PROVE  FeedTypeOK' /\ FInv(f)'
<1>1. PICK d \in delayed[f] : Apply(f, d) /\ delayed' = [delayed EXCEPT ![f] = @ \ {d}]
  BY DEF ApplyDelayed
<1>2. d \in Documents /\ d.tick \in Known(f) /\ d.tick <= tick[f] /\ (f \in SkipsEmpty => d.full)
  BY <1>1 DEF FeedTypeOK, FInv, DelayedKnown
<1>3. FeedTypeOK'
  BY <1>1, <1>2 DEF FeedTypeOK, ApplyDelayed, Apply, taskVars, reportVars, Documents
<1>4. FInv(f)'
  BY <1>1, <1>2 DEF FeedTypeOK, ApplyDelayed, Apply, taskVars, reportVars, FInv, DelayedKnown,
                    NothingEmpty, TickQuiet, Known
<1> QED  BY <1>3, <1>4

LEMMA FeedCrashInv ==
  ASSUME FeedInv, FeedCrash
  PROVE  FeedInv'
<1>1. PICK S \in SUBSET {f \in Feed : at[f] = "push"} :
        delayed' = [f \in Feed |-> IF f \in S THEN delayed[f] \cup {data[f]} ELSE delayed[f]]
  BY DEF FeedCrash
<1>2. FeedTypeOK'
  BY <1>1 DEF FeedInv, FeedTypeOK, FeedCrash
<1>3. ASSUME NEW f \in Feed
      PROVE  FInv(f)'
  BY <1>1 DEF FeedInv, FeedTypeOK, FeedCrash, FInv, DelayedKnown, NothingEmpty, TickQuiet, Known, Documents
<1> QED  BY <1>2, <1>3 DEF FeedInv

LEMMA NextFeedInv == FeedInv /\ [FeedNext]_feedVars => FeedInv'
<1> SUFFICES ASSUME FeedInv, [FeedNext]_feedVars
             PROVE  FeedInv'
  OBVIOUS
<1>1. CASE FeedCrash
  BY <1>1, FeedCrashInv
<1>2. ASSUME NEW f \in Feed, BeginTick(f) \/ TickGoesOn(f)
      PROVE  FeedInv'
  <2>1. FeedTypeOK' /\ FInv(f)'
    BY <1>2, BeginTickInv, FetchReturnsInv, FetchFailsInv, PushReturnsInv, PushFailsInv, ApplyDelayedInv
       DEF FeedInv, TickGoesOn
  <2>2. ASSUME NEW g \in Feed, g # f
        PROVE  FInv(g)'
    BY <1>2, <2>2, StepAlone, SameKeeps DEF FeedInv
  <2> QED  BY <2>1, <2>2 DEF FeedInv
<1>3. CASE UNCHANGED feedVars
  <2>1. FeedTypeOK'
    BY <1>3 DEF FeedInv, FeedTypeOK, feedVars, taskVars, reportVars
  <2>2. ASSUME NEW g \in Feed
        PROVE  Same(g)
    BY <1>3 DEF feedVars, taskVars, reportVars, Same
  <2> QED  BY <2>1, <2>2, SameKeeps DEF FeedInv
<1> QED  BY <1>1, <1>2, <1>3 DEF FeedNext

-----------------------------------------------------------------------------
(* Theorems                                                                *)

\* The inductive invariant of the tasks (smarttank/__init__.py:45-83, pdi/__init__.py:73-105).
THEOREM FeedsInvariant == FeedSpec => []FeedInv
BY InitFeedInv, NextFeedInv, PTL DEF FeedSpec

\* Every reachable state is well typed.
THEOREM FeedsTypeOK == FeedSpec => []FeedTypeOK
<1>1. FeedInv => FeedTypeOK
  BY DEF FeedInv
<1> QED  BY <1>1, FeedsInvariant, PTL

\* MyFuel's copy of a document goes back only by a push known to have failed
\* (smarttank/__init__.py:80-83, pdi/__init__.py:102-105).
THEOREM FeedsOlderOnlyAfterFailure == FeedSpec => []OlderOnlyAfterFailure
<1>1. FeedInv => OlderOnlyAfterFailure
  BY DEF FeedInv, FInv, OlderOnlyAfterFailure
<1> QED  BY <1>1, FeedsInvariant, PTL

\* SmartTank's tasks never empty MyFuel's copy (smarttank/__init__.py:69-71).
THEOREM FeedsNeverEmptied == FeedSpec => []NeverEmptied
<1>1. FeedInv => NeverEmptied
  BY FeedAssumption DEF FeedInv, FInv, NothingEmpty, NeverEmptied
<1> QED  BY <1>1, FeedsInvariant, PTL

\* A tick without an alarm that pushed has delivered (smarttank/__init__.py:57-83,
\* pdi/__init__.py:79-105).
THEOREM FeedsQuietTickIsDelivered == FeedSpec => []QuietTickIsDelivered
<1>1. FeedInv => QuietTickIsDelivered
  BY DEF FeedInv, FInv, TickQuiet, QuietTickIsDelivered
<1> QED  BY <1>1, FeedsInvariant, PTL

-----------------------------------------------------------------------------
(* PdiOrders                                                               *)

\* No order is twice in a batch, and MyFuel has not been told of those it still has
\* to be told of.
Batched ==
  pc # "idle" =>
    /\ \A i, j \in 1 .. Len(batch) : i # j => batch[i] # batch[j]
    /\ \A i \in 1 .. Len(batch) : action[batch[i]] \in Told => batch[i] \in open

AtHand(o) == pc = "tell" /\ o = Head(batch)

\* What MyFuel waits for has not been executed without a failure, unless it is just
\* being told.
Bounded(o) ==
  action[o] \in Told =>
    /\ executed[o] + late[o] <= failures[o] + 1
    /\ o \in open /\ ~AtHand(o) => executed[o] + late[o] <= failures[o]

TellsTruth ==
  /\ KnownMeansExecuted
  /\ pc = "tell" => executed[Head(batch)] > 0 /\ action[Head(batch)] \in Told

\* What has been sent, and what is left to send, of what MyFuel handed out.
InTurn ==
  LET n == IF pc = "tell" THEN Len(sent) - 1 ELSE Len(sent)
  IN  /\ Len(sent) <= Len(handed)
      /\ \A i \in 1 .. Len(sent) : sent[i] = handed[i]
      /\ pc = "tell" => Len(sent) > 0
      /\ pc # "idle" =>
           /\ Len(batch) = Len(handed) - n
           /\ \A i \in 1 .. Len(batch) : batch[i] = handed[n + i]
      /\ pc = "idle" /\ Len(sent) < Len(handed) => action[handed[Len(sent) + 1]] = "Unreadable"

\* Without an address nothing is sent.
InOrder ==
  IF address = "known" THEN InTurn
  ELSE /\ sent = <<>> /\ pc # "tell"
       /\ address \in {"unknown", "skipped"} => pc = "idle" /\ handed = <<>>

OrderInv == TypeOK /\ Batched /\ (\A o \in Orders : Bounded(o)) /\ TellsTruth /\ InOrder

-----------------------------------------------------------------------------
(* Lemmas about the batch                                                  *)

LEMMA HandedOut ==
  ASSUME NEW S \in SUBSET Orders, S # {}, NEW s \in SetToSeqs(S)
  PROVE  /\ s \in Seq(Orders) /\ s # <<>>
         /\ \A i \in 1 .. Len(s) : s[i] \in S
         /\ \A i, j \in 1 .. Len(s) : i # j => s[i] # s[j]
<1>1. IsFiniteSet(S) /\ Cardinality(S) \in Nat /\ Cardinality(S) # 0
  BY OrdersAssumption, FS_Subset, FS_CardinalityType, FS_EmptySet
<1>2. s \in [1 .. Cardinality(S) -> S]
      /\ \A i, j \in 1 .. Cardinality(S) : i # j => s[i] # s[j]
  BY DEF SetToSeqs
<1>3. s \in Seq(S) /\ Len(s) = Cardinality(S)
  BY <1>1, <1>2, SeqDef
<1> QED  BY <1>1, <1>2, <1>3, EmptySeq, SeqDef

\* The rest of a batch.
LEMMA Rest ==
  ASSUME TypeOK, pc # "idle"
  PROVE  /\ Tail(batch) \in Seq(Orders) /\ Len(batch) \in Nat \ {0}
         /\ Len(Tail(batch)) = Len(batch) - 1
         /\ \A i \in 1 .. Len(batch) - 1 : Tail(batch)[i] = batch[i + 1]
         /\ Head(batch) = batch[1] /\ Head(batch) \in Orders
         /\ Len(batch) = 1 <=> Tail(batch) = <<>>
<1>1. batch \in Seq(Orders) /\ batch # <<>>
  BY DEF TypeOK
<1>2. Len(batch) \in Nat \ {0}
  BY <1>1, EmptySeq
<1>3. /\ Head(batch) \in Orders /\ Tail(batch) \in Seq(Orders)
      /\ Len(Tail(batch)) = Len(batch) - 1
      /\ \A i \in 1 .. Len(Tail(batch)) : Tail(batch)[i] = batch[i + 1]
  BY <1>1, HeadTailProperties
<1>4. Len(batch) = 1 <=> Tail(batch) = <<>>
  BY <1>2, <1>3, EmptySeq
<1>5. Head(batch) = batch[1]
  BY <1>1, <1>2
<1> QED  BY <1>2, <1>3, <1>4, <1>5

\* What is sent is the order at hand.
LEMMA Sent ==
  ASSUME TypeOK, pc # "idle"
  PROVE  /\ Append(sent, Head(batch)) \in Seq(Orders)
         /\ Len(Append(sent, Head(batch))) = Len(sent) + 1 /\ Len(sent) \in Nat
         /\ \A i \in 1 .. Len(sent) : Append(sent, Head(batch))[i] = sent[i]
         /\ Append(sent, Head(batch))[Len(sent) + 1] = Head(batch)
BY Rest DEF TypeOK

\* The state of the task after an order has been dealt with: the next one, or none,
\* is at hand.
LEMMA NextItemBatched ==
  ASSUME TypeOK, Batched, pc # "idle", NextItem,
         \A o \in Orders : o \in open /\ o \notin open' => o = Head(batch) \/ action[o] \notin Told,
         action' = action
  PROVE  /\ Batched'
         /\ batch' \in Seq(Orders) /\ pc' \in {"idle", "send"}
         /\ (pc' # "idle" => batch' # <<>>)
<1>1. batch' = Tail(batch) /\ pc' = IF Len(batch) = 1 THEN "idle" ELSE "send"
  BY DEF NextItem
<1>2. batch' \in Seq(Orders) /\ pc' \in {"idle", "send"} /\ (pc' # "idle" => batch' # <<>>)
  BY <1>1, Rest
<1>3. ASSUME NEW i \in 1 .. Len(batch'), NEW j \in 1 .. Len(batch'), i # j
      PROVE  batch'[i] # batch'[j]
  BY <1>1, <1>3, Rest DEF Batched
<1>4. ASSUME NEW i \in 1 .. Len(batch'), action[batch'[i]] \in Told
      PROVE  batch'[i] \in open'
  <2>1. /\ batch'[i] = batch[i + 1] /\ i + 1 \in 1 .. Len(batch) /\ 1 \in 1 .. Len(batch)
        /\ i + 1 # 1
    BY <1>1, Rest
  <2>2. batch'[i] \in open /\ batch'[i] # Head(batch)
    BY <1>4, <2>1, Rest DEF Batched
  <2> QED  BY <1>4, <2>2 DEF TypeOK
<1> QED  BY <1>2, <1>3, <1>4 DEF Batched

\* ... and where it is in what MyFuel handed out.
LEMMA NextItemInTurn ==
  ASSUME TypeOK, InTurn, pc # "idle", NextItem, handed' = handed, action' = action,
         sent' = IF pc = "send" THEN Append(sent, Head(batch)) ELSE sent
  PROVE  InTurn'
<1> DEFINE n == IF pc = "tell" THEN Len(sent) - 1 ELSE Len(sent)
<1>1. /\ batch' = Tail(batch) /\ pc' = IF Len(batch) = 1 THEN "idle" ELSE "send"
  BY DEF NextItem
<1>2. /\ Len(batch) = Len(handed) - n /\ \A i \in 1 .. Len(batch) : batch[i] = handed[n + i]
      /\ Len(sent) <= Len(handed) /\ \A i \in 1 .. Len(sent) : sent[i] = handed[i]
      /\ Len(sent) \in Nat /\ Len(handed) \in Nat /\ n \in Nat
  BY Sent, EmptySeq DEF InTurn, TypeOK
<1>3. Len(sent') = n + 1 /\ Len(sent') <= Len(handed)
  <2>1. Len(batch) \in Nat \ {0}
    BY Rest
  <2>2. CASE pc = "send"
    BY <1>2, <2>1, <2>2, Sent
  <2>3. CASE pc = "tell"
    BY <1>2, <2>1, <2>3
  <2> QED  BY <2>2, <2>3 DEF TypeOK
<1>4. ASSUME NEW i \in 1 .. Len(sent')
      PROVE  sent'[i] = handed[i]
  <2>1. CASE pc = "send"
    <3>1. CASE i <= Len(sent)
      BY <1>2, <2>1, <3>1, Sent
    <3>2. CASE i = Len(sent) + 1
      BY <1>2, <2>1, <3>2, Sent, Rest
    <3> QED  BY <1>2, <1>3, <2>1, <3>1, <3>2
  <2>2. CASE pc = "tell"
    BY <1>2, <2>2
  <2> QED  BY <2>1, <2>2 DEF TypeOK
<1>5. /\ Len(batch') = Len(handed) - (n + 1)
      /\ \A i \in 1 .. Len(batch') : batch'[i] = handed[n + 1 + i]
  BY <1>1, <1>2, Rest
<1>6. pc' = "idle" => Len(sent') = Len(handed)
  BY <1>1, <1>2, <1>3
<1>7. pc' \in {"idle", "send"} /\ Len(sent') > 0
  BY <1>1, <1>2, <1>3
<1>8. pc' # "tell" /\ n + 1 = Len(sent') /\ Len(handed) = Len(handed') /\ Len(sent') \in Nat
  BY <1>2, <1>3, <1>7
<1>9. /\ Len(batch') = Len(handed') - Len(sent')
      /\ \A i \in 1 .. Len(batch') : batch'[i] = handed'[Len(sent') + i]
  BY <1>5, <1>8
<1>10. Len(sent') <= Len(handed') /\ \A i \in 1 .. Len(sent') : sent'[i] = handed'[i]
  BY <1>3, <1>4, <1>8
<1>11. ~(pc' = "idle" /\ Len(sent') < Len(handed'))
  BY <1>2, <1>6, <1>8
<1> HIDE DEF n
<1> QED  BY <1>8, <1>9, <1>10, <1>11 DEF InTurn

\* Numbers are numbers.
LEMMA OrderTypes ==
  ASSUME TypeOK
  PROVE  /\ executed \in [Orders -> Nat] /\ late \in [Orders -> Nat] /\ failures \in [Orders -> Nat]
         /\ known \subseteq Orders /\ open \subseteq Orders
         /\ \A o \in Orders : executed[o] \in Nat /\ late[o] \in Nat /\ failures[o] \in Nat
BY DEF TypeOK

\* A call that may have executed an order once more, and is counted as a failure.
LEMMA StillBounded ==
  ASSUME TypeOK, NEW o \in Orders, Bounded(o), ~AtHand(o), ~AtHand(o)', action' = action, open' = open,
         executed'[o] \in Nat, late'[o] \in Nat, failures'[o] \in Nat,
         executed'[o] + late'[o] + failures[o] <= executed[o] + late[o] + failures'[o]
  PROVE  Bounded(o)'
<1>1. \A e, l, f, ee, ll, ff \in Nat :
        ee + ll + f <= e + l + ff =>
          /\ e + l <= f + 1 => ee + ll <= ff + 1
          /\ e + l <= f => ee + ll <= ff
  OBVIOUS
<1>2. /\ executed[o] + late[o] <= failures[o] + 1 => executed'[o] + late'[o] <= failures'[o] + 1
      /\ executed[o] + late[o] <= failures[o] => executed'[o] + late'[o] <= failures'[o]
  BY <1>1, OrderTypes
<1> QED  BY <1>2 DEF Bounded

-----------------------------------------------------------------------------
(* The steps, one lemma each                                               *)

LEMMA InitOrderInv == Init => OrderInv
<1> SUFFICES ASSUME Init PROVE OrderInv
  OBVIOUS
<1>1. TypeOK
  BY EmptySeq, OrdersAssumption DEF Init, TypeOK
<1>2. Batched /\ TellsTruth /\ \A o \in Orders : Bounded(o)
  BY DEF Init, Batched, TellsTruth, KnownMeansExecuted, Bounded
<1>3. InOrder
  BY EmptySeq DEF Init, InOrder, InTurn
<1> QED  BY <1>1, <1>2, <1>3 DEF OrderInv

LEMMA PullOrdersInv == OrderInv /\ PullOrders => OrderInv'
<1> SUFFICES ASSUME OrderInv, PullOrders PROVE OrderInv'
  OBVIOUS
<1> USE DEF OrderInv
<1>1. CASE open # {} /\ handed' \in SetToSeqs(open) /\ batch' = handed' /\ pc' = "send"
  <2>1. /\ handed' \in Seq(Orders) /\ handed' # <<>>
        /\ \A i \in 1 .. Len(handed') : handed'[i] \in open
        /\ \A i, j \in 1 .. Len(handed') : i # j => handed'[i] # handed'[j]
    BY <1>1, HandedOut DEF TypeOK
  <2>2. TypeOK'
    <3>1. ticks' \in 0 .. MaxTicks
      BY OrdersAssumption DEF PullOrders, TypeOK
    <3>2. sent' \in Seq(Orders) /\ batch' \in Seq(Orders) /\ batch' # <<>>
      BY <1>1, <2>1, EmptySeq DEF PullOrders
    <3> HIDE DEF OrderInv
    <3> QED  BY <1>1, <2>1, <3>1, <3>2 DEF OrderInv, PullOrders, TypeOK, myfuelVars, pdiVars
  <2>3. Batched'
    BY <1>1, <2>1 DEF PullOrders, Batched, myfuelVars
  <2>4. TellsTruth' /\ \A o \in Orders : Bounded(o)'
    BY <1>1 DEF PullOrders, TypeOK, TellsTruth, KnownMeansExecuted, Bounded, AtHand, myfuelVars, pdiVars
  <2>5. InOrder'
    BY <1>1, <2>1, EmptySeq DEF PullOrders, InOrder, InTurn
  <2> QED  BY <2>2, <2>3, <2>4, <2>5
<1>2. CASE handed' = <<>> /\ UNCHANGED <<batch, pc>>
  <2>1. TypeOK'
    BY <1>2, EmptySeq, OrdersAssumption DEF PullOrders, TypeOK, myfuelVars, pdiVars
  <2>2. Batched' /\ TellsTruth' /\ \A o \in Orders : Bounded(o)'
    BY <1>2 DEF PullOrders, TypeOK, Batched, TellsTruth, KnownMeansExecuted, Bounded, AtHand, myfuelVars, pdiVars
  <2>3. InOrder'
    BY <1>2, EmptySeq DEF PullOrders, InOrder, InTurn
  <2> QED  BY <2>1, <2>2, <2>3
<1> QED  BY <1>1, <1>2 DEF PullOrders

LEMMA UnreadableInv == OrderInv /\ Unreadable => OrderInv'
<1> SUFFICES ASSUME OrderInv, Unreadable PROVE OrderInv'
  OBVIOUS
<1> USE DEF OrderInv
<1>1. TypeOK'
  BY EmptySeq DEF Unreadable, TypeOK, myfuelVars, pdiVars
<1>2. Batched' /\ TellsTruth' /\ \A o \in Orders : Bounded(o)'
  BY DEF Unreadable, Batched, TellsTruth, KnownMeansExecuted, Bounded, AtHand, myfuelVars, pdiVars
<1>3. InOrder'
  <2>1. CASE address = "known"
    <3>1. Len(sent) \in Nat /\ Len(handed) \in Nat /\ Len(batch) \in Nat \ {0}
      BY Rest, EmptySeq DEF Unreadable, TypeOK
    <3>2. batch[1] = handed[Len(sent) + 1] /\ Head(batch) = batch[1]
      BY <2>1, <3>1, Rest DEF Unreadable, InOrder, InTurn
    <3> QED  BY <2>1, <3>1, <3>2 DEF Unreadable, InOrder, InTurn, item
  <2>2. CASE address # "known"
    BY <2>2 DEF Unreadable, InOrder
  <2> QED  BY <2>1, <2>2
<1> QED  BY <1>1, <1>2, <1>3

LEMMA PdiTakesInv == OrderInv /\ PdiTakes => OrderInv'
<1> SUFFICES ASSUME OrderInv, PdiTakes PROVE OrderInv'
  OBVIOUS
<1> USE DEF OrderInv
<1>1. /\ pc = "send" /\ action' = action /\ handed' = handed /\ open' = open /\ known' = known
      /\ sent' = Append(sent, Head(batch)) /\ address' = address /\ ticks' = ticks /\ Head(batch) \in Orders
      /\ late' = late /\ failures' = failures
      /\ executed' = [executed EXCEPT ![Head(batch)] = @ + 1]
      /\ address = "known"
  BY Rest DEF PdiTakes, Sending, Execute, item, myfuelVars
<1>2. executed' \in [Orders -> Nat] /\ \A o \in Orders : executed'[o] >= executed[o]
  BY <1>1, OrderTypes
<1>3. sent' \in Seq(Orders) /\ Len(sent') = Len(sent) + 1 /\ Len(batch) \in Nat \ {0}
  BY <1>1, Sent, Rest
<1>4. CASE action[Head(batch)] \in Told
  <2>1. pc' = "tell" /\ batch' = batch
    BY <1>4 DEF PdiTakes, item
  <2>2. TypeOK' /\ Batched'
    BY <1>1, <1>2, <1>3, <2>1 DEF TypeOK, Batched
  <2>3. ASSUME NEW o \in Orders PROVE Bounded(o)'
    <3>1. Head(batch) \in open
      BY <1>1, <1>3, <1>4, Rest DEF Batched
    <3>2. CASE o = Head(batch)
      BY <1>1, <1>2, <2>1, <3>1, <3>2, OrderTypes DEF Bounded, AtHand
    <3>3. CASE o # Head(batch)
      BY <1>1, <1>2, <2>1, <3>3, OrderTypes DEF Bounded, AtHand
    <3> QED  BY <3>2, <3>3
  <2>4. TellsTruth'
    <3>1. executed'[Head(batch)] > 0
      BY <1>1, OrderTypes
    <3>2. ASSUME NEW o \in known PROVE executed'[o] > 0
      BY <1>2, OrderTypes DEF TellsTruth, KnownMeansExecuted
    <3> QED  BY <1>1, <1>4, <2>1, <3>1, <3>2 DEF TellsTruth, KnownMeansExecuted
  <2>5. InOrder'
    <3>1. Len(sent) \in Nat /\ Len(handed) \in Nat
      BY EmptySeq DEF TypeOK
    <3>2. /\ Len(batch) = Len(handed) - Len(sent)
          /\ \A i \in 1 .. Len(batch) : batch[i] = handed[Len(sent) + i]
          /\ \A i \in 1 .. Len(sent) : sent[i] = handed[i]
      BY <1>1 DEF InOrder, InTurn
    <3>3. \A i \in 1 .. Len(sent') : sent'[i] = handed'[i]
      BY <1>1, <1>3, <3>1, <3>2, Sent, Rest
    <3>4. Len(sent') - 1 = Len(sent) /\ Len(sent') <= Len(handed')
      BY <1>1, <1>3, <3>1, <3>2
    <3> QED  BY <1>1, <1>3, <2>1, <3>1, <3>2, <3>3, <3>4 DEF InOrder, InTurn
  <2> QED  BY <2>2, <2>3, <2>4, <2>5
<1>5. CASE action[Head(batch)] \notin Told
  <2>1. NextItem /\ pc' \in {"idle", "send"}
    BY <1>5 DEF PdiTakes, NextItem, item
  <2>2. Batched' /\ TypeOK'
    BY <1>1, <1>2, <1>3, <2>1, NextItemBatched DEF TypeOK
  <2>3. InOrder'
    BY <1>1, <2>1, NextItemInTurn DEF InOrder
  <2>4. ASSUME NEW o \in Orders PROVE Bounded(o)'
    BY <1>1, <1>2, <1>5, <2>1, OrderTypes DEF Bounded, AtHand
  <2>5. TellsTruth'
    <3>1. ASSUME NEW o \in known PROVE executed'[o] > 0
      BY <1>2, OrderTypes DEF TellsTruth, KnownMeansExecuted
    <3> QED  BY <1>1, <2>1, <3>1 DEF TellsTruth, KnownMeansExecuted
  <2> QED  BY <2>2, <2>3, <2>4, <2>5
<1> QED  BY <1>4, <1>5

LEMMA PdiTakesWithoutNumberInv == OrderInv /\ PdiTakesWithoutNumber => OrderInv'
<1> SUFFICES ASSUME OrderInv, PdiTakesWithoutNumber PROVE OrderInv'
  OBVIOUS
<1> USE DEF OrderInv
<1>1. /\ pc = "send" /\ NextItem /\ action' = action /\ handed' = handed /\ open' = open /\ known' = known
      /\ sent' = Append(sent, Head(batch)) /\ address' = address /\ ticks' = ticks /\ Head(batch) \in Orders
      /\ pc' \in {"idle", "send"} /\ address = "known"
  BY Rest DEF PdiTakesWithoutNumber, Sending, item, myfuelVars, NextItem
<1>2. /\ executed' \in [Orders -> Nat] /\ late' \in [Orders -> Nat] /\ failures' \in [Orders -> Nat]
      /\ \A o \in Orders : /\ executed'[o] \in Nat /\ late'[o] \in Nat /\ failures'[o] \in Nat
                           /\ executed'[o] >= executed[o]
                           /\ executed'[o] + late'[o] + failures[o] <= executed[o] + late[o] + failures'[o]
  <2>1. failures' = [failures EXCEPT ![Head(batch)] = @ + 1]
    BY DEF PdiTakesWithoutNumber, Fails, item
  <2>2. CASE executed' = [executed EXCEPT ![Head(batch)] = @ + 1] /\ late' = late
    BY <1>1, <2>1, <2>2, OrderTypes
  <2>3. CASE executed' = executed /\ late' = late
    BY <1>1, <2>1, <2>3, OrderTypes
  <2>4. CASE executed' = executed /\ late' = [late EXCEPT ![Head(batch)] = @ + 1]
    BY <1>1, <2>1, <2>4, OrderTypes
  <2> QED  BY <2>2, <2>3, <2>4 DEF PdiTakesWithoutNumber, Execute, pdiVars, item
<1>3. Batched' /\ TypeOK'
  <2>1. sent' \in Seq(Orders)
    BY <1>1, Sent
  <2> QED  BY <1>1, <1>2, <2>1, NextItemBatched DEF TypeOK
<1>4. InOrder'
  BY <1>1, NextItemInTurn DEF InOrder
<1>5. ASSUME NEW o \in Orders PROVE Bounded(o)'
  <2>1. ~AtHand(o) /\ ~AtHand(o)'
    BY <1>1 DEF AtHand
  <2> QED  BY <1>1, <1>2, <2>1, StillBounded
<1>6. TellsTruth'
  <2>1. ASSUME NEW o \in known PROVE executed'[o] > 0
    <3>1. o \in Orders /\ executed[o] > 0
      BY OrderTypes DEF TellsTruth, KnownMeansExecuted
    <3> QED  BY <1>2, <3>1, OrderTypes
  <2> QED  BY <1>1, <2>1 DEF TellsTruth, KnownMeansExecuted
<1> QED  BY <1>3, <1>4, <1>5, <1>6

LEMMA PdiRefusesInv == OrderInv /\ PdiRefuses => OrderInv'
<1> SUFFICES ASSUME OrderInv, PdiRefuses PROVE OrderInv'
  OBVIOUS
<1> USE DEF OrderInv
<1>1. /\ pc = "send" /\ NextItem /\ action' = action /\ handed' = handed /\ open' = open /\ known' = known
      /\ sent' = Append(sent, Head(batch)) /\ address' = address /\ ticks' = ticks /\ Head(batch) \in Orders
      /\ pc' \in {"idle", "send"} /\ address = "known"
  BY Rest DEF PdiRefuses, Sending, item, myfuelVars, NextItem
<1>2. /\ executed' \in [Orders -> Nat] /\ late' \in [Orders -> Nat] /\ failures' \in [Orders -> Nat]
      /\ \A o \in Orders : /\ executed'[o] \in Nat /\ late'[o] \in Nat /\ failures'[o] \in Nat
                           /\ executed'[o] >= executed[o]
                           /\ executed'[o] + late'[o] + failures[o] <= executed[o] + late[o] + failures'[o]
  BY <1>1, OrderTypes DEF PdiRefuses, pdiVars, item
<1>3. Batched' /\ TypeOK'
  <2>1. sent' \in Seq(Orders)
    BY <1>1, Sent
  <2> QED  BY <1>1, <1>2, <2>1, NextItemBatched DEF TypeOK
<1>4. InOrder'
  BY <1>1, NextItemInTurn DEF InOrder
<1>5. ASSUME NEW o \in Orders PROVE Bounded(o)'
  <2>1. ~AtHand(o) /\ ~AtHand(o)'
    BY <1>1 DEF AtHand
  <2> QED  BY <1>1, <1>2, <2>1, StillBounded
<1>6. TellsTruth'
  <2>1. ASSUME NEW o \in known PROVE executed'[o] > 0
    <3>1. o \in Orders /\ executed[o] > 0
      BY OrderTypes DEF TellsTruth, KnownMeansExecuted
    <3> QED  BY <1>2, <3>1, OrderTypes
  <2> QED  BY <1>1, <2>1 DEF TellsTruth, KnownMeansExecuted
<1> QED  BY <1>3, <1>4, <1>5, <1>6

LEMMA SendFailsInv == OrderInv /\ SendFails => OrderInv'
<1> SUFFICES ASSUME OrderInv, SendFails PROVE OrderInv'
  OBVIOUS
<1> USE DEF OrderInv
<1>1. /\ pc = "send" /\ NextItem /\ action' = action /\ handed' = handed /\ open' = open /\ known' = known
      /\ sent' = Append(sent, Head(batch)) /\ address' = address /\ ticks' = ticks /\ Head(batch) \in Orders
      /\ pc' \in {"idle", "send"} /\ address = "known"
  BY Rest DEF SendFails, Sending, item, myfuelVars, NextItem
<1>2. /\ executed' \in [Orders -> Nat] /\ late' \in [Orders -> Nat] /\ failures' \in [Orders -> Nat]
      /\ \A o \in Orders : /\ executed'[o] \in Nat /\ late'[o] \in Nat /\ failures'[o] \in Nat
                           /\ executed'[o] >= executed[o]
                           /\ executed'[o] + late'[o] + failures[o] <= executed[o] + late[o] + failures'[o]
  <2>1. failures' = [failures EXCEPT ![Head(batch)] = @ + 1]
    BY DEF SendFails, Fails, item
  <2>2. CASE executed' = [executed EXCEPT ![Head(batch)] = @ + 1] /\ late' = late
    BY <1>1, <2>1, <2>2, OrderTypes
  <2>3. CASE executed' = executed /\ late' = late
    BY <1>1, <2>1, <2>3, OrderTypes
  <2>4. CASE executed' = executed /\ late' = [late EXCEPT ![Head(batch)] = @ + 1]
    BY <1>1, <2>1, <2>4, OrderTypes
  <2> QED  BY <2>2, <2>3, <2>4 DEF SendFails, Execute, pdiVars, item
<1>3. Batched' /\ TypeOK'
  <2>1. sent' \in Seq(Orders)
    BY <1>1, Sent
  <2> QED  BY <1>1, <1>2, <2>1, NextItemBatched DEF TypeOK
<1>4. InOrder'
  BY <1>1, NextItemInTurn DEF InOrder
<1>5. ASSUME NEW o \in Orders PROVE Bounded(o)'
  <2>1. ~AtHand(o) /\ ~AtHand(o)'
    BY <1>1 DEF AtHand
  <2> QED  BY <1>1, <1>2, <2>1, StillBounded
<1>6. TellsTruth'
  <2>1. ASSUME NEW o \in known PROVE executed'[o] > 0
    <3>1. o \in Orders /\ executed[o] > 0
      BY OrderTypes DEF TellsTruth, KnownMeansExecuted
    <3> QED  BY <1>2, <3>1, OrderTypes
  <2> QED  BY <1>1, <2>1 DEF TellsTruth, KnownMeansExecuted
<1> QED  BY <1>3, <1>4, <1>5, <1>6

LEMMA NoAddressInv == OrderInv /\ NoAddress => OrderInv'
<1> SUFFICES ASSUME OrderInv, NoAddress PROVE OrderInv'
  OBVIOUS
<1> USE DEF OrderInv
<1>1. /\ pc = "send" /\ NextItem /\ action' = action /\ handed' = handed /\ open' = open /\ known' = known
      /\ sent' = sent /\ address' = address /\ ticks' = ticks /\ Head(batch) \in Orders
      /\ pc' \in {"idle", "send"} /\ address = "none"
  BY Rest DEF NoAddress, item, myfuelVars, NextItem
<1>2. /\ executed' \in [Orders -> Nat] /\ late' \in [Orders -> Nat] /\ failures' \in [Orders -> Nat]
      /\ \A o \in Orders : /\ executed'[o] \in Nat /\ late'[o] \in Nat /\ failures'[o] \in Nat
                           /\ executed'[o] >= executed[o]
                           /\ executed'[o] + late'[o] + failures[o] <= executed[o] + late[o] + failures'[o]
  BY <1>1, OrderTypes DEF NoAddress, Fails, pdiVars, item
<1>3. Batched' /\ TypeOK'
  BY <1>1, <1>2, NextItemBatched DEF TypeOK
<1>4. InOrder'
  BY <1>1 DEF InOrder
<1>5. ASSUME NEW o \in Orders PROVE Bounded(o)'
  <2>1. ~AtHand(o) /\ ~AtHand(o)'
    BY <1>1 DEF AtHand
  <2> QED  BY <1>1, <1>2, <2>1, StillBounded
<1>6. TellsTruth'
  <2>1. ASSUME NEW o \in known PROVE executed'[o] > 0
    <3>1. o \in Orders /\ executed[o] > 0
      BY OrderTypes DEF TellsTruth, KnownMeansExecuted
    <3> QED  BY <1>2, <3>1, OrderTypes
  <2> QED  BY <1>1, <2>1 DEF TellsTruth, KnownMeansExecuted
<1> QED  BY <1>3, <1>4, <1>5, <1>6

LEMMA TellMyFuelInv == OrderInv /\ TellMyFuel => OrderInv'
<1> SUFFICES ASSUME OrderInv, TellMyFuel PROVE OrderInv'
  OBVIOUS
<1> USE DEF OrderInv
<1>1. /\ pc = "tell" /\ NextItem /\ action' = action /\ handed' = handed /\ sent' = sent
      /\ executed' = executed /\ late' = late /\ address' = address /\ ticks' = ticks
      /\ Head(batch) \in Orders /\ pc' \in {"idle", "send"} /\ address = "known"
  BY Rest DEF TellMyFuel, pdiVars, NextItem, InOrder
<1>2. known' \subseteq known \cup {Head(batch)} /\ (open' = open \/ open' = open \ {Head(batch)})
  BY DEF TellMyFuel, myfuelVars, item
<1>3. failures' \in [Orders -> Nat]
      /\ \A o \in Orders : /\ failures'[o] \in Nat /\ failures'[o] >= failures[o]
                           /\ AtHand(o) /\ o \in open' => failures'[o] = failures[o] + 1
  BY <1>1, OrderTypes DEF TellMyFuel, item, AtHand
<1>4. Batched' /\ TypeOK'
  BY <1>1, <1>2, <1>3, NextItemBatched DEF TypeOK
<1>5. InOrder'
  BY <1>1, NextItemInTurn DEF InOrder
<1>6. ASSUME NEW o \in Orders PROVE Bounded(o)'
  <2>1. ~AtHand(o)' /\ (AtHand(o) <=> o = Head(batch))
    BY <1>1 DEF AtHand
  <2> QED  BY <1>1, <1>2, <1>3, <2>1, OrderTypes DEF Bounded
<1>7. TellsTruth'
  BY <1>1, <1>2 DEF TellsTruth, KnownMeansExecuted
<1> QED  BY <1>4, <1>5, <1>6, <1>7

LEMMA TellFailsInv == OrderInv /\ TellFails => OrderInv'
<1> SUFFICES ASSUME OrderInv, TellFails PROVE OrderInv'
  OBVIOUS
<1> USE DEF OrderInv
<1>1. /\ pc = "tell" /\ NextItem /\ action' = action /\ handed' = handed /\ sent' = sent
      /\ executed' = executed /\ late' = late /\ address' = address /\ ticks' = ticks
      /\ Head(batch) \in Orders /\ pc' \in {"idle", "send"} /\ address = "known"
  BY Rest DEF TellFails, pdiVars, NextItem, InOrder
<1>2. known' \subseteq known \cup {Head(batch)} /\ (open' = open \/ open' = open \ {Head(batch)})
  BY DEF TellFails, myfuelVars, item
<1>3. failures' \in [Orders -> Nat]
      /\ \A o \in Orders : /\ failures'[o] \in Nat /\ failures'[o] >= failures[o]
                           /\ AtHand(o) /\ o \in open' => failures'[o] = failures[o] + 1
  BY <1>1, OrderTypes DEF TellFails, Fails, item, AtHand
<1>4. Batched' /\ TypeOK'
  BY <1>1, <1>2, <1>3, NextItemBatched DEF TypeOK
<1>5. InOrder'
  BY <1>1, NextItemInTurn DEF InOrder
<1>6. ASSUME NEW o \in Orders PROVE Bounded(o)'
  <2>1. ~AtHand(o)' /\ (AtHand(o) <=> o = Head(batch))
    BY <1>1 DEF AtHand
  <2> QED  BY <1>1, <1>2, <1>3, <2>1, OrderTypes DEF Bounded
<1>7. TellsTruth'
  BY <1>1, <1>2 DEF TellsTruth, KnownMeansExecuted
<1> QED  BY <1>4, <1>5, <1>6, <1>7

LEMMA OutsideInv ==
  ASSUME OrderInv, NEW o \in Orders, ExecuteLate(o) \/ Forget(o)
  PROVE  OrderInv'
<1> USE DEF OrderInv
<1>1. CASE ExecuteLate(o)
  <2>1. /\ executed' = [executed EXCEPT ![o] = @ + 1] /\ late' = [late EXCEPT ![o] = @ - 1] /\ late[o] > 0
        /\ address' = address /\ action' = action /\ open' = open /\ known' = known /\ pc' = pc /\ batch' = batch
        /\ handed' = handed /\ sent' = sent /\ failures' = failures /\ ticks' = ticks
    BY <1>1 DEF ExecuteLate, Execute, myfuelVars
  <2>2. /\ executed' \in [Orders -> Nat] /\ late' \in [Orders -> Nat]
        /\ \A p \in Orders : /\ executed'[p] \in Nat /\ executed'[p] >= executed[p]
                             /\ executed'[p] + late'[p] = executed[p] + late[p]
    <3>1. late[o] \in Nat /\ late[o] - 1 \in Nat
      BY <2>1, OrderTypes
    <3> QED  BY <2>1, <3>1, OrderTypes
  <2>3. TypeOK' /\ Batched' /\ InOrder'
    BY <2>1, <2>2 DEF TypeOK, Batched, InOrder, InTurn
  <2>4. ASSUME NEW p \in Orders PROVE Bounded(p)'
    BY <2>1, <2>2 DEF Bounded, AtHand
  <2>5. TellsTruth'
    <3>1. pc = "tell" => Head(batch) \in Orders
      BY Rest
    <3>2. ASSUME NEW p \in Orders, executed[p] > 0 PROVE executed'[p] > 0
      BY <2>2, <3>2, OrderTypes
    <3> QED  BY <2>1, <3>1, <3>2, OrderTypes DEF TellsTruth, KnownMeansExecuted
  <2> QED  BY <2>3, <2>4, <2>5
<1>2. CASE Forget(o)
  BY <1>2 DEF Forget, pdiVars, TypeOK, Batched, InOrder, InTurn, Bounded, AtHand, TellsTruth,
                 KnownMeansExecuted
<1> QED  BY <1>1, <1>2

LEMMA LoadCredentialsInv == OrderInv /\ LoadCredentials => OrderInv'
BY EmptySeq DEF OrderInv, LoadCredentials, myfuelVars, pdiVars, TypeOK, Batched, InOrder, InTurn,
                Bounded, AtHand, TellsTruth, KnownMeansExecuted

LEMMA CrashInv == OrderInv /\ Crash => OrderInv'
<1> SUFFICES ASSUME OrderInv, Crash PROVE OrderInv'
  OBVIOUS
<1> USE DEF OrderInv
<1>1. failures' \in [Orders -> Nat]
      /\ \A o \in Orders : /\ failures'[o] \in Nat /\ failures'[o] >= failures[o]
                           /\ AtHand(o) => failures'[o] = failures[o] + 1
  <2>1. CASE pc = "idle"
    BY <2>1, OrderTypes DEF Crash, AtHand
  <2>2. CASE pc # "idle"
    <3>1. Head(batch) \in Orders /\ failures' = [failures EXCEPT ![Head(batch)] = @ + 1]
      BY <2>2, Rest DEF Crash, Fails, item
    <3> QED  BY <3>1, OrderTypes DEF AtHand
  <2> QED  BY <2>1, <2>2
<1>2. TypeOK'
  BY <1>1, EmptySeq DEF Crash, TypeOK, myfuelVars, pdiVars
<1>3. ASSUME NEW o \in Orders PROVE Bounded(o)'
  <2>1. /\ executed' = executed /\ late' = late /\ open' = open /\ action' = action /\ ~AtHand(o)'
    BY DEF Crash, AtHand, myfuelVars, pdiVars
  <2> QED  BY <1>1, <2>1, OrderTypes DEF Bounded
<1>4. Batched' /\ TellsTruth'
  BY DEF Crash, Batched, TellsTruth, KnownMeansExecuted, myfuelVars, pdiVars
<1>5. InOrder'
  BY EmptySeq DEF Crash, InOrder, InTurn
<1> QED  BY <1>2, <1>3, <1>4, <1>5

LEMMA NextOrderInv == OrderInv /\ [Next]_vars => OrderInv'
<1> SUFFICES ASSUME OrderInv, [Next]_vars PROVE OrderInv'
  OBVIOUS
<1>1. CASE OrderStep
  BY <1>1, LoadCredentialsInv, PullOrdersInv, UnreadableInv, PdiTakesInv, PdiTakesWithoutNumberInv,
     PdiRefusesInv, SendFailsInv, NoAddressInv, TellMyFuelInv, TellFailsInv, OutsideInv DEF OrderStep
<1>2. CASE UNCHANGED vars
  BY <1>2 DEF vars, OrderInv, TypeOK, Batched, InOrder, InTurn, Bounded, AtHand, TellsTruth, KnownMeansExecuted
<1> QED  BY <1>1, <1>2, CrashInv DEF Next

-----------------------------------------------------------------------------
(* Theorems                                                                *)

\* The inductive invariant of the order task (pdi/__init__.py:109-178).
THEOREM OrdersInvariant == Spec => []OrderInv
BY InitOrderInv, NextOrderInv, PTL DEF Spec

\* Every reachable state of the order task is well typed.
THEOREM OrdersTypeOK == Spec => []TypeOK
<1>1. OrderInv => TypeOK
  BY DEF OrderInv
<1> QED  BY <1>1, OrdersInvariant, PTL

\* What goes wrong with one order does not cost another its turn, and without an address
\* nothing is taken for sent (pdi/__init__.py:125-151).
THEOREM OrdersAreTried == Spec => []EveryOrderIsTried
<1>1. ASSUME OrderInv, pc = "idle", address = "known"
      PROVE  EveryOrderIsTried
  <2>1. /\ sent \in Seq(Orders) /\ handed \in Seq(Orders) /\ Len(sent) \in Nat /\ Len(handed) \in Nat
        /\ Len(sent) <= Len(handed) /\ \A i \in 1 .. Len(sent) : sent[i] = handed[i]
        /\ Len(sent) < Len(handed) => action[handed[Len(sent) + 1]] = "Unreadable"
    BY <1>1, EmptySeq DEF OrderInv, TypeOK, InOrder, InTurn
  <2>2. /\ SubSeq(handed, 1, Len(sent)) \in Seq(Orders)
        /\ Len(SubSeq(handed, 1, Len(sent))) = Len(sent)
        /\ \A i \in 1 .. Len(sent) : SubSeq(handed, 1, Len(sent))[i] = handed[i]
    BY <2>1
  <2>3. sent = SubSeq(handed, 1, Len(sent))
    BY <2>1, <2>2, SeqEqual
  <2>4. Len(sent) \in 0 .. Len(handed)
    BY <2>1
  <2> QED  BY <1>1, <2>1, <2>3, <2>4 DEF EveryOrderIsTried
<1>2. ASSUME OrderInv, address # "known"
      PROVE  EveryOrderIsTried
  <2>1. sent = <<>> /\ Len(handed) \in Nat
    BY <1>2, EmptySeq DEF OrderInv, TypeOK, InOrder
  <2>2. Len(handed) \in 0 .. Len(handed) /\ ~(Len(handed) < Len(handed))
    BY <2>1
  <2> QED  BY <1>2, <2>1, <2>2 DEF EveryOrderIsTried
<1>3. OrderInv => EveryOrderIsTried
  BY <1>1, <1>2 DEF EveryOrderIsTried
<1> QED  BY <1>3, OrdersInvariant, PTL

\* Each repetition of an order in PDI costs a failure (pdi/__init__.py:144-145).
THEOREM OrdersRepeatOnlyAfterFailure == Spec => []RepeatsOnlyAfterFailure
<1>1. OrderInv => RepeatsOnlyAfterFailure
  BY DEF OrderInv, Bounded, RepeatsOnlyAfterFailure
<1> QED  BY <1>1, OrdersInvariant, PTL

\* MyFuel is told only of what PDI has executed (pdi/__init__.py:136-145, 163).
THEOREM OrdersKnownMeansExecuted == Spec => []KnownMeansExecuted
<1>1. OrderInv => KnownMeansExecuted
  BY DEF OrderInv, TellsTruth
<1> QED  BY <1>1, OrdersInvariant, PTL

\* Both integrations in one service are each what it is alone: what is proved of
\* the order task and of the feeds holds of them (scheduler.py:54-60, main.py:48-56).
THEOREM IntegrationsRunBoth == IntegrationsSpec => Spec /\ FeedSpec
<1>1. IntegrationsInit => Init /\ FeedInit
  BY DEF IntegrationsInit
<1>2. [IntegrationsNext]_allVars => [Next]_vars /\ [FeedNext]_feedVars
  BY DEF IntegrationsNext, allVars, OrdersGoOn, ServiceCrash, FeedGoesOn, FeedStarts, Next, FeedNext
<1> QED  BY <1>1, <1>2, PTL DEF IntegrationsSpec, Spec, FeedSpec

\* Every reachable state of both integrations in one service is well typed.
THEOREM IntegrationsHaveTypes == IntegrationsSpec => []IntegrationsTypeOK
<1>1. TypeOK /\ FeedTypeOK => IntegrationsTypeOK
  BY DEF IntegrationsTypeOK
<1> QED  BY <1>1, IntegrationsRunBoth, OrdersTypeOK, FeedsTypeOK, PTL

=============================================================================
