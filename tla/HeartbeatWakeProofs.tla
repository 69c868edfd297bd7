------------------------ MODULE HeartbeatWakeProofs ------------------------
(***************************************************************************)
(* Theorems about HeartbeatWake, for any targets, delays, batches and      *)
(* number of lifecycles.                                                   *)
(***************************************************************************)
EXTENDS HeartbeatWake, TLAPS

Wakes == [Targets -> Priorities \cup {NoWake}]
TimerRecords == [kind : {"none", "normal", "retry"}, due : Nat, delay : Nat]
BatchRecords == [wakes : Wakes, left : SUBSET Targets, delay : Nat]

\* resolveWakePriority returns a natural number.
LEMMA PriorityFacts ==
  Priorities \subseteq Int /\ \A p \in Priorities : p >= 0 /\ p > NoWake
<1> SUFFICES ASSUME NEW q \in Requests
             PROVE  ResolveWakePriority(q) \in 0..3
  BY DEF Priorities, NoWake
<1> QED
  BY DEF ResolveWakePriority

\* Queueing wakes gives wakes; each target keeps the higher of its priorities.
LEMMA QueuePendingFacts ==
  ASSUME NEW w \in Wakes, NEW v \in Wakes
  PROVE  /\ QueuePending(w, v) \in Wakes
         /\ \A k \in Targets : QueuePending(w, v)[k] >= w[k] /\ QueuePending(w, v)[k] >= v[k]
         /\ \A k \in Targets : QueuePending(w, v)[k] \in {w[k], v[k]}
<1>1. NoWake \in Int
  BY DEF NoWake
<1>2. Priorities \cup {NoWake} \subseteq Int
  BY <1>1, PriorityFacts
<1>3. \A k \in Targets : w[k] \in Int /\ v[k] \in Int
  BY <1>2 DEF Wakes
<1> QED
  BY <1>3 DEF QueuePending, Wakes

\* A single wake as a map.
LEMMA OnlyFacts ==
  ASSUME NEW k \in Targets, NEW p \in Priorities \cup {NoWake}
  PROVE  Only(k, p) \in Wakes /\ Only(k, p)[k] = p
BY DEF Only, Wakes

\* A timer is armed or kept: schedule never leaves none.
LEMMA ScheduleFacts ==
  ASSUME NEW t \in TimerRecords, NEW d \in Nat, NEW kind \in {"normal", "retry"}
  PROVE  /\ Schedule(t, d, kind) \in TimerRecords
         /\ Schedule(t, d, kind).kind # "none"
BY DEF Schedule, TimerRecords

-----------------------------------------------------------------------------
(* Type correctness *)

\* The initial state has the types of the module.
LEMMA InitType == Init => TypeOK
<1> SUFFICES ASSUME Init PROVE TypeOK
  OBVIOUS
<1> USE HeartbeatAssumption DEF HeartbeatAssumption, Init
<1>1. scheduled \in BOOLEAN /\ running \in BOOLEAN
  BY Zenon
<1>2. batch \in [Batches -> BatchRecords]
  BY DEF BatchRecords, Wakes, NoBatch
<1>3. timer \in [kind : {"none", "normal", "retry"}, due : Nat, delay : Nat]
  BY DEF NoTimer
<1>4. /\ handlerGeneration \in 0..MaxGeneration /\ handler \in 0..handlerGeneration
      /\ pendingWakes \in [Targets -> Priorities \cup {NoWake}]
      /\ owed \in [Targets -> Priorities \cup {NoWake}] /\ last \subseteq Targets
  OBVIOUS
<1> QED
  BY <1>1, <1>2, <1>3, <1>4 DEF TypeOK, BatchRecords, Wakes

\* TypeOK in the names of this module.
LEMMA TypeParts ==
  TypeOK <=> /\ handlerGeneration \in 0..MaxGeneration /\ handler \in 0..handlerGeneration
             /\ pendingWakes \in Wakes /\ owed \in Wakes
             /\ scheduled \in BOOLEAN /\ running \in BOOLEAN
             /\ timer \in TimerRecords
             /\ batch \in [Batches -> BatchRecords] /\ last \subseteq Targets
BY DEF TypeOK, Wakes, TimerRecords, BatchRecords

\* A step that changes no variable keeps the types.
LEMMA TypeStable ==
  ASSUME TypeOK, UNCHANGED vars
  PROVE  TypeOK'
BY DEF TypeOK, vars

\* The end of a batch keeps the types, and leaves wakes that are pending with
\* a timer.
LEMMA FinallyFacts ==
  ASSUME TypeOK, NEW b \in Batches, NEW w \in Wakes, NEW t \in TimerRecords,
         Finally(b, w, t)
  PROVE  /\ running' \in BOOLEAN
         /\ timer' \in TimerRecords
         /\ batch' \in [Batches -> BatchRecords]
         /\ batch' = [batch EXCEPT ![b] = NoBatch]
         /\ Wanted(w) # {} => timer'.kind # "none"
         /\ t.kind # "none" => timer'.kind # "none"
<1>1. running' \in BOOLEAN
  BY Zenon DEF Finally
<1>2. batch' = [batch EXCEPT ![b] = NoBatch] /\ NoBatch \in BatchRecords
  BY DEF Finally, NoBatch, BatchRecords, Wakes
<1>3. batch[b].delay \in Nat /\ batch \in [Batches -> BatchRecords]
  BY TypeParts DEF BatchRecords
<1> DEFINE u == Schedule(t, batch[b].delay, "normal")
<1>4. u \in TimerRecords /\ u.kind # "none"
  BY <1>3, ScheduleFacts
<1>5. timer' = IF Wanted(w) # {} \/ scheduled THEN u ELSE t
  BY DEF Finally
<1> HIDE DEF u
<1> QED
  BY <1>1, <1>2, <1>3, <1>4, <1>5

\* The wakes and the timer that an attempt leaves behind.
LEMMA ReturnFacts ==
  ASSUME TypeOK, NEW b \in Batches, NEW k \in batch[b].left, NEW busy \in BOOLEAN,
         WakeReturns(b, k, busy)
  PROVE  /\ pendingWakes' \in Wakes /\ owed' \in Wakes
         /\ running' \in BOOLEAN
         /\ timer' \in TimerRecords
         /\ batch' \in [Batches -> BatchRecords]
         /\ timer.kind # "none" => timer'.kind # "none"
         /\ pendingWakes' = pendingWakes \/ timer'.kind # "none"
         /\ batch[b].wakes \in Wakes /\ k \in Targets
<1> DEFINE w == IF busy THEN QueuePending(pendingWakes, Only(k, batch[b].wakes[k]))
                        ELSE pendingWakes
           t == IF busy THEN Schedule(timer, DefaultRetry, "retry") ELSE timer
<1>1. /\ pendingWakes \in Wakes /\ owed \in Wakes /\ timer \in TimerRecords
      /\ batch \in [Batches -> BatchRecords] /\ running \in BOOLEAN
  BY TypeParts
<1>2. batch[b].wakes \in Wakes /\ k \in Targets /\ batch[b] \in BatchRecords
  BY <1>1 DEF BatchRecords
<1>3. batch[b].wakes[k] \in Priorities \cup {NoWake}
  BY <1>2 DEF Wakes
<1>4. Only(k, batch[b].wakes[k]) \in Wakes
  BY <1>2, <1>3, OnlyFacts
<1>5. w \in Wakes
  BY <1>1, <1>4, QueuePendingFacts
<1>6. owed' \in Wakes
  <2>1. QueuePending(owed, Only(k, batch[b].wakes[k])) \in Wakes
    BY <1>1, <1>4, QueuePendingFacts
  <2>2. [owed EXCEPT ![k] = pendingWakes[k]] \in Wakes
    BY <1>1, <1>2 DEF Wakes
  <2> QED
    BY <2>1, <2>2 DEF WakeReturns
<1>7. DefaultRetry \in Nat
  BY HeartbeatAssumption DEF HeartbeatAssumption
<1>8. /\ t \in TimerRecords
      /\ timer.kind # "none" => t.kind # "none"
      /\ w = pendingWakes \/ t.kind # "none"
  BY <1>1, <1>7, ScheduleFacts
<1>9. /\ pendingWakes' = w
      /\ \/ Finally(b, w, t)
         \/ /\ timer' = t /\ running' = running
            /\ batch' = [batch EXCEPT ![b].left = @ \ {k}]
  BY DEF WakeReturns
<1> HIDE DEF w, t
<1>10. CASE Finally(b, w, t)
  BY <1>2, <1>5, <1>6, <1>8, <1>9, <1>10, FinallyFacts
<1>11. CASE /\ timer' = t /\ running' = running
            /\ batch' = [batch EXCEPT ![b].left = @ \ {k}]
  <2>1. batch' \in [Batches -> BatchRecords]
    BY <1>1, <1>2, <1>11 DEF BatchRecords
  <2>2. running' \in BOOLEAN
    BY <1>1, <1>11, Zenon
  <2> QED
    BY <1>2, <1>5, <1>6, <1>8, <1>9, <1>11, <2>1, <2>2
<1> QED
  BY <1>9, <1>10, <1>11

\* A failed attempt queues its batch again and leaves a timer.
LEMMA ThrowFacts ==
  ASSUME TypeOK, NEW b \in Batches, NEW k \in batch[b].left, WakeThrows(b, k)
  PROVE  /\ pendingWakes' \in Wakes /\ owed' \in Wakes
         /\ running' \in BOOLEAN
         /\ timer' \in TimerRecords /\ timer'.kind # "none"
         /\ batch' \in [Batches -> BatchRecords]
         /\ batch' = [batch EXCEPT ![b] = NoBatch]
         /\ k \in Targets
         /\ batch[b].wakes \in Wakes /\ Unattempted(b) \in Wakes
<1> DEFINE w == QueuePending(pendingWakes, batch[b].wakes)
           t == Schedule(timer, DefaultRetry, "retry")
<1>1. /\ pendingWakes \in Wakes /\ owed \in Wakes /\ timer \in TimerRecords
      /\ batch \in [Batches -> BatchRecords]
  BY TypeParts
<1>2. batch[b].wakes \in Wakes /\ k \in Targets
  BY <1>1 DEF BatchRecords
<1>3. w \in Wakes
  BY <1>1, <1>2, QueuePendingFacts
<1>4. Unattempted(b) \in Wakes
  BY <1>2 DEF Wakes, Unattempted
<1>5. owed' \in Wakes
  BY <1>1, <1>4, QueuePendingFacts DEF WakeThrows
<1>6. t \in TimerRecords /\ t.kind # "none"
  BY <1>1, HeartbeatAssumption, ScheduleFacts DEF HeartbeatAssumption
<1>7. pendingWakes' = w /\ Finally(b, w, t)
  BY DEF WakeThrows
<1> HIDE DEF w, t
<1> QED
  BY <1>2, <1>3, <1>4, <1>5, <1>6, <1>7, FinallyFacts

\* Taking the pending wakes.
LEMMA TakeFacts ==
  ASSUME TypeOK, NEW b \in Batches, TakeBatch(b)
  PROVE  /\ pendingWakes' \in Wakes /\ Wanted(pendingWakes') = {}
         /\ running' \in BOOLEAN
         /\ batch' \in [Batches -> BatchRecords]
<1>1. pendingWakes' \in Wakes /\ Wanted(pendingWakes') = {}
  BY DEF TakeBatch, Wakes, Wanted
<1>2. running' \in BOOLEAN
  BY Zenon DEF TakeBatch
<1>3. [wakes |-> pendingWakes, left |-> Wanted(pendingWakes), delay |-> timer.delay]
        \in BatchRecords
  BY TypeParts DEF TimerRecords, BatchRecords, Wanted
<1>4. batch' \in [Batches -> BatchRecords]
  BY <1>3, TypeParts DEF TakeBatch
<1> QED
  BY <1>1, <1>2, <1>4

\* Every step keeps the types.
LEMMA StepType ==
  ASSUME TypeOK, Next
  PROVE  TypeOK'
<1>0. /\ handlerGeneration \in 0..MaxGeneration /\ handler \in 0..handlerGeneration
      /\ pendingWakes \in Wakes /\ owed \in Wakes
      /\ scheduled \in BOOLEAN /\ running \in BOOLEAN
      /\ timer \in TimerRecords
      /\ batch \in [Batches -> BatchRecords] /\ last \subseteq Targets
  BY TypeParts
<1> USE HeartbeatAssumption DEF HeartbeatAssumption
<1> SUFFICES
      /\ handlerGeneration' \in 0..MaxGeneration /\ handler' \in 0..handlerGeneration'
      /\ pendingWakes' \in Wakes /\ owed' \in Wakes
      /\ scheduled' \in BOOLEAN /\ running' \in BOOLEAN
      /\ timer' \in TimerRecords
      /\ batch' \in [Batches -> BatchRecords] /\ last' \subseteq Targets
  BY DEF TypeOK, Wakes, TimerRecords, BatchRecords
<1>1. ASSUME NEW k \in Targets, NEW q \in Requests, NEW delay \in Delays,
             RequestHeartbeat(k, q, delay)
      PROVE  pendingWakes' \in Wakes /\ owed' \in Wakes /\ timer' \in TimerRecords
  <2>1. ResolveWakePriority(q) \in Priorities
    BY DEF Priorities
  <2>2. Only(k, ResolveWakePriority(q)) \in Wakes
    BY <2>1, OnlyFacts
  <2> QED
    BY <1>0, <1>1, <2>2, QueuePendingFacts, ScheduleFacts DEF RequestHeartbeat
<1>2. ASSUME Tick PROVE timer' \in TimerRecords
  BY <1>0, <1>2 DEF Tick, TimerRecords
<1>3. ASSUME NEW b \in Batches, TimerFires(b)
      PROVE  /\ pendingWakes' \in Wakes /\ running' \in BOOLEAN /\ scheduled' \in BOOLEAN
             /\ timer' \in TimerRecords /\ batch' \in [Batches -> BatchRecords]
  <2>1. NoTimer \in TimerRecords
    BY DEF NoTimer, TimerRecords
  <2>2. [timer EXCEPT !.due = timer.delay] \in TimerRecords
    BY <1>0 DEF TimerRecords
  <2>3. timer' \in TimerRecords
    BY <1>3, <2>1, <2>2 DEF TimerFires
  <2>4. scheduled' \in BOOLEAN
    BY <1>3, Zenon DEF TimerFires
  <2>5. UNCHANGED <<pendingWakes, running, batch>> \/ TakeBatch(b)
    BY <1>3, Zenon DEF TimerFires
  <2>6. CASE UNCHANGED <<pendingWakes, running, batch>>
    <3>1. running' \in BOOLEAN
      BY <1>0, <2>6, Zenon
    <3> QED
      BY <1>0, <2>3, <2>4, <2>6, <3>1
  <2> QED
    BY <2>3, <2>4, <2>5, <2>6, TakeFacts
<1>4. ASSUME NEW b \in Batches, NEW k \in Targets, NEW busy \in BOOLEAN,
             WakeReturns(b, k, busy)
      PROVE  k \in batch[b].left
  BY <1>0, <1>4 DEF WakeReturns
<1>5. ASSUME NEW b \in Batches, NEW k \in Targets, WakeThrows(b, k)
      PROVE  k \in batch[b].left
  BY <1>0, <1>5 DEF WakeThrows
<1>6. ASSUME SetHandler
      PROVE  /\ handlerGeneration' \in 0..MaxGeneration /\ handler' \in 0..handlerGeneration'
             /\ timer' \in TimerRecords
  <2>1. NoTimer \in TimerRecords
    BY DEF NoTimer, TimerRecords
  <2>2. timer' \in TimerRecords
    BY <1>6, <2>1, ScheduleFacts DEF SetHandler
  <2> QED
    BY <1>0, <1>6, <2>2 DEF SetHandler
<1>7. ASSUME SetHandler PROVE scheduled' \in BOOLEAN /\ running' \in BOOLEAN
  BY <1>7, Zenon DEF SetHandler
<1>8. ASSUME ClearHandler
      PROVE  handlerGeneration' \in 0..MaxGeneration /\ handler' \in 0..handlerGeneration'
  BY <1>0, <1>8 DEF ClearHandler
<1> HIDE HeartbeatAssumption
<1>9. CASE \E k \in Targets, q \in Requests, delay \in Delays : RequestHeartbeat(k, q, delay)
  BY <1>0, <1>1, <1>9, Zenon DEF RequestHeartbeat
<1>10. CASE Tick
  BY <1>0, <1>2, <1>10, Zenon DEF Tick
<1>11. CASE \E b \in Batches : TimerFires(b)
  BY <1>0, <1>3, <1>11, Zenon DEF TimerFires
<1>12. CASE \E b \in Batches, k \in Targets, busy \in BOOLEAN : WakeReturns(b, k, busy)
  <2> PICK b \in Batches, k \in Targets, busy \in BOOLEAN : WakeReturns(b, k, busy)
    BY <1>12
  <2>1. UNCHANGED <<handler, handlerGeneration, scheduled>> /\ last' \subseteq Targets
    BY DEF WakeReturns
  <2>2. k \in batch[b].left
    BY <1>4
  <2> QED
    BY <1>0, <2>1, <2>2, ReturnFacts, Zenon
<1>13. CASE \E b \in Batches, k \in Targets : WakeThrows(b, k)
  <2> PICK b \in Batches, k \in Targets : WakeThrows(b, k)
    BY <1>13
  <2>1. UNCHANGED <<handler, handlerGeneration, scheduled>> /\ last' \subseteq Targets
    BY DEF WakeThrows
  <2>2. k \in batch[b].left
    BY <1>5
  <2> QED
    BY <1>0, <2>1, <2>2, ThrowFacts, Zenon
<1>14. CASE SetHandler
  BY <1>0, <1>6, <1>7, <1>14, Zenon DEF SetHandler
<1>15. CASE ClearHandler
  BY <1>0, <1>8, <1>15, Zenon DEF ClearHandler
<1> QED
  BY <1>9, <1>10, <1>11, <1>12, <1>13, <1>14, <1>15 DEF Next

\* The type invariant holds in every behaviour: the code's operations keep the
\* shapes of the module's state.
THEOREM HeartbeatTypeCorrect == Spec => []TypeOK
<1>1. TypeOK /\ [Next]_vars => TypeOK'
  BY StepType, TypeStable
<1> QED
  BY <1>1, InitType, PTL DEF Spec

-----------------------------------------------------------------------------
(* No wake is stranded *)

\* A pending wake has a timer whose kind says that it is armed.
StrandInv == handler # 0 /\ Wanted(pendingWakes) # {} => timer.kind # "none"

\* Every step leaves a timer armed for the wakes that are pending.
LEMMA StrandStep ==
  ASSUME TypeOK, TypeOK', StrandInv, [Next]_vars
  PROVE  StrandInv'
<1>0. /\ timer \in TimerRecords /\ timer' \in TimerRecords
      /\ NoTimer.kind = "none"
  BY DEF TypeOK, TimerRecords, NoTimer
<1> USE DEF StrandInv
<1>1. ASSUME NEW k \in Targets, NEW q \in Requests, NEW delay \in Delays,
             RequestHeartbeat(k, q, delay)
      PROVE  StrandInv'
  BY <1>0, <1>1, HeartbeatAssumption, ScheduleFacts
     DEF RequestHeartbeat, HeartbeatAssumption
<1>2. ASSUME Tick PROVE StrandInv'
  BY <1>0, <1>2 DEF Tick, TimerRecords, NoTimer
<1>3. ASSUME NEW b \in Batches, TimerFires(b)
      PROVE  StrandInv'
  <2>1. CASE timer' = NoTimer /\ (handler = 0 \/ Wanted(pendingWakes) = {})
             /\ UNCHANGED <<handler, pendingWakes>>
    BY <2>1
  <2>2. CASE timer' = [timer EXCEPT !.due = timer.delay]
    BY <1>0, <1>3, <2>2 DEF TimerFires, TimerRecords
  <2>3. CASE timer' = NoTimer /\ TakeBatch(b)
    BY <2>3, TakeFacts
  <2> QED
    BY <1>3, <2>1, <2>2, <2>3, Zenon DEF TimerFires
<1>4. ASSUME NEW b \in Batches, NEW k \in Targets, NEW busy \in BOOLEAN,
             WakeReturns(b, k, busy)
      PROVE  StrandInv'
  <2>1. k \in batch[b].left /\ UNCHANGED handler
    BY <1>4 DEF WakeReturns
  <2> QED
    BY <1>4, <2>1, ReturnFacts DEF Wanted
<1>5. ASSUME NEW b \in Batches, NEW k \in Targets, WakeThrows(b, k)
      PROVE  StrandInv'
  <2>1. k \in batch[b].left
    BY <1>5 DEF WakeThrows
  <2> QED
    BY <1>5, <2>1, ThrowFacts
<1>6. ASSUME SetHandler PROVE StrandInv'
  <2>1. NoTimer \in TimerRecords
    BY DEF NoTimer, TimerRecords
  <2>2. Schedule(NoTimer, DefaultCoalesce, "normal").kind # "none"
    BY <2>1, HeartbeatAssumption, ScheduleFacts DEF HeartbeatAssumption
  <2>3. Wanted(pendingWakes') = Wanted(pendingWakes)
    BY <1>6 DEF SetHandler
  <2> QED
    BY <1>6, <2>2, <2>3 DEF SetHandler
<1>7. ASSUME ClearHandler PROVE StrandInv'
  BY <1>7 DEF ClearHandler
<1>8. CASE UNCHANGED vars
  BY <1>8 DEF vars, Wanted
<1> QED
  BY <1>1, <1>2, <1>3, <1>4, <1>5, <1>6, <1>7, <1>8 DEF Next

\* While a handler is registered, pending wakes have a timer armed: requests,
\* busy and failed attempts, new lifecycles and stale batches never leave them
\* without one.
THEOREM WakesNeverStranded == Spec => []NoStrandedWake
<1>1. Init => StrandInv
  BY DEF Init, StrandInv, Wanted
<1>2. TypeOK /\ TypeOK' /\ StrandInv /\ [Next]_vars => StrandInv'
  BY StrandStep
<1>3. StrandInv => NoStrandedWake
  BY DEF StrandInv, NoStrandedWake, NoTimer
<1> QED
  BY <1>1, <1>2, <1>3, HeartbeatTypeCorrect, PTL DEF Spec

-----------------------------------------------------------------------------
(* One batch at a time *)

\* Up to the first registration a batch in progress holds the running flag,
\* and before it there is none.
FlagInv ==
  /\ OneBatchAtATime
  /\ handlerGeneration = 0 => \A b \in Batches : ~InProgress(b)
  /\ handlerGeneration <= 1 => \A b \in Batches : InProgress(b) => running

\* The end of a batch, or of one of its attempts, starts no batch.
LEMMA FlagEnds ==
  ASSUME TypeOK, FlagInv, NEW b \in Batches, InProgress(b),
         handlerGeneration' = handlerGeneration,
         \A c \in Batches : InProgress(c)' => InProgress(c),
         ~InProgress(b)' \/ running' = running
  PROVE  FlagInv'
<1>1. \A c \in Batches : handlerGeneration <= 1 /\ InProgress(c) => c = b
  BY DEF FlagInv, OneBatchAtATime
<1>2. \A c \in Batches : handlerGeneration <= 1 /\ InProgress(c)' => running'
  <2> SUFFICES ASSUME NEW c \in Batches, handlerGeneration <= 1, InProgress(c)'
               PROVE  running'
    OBVIOUS
  <2>1. InProgress(c) /\ c = b
    BY <1>1
  <2>2. running
    BY <2>1 DEF FlagInv
  <2>3. running' = running
    BY <2>1
  <2> QED
    BY <2>2, <2>3, Zenon
<1>3. OneBatchAtATime'
  BY <1>1 DEF OneBatchAtATime
<1> QED
  BY <1>2, <1>3 DEF FlagInv

\* Every step keeps batches apart: only a second registration clears the flag
\* under a batch in progress.
LEMMA FlagStep ==
  ASSUME TypeOK, FlagInv, [Next]_vars
  PROVE  FlagInv'
<1>0. /\ handlerGeneration \in Nat /\ handler \in 0..handlerGeneration
      /\ batch \in [Batches -> BatchRecords]
  BY TypeParts, HeartbeatAssumption DEF HeartbeatAssumption
<1>1. ASSUME UNCHANGED <<handlerGeneration, batch, running>>
      PROVE  FlagInv'
  BY <1>1 DEF FlagInv, OneBatchAtATime, InProgress
<1>2. ASSUME NEW b \in Batches, TakeBatch(b), handler # 0, ~running,
             UNCHANGED handlerGeneration
      PROVE  FlagInv'
  <2>1. /\ handlerGeneration # 0
        /\ handlerGeneration <= 1 => \A c \in Batches : ~InProgress(c)
    BY <1>0, <1>2 DEF FlagInv
  <2>2. \A c \in Batches : c # b => InProgress(c)' = InProgress(c)
    BY <1>0, <1>2 DEF TakeBatch, InProgress
  <2>3. running'
    BY <1>2, Zenon DEF TakeBatch
  <2> QED
    BY <1>2, <2>1, <2>2, <2>3 DEF FlagInv, OneBatchAtATime
<1>3. ASSUME NEW b \in Batches, TimerFires(b)
      PROVE  FlagInv'
  <2>1. \/ UNCHANGED <<handlerGeneration, batch, running>>
        \/ TakeBatch(b) /\ handler # 0 /\ ~running /\ UNCHANGED handlerGeneration
    BY <1>3, Zenon DEF TimerFires
  <2> QED
    BY <1>1, <1>2, <2>1
<1>4. ASSUME NEW b \in Batches, NEW k \in Targets, NEW busy \in BOOLEAN,
             WakeReturns(b, k, busy)
      PROVE  FlagInv'
  <2>1. InProgress(b) /\ handlerGeneration' = handlerGeneration
    BY <1>4 DEF WakeReturns, InProgress
  <2>2. CASE batch' = [batch EXCEPT ![b] = NoBatch]
    BY <1>0, <2>1, <2>2, FlagEnds DEF InProgress, NoBatch
  <2>3. CASE batch' = [batch EXCEPT ![b].left = @ \ {k}] /\ running' = running
    BY <1>0, <2>1, <2>3, FlagEnds DEF InProgress, BatchRecords
  <2> QED
    BY <1>4, <2>2, <2>3, Zenon DEF WakeReturns, Finally
<1>5. ASSUME NEW b \in Batches, NEW k \in Targets, WakeThrows(b, k)
      PROVE  FlagInv'
  <2>1. InProgress(b) /\ handlerGeneration' = handlerGeneration
    BY <1>5 DEF WakeThrows, InProgress
  <2>2. batch' = [batch EXCEPT ![b] = NoBatch]
    BY <1>5 DEF WakeThrows, Finally
  <2> QED
    BY <1>0, <2>1, <2>2, FlagEnds DEF InProgress, NoBatch
<1>6. ASSUME SetHandler \/ ClearHandler PROVE FlagInv'
  <2>1. handlerGeneration' = handlerGeneration + 1 /\ batch' = batch
    BY <1>6 DEF SetHandler, ClearHandler
  <2>2. handlerGeneration' <= 1 => \A b \in Batches : ~InProgress(b)'
    BY <1>0, <2>1 DEF FlagInv, InProgress
  <2> QED
    BY <1>0, <2>1, <2>2 DEF FlagInv, OneBatchAtATime
<1>7. (\E k \in Targets, q \in Requests, delay \in Delays : RequestHeartbeat(k, q, delay))
      \/ Tick \/ UNCHANGED vars => UNCHANGED <<handlerGeneration, batch, running>>
  BY DEF RequestHeartbeat, Tick, vars
<1> QED
  BY <1>1, <1>3, <1>4, <1>5, <1>6, <1>7 DEF Next

\* Until a lifecycle starts over an earlier one, the running flag keeps a
\* timer from starting a batch beside another.
THEOREM BatchesKeptApart == Spec => []OneBatchAtATime
<1>1. Init => FlagInv
  BY DEF Init, FlagInv, OneBatchAtATime, InProgress, NoBatch
<1>2. TypeOK /\ FlagInv /\ [Next]_vars => FlagInv'
  BY FlagStep
<1>3. FlagInv => OneBatchAtATime
  BY DEF FlagInv
<1> QED
  BY <1>1, <1>2, <1>3, HeartbeatTypeCorrect, PTL DEF Spec

-----------------------------------------------------------------------------
(* No wake is forgotten *)

\* What keeps the wake that target k is owed.
Kept(k) ==
  \/ pendingWakes[k] >= owed[k]
  \/ \E b \in Batches : k \in batch[b].left /\ batch[b].wakes[k] >= owed[k]

\* Numbers, for the comparisons below.
LEMMA WakeNumbers ==
  ASSUME NEW w \in Wakes, NEW k \in Targets
  PROVE  w[k] \in Int
<1>1. NoWake \in Int
  BY DEF NoWake
<1>2. Priorities \cup {NoWake} \subseteq Int
  BY <1>1, PriorityFacts
<1> QED
  BY <1>2 DEF Wakes

\* A step that leaves batches and history alone and lowers no pending wake
\* keeps every retry.
LEMMA OwedQuiet ==
  ASSUME TypeOK, TypeOK', RetryOwed, UNCHANGED <<batch, owed>>,
         \A k \in Targets : pendingWakes'[k] >= pendingWakes[k]
  PROVE  RetryOwed'
<1>1. \A k \in Targets : pendingWakes[k] \in Int /\ pendingWakes'[k] \in Int /\ owed[k] \in Int
  BY WakeNumbers, TypeParts DEF TypeOK, Wakes
<1> QED
  BY <1>1 DEF RetryOwed

\* An attempt that returns: a busy target is pending again, the others are
\* where they were.
LEMMA OwedReturn ==
  ASSUME TypeOK, TypeOK', RetryOwed, NEW b \in Batches, NEW k \in Targets,
         NEW busy \in BOOLEAN, WakeReturns(b, k, busy)
  PROVE  RetryOwed'
<1> SUFFICES ASSUME NEW j \in Targets, owed'[j] # NoWake
             PROVE  Kept(j)'
  BY DEF RetryOwed, Kept
<1>0. /\ pendingWakes \in Wakes /\ owed \in Wakes
      /\ batch \in [Batches -> BatchRecords] /\ batch[b].wakes \in Wakes
      /\ k \in batch[b].left
  BY TypeParts DEF BatchRecords, WakeReturns
<1> DEFINE p == batch[b].wakes[k]
<1>1. p \in Priorities \cup {NoWake}
  BY <1>0 DEF Wakes
<1>2. Only(k, p) \in Wakes /\ Only(k, p)[k] = p /\ (j # k => Only(k, p)[j] = NoWake)
  BY <1>1, OnlyFacts DEF Only
<1>3. /\ pendingWakes[j] \in Int /\ owed[j] \in Int /\ p \in Int
      /\ pendingWakes'[j] \in Int
      /\ \A c \in Batches : batch[c].wakes[j] \in Int
  <2>1. pendingWakes' \in Wakes
    BY DEF TypeOK, Wakes
  <2> QED
    BY <1>0, <2>1, WakeNumbers DEF BatchRecords
<1>4. /\ \A c \in Batches : c # b => batch'[c] = batch[c]
      /\ j \in batch[b].left /\ j # k =>
           j \in batch'[b].left /\ batch'[b].wakes = batch[b].wakes
  <2>1. CASE batch[b].left = {k} /\ batch' = [batch EXCEPT ![b] = NoBatch]
    BY <1>0, <2>1
  <2>2. CASE batch' = [batch EXCEPT ![b].left = @ \ {k}]
    BY <1>0, <2>2 DEF BatchRecords
  <2> QED
    BY <2>1, <2>2 DEF WakeReturns, Finally
<1>5. CASE busy
  <2>1. /\ pendingWakes'[j] >= pendingWakes[j]
        /\ j = k => pendingWakes'[j] >= p
        /\ owed'[j] \in {owed[j], Only(k, p)[j]}
    BY <1>0, <1>2, <1>5, QueuePendingFacts DEF WakeReturns
  <2>2. CASE owed'[j] = p /\ j = k
    BY <2>1, <2>2 DEF Kept
  <2>3. CASE owed'[j] = owed[j]
    <3>1. Kept(j)
      BY <2>3 DEF RetryOwed, Kept
    <3>2. CASE pendingWakes[j] >= owed[j]
      BY <1>3, <2>1, <2>3, <3>2 DEF Kept
    <3>3. ASSUME NEW c \in Batches, j \in batch[c].left, batch[c].wakes[j] >= owed[j]
          PROVE  Kept(j)'
      <4>1. CASE c = b /\ j = k
        BY <1>3, <2>1, <2>3, <3>3, <4>1 DEF Kept
      <4>2. CASE c # b \/ j # k
        <5>1. j \in batch'[c].left /\ batch'[c].wakes = batch[c].wakes
          BY <1>4, <3>3, <4>2
        <5> QED
          BY <2>3, <3>3, <5>1 DEF Kept
      <4> QED
        BY <4>1, <4>2
    <3> QED
      BY <3>1, <3>2, <3>3 DEF Kept
  <2> QED
    BY <1>2, <2>1, <2>2, <2>3
<1>6. CASE ~busy
  <2>1. /\ pendingWakes' = pendingWakes
        /\ owed'[j] = IF j = k THEN pendingWakes[j] ELSE owed[j]
    BY <1>0, <1>6 DEF WakeReturns, Wakes
  <2>2. CASE j = k
    BY <1>3, <2>1, <2>2 DEF Kept
  <2>3. CASE j # k
    <3>1. Kept(j)
      BY <2>1, <2>3 DEF RetryOwed, Kept
    <3> QED
      BY <1>4, <2>1, <2>3, <3>1 DEF Kept
  <2> QED
    BY <2>2, <2>3
<1> QED
  BY <1>5, <1>6

\* An attempt that throws: all of its batch is pending again.
LEMMA OwedThrow ==
  ASSUME TypeOK, TypeOK', RetryOwed, NEW b \in Batches, NEW k \in Targets,
         WakeThrows(b, k)
  PROVE  RetryOwed'
<1> SUFFICES ASSUME NEW j \in Targets, owed'[j] # NoWake
             PROVE  Kept(j)'
  BY DEF RetryOwed, Kept
<1>0. /\ pendingWakes \in Wakes /\ owed \in Wakes
      /\ batch \in [Batches -> BatchRecords] /\ k \in batch[b].left
  BY TypeParts DEF WakeThrows
<1>1. batch[b].wakes \in Wakes /\ Unattempted(b) \in Wakes
      /\ batch' = [batch EXCEPT ![b] = NoBatch]
  BY <1>0, ThrowFacts
<1>2. /\ pendingWakes[j] \in Int /\ owed[j] \in Int /\ pendingWakes'[j] \in Int
      /\ batch[b].wakes[j] \in Int
  <2>1. pendingWakes' \in Wakes
    BY DEF TypeOK, Wakes
  <2> QED
    BY <1>0, <1>1, <2>1, WakeNumbers
<1>3. /\ pendingWakes'[j] >= pendingWakes[j] /\ pendingWakes'[j] >= batch[b].wakes[j]
      /\ owed'[j] \in {owed[j], Unattempted(b)[j]}
  BY <1>0, <1>1, QueuePendingFacts DEF WakeThrows
<1>4. CASE owed'[j] = Unattempted(b)[j]
  BY <1>3, <1>4 DEF Unattempted, Kept
<1>5. CASE owed'[j] = owed[j]
  <2>1. Kept(j)
    BY <1>5 DEF RetryOwed, Kept
  <2>2. CASE pendingWakes[j] >= owed[j]
    BY <1>2, <1>3, <1>5, <2>2 DEF Kept
  <2>3. ASSUME NEW c \in Batches, j \in batch[c].left, batch[c].wakes[j] >= owed[j]
        PROVE  Kept(j)'
    <3>1. CASE c = b
      BY <1>2, <1>3, <1>5, <2>3, <3>1 DEF Kept
    <3>2. CASE c # b
      <4>1. batch'[c] = batch[c]
        BY <1>0, <1>1, <3>2
      <4> QED
        BY <1>5, <2>3, <4>1 DEF Kept
    <3> QED
      BY <3>1, <3>2
  <2> QED
    BY <2>1, <2>2, <2>3 DEF Kept
<1> QED
  BY <1>3, <1>4, <1>5

\* Every step keeps what is owed pending or in a batch.
LEMMA OwedStep ==
  ASSUME TypeOK, TypeOK', RetryOwed, [Next]_vars
  PROVE  RetryOwed'
<1>0. /\ pendingWakes \in Wakes /\ owed \in Wakes
      /\ batch \in [Batches -> BatchRecords]
  BY TypeParts
<1>n. \A k \in Targets : /\ pendingWakes[k] \in Int /\ owed[k] \in Int
                         /\ pendingWakes[k] >= pendingWakes[k]
  BY <1>0, WakeNumbers
<1>1. ASSUME NEW k \in Targets, NEW q \in Requests, NEW delay \in Delays,
             RequestHeartbeat(k, q, delay)
      PROVE  RetryOwed'
  <2>1. ResolveWakePriority(q) \in Priorities
    BY DEF Priorities
  <2>2. Only(k, ResolveWakePriority(q)) \in Wakes
    BY <2>1, OnlyFacts
  <2> DEFINE o == Only(k, ResolveWakePriority(q))
  <2> SUFFICES ASSUME NEW j \in Targets, owed'[j] # NoWake
               PROVE  Kept(j)'
    BY DEF RetryOwed, Kept
  <2>3. /\ pendingWakes' \in Wakes /\ o[j] \in Int
        /\ pendingWakes'[j] >= pendingWakes[j] /\ pendingWakes'[j] >= o[j]
        /\ owed'[j] \in {owed[j], o[j]} /\ batch' = batch
    BY <1>0, <1>1, <2>2, QueuePendingFacts, WakeNumbers DEF RequestHeartbeat
  <2>4. pendingWakes'[j] \in Int /\ pendingWakes[j] \in Int /\ owed[j] \in Int
    BY <1>n, <2>3, WakeNumbers
  <2> HIDE DEF o
  <2>5. CASE owed'[j] = o[j]
    BY <2>3, <2>5 DEF Kept
  <2>6. CASE owed'[j] = owed[j]
    <3>1. Kept(j)
      BY <2>6 DEF RetryOwed, Kept
    <3> QED
      BY <2>3, <2>4, <2>6, <3>1 DEF Kept
  <2> QED
    BY <2>3, <2>5, <2>6
<1>2. ASSUME UNCHANGED <<pendingWakes, batch, owed>>
      PROVE  RetryOwed'
  BY <1>n, <1>2, OwedQuiet
<1>3. ASSUME NEW b \in Batches, TakeBatch(b), ~InProgress(b), UNCHANGED owed
      PROVE  RetryOwed'
  <2> SUFFICES ASSUME NEW k \in Targets, owed[k] # NoWake
               PROVE  Kept(k)'
    BY <1>3 DEF RetryOwed, Kept
  <2>1. /\ batch'[b].left = Wanted(pendingWakes) /\ batch'[b].wakes = pendingWakes
        /\ \A c \in Batches : c # b => batch'[c] = batch[c]
    BY <1>0, <1>3 DEF TakeBatch
  <2>2. CASE pendingWakes[k] >= owed[k]
    <3>1. pendingWakes[k] # NoWake
      <4>1. owed[k] > NoWake
        BY <1>0, PriorityFacts DEF Wakes
      <4> QED
        BY <1>n, <2>2, <4>1 DEF NoWake
    <3> QED
      BY <1>3, <2>1, <2>2, <3>1 DEF Kept, Wanted
  <2>3. CASE \E c \in Batches : k \in batch[c].left /\ batch[c].wakes[k] >= owed[k]
    <3> PICK c \in Batches : k \in batch[c].left /\ batch[c].wakes[k] >= owed[k]
      BY <2>3
    <3>1. c # b
      BY <1>3 DEF InProgress
    <3> QED
      BY <1>3, <2>1, <3>1 DEF Kept
  <2> QED
    BY <2>2, <2>3 DEF RetryOwed
<1>4. ASSUME NEW b \in Batches, NEW k \in Targets, NEW busy \in BOOLEAN,
             WakeReturns(b, k, busy)
      PROVE  RetryOwed'
  BY <1>4, OwedReturn
<1>5. ASSUME NEW b \in Batches, NEW k \in Targets, WakeThrows(b, k)
      PROVE  RetryOwed'
  BY <1>5, OwedThrow
<1>6. ASSUME NEW b \in Batches, TimerFires(b)
      PROVE  RetryOwed'
  <2>1. \/ UNCHANGED <<pendingWakes, batch, owed>>
        \/ TakeBatch(b) /\ ~InProgress(b) /\ UNCHANGED owed
    BY <1>6, Zenon DEF TimerFires
  <2> QED
    BY <1>2, <1>3, <2>1
<1>7. Tick \/ SetHandler \/ ClearHandler \/ UNCHANGED vars =>
        UNCHANGED <<pendingWakes, batch, owed>>
  BY DEF Tick, SetHandler, ClearHandler, vars
<1> QED
  BY <1>1, <1>2, <1>4, <1>5, <1>6, <1>7 DEF Next

\* A wake that was requested, was busy, or whose batch failed, is never forgotten.
THEOREM RetriesAlwaysOwed == Spec => []RetryOwed
<1>1. Init => RetryOwed
  BY DEF Init, RetryOwed
<1>2. TypeOK /\ TypeOK' /\ RetryOwed /\ [Next]_vars => RetryOwed'
  BY OwedStep
<1> QED
  BY <1>1, <1>2, HeartbeatTypeCorrect, PTL DEF Spec

=============================================================================
