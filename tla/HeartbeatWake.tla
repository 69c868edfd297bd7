---------------------------- MODULE HeartbeatWake ----------------------------
(***************************************************************************)
(* Heartbeat wake requests, src/src/infra/heartbeat-wake.ts: requests are  *)
(* coalesced per target behind one timer, a batch of them is handed to the *)
(* registered handler one by one, and a busy or failed attempt is queued   *)
(* again behind a retry timer.  Registering a handler starts a lifecycle   *)
(* while a batch of an earlier one may still be running.                   *)
(*                                                                         *)
(* Time is counted in ticks.  Of a wake only its priority is kept: source, *)
(* reason and override are replaced with it.                               *)
(***************************************************************************)
EXTENDS Integers

CONSTANTS
  Targets,          \* wake target keys
  Requests,         \* source (or reason) and intent of the requests made
  Delays,           \* coalesceMs the callers pass
  DefaultCoalesce,  \* DEFAULT_COALESCE_MS
  DefaultRetry,     \* DEFAULT_RETRY_MS
  Batches,          \* bound: batches in progress at a time
  MaxGeneration     \* bound: handlerGeneration

ASSUME HeartbeatAssumption ==
  /\ Requests \subseteq [source : STRING, intent : STRING]
  /\ Delays \subseteq Nat /\ DefaultCoalesce \in Nat /\ DefaultRetry \in Nat
  /\ MaxGeneration \in Nat

VARIABLES
  handler,            \* generation of the handler registered, 0 for none
  handlerGeneration,
  pendingWakes,       \* priority of the wake pending for a target, or NoWake
  scheduled, running,
  timer,              \* timer, timerDueAt, timerKind and the delay it closes over
  batch,              \* the timer callbacks that are processing a batch
  owed,               \* history: priority of the wakes of a target yet to be served
  last                \* history: the target whose attempt ended last

vars == <<handler, handlerGeneration, pendingWakes, scheduled, running, timer,
          batch, owed, last>>

NoWake == -1
NoTimer == [kind |-> "none", due |-> 0, delay |-> 0]

\* resolveWakePriority: retry 0, interval 1, default 2, action 3.
ResolveWakePriority(q) ==
  IF q.intent \in {"manual", "immediate"} THEN 3
  ELSE IF q.source = "retry" THEN 0
  ELSE IF q.intent = "scheduled" \/ q.source = "interval" THEN 1
  ELSE 2

Priorities == {ResolveWakePriority(q) : q \in Requests}

\* A batch in progress: what it took, what is left of it (the code attempts the
\* targets in the order of their first request, the model in any order), and
\* the delay of the timer that started it.
NoBatch == [wakes |-> [k \in Targets |-> NoWake], left |-> {}, delay |-> 0]

InProgress(b) == batch[b].left # {}

Wanted(w) == {k \in Targets : w[k] # NoWake}

-----------------------------------------------------------------------------
\* queuePendingWakeReason on the map w, for the targets of wakes: the higher
\* priority stays, the newer wake among equals.
QueuePending(w, wakes) ==
  [k \in Targets |-> IF wakes[k] > w[k] THEN wakes[k] ELSE w[k]]

Only(k, p) == [j \in Targets |-> IF j = k THEN p ELSE NoWake]

\* schedule: what becomes of timer t.
Schedule(t, delay, kind) ==
  IF t.kind = "retry" \/ (t.kind = "normal" /\ t.due <= delay)
  THEN t
  ELSE [kind |-> kind, due |-> delay, delay |-> delay]

-----------------------------------------------------------------------------
\* requestHeartbeat
RequestHeartbeat(k, q, delay) ==
  /\ pendingWakes' = QueuePending(pendingWakes, Only(k, ResolveWakePriority(q)))
  /\ timer' = Schedule(timer, delay, "normal")
  /\ owed' = QueuePending(owed, Only(k, ResolveWakePriority(q)))
  /\ UNCHANGED <<handler, handlerGeneration, scheduled, running, batch, last>>

\* Time passes; a due timer may be late.
Tick ==
  /\ timer.due > 0
  /\ timer' = [timer EXCEPT !.due = @ - 1]
  /\ UNCHANGED <<handler, handlerGeneration, pendingWakes, scheduled, running, batch, owed,
                 last>>

TakeBatch(b) ==
  /\ batch' = [batch EXCEPT ![b] =
       [wakes |-> pendingWakes, left |-> Wanted(pendingWakes), delay |-> timer.delay]]
  /\ pendingWakes' = [k \in Targets |-> NoWake]
  /\ running' = TRUE

\* Seeded fault: a due timer takes a batch although one is being processed.
TimerFiresRegardless(b) ==
  /\ timer # NoTimer /\ timer.due = 0
  /\ handler # 0 /\ Wanted(pendingWakes) # {} /\ ~InProgress(b)
  /\ scheduled' = FALSE /\ timer' = NoTimer
  /\ TakeBatch(b)
  /\ UNCHANGED <<handler, handlerGeneration, owed, last>>

\* Seeded fault: while a batch runs a due timer is dropped, not armed again.
TimerFiresDropped(b) ==
  /\ timer # NoTimer /\ timer.due = 0
  /\ scheduled' = FALSE /\ timer' = NoTimer
  /\ IF handler = 0 \/ running \/ Wanted(pendingWakes) = {}
     THEN UNCHANGED <<pendingWakes, running, batch>>
     ELSE ~InProgress(b) /\ TakeBatch(b)
  /\ UNCHANGED <<handler, handlerGeneration, owed, last>>

\* The timer's callback: nothing without a handler, again later while a batch
\* runs, otherwise the pending wakes become batch b.
TimerFires(b) ==
  /\ timer # NoTimer /\ timer.due = 0
  /\ UNCHANGED <<handler, handlerGeneration, owed, last>>
  /\ \/ /\ handler = 0 \/ (~running /\ Wanted(pendingWakes) = {})
        /\ scheduled' = FALSE /\ timer' = NoTimer
        /\ UNCHANGED <<pendingWakes, running, batch>>
     \/ /\ handler # 0 /\ running
        /\ scheduled' = TRUE
        /\ timer' = [timer EXCEPT !.due = timer.delay]
        /\ UNCHANGED <<pendingWakes, running, batch>>
     \/ /\ handler # 0 /\ ~running /\ Wanted(pendingWakes) # {}
        /\ scheduled' = FALSE /\ timer' = NoTimer
        /\ ~InProgress(b)
        /\ TakeBatch(b)

\* The finally block, given the pending wakes w and the timer t it finds.
Finally(b, w, t) ==
  /\ running' = FALSE
  /\ timer' = IF Wanted(w) # {} \/ scheduled THEN Schedule(t, batch[b].delay, "normal")
                                             ELSE t
  /\ batch' = [batch EXCEPT ![b] = NoBatch]

\* The handler's answer for target k of batch b: it ran (or was skipped for
\* good), or it was busy and is queued again.
WakeReturns(b, k, busy) ==
  /\ k \in batch[b].left
  /\ LET w == IF busy THEN QueuePending(pendingWakes, Only(k, batch[b].wakes[k]))
                      ELSE pendingWakes
         t == IF busy THEN Schedule(timer, DefaultRetry, "retry") ELSE timer
     IN /\ pendingWakes' = w
        /\ \/ /\ batch[b].left = {k}
              /\ Finally(b, w, t)
           \/ /\ batch[b].left # {k}
              /\ timer' = t
              /\ batch' = [batch EXCEPT ![b].left = @ \ {k}]
              /\ UNCHANGED running
  /\ owed' = IF busy THEN QueuePending(owed, Only(k, batch[b].wakes[k]))
                     ELSE [owed EXCEPT ![k] = pendingWakes[k]]
  /\ last' = {k}
  /\ UNCHANGED <<handler, handlerGeneration, scheduled>>

\* The wakes of batch b whose attempt has not ended.
Unattempted(b) ==
  [k \in Targets |-> IF k \in batch[b].left THEN batch[b].wakes[k] ELSE NoWake]

\* Seeded fault: only the wakes not attempted yet are queued again, and the
\* one that failed is forgotten.
WakeThrowsForgets(b, k) ==
  /\ k \in batch[b].left
  /\ LET w == QueuePending(pendingWakes,
                [j \in Targets |-> IF j = k THEN NoWake ELSE batch[b].wakes[j]])
     IN pendingWakes' = w /\ Finally(b, w, timer)
  /\ owed' = QueuePending(owed, Unattempted(b))
  /\ last' = {k}
  /\ UNCHANGED <<handler, handlerGeneration, scheduled>>

\* The attempt for k throws: the whole batch is queued again.
WakeThrows(b, k) ==
  /\ k \in batch[b].left
  /\ LET w == QueuePending(pendingWakes, batch[b].wakes)
     IN /\ pendingWakes' = w
        /\ Finally(b, w, Schedule(timer, DefaultRetry, "retry"))
  /\ owed' = QueuePending(owed, Unattempted(b))
  /\ last' = {k}
  /\ UNCHANGED <<handler, handlerGeneration, scheduled>>

-----------------------------------------------------------------------------
\* Seeded fault: a new handler clears the old timer and leaves it at that.
SetHandlerWithoutSchedule ==
  /\ handlerGeneration < MaxGeneration
  /\ handlerGeneration' = handlerGeneration + 1
  /\ handler' = handlerGeneration'
  /\ running' = FALSE /\ scheduled' = FALSE
  /\ timer' = NoTimer
  /\ UNCHANGED <<pendingWakes, batch, owed, last>>

\* setHeartbeatWakeHandler with a handler: a new lifecycle.
SetHandler ==
  /\ handlerGeneration < MaxGeneration
  /\ handlerGeneration' = handlerGeneration + 1
  /\ handler' = handlerGeneration'
  /\ running' = FALSE /\ scheduled' = FALSE
  /\ timer' = IF Wanted(pendingWakes) # {} THEN Schedule(NoTimer, DefaultCoalesce, "normal")
                                           ELSE NoTimer
  /\ UNCHANGED <<pendingWakes, batch, owed, last>>

\* setHeartbeatWakeHandler(null), or the disposer of the current registration;
\* that of an earlier one does nothing.
ClearHandler ==
  /\ handlerGeneration < MaxGeneration
  /\ handlerGeneration' = handlerGeneration + 1
  /\ handler' = 0
  /\ UNCHANGED <<pendingWakes, scheduled, running, timer, batch, owed, last>>

-----------------------------------------------------------------------------
Init ==
  /\ handler = 0 /\ handlerGeneration = 0
  /\ pendingWakes = [k \in Targets |-> NoWake]
  /\ scheduled = FALSE /\ running = FALSE
  /\ timer = NoTimer
  /\ batch = [b \in Batches |-> NoBatch]
  /\ owed = [k \in Targets |-> NoWake] /\ last = {}

Next ==
  \/ \E k \in Targets, q \in Requests, delay \in Delays : RequestHeartbeat(k, q, delay)
  \/ Tick
  \/ \E b \in Batches : TimerFires(b)
  \/ \E b \in Batches, k \in Targets, busy \in BOOLEAN : WakeReturns(b, k, busy)
  \/ \E b \in Batches, k \in Targets : WakeThrows(b, k)
  \/ SetHandler
  \/ ClearHandler

Spec == Init /\ [][Next]_vars

\* An attempt for k ends, one way or another.
AttemptEnds(b, k) == (\E busy \in BOOLEAN : WakeReturns(b, k, busy)) \/ WakeThrows(b, k)

\* Time passes, due timers fire, and the attempts of a batch end.
HeartbeatFairness ==
  /\ WF_vars(Tick)
  /\ WF_vars(\E b \in Batches : TimerFires(b))
  /\ \A b \in Batches : WF_vars(\E k \in Targets : AttemptEnds(b, k))

LiveSpec == Spec /\ HeartbeatFairness

-----------------------------------------------------------------------------
(* Properties *)

\* The variables have the shapes of the module's state.
TypeOK ==
  /\ handlerGeneration \in 0..MaxGeneration /\ handler \in 0..handlerGeneration
  /\ pendingWakes \in [Targets -> Priorities \cup {NoWake}]
  /\ scheduled \in BOOLEAN /\ running \in BOOLEAN
  /\ timer \in [kind : {"none", "normal", "retry"}, due : Nat, delay : Nat]
  /\ batch \in [Batches -> [wakes : [Targets -> Priorities \cup {NoWake}],
                            left : SUBSET Targets, delay : Nat]]
  /\ owed \in [Targets -> Priorities \cup {NoWake}] /\ last \subseteq Targets

\* No wake is stranded: with a handler registered a pending wake has a timer
\* armed, across busy skips, failures, lifecycles and stale batches.
NoStrandedWake ==
  handler # 0 /\ Wanted(pendingWakes) # {} => timer # NoTimer

\* The running flag keeps batches apart: until a lifecycle starts over an
\* earlier one at most one batch is in progress.
OneBatchAtATime ==
  handlerGeneration <= 1 =>
    \A b, c \in Batches : InProgress(b) /\ InProgress(c) => b = c

\* No wake is forgotten: one that was requested, was busy, or whose batch failed
\* before its attempt ended, stays pending or in a batch with at least its
\* priority until an attempt for its target returns without being busy.
RetryOwed ==
  \A k \in Targets :
    owed[k] # NoWake =>
      \/ pendingWakes[k] >= owed[k]
      \/ \E b \in Batches : k \in batch[b].left /\ batch[b].wakes[k] >= owed[k]

\* The attempt for another target throws while k waits behind it: k is put back
\* without an attempt.
PutBack(k) ==
  \E b \in Batches, j \in Targets \ {k} : k \in batch[b].left /\ WakeThrows(b, j)

\* A wake that is owed gets an attempt which ends, as long as a handler is
\* registered, although lifecycles start over, other targets are busy and its
\* own attempts fail.  The hypothesis is that other targets do not go on
\* throwing in front of it: each time the whole batch is put back, and behind a
\* target that always throws a wake starves.
WakeIsServed ==
  \A k \in Targets :
    <>[][~PutBack(k)]_vars =>
      \/ []<>(owed[k] = NoWake \/ handler = 0)
      \/ []<><<\E b \in Batches : AttemptEnds(b, k)>>_vars
=============================================================================
