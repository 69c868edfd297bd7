---------------------------- MODULE DeliveryQueue ----------------------------
(***************************************************************************)
(* The durable outbound delivery queue: src/src/infra/outbound/deliver.ts  *)
(* (the live send), delivery-queue-storage.ts and delivery-queue-sqlite.ts *)
(* (the rows) and delivery-queue-recovery.ts (startup recovery and         *)
(* reconnect drains).  A message is written to the queue before it is sent *)
(* and removed after; a row that was left behind by a crash or a failure   *)
(* is replayed only when a second send cannot reach the recipient twice.   *)
(*                                                                         *)
(* Rows survive a crash; the claims (entriesInProgress), the drains and    *)
(* the running attempts do not.  SQLite calls are synchronous, so what a   *)
(* function writes between two awaits is one action; any of those writes   *)
(* may fail, up to MaxFaults times.  While an attempt holds the claim of   *)
(* its entry nobody else writes the row, so a write and the fallbacks it   *)
(* runs when it fails are one action with one outcome.                     *)
(*                                                                         *)
(* A payload is one platform send.  What the recipient has seen is         *)
(* `visible`.  Four promises of the channel adapters are external: visible *)
(* output comes only after onPlatformSendDispatch, and once per call of    *)
(* the handler; an error that counts as proof of no dispatch is never      *)
(* thrown after the message became visible; a send that returns no         *)
(* identity showed nothing; and reconcileUnknownSend does not lie.         *)
(***************************************************************************)
EXTENDS Naturals, Sequences, FiniteSets

CONSTANTS
  Entries,       \* queue entries
  Options,       \* what the caller asked for, and what the channel can do
  MaxPayloads,   \* bound: payloads of an entry
  Drains,        \* the startup recovery and the drains, one per drainKey
  MaxRetries,    \* MAX_RETRIES
  MaxFaults,     \* bound: writes to the queue that fail
  MaxCrashes,    \* bound: crashes of the process
  None

ASSUME DeliveryAssumption ==
  /\ MaxPayloads \in Nat \ {0}
  /\ MaxRetries \in Nat \ {0} /\ MaxFaults \in Nat /\ MaxCrashes \in Nat
  /\ Options \subseteq [policy : {"required", "best_effort"},
                        bestEffort : BOOLEAN, exact : BOOLEAN,
                        reconciles : BOOLEAN, payloads : 1..MaxPayloads]
  /\ \A o \in Options : o.exact => o.payloads = 1
  /\ None \notin Entries

VARIABLES
  \* delivery_queue_entries
  row,           \* "none", "pending", "failed" or "deleted"
  recoveryState, \* "none", "started" (send_attempt_started), "unknown" (unknown_after_send)
  retryCount,
  \* the process
  entriesInProgress,
  caller,        \* the live sender: "none", "persisted", "sending", "done"
  opt,           \* what it asked for
  drain,         \* snapshot still to do, and the entry it is working on
  \* the attempt that holds the entry, variables of deliverOutboundPayloads-
  \* WithQueueCleanup and drainQueuedEntry
  mode,          \* "idle", "live", "direct" (no row) or "recovery"
  stage,
  unit,          \* next payload
  pre,           \* queuedPreSendState
  post,          \* queuedPostSendState, postSendState
  results,       \* platform sends with a result
  failures,      \* "no", or whether every payload failure is proven unsent
  \* outside
  visible,       \* how often the recipient has seen a payload
  skipped,       \* payloads suppressed, or answered without an identity
  terminals,     \* audit terminals of the entry
  crashes,
  faults

rowVars == <<row, recoveryState, retryCount>>
attemptVars == <<mode, stage, unit, pre, post, results, failures>>
worldVars == <<visible, skipped, terminals>>
vars == <<rowVars, entriesInProgress, caller, opt, drain, attemptVars, worldVars,
          crashes, faults>>

Units(e) == 1..opt[e].payloads

-----------------------------------------------------------------------------
(* The rows: each call changes one pending row, or throws ENOENT *)

SetRow(e, status, state, retries) ==
  /\ row' = [row EXCEPT ![e] = status]
  /\ recoveryState' = [recoveryState EXCEPT ![e] = state]
  /\ retryCount' = [retryCount EXCEPT ![e] = retries]

\* deleteDeliveryQueueEntry: no error when there is nothing to delete.
AckDelivery(e) ==
  SetRow(e, IF row[e] = "pending" THEN "deleted" ELSE row[e],
         recoveryState[e], retryCount[e])

\* Seeded fault: a failed attempt does not count.
FailDeliveryUncounted(e) ==
  row[e] = "pending" /\ SetRow(e, "pending", recoveryState[e], retryCount[e])

FailDelivery(e) ==
  row[e] = "pending" /\ SetRow(e, "pending", recoveryState[e], retryCount[e] + 1)

FailBeforePlatformSend(e) ==
  row[e] = "pending" /\ SetRow(e, "pending", "none", retryCount[e] + 1)

FailAfterPlatformSend(e) ==
  row[e] = "pending" /\ SetRow(e, "pending", "unknown", retryCount[e] + 1)

MarkSendAttemptStarted(e) ==
  row[e] = "pending" /\ SetRow(e, "pending", "started", retryCount[e])

MarkOutcomeUnknown(e) ==
  row[e] = "pending" /\ SetRow(e, "pending", "unknown", retryCount[e])

MoveToFailed(e) ==
  row[e] = "pending" /\ SetRow(e, "failed", recoveryState[e], retryCount[e])

Written == UNCHANGED faults

\* A write to the database fails.
WriteFails == faults < MaxFaults /\ faults' = faults + 1

\* An update fails, because of the database or because the row is gone.
UpdateFails(e) == (row[e] # "pending" /\ Written) \/ WriteFails

NoWrite == UNCHANGED rowVars

-----------------------------------------------------------------------------
(* One attempt *)

Running(e) == mode[e] # "idle"

Queued(e) == mode[e] \in {"live", "recovery"}

\* emitOutboundAuditTerminals
Emit(e, outcome) == terminals' = [terminals EXCEPT ![e] = Append(@, outcome)]

Quiet == UNCHANGED terminals

\* The locals of a fresh attempt.
Begin(e, m, s) ==
  /\ mode' = [mode EXCEPT ![e] = m]
  /\ stage' = [stage EXCEPT ![e] = s]
  /\ unit' = [unit EXCEPT ![e] = 1]
  /\ pre' = [pre EXCEPT ![e] = "none"]
  /\ post' = [post EXCEPT ![e] = "none"]
  /\ results' = [results EXCEPT ![e] = 0]
  /\ failures' = [failures EXCEPT ![e] = "no"]

\* The drain that works on e goes on with the rest of its snapshot.
DrainReleases(e) ==
  drain' = [d \in Drains |->
    IF drain[d].current = e
    THEN [todo |-> drain[d].todo \ {e}, current |-> None] ELSE drain[d]]

\* The attempt is over: its claim is released.
Over(e) ==
  /\ mode' = [mode EXCEPT ![e] = "idle"]
  /\ stage' = [stage EXCEPT ![e] = "none"]
  /\ entriesInProgress' = entriesInProgress \ {e}
  /\ caller' = [caller EXCEPT ![e] = IF @ = "sending" THEN "done" ELSE @]
  /\ DrainReleases(e)
  /\ UNCHANGED <<unit, pre, post, results, failures>>

Stay == UNCHANGED <<entriesInProgress, caller, drain>>

\* The next payload, or the end of deliverOutboundPayloadsCore.
NextUnit(e) ==
  /\ unit' = [unit EXCEPT ![e] = @ + 1]
  /\ stage' = [stage EXCEPT ![e] = IF unit[e] = opt[e].payloads THEN "returned" ELSE "ready"]

\* Seeded fault: a best-effort failure goes unnoticed by the wrapper.
UnitFailsUnnoticed(e, why) ==
  \/ opt[e].bestEffort /\ NextUnit(e) /\ UNCHANGED failures
  \/ /\ ~opt[e].bestEffort
     /\ stage' = [stage EXCEPT ![e] = "threw"]
     /\ failures' = [failures EXCEPT ![e] = why]
     /\ UNCHANGED unit

\* The catch of one payload: rethrown unless the send is best effort.
UnitFails(e, why) ==
  \/ /\ opt[e].bestEffort
     /\ NextUnit(e)
     /\ failures' = [failures EXCEPT ![e] =
          IF why = "proven" /\ @ # "unproven" THEN "proven" ELSE "unproven"]
  \/ /\ ~opt[e].bestEffort
     /\ stage' = [stage EXCEPT ![e] = "threw"]
     /\ failures' = [failures EXCEPT ![e] = why]
     /\ UNCHANGED unit

\* The channel's handler cannot be made: the whole send throws.
SetupThrows(e, why) ==
  /\ Running(e) /\ stage[e] = "ready" /\ unit[e] = 1
  /\ stage' = [stage EXCEPT ![e] = "threw"]
  /\ failures' = [failures EXCEPT ![e] = why]
  /\ NoWrite /\ Written /\ Stay
  /\ UNCHANGED <<opt, mode, unit, pre, post, results, worldVars, crashes>>

\* A hook cancels the payload, or nothing of it is left to show.
Suppress(e) ==
  /\ Running(e) /\ stage[e] = "ready"
  /\ skipped' = [skipped EXCEPT ![e] = @ \cup {unit[e]}]
  /\ NextUnit(e)
  /\ NoWrite /\ Written /\ Stay
  /\ UNCHANGED <<opt, mode, pre, post, results, failures, visible, terminals, crashes>>

\* throwIfAborted, before the payload or in its loop over media, or an error
\* before the platform is asked: a hook, rendering, a connection refused.  Only
\* the live sender has a signal.
FailsEarly(e, why) ==
  /\ Running(e) /\ stage[e] \in {"ready", "sending"}
  /\ why = "abort" => mode[e] # "recovery"
  /\ UnitFails(e, why)
  /\ NoWrite /\ Written /\ Stay
  /\ UNCHANGED <<opt, mode, pre, post, results, worldVars, crashes>>

\* onPlatformSendStart with persistQueuedPreSendState.  When the marker cannot
\* be written the row of a best-effort send is removed before the platform is
\* asked; otherwise the payload fails.
PlatformSendStart(e) ==
  /\ Running(e) /\ stage[e] = "ready"
  /\ Stay
  /\ UNCHANGED <<opt, mode, results, worldVars, crashes>>
  /\ \/ /\ ~Queued(e) \/ opt[e].exact \/ pre[e] # "none"
        /\ stage' = [stage EXCEPT ![e] = "sending"]
        /\ NoWrite /\ Written
        /\ UNCHANGED <<unit, pre, post, failures>>
     \/ /\ Queued(e) /\ ~opt[e].exact /\ pre[e] = "none"
        /\ \/ /\ MarkSendAttemptStarted(e) /\ Written
              /\ pre' = [pre EXCEPT ![e] = "marked"]
              /\ stage' = [stage EXCEPT ![e] = "sending"]
              /\ UNCHANGED <<unit, post, failures>>
           \/ /\ opt[e].policy = "best_effort"
              /\ UpdateFails(e) /\ AckDelivery(e)
              /\ pre' = [pre EXCEPT ![e] = "acked"]
              /\ post' = [post EXCEPT ![e] = IF mode[e] = "live" THEN "acked" ELSE @]
              /\ stage' = [stage EXCEPT ![e] = "sending"]
              /\ UNCHANGED <<unit, failures>>
           \/ /\ UpdateFails(e) /\ NoWrite
              /\ UnitFails(e, "unproven")
              /\ UNCHANGED <<pre, post>>

\* onPlatformSendDispatch, which an adapter calls right before visible output.
\* For an exact send the marker is required.
PlatformSendDispatch(e) ==
  /\ Running(e) /\ stage[e] = "sending"
  /\ Stay
  /\ UNCHANGED <<opt, mode, post, results, worldVars, crashes>>
  /\ \/ /\ Queued(e) /\ pre[e] # "acked"
        /\ MarkSendAttemptStarted(e) /\ Written
        /\ pre' = [pre EXCEPT ![e] = "marked"]
        /\ stage' = [stage EXCEPT ![e] = "dispatching"]
        /\ UNCHANGED <<unit, failures>>
     \/ /\ Queued(e) /\ opt[e].exact
        /\ UpdateFails(e) /\ NoWrite
        /\ UnitFails(e, "unproven")
        /\ UNCHANGED pre
     \/ /\ ~(Queued(e) /\ opt[e].exact)
        /\ stage' = [stage EXCEPT ![e] = "dispatching"]
        /\ NoWrite /\ Written
        /\ UNCHANGED <<unit, pre, failures>>

\* The request reaches the platform: the recipient sees the payload, or not.
PlatformSend(e, shown) ==
  /\ Running(e) /\ stage[e] = "dispatching"
  /\ visible' = [visible EXCEPT ![e][unit[e]] = @ + IF shown THEN 1 ELSE 0]
  /\ stage' = [stage EXCEPT ![e] = IF shown THEN "shown" ELSE "unshown"]
  /\ NoWrite /\ Written /\ Stay
  /\ UNCHANGED <<opt, mode, unit, pre, post, results, failures, skipped, terminals,
                 crashes>>

\* The adapter throws.  Only an error that proves that nothing was dispatched
\* counts as proof.  An AbortError, of the live sender, may come at any time;
\* to a recovery it is an error like others.
SendThrows(e, why) ==
  /\ Running(e) /\ stage[e] \in {"shown", "unshown"}
  /\ why = "proven" => stage[e] = "unshown"
  /\ why = "abort" => mode[e] # "recovery"
  /\ UnitFails(e, why)
  /\ NoWrite /\ Written /\ Stay
  /\ UNCHANGED <<opt, mode, pre, post, results, worldVars, crashes>>

\* The adapter returns without an identity: the payload counts as suppressed.
SendReturnsNothing(e) ==
  /\ Running(e) /\ stage[e] = "unshown"
  /\ skipped' = [skipped EXCEPT ![e] = @ \cup {unit[e]}]
  /\ NextUnit(e)
  /\ NoWrite /\ Written /\ Stay
  /\ UNCHANGED <<opt, mode, pre, post, results, failures, visible, terminals, crashes>>

\* persistQueuedPostSendState and persistRecoveredPostSendState: the marker, or
\* else the removal of the row, or else a failure that keeps the evidence.
PersistPostSend(e) ==
  \/ MarkOutcomeUnknown(e) /\ Written /\ post' = [post EXCEPT ![e] = "marked"]
  \/ UpdateFails(e) /\ AckDelivery(e) /\ post' = [post EXCEPT ![e] = "acked"]
  \/ WriteFails /\ FailAfterPlatformSend(e) /\ post' = [post EXCEPT ![e] = "failed"]

PersistPostSendThrows == WriteFails /\ NoWrite /\ UNCHANGED post

\* The payload is done, unless pinning it or the channel's own hook fails.
AfterResult(e) ==
  \/ NextUnit(e) /\ UNCHANGED failures
  \/ UnitFails(e, "unproven")

\* A result: onDeliveryResult makes the evidence durable before anything else.
DeliveryResult(e) ==
  /\ Running(e) /\ stage[e] = "shown"
  /\ results' = [results EXCEPT ![e] = @ + 1]
  /\ Stay
  /\ UNCHANGED <<opt, mode, pre, worldVars, crashes>>
  /\ \/ /\ ~Queued(e) \/ post[e] # "none"
        /\ AfterResult(e) /\ NoWrite /\ Written /\ UNCHANGED post
     \/ /\ Queued(e) /\ post[e] = "none"
        /\ \/ PersistPostSend(e) /\ AfterResult(e)
           \/ PersistPostSendThrows /\ UnitFails(e, "unproven")

-----------------------------------------------------------------------------
(* The end of an attempt *)

\* The attempt must leave evidence before it closes, and has none yet.
OwesEvidence(e) ==
  /\ Queued(e) /\ post[e] = "none"
  /\ \/ stage[e] \in {"returned", "threw"} /\ results[e] > 0 /\ failures[e] # "abort"
     \/ stage[e] = "returned" /\ failures[e] = "no" /\ pre[e] = "marked" /\ mode[e] = "live"

\* The persistence at the end of a send whose results left no marker.  When it
\* throws, the attempt ends with the row as it is.
LeaveEvidence(e) ==
  /\ Running(e) /\ OwesEvidence(e)
  /\ Quiet
  /\ UNCHANGED <<opt, visible, skipped, crashes>>
  /\ \/ /\ PersistPostSend(e) /\ Stay
        /\ UNCHANGED <<mode, stage, unit, pre, results, failures>>
     \/ PersistPostSendThrows /\ Over(e)

\* Nothing failed: remove the row, unless it is gone or its removal was given up.
CloseCompleted(e) ==
  /\ Running(e) /\ stage[e] = "returned" /\ failures[e] = "no" /\ ~OwesEvidence(e)
  /\ Over(e)
  /\ UNCHANGED <<opt, visible, skipped, crashes>>
  /\ \/ ~Queued(e) /\ NoWrite /\ Written /\ Emit(e, "completed")
     \/ /\ Queued(e) /\ post[e] = "acked"
        /\ NoWrite /\ Written /\ Emit(e, "completed")
     \/ Queued(e) /\ post[e] = "failed" /\ NoWrite /\ Written /\ Quiet
     \/ /\ Queued(e) /\ post[e] \in {"none", "marked"}
        /\ \/ AckDelivery(e) /\ Written /\ Emit(e, "completed")
           \/ /\ WriteFails /\ Quiet
              /\ \/ NoWrite
                 \/ /\ results[e] > 0 \/ (mode[e] = "live" /\ pre[e] # "none")
                    /\ FailAfterPlatformSend(e)
                 \/ /\ ~(results[e] > 0 \/ (mode[e] = "live" /\ pre[e] # "none"))
                    /\ FailDelivery(e)

\* Seeded fault: every failure without a result counts as proof that nothing was
\* sent.
RecordFailureAsUnsent(e) ==
  (Written /\ FailBeforePlatformSend(e)) \/ (WriteFails /\ NoWrite)

\* failDelivery, or failDeliveryBeforePlatformSend when nothing can have been
\* sent; a failing write is only logged.
RecordFailure(e) ==
  \/ /\ Written
     /\ IF failures[e] = "proven" THEN FailBeforePlatformSend(e) ELSE FailDelivery(e)
  \/ WriteFails /\ NoWrite

\* A send that failed, in part or as a whole, with evidence that something was
\* sent: the row keeps the evidence.
CloseFailedAfterSend(e) ==
  /\ Running(e) /\ Queued(e) /\ ~OwesEvidence(e)
  /\ stage[e] \in {"returned", "threw"} /\ failures[e] \in {"proven", "unproven"}
  /\ post[e] # "none"
  /\ Over(e)
  /\ UNCHANGED <<opt, visible, skipped, crashes>>
  /\ \/ post[e] = "acked" /\ NoWrite /\ Written /\ Emit(e, "failed")
     \/ post[e] = "failed" /\ NoWrite /\ Written /\ Quiet
     \/ /\ post[e] = "marked" /\ Quiet
        /\ \/ /\ mode[e] = "live" /\ Written
              /\ IF stage[e] = "threw" THEN FailAfterPlatformSend(e) ELSE FailDelivery(e)
           \/ mode[e] = "live" /\ WriteFails /\ NoWrite
           \/ mode[e] = "recovery" /\ NoWrite /\ Written

\* Seeded fault: nobody speaks for a row that was removed before the send.
CloseFailedUnsentSilently(e) ==
  /\ Running(e) /\ Queued(e) /\ ~OwesEvidence(e)
  /\ stage[e] \in {"returned", "threw"} /\ failures[e] \in {"proven", "unproven"}
  /\ post[e] = "none"
  /\ Over(e)
  /\ UNCHANGED <<opt, visible, skipped, crashes>>
  /\ Quiet
  /\ (row[e] # "pending" /\ NoWrite /\ Written) \/ RecordFailure(e)

\* A send that failed without evidence.  When the row was removed before the
\* send, its terminal is emitted here.
CloseFailedUnsent(e) ==
  /\ Running(e) /\ Queued(e) /\ ~OwesEvidence(e)
  /\ stage[e] \in {"returned", "threw"} /\ failures[e] \in {"proven", "unproven"}
  /\ post[e] = "none"
  /\ Over(e)
  /\ UNCHANGED <<opt, visible, skipped, crashes>>
  /\ \/ row[e] # "pending" /\ NoWrite /\ Written /\ Emit(e, "failed")
     \/ row[e] = "pending" /\ RecordFailure(e) /\ Quiet
     \* isPermanentDeliveryError
     \/ /\ mode[e] = "recovery" /\ stage[e] = "threw"
        /\ MoveToFailed(e) /\ Written /\ Emit(e, "failed")

\* A send without a row fails.
CloseFailedDirect(e) ==
  /\ mode[e] = "direct" /\ stage[e] \in {"returned", "threw"} /\ failures[e] # "no"
  /\ Over(e)
  /\ NoWrite /\ Written
  /\ Emit(e, "failed")
  /\ UNCHANGED <<opt, visible, skipped, crashes>>

\* isDeliveryAbortError: the caller no longer wants the message.
CloseAborted(e) ==
  /\ mode[e] = "live" /\ stage[e] = "threw" /\ failures[e] = "abort"
  /\ Over(e)
  /\ UNCHANGED <<opt, visible, skipped, crashes>>
  /\ \/ AckDelivery(e) /\ Written /\ Emit(e, "failed")
     \/ WriteFails /\ NoWrite /\ Quiet

-----------------------------------------------------------------------------
(* The live sender *)

\* deliverOutboundPayloadsInternal up to the await of enqueueDelivery.
Enqueue(e) ==
  /\ caller[e] = "none"
  /\ UNCHANGED <<opt, drain, visible, skipped, crashes, entriesInProgress>>
  /\ \/ /\ SetRow(e, "pending", "none", 0) /\ Written
        /\ caller' = [caller EXCEPT ![e] = "persisted"]
        /\ UNCHANGED <<attemptVars, terminals>>
     \/ /\ WriteFails /\ NoWrite /\ opt[e].policy = "required"
        /\ caller' = [caller EXCEPT ![e] = "done"]
        /\ Emit(e, "failed")
        /\ UNCHANGED attemptVars
     \/ /\ WriteFails /\ NoWrite /\ opt[e].policy = "best_effort"
        /\ caller' = [caller EXCEPT ![e] = "sending"]
        /\ Begin(e, "direct", "ready")
        /\ Quiet

\* withActiveDeliveryClaim: the live send takes its entry, unless a drain has.
ClaimLive(e) ==
  /\ caller[e] = "persisted"
  /\ NoWrite /\ Written
  /\ UNCHANGED <<opt, drain, worldVars, crashes>>
  /\ \/ /\ e \in entriesInProgress
        /\ caller' = [caller EXCEPT ![e] = "done"]
        /\ UNCHANGED <<entriesInProgress, attemptVars>>
     \/ /\ e \notin entriesInProgress
        /\ entriesInProgress' = entriesInProgress \cup {e}
        /\ caller' = [caller EXCEPT ![e] = "sending"]
        /\ Begin(e, "live", "ready")

-----------------------------------------------------------------------------
(* drainPendingDeliveries and recoverPendingDeliveries *)

\* The snapshot of pending rows.
StartDrain(d) ==
  /\ drain[d] = [todo |-> {}, current |-> None]
  /\ \E e \in Entries : row[e] = "pending"
  /\ drain' = [drain EXCEPT ![d].todo = {e \in Entries : row[e] = "pending"}]
  /\ NoWrite /\ Written
  /\ UNCHANGED <<entriesInProgress, caller, opt, attemptVars, worldVars, crashes>>

\* An entry claimed by somebody else is left to them.
DrainPassesBy(d, e) ==
  /\ drain[d].current = None /\ e \in drain[d].todo
  /\ e \in entriesInProgress
  /\ drain' = [drain EXCEPT ![d].todo = @ \ {e}]
  /\ NoWrite /\ Written
  /\ UNCHANGED <<entriesInProgress, caller, opt, attemptVars, worldVars, crashes>>

DrainClaims(d, e) ==
  /\ drain[d].current = None /\ e \in drain[d].todo
  /\ e \notin entriesInProgress
  /\ entriesInProgress' = entriesInProgress \cup {e}
  /\ drain' = [drain EXCEPT ![d].current = e]
  /\ NoWrite /\ Written
  /\ UNCHANGED <<caller, opt, attemptVars, worldVars, crashes>>

\* The time budget of the startup recovery runs out.
DrainStops(d) ==
  /\ drain[d].current = None /\ drain[d].todo # {}
  /\ drain' = [drain EXCEPT ![d].todo = {}]
  /\ NoWrite /\ Written
  /\ UNCHANGED <<entriesInProgress, caller, opt, attemptVars, worldVars, crashes>>

\* The drain holds the claim of e, has read the row again and has not begun an
\* attempt.  A caller that has just persisted the row is two microtasks from its
\* own claim, so it looks before the drain, which read the rows after it, goes on.
Holds(d, e) == drain[d].current = e /\ ~Running(e) /\ caller[e] # "persisted"

\* The row, read again after the claim, is gone, no longer selected, or waits
\* for its backoff; a fresh row never waits.
DrainSkips(d, e) ==
  /\ Holds(d, e)
  /\ Over(e)
  /\ NoWrite /\ Written
  /\ UNCHANGED <<opt, worldVars, crashes>>

\* applyRecoveryDeliveryAdmission: the channel rejects the entry for good.
DrainRejects(d, e) ==
  /\ Holds(d, e)
  /\ MoveToFailed(e) /\ Written
  /\ Emit(e, IF recoveryState[e] = "none" THEN "failed" ELSE "unknown")
  /\ Over(e)
  /\ UNCHANGED <<opt, visible, skipped, crashes>>

\* The retry budget is used up: moveToFailed, whose failure ends a drain and is
\* only logged by the recovery.
DrainGivesUp(d, e) ==
  /\ Holds(d, e)
  /\ row[e] = "pending" /\ retryCount[e] >= MaxRetries
  /\ Over(e)
  /\ UNCHANGED <<opt, visible, skipped, crashes>>
  /\ \/ /\ MoveToFailed(e) /\ Written
        /\ Emit(e, IF recoveryState[e] = "none" THEN "failed" ELSE "unknown")
     \/ WriteFails /\ NoWrite /\ Quiet

\* Seeded fault: the retry budget is not looked at.
DrainBeginsRegardless(d, e) ==
  /\ Holds(d, e)
  /\ row[e] = "pending"
  /\ Begin(e, "recovery", IF recoveryState[e] = "none" THEN "ready" ELSE "reconcile")
  /\ NoWrite /\ Written
  /\ UNCHANGED <<entriesInProgress, caller, drain, opt, worldVars, crashes>>

\* drainQueuedEntry: a row with a recovery state is reconciled first.
DrainBegins(d, e) ==
  /\ Holds(d, e)
  /\ row[e] = "pending" /\ retryCount[e] < MaxRetries
  /\ Begin(e, "recovery", IF recoveryState[e] = "none" THEN "ready" ELSE "reconcile")
  /\ NoWrite /\ Written
  /\ UNCHANGED <<entriesInProgress, caller, drain, opt, worldVars, crashes>>

\* What a truthful reconcileUnknownSend may answer; "none" without an adapter.
Answers(e) ==
  IF ~opt[e].reconciles THEN {"none"}
  ELSE {"retryable", "unresolved"}
       \cup (IF \A u \in Units(e) : visible[e][u] > 0 \/ u \in skipped[e]
             THEN {"sent"} ELSE {})
       \cup (IF \A u \in Units(e) : visible[e][u] = 0 THEN {"not_sent"} ELSE {})

\* The reconciliation of drainQueuedEntry: sent, provably unsent, to be asked
\* again, or a dead letter.
Reconcile(e, answer) ==
  /\ mode[e] = "recovery" /\ stage[e] = "reconcile"
  /\ answer \in Answers(e)
  /\ UNCHANGED <<opt, visible, skipped, crashes>>
  /\ \/ /\ answer = "sent" /\ Over(e)
        /\ \/ AckDelivery(e) /\ Written /\ Emit(e, "completed")
           \/ WriteFails /\ (FailDelivery(e) \/ NoWrite) /\ Quiet
     \/ /\ answer = "not_sent" /\ recoveryState[e] = "started"
        /\ stage' = [stage EXCEPT ![e] = "ready"]
        /\ NoWrite /\ Written /\ Stay /\ Quiet
        /\ UNCHANGED <<mode, unit, pre, post, results, failures>>
     \/ /\ answer = "retryable" /\ Over(e) /\ Quiet
        /\ (FailDelivery(e) /\ Written) \/ (WriteFails /\ NoWrite)
     \/ /\ \/ answer \in {"none", "unresolved"}
           \/ answer = "not_sent" /\ recoveryState[e] = "unknown"
        /\ Over(e)
        /\ \/ MoveToFailed(e) /\ Written /\ Emit(e, "unknown")
           \/ WriteFails /\ NoWrite /\ Quiet

-----------------------------------------------------------------------------
(* The process *)

\* The process dies: claims, drains and attempts are gone, the rows are not.
Crash ==
  /\ crashes < MaxCrashes /\ crashes' = crashes + 1
  /\ entriesInProgress' = {}
  /\ drain' = [d \in Drains |-> [todo |-> {}, current |-> None]]
  /\ mode' = [e \in Entries |-> "idle"]
  /\ stage' = [e \in Entries |-> "none"]
  /\ caller' = [e \in Entries |-> IF caller[e] = "none" THEN "none" ELSE "done"]
  /\ UNCHANGED <<rowVars, opt, unit, pre, post, results, failures, worldVars, faults>>

Init ==
  /\ row = [e \in Entries |-> "none"]
  /\ recoveryState = [e \in Entries |-> "none"]
  /\ retryCount = [e \in Entries |-> 0]
  /\ entriesInProgress = {}
  /\ caller = [e \in Entries |-> "none"]
  /\ opt \in [Entries -> Options]
  /\ drain = [d \in Drains |-> [todo |-> {}, current |-> None]]
  /\ mode = [e \in Entries |-> "idle"]
  /\ stage = [e \in Entries |-> "none"]
  /\ unit = [e \in Entries |-> 1]
  /\ pre = [e \in Entries |-> "none"]
  /\ post = [e \in Entries |-> "none"]
  /\ results = [e \in Entries |-> 0]
  /\ failures = [e \in Entries |-> "no"]
  /\ visible = [e \in Entries |-> [u \in 1..MaxPayloads |-> 0]]
  /\ skipped = [e \in Entries |-> {}]
  /\ terminals = [e \in Entries |-> <<>>]
  /\ crashes = 0 /\ faults = 0

\* The steps of an attempt on e that its own code takes.
AttemptStep(e) ==
  \/ Suppress(e)
  \/ \E why \in {"proven", "unproven", "abort"} : FailsEarly(e, why)
  \/ \E why \in {"proven", "unproven"} : SetupThrows(e, why)
  \/ PlatformSendStart(e)
  \/ PlatformSendDispatch(e)
  \/ \E shown \in BOOLEAN : PlatformSend(e, shown)
  \/ \E why \in {"proven", "unproven", "abort"} : SendThrows(e, why)
  \/ SendReturnsNothing(e)
  \/ DeliveryResult(e)
  \/ LeaveEvidence(e)
  \/ CloseCompleted(e)
  \/ CloseFailedAfterSend(e)
  \/ CloseFailedUnsent(e)
  \/ CloseFailedDirect(e)
  \/ CloseAborted(e)
  \/ \E answer \in {"sent", "not_sent", "retryable", "unresolved", "none"} :
       Reconcile(e, answer)

DrainStep(d) ==
  \/ StartDrain(d)
  \/ DrainStops(d)
  \/ \E e \in Entries : \/ DrainPassesBy(d, e) \/ DrainClaims(d, e) \/ DrainSkips(d, e)
                        \/ DrainRejects(d, e) \/ DrainGivesUp(d, e) \/ DrainBegins(d, e)

Next ==
  \/ \E e \in Entries : \/ Enqueue(e) \/ ClaimLive(e) \/ AttemptStep(e)
  \/ \E d \in Drains : DrainStep(d)
  \/ Crash

Spec == Init /\ [][Next]_vars

\* Attempts go on (a platform answers or times out), and recovery keeps coming
\* back: channels reconnect, backoffs run out.
RecoveryRecurs ==
  /\ \A e \in Entries : WF_vars(ClaimLive(e)) /\ WF_vars(AttemptStep(e))
  /\ \A d \in Drains : WF_vars(StartDrain(d))
  /\ \A d \in Drains, e \in Entries :
       /\ WF_vars(DrainPassesBy(d, e))
       /\ SF_vars(DrainClaims(d, e))
       /\ SF_vars(DrainGivesUp(d, e) \/ DrainBegins(d, e))

LiveSpec == Spec /\ RecoveryRecurs

-----------------------------------------------------------------------------
(* Properties *)

\* The rows, the claims, the drains and the locals of the attempts keep their
\* types, and failDelivery never takes the count past the budget that
\* drainPendingDeliveries and recoverPendingDeliveries check.
TypeOK ==
  /\ row \in [Entries -> {"none", "pending", "failed", "deleted"}]
  /\ recoveryState \in [Entries -> {"none", "started", "unknown"}]
  /\ retryCount \in [Entries -> 0..MaxRetries]
  /\ entriesInProgress \subseteq Entries
  /\ caller \in [Entries -> {"none", "persisted", "sending", "done"}]
  /\ opt \in [Entries -> Options]
  /\ drain \in [Drains -> [todo : SUBSET Entries, current : Entries \cup {None}]]
  /\ mode \in [Entries -> {"idle", "live", "direct", "recovery"}]
  /\ stage \in [Entries -> {"none", "reconcile", "ready", "sending", "dispatching",
                            "shown", "unshown", "returned", "threw"}]
  /\ unit \in [Entries -> 1..(MaxPayloads + 1)]
  /\ pre \in [Entries -> {"none", "marked", "acked"}]
  /\ post \in [Entries -> {"none", "marked", "acked", "failed"}]
  /\ results \in [Entries -> 0..MaxPayloads]
  /\ failures \in [Entries -> {"no", "proven", "unproven", "abort"}]
  /\ visible \in [Entries -> [1..MaxPayloads -> Nat]]
  /\ skipped \in [Entries -> SUBSET (1..MaxPayloads)]
  /\ terminals \in [Entries -> Seq({"completed", "failed", "unknown"})]
  /\ crashes \in 0..MaxCrashes /\ faults \in 0..MaxFaults

\* Whatever crashes, failing writes, drains and reconciliations come together,
\* no payload of a queued message reaches its recipient twice: the promise that
\* deliver.ts and delivery-queue-recovery.ts keep with the markers, the claim and
\* the reconciliation.
AtMostOnce == \A e \in Entries : \A u \in Units(e) : visible[e][u] <= 1

\* A message has at most one audit terminal, and once it has one nobody can
\* replay it: its row is no longer pending.
TerminalIsFinal ==
  \A e \in Entries : /\ Len(terminals[e]) <= 1
                     /\ terminals[e] # <<>> => row[e] # "pending" /\ ~Running(e)

\* A terminal "completed" is true: every payload was seen by the recipient, or
\* withheld on purpose.
CompletedIsSeen ==
  \A e \in Entries : <<"completed">> = terminals[e] =>
    \A u \in Units(e) : visible[e][u] > 0 \/ u \in skipped[e]

\* No message vanishes without a word: when its row is gone or dead, its terminal
\* has been emitted, or the attempt that will emit it is running, or the process
\* died with that attempt, or more than one write failed (an abort after a row
\* was removed for want of its marker emits nothing when its own removal fails).
NoSilentEnd ==
  \A e \in Entries : row[e] \in {"deleted", "failed"} =>
    terminals[e] # <<>> \/ Running(e) \/ crashes > 0 \/ faults > 1

\* Every message ends with exactly one word about it: never two, none that a
\* replay could contradict, and none missing.
OneOutcome == TerminalIsFinal /\ NoSilentEnd

\* A row does not stay pending for ever while recovery comes back: every way an
\* attempt can end removes it or uses up some of its budget.
EveryEntryLeaves == \A e \in Entries : (row[e] = "pending") ~> (row[e] # "pending")
=============================================================================
