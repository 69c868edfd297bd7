------------------------- MODULE SuspendCoordinator -------------------------
(***************************************************************************)
(* Host suspension, src/src/infra/gateway-suspend-coordinator.ts, on top   *)
(* of root work admission.  The coordinator keeps one entry: a held        *)
(* suspension with its time to live, or a recovery that retries a          *)
(* scheduler resume that threw.  Admission stays closed until the cron     *)
(* scheduler runs again.                                                   *)
(*                                                                         *)
(* prepare, the timers and resume are synchronous, so each is one action   *)
(* whatever branch it takes.  The lease z that a prepare obtains stands    *)
(* for the `owner` object of its entry.  The root of the request that asks *)
(* for the suspension is excluded from the count of active roots           *)
(* (excludeCurrent) and is not modelled; neither are request ids, by which *)
(* a prepare or resume for another suspension is answered without effect.  *)
(***************************************************************************)
EXTENDS GatewayAdmission

VARIABLES
  current,          \* COORDINATOR_STATE.current
  retired,          \* COORDINATOR_STATE.retiredForLifecycleReset
  scheduling        \* the cron scheduler: "running" or "paused"

coordVars == <<current, retired, scheduling>>
allVars == <<vars, coordVars>>

NoEntry == [kind |-> "none"]

\* A held suspension reopens by release; expired once its time to live is over.
Held(z) ==
  [kind |-> "held", owner |-> z, reopen |-> "release", expired |-> FALSE]

\* The entry that retries a scheduler resume.
Recovery(z, reopen) == [kind |-> "recovering", owner |-> z, reopen |-> reopen]

\* The phase from which a lease function reopens admission.
ReopensFrom(reopen) == IF reopen = "rollback" THEN "preparing" ELSE "prepared"

-----------------------------------------------------------------------------
(* prepareGatewaySuspend *)

\* The prepare finds no entry, or a held one that has expired.
Expired == current.kind = "held" /\ current.expired

\* tryBeginGatewaySuspendAdmission by z, and then, in the same stretch, the
\* lease functions that bring the phase to the one given.  An expired entry
\* has been resumed and has reopened admission just before.
AcquireSuspend(z, phase) ==
  /\ suspendLease[z] = 0
  /\ ~restartDraining /\ ~restartSignalPending
  /\ suspendPhase = "accepting" \/ Expired
  /\ suspendPhase' = phase
  /\ suspendGeneration' = suspendGeneration + 1
  /\ suspendInvalidated' = IF phase = "accepting" THEN None ELSE z
  /\ suspendLease' = [suspendLease EXCEPT ![z] = suspendGeneration']
  /\ suspendView' = [y \in SuspendLeases |->
       IF y = z /\ phase # "accepting" THEN phase
       ELSE IF y = z \/ (Expired /\ y = current.owner) THEN "ended"
       ELSE suspendView[y]]
  /\ IF Expired \/ phase = "accepting" THEN ResolveSuspendOpenWaiters
                                       ELSE UNCHANGED opener
  /\ UNCHANGED <<rootVars, restartVars, drainer>>

\* prepareGatewaySuspend where it gets the lease: pause the scheduler and look.
\*   idle    nothing is active: commit and hold
\*   busy    something is, or the inspection threw: resume the scheduler and
\*           roll back
\*   paused  pauseScheduling threw: roll back
\*   failed  a step after the commit threw: resume the scheduler and release
\* resumed says whether the scheduler's resume, where there is one, succeeded.
\* A prepare that is refused the lease, or finds another suspension, changes
\* nothing beyond the resume of an expired entry (EntryTimerFires).
Prepare(z, outcome, resumed) ==
  /\ current = NoEntry \/ Expired
  /\ outcome \in {"idle", "failed"} => activeRootWork = {}
  /\ UNCHANGED retired
  /\ \/ /\ outcome = "idle"
        /\ AcquireSuspend(z, "prepared")
        /\ scheduling' = "paused"
        /\ current' = Held(z)
     \/ /\ outcome = "paused" \/ (outcome \in {"busy", "failed"} /\ resumed)
        /\ AcquireSuspend(z, "accepting")
        /\ scheduling' = "running"
        /\ current' = NoEntry
     \/ /\ outcome = "busy" /\ ~resumed
        /\ AcquireSuspend(z, "preparing")
        /\ scheduling' = "paused"
        /\ current' = Recovery(z, "rollback")
     \/ /\ outcome = "failed" /\ ~resumed
        /\ AcquireSuspend(z, "prepared")
        /\ scheduling' = "paused"
        /\ current' = Recovery(z, "release")

\* The time to live runs out.  A prepare with the same request id before that
\* only re-arms the timer.
TtlElapses ==
  /\ current.kind = "held" /\ ~current.expired
  /\ current' = [current EXCEPT !.expired = TRUE]
  /\ UNCHANGED <<vars, retired, scheduling>>

-----------------------------------------------------------------------------
(* resumeAndReopen *)

\* Seeded fault: admission reopens although the scheduler did not resume.
ResumeAndReopenAnyway(resumed) ==
  /\ current # NoEntry
  /\ scheduling' = IF resumed THEN "running" ELSE scheduling
  /\ Transition(current.owner, ReopensFrom(current.reopen), "accepting")
  /\ current' = NoEntry
  /\ UNCHANGED retired

\* Seeded fault: a failed resume drops the entry and its retry timer.
ResumeAndReopenForgets(resumed) ==
  /\ current # NoEntry
  /\ UNCHANGED retired
  /\ \/ /\ ~resumed
        /\ current' = NoEntry
        /\ UNCHANGED <<vars, scheduling>>
     \/ /\ resumed
        /\ scheduling' = "running"
        /\ Transition(current.owner, ReopensFrom(current.reopen), "accepting")
        /\ current' = NoEntry

\* resumeAndReopen with enterSchedulerRecovery: first the scheduler, then
\* admission; whichever fails, the entry becomes, or stays, a recovery.
ResumeAndReopen(resumed) ==
  /\ current # NoEntry
  /\ UNCHANGED retired
  /\ scheduling' = IF resumed THEN "running" ELSE scheduling
  /\ IF /\ resumed
        /\ suspendLease[current.owner] = suspendGeneration
        /\ suspendPhase = ReopensFrom(current.reopen)
     THEN /\ Transition(current.owner, ReopensFrom(current.reopen), "accepting")
          /\ current' = NoEntry
     ELSE /\ current' = Recovery(current.owner, current.reopen)
          /\ UNCHANGED vars

\* The expiry timer of a held entry, the retry timer of a recovery, or a
\* prepare, status or resume that finds the held entry expired.
EntryTimerFires(resumed) ==
  /\ current.kind = "recovering" \/ Expired
  /\ ResumeAndReopen(resumed)

\* resumeGatewaySuspend with the id of the held suspension
ResumeGatewaySuspend(resumed) ==
  /\ current.kind = "held" /\ ~current.expired
  /\ ResumeAndReopen(resumed)

-----------------------------------------------------------------------------
(* Restart *)

\* Seeded fault: the invalidation leaves the entry and its timer in place.
OnInvalidatedKeepsEntry == UNCHANGED <<current, retired>>

\* The onInvalidated callback of prepareGatewaySuspend.
OnInvalidated ==
  IF suspendPhase # "accepting" /\ current # NoEntry
       /\ current.owner = suspendInvalidated
  THEN current' = NoEntry /\ retired' = current
  ELSE UNCHANGED <<current, retired>>

\* markGatewayRestartDraining with the callback it runs.
MarkDraining ==
  /\ MarkGatewayRestartDraining
  /\ OnInvalidated
  /\ UNCHANGED scheduling

\* The run loop between two lifecycles: the coordinator is reset, its entries'
\* scheduler resumed, admission reset, and the next server builds a scheduler
\* of its own.  (The holder of an entry still current is released first and
\* then counts as invalidated.)
LifecycleReset ==
  /\ ResetGatewayWorkAdmission
  /\ current' = NoEntry /\ retired' = NoEntry
  /\ scheduling' = "running"

-----------------------------------------------------------------------------
CoordInit ==
  /\ Init
  /\ current = NoEntry
  /\ retired = NoEntry
  /\ scheduling = "running"

\* The members of a pool are interchangeable: the next to be used may be any one
\* that is not in use yet.
NextOf(pool, used) ==
  IF pool \subseteq used THEN pool ELSE {CHOOSE p \in pool \ used : TRUE}

NextRoots == NextOf(Roots, made)
NextLeases == NextOf(Leases, {x \in Leases : leaseRoot[x] # None})

\* What the rest of the gateway does with admission.
AdmissionStep ==
  \/ \E ctx \in made \cup {None}, r \in NextRoots, x \in NextLeases :
       TryBeginRootWork(ctx, r, x)
  \/ \E o \in Openers, r \in NextRoots, x \in NextLeases : OpenerLoop(o, r, x)
  \/ \E ctx \in made, r \in NextRoots, x \in NextLeases : RootWorkContinuation(ctx, r, x)
  \/ \E ctx \in made, x \in NextLeases : RetainContinuation(ctx, x)
  \/ \E x \in Leases : ReleaseLease(x)
  \/ \E d \in Drainers, timed \in BOOLEAN : WaitForActiveRootWork(d, timed)
  \/ \E d \in Drainers : DrainTimerFires(d)
  \/ \E d \in Drainers : DrainerContinues(d)
  \/ \E y \in NextOf(RestartLeases, {y \in RestartLeases : restartLease[y] # 0}) :
       BeginRestartSignal(y)
  \/ \E y \in RestartLeases : RollbackRestartSignal(y)
  \/ RollbackOrphanedFence

CoordNext ==
  \/ AdmissionStep /\ UNCHANGED coordVars
  \/ \E z \in NextOf(SuspendLeases, {z \in SuspendLeases : suspendLease[z] # 0}),
        resumed \in BOOLEAN, outcome \in {"idle", "busy", "paused", "failed"} :
       Prepare(z, outcome, resumed)
  \/ TtlElapses
  \/ \E resumed \in BOOLEAN : EntryTimerFires(resumed)
  \/ \E resumed \in BOOLEAN : ResumeGatewaySuspend(resumed)
  \/ MarkDraining
  \/ LifecycleReset

CoordSpec == CoordInit /\ [][CoordNext]_allVars

\* Timers fire, the host stops renewing, a scheduler resume that is retried
\* in the end succeeds, a restart signal leads to a drain or is rolled back,
\* and woken loops run.
CoordFairness ==
  /\ WF_allVars(TtlElapses)
  /\ WF_allVars(EntryTimerFires(TRUE))
  /\ WF_allVars(/\ restartSignalPending
                /\ \/ MarkDraining
                   \/ /\ \E y \in RestartLeases : RollbackRestartSignal(y)
                      /\ UNCHANGED coordVars)
  /\ \A o \in Openers :
       WF_allVars((\E r \in Roots, x \in Leases : OpenerLoop(o, r, x))
                    /\ UNCHANGED coordVars)

CoordLiveSpec == CoordSpec /\ CoordFairness

-----------------------------------------------------------------------------
(* Properties *)

\* A suspension has a keeper: admission is closed for a suspension exactly
\* while the coordinator has an entry, the entry owns the current lease, and
\* the lease function it kept is the one that reopens admission from here.
SuspensionHasKeeper ==
  /\ suspendPhase # "accepting" <=> current # NoEntry
  /\ current # NoEntry =>
       /\ current.owner = suspendInvalidated
       /\ suspendLease[current.owner] = suspendGeneration
       /\ suspendPhase = ReopensFrom(current.reopen)

\* Fail closed: while the cron scheduler is paused admission is closed, and an
\* entry that will resume the scheduler is kept, across failed resumes and a
\* restart drain that supersedes the suspension.
PausedIsClosedAndKept ==
  scheduling = "paused" =>
    WorkAdmissionClosed /\ (current # NoEntry \/ retired # NoEntry)

\* A suspension ends, by resume, by expiry or by restart: admission is not
\* closed for ever even if the first scheduler resumes throw.
SuspensionEnds ==
  suspendPhase # "accepting" ~> suspendPhase = "accepting"

\* The finite pools of records and closures of an instance are used up.
PoolsUsedUp == made = Roots \/ \A x \in Leases : leaseRoot[x] # None

\* A caller that waits for admission is admitted, or refused by a restart.
OpenerServed ==
  \A o \in Openers :
    opener[o] = "waiting" ~> opener[o] \in {"admitted", "failed"} \/ PoolsUsedUp
=============================================================================
