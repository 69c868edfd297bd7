---------------------- MODULE SuspendCoordinatorProofs ----------------------
(***************************************************************************)
(* Theorems about SuspendCoordinator, for every number of roots, closures, *)
(* openers and leases, and whatever scheduler calls throw.                 *)
(***************************************************************************)
EXTENDS SuspendCoordinator, GatewayAdmissionProofs

\* GatewaySuspendCoordinatorEntry or null.
EntryShape(e) ==
  \/ e = NoEntry
  \/ /\ e.kind \in {"held", "recovering"} /\ e # NoEntry
     /\ e.owner \in SuspendLeases /\ e.reopen \in {"rollback", "release"}

\* The shapes of the coordinator's state and of the admission under it.
CoordType ==
  /\ TypeOK
  /\ EntryShape(current)
  /\ scheduling \in {"running", "paused"}

\* While the scheduler is paused an entry is current, or a restart drain has
\* retired it and is still going on.
PausedInv ==
  scheduling = "paused" =>
    current # NoEntry \/ (restartDraining /\ retired # NoEntry)

\* The inductive invariant of the coordinator.
CoordInv == CoordType /\ SuspensionHasKeeper /\ PausedInv

-----------------------------------------------------------------------------
(* Entries *)

\* A held entry is an entry, of its owner, and reopens by release.
LEMMA HeldIsEntry ==
  ASSUME NEW z \in SuspendLeases
  PROVE  /\ EntryShape(Held(z)) /\ Held(z) # NoEntry
         /\ Held(z).owner = z /\ Held(z).reopen = "release"
  BY DEF EntryShape, Held, NoEntry

\* A recovery is an entry and keeps the lease function it is given.
LEMMA RecoveryIsEntry ==
  ASSUME NEW z \in SuspendLeases, NEW reopen \in {"rollback", "release"}
  PROVE  /\ EntryShape(Recovery(z, reopen)) /\ Recovery(z, reopen) # NoEntry
         /\ Recovery(z, reopen).owner = z /\ Recovery(z, reopen).reopen = reopen
  BY DEF EntryShape, Recovery, NoEntry

-----------------------------------------------------------------------------
(* Steps *)

\* The next member of a pool is one of the pool.
LEMMA NextOfPool ==
  ASSUME NEW pool, NEW used
  PROVE  NextOf(pool, used) \subseteq pool
  BY DEF NextOf

\* The steps of admission alone leave the suspension, the restart drain and the
\* coordinator as they are.
LEMMA AdmissionStepInv ==
  ASSUME CoordInv, AdmissionStep, UNCHANGED coordVars
  PROVE  CoordInv'
<1>1. Next
  <2>1. NextRoots \subseteq Roots /\ NextLeases \subseteq Leases
    BY NextOfPool DEF NextRoots, NextLeases
  <2>2. \A used : NextOf(RestartLeases, used) \subseteq RestartLeases
    BY NextOfPool
  <2> QED
    BY <2>1, <2>2 DEF AdmissionStep, Next, RootStep, FenceStep
<1>2. TypeOK'
  BY <1>1, AdmissionTypeStep DEF CoordInv, CoordType
<1>3. UNCHANGED suspendVars /\ UNCHANGED restartDraining
  BY DEF AdmissionStep, TryBeginRootWork, OpenerLoop, RootWorkContinuation,
         RetainContinuation, ReleaseLease, WaitForActiveRootWork, DrainTimerFires,
         DrainerContinues, BeginRestartSignal, RollbackRestartSignal,
         RollbackOrphanedFence, ClearRestartSignalFence, restartVars
<1> QED
  BY <1>2, <1>3 DEF CoordInv, CoordType, SuspensionHasKeeper, PausedInv, EntryShape,
                    coordVars, suspendVars

\* A prepare that gets its lease leaves the state its outcome calls for.
LEMMA AcquireKeeps ==
  ASSUME CoordInv, NEW z \in SuspendLeases,
         NEW phase \in {"accepting", "preparing", "prepared"},
         AcquireSuspend(z, phase)
  PROVE  /\ TypeOK'
         /\ suspendPhase' = phase
         /\ phase # "accepting" => suspendInvalidated' = z
         /\ suspendLease'[z] = suspendGeneration'
<1>1. TypeOK
  BY DEF CoordInv, CoordType
<1>2. /\ suspendView' \in [SuspendLeases -> HolderStates]
      /\ opener' \in [Openers -> OpenerStates]
  BY <1>1 DEF AcquireSuspend, ResolveSuspendOpenWaiters, TypeOK, HolderStates,
              OpenerStates
<1>3. /\ suspendGeneration' \in Nat /\ suspendLease' \in [SuspendLeases -> Nat]
      /\ suspendInvalidated' \in SuspendLeases \cup {None}
      /\ suspendLease'[z] = suspendGeneration'
  BY <1>1 DEF AcquireSuspend, TypeOK
<1>4. suspendPhase' = phase /\ (phase # "accepting" => suspendInvalidated' = z)
  BY DEF AcquireSuspend
<1> QED
  BY <1>1, <1>2, <1>3, <1>4 DEF AcquireSuspend, TypeOK, rootVars, restartVars

\* prepareGatewaySuspend, whatever it finds and whichever of its steps throws.
LEMMA PrepareInv ==
  ASSUME CoordInv, NEW z \in SuspendLeases, NEW resumed \in BOOLEAN,
         NEW outcome \in {"idle", "busy", "paused", "failed"},
         Prepare(z, outcome, resumed)
  PROVE  CoordInv'
<1>1. CASE AcquireSuspend(z, "prepared") /\ scheduling' = "paused" /\ current' = Held(z)
  BY <1>1, AcquireKeeps, HeldIsEntry
     DEF CoordInv, CoordType, SuspensionHasKeeper, PausedInv, ReopensFrom
<1>2. CASE AcquireSuspend(z, "accepting") /\ scheduling' = "running" /\ current' = NoEntry
  BY <1>2, AcquireKeeps
     DEF CoordInv, CoordType, SuspensionHasKeeper, PausedInv, EntryShape
<1>3. CASE /\ AcquireSuspend(z, "preparing") /\ scheduling' = "paused"
           /\ current' = Recovery(z, "rollback")
  BY <1>3, AcquireKeeps, RecoveryIsEntry
     DEF CoordInv, CoordType, SuspensionHasKeeper, PausedInv, ReopensFrom
<1>4. CASE /\ AcquireSuspend(z, "prepared") /\ scheduling' = "paused"
           /\ current' = Recovery(z, "release")
  BY <1>4, AcquireKeeps, RecoveryIsEntry
     DEF CoordInv, CoordType, SuspensionHasKeeper, PausedInv, ReopensFrom
<1> QED
  BY <1>1, <1>2, <1>3, <1>4 DEF Prepare

\* The end of the time to live changes nothing but the flag of the held entry.
LEMMA TtlInv ==
  ASSUME CoordInv, TtlElapses
  PROVE  CoordInv'
<1>1. /\ current.kind = "held" /\ current # NoEntry
      /\ current' = [current EXCEPT !.expired = TRUE]
  BY DEF TtlElapses, NoEntry
<1>2. /\ current'.kind = current.kind /\ current'.owner = current.owner
      /\ current'.reopen = current.reopen /\ current' # NoEntry
  BY <1>1 DEF CoordInv, CoordType, EntryShape, NoEntry
<1>3. UNCHANGED vars /\ UNCHANGED <<retired, scheduling>>
  BY DEF TtlElapses
<1>4. TypeOK'
  BY <1>3, AdmissionTypeStutter DEF CoordInv, CoordType
<1> QED
  BY <1>1, <1>2, <1>3, <1>4
     DEF CoordInv, CoordType, EntryShape, SuspensionHasKeeper, PausedInv, vars,
         suspendVars, restartVars

\* resumeAndReopen: either admission reopens and the entry goes, or the entry
\* stays, as a recovery of the same lease function.
LEMMA ResumeInv ==
  ASSUME CoordInv, NEW resumed \in BOOLEAN, ResumeAndReopen(resumed)
  PROVE  CoordInv'
<1> DEFINE z == current.owner
           from == ReopensFrom(current.reopen)
<1>1. /\ z \in SuspendLeases /\ current.reopen \in {"rollback", "release"}
      /\ from \in {"preparing", "prepared"} /\ current # NoEntry
  BY DEF CoordInv, CoordType, EntryShape, ResumeAndReopen, ReopensFrom
<1>2. scheduling' \in {"running", "paused"}
  BY DEF ResumeAndReopen, CoordInv, CoordType
<1>3. CASE resumed /\ Transition(z, from, "accepting") /\ current' = NoEntry
  <2>1. TypeOK'
    BY <1>1, <1>3, TransitionType DEF CoordInv, CoordType
  <2>2. suspendPhase' = "accepting"
    BY <1>3 DEF Transition
  <2>3. scheduling' = "running"
    BY <1>3 DEF ResumeAndReopen
  <2> QED
    BY <1>3, <2>1, <2>2, <2>3
       DEF CoordInv, CoordType, EntryShape, SuspensionHasKeeper, PausedInv
<1>4. CASE current' = Recovery(current.owner, current.reopen) /\ UNCHANGED vars
  <2>1. TypeOK'
    BY <1>4, AdmissionTypeStutter DEF CoordInv, CoordType
  <2>2. UNCHANGED <<suspendPhase, suspendGeneration, suspendInvalidated, suspendLease>>
    BY <1>4 DEF vars, suspendVars
  <2>3. /\ EntryShape(current)' /\ current' # NoEntry
        /\ current'.owner = current.owner /\ current'.reopen = current.reopen
    BY <1>1, <1>4, RecoveryIsEntry DEF EntryShape
  <2> QED
    BY <1>1, <1>2, <2>1, <2>2, <2>3
       DEF CoordInv, CoordType, SuspensionHasKeeper, PausedInv
<1> QED
  BY <1>3, <1>4 DEF ResumeAndReopen

\* A restart drain retires the entry of the suspension it invalidates.
LEMMA MarkDrainingInv ==
  ASSUME CoordInv, MarkDraining
  PROVE  CoordInv'
<1>1. TypeOK'
  BY AdmissionTypeStep DEF CoordInv, CoordType, MarkDraining, Next, FenceStep
<1>2. suspendPhase' = "accepting" /\ restartDraining' /\ scheduling' = scheduling
  BY DEF MarkDraining, MarkGatewayRestartDraining, InvalidateSuspendAdmission,
         suspendVars
<1>3. CASE current = NoEntry
  <2>1. current' = NoEntry /\ retired' = retired
    BY <1>3 DEF MarkDraining, OnInvalidated
  <2> QED
    BY <1>1, <1>2, <1>3, <2>1
       DEF CoordInv, CoordType, EntryShape, SuspensionHasKeeper, PausedInv
<1>4. CASE current # NoEntry
  <2>1. current' = NoEntry /\ retired' = current
    BY <1>4 DEF MarkDraining, OnInvalidated, CoordInv, SuspensionHasKeeper
  <2> QED
    BY <1>1, <1>2, <1>4, <2>1
       DEF CoordInv, CoordType, EntryShape, SuspensionHasKeeper, PausedInv
<1> QED
  BY <1>3, <1>4

\* The reset between two lifecycles starts from nothing.
LEMMA LifecycleResetInv ==
  ASSUME CoordInv, LifecycleReset
  PROVE  CoordInv'
<1>1. TypeOK'
  BY AdmissionTypeStep DEF CoordInv, CoordType, LifecycleReset, Next, FenceStep
<1>2. suspendPhase' = "accepting"
  BY DEF LifecycleReset, ResetGatewayWorkAdmission, InvalidateSuspendAdmission
<1> QED
  BY <1>1, <1>2 DEF CoordInv, CoordType, EntryShape, SuspensionHasKeeper, PausedInv,
                    LifecycleReset

\* CoordInv holds in every run of the coordinator.
LEMMA CoordInvariant == CoordSpec => []CoordInv
<1>1. CoordInit => CoordInv
  <2> SUFFICES ASSUME CoordInit PROVE CoordInv
    OBVIOUS
  <2>1. TypeOK
    BY AdmissionTypeInit DEF CoordInit
  <2> QED
    BY <2>1 DEF CoordInit, Init, CoordInv, CoordType, EntryShape,
                SuspensionHasKeeper, PausedInv
<1>2. CoordInv /\ [CoordNext]_allVars => CoordInv'
  <2> SUFFICES ASSUME CoordInv, [CoordNext]_allVars PROVE CoordInv'
    OBVIOUS
  <2>1. CASE UNCHANGED allVars
    <3>1. UNCHANGED vars /\ UNCHANGED coordVars
      BY <2>1 DEF allVars
    <3>2. TypeOK'
      BY <3>1, AdmissionTypeStutter DEF CoordInv, CoordType
    <3> QED
      BY <3>1, <3>2 DEF CoordInv, CoordType, EntryShape, SuspensionHasKeeper,
                        PausedInv, coordVars, vars, suspendVars, restartVars
  <2>2. ASSUME NEW resumed \in BOOLEAN,
               EntryTimerFires(resumed) \/ ResumeGatewaySuspend(resumed)
        PROVE  CoordInv'
    BY <2>2, ResumeInv DEF EntryTimerFires, ResumeGatewaySuspend
  <2>3. ASSUME NEW z \in NextOf(SuspendLeases, {y \in SuspendLeases : suspendLease[y] # 0}),
               NEW resumed \in BOOLEAN,
               NEW outcome \in {"idle", "busy", "paused", "failed"},
               Prepare(z, outcome, resumed)
        PROVE  CoordInv'
    <3>1. z \in SuspendLeases
      BY NextOfPool
    <3> QED
      BY <3>1, <2>3, PrepareInv
  <2> QED
    BY <2>1, <2>2, <2>3, AdmissionStepInv, TtlInv, MarkDrainingInv,
       LifecycleResetInv DEF CoordNext
<1> QED
  BY <1>1, <1>2, PTL DEF CoordSpec

-----------------------------------------------------------------------------
(* Theorems *)

\* A suspension has a keeper: admission is closed for a suspension exactly while
\* gateway-suspend-coordinator.ts has an entry that owns the current lease and
\* kept the lease function that reopens admission from the present phase.
THEOREM SuspensionAlwaysKept == CoordSpec => []SuspensionHasKeeper
<1>1. CoordInv => SuspensionHasKeeper
  BY DEF CoordInv
<1> QED
  BY <1>1, CoordInvariant, PTL

\* Fail closed: whatever pauses, resumes and inspections throw, a paused cron
\* scheduler means closed admission and an entry that will resume it.
THEOREM PausedStaysClosed == CoordSpec => []PausedIsClosedAndKept
<1>1. CoordInv => PausedIsClosedAndKept
  BY DEF CoordInv, SuspensionHasKeeper, PausedInv, PausedIsClosedAndKept,
         WorkAdmissionClosed
<1> QED
  BY <1>1, CoordInvariant, PTL
=============================================================================
