-------------------------- MODULE GatewayAdmission --------------------------
(***************************************************************************)
(* Process-wide root work admission, src/src/process/                      *)
(* gateway-work-admission.ts: reference-counted root transactions, the     *)
(* reversible restart-signal fence, the one-way restart drain, and the     *)
(* reversible host suspension, each of which closes admission.             *)
(*                                                                         *)
(* An action is one synchronous stretch of JavaScript.  The record that    *)
(* AsyncLocalStorage hands to a caller is the parameter ctx of the actions *)
(* that read it: a root that was made at some time, perhaps released since *)
(* (a detached descendant outlives its root), or NoRoot.                   *)
(***************************************************************************)
EXTENDS Integers, FiniteSets

CONSTANTS
  Roots,          \* GatewayRootWorkAdmission records
  Leases,         \* release closures: of a new root, or of a continuation
  Openers,        \* callers that wait for admission to open
  Drainers,       \* calls to waitForActiveGatewayRootWork
  RestartLeases,  \* leases of the restart-signal fence
  SuspendLeases,  \* leases of a suspension
  MaxGeneration,  \* bound: no reset once restartSignalGeneration is there
  None            \* no record, no lease

ASSUME AdmissionAssumption ==
  /\ IsFiniteSet(Leases)
  /\ MaxGeneration \in Nat
  /\ None \notin Roots \cup SuspendLeases

VARIABLES
  restartDraining, restartSignalPending, restartSignalGeneration,
  suspendPhase, suspendGeneration,
  suspendInvalidated,  \* whose onInvalidated callback is registered
  activeRootWork,
  references, released,  \* fields of a root record
  made,                \* the root records that exist
  leaseRoot,           \* the record a release closure is bound to
  leaseReleased,       \* the closure's own flag
  opener,              \* waiting: its resolve is in suspendOpenWaiters
  drainer,             \* waiting: its resolve is in rootDrainWaiters
  restartLease,        \* generation bound by the lease, 0 before it is issued
  suspendLease,        \* generation bound by the lease, 0 before it is issued
  suspendView          \* what the holder of a suspension has been told

rootVars == <<activeRootWork, references, released, made, leaseRoot, leaseReleased>>
restartVars == <<restartDraining, restartSignalPending, restartSignalGeneration,
                 restartLease>>
suspendVars == <<suspendPhase, suspendGeneration, suspendInvalidated,
                 suspendLease, suspendView>>
vars == <<rootVars, restartVars, suspendVars, opener, drainer>>

-----------------------------------------------------------------------------
(* Queries *)

\* isGatewayWorkAdmissionClosed
WorkAdmissionClosed ==
  restartDraining \/ restartSignalPending \/ suspendPhase # "accepting"

Live(ctx) == ctx # None /\ ~released[ctx]

\* Seeded fault: any inherited root record passes, a retired one too.
SubordinateClosedIgnoresRelease(ctx) ==
  restartDraining \/ restartSignalPending \/ (ctx = None /\ suspendPhase # "accepting")

\* isGatewaySubordinateWorkAdmissionClosed: an admitted root passes a
\* suspension, a released one does not pass even an open gateway.
SubordinateWorkAdmissionClosed(ctx) ==
  \/ restartDraining
  \/ restartSignalPending
  \/ IF ctx # None THEN released[ctx] ELSE suspendPhase # "accepting"

-----------------------------------------------------------------------------
(* Waiters *)

\* resolveSuspendOpenWaiters: the loops will look again, later.
ResolveSuspendOpenWaiters ==
  opener' = [o \in Openers |-> IF opener[o] = "waiting" THEN "woken" ELSE opener[o]]

\* resolveRootDrainWaiters
ResolveRootDrainWaiters ==
  drainer' = [d \in Drainers |->
    IF drainer[d] \in {"waiting", "timed"} THEN "resolved" ELSE drainer[d]]

-----------------------------------------------------------------------------
(* Root work *)

\* createGatewayRootWorkAdmission: record r, whose first lease is x.
CreateRoot(r, x) ==
  /\ r \notin made /\ leaseRoot[x] = None
  /\ made' = made \cup {r}
  /\ activeRootWork' = activeRootWork \cup {r}
  /\ references' = [references EXCEPT ![r] = 1]
  /\ leaseRoot' = [leaseRoot EXCEPT ![x] = r]
  /\ UNCHANGED <<released, leaseReleased>>

\* tryBeginGatewayRootWorkAdmission, where it makes a root.  Under a live root
\* it returns a lease that does nothing; when closed it returns null.
TryBeginRootWork(ctx, r, x) ==
  /\ ~Live(ctx)
  /\ ~WorkAdmissionClosed
  /\ CreateRoot(r, x)
  /\ UNCHANGED <<restartVars, suspendVars, opener, drainer>>

\* Seeded fault: the loop overlooks the restart drain and goes by the fence
\* and the suspension only.
OpenerLoopIgnoresDrain(o, r, x) ==
  /\ opener[o] \in {"none", "woken"}
  /\ ~restartSignalPending /\ suspendPhase = "accepting"
  /\ CreateRoot(r, x)
  /\ opener' = [opener EXCEPT ![o] = "admitted"]
  /\ UNCHANGED <<restartVars, suspendVars, drainer>>

\* One turn of the loops of beginGatewayRootWorkAdmissionWhenOpen and
\* runWithGatewayIndependentRootWorkAdmission, by a caller without a live root.
OpenerLoop(o, r, x) ==
  /\ opener[o] \in {"none", "woken"}
  /\ \/ /\ restartDraining
        /\ opener' = [opener EXCEPT ![o] = "failed"]
        /\ UNCHANGED rootVars
     \/ /\ ~WorkAdmissionClosed
        /\ CreateRoot(r, x)
        /\ opener' = [opener EXCEPT ![o] = "admitted"]
     \/ /\ ~restartDraining /\ WorkAdmissionClosed
        /\ opener' = [opener EXCEPT ![o] = "waiting"]
        /\ UNCHANGED rootVars
  /\ UNCHANGED <<restartVars, suspendVars, drainer>>

\* runWithGatewayIndependentRootWorkContinuation under a live parent: a root
\* is made even when admission is closed.  Without one it is an OpenerLoop.
RootWorkContinuation(ctx, r, x) ==
  /\ Live(ctx)
  /\ CreateRoot(r, x)
  /\ UNCHANGED <<restartVars, suspendVars, opener, drainer>>

\* retainGatewayRootWorkAdmissionContinuation under a live root.
RetainContinuation(ctx, x) ==
  /\ Live(ctx)
  /\ leaseRoot[x] = None
  /\ references' = [references EXCEPT ![ctx] = @ + 1]
  /\ leaseRoot' = [leaseRoot EXCEPT ![x] = ctx]
  /\ UNCHANGED <<activeRootWork, released, made, leaseReleased, restartVars,
                 suspendVars, opener, drainer>>

\* Seeded fault: a closure called twice gives back two references.
ReleaseTwice(x) ==
  /\ leaseRoot[x] # None
  /\ ~released[leaseRoot[x]]
  /\ LET r == leaseRoot[x]
         last == references[r] <= 1
     IN /\ references' = [references EXCEPT ![r] = @ - 1]
        /\ released' = [released EXCEPT ![r] = last]
        /\ activeRootWork' = IF last THEN activeRootWork \ {r} ELSE activeRootWork
        /\ IF last /\ activeRootWork' = {} THEN ResolveRootDrainWaiters
                                           ELSE UNCHANGED drainer
  /\ leaseReleased' = [leaseReleased EXCEPT ![x] = TRUE]
  /\ UNCHANGED <<made, leaseRoot, restartVars, suspendVars, opener>>

\* The closure of createGatewayRootWorkRelease.  Called again, or after its
\* root was retired, it does nothing.
ReleaseLease(x) ==
  /\ leaseRoot[x] # None
  /\ ~leaseReleased[x] /\ ~released[leaseRoot[x]]
  /\ leaseReleased' = [leaseReleased EXCEPT ![x] = TRUE]
  /\ LET r == leaseRoot[x]
         last == references[r] <= 1
     IN /\ references' = [references EXCEPT ![r] = @ - 1]
        /\ released' = [released EXCEPT ![r] = last]
        /\ activeRootWork' = IF last THEN activeRootWork \ {r} ELSE activeRootWork
        /\ IF last /\ activeRootWork' = {} THEN ResolveRootDrainWaiters
                                           ELSE UNCHANGED drainer
  /\ UNCHANGED <<made, leaseRoot, restartVars, suspendVars, opener>>

\* waitForActiveGatewayRootWork; timed is FALSE when no timeout is given.  A
\* timeout of zero answers at once and changes nothing else.
WaitForActiveRootWork(d, timed) ==
  /\ drainer[d] = "none"
  /\ drainer' = [drainer EXCEPT ![d] =
       IF activeRootWork = {} THEN "drained" ELSE IF timed THEN "timed" ELSE "waiting"]
  /\ UNCHANGED <<rootVars, restartVars, suspendVars, opener>>

DrainTimerFires(d) ==
  /\ drainer[d] = "timed"
  /\ drainer' = [drainer EXCEPT ![d] = "resolved"]
  /\ UNCHANGED <<rootVars, restartVars, suspendVars, opener>>

\* After the await: the answer is what the set holds now.
DrainerContinues(d) ==
  /\ drainer[d] = "resolved"
  /\ drainer' = [drainer EXCEPT ![d] = IF activeRootWork = {} THEN "drained" ELSE "busy"]
  /\ UNCHANGED <<rootVars, restartVars, suspendVars, opener>>

-----------------------------------------------------------------------------
(* The restart-signal fence and the restart drain *)

\* Seeded fault: the holder of the suspension is not called back.
InvalidateWithoutCallback ==
  /\ suspendPhase' = "accepting"
  /\ suspendGeneration' = suspendGeneration + 1
  /\ suspendInvalidated' = None
  /\ UNCHANGED <<suspendLease, suspendView>>

\* invalidateSuspendAdmission, the callback included.  Both callers wake the
\* openers as it does.
InvalidateSuspendAdmission ==
  /\ suspendPhase' = "accepting"
  /\ suspendGeneration' = suspendGeneration + 1
  /\ suspendInvalidated' = None
  /\ suspendView' = [z \in SuspendLeases |->
       IF z = suspendInvalidated THEN "invalidated" ELSE suspendView[z]]
  /\ UNCHANGED suspendLease

\* markGatewayRestartDraining
MarkGatewayRestartDraining ==
  /\ ~restartDraining
  /\ restartDraining' = TRUE
  /\ restartSignalPending' = FALSE
  /\ restartSignalGeneration' = restartSignalGeneration + 1
  /\ ResolveSuspendOpenWaiters
  /\ IF suspendPhase # "accepting" THEN InvalidateSuspendAdmission
                                   ELSE UNCHANGED suspendVars
  /\ UNCHANGED <<restartLease, rootVars, drainer>>

\* Seeded fault: the lease is bound to the generation before the increment.
BeginRestartSignalStale(y) ==
  /\ restartLease[y] = 0
  /\ ~restartDraining /\ ~restartSignalPending
  /\ restartSignalPending' = TRUE
  /\ restartSignalGeneration' = restartSignalGeneration + 1
  /\ restartLease' = [restartLease EXCEPT ![y] = restartSignalGeneration]
  /\ UNCHANGED <<restartDraining, rootVars, suspendVars, opener, drainer>>

\* beginGatewayRestartSignalAdmission
BeginRestartSignal(y) ==
  /\ restartLease[y] = 0
  /\ ~restartDraining /\ ~restartSignalPending
  /\ restartSignalPending' = TRUE
  /\ restartSignalGeneration' = restartSignalGeneration + 1
  /\ restartLease' = [restartLease EXCEPT ![y] = restartSignalGeneration']
  /\ UNCHANGED <<restartDraining, rootVars, suspendVars, opener, drainer>>

\* Seeded fault: the fence opens without waking the callers that wait for it.
ClearFenceWithoutWaking ==
  /\ ~restartDraining /\ restartSignalPending
  /\ restartSignalPending' = FALSE
  /\ restartSignalGeneration' = restartSignalGeneration + 1
  /\ UNCHANGED <<restartDraining, restartLease, rootVars, suspendVars, opener,
                 drainer>>

\* clearRestartSignalFence
ClearRestartSignalFence ==
  /\ ~restartDraining /\ restartSignalPending
  /\ restartSignalPending' = FALSE
  /\ restartSignalGeneration' = restartSignalGeneration + 1
  /\ ResolveSuspendOpenWaiters
  /\ UNCHANGED <<restartDraining, restartLease, rootVars, suspendVars, drainer>>

\* rollback of the lease: only while its own fence is in place.
RollbackRestartSignal(y) ==
  /\ restartLease[y] # 0
  /\ restartLease[y] = restartSignalGeneration
  /\ ClearRestartSignalFence

\* rollbackGatewayRestartSignalFence, whoever holds the lease
RollbackOrphanedFence == ClearRestartSignalFence

-----------------------------------------------------------------------------
(* Suspension *)

\* tryBeginGatewaySuspendAdmission
TryBeginSuspend(z) ==
  /\ suspendLease[z] = 0
  /\ ~WorkAdmissionClosed
  /\ suspendPhase' = "preparing"
  /\ suspendGeneration' = suspendGeneration + 1
  /\ suspendInvalidated' = z
  /\ suspendLease' = [suspendLease EXCEPT ![z] = suspendGeneration']
  /\ suspendView' = [suspendView EXCEPT ![z] = "preparing"]
  /\ UNCHANGED <<rootVars, restartVars, opener, drainer>>

\* Seeded fault: admission reopens without waking the callers that wait for it.
TransitionWithoutWaking(z, expected, next) ==
  /\ suspendLease[z] # 0
  /\ suspendLease[z] = suspendGeneration /\ suspendPhase = expected
  /\ suspendPhase' = next
  /\ suspendView' = [suspendView EXCEPT ![z] = IF next = "accepting" THEN "ended" ELSE next]
  /\ suspendInvalidated' = IF next = "accepting" THEN None ELSE suspendInvalidated
  /\ UNCHANGED <<opener, suspendGeneration, suspendLease, rootVars, restartVars,
                 drainer>>

\* The lease's transition, where it returns true.
Transition(z, expected, next) ==
  /\ suspendLease[z] # 0
  /\ suspendLease[z] = suspendGeneration /\ suspendPhase = expected
  /\ suspendPhase' = next
  /\ suspendView' = [suspendView EXCEPT ![z] = IF next = "accepting" THEN "ended" ELSE next]
  /\ \/ next = "accepting" /\ suspendInvalidated' = None /\ ResolveSuspendOpenWaiters
     \/ next # "accepting" /\ UNCHANGED <<suspendInvalidated, opener>>
  /\ UNCHANGED <<suspendGeneration, suspendLease, rootVars, restartVars, drainer>>

CommitSuspend(z) == Transition(z, "preparing", "prepared")
RollbackSuspend(z) == Transition(z, "preparing", "accepting")

ReleaseSuspend(z) == Transition(z, "prepared", "accepting")

-----------------------------------------------------------------------------
\* resetGatewayWorkAdmission: every root is retired, every fence opened, every
\* earlier lease out of date, every waiter woken.
ResetGatewayWorkAdmission ==
  /\ restartSignalGeneration < MaxGeneration
  /\ activeRootWork' = {}
  /\ references' = [r \in Roots |-> IF r \in activeRootWork THEN 0 ELSE references[r]]
  /\ released' = [r \in Roots |-> r \in activeRootWork \/ released[r]]
  /\ ResolveRootDrainWaiters
  /\ restartDraining' = FALSE /\ restartSignalPending' = FALSE
  /\ restartSignalGeneration' = restartSignalGeneration + 1
  /\ IF suspendPhase # "accepting"
     THEN InvalidateSuspendAdmission
     ELSE /\ suspendGeneration' = suspendGeneration + 1
          /\ suspendInvalidated' = None
          /\ UNCHANGED <<suspendPhase, suspendLease, suspendView>>
  /\ ResolveSuspendOpenWaiters
  /\ UNCHANGED <<made, leaseRoot, leaseReleased, restartLease>>

-----------------------------------------------------------------------------
Init ==
  /\ restartDraining = FALSE
  /\ restartSignalPending = FALSE
  /\ restartSignalGeneration = 0
  /\ suspendPhase = "accepting"
  /\ suspendGeneration = 0
  /\ suspendInvalidated = None
  /\ activeRootWork = {}
  /\ references = [r \in Roots |-> 0]
  /\ released = [r \in Roots |-> FALSE]
  /\ made = {}
  /\ leaseRoot = [x \in Leases |-> None]
  /\ leaseReleased = [x \in Leases |-> FALSE]
  /\ opener = [o \in Openers |-> "none"]
  /\ drainer = [d \in Drainers |-> "none"]
  /\ restartLease = [y \in RestartLeases |-> 0]
  /\ suspendLease = [z \in SuspendLeases |-> 0]
  /\ suspendView = [z \in SuspendLeases |-> "none"]

RootStep ==
  \/ \E ctx \in made \cup {None}, r \in Roots, x \in Leases :
       TryBeginRootWork(ctx, r, x)
  \/ \E o \in Openers, r \in Roots, x \in Leases : OpenerLoop(o, r, x)
  \/ \E ctx \in made, r \in Roots, x \in Leases : RootWorkContinuation(ctx, r, x)
  \/ \E ctx \in made, x \in Leases : RetainContinuation(ctx, x)
  \/ \E x \in Leases : ReleaseLease(x)
  \/ \E d \in Drainers, timed \in BOOLEAN : WaitForActiveRootWork(d, timed)
  \/ \E d \in Drainers : DrainTimerFires(d)
  \/ \E d \in Drainers : DrainerContinues(d)

FenceStep ==
  \/ MarkGatewayRestartDraining
  \/ \E y \in RestartLeases : BeginRestartSignal(y)
  \/ \E y \in RestartLeases : RollbackRestartSignal(y)
  \/ RollbackOrphanedFence
  \/ \E z \in SuspendLeases : TryBeginSuspend(z)
  \/ \E z \in SuspendLeases : CommitSuspend(z)
  \/ \E z \in SuspendLeases : RollbackSuspend(z)
  \/ \E z \in SuspendLeases : ReleaseSuspend(z)
  \/ ResetGatewayWorkAdmission

Next == RootStep \/ FenceStep

Spec == Init /\ [][Next]_vars

-----------------------------------------------------------------------------
(* Properties *)

OpenerStates == {"none", "woken", "waiting", "admitted", "failed"}
DrainerStates == {"none", "waiting", "timed", "resolved", "drained", "busy"}
HolderStates == {"none", "preparing", "prepared", "ended", "invalidated"}

\* The variables have the shapes of GatewayWorkAdmissionState and of the
\* closures it hands out.
TypeOK ==
  /\ restartDraining \in BOOLEAN /\ restartSignalPending \in BOOLEAN
  /\ restartSignalGeneration \in Nat /\ suspendGeneration \in Nat
  /\ suspendPhase \in {"accepting", "preparing", "prepared"}
  /\ suspendInvalidated \in SuspendLeases \cup {None}
  /\ made \subseteq Roots /\ activeRootWork \subseteq Roots
  /\ references \in [Roots -> Int]
  /\ released \in [Roots -> BOOLEAN]
  /\ leaseRoot \in [Leases -> Roots \cup {None}]
  /\ leaseReleased \in [Leases -> BOOLEAN]
  /\ opener \in [Openers -> OpenerStates]
  /\ drainer \in [Drainers -> DrainerStates]
  /\ restartLease \in [RestartLeases -> Nat]
  /\ suspendLease \in [SuspendLeases -> Nat]
  /\ suspendView \in [SuspendLeases -> HolderStates]

Holding(r) == {x \in Leases : leaseRoot[x] = r /\ ~leaseReleased[x]}

\* activeRootWork holds exactly the roots not yet released, and such a root
\* has one reference per release closure still to be called: closures called
\* twice, late, or after a reset neither free a root early nor keep it.
RootsAreHeld ==
  /\ activeRootWork = {r \in made : ~released[r]}
  /\ \A r \in activeRootWork : /\ references[r] = Cardinality(Holding(r))
                               /\ Holding(r) # {}

\* A caller waiting for admission to open waits for a fence that is still
\* there, and never across a restart drain, which must refuse it.
NoStrandedOpener ==
  \A o \in Openers :
    opener[o] = "waiting" => WorkAdmissionClosed /\ ~restartDraining

\* A caller waiting for the roots to drain has one to wait for.
NoStrandedDrainer ==
  \A d \in Drainers : drainer[d] \in {"waiting", "timed"} => activeRootWork # {}

\* No lost wakeup: whoever takes the last fence down, begins the drain, releases
\* the last root or resets admission wakes everyone who waited for it.
NoStrandedWaiter == NoStrandedOpener /\ NoStrandedDrainer

\* While the fence of a restart signal is up exactly one lease can take it
\* down, and the one-way drain leaves neither a fence nor a suspension behind.
FencesAreOwned ==
  /\ restartSignalPending =>
       \E y \in RestartLeases :
         /\ restartLease[y] = restartSignalGeneration
         /\ \A y2 \in RestartLeases :
              restartLease[y2] = restartSignalGeneration => y2 = y
  /\ restartDraining => ~restartSignalPending /\ suspendPhase = "accepting"

\* A holder of a suspension that was told neither that it ended nor that it
\* was invalidated is right about the phase: no stale lease, restart or reset
\* reopens admission behind its back.
HolderIsRight ==
  \A z \in SuspendLeases :
    suspendView[z] \in {"preparing", "prepared"} =>
      suspendPhase = suspendView[z] /\ suspendLease[z] = suspendGeneration

\* Once the roots of a gateway that drains for restart are gone, nothing is
\* admitted into the dying process until it is reset.
DrainIsFinal ==
  [][restartDraining /\ restartDraining' /\ activeRootWork = {}
       => activeRootWork' = {}]_vars
=============================================================================
