----------------------- MODULE GatewayAdmissionProofs -----------------------
(***************************************************************************)
(* Theorems about GatewayAdmission, for every number of roots, closures,   *)
(* waiters and leases.  The inductive invariant has parts, each inductive  *)
(* together with TypeOK.                                                   *)
(***************************************************************************)
EXTENDS GatewayAdmission, FiniteSetTheorems, TLAPS

\* Closures are bound to roots that exist; a record not made yet is not
\* released, and a closure not handed out yet has not been called.
RootInv ==
  /\ RootsAreHeld
  /\ \A r \in Roots \ made : ~released[r]
  /\ \A x \in Leases : leaseRoot[x] # None => leaseRoot[x] \in made
  /\ \A x \in Leases : leaseRoot[x] = None => ~leaseReleased[x]

\* No lease of the fence is ahead of the generation.
FenceInv ==
  /\ FencesAreOwned
  /\ \A y \in RestartLeases : restartLease[y] <= restartSignalGeneration

\* No lease of a suspension is ahead of the generation, no two were given the
\* same one, and while a suspension lasts the callback of the current lease is
\* the one registered.
SuspendInv ==
  /\ HolderIsRight
  /\ \A z \in SuspendLeases : suspendLease[z] <= suspendGeneration
  /\ \A z1, z2 \in SuspendLeases :
       suspendLease[z1] = suspendLease[z2] /\ suspendLease[z1] # 0 => z1 = z2
  /\ \A z \in SuspendLeases :
       suspendPhase # "accepting" /\ suspendLease[z] = suspendGeneration =>
         suspendInvalidated = z

-----------------------------------------------------------------------------
(* Type correctness *)

\* The steps on roots and their waiters keep the types.
LEMMA RootStepType ==
  ASSUME TypeOK, RootStep
  PROVE  TypeOK'
<1> USE DEF TypeOK, rootVars, restartVars, suspendVars, OpenerStates,
            DrainerStates, HolderStates
<1>1. ASSUME NEW ctx \in made \cup {None}, NEW r \in Roots, NEW x \in Leases,
             TryBeginRootWork(ctx, r, x)
      PROVE  TypeOK'
  BY <1>1 DEF TryBeginRootWork, CreateRoot
<1>2. ASSUME NEW o \in Openers, NEW r \in Roots, NEW x \in Leases,
             OpenerLoop(o, r, x)
      PROVE  TypeOK'
  BY <1>2 DEF OpenerLoop, CreateRoot
<1>3. ASSUME NEW ctx \in made, NEW r \in Roots, NEW x \in Leases,
             RootWorkContinuation(ctx, r, x)
      PROVE  TypeOK'
  BY <1>3 DEF RootWorkContinuation, CreateRoot
<1>4. ASSUME NEW ctx \in made, NEW x \in Leases, RetainContinuation(ctx, x)
      PROVE  TypeOK'
  BY <1>4 DEF RetainContinuation
<1>5. ASSUME NEW x \in Leases, ReleaseLease(x)
      PROVE  TypeOK'
  <2>1. leaseRoot[x] \in Roots
    BY <1>5 DEF ReleaseLease
  <2>2. drainer' \in [Drainers -> DrainerStates]
    BY <1>5 DEF ReleaseLease, ResolveRootDrainWaiters
  <2>3. /\ references' \in [Roots -> Int]
        /\ released' \in [Roots -> BOOLEAN]
        /\ leaseReleased' \in [Leases -> BOOLEAN]
        /\ activeRootWork' \subseteq Roots
    BY <1>5, <2>1 DEF ReleaseLease
  <2> QED
    BY <1>5, <2>2, <2>3 DEF ReleaseLease
<1>6. ASSUME NEW d \in Drainers, NEW timed \in BOOLEAN, WaitForActiveRootWork(d, timed)
      PROVE  TypeOK'
  BY <1>6 DEF WaitForActiveRootWork
<1>7. ASSUME NEW d \in Drainers, DrainTimerFires(d)
      PROVE  TypeOK'
  BY <1>7 DEF DrainTimerFires
<1>8. ASSUME NEW d \in Drainers, DrainerContinues(d)
      PROVE  TypeOK'
  BY <1>8 DEF DrainerContinues
<1> QED
  BY <1>1, <1>2, <1>3, <1>4, <1>5, <1>6, <1>7, <1>8 DEF RootStep

\* A lease's transition between the phases keeps the types.
LEMMA TransitionType ==
  ASSUME TypeOK, NEW z \in SuspendLeases,
         NEW expected \in {"preparing", "prepared"},
         NEW next \in {"accepting", "prepared"},
         Transition(z, expected, next)
  PROVE  TypeOK'
  BY DEF TypeOK, Transition, ResolveSuspendOpenWaiters, rootVars, restartVars,
         OpenerStates, HolderStates

\* The steps on the fences, the suspension and the reset keep the types.
LEMMA FenceStepType ==
  ASSUME TypeOK, FenceStep
  PROVE  TypeOK'
<1> USE DEF TypeOK, rootVars, restartVars, suspendVars, OpenerStates,
            DrainerStates, HolderStates
<1>1. CASE MarkGatewayRestartDraining
  <2>1. (restartDraining \in BOOLEAN /\ restartSignalPending \in BOOLEAN)'
    BY <1>1, Zenon DEF MarkGatewayRestartDraining
  <2> QED
    BY <1>1, <2>1 DEF MarkGatewayRestartDraining, InvalidateSuspendAdmission,
                      ResolveSuspendOpenWaiters
<1>2. ASSUME NEW y \in RestartLeases, BeginRestartSignal(y)
      PROVE  TypeOK'
  BY <1>2 DEF BeginRestartSignal
<1>3. CASE ClearRestartSignalFence
  <2>1. (restartDraining \in BOOLEAN /\ restartSignalPending \in BOOLEAN)'
    BY <1>3, Zenon DEF ClearRestartSignalFence
  <2> QED
    BY <1>3, <2>1 DEF ClearRestartSignalFence, ResolveSuspendOpenWaiters
<1>4. ASSUME NEW z \in SuspendLeases, TryBeginSuspend(z)
      PROVE  TypeOK'
  BY <1>4 DEF TryBeginSuspend
<1>5. ASSUME NEW z \in SuspendLeases,
             CommitSuspend(z) \/ RollbackSuspend(z) \/ ReleaseSuspend(z)
      PROVE  TypeOK'
  BY <1>5, TransitionType DEF CommitSuspend, RollbackSuspend, ReleaseSuspend
<1>6. CASE ResetGatewayWorkAdmission
  <2>1. (restartDraining \in BOOLEAN /\ restartSignalPending \in BOOLEAN)'
    BY <1>6, Zenon DEF ResetGatewayWorkAdmission
  <2>2. released' \in [Roots -> BOOLEAN]
    BY <1>6 DEF ResetGatewayWorkAdmission
  <2>3. drainer' \in [Drainers -> DrainerStates] /\ opener' \in [Openers -> OpenerStates]
    BY <1>6 DEF ResetGatewayWorkAdmission, ResolveSuspendOpenWaiters,
                ResolveRootDrainWaiters
  <2> QED
    BY <1>6, <2>1, <2>2, <2>3 DEF ResetGatewayWorkAdmission,
                                  InvalidateSuspendAdmission
<1> QED
  BY <1>1, <1>2, <1>3, <1>4, <1>5, <1>6
     DEF FenceStep, RollbackRestartSignal, RollbackOrphanedFence

\* A stuttering step keeps the types.
LEMMA AdmissionTypeStutter ==
  ASSUME TypeOK, UNCHANGED vars
  PROVE  TypeOK'
  BY DEF TypeOK, vars, rootVars, restartVars, suspendVars

\* Every step keeps the types.
LEMMA AdmissionTypeStep ==
  ASSUME TypeOK, [Next]_vars
  PROVE  TypeOK'
  BY RootStepType, FenceStepType, AdmissionTypeStutter DEF Next

\* The initial state has the types of GatewayWorkAdmissionState.
LEMMA AdmissionTypeInit ==
  ASSUME Init
  PROVE  TypeOK
<1>1. restartDraining \in BOOLEAN /\ restartSignalPending \in BOOLEAN
  BY Zenon DEF Init
<1>2. released \in [Roots -> BOOLEAN] /\ leaseReleased \in [Leases -> BOOLEAN]
  BY DEF Init
<1> QED
  BY <1>1, <1>2 DEF Init, TypeOK, OpenerStates, DrainerStates, HolderStates

\* The admission state keeps the shape of GatewayWorkAdmissionState, and its
\* closures and waiters theirs, in every run.
THEOREM AdmissionTypeCorrect == Spec => []TypeOK
<1>1. Init => TypeOK
  BY AdmissionTypeInit
<1>2. TypeOK /\ [Next]_vars => TypeOK'
  BY AdmissionTypeStep
<1> QED
  BY <1>1, <1>2, PTL DEF Spec

-----------------------------------------------------------------------------
(* The restart-signal fence and the suspension *)

\* Every step keeps the owner of the fence unique.
LEMMA FenceStepInv ==
  ASSUME TypeOK, FenceInv, [Next]_vars
  PROVE  FenceInv'
<1> USE DEF TypeOK, FenceInv, FencesAreOwned
<1>1. CASE RootStep \/ UNCHANGED vars
  <2>1. UNCHANGED <<restartVars, suspendVars>>
    BY <1>1 DEF RootStep, TryBeginRootWork, OpenerLoop, RootWorkContinuation,
                RetainContinuation, ReleaseLease, WaitForActiveRootWork,
                DrainTimerFires, DrainerContinues, vars
  <2> QED
    BY <2>1 DEF restartVars, suspendVars
<1>2. CASE MarkGatewayRestartDraining
  BY <1>2 DEF MarkGatewayRestartDraining, InvalidateSuspendAdmission, suspendVars
<1>3. ASSUME NEW y \in RestartLeases, BeginRestartSignal(y)
      PROVE  FenceInv'
  BY <1>3 DEF BeginRestartSignal, suspendVars
<1>4. CASE ClearRestartSignalFence
  BY <1>4 DEF ClearRestartSignalFence, suspendVars
<1>5. ASSUME NEW z \in SuspendLeases, TryBeginSuspend(z)
      PROVE  FenceInv'
  BY <1>5 DEF TryBeginSuspend, WorkAdmissionClosed, restartVars
<1>6. ASSUME NEW z \in SuspendLeases,
             CommitSuspend(z) \/ RollbackSuspend(z) \/ ReleaseSuspend(z)
      PROVE  FenceInv'
  BY <1>6 DEF CommitSuspend, RollbackSuspend, ReleaseSuspend, Transition, restartVars
<1>7. CASE ResetGatewayWorkAdmission
  BY <1>7 DEF ResetGatewayWorkAdmission, InvalidateSuspendAdmission
<1> QED
  BY <1>1, <1>2, <1>3, <1>4, <1>5, <1>6, <1>7
     DEF Next, FenceStep, RollbackRestartSignal, RollbackOrphanedFence

\* Every step keeps the holders of suspensions right.
LEMMA SuspendStepInv ==
  ASSUME TypeOK, SuspendInv, [Next]_vars
  PROVE  SuspendInv'
<1> USE DEF TypeOK, SuspendInv, HolderIsRight
<1>1. CASE UNCHANGED suspendVars
  BY <1>1 DEF suspendVars
<1>2. CASE InvalidateSuspendAdmission
  BY <1>2 DEF InvalidateSuspendAdmission
<1>3. CASE /\ suspendPhase = "accepting"
           /\ suspendGeneration' = suspendGeneration + 1
           /\ suspendInvalidated' = None
           /\ UNCHANGED <<suspendPhase, suspendLease, suspendView>>
  BY <1>3
<1>4. ASSUME NEW z \in SuspendLeases, TryBeginSuspend(z)
      PROVE  SuspendInv'
  BY <1>4 DEF TryBeginSuspend, WorkAdmissionClosed
<1>5. ASSUME NEW z \in SuspendLeases,
             CommitSuspend(z) \/ RollbackSuspend(z) \/ ReleaseSuspend(z)
      PROVE  SuspendInv'
  <2>1. PICK expected \in {"preparing", "prepared"}, next \in {"accepting", "prepared"} :
          Transition(z, expected, next)
    BY <1>5 DEF CommitSuspend, RollbackSuspend, ReleaseSuspend
  <2>2. UNCHANGED <<suspendGeneration, suspendLease>>
    BY <2>1 DEF Transition
  <2>3. \A y \in SuspendLeases :
          y # z => suspendView'[y] = suspendView[y]
                     /\ suspendView[y] \notin {"preparing", "prepared"}
    BY <2>1 DEF Transition
  <2>4. CASE next = "accepting"
    <3>1. suspendView'[z] = "ended" /\ suspendPhase' = "accepting"
      BY <2>1, <2>4 DEF Transition
    <3> QED
      BY <2>2, <2>3, <3>1
  <2>5. CASE next = "prepared"
    <3>1. /\ suspendView'[z] = "prepared" /\ suspendPhase' = "prepared"
          /\ suspendInvalidated' = suspendInvalidated
          /\ suspendLease[z] = suspendGeneration
      BY <2>1, <2>5 DEF Transition
    <3> QED
      BY <2>1, <2>2, <2>3, <3>1 DEF Transition
  <2> QED
    BY <2>4, <2>5
<1>6. CASE RootStep
  BY <1>1, <1>6 DEF RootStep, TryBeginRootWork, OpenerLoop, RootWorkContinuation,
                RetainContinuation, ReleaseLease, WaitForActiveRootWork,
                DrainTimerFires, DrainerContinues
<1>7. CASE FenceStep
  BY <1>1, <1>2, <1>3, <1>4, <1>5, <1>7
     DEF FenceStep, MarkGatewayRestartDraining, BeginRestartSignal,
         RollbackRestartSignal, RollbackOrphanedFence, ClearRestartSignalFence,
         ResetGatewayWorkAdmission
<1>8. CASE UNCHANGED vars
  BY <1>1, <1>8 DEF vars
<1> QED
  BY <1>6, <1>7, <1>8 DEF Next

\* The fence of a restart signal always has exactly one lease that can roll it
\* back, and a restart drain leaves neither fence nor suspension behind.
THEOREM FencesAlwaysOwned == Spec => []FencesAreOwned
<1>1. ASSUME Init PROVE TypeOK /\ FenceInv
  <2>1. ~restartDraining /\ ~restartSignalPending
    BY <1>1, Zenon DEF Init
  <2>2. \A y \in RestartLeases : restartLease[y] <= restartSignalGeneration
    BY <1>1 DEF Init
  <2> QED
    BY <1>1, <2>1, <2>2, AdmissionTypeInit DEF FenceInv, FencesAreOwned
<1>2. (TypeOK /\ FenceInv) /\ [Next]_vars => (TypeOK /\ FenceInv)'
  BY AdmissionTypeStep, FenceStepInv
<1>3. TypeOK /\ FenceInv => FencesAreOwned
  BY DEF FenceInv
<1> QED
  BY <1>1, <1>2, <1>3, PTL DEF Spec

\* The holder of a suspension that has not been told of its end or its
\* invalidation is never wrong about the phase, whatever stale leases,
\* restarts and resets do.
THEOREM HolderAlwaysRight == Spec => []HolderIsRight
<1>1. ASSUME Init PROVE TypeOK /\ SuspendInv
  <2>1. \A z \in SuspendLeases : suspendView[z] = "none" /\ suspendLease[z] = 0
    BY <1>1 DEF Init
  <2>2. suspendGeneration = 0 /\ suspendPhase = "accepting"
    BY <1>1 DEF Init
  <2> QED
    BY <1>1, <2>1, <2>2, AdmissionTypeInit DEF SuspendInv, HolderIsRight
<1>2. (TypeOK /\ SuspendInv) /\ [Next]_vars => (TypeOK /\ SuspendInv)'
  BY AdmissionTypeStep, SuspendStepInv
<1>3. TypeOK /\ SuspendInv => HolderIsRight
  BY DEF SuspendInv
<1> QED
  BY <1>1, <1>2, <1>3, PTL DEF Spec

-----------------------------------------------------------------------------
(* Root work *)

\* The closures out for a root are finitely many.
LEMMA HoldingFinite ==
  ASSUME NEW r
  PROVE  IsFiniteSet(Holding(r)) /\ Cardinality(Holding(r)) \in Nat
<1>1. Holding(r) \in SUBSET Leases
  BY DEF Holding
<1> QED
  BY <1>1, AdmissionAssumption, FS_Subset, FS_CardinalityType

\* The step that hands out closure x for root r.
Hands(r, x) ==
  /\ leaseRoot[x] = None
  /\ leaseRoot' = [leaseRoot EXCEPT ![x] = r]
  /\ UNCHANGED leaseReleased

\* Handing out a closure adds one to those out for its root, and none to those
\* of another root.
LEMMA HandsCount ==
  ASSUME TypeOK, RootInv, NEW r \in Roots, NEW x \in Leases, Hands(r, x)
  PROVE  /\ Holding(r)' # {}
         /\ Cardinality(Holding(r)') = Cardinality(Holding(r)) + 1
         /\ \A s \in Roots : s # r => Holding(s)' = Holding(s)
<1>1. x \notin Holding(r)
  BY AdmissionAssumption DEF Holding, Hands
<1>2. Holding(r)' = Holding(r) \cup {x}
  BY DEF Holding, Hands, RootInv, TypeOK
<1>3. \A s \in Roots : s # r => Holding(s)' = Holding(s)
  BY AdmissionAssumption DEF Holding, Hands, TypeOK
<1> QED
  BY <1>1, <1>2, <1>3, HoldingFinite, FS_AddElement

\* A root is made with its first closure.
LEMMA CreateRootInv ==
  ASSUME TypeOK, RootInv, NEW r \in Roots, NEW x \in Leases, CreateRoot(r, x)
  PROVE  RootInv'
<1>1. Hands(r, x)
  BY DEF CreateRoot, Hands
<1>2. Holding(r) = {}
  BY AdmissionAssumption DEF Holding, RootInv, CreateRoot, TypeOK
<1>3. /\ Holding(r)' # {} /\ Cardinality(Holding(r)') = 1
      /\ \A s \in Roots : s # r => Holding(s)' = Holding(s)
  BY <1>1, <1>2, HandsCount, FS_EmptySet
<1>4. activeRootWork' = {s \in made' : ~released'[s]}
  BY DEF CreateRoot, RootInv, RootsAreHeld, TypeOK
<1>5. \A s \in activeRootWork' : /\ references'[s] = Cardinality(Holding(s)')
                                 /\ Holding(s)' # {}
  BY <1>3 DEF CreateRoot, RootInv, RootsAreHeld, TypeOK
<1>6. /\ \A s \in Roots \ made' : ~released'[s]
      /\ \A w \in Leases : leaseRoot'[w] # None => leaseRoot'[w] \in made'
      /\ \A w \in Leases : leaseRoot'[w] = None => ~leaseReleased'[w]
  BY DEF CreateRoot, RootInv, TypeOK
<1> QED
  BY <1>4, <1>5, <1>6 DEF RootInv, RootsAreHeld

\* A continuation adds a reference and a closure to a live root.
LEMMA RetainInv ==
  ASSUME TypeOK, RootInv, NEW ctx \in made, NEW x \in Leases,
         RetainContinuation(ctx, x)
  PROVE  RootInv'
<1>1. ctx \in Roots /\ Hands(ctx, x)
  BY DEF RetainContinuation, Hands, TypeOK
<1>2. ctx \in activeRootWork
  BY DEF RetainContinuation, Live, RootInv, RootsAreHeld
<1>3. /\ Holding(ctx)' # {}
      /\ Cardinality(Holding(ctx)') = Cardinality(Holding(ctx)) + 1
      /\ \A s \in Roots : s # ctx => Holding(s)' = Holding(s)
  BY <1>1, HandsCount
<1>4. \A s \in activeRootWork' : /\ references'[s] = Cardinality(Holding(s)')
                                 /\ Holding(s)' # {}
  BY <1>1, <1>2, <1>3 DEF RetainContinuation, RootInv, RootsAreHeld, TypeOK
<1>5. activeRootWork' = {s \in made' : ~released'[s]}
  BY DEF RetainContinuation, RootInv, RootsAreHeld
<1>6. /\ \A s \in Roots \ made' : ~released'[s]
      /\ \A w \in Leases : leaseRoot'[w] # None => leaseRoot'[w] \in made'
      /\ \A w \in Leases : leaseRoot'[w] = None => ~leaseReleased'[w]
  BY <1>1 DEF RetainContinuation, RootInv, TypeOK
<1> QED
  BY <1>4, <1>5, <1>6 DEF RootInv, RootsAreHeld

\* A release gives back one reference, and the root with the last one.
LEMMA ReleaseInv ==
  ASSUME TypeOK, RootInv, NEW x \in Leases, ReleaseLease(x)
  PROVE  RootInv'
<1>0. PICK r \in Roots : r = leaseRoot[x]
  BY DEF ReleaseLease, TypeOK
<1>1. r \in made /\ r \in activeRootWork
  BY <1>0 DEF ReleaseLease, RootInv, RootsAreHeld, TypeOK
<1>2. x \in Holding(r) /\ references[r] = Cardinality(Holding(r))
  BY <1>0, <1>1 DEF Holding, ReleaseLease, RootInv, RootsAreHeld
<1>3. Holding(r)' = Holding(r) \ {x}
  BY <1>0 DEF Holding, ReleaseLease, TypeOK
<1>4. \A s \in Roots : s # r => Holding(s)' = Holding(s)
  BY <1>0 DEF Holding, ReleaseLease, TypeOK
<1>5. Cardinality(Holding(r)') = references[r] - 1
  BY <1>2, <1>3, HoldingFinite, FS_RemoveElement
<1>6. references[r] > 1 => Holding(r)' # {}
  <2>1. references[r] \in Int
    BY DEF TypeOK
  <2>2. Holding(r)' = {} => Cardinality(Holding(r)') = 0
    BY FS_EmptySet, Zenon
  <2> QED
    BY <1>5, <2>1, <2>2
<1>7. /\ references' = [references EXCEPT ![r] = @ - 1]
      /\ released' = [released EXCEPT ![r] = (references[r] <= 1)]
      /\ activeRootWork' = IF references[r] <= 1 THEN activeRootWork \ {r}
                                                ELSE activeRootWork
      /\ leaseReleased' = [leaseReleased EXCEPT ![x] = TRUE]
      /\ UNCHANGED <<made, leaseRoot>>
  BY <1>0 DEF ReleaseLease
<1>8. activeRootWork' = {s \in made' : ~released'[s]}
  BY <1>1, <1>7 DEF RootInv, RootsAreHeld, TypeOK
<1>9. \A s \in activeRootWork' : /\ references'[s] = Cardinality(Holding(s)')
                                 /\ Holding(s)' # {}
  <2> SUFFICES ASSUME NEW s \in activeRootWork'
               PROVE  /\ references'[s] = Cardinality(Holding(s)')
                      /\ Holding(s)' # {}
    OBVIOUS
  <2>1. s \in Roots /\ s \in activeRootWork
    BY <1>7 DEF TypeOK
  <2>2. CASE s = r
    BY <1>1, <1>5, <1>6, <1>7, <2>1, <2>2 DEF TypeOK
  <2>3. CASE s # r
    BY <1>4, <1>7, <2>1, <2>3 DEF RootInv, RootsAreHeld, TypeOK
  <2> QED
    BY <2>2, <2>3
<1>10. /\ \A s \in Roots \ made' : ~released'[s]
       /\ \A w \in Leases : leaseRoot'[w] # None => leaseRoot'[w] \in made'
  BY <1>1, <1>7 DEF RootInv, TypeOK
<1>11. \A w \in Leases : leaseRoot'[w] = None => ~leaseReleased'[w]
  BY <1>7 DEF RootInv, TypeOK, ReleaseLease
<1> QED
  BY <1>8, <1>9, <1>10, <1>11 DEF RootInv, RootsAreHeld

\* Every step keeps the roots and their closures in agreement.
LEMMA RootStepInv ==
  ASSUME TypeOK, RootInv, [Next]_vars
  PROVE  RootInv'
<1>1. CASE UNCHANGED rootVars
  BY <1>1 DEF rootVars, RootInv, RootsAreHeld, Holding
<1>2. CASE ResetGatewayWorkAdmission
  <2>1. /\ activeRootWork' = {} /\ UNCHANGED <<made, leaseRoot, leaseReleased>>
        /\ \A r \in Roots : released'[r] <=> r \in activeRootWork \/ released[r]
    BY <1>2 DEF ResetGatewayWorkAdmission
  <2>2. {r \in made' : ~released'[r]} = {}
    BY <2>1 DEF RootInv, RootsAreHeld, TypeOK
  <2>3. \A r \in Roots \ made' : ~released'[r]
    BY <2>1 DEF RootInv, RootsAreHeld, TypeOK
  <2> QED
    BY <2>1, <2>2, <2>3 DEF RootInv, RootsAreHeld
<1>3. CASE RootStep
  <2>1. CASE \E r \in Roots, x \in Leases : CreateRoot(r, x)
    BY <2>1, CreateRootInv
  <2>2. CASE \E ctx \in made, x \in Leases : RetainContinuation(ctx, x)
    BY <2>2, RetainInv
  <2>3. CASE \E x \in Leases : ReleaseLease(x)
    BY <2>3, ReleaseInv
  <2> QED
    BY <1>1, <1>3, <2>1, <2>2, <2>3
       DEF RootStep, TryBeginRootWork, OpenerLoop, RootWorkContinuation,
           WaitForActiveRootWork, DrainTimerFires, DrainerContinues
<1>4. CASE FenceStep
  BY <1>1, <1>2, <1>4
     DEF FenceStep, MarkGatewayRestartDraining, BeginRestartSignal,
         RollbackRestartSignal, RollbackOrphanedFence, ClearRestartSignalFence,
         TryBeginSuspend, CommitSuspend, RollbackSuspend, ReleaseSuspend, Transition
<1>5. CASE UNCHANGED vars
  BY <1>1, <1>5 DEF vars
<1> QED
  BY <1>3, <1>4, <1>5 DEF Next

\* There is no root and no bound closure at first.
LEMMA RootInitInv ==
  ASSUME Init
  PROVE  RootInv
<1>1. made = {} /\ activeRootWork = {}
  BY DEF Init
<1>2. /\ \A r \in Roots : ~released[r]
      /\ \A x \in Leases : leaseRoot[x] = None /\ ~leaseReleased[x]
  BY DEF Init
<1> QED
  BY <1>1, <1>2 DEF RootInv, RootsAreHeld

\* A root is active exactly until the last of the closures bound to it is
\* called, and its reference count is the number of those still out: closures
\* called twice, late or after a reset neither free a root early nor keep it.
THEOREM RootsAlwaysHeld == Spec => []RootsAreHeld
<1>1. Init => TypeOK /\ RootInv
  BY AdmissionTypeInit, RootInitInv
<1>2. (TypeOK /\ RootInv) /\ [Next]_vars => (TypeOK /\ RootInv)'
  BY AdmissionTypeStep, RootStepInv
<1>3. TypeOK /\ RootInv => RootsAreHeld
  BY DEF RootInv
<1> QED
  BY <1>1, <1>2, <1>3, PTL DEF Spec

\* Once the roots of a draining gateway are gone none is admitted until the
\* reset: a continuation needs a live parent, and there is none.
THEOREM DrainStaysFinal == Spec => DrainIsFinal
<1> DEFINE Final == restartDraining /\ restartDraining' /\ activeRootWork = {}
                      => activeRootWork' = {}
<1>1. ASSUME TypeOK, RootInv, [Next]_vars, restartDraining, restartDraining',
             activeRootWork = {}
      PROVE  activeRootWork' = {}
  <2>1. \A r \in made : released[r]
    BY <1>1 DEF RootInv, RootsAreHeld
  <2>2. CASE UNCHANGED rootVars
    BY <1>1, <2>2 DEF rootVars
  <2>3. ~\E ctx \in made : Live(ctx)
    BY <2>1 DEF Live
  <2>4. CASE RootStep
    <3>1. ~\E x \in Leases : ReleaseLease(x)
      BY <1>1, <2>1 DEF ReleaseLease, RootInv
    <3> QED
      BY <1>1, <2>2, <2>3, <2>4, <3>1
         DEF RootStep, TryBeginRootWork, OpenerLoop, RootWorkContinuation,
             RetainContinuation, WorkAdmissionClosed, WaitForActiveRootWork,
             DrainTimerFires, DrainerContinues
  <2>5. CASE FenceStep
    BY <2>2, <2>5
     DEF FenceStep, MarkGatewayRestartDraining, BeginRestartSignal,
         RollbackRestartSignal, RollbackOrphanedFence, ClearRestartSignalFence,
         TryBeginSuspend, CommitSuspend, RollbackSuspend, ReleaseSuspend, Transition,
         ResetGatewayWorkAdmission
  <2>6. CASE UNCHANGED vars
    BY <2>2, <2>6 DEF vars
  <2> QED
    BY <1>1, <2>4, <2>5, <2>6 DEF Next
<1>2. TypeOK /\ RootInv /\ [Next]_vars => [Final]_vars
  BY <1>1
<1>3. Init => TypeOK /\ RootInv
  BY AdmissionTypeInit, RootInitInv
<1>4. (TypeOK /\ RootInv) /\ [Next]_vars => (TypeOK /\ RootInv)'
  BY AdmissionTypeStep, RootStepInv
<1> QED
  BY <1>2, <1>3, <1>4, PTL DEF Spec, DrainIsFinal

-----------------------------------------------------------------------------
(* Waiters *)

\* A step that wakes the openers leaves none waiting, and one that keeps
\* admission as closed as it was, or more, strands none.
LEMMA OpenerStepInv ==
  ASSUME TypeOK, NoStrandedOpener, [Next]_vars
  PROVE  NoStrandedOpener'
<1>1. CASE ResolveSuspendOpenWaiters
  BY <1>1 DEF ResolveSuspendOpenWaiters, NoStrandedOpener
<1>2. CASE /\ UNCHANGED <<opener, restartDraining>>
           /\ WorkAdmissionClosed => WorkAdmissionClosed'
  BY <1>2 DEF NoStrandedOpener
<1>3. CASE UNCHANGED <<opener, restartVars, suspendVars>>
  BY <1>2, <1>3 DEF restartVars, suspendVars, WorkAdmissionClosed
<1>4. ASSUME NEW o \in Openers, NEW r \in Roots, NEW x \in Leases,
             OpenerLoop(o, r, x)
      PROVE  NoStrandedOpener'
  <2>1. UNCHANGED <<restartVars, suspendVars>>
    BY <1>4 DEF OpenerLoop
  <2>2. \A p \in Openers : p # o => opener'[p] = opener[p]
    BY <1>4 DEF OpenerLoop, TypeOK
  <2>3. opener'[o] = "waiting" => WorkAdmissionClosed /\ ~restartDraining
    BY <1>4 DEF OpenerLoop, TypeOK
  <2> QED
    BY <2>1, <2>2, <2>3 DEF NoStrandedOpener, restartVars, suspendVars,
                            WorkAdmissionClosed
<1>5. CASE RootStep
  BY <1>3, <1>4, <1>5 DEF RootStep, TryBeginRootWork, RootWorkContinuation,
     RetainContinuation, ReleaseLease, WaitForActiveRootWork, DrainTimerFires,
     DrainerContinues
<1>6. ASSUME NEW y \in RestartLeases, BeginRestartSignal(y)
      PROVE  NoStrandedOpener'
  BY <1>2, <1>6 DEF BeginRestartSignal, WorkAdmissionClosed
<1>7. ASSUME NEW z \in SuspendLeases, TryBeginSuspend(z)
      PROVE  NoStrandedOpener'
  BY <1>2, <1>7 DEF TryBeginSuspend, WorkAdmissionClosed, restartVars
<1>8. ASSUME NEW z \in SuspendLeases,
             CommitSuspend(z) \/ RollbackSuspend(z) \/ ReleaseSuspend(z)
      PROVE  NoStrandedOpener'
  BY <1>1, <1>2, <1>8 DEF CommitSuspend, RollbackSuspend, ReleaseSuspend,
     Transition, WorkAdmissionClosed, restartVars
<1>9. CASE FenceStep
  BY <1>1, <1>6, <1>7, <1>8, <1>9
     DEF FenceStep, MarkGatewayRestartDraining, RollbackRestartSignal,
         RollbackOrphanedFence, ClearRestartSignalFence, ResetGatewayWorkAdmission
<1>10. CASE UNCHANGED vars
  BY <1>3, <1>10 DEF vars
<1> QED
  BY <1>5, <1>9, <1>10 DEF Next

\* The step that retires the last root wakes those who wait for it.
LEMMA DrainerStepInv ==
  ASSUME TypeOK, NoStrandedDrainer, [Next]_vars
  PROVE  NoStrandedDrainer'
<1>1. CASE ResolveRootDrainWaiters
  BY <1>1 DEF ResolveRootDrainWaiters, NoStrandedDrainer
<1>2. CASE UNCHANGED drainer /\ (activeRootWork # {} => activeRootWork' # {})
  BY <1>2 DEF NoStrandedDrainer
<1>3. ASSUME NEW x \in Leases, ReleaseLease(x)
      PROVE  NoStrandedDrainer'
  BY <1>1, <1>2, <1>3 DEF ReleaseLease
<1>4. CASE \E d \in Drainers : \/ \E timed \in BOOLEAN : WaitForActiveRootWork(d, timed)
                               \/ DrainTimerFires(d)
                               \/ DrainerContinues(d)
  BY <1>4 DEF WaitForActiveRootWork, DrainTimerFires, DrainerContinues,
              NoStrandedDrainer, TypeOK, rootVars
<1>5. CASE RootStep
  BY <1>2, <1>3, <1>4, <1>5
     DEF RootStep, TryBeginRootWork, OpenerLoop, RootWorkContinuation,
         RetainContinuation, CreateRoot, rootVars
<1>6. CASE FenceStep
  BY <1>1, <1>2, <1>6
     DEF FenceStep, MarkGatewayRestartDraining, BeginRestartSignal,
         RollbackRestartSignal, RollbackOrphanedFence, ClearRestartSignalFence,
         TryBeginSuspend, CommitSuspend, RollbackSuspend, ReleaseSuspend, Transition,
         ResetGatewayWorkAdmission, rootVars
<1>7. CASE UNCHANGED vars
  BY <1>2, <1>7 DEF vars, rootVars
<1> QED
  BY <1>5, <1>6, <1>7 DEF Next

\* No wake-up is lost: a caller waiting for admission waits for a fence that is
\* still up and that a restart drain has not made final, and a caller waiting
\* for root work to drain has a root to wait for.
THEOREM NoWaiterStranded == Spec => []NoStrandedWaiter
<1>1. ASSUME Init PROVE TypeOK /\ NoStrandedOpener /\ NoStrandedDrainer
  BY <1>1, AdmissionTypeInit DEF Init, NoStrandedOpener, NoStrandedDrainer
<1>2. /\ TypeOK /\ NoStrandedOpener /\ NoStrandedDrainer
      /\ [Next]_vars
      => (TypeOK /\ NoStrandedOpener /\ NoStrandedDrainer)'
  BY AdmissionTypeStep, OpenerStepInv, DrainerStepInv
<1> QED
  BY <1>1, <1>2, PTL DEF Spec, NoStrandedWaiter
=============================================================================
