------------------------ MODULE GatewayRuntimeProofs ------------------------
(***************************************************************************)
(* Theorems about GatewayRuntime, for every number of lanes, calls, roots, *)
(* closures and leases: the queue behind admission is still the queue, and *)
(* a host that is prepared for suspension is idle.                         *)
(***************************************************************************)
EXTENDS GatewayRuntime, CommandQueueProofs

-----------------------------------------------------------------------------
(* The runtime runs the queue *)

\* An agent run asks for the main lane, or for the cron lane if it runs inside a
\* cron task.
LanesAsked ==
  /\ requested \in [Calls -> {"main", "cron"}]
  /\ \A c \in Calls : requested[c] = "cron" => "cron" \in Lanes

\* The inner lane of a task exists.
LEMMA InnerLaneExists ==
  ASSUME LanesAsked, NEW d \in Calls
  PROVE  InnerLane(d) \in Lanes
  BY RuntimeAssumption DEF LanesAsked, InnerLane, ResolveGlobalLane

\* The next call to be made is a call.
LEMMA FreshIsCall ==
  ASSUME NEW c \in FreshCall
  PROVE  c \in Calls
<1> DEFINE unused == {d \in Calls : promise[d] = "none"}
<1>1. unused # {} /\ c = (CHOOSE d \in unused : TRUE)
  BY DEF FreshCall
<1>2. c \in unused
  BY <1>1
<1> QED
  BY <1>2

\* What is submitted is enqueued, or refused, by a step of the queue.
LEMMA SubmitIsQueueStep ==
  ASSUME NEW c \in Calls, NEW lane \in Lanes, NEW ctx, Submit(c, lane, ctx)
  PROVE  Next
<1>1. CASE RefuseEnqueue(c)
  BY <1>1 DEF Next
<1>2. CASE EnqueueCommandInLane(c, lane, "normal", {})
  BY <1>2, RuntimeAssumption DEF Next
<1> QED
  BY <1>1, <1>2 DEF Submit

\* A step of the runtime is a step of the queue or leaves it alone, and asks for
\* lanes that exist.
LEMMA RuntimeStepIsQueueStep ==
  ASSUME LanesAsked, [RuntimeNext]_runtimeVars
  PROVE  [Next]_vars /\ LanesAsked'
<1>1. ASSUME NEW r, NEW c \in FreshCall,
             NEW lane \in {"cron", "session"} \cap Lanes, HandlerSubmits(r, c, lane)
      PROVE  Next /\ LanesAsked'
  <2>1. c \in Calls
    BY FreshIsCall
  <2>2. Next
    BY <1>1, <2>1, SubmitIsQueueStep DEF HandlerSubmits
  <2>3. LanesAsked'
    BY <1>1, <2>1 DEF HandlerSubmits, LanesAsked
  <2> QED
    BY <2>2, <2>3
<1>2. ASSUME NEW d \in Calls, NEW c \in FreshCall, BodySubmits(d, c)
      PROVE  Next /\ LanesAsked'
  <2>1. c \in Calls
    BY FreshIsCall
  <2>2. Next
    BY <1>2, <2>1, SubmitIsQueueStep, InnerLaneExists DEF BodySubmits
  <2>3. LanesAsked'
    BY <1>2, <2>1 DEF BodySubmits, LanesAsked
  <2> QED
    BY <2>2, <2>3
<1>3. ASSUME NEW d \in Calls, NEW outcome \in {"resolved", "failed"}, BodyEnds(d, outcome)
      PROVE  Next /\ LanesAsked'
  BY <1>3 DEF BodyEnds, Next, LanesAsked, nestVars
<1>4. ASSUME NEW c \in Calls, BodyCompletes(c)
      PROVE  Next /\ LanesAsked'
  BY <1>4 DEF BodyCompletes, Next, LanesAsked, nestVars
<1>5. ASSUME UNCHANGED vars, UNCHANGED nestVars
      PROVE  [Next]_vars /\ LanesAsked'
  BY <1>5 DEF LanesAsked, nestVars
<1>6. CASE LifecycleReset
  BY <1>6 DEF LifecycleReset, Next, LanesAsked, nestVars
<1>7. CASE UNCHANGED runtimeVars
  BY <1>5, <1>7 DEF runtimeVars
<1>8. ASSUME NEW z, NEW outcome, PrepareSuspend(z, outcome)
      PROVE  UNCHANGED vars /\ UNCHANGED nestVars
  BY <1>8 DEF PrepareSuspend
<1>9. CASE ResumeSuspend \/ AdmissionStep \/ MarkDraining
  BY <1>5, <1>9 DEF ResumeSuspend, AdmissionStep, MarkDraining
<1> QED
  BY <1>1, <1>2, <1>3, <1>4, <1>5, <1>6, <1>7, <1>8, <1>9 DEF RuntimeNext

\* Composition: whatever admission, suspension, restarts and nested runs do, the
\* queue inside the gateway is the queue of command-queue.ts, so what is proved
\* of it holds in the gateway.
THEOREM RuntimeRunsQueue == RuntimeSpec => Spec
<1>1. RuntimeInit => Init /\ LanesAsked
  BY DEF RuntimeInit, LanesAsked
<1>2. LanesAsked /\ [RuntimeNext]_runtimeVars => [Next]_vars /\ LanesAsked'
  BY RuntimeStepIsQueueStep
<1> QED
  BY <1>1, <1>2, PTL DEF RuntimeSpec, Spec

\* Corollary of the composition: in the gateway, too, each call waits, runs once
\* and is answered once, or is turned away and never runs.
THEOREM RuntimeKeepsPromise == RuntimeSpec => KeepsPromise
  BY RuntimeRunsQueue, QueueKeepsPromise, PTL

-----------------------------------------------------------------------------
(* Roots and contexts *)

\* The active roots are those made and not released; closures are bound to roots
\* that were made.
RootOK ==
  /\ made \subseteq Roots
  /\ released \in [Roots -> BOOLEAN]
  /\ leaseRoot \in [Leases -> Roots \cup {None}]
  /\ activeRootWork = {r \in made : ~released[r]}
  /\ \A r \in Roots \ made : ~released[r]
  /\ \A x \in Leases : leaseRoot[x] # None => leaseRoot[x] \in made

\* A task runs in the context of a root that was made, or of none.
ContextOK == context \in [Calls -> made \cup {None}]

\* What the proof of PreparedIsIdle needs besides the types of the queue.
IdleInv == RootOK /\ ContextOK /\ PreparedIsIdle

\* Behind a prepared suspension every context is refused: without a root because
\* of the phase, with one because it has been released.
LEMMA PreparedRefuses ==
  ASSUME RootOK, activeRootWork = {}, suspendPhase = "prepared",
         NEW ctx \in made \cup {None}
  PROVE  Coord!SubordinateWorkAdmissionClosed(ctx)
  BY DEF RootOK, Coord!SubordinateWorkAdmissionClosed

\* The tasks a step starts get a context that exists.
LEMMA RunInKeepsContext ==
  ASSUME ContextOK, NEW ctx \in made \cup {None}, RunIn(ctx), made' = made
  PROVE  ContextOK'
  BY DEF ContextOK, RunIn

\* A completion in an idle queue starts nothing.
LEMMA IdleCompletes ==
  ASSUME TypeOK, QueueIdle, NEW c \in Calls, CompleteTask(c)
  PROVE  QueueIdle'
<1> DEFINE l == entry[c].lane
           a == [active EXCEPT ![l] = @ \ {c}]
<1>1. CASE UNCHANGED <<queue, active>>
  BY <1>1 DEF QueueIdle
<1>2. CASE DrainLanes({l}, entry, queue, a, maxConcurrent, generation)
  <2>1. l \in Lanes
    BY DEF TypeOK, Entry
  <2>2. \A k \in Lanes : queue[k] = <<>> /\ a[k] = {}
    <3>1. a \in [Lanes -> SUBSET Calls] /\ \A k \in Lanes : a[k] \subseteq active[k]
      BY <2>1 DEF TypeOK
    <3> HIDE DEF a
    <3> QED
      BY <3>1 DEF QueueIdle
  <2> HIDE DEF a
  <2>3. \A k \in Lanes : StartCount(queue[k], a[k], maxConcurrent[k]) = 0
    <3>1. \A k \in Lanes : Cardinality(a[k]) = 0 /\ Len(queue[k]) = 0
      <4>1. Cardinality({}) = 0 /\ Len(<<>>) = 0
        BY FS_EmptySet
      <4> QED
        BY <2>2, <4>1
    <3>2. maxConcurrent \in [Lanes -> Nat]
      BY DEF TypeOK
    <3> QED
      BY <3>1, <3>2 DEF StartCount
  <2>4. \A k \in Lanes : /\ Taken(queue[k], a[k], maxConcurrent[k]) = {}
                         /\ Rest(queue[k], a[k], maxConcurrent[k]) = <<>>
    BY <2>2, <2>3 DEF Taken, Rest
  <2>5. /\ queue' = [k \in Lanes |-> IF k \in {l} THEN Rest(queue[k], a[k], maxConcurrent[k])
                                                ELSE queue[k]]
        /\ active' = [k \in Lanes |-> IF k \in {l}
                        THEN a[k] \cup Taken(queue[k], a[k], maxConcurrent[k]) ELSE a[k]]
    BY <1>2 DEF DrainLanes
  <2> QED
    BY <2>2, <2>4, <2>5 DEF QueueIdle
<1> QED
  BY <1>1, <1>2 DEF CompleteTask

-----------------------------------------------------------------------------
(* Steps *)

\* Submitted work is refused behind a prepared suspension.
LEMMA SubmitIdle ==
  ASSUME IdleInv, NEW c \in Calls, NEW lane, NEW ctx \in made \cup {None},
         Submit(c, lane, ctx)
  PROVE  IdleInv'
<1>1. UNCHANGED <<made, released, leaseRoot, activeRootWork, suspendPhase>>
  BY DEF Submit, admissionVars
<1>2. RootOK'
  BY <1>1 DEF IdleInv, RootOK
<1>3. ContextOK'
  BY <1>1, RunInKeepsContext DEF Submit, IdleInv
<1>4. PreparedIsIdle'
  <2> SUFFICES ASSUME suspendPhase = "prepared" PROVE activeRootWork = {} /\ QueueIdle'
    BY <1>1 DEF PreparedIsIdle, QueueIdle
  <2>1. activeRootWork = {} /\ QueueIdle
    BY DEF IdleInv, PreparedIsIdle
  <2>2. RefuseEnqueue(c)
    BY <2>1, PreparedRefuses DEF IdleInv, Submit
  <2> QED
    BY <2>1, <2>2 DEF RefuseEnqueue, laneVars, QueueIdle
<1> QED
  BY <1>2, <1>3, <1>4 DEF IdleInv

\* Roots that are made, retained and released keep their invariant, and behind a
\* prepared suspension none is made.
LEMMA RootStepIdle ==
  ASSUME IdleInv, AdmissionStep
  PROVE  IdleInv'
<1>1. UNCHANGED <<vars, context, suspendPhase>>
  BY DEF AdmissionStep, Coord!TryBeginRootWork, Coord!RetainContinuation,
         Coord!ReleaseLease, Coord!BeginRestartSignal, Coord!RollbackRestartSignal,
         Coord!ClearRestartSignalFence, Coord!suspendVars
<1>2. UNCHANGED <<queue, active>>
  BY <1>1 DEF vars, laneVars
<1>3. ASSUME NEW r \in Roots, NEW x \in Leases, Coord!TryBeginRootWork(None, r, x)
      PROVE  RootOK' /\ made \subseteq made' /\ suspendPhase # "prepared"
  BY <1>3 DEF Coord!TryBeginRootWork, Coord!CreateRoot, Coord!WorkAdmissionClosed,
              IdleInv, RootOK
<1>4. ASSUME NEW ctx \in made, NEW x \in Leases, Coord!RetainContinuation(ctx, x)
      PROVE  RootOK' /\ made \subseteq made' /\ activeRootWork' \subseteq activeRootWork
  BY <1>4 DEF Coord!RetainContinuation, IdleInv, RootOK
<1>5. ASSUME NEW x \in Leases, Coord!ReleaseLease(x)
      PROVE  RootOK' /\ made \subseteq made' /\ activeRootWork' \subseteq activeRootWork
  <2> DEFINE r == leaseRoot[x]
             last == references[r] <= 1
  <2>1. /\ r \in made /\ r \in Roots /\ ~released[r]
        /\ released' = [released EXCEPT ![r] = last]
        /\ activeRootWork' = IF last THEN activeRootWork \ {r} ELSE activeRootWork
        /\ UNCHANGED <<made, leaseRoot>>
    BY <1>5 DEF Coord!ReleaseLease, IdleInv, RootOK
  <2>2. last \in BOOLEAN
    OBVIOUS
  <2> HIDE DEF r, last
  <2> QED
    BY <2>1, <2>2 DEF IdleInv, RootOK
<1>6. ASSUME UNCHANGED Coord!rootVars
      PROVE  RootOK' /\ made \subseteq made' /\ activeRootWork' \subseteq activeRootWork
  BY <1>6 DEF Coord!rootVars, IdleInv, RootOK
<1>7. /\ RootOK' /\ made \subseteq made'
      /\ activeRootWork' \subseteq activeRootWork \/ suspendPhase # "prepared"
  BY <1>3, <1>4, <1>5, <1>6 DEF AdmissionStep, Coord!BeginRestartSignal,
     Coord!RollbackRestartSignal, Coord!ClearRestartSignalFence
<1> QED
  BY <1>1, <1>2, <1>7 DEF IdleInv, ContextOK, PreparedIsIdle, QueueIdle

\* A prepare that holds the host has found it idle; any other way out of it
\* reopens admission.
LEMMA PrepareIdle ==
  ASSUME IdleInv, NEW z, NEW outcome \in {"idle", "busy"}, PrepareSuspend(z, outcome)
  PROVE  IdleInv'
<1>1. UNCHANGED <<queue, active, context>>
  BY DEF PrepareSuspend, vars, laneVars
<1>2. UNCHANGED <<made, released, leaseRoot, activeRootWork>>
  BY DEF PrepareSuspend, Coord!Prepare, Coord!AcquireSuspend, Coord!rootVars
<1>3. suspendPhase' = "prepared" => activeRootWork = {} /\ QueueIdle
  BY DEF PrepareSuspend, Coord!Prepare, Coord!AcquireSuspend
<1> QED
  BY <1>1, <1>2, <1>3 DEF IdleInv, RootOK, ContextOK, PreparedIsIdle, QueueIdle

\* Steps that leave roots, queue and contexts alone, and do not prepare.
LEMMA QuietIdle ==
  ASSUME IdleInv,
         UNCHANGED <<queue, active, context, made, released, leaseRoot, activeRootWork>>,
         suspendPhase' \in {suspendPhase, "accepting"}
  PROVE  IdleInv'
  BY DEF IdleInv, RootOK, ContextOK, PreparedIsIdle, QueueIdle

\* Between two lifecycles every root is retired and admission is open.
LEMMA ResetIdle ==
  ASSUME IdleInv, LifecycleReset
  PROVE  IdleInv'
<1>1. /\ made' = made /\ leaseRoot' = leaseRoot
      /\ activeRootWork' = {}
      /\ released' = [r \in Roots |-> r \in activeRootWork \/ released[r]]
  BY DEF LifecycleReset, Coord!LifecycleReset, Coord!ResetGatewayWorkAdmission
<1>2. suspendPhase' = "accepting"
  BY DEF LifecycleReset, Coord!LifecycleReset, Coord!ResetGatewayWorkAdmission,
         Coord!InvalidateSuspendAdmission
<1>3. RootOK'
  BY <1>1 DEF IdleInv, RootOK
<1>4. ContextOK'
  BY <1>1, RunInKeepsContext DEF LifecycleReset, IdleInv
<1> QED
  BY <1>2, <1>3, <1>4 DEF IdleInv, PreparedIsIdle

\* Every step of the runtime keeps the invariant.
LEMMA RuntimeStepIdle ==
  ASSUME TypeOK, IdleInv, [RuntimeNext]_runtimeVars
  PROVE  IdleInv'
<1>1. ASSUME NEW r \in made \cup {None}, NEW c \in FreshCall, NEW lane,
             HandlerSubmits(r, c, lane)
      PROVE  IdleInv'
  BY <1>1, FreshIsCall, SubmitIdle DEF HandlerSubmits
<1>2. ASSUME NEW d \in Calls, NEW c \in FreshCall, BodySubmits(d, c)
      PROVE  IdleInv'
  <2>1. context[d] \in made \cup {None}
    BY DEF IdleInv, ContextOK
  <2> QED
    BY <1>2, <2>1, FreshIsCall, SubmitIdle DEF BodySubmits
<1>3. ASSUME NEW d \in Calls, NEW outcome, BodyEnds(d, outcome)
      PROVE  IdleInv'
  BY <1>3, QuietIdle DEF BodyEnds, TaskEnds, laneVars, admissionVars
<1>4. ASSUME NEW c \in Calls, BodyCompletes(c)
      PROVE  IdleInv'
  <2>1. UNCHANGED <<made, released, leaseRoot, activeRootWork, suspendPhase>>
    BY <1>4 DEF BodyCompletes, admissionVars
  <2>2. RootOK'
    BY <2>1 DEF IdleInv, RootOK
  <2>3. context[c] \in made \cup {None}
    BY DEF IdleInv, ContextOK
  <2>4. ContextOK'
    BY <1>4, <2>1, <2>3, RunInKeepsContext DEF BodyCompletes, IdleInv
  <2>5. QueueIdle => QueueIdle'
    BY <1>4, IdleCompletes DEF BodyCompletes
  <2> QED
    BY <2>1, <2>2, <2>4, <2>5 DEF IdleInv, PreparedIsIdle
<1>5. CASE ResumeSuspend
  <2>1. UNCHANGED <<made, released, leaseRoot, activeRootWork>>
    BY <1>5 DEF ResumeSuspend, Coord!ResumeGatewaySuspend, Coord!ResumeAndReopen,
                Coord!Transition, Coord!vars, Coord!rootVars
  <2>2. suspendPhase' \in {suspendPhase, "accepting"}
    BY <1>5 DEF ResumeSuspend, Coord!ResumeGatewaySuspend, Coord!ResumeAndReopen,
                Coord!Transition, Coord!vars, Coord!suspendVars
  <2> QED
    BY <1>5, <2>1, <2>2, QuietIdle DEF ResumeSuspend, vars, laneVars
<1>6. CASE MarkDraining
  <2>1. UNCHANGED <<made, released, leaseRoot, activeRootWork>>
    BY <1>6 DEF MarkDraining, Coord!MarkDraining, Coord!MarkGatewayRestartDraining,
                Coord!rootVars
  <2>2. suspendPhase' \in {suspendPhase, "accepting"}
    BY <1>6 DEF MarkDraining, Coord!MarkDraining, Coord!MarkGatewayRestartDraining,
                Coord!InvalidateSuspendAdmission, Coord!suspendVars
  <2> QED
    BY <1>6, <2>1, <2>2, QuietIdle DEF MarkDraining, vars, laneVars
<1>7. CASE UNCHANGED runtimeVars
  BY <1>7, QuietIdle DEF runtimeVars, admissionVars, vars, laneVars
<1> QED
  BY <1>1, <1>2, <1>3, <1>4, <1>5, <1>6, <1>7, PrepareIdle, RootStepIdle, ResetIdle
     DEF RuntimeNext

\* A prepared host is idle to the last lane: between the inspection of
\* prepareGatewaySuspend and the moment admission reopens no root is active and
\* no task is queued or started, although tasks abandoned by an earlier lifecycle
\* still run, complete and try to enqueue more.
THEOREM PreparedStaysIdle == RuntimeSpec => []PreparedIsIdle
<1>1. RuntimeInit => IdleInv
  BY DEF RuntimeInit, Coord!CoordInit, Coord!Init, IdleInv, RootOK, ContextOK,
         PreparedIsIdle
<1>2. TypeOK /\ IdleInv /\ [RuntimeNext]_runtimeVars => IdleInv'
  BY RuntimeStepIdle
<1>3. IdleInv => PreparedIsIdle
  BY DEF IdleInv
<1> QED
  BY <1>1, <1>2, <1>3, RuntimeRunsQueue, QueueTypeCorrect, PTL DEF RuntimeSpec
=============================================================================
