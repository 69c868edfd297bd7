--------------------------- MODULE GatewayRuntime ---------------------------
(***************************************************************************)
(* The command queue, root work admission and host suspension together:    *)
(* enqueueCommandInLane asks admission first, and admission answers by the *)
(* root record that AsyncLocalStorage finds for the caller.                *)
(*                                                                         *)
(* AsyncLocalStorage follows calls and awaits.  drainLane starts a queued  *)
(* task inside the stretch that pumps the lane, so the task runs in the    *)
(* context of whoever pumped: the caller of enqueueCommandInLane, or the   *)
(* task whose completion freed the slot.                                   *)
(*                                                                         *)
(* Work nests through lanes as in the embedded agent runner: a manual cron *)
(* run holds the cron lane and runs an agent, which takes its session's    *)
(* lane and, inside it, a global lane, each outer task awaiting the inner. *)
(***************************************************************************)
EXTENDS CommandQueue

CONSTANTS Roots, Leases, Openers, Drainers, RestartLeases, SuspendLeases, None

\* The lanes that nested runs ask for exist.  The runner's lane controller passes
\* on a session's priority and a lane timeout; here a call has the default
\* priority and no timeout, which the properties of this module do not tell apart
\* (CommandQueue has both).
ASSUME RuntimeAssumption ==
  /\ {"session", "main"} \subseteq Lanes
  /\ "cron" \in Lanes => "cron-nested" \in Lanes
  /\ "normal" \in PriorityOptions /\ {} \in TimeoutOptions

VARIABLES
  restartDraining, restartSignalPending, restartSignalGeneration,
  suspendPhase, suspendGeneration, suspendInvalidated, activeRootWork,
  references, released, made, leaseRoot, leaseReleased, opener, drainer,
  restartLease, suspendLease, suspendView, current, retired, scheduling,
  context,    \* the root record a started task's code finds, or None
  owner,      \* the root whose transaction the call belongs to, or None
  parent,     \* the call whose task made this one and awaits it, or None
  requested   \* the lane parameter the agent run was given

Coord == INSTANCE SuspendCoordinator

nestVars == <<owner, parent, requested>>
admissionVars ==
  <<restartDraining, restartSignalPending, restartSignalGeneration,
    suspendPhase, suspendGeneration, suspendInvalidated, activeRootWork,
    references, released, made, leaseRoot, leaseReleased, opener, drainer,
    restartLease, suspendLease, suspendView, current, retired, scheduling>>
runtimeVars == <<vars, admissionVars, context, nestVars>>

-----------------------------------------------------------------------------
(* Nested work *)

\* Seeded fault: inner work of a cron job asks for the cron lane itself.
ResolveGlobalLaneSame(lane) == lane

\* resolveGlobalLane; callers that pass no lane get main.
ResolveGlobalLane(lane) == IF lane = "cron" THEN "cron-nested" ELSE lane

\* The lane in which the task of call d enqueues what it awaits: a cron run
\* its agent run's session lane, a session task the global lane.
InnerLane(d) ==
  IF entry[d].lane = "cron" THEN "session" ELSE ResolveGlobalLane(requested[d])

\* The tasks that this step starts run in context ctx.
RunIn(ctx) ==
  context' = [c \in Calls |-> IF ~Started(c) /\ Started(c)' THEN ctx ELSE context[c]]

\* enqueueCommandInLane with its admission check, by code in context ctx.
Submit(c, lane, ctx) ==
  /\ IF Coord!SubordinateWorkAdmissionClosed(ctx)
     THEN RefuseEnqueue(c)
     ELSE EnqueueCommandInLane(c, lane, "normal", {})
  /\ RunIn(ctx)
  /\ UNCHANGED admissionVars

\* A handler, a detached descendant of one, or a chain without a root starts
\* a cron run or an agent run.
HandlerSubmits(r, c, lane) ==
  /\ Submit(c, lane, r)
  /\ owner' = [owner EXCEPT ![c] = r]
  /\ requested' = [requested EXCEPT ![c] = IF lane = "cron" THEN "cron" ELSE "main"]
  /\ UNCHANGED parent

\* The task of d enqueues the next lane's task and awaits it.
BodySubmits(d, c) ==
  /\ body[d] = "running"
  /\ entry[d].lane \in {"cron", "session"}
  /\ \A b \in Calls : parent[b] # d
  /\ Submit(c, InnerLane(d), context[d])
  /\ owner' = [owner EXCEPT ![c] = owner[d]]
  /\ parent' = [parent EXCEPT ![c] = d]
  /\ requested' = [requested EXCEPT ![c] = requested[d]]

\* A task ends, with the outcome of what it awaited if that failed.
BodyEnds(d, outcome) ==
  /\ \A c \in Calls : parent[c] = d =>
       /\ promise[c] \in Settled
       /\ promise[c] # "resolved" => outcome = "failed"
  /\ TaskEnds(d, outcome)
  /\ UNCHANGED <<admissionVars, context, nestVars>>

\* The continuation of a task pumps its lane in the task's own context.
BodyCompletes(c) ==
  /\ CompleteTask(c)
  /\ RunIn(context[c])
  /\ UNCHANGED <<admissionVars, nestVars>>

-----------------------------------------------------------------------------
(* Admission *)

\* The inspection of prepareGatewaySuspend counts queued and active tasks.
QueueIdle == \A l \in Lanes : queue[l] = <<>> /\ active[l] = {}

PrepareSuspend(z, outcome) ==
  /\ outcome = "idle" => QueueIdle
  /\ Coord!Prepare(z, outcome, TRUE)
  /\ UNCHANGED <<vars, context, nestVars>>

ResumeSuspend ==
  /\ Coord!ResumeGatewaySuspend(TRUE)
  /\ UNCHANGED <<vars, context, nestVars>>

\* Requests are admitted and finish; a restart is signalled, withdrawn, begun.
AdmissionStep ==
  /\ \/ \E r \in Roots, x \in Leases : Coord!TryBeginRootWork(None, r, x)
     \/ \E ctx \in made, x \in Leases : Coord!RetainContinuation(ctx, x)
     \/ \E x \in Leases : Coord!ReleaseLease(x)
     \/ \E y \in RestartLeases : Coord!BeginRestartSignal(y)
     \/ \E y \in RestartLeases : Coord!RollbackRestartSignal(y)
  /\ UNCHANGED <<vars, context, nestVars, current, retired, scheduling>>

MarkDraining == Coord!MarkDraining /\ UNCHANGED <<vars, context, nestVars>>

\* resetGatewaySuspendCoordinatorForLifecycleRestart and resetAllLanes, which
\* resets admission before it drains the lanes; the run loop has no root.
LifecycleReset ==
  /\ Coord!LifecycleReset
  /\ ResetAllLanes
  /\ RunIn(None)
  /\ UNCHANGED nestVars

-----------------------------------------------------------------------------
\* Calls are interchangeable, so the next one to be made may be any unused one.
FreshCall ==
  LET unused == {c \in Calls : promise[c] = "none"}
  IN IF unused = {} THEN {} ELSE {CHOOSE c \in unused : TRUE}

RuntimeInit ==
  /\ Init
  /\ Coord!CoordInit
  /\ context = [c \in Calls |-> None]
  /\ owner = [c \in Calls |-> None]
  /\ parent = [c \in Calls |-> None]
  /\ requested = [c \in Calls |-> "main"]

RuntimeNext ==
  \/ \E r \in made \cup {None}, c \in FreshCall, lane \in {"cron", "session"} \cap Lanes :
       HandlerSubmits(r, c, lane)
  \/ \E d \in Calls, c \in FreshCall : BodySubmits(d, c)
  \/ \E d \in Calls, outcome \in {"resolved", "failed"} : BodyEnds(d, outcome)
  \/ \E c \in Calls : BodyCompletes(c)
  \/ \E z \in SuspendLeases, outcome \in {"idle", "busy"} : PrepareSuspend(z, outcome)
  \/ ResumeSuspend
  \/ AdmissionStep
  \/ MarkDraining
  \/ LifecycleReset

RuntimeSpec == RuntimeInit /\ [][RuntimeNext]_runtimeVars

\* Tasks that do not wait for another one end; continuations run.
RuntimeLiveSpec ==
  /\ RuntimeSpec
  /\ \A c \in Calls : WF_runtimeVars(BodyCompletes(c))
  /\ \A d \in Calls :
       WF_runtimeVars(\E o \in {"resolved", "failed"} : BodyEnds(d, o))

\* Handlers that await the calls they made before their root is released, in
\* one lifecycle.
HandlersAwait ==
  \A r \in Roots : ~released[r] /\ released'[r] =>
    \A c \in Calls : owner[c] = r => promise[c] # "pending"

AwaitingSpec == RuntimeInit /\ [][RuntimeNext /\ HandlersAwait]_runtimeVars

-----------------------------------------------------------------------------
(* Properties *)

\* A prepared host is idle to the last lane: from the inspection until
\* admission reopens no task is queued or started, although tasks abandoned by
\* an earlier lifecycle still run and try to enqueue more.
PreparedIsIdle ==
  suspendPhase = "prepared" => activeRootWork = {} /\ QueueIdle

\* No circular wait between lanes: cron runs, session tasks and global tasks
\* that await each other through one-slot lanes are all answered, also when a
\* restart refuses the inner call of a task that is already running.
NestedWorkSettles ==
  \A c \in Calls : promise[c] = "pending" ~> promise[c] \in Settled

\* gateway-work-admission.ts says that existing admitted roots may finish
\* spawning subordinate work: unless a restart is signalled or begun, a call
\* that belongs to a root still live is not refused.
AdmittedRootMaySpawn ==
  [][\A c \in Calls :
       /\ promise[c] = "none" /\ promise'[c] = "refused"
       /\ owner'[c] # None /\ ~released[owner'[c]]
       => restartDraining \/ restartSignalPending]_runtimeVars
=============================================================================
