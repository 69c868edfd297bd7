# LuckyNemo gateway: TLA+ models of the concurrency core

The repository is a personal-assistant gateway written in TypeScript: one Node
process that takes requests from chat channels, a WebSocket protocol, cron jobs
and timers, and turns them into runs of agents. Most of the source is
integration (channels, model providers, plugins, user interfaces). What decides
whether the process as a whole is *correct* is a small core that every request
goes through: who may start work, in which lane it waits, what happens to it
when a lane is reset, when the host wants to suspend, when the gateway
restarts, which turn may touch a session that is being reset or deleted, and
whether a message that was handed over for delivery arrives once. This project
models that core, checks it with TLC on small instances, and proves every safety
property that the passing runs check with TLAPS, for every size.

All paths below are relative to the repository (`src/` is its root).

## 1. Inventory

### 1.1 Components that are modelled

| Component | Source | State | Operations | Module |
|---|---|---|---|---|
| Command queue | `src/process/command-queue.ts`, `lanes.ts` | per lane: queue, `activeTaskIds`, `maxConcurrent`, `generation`; sequence counter; waiters; per task: race, timer, listeners | enqueue, drain/pump, complete, set limit, clear lane, reset lane, reset all, wait for active tasks, timeouts and signals | `CommandQueue` |
| Root work admission | `src/process/gateway-work-admission.ts` | active roots with reference counts and release closures; restart drain flag; restart-signal fence with generation; suspension phase with generation; two sets of waiters | begin root, wait until open, continuations, release, wait for drain, fence and roll back, mark draining, suspend / commit / roll back / release, reset | `GatewayAdmission` |
| Host suspension coordinator | `src/infra/gateway-suspend-coordinator.ts`, `gateway-active-work.ts` | the current entry (held or recovering), the retired entry, expiry and retry timers, whether cron scheduling is paused | prepare, renew, expire, retry, resume, invalidation callback, lifecycle reset | `SuspendCoordinator` |
| Gateway runtime | `src/agents/embedded-agent-runner/lanes.ts`, `run/lane-controller.ts`, and the calls between the three above | the asynchronous context of every task; which task awaits which | submit with admission check, nested submits, joint reset | `GatewayRuntime` |
| Heartbeat wakes | `src/infra/heartbeat-wake.ts` | pending wakes per target, one timer of two kinds, `running` / `scheduled`, handler generation, batches in progress | request, timer, attempt returns / is busy / throws, register and dispose of a handler | `HeartbeatWake` |
| Outbound delivery queue | `src/infra/outbound/deliver.ts`, `delivery-queue-*.ts` | durable rows with their recovery state and retry count; claims; drains with a snapshot; the locals of a send | enqueue, live send, markers, acknowledge / fail / move, startup recovery and drains, reconcile, crash | `DeliveryQueue` |
| Restart notice | `src/gateway/server-restart-sentinel.ts` | the loop of `deliverRestartSentinelNotice` beside the queue's row | start, send, retry, give up, crash | `RestartNotice` |
| Session lifecycle admission | `src/sessions/session-lifecycle-admission.ts`, `session-work-admission-handoff.ts`, `src/shared/store-writer-queue.ts` | lines of writers per identity and for the store; active mutations; admissions with their owners, interrupts and handoffs; idle waiters | admit, wait, register, release, hand over, adopt; mutate: lock, mark, interrupt, drain, write, unmark; maintenance; abort | `SessionLifecycle` |
| Restart coordination | `src/infra/restart.ts`, `src/cli/gateway-cli/run-loop.ts` (SIGUSR1), `src/gateway/server-reload-handlers.ts` (deferral) | the one pending restart (timer, preparation, parked hooks, owner); polls; fence and lease; tokens and authorizations | request, bypass, pull earlier, coalesce; timer; poll, time out, cancel; take the fence, prepare, emit, retract; accept, ignore or fail a signal; next life | `RestartSignal` |

### 1.2 How they interact

* `enqueueCommandInLane` asks admission first. Admission answers by the root
  record that `AsyncLocalStorage` finds for the *caller*, so who called, and in
  whose continuation, is state.
* `drainLane` starts queued tasks inside the stretch of code that pumps the
  lane; the started task inherits the context of whoever pumped.
* `prepareGatewaySuspend` takes a suspension lease from admission, counts roots
  and queued and active tasks, pauses the cron scheduler and commits. Admission
  calls back (`onInvalidated`) when a restart or a reset supersedes the lease.
* `resetAllLanes` resets admission and then pumps every lane; an in-process
  restart resets the coordinator first.
* An agent run takes its session's lane and, inside it, a global lane; a manual
  cron run holds the cron lane around both. Each outer task awaits the inner.
* The heartbeat handler runs an agent, and reports "busy" when a lane is.
* A restart attempt is root work of its own: it waits for admission to open,
  closes it with the restart-signal fence and, when the signal handler accepts,
  leaves it to the drain. A prepared suspension therefore holds a restart back,
  and a restart under way holds a suspension back.
* A turn on a session is admitted under the session's identities before its task
  enters a lane; a reset or delete waits for that turn outside the locks.
* Session maintenance, bodies of mutations and the last check of an admission
  share the writer queue of the session store.
* The hook of a restart writes the sentinel from which the next start sends its
  notice, through a row of the delivery queue.

### 1.3 What is hard here, and what correctness means

| Component | Hard behaviour | What must hold |
|---|---|---|
| Command queue | completions of an abandoned generation arrive after a reset; signals fire before, during and after the race; limits move under running tasks; waiters captured ids that a reset removes | active ids are exact; nothing is lost, duplicated or run after it was rejected; no idle lane with work; priority order; waiters wake; every call is answered |
| Admission | three kinds of fence open and close in any order, each with leases that may be stale; closures called twice or late | reference counts are exact; only the owner opens a fence; nobody waits behind an open fence; a drain is final |
| Suspension | every step of prepare can throw; resumes fail and are retried; a restart overtakes a suspension | a closed gateway always has somebody who will reopen it; a paused scheduler somebody who will resume it; a prepared host is quiet; every suspension ends |
| Runtime | work nests through one-slot lanes; tasks outlive a restart with retired roots | no circular wait; nothing enters the lanes of a prepared host; admitted roots may finish their work |
| Heartbeat | requests arrive while a batch runs; a stale batch ends under the flags of a new handler | no pending wake without a timer; no forgotten retry; every wake is served |
| Delivery | a crash at any step; writes to the queue that fail; sends that time out but arrive; drains that work from old snapshots | nothing is shown twice; what is called delivered was; nothing ends without a trace; no row stays pending for ever |
| Sessions | locks of several identities; marks, interrupts and bodies take them separately; turns that wait for mutations that wait for turns | a body is alone; an admitted turn keeps its session; interrupts reach whoever owns the turn; everybody is answered |
| Restart | requests of five kinds share one slot; attempts outlive their deferral, their fence and even the restart; signals are ignored or fail | a closed fence has an owner and opens; a pending restart is being worked on; no sentinel is left behind; no session takes another's place |

`PROJECT.json` lists the hazards one by one, at the line where each would bite,
with the properties that would catch it.

### 1.4 Components that are not modelled

Listed in `PROJECT.json` with their sources. Planned (section 6): execution
approvals, the pairing store, the session delivery queue, the follow-up queue,
session suspension, the process supervisor and the cron service. Left out for
good: the session write lock, whose algorithm is in a package outside the
repository; the protocol and transport of the gateway server, agents and model
providers, channels and plugins, and the front ends, which are input and output,
message formats and calls of external services. The task and subagent registries
are left out for their size.

## 2. Modules

An action is one synchronous stretch of JavaScript. Node runs such a stretch to
its end before anything else, so whatever a function does before its first
`await`, including the loops and notifications it ends with, belongs to the same
action, and what comes after an `await` is an action of its own that may find a
different state. Operators named after a "seeded fault" are not part of any
specification: each is a mutated form of the definition that follows it, used to
confirm that a property can fail.

**CommandQueue.** A call to `enqueueCommandInLane` is a member of `Calls`; ids
are never reused, so the call stands for its task id. `DrainLanes` is
`drainLane` with its pump loop: it takes `StartCount` entries from the front,
and for each of them performs the set-up of `runQueueEntryTask` (the timer, the
listeners and the case in which a signal was already aborted). A task is then a
race between its body (`TaskEnds`) and its timeout (`TimeoutFires`,
`FireSignal`), and `CompleteTask` is the continuation after the race: it frees
the slot and pumps only when the generation is still the lane's. The `draining`
flag is always false between stretches and is not a variable. Left out: the
`onWait` callbacks and warnings, limits that are not numbers, read-only
accessors, and the migration of a state object made by an older version.

**GatewayAdmission.** Root records, release closures, leases and callers come
from finite pools, each member used once. The record found by
`AsyncLocalStorage` is the parameter `ctx` of the actions that read it, and may
be a released one. A wait loop (`OpenerLoop`) looks, registers itself, is woken,
and looks again later, so admission may have closed in between. Its own
specification lets anybody call the functions of a suspension lease at any time,
stale ones too; the theorems are about that. The coordinator is the one caller in
the code, and the run is of the two together.

**SuspendCoordinator** extends `GatewayAdmission`; `Prepare` is the whole of
`prepareGatewaySuspend` with each of its failure branches chosen by `outcome`
and `resumed` (whether the scheduler's resume throws). The time to live is the
flag `expired`; renewing before it elapses is a stutter. The lease functions that
a prepare or resume calls are part of its action; all other operations of admission
are steps of their own. `NextOf` takes the members of a pool in one fixed order,
since they are interchangeable.

**GatewayRuntime** composes `CommandQueue` (extended) with `SuspendCoordinator`
(instantiated): a submit is the admission check in the caller's context followed
by the queue's own action (the lane controller's priority and lane timeout are
left to `CommandQueue`), `RunIn` records in which context a step's new tasks
run, and `parent` who awaits whom. Limits, clears, single-lane resets and
timeouts stay in `CommandQueue`; of the coordinator the runtime uses prepare,
resume, drain and reset, not the failing resumes that `SuspendCoordinator` has.

**CallPromise** is the abstract specification of the queue: a call waits, runs
once and is answered once, or is turned away and never runs. `CommandQueue`
instantiates it with a refinement mapping from the promise, the body and the
queues to the life of a call; `KeepsPromise` is the abstract specification as a
property of the detailed one.

**HeartbeatWake.** Time is a countdown in the timer. `batch` holds what a run of
the handler loop took out of the pending map; several exist when a new handler
was registered while an old batch was awaiting. A wake is reduced to its target
and priority. Two variables are history: `owed` is the priority with which a
wake was asked for, or put back, and has not been attempted since; `last` is the
target of the latest attempt.

**DeliveryQueue.** Rows survive a crash, claims, drains and running attempts do
not. SQLite calls are synchronous, so the writes between two awaits are one
action; each may fail, up to `MaxFaults` times, and the fallbacks the code then
takes are part of the action. A payload is one platform send, and `visible`
counts how often the recipient has seen it. Four promises of the channel
adapters are assumed, because the code rests on them: output becomes visible only
after `onPlatformSendDispatch`, and once per call of the handler; an error that
proves that nothing was dispatched is not thrown after the message became visible;
a send that returns no identity showed nothing; and `reconcileUnknownSend` tells
the truth. The caller's abort may surface before a payload, within it, or as the
adapter's own error, after the message became visible too. A claim is local to one process; two gateways on one database are not
modelled. Hooks, rendering and chunking are left out. A marker that is written
late replaces `unknown_after_send` by `send_attempt_started`; both states forbid a
blind replay, so nothing follows from it. `NoSilentEnd`, the second half of `OneOutcome`, has one exception beside the
crash, when the removal of the row and the write of its failure both fail.

**RestartNotice** extends `DeliveryQueue` with the one sender that goes around it.

**SessionLifecycle.** A lock is a writer queue whose first member holds it;
identities are numbers in the order of `normalizeSessionIdentities`. A mutation
goes through the code's stages: lock, mark, interrupt, drain with its time limit,
lock again, write, unmark. Leaving several nested locks is one step; the fence
that a restart closes appears as a refusal that may always happen. Left out: the
counters by kind of mutation, which only an accessor reads; admissions opened
from inside a store writer, with the re-entrant barrier they need; mutations
nested in the body of another; the `queueMicrotask` branch of the drain, which no
entry reaches. Simplified: a mutation spares one caller's admission instead of a
set of them, and an admission has one handoff token.

**RestartSignal.** An attempt runs from one `await` to the next without
interruption (`turn`), and waiters that were woken run before any timer or signal
(`Idle`). Pools bound how many deferrals and attempts exist at a time: one that
the timer started, one of a config reload, one that no deferral watches. Due
times, time limits and the cooldown are left open: a request may always be
earlier or later than the pending one, and a deferral that is not idle may always
have run out of time. Left out: reasons and audit, platforms without the handler,
pending counts that throw, the retry timers of reloads, and the shutdown after an
accepted signal, of which `Drain` is the first step and `NextLife` the last. What
admission itself does is in `GatewayAdmission`; here `fence` names the lease that
closed it. A bypass takes the slot without `canReplacePendingRestartEmitHooks`
(`restart.ts:1061`); in the model it brings no hooks, because no caller combines
`skipDeferral` with the hooks of a session. A failing handler (`FailSignal`) throws
before the drain begins. `overrun` is history: deferrals of the slot that ran out
of time while their own attempt was under way.

The `MC*` modules give TLC the symmetry sets and the option sets of an instance;
the `*Proofs` modules hold the theorems.

## 3. Runs

| Run | Instance | What it checks |
|---|---|---|
| `queue_order` | one lane, three calls of three priorities, limits 0 and 2, one reset, a waiter | `NoIdleLane`, `NoLostCall`, `ActiveIsCurrent`, `WaiterNeverStranded`, `StartsInTurn`, and the refinement `KeepsPromise` |
| `queue_live` | one lane, two calls with and without timeout and signals, a reset | `AbortedIsReleased`, `EverySettles` |
| `suspend` | admission under the coordinator: two roots, three closures, two fences, two suspensions with failing pauses and resumes, a drain, resets, one waiter of each kind | `RootsAreHeld`, `NoStrandedWaiter`, `FencesAreOwned`, `HolderIsRight`, `DrainIsFinal`, `SuspensionHasKeeper`, `PausedIsClosedAndKept`, `SuspensionEnds`, `OpenerServed` |
| `runtime_idle` | two roots, two calls, session and main lanes, a suspension, a restart, a reset | `PreparedIsIdle` |
| `runtime_nested` | four calls through cron, session, main and cron-nested lanes, a drain | `NestedWorkSettles` |
| `heartbeat` | two targets, two batches, two handler lifecycles | `NoStrandedWake`, `OneBatchAtATime`, `RetryOwed`, `WakeIsServed` |
| `delivery` | one message of one or two payloads with five sets of options, a recovery and a drain, two failing writes, a crash | `TypeOK`, `AtMostOnce`, `OneOutcome`, `CompletedIsSeen`, `EveryEntryLeaves` |
| `lifecycle` | one session under two identities, two turns, two mutations, a maintenance run, two signals | `TypeOK`, `MutationAlone`, `NoWorkOnGone`, `IdleNeverStranded`, `InterruptReaches`, `EveryoneAnswered` |
| `restart` | two requests of two sessions and of any kind, three attempts, one direct emission, outside signal or restart | `TypeOK`, `FenceHasOwner`, `SlotAlive`, `PreparedIsHeld`, `OtherSessionsKept`, `FenceOpens` |
| `runtime_spawn`, `delivery_notice`, `restart_limit` | small; the last is that of `restart` | refute what a comment or a page of the documentation says (section 5) |

The type invariants of `CommandQueue`, `GatewayAdmission` and `HeartbeatWake` are
theorems, so no run repeats them.

**Why the bounds suffice.** Three calls in a one- or two-slot lane give one that
runs, one that waits and one that overtakes. One reset makes a stale generation;
a second adds only a staler one. Three release closures are the first lease of
each of two roots and one continuation; closing one of them twice is then
visible. Two leases of each fence give a current and a stale one. Two targets are
the smallest batch that can fail half way, and two lifecycles the smallest number
with a stale batch. Four calls are the longest chain (cron, session, nested
global lane) and one competitor. Entries of the delivery queue share nothing but
the drains' snapshots, so one entry is enough; two payloads make a batch that
fails half way, two failing writes a write and its fallback, and a crash after
either is a crash anywhere. Two identities are what a lock order needs, two turns
and two mutations what a circular wait needs. Two requests are the pending restart
and whoever joins it; three attempts are one that works, one that waits and one
that bypasses both. `MaxEvents` (direct emissions, signals from outside and
restarts together), `MaxAuthorized` (authorizations left by failed handlers),
`MaxGeneration` (resets of a lane, resets of admission, handler registrations) and
the pools only cut the state space. The proofs need none of these sizes.

`CHECK_DEADLOCK FALSE` is set where a system may rightly stop: when the pools of
an instance are used up nothing remains to be called. `heartbeat` checks deadlock.

**Fairness.** Only what Node and the callers guarantee:

* continuations of decided promises run and due timers fire (`CompleteTask`,
  the abort grace, `TtlElapses`, `EntryTimerFires`, `OpenerLoop`, `Tick`,
  `TimerFires`): the event loop does not starve a ready callback;
* nothing is assumed of callers' tasks in `LoopSpec`: `AbortedIsReleased` holds
  although a body may hang. `EverySettles` has "tasks end" as its hypothesis
  (`TasksEnd`), and `NestedWorkSettles` assumes it of tasks whose inner call has
  been answered;
* a scheduler resume that is retried succeeds in the end
  (`EntryTimerFires(TRUE)`), and a restart signal is answered by a drain or
  taken back, which the run loop does in every branch;
* heartbeat attempts end, by a return or a throw, and nothing more is assumed of
  them. A handler that always throws for one target makes the code put the whole
  batch back each time, and the targets behind it starve. `WakeIsServed` says so
  in its hypothesis: from some time on no other target throws in front of this
  one (`PutBack`). Without the hypothesis it is false;
* `EveryEntryLeaves` has a hypothesis of its own, `RecoveryRecurs`: attempts end,
  drains are started again and again and in the end get to claim an entry. The
  code starts a drain when a channel reconnects, so a channel that never does
  keeps its rows, which is intended;
* of sessions only promises, writers and timers are fair. A turn may run for
  ever: what `EveryoneAnswered` then rests on is the time limit of the drain;
* of restarts the hooks end, the handler runs and woken attempts go on. Nothing
  makes work end, a suspension resume or a restart happen.

## 4. Theorems

Proved by TLAPS for every value of the constants that satisfies the named
assumptions: `QueueAssumption` (a lane exists, calls are finite in number, limits
are natural numbers, options are those of the types), `AdmissionAssumption`
(closures are finite in number, `None` is no record), `HeartbeatAssumption`
(delays are natural numbers, requests are records of a source and an intent),
`RuntimeAssumption` (the lanes that an embedded run is routed to exist),
`LifecycleAssumption` and `DeliveryAssumption` (bounds are natural numbers, options
are records of the types, an exact send has one payload), and `RestartAssumption`
(the pools of attempts are disjoint, `None` is nobody's name and no session's).

**CommandQueueProofs.** `QueueTypeCorrect`; and with the inductive invariant
`QueueInv`, which says that calls, queues and active sets agree:

* `QueueOK`: what is queued is an unanswered, unstarted call of that lane, once;
* `PendingOK`: an unanswered call was started or is queued;
* `ActiveOK`: active sets are the started, unanswered calls of the current
  generation (this is `ActiveIsCurrent`);
* `CallOK`: a call not made, cleared or refused has no body, verdicts and
  listeners need a body, and no body comes from a later generation. The last is
  why a reset empties the lane: nothing can have been started in the new
  generation yet.

The parts are operators of the state's pieces rather than of the state, because
every action hands `drainLane` a queue, active sets or generations that are not
yet those of any state; `DrainInv` is the one lemma about the pump, and an action
only has to show that what it hands over agrees. From `QueueInv` follow
`ActiveAlwaysCurrent` and `CallsNeverLost`.
`WaitersNeverStranded` needs one more fact (`WaitInv`): the ids a waiter captured
are of started calls, so a task started later is none of them.

Capacity and order are the second half of the module. What one pump of one lane
does is counted first:
`TakenCount` (a bijection between the positions taken and the calls started) and
`PumpOutcome` (entries are left only in a full lane, and taken only up to the
limit). `EnqueueSorted` shows that inserting before the first outranked entry
keeps a queue sorted; it needs only that `Outranks` is transitive and asymmetric.
Every action that drains is then an instance of `IsDrain`, and from the invariant
`LaneInv` (no idle lane, sorted queues), on top of `QueueInv`, follow
`LanesNeverIdle` and the action property `StartedInTurn`.

`QueueKeepsPromise` is the refinement: the initial
states map to the abstract one, and with `QueueInv` every step maps to a step of
`CallPromise` or to a stutter. The invariant is needed because a call's abstract
life is read from three places, and only their agreement rules out a call that
both waits and runs.

**GatewayAdmissionProofs.** `AdmissionTypeCorrect`, `RootsAlwaysHeld` (`RootInv`:
closures are bound to records that exist), `FencesAlwaysOwned` (`FenceInv`: no
lease is ahead of the generation), `HolderAlwaysRight` (`SuspendInv`: besides, no
two leases share a generation and the registered callback is the current
lease's), `NoWaiterStranded` (openers and drain waiters) and the
action property `DrainStaysFinal`. They are theorems of admission's own
specification, in which lease functions are called in any order by anybody; that a
stale lease is refused by its generation is shown here, while in the `suspend` run
the coordinator never calls one.

**HeartbeatWakeProofs.** `HeartbeatTypeCorrect`, `WakesNeverStranded`
(`StrandInv`), `RetriesAlwaysOwed` (for requested wakes and for retries), and `BatchesKeptApart` (`FlagInv`: until a
second registration a batch in progress holds the `running` flag). These cover
requests of every mixture of priorities, which the runs do not.

**SuspendCoordinatorProofs.** The invariant `CoordInv` is the shape of the entry,
`SuspensionHasKeeper` and `PausedInv`, which adds to `PausedIsClosedAndKept` that a
pause belongs to an entry of the current lease. The entry's recorded way to reopen
is what ties the two state machines: a prepare that fails half-way leaves an entry
whose function is the one the admission phase expects, and the case analysis over
`outcome` and `resumed` is where each failure branch shows it.

**GatewayRuntimeProofs.** `RuntimeStepIsQueueStep` maps each step of the gateway to
a step of the queue or a stutter, so `RuntimeRunsQueue` makes every theorem about
the queue one about the gateway; `RuntimeKeepsPromise` is the first use. For
`PreparedStaysIdle` the invariant `IdleInv` adds that contexts are records that
exist and that a record not active is released: a stale task may still ask for
admission behind a prepared suspension, but without a root the phase refuses it
and with one its released record does.

**SessionLifecycleProofs.** The lines of writers come first: `LineMoveKeeps` says
that whatever one caller does in a line, everybody else keeps the place they hold.
`LifecycleInv` then has these parts:

* `LockInv`: a caller in a guarded stage is first in every line it needs, so two
  mutations marked active, or a turn in its check and a mutation's body, share no
  identity (`LocksExclude`);
* `StageInv`, `GuardInv`, `CallerInv`: marks, admissions and locals agree with the
  stage of their owner, and a mutation past its drain has nobody admitted but its
  caller. From these follows `BodyIsAlone`;
* `SpareInv`: what maintenance may remove is not what an admitted turn uses; the
  lines keep a removal that was decided earlier from overtaking an admission.
  This gives `WorkKeepsSession`;
* `IdleNeverStranded` and `ToldInv`, for `WaitersHaveMutation` and
  `InterruptsAreTold`.

**DeliveryQueueProofs.** Entries do not touch each other (`OthersKept`), so
`DeliveryInv` is a conjunction over entries:

* `CallerInv`: before the call there is nothing, and a row just persisted is
  untouched when its claim is taken;
* `PlaceInv`: where an attempt is among its payloads;
* `RowInv`: what an attempt remembers of its row is true; a row that is gone under
  it cost a failing write; there is budget for the one failure that is left;
* `EvidenceInv`: nothing is visible while the row can be replayed and says
  "not sent", and an attempt that could take the marker back has shown nothing;
* `SeenInv`: what lies ahead of an attempt is unseen, what lies behind it was seen
  or withheld unless a failure is on record;
* `EndInv`: the terminal, the row and the running attempt agree.

The argument for `SentAtMostOnce` is `EvidenceInv` with `SeenInv`: an attempt begins
only on a row without evidence, which by the first is unseen, or passes through a
reconciliation that answers "not sent". The steps of an attempt fall into a few
kinds (`Withholds`, `Stumbles`, `Advances`, a send, `Records`, an end), one lemma
each, and each action is shown to be of one of them. Nothing is assumed of the
number of crashes and failing writes; the channel's four promises are those named
in the head of `DeliveryQueue`.

**RestartSignalProofs.** `RestartInv` is `TypeOK`, which says who runs between two
awaits, with five parts, each kept by every action (one lemma per part, one step
per action):

* `StageInv`: what the stage of an attempt says of its outcome. An attempt that
  has sent its signal leaves in the same turn, so the signal is still in flight
  then, and only reloads lose their fence before they leave;
* `FenceInv`: a fence is that of the lease on record; without a signal in flight
  its attempt is inside and owns the lease, with one a handler is to run; a drain
  leaves no fence. It gives `FenceKept`. It also shows that an emission is
  refused only during a drain, which `SlotInv` needs;
* `SlotInv`: `SlotAlive` alone is not inductive, because an attempt that is under
  way may give up. What keeps a restart in preparation alive is narrower: a
  scheduled deferral that polls, or an attempt of the slot that skips the idle
  check (`Committed`), which by `StageInv` cannot end without emitting. A deferral
  whose attempt reached a verdict has left the polls by then. The third case is a
  deferral in `overrun`: its attempt is under way, and then somebody works on the
  restart, or it has ended, which is the one exception of `SlotAlive` and what
  `restart_limit` shows. The set is emptied with the slot, and reloads never enter
  it, so the theorem says nothing less of the slots that follow;
* `HoldInv`: in which stages an attempt holds hooks, and that hooks being prepared
  or prepared are held by somebody. It gives `SentinelHeld`;
* `ParkInv`: parked hooks are those of the slot, its owner is their session and the
  slot is in use; nothing is parked when an attempt emits. With it `SessionsKept`
  is a case analysis over the ways into the slot. A request that pulls the timer
  earlier, upgrades it or coalesces is turned away when it finds another owner, and
  `ArmTimer` finds nothing parked. A bypass (`restart.ts:1061-1064`) has no such
  check; it takes the other session's hooks out of the slot, and the theorem rests
  on its putting in none of a session.

**Only model-checked.** Liveness (`EverySettles`, `AbortedIsReleased`,
`SuspensionEnds`, `OpenerServed`, `NestedWorkSettles`, `WakeIsServed`,
`EveryEntryLeaves`, `EveryoneAnswered`, `FenceOpens`), which is out of the prover's
reach. `delivery_notice`, `runtime_spawn` and `restart_limit` are violations and have
no theorem.

## 5. Where the code and its documentation disagree

* `runtime_spawn`: a queued task is started inside the continuation of the task
  that freed the slot and inherits that task's root record. When that other
  request ends, its record is released, and the running task's own inner call is
  refused with `GatewayDrainingError` although its root is live and nothing
  drains; `gateway-work-admission.ts:165` says admitted roots may finish
  spawning. The run assumes (`HandlersAwait`) that handlers await their calls,
  so the refused call is nobody's leftover.
* `delivery_notice`: a restart notice writes a row and then sends around the
  queue, without its markers and without its claim. After a crash between the
  send and the acknowledgement recovery sends the notice again, although
  `delivery-queue-recovery.ts:485` says that a crash after the start of a platform
  send cannot be blindly replayed.
* `restart_limit`: a deferral that runs out of time stops polling
  (`restart.ts:797`), and makes its forced attempt only when none is under way
  (`restart.ts:735`). When one is, because it waits for admission, and other work is
  active once it is let in, that attempt gives up and nobody is left:
  `pendingRestartPreparing` stays set and later requests coalesce into it, until one
  that skips the deferral finds another poll, or a reload emits. `docs/cli/gateway.md`
  says that the restart is forced when the budget expires.

One more behaviour of `restart.ts` is reached by the model of `restart`, and no
property of its run rests on its absence:

* A signal that is ignored or whose handler fails reopens whatever fence there is,
  and so does the cancellation of the attempt that created the lease. A second
  attempt can then take a new fence and emit while the first still prepares a
  parked hook, which the comment at `restart.ts:464` rules out. The first attempt
  then retracts its hook or sends a signal of its own (`PreparedIsHeld`).

## 6. Plan

Done, in this order: `CommandQueue`, `GatewayAdmission`, `SuspendCoordinator`,
`GatewayRuntime` (composing the three), `HeartbeatWake`, the proofs of the first,
second and fifth, `DeliveryQueue` with `RestartNotice`, `SessionLifecycle`,
`CallPromise` with the refinement and its proof, `RestartSignal`; then the proofs of
the coordinator, the composition, `SessionLifecycle`, `DeliveryQueue` and
`RestartSignal`.

Next modules: `ExecApprovalManager` (decision against timeout), `PairingStore`
(expiry, cap, approval), the session delivery queue, the follow-up queue, session
suspension, the supervisor and the cron store.

An abstract specification worth stating next: a suspension as a three-state
switch with one owner, which `SuspendCoordinator` should implement.
