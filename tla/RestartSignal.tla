----------------------------- MODULE RestartSignal -----------------------------
(***************************************************************************)
(* How a gateway gets from "please restart" to the drain before a restart: *)
(* src/src/infra/restart.ts with the SIGUSR1 handler of                    *)
(* src/src/cli/gateway-cli/run-loop.ts.                                    *)
(*                                                                         *)
(* Requests share one slot: a timer, then a preparation that polls until   *)
(* the gateway is idle.  Each try to emit the signal is an attempt, which  *)
(* waits for root work admission, closes admission with the restart-signal *)
(* fence, runs the hooks of its caller and of the slot (the hook of a      *)
(* session writes the sentinel that continues it after the restart) and    *)
(* emits.  The handler then makes the fence a drain, or turns the signal   *)
(* away and reopens.  Config reloads poll on their own and may be          *)
(* superseded, or emit at once from a root they already hold.              *)
(*                                                                         *)
(* The event loop runs an attempt from one await to the next without       *)
(* interruption: turn is the attempt that is running.  Due times, the time *)
(* limit of a deferral and the cooldown are left open.  Reasons and audit  *)
(* are left out, as are platforms without the handler and pending counts   *)
(* that throw.                                                             *)
(***************************************************************************)
EXTENDS Naturals, FiniteSets

CONSTANTS
  Requests,      \* calls of scheduleGatewaySigusr1Restart
  SessionOf,     \* opts.sessionKey of those made by a session
  Scheduled,     \* deferrals started by the timer
  Reloads,       \* deferrals started by a config reload
  Solo,          \* attempts that no deferral watches
  MaxEvents,     \* bound on signals from outside, direct emissions, restarts
  MaxAuthorized, \* bound on authorizations that failed handlers leave behind
  None

Deferrals == Scheduled \cup Reloads
Attempts == Deferrals \cup Solo

\* Who asks: a session with its hooks, a config write, a safe restart, the same
\* without deferral, an update.
Kinds == {"session", "plain", "safe", "forced", "update"}

ASSUME RestartAssumption ==
  /\ MaxEvents \in Nat /\ MaxAuthorized \in Nat
  /\ Scheduled \cap Reloads = {} /\ Solo \cap Deferrals = {}
  /\ None \notin Requests \cup Attempts \cup {"direct"} /\ "direct" \notin Attempts
  /\ \A r \in Requests : SessionOf[r] # None

VARIABLES
  asked,         \* requests that were made
  timer,         \* pendingRestartTimer
  preparing,     \* pendingRestartPreparing
  skip,          \* pendingRestartSkipDeferral
  parked,        \* pendingRestartEmitHooks, by the request they came with
  owner,         \* pendingRestartSessionKey
  polls,         \* activeDeferralPolls
  cancelled,     \* deferrals that were cancelled
  pc,            \* of an attempt
  turn,
  forced,        \* attempts that skip the idle check
  held,          \* hooks an attempt is preparing, or will next
  prep,          \* preparedParked
  ready,         \* emissionPrepared of a reload
  outcome,       \* of an attempt, when it is known
  owns,          \* attempts that created the lease they use: ownsFenceLease
  dead,          \* attempts whose fence was rolled back: not fenceActive
  stale,         \* attempts of an earlier restartTransientGeneration
  fence,         \* restartSignalPending, by the lease that closed it
  lease,         \* pendingRestartSignalAdmission
  inFlight,      \* hasUnconsumedRestartSignal
  handlers,      \* SIGUSR1 handlers yet to run
  authorized,    \* sigusr1AuthorizedCount
  draining,      \* restartDraining
  suspended,     \* the host has suspended the gateway
  busy,          \* there is other active work
  hook,          \* what became of a session's hooks
  overrun,       \* history: deferrals of the slot that ran out of time with an
                 \* attempt under way
  events         \* of those MaxEvents bounds

slotVars == <<timer, preparing, skip, parked, owner>>
attemptVars == <<held, prep, ready, outcome>>
gateVars == <<fence, lease, inFlight, handlers, authorized, draining>>
envVars == <<suspended, busy, events>>
vars == <<asked, slotVars, polls, cancelled, pc, turn, forced, attemptVars, owns, dead,
          stale, gateVars, hook, overrun, envVars>>

Open == fence = None /\ ~draining /\ ~suspended

Body == {"caller", "slot", "parked", "replace", "emitting", "retract", "leaving"}

Inside == {a \in Attempts : pc[a] \in Body}

\* getPendingCount, which counts the roots of other attempts.
Busy(a) == busy \/ Inside \ {a} # {}

\* isCurrent
Current(a) == a \notin stale /\ a \notin dead

\* The event loop is free, and whoever waited for admission has been woken.
Idle == turn = None /\ ~(\E a \in Attempts : pc[a] = "waiting" /\ (Open \/ draining))

Run(a, to) == pc' = [pc EXCEPT ![a] = to] /\ turn' = a
Await(a, to) == pc' = [pc EXCEPT ![a] = to] /\ turn' = None

\* The parked hooks are forgotten.
Drop == [r \in Requests |-> IF r = parked /\ hook[r] = "parked" THEN "ended" ELSE hook[r]]

\* clearPendingScheduledRestart
ClearSlot ==
  /\ timer' = FALSE /\ preparing' = FALSE /\ skip' = FALSE
  /\ parked' = None /\ owner' = None
  /\ overrun' = {}

-----------------------------------------------------------------------------
(* scheduleGatewaySigusr1Restart *)

Skips(k) == k \in {"forced", "update"}
Hooks(k, r) == IF k = "session" THEN r ELSE None
Key(k, r) == IF k = "session" THEN SessionOf[r] ELSE None
Preserves(k) == k \in {"safe", "forced"} /\ owner # None

\* Seeded fault: any session may take the slot.
CanReplaceAlways(k, r) == TRUE

\* canReplacePendingRestartEmitHooks
CanReplace(k, r) == k # "session" \/ owner = None \/ owner = SessionOf[r]

Park(r) == [Drop EXCEPT ![r] = "parked"]

\* An attempt that waits for nobody is started; what it does is Admit.
Begin(a) ==
  /\ pc[a] = "idle" /\ Run(a, "entering")
  /\ UNCHANGED <<owns, dead, stale>>

NoBegin == UNCHANGED <<pc, turn, forced, owns, dead, stale, cancelled>>

\* A deferral is in progress and the request does not want to wait for it.  The
\* code would put hooks of the request into the slot without asking
\* canReplacePendingRestartEmitHooks; no caller that skips deferral passes any.
Bypass(k, r) ==
  /\ preparing /\ Skips(k) /\ polls # {}
  /\ polls' = {}
  /\ IF Preserves(k) THEN UNCHANGED <<parked, owner, hook>>
     ELSE parked' = None /\ owner' = None /\ hook' = Drop
  /\ \E a \in Solo : Begin(a) /\ forced' = forced \cup {a}
  /\ UNCHANGED <<timer, preparing, skip, cancelled>>

\* requestedDueAt may be before or after pendingRestartDueAt.
PullEarlier(k, r) ==
  /\ timer /\ ~preparing
  /\ IF ~Preserves(k) /\ ~CanReplace(k, r)
     THEN /\ skip' = (skip \/ Skips(k))
          /\ hook' = [hook EXCEPT ![r] = "ended"]
          /\ UNCHANGED <<parked, owner>>
     ELSE /\ skip' = Skips(k)
          /\ parked' = IF Preserves(k) THEN parked ELSE Hooks(k, r)
          /\ owner' = IF Preserves(k) THEN owner ELSE Key(k, r)
          /\ hook' = IF k = "session" THEN Park(r)
                     ELSE IF Preserves(k) THEN hook ELSE Drop
  /\ NoBegin /\ UNCHANGED <<timer, preparing, polls>>

Coalesce(k, r) ==
  /\ timer \/ preparing
  /\ ~(preparing /\ Skips(k) /\ polls # {}) /\ ~(~preparing /\ Skips(k) /\ ~skip)
  /\ skip' = (skip \/ Skips(k))
  /\ IF k = "session" /\ CanReplace(k, r)
     THEN parked' = r /\ owner' = SessionOf[r] /\ hook' = Park(r)
     ELSE /\ UNCHANGED <<parked, owner>>
          /\ hook' = IF k = "session" THEN [hook EXCEPT ![r] = "ended"] ELSE hook
  /\ NoBegin /\ UNCHANGED <<timer, preparing, polls>>

ArmTimer(k, r) ==
  /\ ~timer /\ ~preparing
  /\ timer' = TRUE /\ skip' = Skips(k)
  /\ parked' = Hooks(k, r) /\ owner' = Key(k, r)
  /\ hook' = IF k = "session" THEN Park(r) ELSE Drop
  /\ NoBegin /\ UNCHANGED <<preparing, polls>>

\* The signal is out: the hooks of this request cannot run.
TooLate(k, r) ==
  /\ hook' = IF k = "session" THEN [hook EXCEPT ![r] = "ended"] ELSE hook
  /\ NoBegin /\ UNCHANGED <<slotVars, polls>>

Schedule(k, r) ==
  \/ inFlight /\ TooLate(k, r)
  \/ ~inFlight /\ (Bypass(k, r) \/ PullEarlier(k, r) \/ Coalesce(k, r) \/ ArmTimer(k, r))

Request(r) ==
  /\ Idle /\ r \notin asked
  /\ \E k \in Kinds : Schedule(k, r)
  /\ asked' = asked \cup {r}
  /\ UNCHANGED <<attemptVars, gateVars, overrun, envVars>>

\* armPendingRestartTimer
TimerFires ==
  /\ Idle /\ timer
  /\ timer' = FALSE /\ skip' = FALSE /\ preparing' = TRUE
  /\ \/ /\ skip
        /\ \E a \in Solo : Begin(a) /\ forced' = forced \cup {a}
        /\ UNCHANGED <<polls, cancelled>>
     \/ /\ ~skip
        /\ \E d \in Scheduled :
             /\ d \notin polls /\ pc[d] = "idle"
             /\ polls' = polls \cup {d} /\ UNCHANGED cancelled
             /\ \/ ~Busy(d) /\ Begin(d) /\ UNCHANGED forced
                \/ Busy(d) /\ UNCHANGED <<pc, turn, forced, owns, dead, stale>>
  /\ UNCHANGED <<asked, parked, owner, attemptVars, gateVars, hook, overrun, envVars>>

-----------------------------------------------------------------------------
(* deferGatewayRestartUntilIdle *)

\* A config reload defers its restart.
StartReload(d) ==
  /\ Idle /\ d \notin polls /\ pc[d] = "idle" /\ ~draining
  /\ polls' = polls \cup {d} /\ UNCHANGED cancelled
  /\ \/ ~Busy(d) /\ Begin(d) /\ UNCHANGED forced
     \/ Busy(d) /\ UNCHANGED <<pc, turn, forced, owns, dead, stale>>
  /\ UNCHANGED <<asked, slotVars, attemptVars, gateVars, hook, overrun, envVars>>

\* inspectPending
Poll(d) ==
  /\ Idle /\ d \in polls
  /\ UNCHANGED <<asked, slotVars, cancelled, attemptVars, gateVars, hook, envVars>>
  /\ \/ ~Busy(None) /\ Begin(d) /\ UNCHANGED forced /\ UNCHANGED <<polls, overrun>>
     \/ /\ Busy(None)
        /\ polls' = polls \ {d}
        /\ \/ Begin(d) /\ forced' = forced \cup {d} /\ UNCHANGED overrun
           \/ /\ pc[d] # "idle" /\ overrun' = overrun \cup ({d} \cap Scheduled)
              /\ UNCHANGED <<pc, turn, forced, owns, dead, stale>>

\* Seeded fault: the lease is forgotten but not rolled back.
ReleaseFenceForgets(a) ==
  IF inFlight \/ a \notin owns THEN UNCHANGED <<fence, lease>>
  ELSE fence' = fence /\ lease' = IF lease = a THEN None ELSE lease

\* rollbackFence
ReleaseFence(a) ==
  IF inFlight \/ a \notin owns THEN UNCHANGED <<fence, lease>>
  ELSE /\ fence' = IF fence = a THEN None ELSE fence
       /\ lease' = IF lease = a THEN None ELSE lease

RollbackFence(a) == ReleaseFence(a) /\ dead' = IF inFlight THEN dead ELSE dead \cup {a}

\* supersedeRestartRequest: a newer config cancels the deferral of an older one.
Supersede(d) ==
  /\ Idle /\ d \notin cancelled /\ (d \in polls \/ pc[d] # "idle")
  /\ cancelled' = IF pc[d] = "idle" THEN cancelled ELSE cancelled \cup {d}
  /\ polls' = polls \ {d}
  /\ IF d \in Inside THEN RollbackFence(d) ELSE UNCHANGED <<dead, fence, lease>>
  /\ UNCHANGED <<asked, slotVars, pc, turn, forced, attemptVars, owns, stale, inFlight,
                 handlers, authorized, draining, hook, overrun, envVars>>

-----------------------------------------------------------------------------
(* emitPreparedGatewayRestart *)

\* A finished attempt knows how: the deferral goes on polling unless it was
\* attempted.
Finish(a, how) == outcome' = [outcome EXCEPT ![a] = how] /\ Run(a, "leaving")

Wake(a) ==
  /\ turn = None /\ pc[a] = "waiting" /\ (Open \/ draining)
  /\ Run(a, "entering")
  /\ UNCHANGED <<asked, slotVars, polls, cancelled, forced, attemptVars, owns, dead, stale,
                 gateVars, hook, overrun, envVars>>

\* Join the root work and take the fence, or adopt the lease there is.
Admit(a) ==
  /\ turn = a /\ pc[a] = "entering"
  /\ UNCHANGED <<asked, slotVars, polls, cancelled, forced, held, prep, ready, dead, stale,
                 inFlight, handlers, authorized, draining, hook, overrun, envVars>>
  /\ \/ draining /\ Finish(a, "coalesced") /\ UNCHANGED <<owns, fence, lease>>
     \/ ~draining /\ ~Open /\ Await(a, "waiting") /\ UNCHANGED <<outcome, owns, fence, lease>>
     \/ /\ Open
        /\ IF lease # None \/ a \in stale \/ inFlight THEN UNCHANGED <<owns, fence, lease>>
           ELSE lease' = a /\ fence' = a /\ owns' = owns \cup {a}
        /\ IF a \in stale \/ inFlight \/ (a \notin forced /\ Busy(a)) THEN Finish(a, "none")
           ELSE IF a \in Reloads THEN Await(a, "caller") /\ UNCHANGED outcome
           ELSE Run(a, "slot") /\ UNCHANGED outcome

\* beforeEmit of a reload: its preflight, which may fail.
CallerPrepared(a) ==
  /\ Idle /\ pc[a] = "caller"
  /\ \E ok \in BOOLEAN : ready' = [ready EXCEPT ![a] = ok /\ a \notin cancelled]
  /\ IF Current(a) THEN Run(a, "slot") /\ UNCHANGED outcome ELSE Finish(a, "none")
  /\ UNCHANGED <<asked, slotVars, polls, cancelled, forced, held, prep, owns, dead, stale,
                 gateVars, hook, overrun, envVars>>

\* Seeded fault: the hooks that are taken stay parked.
TakeSlotKeepsHooks(a) ==
  /\ turn = a /\ pc[a] = "slot"
  /\ \/ /\ parked # None
        /\ held' = [held EXCEPT ![a] = parked]
        /\ hook' = [hook EXCEPT ![parked] = "preparing"]
        /\ Await(a, IF prep[a] # None THEN "replace" ELSE "parked")
        /\ UNCHANGED <<parked, owner>>
     \/ /\ parked = None
        /\ owner' = None
        /\ Run(a, "emitting") /\ UNCHANGED <<held, parked, hook>>
  /\ UNCHANGED <<asked, timer, preparing, skip, polls, cancelled, forced, prep, ready, outcome,
                 owns, dead, stale, gateVars, overrun, envVars>>

\* The drain of the parked hooks, then the way to the emission.
TakeSlot(a) ==
  /\ turn = a /\ pc[a] = "slot"
  /\ \/ /\ parked # None
        /\ held' = [held EXCEPT ![a] = parked] /\ parked' = None
        /\ hook' = [hook EXCEPT ![parked] = "preparing"]
        /\ Await(a, IF prep[a] # None THEN "replace" ELSE "parked")
        /\ UNCHANGED owner
     \/ /\ parked = None
        /\ owner' = None
        /\ Run(a, "emitting") /\ UNCHANGED <<held, parked, hook>>
  /\ UNCHANGED <<asked, timer, preparing, skip, polls, cancelled, forced, prep, ready, outcome,
                 owns, dead, stale, gateVars, overrun, envVars>>

\* beforeEmit of a session writes the sentinel, or throws.
ParkedPrepared(a) ==
  /\ Idle /\ pc[a] = "parked"
  /\ held' = [held EXCEPT ![a] = None]
  /\ \/ /\ hook' = [hook EXCEPT ![held[a]] = "prepared"]
        /\ prep' = [prep EXCEPT ![a] = held[a]]
        /\ IF Current(a) THEN Run(a, "slot") /\ UNCHANGED outcome
           ELSE /\ Await(a, "retract")
                /\ outcome' = [outcome EXCEPT ![a] = "none"]
     \/ /\ hook' = [hook EXCEPT ![held[a]] = "ended"]
        /\ UNCHANGED prep
        /\ IF Current(a) THEN Run(a, "slot") /\ UNCHANGED outcome ELSE Finish(a, "none")
  /\ UNCHANGED <<asked, slotVars, polls, cancelled, forced, ready, owns, dead, stale, gateVars,
                 overrun, envVars>>

\* afterEmitRejected clears the sentinel it had written.
Reject(a) ==
  /\ hook' = [hook EXCEPT ![prep[a]] = "ended"]
  /\ prep' = [prep EXCEPT ![a] = None]

Replaced(a) ==
  /\ Idle /\ pc[a] = "replace"
  /\ prep' = [prep EXCEPT ![a] = None]
  /\ IF Current(a)
     THEN /\ hook' = [hook EXCEPT ![prep[a]] = "ended"]
          /\ Await(a, "parked") /\ UNCHANGED <<held, outcome>>
     ELSE /\ hook' = [hook EXCEPT ![prep[a]] = "ended", ![held[a]] = "ended"]
          /\ held' = [held EXCEPT ![a] = None]
          /\ Finish(a, "none")
  /\ UNCHANGED <<asked, slotVars, polls, cancelled, forced, ready, owns, dead, stale, gateVars,
                 overrun, envVars>>

\* emitGatewayRestartWithSignalAdmission with emitGatewayRestart
Blocked == lease = None /\ (draining \/ (fence # None /\ inFlight))

CoreResult ==
  IF inFlight THEN "coalesced" ELSE IF Blocked THEN "failed" ELSE "sent"

CoreEmit ==
  \/ /\ Blocked
     /\ UNCHANGED <<slotVars, polls, fence, lease, inFlight, handlers, authorized, overrun>>
  \/ /\ ~Blocked
     /\ lease' = IF lease = None THEN "direct" ELSE lease
     /\ fence' = IF lease = None THEN "direct" ELSE fence
     /\ polls' = {} /\ ClearSlot
     /\ inFlight' = TRUE
     /\ handlers' = handlers + (IF inFlight THEN 0 ELSE 1)
     /\ authorized' = authorized + (IF inFlight THEN 0 ELSE 1)

\* emitRestart of a reload, or the signal itself.
EmitResult(a) ==
  IF a \in Reloads /\ a \in cancelled THEN "coalesced"
  ELSE IF a \in Reloads /\ ~ready[a] THEN "failed" ELSE CoreResult

\* Seeded fault: a signal that was not sent leaves the sentinel behind.
EmitKeepsSentinel(a) ==
  /\ turn = a /\ pc[a] = "emitting"
  /\ IF a \in Reloads /\ (a \in cancelled \/ ~ready[a])
     THEN UNCHANGED <<slotVars, polls, fence, lease, inFlight, handlers, authorized, overrun>>
     ELSE CoreEmit
  /\ hook' = [r \in Requests |->
               IF r = prep[a] /\ EmitResult(a) = "sent" THEN "sent" ELSE Drop[r]]
  /\ prep' = [prep EXCEPT ![a] = None]
  /\ Finish(a, EmitResult(a))
  /\ UNCHANGED <<asked, cancelled, forced, held, ready, owns, dead, stale, draining, envVars>>

Emit(a) ==
  /\ turn = a /\ pc[a] = "emitting"
  /\ IF a \in Reloads /\ (a \in cancelled \/ ~ready[a])
     THEN UNCHANGED <<slotVars, polls, fence, lease, inFlight, handlers, authorized, overrun>>
     ELSE CoreEmit
  /\ \/ /\ EmitResult(a) = "sent"
        /\ hook' = [r \in Requests |->
                      IF r = prep[a] THEN "sent" ELSE Drop[r]]
        /\ prep' = [prep EXCEPT ![a] = None]
        /\ Finish(a, "sent")
     \/ /\ EmitResult(a) # "sent" /\ prep[a] # None
        /\ outcome' = [outcome EXCEPT ![a] = EmitResult(a)]
        /\ Await(a, "retract") /\ UNCHANGED <<hook, prep>>
     \/ /\ EmitResult(a) # "sent" /\ prep[a] = None
        /\ Finish(a, EmitResult(a)) /\ UNCHANGED <<hook, prep>>
  /\ UNCHANGED <<asked, cancelled, forced, held, ready, owns, dead, stale, draining, envVars>>

Retracted(a) ==
  /\ Idle /\ pc[a] = "retract"
  /\ Reject(a) /\ Run(a, "leaving")
  /\ UNCHANGED <<asked, slotVars, polls, cancelled, forced, held, ready, outcome, owns, dead,
                 stale, gateVars, overrun, envVars>>

\* Seeded fault: a deferral stops polling after a try that did not emit.
LeaveStopsPoll(a) ==
  /\ turn = a /\ pc[a] = "leaving"
  /\ IF outcome[a] = "sent" THEN UNCHANGED <<fence, lease>> ELSE ReleaseFence(a)
  /\ polls' = polls \ {a}
  /\ Await(a, "idle")
  /\ outcome' = [outcome EXCEPT ![a] = "none"]
  /\ ready' = [ready EXCEPT ![a] = FALSE]
  /\ cancelled' = cancelled \ {a} /\ forced' = forced \ {a}
  /\ owns' = owns \ {a} /\ dead' = dead \ {a} /\ stale' = stale \ {a}
  /\ UNCHANGED <<asked, slotVars, held, prep, inFlight, handlers, authorized, draining, hook,
                 overrun, envVars>>

\* The finally, and the deferral that started the attempt.
Leave(a) ==
  /\ turn = a /\ pc[a] = "leaving"
  /\ IF outcome[a] = "sent" THEN UNCHANGED <<fence, lease>> ELSE ReleaseFence(a)
  /\ polls' = IF a \notin cancelled /\ outcome[a] # "none" THEN polls \ {a} ELSE polls
  /\ Await(a, "idle")
  /\ outcome' = [outcome EXCEPT ![a] = "none"]
  /\ ready' = [ready EXCEPT ![a] = FALSE]
  /\ cancelled' = cancelled \ {a} /\ forced' = forced \ {a}
  /\ owns' = owns \ {a} /\ dead' = dead \ {a} /\ stale' = stale \ {a}
  /\ UNCHANGED <<asked, slotVars, held, prep, inFlight, handlers, authorized, draining, hook,
                 overrun, envVars>>

\* requestGatewayRestartWithSignalAdmission from a root that a reload holds.
EmitDirectly ==
  /\ Idle /\ events < MaxEvents /\ ~suspended
  /\ events' = events + 1
  /\ CoreEmit
  /\ hook' = IF Blocked THEN hook ELSE Drop
  /\ UNCHANGED <<asked, cancelled, pc, turn, forced, attemptVars, owns, dead, stale, draining,
                 suspended, busy>>

-----------------------------------------------------------------------------
(* onSigusr1 *)

\* markGatewaySigusr1RestartHandled: whatever fence there is opens.
MarkHandled == inFlight' = FALSE /\ lease' = None /\ fence' = None

\* markGatewayRestartDraining; the request that follows begins the shutdown.
Drain == draining' = TRUE /\ suspended' = FALSE

OutsideHandler ==
  UNCHANGED <<attemptVars, overrun, busy, events>>

\* Seeded fault: an authorization is consumed that was not given.
AcceptAnySignal ==
  /\ turn = None /\ handlers > 0
  /\ handlers' = handlers - 1 /\ authorized' = authorized - 1
  /\ Drain /\ MarkHandled
  /\ OutsideHandler
  /\ UNCHANGED <<asked, slotVars, polls, cancelled, pc, turn, forced, owns, dead, stale, hook>>

\* The signal is authorized.
AcceptSignal ==
  /\ turn = None /\ handlers > 0 /\ authorized > 0
  /\ handlers' = handlers - 1 /\ authorized' = authorized - 1
  /\ Drain /\ MarkHandled
  /\ OutsideHandler
  /\ UNCHANGED <<asked, slotVars, polls, cancelled, pc, turn, forced, owns, dead, stale, hook>>

\* An operator left an intent on disk before signalling.  There may be no
\* authorization, or one past its grace; the drain opens the fence all the same.
AcceptIntent ==
  /\ turn = None /\ handlers > 0
  /\ handlers' = handlers - 1
  /\ Drain
  /\ \/ authorized > 0 /\ authorized' = authorized - 1 /\ MarkHandled
     \/ authorized' = 0 /\ fence' = None /\ UNCHANGED <<lease, inFlight>>
  /\ OutsideHandler
  /\ UNCHANGED <<asked, slotVars, polls, cancelled, pc, turn, forced, owns, dead, stale, hook>>

\* Not authorized, or not any more: the signal is ignored or becomes a request.
IgnoreSignal ==
  /\ turn = None /\ handlers > 0
  /\ handlers' = handlers - 1 /\ authorized' = 0
  /\ MarkHandled
  /\ OutsideHandler /\ UNCHANGED <<asked, draining, suspended>>
  /\ \/ UNCHANGED <<slotVars, polls, cancelled, pc, turn, forced, owns, dead, stale, hook>>
     \/ /\ ~draining
        /\ PullEarlier("plain", None) \/ Coalesce("plain", None) \/ ArmTimer("plain", None)

\* The handler throws, and its catch gives the signal up.  A throw after the drain
\* leaves what AcceptSignal leaves.
FailSignal ==
  /\ turn = None /\ handlers > 0 /\ authorized <= MaxAuthorized
  /\ handlers' = handlers - 1
  /\ MarkHandled
  /\ OutsideHandler /\ UNCHANGED <<asked, authorized, draining, suspended>>
  /\ UNCHANGED <<slotVars, polls, cancelled, pc, turn, forced, owns, dead, stale, hook>>

\* A signal from outside, without authorization.
SignalFromOutside ==
  /\ Idle /\ events < MaxEvents
  /\ events' = events + 1 /\ handlers' = handlers + 1
  /\ UNCHANGED <<asked, slotVars, polls, cancelled, pc, turn, forced, attemptVars, owns, dead,
                 stale, fence, lease, inFlight, authorized, draining, hook, overrun, suspended,
                 busy>>

\* onIteration: resetAllLanes and resetGatewayRestartStateForInProcessRestart.
NextLife ==
  /\ Idle /\ draining /\ events < MaxEvents
  /\ events' = events + 1
  /\ draining' = FALSE /\ fence' = None /\ lease' = None /\ inFlight' = FALSE /\ authorized' = 0
  /\ stale' = {a \in Attempts : pc[a] # "idle"}
  /\ polls' = {} /\ cancelled' = {d \in Reloads : pc[d] # "idle"} /\ ClearSlot
  /\ hook' = [r \in Requests |-> IF hook[r] = "sent" THEN "ended" ELSE Drop[r]]
  /\ UNCHANGED <<asked, pc, turn, forced, attemptVars, owns, dead, handlers, suspended, busy>>

-----------------------------------------------------------------------------
(* Other work, and the host *)

\* Work is admitted, and ends.
Work ==
  /\ Idle /\ (busy \/ Open)
  /\ busy' = ~busy
  /\ UNCHANGED <<asked, slotVars, polls, cancelled, pc, turn, forced, attemptVars, owns, dead,
                 stale, gateVars, hook, overrun, suspended, events>>

Suspend ==
  /\ Idle /\ ~suspended /\ Open /\ ~busy /\ Inside = {}
  /\ suspended' = TRUE
  /\ UNCHANGED <<asked, slotVars, polls, cancelled, pc, turn, forced, attemptVars, owns, dead,
                 stale, gateVars, hook, overrun, busy, events>>

Resume ==
  /\ Idle /\ suspended /\ suspended' = FALSE
  /\ UNCHANGED <<asked, slotVars, polls, cancelled, pc, turn, forced, attemptVars, owns, dead,
                 stale, gateVars, hook, overrun, busy, events>>

Init ==
  /\ asked = {} /\ timer = FALSE /\ preparing = FALSE /\ skip = FALSE
  /\ parked = None /\ owner = None /\ polls = {} /\ cancelled = {}
  /\ pc = [a \in Attempts |-> "idle"] /\ turn = None /\ forced = {}
  /\ held = [a \in Attempts |-> None] /\ prep = [a \in Attempts |-> None]
  /\ ready = [a \in Attempts |-> FALSE] /\ outcome = [a \in Attempts |-> "none"]
  /\ owns = {} /\ dead = {} /\ stale = {}
  /\ fence = None /\ lease = None /\ inFlight = FALSE /\ handlers = 0 /\ authorized = 0
  /\ draining = FALSE /\ suspended = FALSE /\ busy = FALSE
  /\ hook = [r \in Requests |-> "none"] /\ overrun = {}
  /\ events = 0

Steps(a) ==
  \/ Wake(a) \/ Admit(a) \/ CallerPrepared(a) \/ TakeSlot(a) \/ ParkedPrepared(a)
  \/ Replaced(a) \/ Emit(a) \/ Retracted(a) \/ Leave(a)

Handler == AcceptSignal \/ AcceptIntent \/ IgnoreSignal \/ FailSignal

Next ==
  \/ \E r \in Requests : Request(r)
  \/ TimerFires
  \/ \E d \in Reloads : StartReload(d) \/ Supersede(d)
  \/ \E d \in Deferrals : Poll(d)
  \/ \E a \in Attempts : Steps(a)
  \/ EmitDirectly \/ Handler \/ SignalFromOutside \/ NextLife
  \/ Work \/ Suspend \/ Resume

Spec == Init /\ [][Next]_vars

\* Hooks run to an end, the handler runs, and those who wait are woken.
LiveSpec == Spec /\ WF_vars(Handler) /\ \A a \in Attempts : WF_vars(Steps(a))

-----------------------------------------------------------------------------
(* Properties *)

Stages == {"idle", "waiting", "entering"} \cup Body

Fates == {"none", "parked", "preparing", "prepared", "sent", "ended"}

SlotType ==
  /\ asked \subseteq Requests /\ parked \in Requests \cup {None}
  /\ timer \in BOOLEAN /\ preparing \in BOOLEAN /\ skip \in BOOLEAN
  /\ polls \subseteq Deferrals /\ overrun \subseteq Scheduled
  /\ hook \in [Requests -> Fates]

AttemptType ==
  /\ pc \in [Attempts -> Stages] /\ turn \in Attempts \cup {None}
  /\ \A a \in Attempts : a = turn <=> pc[a] \in {"entering", "slot", "emitting", "leaving"}
  /\ held \in [Attempts -> Requests \cup {None}] /\ prep \in [Attempts -> Requests \cup {None}]
  /\ ready \in [Attempts -> BOOLEAN]
  /\ outcome \in [Attempts -> {"none", "coalesced", "failed", "sent"}]
  /\ forced \cup owns \cup dead \cup stale \cup cancelled
       \subseteq {a \in Attempts : pc[a] # "idle"}

GateType ==
  /\ fence \in Attempts \cup {"direct", None} /\ lease \in Attempts \cup {"direct", None}
  /\ inFlight \in BOOLEAN /\ draining \in BOOLEAN /\ suspended \in BOOLEAN /\ busy \in BOOLEAN
  /\ handlers \in Nat /\ authorized \in Nat /\ events \in 0..MaxEvents

\* Every variable has its type; the running attempt, and no other, is between
\* two awaits; what an attempt keeps ends with it.
TypeOK == SlotType /\ AttemptType /\ GateType

\* A closed fence has somebody who will reopen it or make it a drain: a signal
\* that a handler has yet to answer, or the attempt that closed it, whatever was
\* cancelled, ignored, superseded or restarted meanwhile.
FenceHasOwner ==
  turn = None /\ fence # None => (inFlight /\ handlers > 0) \/ fence \in Inside

\* The slot's own deferral polls, or an attempt of the slot is under way.
Worked ==
  \/ polls \cap Scheduled # {}
  \/ \E a \in Attempts \ Reloads : pc[a] # "idle" /\ a \notin stale

\* The slot's deferral ran out of time beside its attempt, and the attempt has
\* ended without a signal.
GaveUp == \E d \in overrun : pc[d] = "idle"

\* Later requests coalesce into a restart that is being prepared, so somebody
\* works on it: the deferral of the slot polls, or one of its attempts is under
\* way, whatever reloads, cancellations, signals and restarts did meanwhile.
\* The one exception is what TimeLimitForces is about.
SlotAlive == turn = None /\ preparing /\ ~draining => Worked \/ GaveUp

\* docs/cli/gateway.md says that when the budget of a deferral expires the restart
\* is forced: after the time limit somebody works on a restart in preparation.
TimeLimitForces == turn = None /\ preparing /\ ~draining /\ overrun # {} => Worked

\* A sentinel that was written is in the hands of an attempt, which sends the
\* signal it announces or clears it: none is left behind by a preparation that
\* was replaced, cancelled, coalesced or outlived by a restart.
PreparedIsHeld ==
  \A r \in Requests : hook[r] \in {"preparing", "prepared"} =>
    \E a \in Inside : r \in {held[a], prep[a]}

\* The request of a session never takes the place of the parked continuation of
\* another session, whether it arms the timer, pulls it earlier or coalesces.  A
\* bypass does not ask canReplacePendingRestartEmitHooks: the property rests on
\* no caller combining skipDeferral with the hooks of a session.
OtherSessionsKept ==
  [][\A r, s \in Requests :
       /\ hook[r] = "parked" /\ SessionOf[r] # SessionOf[s]
       /\ hook[s] # "parked" /\ hook'[s] = "parked"
       => hook'[r] = "parked"]_vars

\* A restart signal never closes the gateway for good: the fence opens, to work
\* or to a drain, as long as hooks end and handlers run.
FenceOpens == fence # None ~> fence = None
=============================================================================
