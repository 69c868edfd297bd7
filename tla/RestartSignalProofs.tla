------------------------- MODULE RestartSignalProofs -------------------------
(***************************************************************************)
(* Theorems about RestartSignal, for every number of requests, deferrals,  *)
(* reloads and attempts, and for every number of signals and restarts.     *)
(***************************************************************************)
EXTENDS RestartSignal, TLAPS

-----------------------------------------------------------------------------
(* The inductive invariant *)

\* Only a reload has hooks of its own to prepare, and only a reload is cancelled
\* while its fence is up.  A signal that was sent is in flight until its attempt
\* has left, and nothing is retracted after it.
StageInv ==
  /\ dead \subseteq Reloads
  /\ \A a \in Attempts : pc[a] = "caller" => a \in Reloads
  /\ \A a \in Attempts : pc[a] = "retract" => outcome[a] # "sent"
  /\ \A a \in Attempts : pc[a] = "leaving" /\ outcome[a] = "sent" => inFlight

\* The fence is that of the lease on record; until a signal is in flight its
\* attempt, which created the lease, is there to roll it back; afterwards a handler
\* is to run.  A drain leaves no fence.
FenceInv ==
  /\ fence # None => lease = fence
  /\ draining => fence = None
  /\ inFlight => handlers > 0 \/ draining
  /\ fence # None /\ ~inFlight => fence \in Inside /\ fence \in owns

\* An attempt of the slot that skips the idle check: it ends with an emission.
Committed == {a \in forced \ (stale \cup Reloads) : pc[a] \notin {"idle", "retract", "leaving"}}

\* A signal in flight has emptied the slot; a deferral whose attempt has reached
\* a verdict polls no more; a deferral of the slot is of this life; and a restart
\* in preparation is the business of a scheduled deferral that polls, of a
\* committed attempt, or of the attempt beside which a deferral ran out of time.
SlotInv ==
  /\ inFlight => ~timer /\ ~preparing
  /\ \A a \in Scheduled : pc[a] \in {"retract", "leaving"} /\ outcome[a] # "none" =>
       a \notin polls \/ draining
  /\ (polls \cup overrun) \cap stale = {}
  /\ preparing /\ ~draining =>
       polls \cap Scheduled # {} \/ Committed # {} \/ overrun # {}

\* Where an attempt keeps hooks, and who keeps those that were started.
HoldInv ==
  /\ \A a \in Attempts : held[a] # None <=> pc[a] \in {"parked", "replace"}
  /\ \A a \in Attempts : prep[a] # None => pc[a] \in {"slot", "replace", "emitting", "retract"}
  /\ \A a \in Attempts : pc[a] \in {"replace", "retract"} => prep[a] # None
  /\ \A r \in Requests : hook[r] = "preparing" => \E a \in Attempts : held[a] = r
  /\ \A r \in Requests : hook[r] = "prepared" => \E a \in Attempts : prep[a] = r

\* A parked hook is the one of the slot, whose owner is its session, and the slot
\* is in use.  Nothing is parked when an attempt emits.
ParkInv ==
  /\ \A r \in Requests : hook[r] = "parked" =>
       parked = r /\ owner = SessionOf[r] /\ (timer \/ preparing)
  /\ \A a \in Attempts : pc[a] = "emitting" => parked = None

RestartInv == TypeOK /\ StageInv /\ FenceInv /\ SlotInv /\ HoldInv /\ ParkInv
-----------------------------------------------------------------------------
(* Types *)

\* Forgetting the hooks of the slot, parking those of a request and turning them
\* away leave every request with a fate.
LEMMA HookTypes ==
  ASSUME hook \in [Requests -> Fates]
  PROVE  /\ Drop \in [Requests -> Fates]
         /\ \A r \in Requests : Park(r) \in [Requests -> Fates]
         /\ \A r : [hook EXCEPT ![r] = "ended"] \in [Requests -> Fates]
<1>1. Drop \in [Requests -> Fates]
  BY DEF Drop, Fates
<1>2. \A r \in Requests : Park(r) \in [Requests -> Fates]
  BY <1>1 DEF Park, Fates
<1>3. \A r : [hook EXCEPT ![r] = "ended"] \in [Requests -> Fates]
  BY DEF Fates
<1> QED
  BY <1>1, <1>2, <1>3

\* The slot, the polls and the hooks keep their types.
LEMMA SlotTypeStep ==
  ASSUME TypeOK, [Next]_vars
  PROVE  SlotType'
<1> USE RestartAssumption DEF slotVars, attemptVars, gateVars, envVars, Idle, TypeOK,
     SlotType, AttemptType, GateType, Fates, Deferrals
<1>1. ASSUME NEW r \in Requests, Request(r) PROVE SlotType'
  <2> HIDE DEF TypeOK, SlotType, AttemptType, GateType, Fates
  <2>1. PICK k \in Kinds : Schedule(k, r)
    BY <1>1 DEF Request
  <2>2. /\ hook' \in {hook, Drop, Park(r), [hook EXCEPT ![r] = "ended"]}
        /\ parked' \in {parked, r, None}
        /\ polls' \in {polls, {}} /\ preparing' = preparing
    BY <2>1 DEF Schedule, TooLate, Bypass, PullEarlier, Coalesce, ArmTimer, Hooks, NoBegin
  <2>3. timer' \in {timer, TRUE} /\ (skip' = skip \/ skip' = TRUE \/ skip' = FALSE)
    <3>1. Skips(k) = TRUE \/ Skips(k) = FALSE
      BY SMT DEF Skips
    <3>2. (skip \/ Skips(k)) = TRUE \/ (skip \/ Skips(k)) = FALSE
      BY Zenon
    <3>3. skip' = skip \/ skip' = (skip \/ Skips(k)) \/ skip' = Skips(k)
      BY <2>1 DEF Schedule, TooLate, Bypass, PullEarlier, Coalesce, ArmTimer
    <3>4. skip' = skip \/ skip' = TRUE \/ skip' = FALSE
      BY <3>1, <3>2, <3>3, Zenon
    <3> QED
      BY <2>1, <3>4 DEF Schedule, TooLate, Bypass, PullEarlier, Coalesce, ArmTimer
  <2>4. hook' \in [Requests -> Fates]
    BY <2>2, HookTypes DEF TypeOK, SlotType
  <2>5. skip' \in BOOLEAN
    BY <2>3, Zenon DEF TypeOK, SlotType
  <2> QED
    BY <1>1, <2>2, <2>3, <2>4, <2>5 DEF Request, TypeOK, SlotType
<1>2. CASE TimerFires
  <2>1. UNCHANGED <<asked, parked, hook, overrun>>
    BY <1>2 DEF TimerFires
  <2>2. polls' = polls \/ \E d \in Scheduled : polls' = polls \cup {d}
    BY <1>2 DEF TimerFires
  <2>3. timer' = FALSE /\ skip' = FALSE /\ preparing' = TRUE
    BY <1>2 DEF TimerFires
  <2> QED
    BY <2>1, <2>2, <2>3
<1>3. ASSUME NEW d \in Reloads, StartReload(d) PROVE SlotType'
  BY <1>3 DEF StartReload, Begin, Run
<1>4. ASSUME NEW d \in Reloads, Supersede(d) PROVE SlotType'
  BY <1>4 DEF Supersede, RollbackFence, ReleaseFence
<1>5. ASSUME NEW d \in Deferrals, Poll(d) PROVE SlotType'
  BY <1>5 DEF Poll, Begin, Run
<1>6. ASSUME NEW a \in Attempts, Wake(a) PROVE SlotType'
  BY <1>6 DEF Wake, Run
<1>7. ASSUME NEW a \in Attempts, Admit(a) PROVE SlotType'
  BY <1>7 DEF Admit, Finish, Run, Await
<1>8. ASSUME NEW a \in Attempts, CallerPrepared(a) PROVE SlotType'
  BY <1>8 DEF CallerPrepared, Finish, Run
<1>9. ASSUME NEW a \in Attempts, TakeSlot(a) PROVE SlotType'
  BY <1>9 DEF TakeSlot, Run, Await
<1>10. ASSUME NEW a \in Attempts, ParkedPrepared(a) PROVE SlotType'
  BY <1>10 DEF ParkedPrepared, Run, Await, Finish
<1>11. ASSUME NEW a \in Attempts, Replaced(a) PROVE SlotType'
  BY <1>11 DEF Replaced, Await, Run, Finish
<1>12. ASSUME NEW a \in Attempts, Emit(a) PROVE SlotType'
  <2> HIDE DEF TypeOK, SlotType, AttemptType, GateType, Fates
  <2>1. /\ \/ UNCHANGED <<timer, preparing, skip, parked, polls>>
           \/ polls' = {} /\ timer' = FALSE /\ preparing' = FALSE /\ skip' = FALSE /\ parked' = None
        /\ asked' = asked /\ overrun' \subseteq overrun
    BY <1>12 DEF Emit, CoreEmit, ClearSlot
  <2>2. Drop \in [Requests -> Fates] /\ hook \in [Requests -> Fates] /\ "sent" \in Fates
    BY HookTypes DEF TypeOK, SlotType, Fates
  <2>3. hook' = hook \/ hook' = [r \in Requests |-> IF r = prep[a] THEN "sent" ELSE Drop[r]]
    BY <1>12 DEF Emit
  <2>4. hook' \in [Requests -> Fates]
    BY <2>2, <2>3
  <2> QED
    BY <2>1, <2>4 DEF TypeOK, SlotType
<1>13. ASSUME NEW a \in Attempts, Retracted(a) PROVE SlotType'
  BY <1>13 DEF Retracted, Reject, Run
<1>14. ASSUME NEW a \in Attempts, Leave(a) PROVE SlotType'
  BY <1>14 DEF Leave, ReleaseFence, Await
<1>15. CASE EmitDirectly
  BY <1>15 DEF EmitDirectly, CoreEmit, ClearSlot, Drop
<1>16. CASE AcceptSignal
  BY <1>16 DEF AcceptSignal, Drain, MarkHandled, OutsideHandler
<1>17. CASE AcceptIntent
  BY <1>17 DEF AcceptIntent, Drain, MarkHandled, OutsideHandler
<1>18. CASE IgnoreSignal
  <2> HIDE DEF TypeOK, SlotType, AttemptType, GateType, Fates
  <2>1. /\ hook' \in {hook, Drop} /\ parked' \in {parked, None} /\ polls' = polls
        /\ preparing' = preparing /\ overrun' = overrun /\ asked' = asked
    BY <1>18 DEF IgnoreSignal, OutsideHandler, PullEarlier, Coalesce, ArmTimer, Hooks,
         Preserves, CanReplace
  <2>2. timer' \in {timer, TRUE} /\ (skip' = skip \/ skip' = TRUE \/ skip' = FALSE)
    <3>1. Skips("plain") = TRUE \/ Skips("plain") = FALSE
      BY SMT DEF Skips
    <3>2. (skip \/ Skips("plain")) = TRUE \/ (skip \/ Skips("plain")) = FALSE
      BY Zenon
    <3>3. skip' = skip \/ skip' = (skip \/ Skips("plain")) \/ skip' = Skips("plain")
      BY <1>18 DEF IgnoreSignal, PullEarlier, Coalesce, ArmTimer
    <3>4. skip' = skip \/ skip' = TRUE \/ skip' = FALSE
      BY <3>1, <3>2, <3>3, Zenon
    <3> QED
      BY <1>18, <3>4 DEF IgnoreSignal, PullEarlier, Coalesce, ArmTimer
  <2>3. hook' \in [Requests -> Fates]
    BY <2>1, HookTypes DEF TypeOK, SlotType
  <2>4. skip' \in BOOLEAN
    BY <2>2, Zenon DEF TypeOK, SlotType
  <2> QED
    BY <2>1, <2>2, <2>3, <2>4 DEF TypeOK, SlotType
<1>19. CASE FailSignal
  BY <1>19 DEF FailSignal, MarkHandled, OutsideHandler
<1>20. CASE SignalFromOutside
  BY <1>20 DEF SignalFromOutside, Idle
<1>21. CASE NextLife
  BY <1>21 DEF NextLife, ClearSlot, Drop
<1>22. CASE Work
  BY <1>22 DEF Work
<1>23. CASE Suspend
  BY <1>23 DEF Suspend
<1>24. CASE Resume
  BY <1>24 DEF Resume
<1>25. CASE UNCHANGED vars
  BY <1>25 DEF vars
<1> QED
  BY <1>1, <1>2, <1>3, <1>4, <1>5, <1>6, <1>7, <1>8, <1>9, <1>10, <1>11, <1>12, <1>13,
       <1>14, <1>15, <1>16, <1>17, <1>18, <1>19, <1>20, <1>21, <1>22, <1>23, <1>24, <1>25
       DEF Next, Steps, Handler

\* An attempt keeps its type: it alone runs between two awaits, and leaves no
\* mark behind when it ends.
LEMMA AttemptTypeStep ==
  ASSUME TypeOK, [Next]_vars
  PROVE  AttemptType'
<1> USE RestartAssumption DEF slotVars, attemptVars, gateVars, envVars, Idle, TypeOK,
     SlotType, AttemptType, GateType, Stages, Body, Inside, Attempts, Deferrals
<1>1. ASSUME NEW r \in Requests, Request(r) PROVE AttemptType'
  BY <1>1 DEF Request, Schedule, TooLate, Bypass, PullEarlier, Coalesce, ArmTimer,
       NoBegin, Begin, Run, Drop, Park, Hooks, Key
<1>2. CASE TimerFires
  BY <1>2 DEF TimerFires, Begin, Run
<1>3. ASSUME NEW d \in Reloads, StartReload(d) PROVE AttemptType'
  BY <1>3 DEF StartReload, Begin, Run
<1>4. ASSUME NEW d \in Reloads, Supersede(d) PROVE AttemptType'
  BY <1>4 DEF Supersede, RollbackFence, ReleaseFence
<1>5. ASSUME NEW d \in Deferrals, Poll(d) PROVE AttemptType'
  BY <1>5 DEF Poll, Begin, Run
<1>6. ASSUME NEW a \in Attempts, Wake(a) PROVE AttemptType'
  BY <1>6 DEF Wake, Run
<1>7. ASSUME NEW a \in Attempts, Admit(a) PROVE AttemptType'
  BY <1>7 DEF Admit, Finish, Run, Await
<1>8. ASSUME NEW a \in Attempts, CallerPrepared(a) PROVE AttemptType'
  BY <1>8 DEF CallerPrepared, Finish, Run
<1>9. ASSUME NEW a \in Attempts, TakeSlot(a) PROVE AttemptType'
  BY <1>9 DEF TakeSlot, Run, Await
<1>10. ASSUME NEW a \in Attempts, ParkedPrepared(a) PROVE AttemptType'
  BY <1>10 DEF ParkedPrepared, Run, Await, Finish
<1>11. ASSUME NEW a \in Attempts, Replaced(a) PROVE AttemptType'
  BY <1>11 DEF Replaced, Await, Run, Finish
<1>12. ASSUME NEW a \in Attempts, Emit(a) PROVE AttemptType'
  BY <1>12 DEF Emit, CoreEmit, EmitResult, CoreResult, Finish, Run, Await, ClearSlot, Drop
<1>13. ASSUME NEW a \in Attempts, Retracted(a) PROVE AttemptType'
  BY <1>13 DEF Retracted, Reject, Run
<1>14. ASSUME NEW a \in Attempts, Leave(a) PROVE AttemptType'
  BY <1>14 DEF Leave, ReleaseFence, Await
<1>15. CASE EmitDirectly
  BY <1>15 DEF EmitDirectly, CoreEmit, ClearSlot, Drop
<1>16. CASE AcceptSignal
  BY <1>16 DEF AcceptSignal, Drain, MarkHandled, OutsideHandler
<1>17. CASE AcceptIntent
  BY <1>17 DEF AcceptIntent, Drain, MarkHandled, OutsideHandler
<1>18. CASE IgnoreSignal
  BY <1>18 DEF IgnoreSignal, MarkHandled, OutsideHandler, PullEarlier, Coalesce, ArmTimer,
       NoBegin, Drop, Park, Hooks, Key
<1>19. CASE FailSignal
  BY <1>19 DEF FailSignal, MarkHandled, OutsideHandler
<1>20. CASE SignalFromOutside
  BY <1>20 DEF SignalFromOutside, Idle
<1>21. CASE NextLife
  BY <1>21 DEF NextLife, ClearSlot, Drop
<1>22. CASE Work
  BY <1>22 DEF Work
<1>23. CASE Suspend
  BY <1>23 DEF Suspend
<1>24. CASE Resume
  BY <1>24 DEF Resume
<1>25. CASE UNCHANGED vars
  BY <1>25 DEF vars
<1> QED
  BY <1>1, <1>2, <1>3, <1>4, <1>5, <1>6, <1>7, <1>8, <1>9, <1>10, <1>11, <1>12, <1>13,
       <1>14, <1>15, <1>16, <1>17, <1>18, <1>19, <1>20, <1>21, <1>22, <1>23, <1>24, <1>25
       DEF Next, Steps, Handler

\* The fence, the lease, the signal, its handlers and its authorizations keep
\* their types: authorized never falls below zero.
LEMMA GateTypeStep ==
  ASSUME TypeOK, [Next]_vars
  PROVE  GateType'
<1> USE RestartAssumption DEF slotVars, attemptVars, gateVars, envVars, Idle, TypeOK,
     GateType
<1>1. ASSUME NEW r \in Requests, Request(r) PROVE GateType'
  BY <1>1 DEF Request, Schedule, TooLate, Bypass, PullEarlier, Coalesce, ArmTimer,
       NoBegin, Begin, Run, Drop, Park, Hooks, Key
<1>2. CASE TimerFires
  BY <1>2 DEF TimerFires, Begin, Run
<1>3. ASSUME NEW d \in Reloads, StartReload(d) PROVE GateType'
  BY <1>3 DEF StartReload, Begin, Run
<1>4. ASSUME NEW d \in Reloads, Supersede(d) PROVE GateType'
  BY <1>4 DEF Supersede, RollbackFence, ReleaseFence
<1>5. ASSUME NEW d \in Deferrals, Poll(d) PROVE GateType'
  BY <1>5 DEF Poll, Begin, Run
<1>6. ASSUME NEW a \in Attempts, Wake(a) PROVE GateType'
  BY <1>6 DEF Wake, Run
<1>7. ASSUME NEW a \in Attempts, Admit(a) PROVE GateType'
  BY <1>7 DEF Admit, Finish, Run, Await
<1>8. ASSUME NEW a \in Attempts, CallerPrepared(a) PROVE GateType'
  BY <1>8 DEF CallerPrepared, Finish, Run
<1>9. ASSUME NEW a \in Attempts, TakeSlot(a) PROVE GateType'
  BY <1>9 DEF TakeSlot, Run, Await
<1>10. ASSUME NEW a \in Attempts, ParkedPrepared(a) PROVE GateType'
  BY <1>10 DEF ParkedPrepared, Run, Await, Finish
<1>11. ASSUME NEW a \in Attempts, Replaced(a) PROVE GateType'
  BY <1>11 DEF Replaced, Await, Run, Finish
<1>12. ASSUME NEW a \in Attempts, Emit(a) PROVE GateType'
  <2>1. /\ fence' \in {fence, "direct"} /\ lease' \in {lease, "direct"}
        /\ inFlight' \in {inFlight, TRUE}
        /\ UNCHANGED <<draining, suspended, busy, events>>
    BY <1>12 DEF Emit, CoreEmit
  <2>2. handlers' \in {handlers, handlers + 1} /\ authorized' \in {authorized, authorized + 1}
    BY <1>12 DEF Emit, CoreEmit, TypeOK, GateType
  <2>3. handlers' \in Nat /\ authorized' \in Nat
    BY <2>2 DEF TypeOK, GateType
  <2> QED
    BY <2>1, <2>3 DEF TypeOK, GateType
<1>13. ASSUME NEW a \in Attempts, Retracted(a) PROVE GateType'
  BY <1>13 DEF Retracted, Reject, Run
<1>14. ASSUME NEW a \in Attempts, Leave(a) PROVE GateType'
  BY <1>14 DEF Leave, ReleaseFence, Await
<1>15. CASE EmitDirectly
  <2>1. /\ fence' \in {fence, "direct"} /\ lease' \in {lease, "direct"}
        /\ inFlight' \in {inFlight, TRUE}
        /\ UNCHANGED <<draining, suspended, busy>>
    BY <1>15 DEF EmitDirectly, CoreEmit
  <2>2. handlers' \in {handlers, handlers + 1} /\ authorized' \in {authorized, authorized + 1}
    BY <1>15 DEF EmitDirectly, CoreEmit, TypeOK, GateType
  <2>3. handlers' \in Nat /\ authorized' \in Nat /\ events' \in 0..MaxEvents
    BY <1>15, <2>2 DEF EmitDirectly, TypeOK, GateType
  <2> QED
    BY <2>1, <2>3 DEF TypeOK, GateType
<1>16. CASE AcceptSignal
  <2>1. handlers' \in Nat /\ authorized' \in Nat /\ events' \in 0..MaxEvents
    BY <1>16 DEF AcceptSignal, Drain, MarkHandled, OutsideHandler, TypeOK, GateType
  <2>2. fence' \in {fence, None} /\ lease' \in {lease, None}
    BY <1>16 DEF AcceptSignal, Drain, MarkHandled, OutsideHandler
  <2>3. /\ inFlight' \in {inFlight, FALSE} /\ draining' \in {draining, TRUE, FALSE}
        /\ suspended' \in {suspended, FALSE} /\ busy' = busy
    BY <1>16 DEF AcceptSignal, Drain, MarkHandled, OutsideHandler
  <2> QED
    BY <2>1, <2>2, <2>3 DEF TypeOK, GateType
<1>17. CASE AcceptIntent
  <2>1. handlers' \in Nat /\ authorized' \in Nat /\ events' \in 0..MaxEvents
    BY <1>17 DEF AcceptIntent, Drain, MarkHandled, OutsideHandler, TypeOK, GateType
  <2>2. fence' \in {fence, None} /\ lease' \in {lease, None}
    BY <1>17 DEF AcceptIntent, Drain, MarkHandled, OutsideHandler
  <2>3. /\ inFlight' \in {inFlight, FALSE} /\ draining' \in {draining, TRUE, FALSE}
        /\ suspended' \in {suspended, FALSE} /\ busy' = busy
    BY <1>17 DEF AcceptIntent, Drain, MarkHandled, OutsideHandler
  <2> QED
    BY <2>1, <2>2, <2>3 DEF TypeOK, GateType
<1>18. CASE IgnoreSignal
  <2>1. handlers' \in Nat /\ authorized' \in Nat /\ events' \in 0..MaxEvents
    BY <1>18 DEF IgnoreSignal, MarkHandled, OutsideHandler, TypeOK, GateType
  <2>2. fence' \in {fence, None} /\ lease' \in {lease, None}
    BY <1>18 DEF IgnoreSignal, MarkHandled, OutsideHandler
  <2>3. /\ inFlight' \in {inFlight, FALSE} /\ draining' \in {draining, TRUE, FALSE}
        /\ suspended' \in {suspended, FALSE} /\ busy' = busy
    BY <1>18 DEF IgnoreSignal, MarkHandled, OutsideHandler
  <2> QED
    BY <2>1, <2>2, <2>3 DEF TypeOK, GateType
<1>19. CASE FailSignal
  <2>1. handlers' \in Nat /\ authorized' \in Nat /\ events' \in 0..MaxEvents
    BY <1>19 DEF FailSignal, MarkHandled, OutsideHandler, TypeOK, GateType
  <2>2. fence' \in {fence, None} /\ lease' \in {lease, None}
    BY <1>19 DEF FailSignal, MarkHandled, OutsideHandler
  <2>3. /\ inFlight' \in {inFlight, FALSE} /\ draining' \in {draining, TRUE, FALSE}
        /\ suspended' \in {suspended, FALSE} /\ busy' = busy
    BY <1>19 DEF FailSignal, MarkHandled, OutsideHandler
  <2> QED
    BY <2>1, <2>2, <2>3 DEF TypeOK, GateType
<1>20. CASE SignalFromOutside
  BY <1>20 DEF SignalFromOutside, Idle
<1>21. CASE NextLife
  <2>1. handlers' \in Nat /\ authorized' \in Nat /\ events' \in 0..MaxEvents
    BY <1>21 DEF NextLife, TypeOK, GateType
  <2>2. fence' \in {fence, None} /\ lease' \in {lease, None}
    BY <1>21 DEF NextLife
  <2>3. /\ inFlight' \in {inFlight, FALSE} /\ draining' \in {draining, TRUE, FALSE}
        /\ suspended' \in {suspended, FALSE} /\ busy' = busy
    BY <1>21 DEF NextLife
  <2> QED
    BY <2>1, <2>2, <2>3 DEF TypeOK, GateType
<1>22. CASE Work
  BY <1>22 DEF Work
<1>23. CASE Suspend
  BY <1>23 DEF Suspend
<1>24. CASE Resume
  BY <1>24 DEF Resume
<1>25. CASE UNCHANGED vars
  BY <1>25 DEF vars
<1> QED
  BY <1>1, <1>2, <1>3, <1>4, <1>5, <1>6, <1>7, <1>8, <1>9, <1>10, <1>11, <1>12, <1>13,
       <1>14, <1>15, <1>16, <1>17, <1>18, <1>19, <1>20, <1>21, <1>22, <1>23, <1>24, <1>25
       DEF Next, Steps, Handler

\* Every step keeps every type.
LEMMA TypeStep ==
  ASSUME TypeOK, [Next]_vars
  PROVE  TypeOK'
BY SlotTypeStep, AttemptTypeStep, GateTypeStep DEF TypeOK

-----------------------------------------------------------------------------
(* Stages and the fence *)

\* What the stage of an attempt says holds after every step.  A handler runs only
\* between two turns, so an attempt that has sent its signal leaves before anybody
\* can answer it.
LEMMA StageStep ==
  ASSUME TypeOK, StageInv, FenceInv, [Next]_vars
  PROVE  StageInv'
<1> USE RestartAssumption DEF slotVars, attemptVars, gateVars, envVars, Idle, TypeOK,
     SlotType, AttemptType, GateType, StageInv, FenceInv, Attempts, Deferrals, Blocked,
     Inside
<1>1. ASSUME NEW r \in Requests, Request(r) PROVE StageInv'
  BY <1>1 DEF Request, Schedule, TooLate, Bypass, PullEarlier, Coalesce, ArmTimer,
       NoBegin, Begin, Run, Drop, Park, Hooks, Key
<1>2. CASE TimerFires
  BY <1>2 DEF TimerFires, Begin, Run
<1>3. ASSUME NEW d \in Reloads, StartReload(d) PROVE StageInv'
  BY <1>3 DEF StartReload, Begin, Run
<1>4. ASSUME NEW d \in Reloads, Supersede(d) PROVE StageInv'
  BY <1>4 DEF Supersede, RollbackFence, ReleaseFence
<1>5. ASSUME NEW d \in Deferrals, Poll(d) PROVE StageInv'
  BY <1>5 DEF Poll, Begin, Run
<1>6. ASSUME NEW a \in Attempts, Wake(a) PROVE StageInv'
  BY <1>6 DEF Wake, Run
<1>7. ASSUME NEW a \in Attempts, Admit(a) PROVE StageInv'
  BY <1>7 DEF Admit, Finish, Run, Await
<1>8. ASSUME NEW a \in Attempts, CallerPrepared(a) PROVE StageInv'
  BY <1>8 DEF CallerPrepared, Finish, Run
<1>9. ASSUME NEW a \in Attempts, TakeSlot(a) PROVE StageInv'
  BY <1>9 DEF TakeSlot, Run, Await
<1>10. ASSUME NEW a \in Attempts, ParkedPrepared(a) PROVE StageInv'
  BY <1>10 DEF ParkedPrepared, Run, Await, Finish
<1>11. ASSUME NEW a \in Attempts, Replaced(a) PROVE StageInv'
  BY <1>11 DEF Replaced, Await, Run, Finish
<1>12. ASSUME NEW a \in Attempts, Emit(a) PROVE StageInv'
  BY <1>12 DEF Emit, CoreEmit, EmitResult, CoreResult, Finish, Run, Await, ClearSlot, Drop
<1>13. ASSUME NEW a \in Attempts, Retracted(a) PROVE StageInv'
  BY <1>13 DEF Retracted, Reject, Run
<1>14. ASSUME NEW a \in Attempts, Leave(a) PROVE StageInv'
  BY <1>14 DEF Leave, ReleaseFence, Await
<1>15. CASE EmitDirectly
  BY <1>15 DEF EmitDirectly, CoreEmit, ClearSlot, Drop
<1>16. CASE AcceptSignal
  BY <1>16 DEF AcceptSignal, Drain, MarkHandled, OutsideHandler
<1>17. CASE AcceptIntent
  BY <1>17 DEF AcceptIntent, Drain, MarkHandled, OutsideHandler
<1>18. CASE IgnoreSignal
  BY <1>18 DEF IgnoreSignal, MarkHandled, OutsideHandler, PullEarlier, Coalesce, ArmTimer,
       NoBegin, Drop, Park, Hooks, Key
<1>19. CASE FailSignal
  BY <1>19 DEF FailSignal, MarkHandled, OutsideHandler
<1>20. CASE SignalFromOutside
  BY <1>20 DEF SignalFromOutside, Idle
<1>21. CASE NextLife
  BY <1>21 DEF NextLife, ClearSlot, Drop
<1>22. CASE Work
  BY <1>22 DEF Work
<1>23. CASE Suspend
  BY <1>23 DEF Suspend
<1>24. CASE Resume
  BY <1>24 DEF Resume
<1>25. CASE UNCHANGED vars
  BY <1>25 DEF vars
<1> QED
  BY <1>1, <1>2, <1>3, <1>4, <1>5, <1>6, <1>7, <1>8, <1>9, <1>10, <1>11, <1>12, <1>13,
       <1>14, <1>15, <1>16, <1>17, <1>18, <1>19, <1>20, <1>21, <1>22, <1>23, <1>24, <1>25
       DEF Next, Steps, Handler

\* Every step that closes the fence leaves an attempt or a handler that opens it:
\* an attempt lets go of its lease in the step that opens its fence.
LEMMA FenceStep ==
  ASSUME TypeOK, StageInv, FenceInv, [Next]_vars
  PROVE  FenceInv'
<1> USE RestartAssumption DEF slotVars, attemptVars, gateVars, envVars, Idle, TypeOK,
     SlotType, AttemptType, GateType, StageInv, FenceInv, Inside, Body, Open, Blocked
<1>1. ASSUME NEW r \in Requests, Request(r) PROVE FenceInv'
  BY <1>1 DEF Request, Schedule, TooLate, Bypass, PullEarlier, Coalesce, ArmTimer,
       NoBegin, Begin, Run, Drop, Park, Hooks, Key
<1>2. CASE TimerFires
  BY <1>2 DEF TimerFires, Begin, Run
<1>3. ASSUME NEW d \in Reloads, StartReload(d) PROVE FenceInv'
  BY <1>3 DEF StartReload, Begin, Run
<1>4. ASSUME NEW d \in Reloads, Supersede(d) PROVE FenceInv'
  BY <1>4 DEF Supersede, RollbackFence, ReleaseFence
<1>5. ASSUME NEW d \in Deferrals, Poll(d) PROVE FenceInv'
  BY <1>5 DEF Poll, Begin, Run
<1>6. ASSUME NEW a \in Attempts, Wake(a) PROVE FenceInv'
  BY <1>6 DEF Wake, Run
<1>7. ASSUME NEW a \in Attempts, Admit(a) PROVE FenceInv'
  BY <1>7 DEF Admit, Finish, Run, Await
<1>8. ASSUME NEW a \in Attempts, CallerPrepared(a) PROVE FenceInv'
  BY <1>8 DEF CallerPrepared, Finish, Run
<1>9. ASSUME NEW a \in Attempts, TakeSlot(a) PROVE FenceInv'
  BY <1>9 DEF TakeSlot, Run, Await
<1>10. ASSUME NEW a \in Attempts, ParkedPrepared(a) PROVE FenceInv'
  BY <1>10 DEF ParkedPrepared, Run, Await, Finish
<1>11. ASSUME NEW a \in Attempts, Replaced(a) PROVE FenceInv'
  BY <1>11 DEF Replaced, Await, Run, Finish
<1>12. ASSUME NEW a \in Attempts, Emit(a) PROVE FenceInv'
  BY <1>12 DEF Emit, CoreEmit, EmitResult, CoreResult, Finish, Run, Await, ClearSlot, Drop
<1>13. ASSUME NEW a \in Attempts, Retracted(a) PROVE FenceInv'
  BY <1>13 DEF Retracted, Reject, Run
<1>14. ASSUME NEW a \in Attempts, Leave(a) PROVE FenceInv'
  BY <1>14 DEF Leave, ReleaseFence, Await
<1>15. CASE EmitDirectly
  BY <1>15 DEF EmitDirectly, CoreEmit, ClearSlot, Drop
<1>16. CASE AcceptSignal
  BY <1>16 DEF AcceptSignal, Drain, MarkHandled, OutsideHandler
<1>17. CASE AcceptIntent
  BY <1>17 DEF AcceptIntent, Drain, MarkHandled, OutsideHandler
<1>18. CASE IgnoreSignal
  BY <1>18 DEF IgnoreSignal, MarkHandled, OutsideHandler, PullEarlier, Coalesce, ArmTimer,
       NoBegin, Drop, Park, Hooks, Key
<1>19. CASE FailSignal
  BY <1>19 DEF FailSignal, MarkHandled, OutsideHandler
<1>20. CASE SignalFromOutside
  BY <1>20 DEF SignalFromOutside, Idle
<1>21. CASE NextLife
  BY <1>21 DEF NextLife, ClearSlot, Drop
<1>22. CASE Work
  BY <1>22 DEF Work
<1>23. CASE Suspend
  BY <1>23 DEF Suspend
<1>24. CASE Resume
  BY <1>24 DEF Resume
<1>25. CASE UNCHANGED vars
  BY <1>25 DEF vars
<1> QED
  BY <1>1, <1>2, <1>3, <1>4, <1>5, <1>6, <1>7, <1>8, <1>9, <1>10, <1>11, <1>12, <1>13,
       <1>14, <1>15, <1>16, <1>17, <1>18, <1>19, <1>20, <1>21, <1>22, <1>23, <1>24, <1>25
       DEF Next, Steps, Handler

-----------------------------------------------------------------------------
(* The slot and the hooks *)

\* Every step that takes a scheduled deferral out of the polls, or ends a committed
\* attempt, also empties the slot, begins a drain or counts as an overrun of the slot.
LEMMA SlotStep ==
  ASSUME TypeOK, TypeOK', StageInv, FenceInv, SlotInv, [Next]_vars
  PROVE  SlotInv'
<1> USE RestartAssumption DEF slotVars, attemptVars, gateVars, envVars, Idle, TypeOK,
     SlotType, AttemptType, GateType, StageInv, FenceInv, SlotInv, Committed, Attempts,
     Deferrals, Blocked, Current, Skips
<1>1. ASSUME NEW r \in Requests, Request(r) PROVE SlotInv'
  BY <1>1 DEF Request, Schedule, TooLate, Bypass, PullEarlier, Coalesce, ArmTimer,
       NoBegin, Begin, Run, Drop, Park, Hooks, Key
<1>2. CASE TimerFires
  BY <1>2 DEF TimerFires, Begin, Run
<1>3. ASSUME NEW d \in Reloads, StartReload(d) PROVE SlotInv'
  BY <1>3 DEF StartReload, Begin, Run
<1>4. ASSUME NEW d \in Reloads, Supersede(d) PROVE SlotInv'
  BY <1>4 DEF Supersede, RollbackFence, ReleaseFence
<1>5. ASSUME NEW d \in Deferrals, Poll(d) PROVE SlotInv'
  BY <1>5 DEF Poll, Begin, Run
<1>6. ASSUME NEW a \in Attempts, Wake(a) PROVE SlotInv'
  BY <1>6 DEF Wake, Run
<1>7. ASSUME NEW a \in Attempts, Admit(a) PROVE SlotInv'
  BY <1>7 DEF Admit, Finish, Run, Await
<1>8. ASSUME NEW a \in Attempts, CallerPrepared(a) PROVE SlotInv'
  BY <1>8 DEF CallerPrepared, Finish, Run
<1>9. ASSUME NEW a \in Attempts, TakeSlot(a) PROVE SlotInv'
  BY <1>9 DEF TakeSlot, Run, Await
<1>10. ASSUME NEW a \in Attempts, ParkedPrepared(a) PROVE SlotInv'
  BY <1>10 DEF ParkedPrepared, Run, Await, Finish
<1>11. ASSUME NEW a \in Attempts, Replaced(a) PROVE SlotInv'
  BY <1>11 DEF Replaced, Await, Run, Finish
<1>12. ASSUME NEW a \in Attempts, Emit(a) PROVE SlotInv'
  BY <1>12 DEF Emit, CoreEmit, EmitResult, CoreResult, Finish, Run, Await, ClearSlot, Drop
<1>13. ASSUME NEW a \in Attempts, Retracted(a) PROVE SlotInv'
  BY <1>13 DEF Retracted, Reject, Run
<1>14. ASSUME NEW a \in Attempts, Leave(a) PROVE SlotInv'
  BY <1>14 DEF Leave, ReleaseFence, Await
<1>15. CASE EmitDirectly
  BY <1>15 DEF EmitDirectly, CoreEmit, ClearSlot, Drop
<1>16. CASE AcceptSignal
  BY <1>16 DEF AcceptSignal, Drain, MarkHandled, OutsideHandler
<1>17. CASE AcceptIntent
  BY <1>17 DEF AcceptIntent, Drain, MarkHandled, OutsideHandler
<1>18. CASE IgnoreSignal
  BY <1>18 DEF IgnoreSignal, MarkHandled, OutsideHandler, PullEarlier, Coalesce, ArmTimer,
       NoBegin, Drop, Park, Hooks, Key
<1>19. CASE FailSignal
  BY <1>19 DEF FailSignal, MarkHandled, OutsideHandler
<1>20. CASE SignalFromOutside
  BY <1>20 DEF SignalFromOutside, Idle
<1>21. CASE NextLife
  BY <1>21 DEF NextLife, ClearSlot, Drop
<1>22. CASE Work
  BY <1>22 DEF Work
<1>23. CASE Suspend
  BY <1>23 DEF Suspend
<1>24. CASE Resume
  BY <1>24 DEF Resume
<1>25. CASE UNCHANGED vars
  BY <1>25 DEF vars
<1> QED
  BY <1>1, <1>2, <1>3, <1>4, <1>5, <1>6, <1>7, <1>8, <1>9, <1>10, <1>11, <1>12, <1>13,
       <1>14, <1>15, <1>16, <1>17, <1>18, <1>19, <1>20, <1>21, <1>22, <1>23, <1>24, <1>25
       DEF Next, Steps, Handler

\* Hooks that were started pass from the slot to held, from held to prep, and from
\* there to a sent signal or to their end.
LEMMA HoldStep ==
  ASSUME TypeOK, TypeOK', StageInv, HoldInv, [Next]_vars
  PROVE  HoldInv'
<1> USE RestartAssumption DEF slotVars, attemptVars, gateVars, envVars, Idle, TypeOK,
     SlotType, AttemptType, GateType, StageInv, HoldInv, Attempts, Deferrals
<1>1. ASSUME NEW r \in Requests, Request(r) PROVE HoldInv'
  <2> HIDE DEF HoldInv, StageInv, AttemptType, GateType
  <2>1. PICK k \in Kinds : Schedule(k, r)
    BY <1>1 DEF Request
  <2>2. hook' \in {hook, Drop, Park(r), [hook EXCEPT ![r] = "ended"]}
    BY <2>1 DEF Schedule, TooLate, Bypass, PullEarlier, Coalesce, ArmTimer
  <2>3. \A q \in Requests : hook'[q] \in {"preparing", "prepared"} => hook'[q] = hook[q]
    BY <2>2 DEF Drop, Park, TypeOK, SlotType, Fates
  <2>4. UNCHANGED <<held, prep>>
    BY <1>1 DEF Request
  <2>5. pc' = pc \/ \E a \in Solo : pc[a] = "idle" /\ pc' = [pc EXCEPT ![a] = "entering"]
    BY <2>1 DEF Schedule, TooLate, Bypass, PullEarlier, Coalesce, ArmTimer, NoBegin,
         Begin, Run
  <2> QED
    BY <2>3, <2>4, <2>5 DEF HoldInv, TypeOK, AttemptType, Attempts
<1>2. CASE TimerFires
  BY <1>2 DEF TimerFires, Begin, Run
<1>3. ASSUME NEW d \in Reloads, StartReload(d) PROVE HoldInv'
  BY <1>3 DEF StartReload, Begin, Run
<1>4. ASSUME NEW d \in Reloads, Supersede(d) PROVE HoldInv'
  BY <1>4 DEF Supersede, RollbackFence, ReleaseFence
<1>5. ASSUME NEW d \in Deferrals, Poll(d) PROVE HoldInv'
  BY <1>5 DEF Poll, Begin, Run
<1>6. ASSUME NEW a \in Attempts, Wake(a) PROVE HoldInv'
  BY <1>6 DEF Wake, Run
<1>7. ASSUME NEW a \in Attempts, Admit(a) PROVE HoldInv'
  BY <1>7 DEF Admit, Finish, Run, Await
<1>8. ASSUME NEW a \in Attempts, CallerPrepared(a) PROVE HoldInv'
  BY <1>8 DEF CallerPrepared, Finish, Run
<1>9. ASSUME NEW a \in Attempts, TakeSlot(a) PROVE HoldInv'
  BY <1>9 DEF TakeSlot, Run, Await
<1>10. ASSUME NEW a \in Attempts, ParkedPrepared(a) PROVE HoldInv'
  BY <1>10 DEF ParkedPrepared, Run, Await, Finish
<1>11. ASSUME NEW a \in Attempts, Replaced(a) PROVE HoldInv'
  BY <1>11 DEF Replaced, Await, Run, Finish
<1>12. ASSUME NEW a \in Attempts, Emit(a) PROVE HoldInv'
  BY <1>12 DEF Emit, CoreEmit, EmitResult, CoreResult, Finish, Run, Await, ClearSlot, Drop
<1>13. ASSUME NEW a \in Attempts, Retracted(a) PROVE HoldInv'
  BY <1>13 DEF Retracted, Reject, Run
<1>14. ASSUME NEW a \in Attempts, Leave(a) PROVE HoldInv'
  BY <1>14 DEF Leave, ReleaseFence, Await
<1>15. CASE EmitDirectly
  BY <1>15 DEF EmitDirectly, CoreEmit, ClearSlot, Drop
<1>16. CASE AcceptSignal
  BY <1>16 DEF AcceptSignal, Drain, MarkHandled, OutsideHandler
<1>17. CASE AcceptIntent
  BY <1>17 DEF AcceptIntent, Drain, MarkHandled, OutsideHandler
<1>18. CASE IgnoreSignal
  BY <1>18 DEF IgnoreSignal, MarkHandled, OutsideHandler, PullEarlier, Coalesce, ArmTimer,
       NoBegin, Drop, Park, Hooks, Key
<1>19. CASE FailSignal
  BY <1>19 DEF FailSignal, MarkHandled, OutsideHandler
<1>20. CASE SignalFromOutside
  BY <1>20 DEF SignalFromOutside, Idle
<1>21. CASE NextLife
  BY <1>21 DEF NextLife, ClearSlot, Drop
<1>22. CASE Work
  BY <1>22 DEF Work
<1>23. CASE Suspend
  BY <1>23 DEF Suspend
<1>24. CASE Resume
  BY <1>24 DEF Resume
<1>25. CASE UNCHANGED vars
  BY <1>25 DEF vars
<1> QED
  BY <1>1, <1>2, <1>3, <1>4, <1>5, <1>6, <1>7, <1>8, <1>9, <1>10, <1>11, <1>12, <1>13,
       <1>14, <1>15, <1>16, <1>17, <1>18, <1>19, <1>20, <1>21, <1>22, <1>23, <1>24, <1>25
       DEF Next, Steps, Handler

\* Hooks are parked together with their owner, and forgotten with the slot.
LEMMA ParkStep ==
  ASSUME TypeOK, TypeOK', HoldInv, ParkInv, [Next]_vars
  PROVE  ParkInv'
<1> USE RestartAssumption DEF slotVars, attemptVars, gateVars, envVars, Idle, TypeOK,
     SlotType, AttemptType, GateType, ParkInv, CanReplace, Preserves, Blocked
<1>1. ASSUME NEW r \in Requests, Request(r) PROVE ParkInv'
  <2>1. PICK k \in Kinds : Schedule(k, r)
    BY <1>1 DEF Request
  <2>2. turn = None /\ \A a \in Attempts : pc[a] # "emitting"
    BY <1>1 DEF Request, TypeOK, AttemptType
  <2>3. pc' = pc \/ \E a \in Solo : pc' = [pc EXCEPT ![a] = "entering"]
    BY <2>1 DEF Schedule, TooLate, Bypass, PullEarlier, Coalesce, ArmTimer, NoBegin,
         Begin, Run
  <2>4. \A a \in Attempts : pc'[a] # "emitting"
    BY <2>2, <2>3 DEF TypeOK, AttemptType, Attempts
  <2>5. \A q \in Requests : Drop[q] # "parked"
    BY DEF Drop, ParkInv
  <2>6. Park(r) \in [Requests -> Fates] /\ \A q \in Requests : Park(r)[q] = "parked" => q = r
    BY <2>5, HookTypes DEF Park, TypeOK, SlotType, Drop
  <2>7. [hook EXCEPT ![r] = "ended"][r] = "ended"
        /\ \A q \in Requests \ {r} : [hook EXCEPT ![r] = "ended"][q] = hook[q]
    BY DEF TypeOK, SlotType
  <2>8. ASSUME NEW q \in Requests, hook'[q] = "parked"
        PROVE  parked' = q /\ owner' = SessionOf[q] /\ (timer' \/ preparing')
    <3>1. CASE TooLate(k, r)
      BY <3>1, <2>7, <2>8 DEF TooLate, ParkInv
    <3>2. CASE Bypass(k, r)
      BY <3>2, <2>5, <2>8 DEF Bypass, ParkInv
    <3>3. CASE PullEarlier(k, r)
      <4>1. CASE ~Preserves(k) /\ ~CanReplace(k, r)
        BY <3>3, <4>1, <2>7, <2>8 DEF PullEarlier, ParkInv
      <4>2. CASE Preserves(k) \/ CanReplace(k, r)
        <5>1. timer'
          BY <3>3 DEF PullEarlier
        <5>2. CASE k = "session"
          <6>1. hook' = Park(r) /\ parked' = r /\ owner' = SessionOf[r]
            BY <3>3, <4>2, <5>2 DEF PullEarlier, Hooks, Key, Preserves
          <6> QED
            BY <6>1, <5>1, <2>6, <2>8
        <5>3. CASE k # "session"
          BY <3>3, <4>2, <5>1, <5>3, <2>5, <2>8 DEF PullEarlier, ParkInv
        <5> QED
          BY <5>2, <5>3
      <4> QED
        BY <4>1, <4>2
    <3>4. CASE Coalesce(k, r)
      BY <3>4, <2>6, <2>7, <2>8 DEF Coalesce, ParkInv
    <3>5. CASE ArmTimer(k, r)
      BY <3>5, <2>5, <2>6, <2>8 DEF ArmTimer, Hooks, Key
    <3> QED
      BY <2>1, <3>1, <3>2, <3>3, <3>4, <3>5 DEF Schedule
  <2> QED
    BY <2>4, <2>8 DEF ParkInv
<1>2. CASE TimerFires
  BY <1>2 DEF TimerFires, Begin, Run
<1>3. ASSUME NEW d \in Reloads, StartReload(d) PROVE ParkInv'
  BY <1>3 DEF StartReload, Begin, Run
<1>4. ASSUME NEW d \in Reloads, Supersede(d) PROVE ParkInv'
  BY <1>4 DEF Supersede, RollbackFence, ReleaseFence
<1>5. ASSUME NEW d \in Deferrals, Poll(d) PROVE ParkInv'
  BY <1>5 DEF Poll, Begin, Run
<1>6. ASSUME NEW a \in Attempts, Wake(a) PROVE ParkInv'
  BY <1>6 DEF Wake, Run
<1>7. ASSUME NEW a \in Attempts, Admit(a) PROVE ParkInv'
  BY <1>7 DEF Admit, Finish, Run, Await
<1>8. ASSUME NEW a \in Attempts, CallerPrepared(a) PROVE ParkInv'
  BY <1>8 DEF CallerPrepared, Finish, Run
<1>9. ASSUME NEW a \in Attempts, TakeSlot(a) PROVE ParkInv'
  BY <1>9 DEF TakeSlot, Run, Await
<1>10. ASSUME NEW a \in Attempts, ParkedPrepared(a) PROVE ParkInv'
  BY <1>10 DEF ParkedPrepared, Run, Await, Finish
<1>11. ASSUME NEW a \in Attempts, Replaced(a) PROVE ParkInv'
  BY <1>11 DEF Replaced, Await, Run, Finish
<1>12. ASSUME NEW a \in Attempts, Emit(a) PROVE ParkInv'
  BY <1>12 DEF Emit, CoreEmit, EmitResult, CoreResult, Finish, Run, Await, ClearSlot, Drop
<1>13. ASSUME NEW a \in Attempts, Retracted(a) PROVE ParkInv'
  BY <1>13 DEF Retracted, Reject, Run
<1>14. ASSUME NEW a \in Attempts, Leave(a) PROVE ParkInv'
  BY <1>14 DEF Leave, ReleaseFence, Await
<1>15. CASE EmitDirectly
  BY <1>15 DEF EmitDirectly, CoreEmit, ClearSlot, Drop
<1>16. CASE AcceptSignal
  BY <1>16 DEF AcceptSignal, Drain, MarkHandled, OutsideHandler
<1>17. CASE AcceptIntent
  BY <1>17 DEF AcceptIntent, Drain, MarkHandled, OutsideHandler
<1>18. CASE IgnoreSignal
  BY <1>18 DEF IgnoreSignal, MarkHandled, OutsideHandler, PullEarlier, Coalesce, ArmTimer,
       NoBegin, Drop, Park, Hooks, Key
<1>19. CASE FailSignal
  BY <1>19 DEF FailSignal, MarkHandled, OutsideHandler
<1>20. CASE SignalFromOutside
  BY <1>20 DEF SignalFromOutside, Idle
<1>21. CASE NextLife
  BY <1>21 DEF NextLife, ClearSlot, Drop
<1>22. CASE Work
  BY <1>22 DEF Work
<1>23. CASE Suspend
  BY <1>23 DEF Suspend
<1>24. CASE Resume
  BY <1>24 DEF Resume
<1>25. CASE UNCHANGED vars
  BY <1>25 DEF vars
<1> QED
  BY <1>1, <1>2, <1>3, <1>4, <1>5, <1>6, <1>7, <1>8, <1>9, <1>10, <1>11, <1>12, <1>13,
       <1>14, <1>15, <1>16, <1>17, <1>18, <1>19, <1>20, <1>21, <1>22, <1>23, <1>24, <1>25
       DEF Next, Steps, Handler

-----------------------------------------------------------------------------
(* The start, and a step that parks hooks *)

\* A gateway that has just started, before anybody asked for a restart.
LEMMA RestartBegins ==
  ASSUME Init
  PROVE  RestartInv
<1>1. SlotType
  BY DEF Init, SlotType, Fates
<1>2. AttemptType
  BY RestartAssumption DEF Init, AttemptType, Stages
<1>3. GateType
  <2>1. 0 \in Nat /\ 0 \in 0..MaxEvents
    BY RestartAssumption
  <2>2. FALSE \in BOOLEAN
    OBVIOUS
  <2> QED
    BY <2>1, <2>2, Zenon DEF Init, GateType
<1>4. StageInv /\ FenceInv
  BY DEF Init, StageInv, FenceInv
<1>5. SlotInv
  BY DEF Init, SlotInv, Attempts, Deferrals
<1>6. HoldInv
  BY DEF Init, HoldInv
<1>7. ParkInv
  BY DEF Init, ParkInv
<1> QED
  BY <1>1, <1>2, <1>3, <1>4, <1>5, <1>6, <1>7 DEF RestartInv, TypeOK

\* What OtherSessionsKept says of one step: only a request of its own session, or
\* one that finds nothing parked, puts hooks into the slot.
LEMMA KeptStep ==
  ASSUME RestartInv, RestartInv', [Next]_vars
  PROVE  \A r, s \in Requests :
       /\ hook[r] = "parked" /\ SessionOf[r] # SessionOf[s]
       /\ hook[s] # "parked" /\ hook'[s] = "parked"
       => hook'[r] = "parked"
<1>0. SUFFICES ASSUME NEW q \in Requests, NEW s \in Requests,
                    hook[q] = "parked", SessionOf[q] # SessionOf[s],
                    hook[s] # "parked", hook'[s] = "parked"
             PROVE  FALSE
  OBVIOUS
<1>a. hook \in [Requests -> Fates] /\ parked = q /\ owner = SessionOf[q] /\ (timer \/ preparing)
  BY <1>0 DEF RestartInv, TypeOK, SlotType, ParkInv
<1> USE DEF slotVars, attemptVars, gateVars, envVars, Idle
<1>1. ASSUME NEW r \in Requests, Request(r) PROVE FALSE
  <2>1. PICK k \in Kinds : Schedule(k, r)
    BY <1>1 DEF Request
  <2>2. /\ owner # None /\ hook[s] # "parked" /\ Drop[s] # "parked"
        /\ [hook EXCEPT ![r] = "ended"][s] # "parked"
    BY <1>0, <1>a, RestartAssumption DEF Drop
  <2>3. hook' # Drop /\ hook' # hook /\ hook' # [hook EXCEPT ![r] = "ended"]
    BY <1>0, <2>2
  <2>4. k = "session" /\ CanReplace(k, r) /\ hook' = Park(r) /\ ~Preserves(k)
    BY <2>1, <2>3, <1>a DEF Schedule, TooLate, Bypass, PullEarlier, Coalesce, ArmTimer,
         Preserves
  <2>5. SessionOf[r] = SessionOf[q]
    BY <2>2, <2>4, <1>a DEF CanReplace
  <2>6. r # s
    BY <2>5, <1>0
  <2>7. Park(r)[s] = Drop[s]
    BY <2>6 DEF Park, Drop
  <2> QED
    BY <2>2, <2>4, <2>7, <1>0
<1>2. CASE TimerFires
  BY <1>2, <1>0 DEF TimerFires
<1>3. ASSUME NEW d \in Reloads, StartReload(d) PROVE FALSE
  BY <1>3, <1>0, <1>a DEF StartReload, Begin, Run
<1>4. ASSUME NEW d \in Reloads, Supersede(d) PROVE FALSE
  BY <1>4, <1>0, <1>a DEF Supersede, RollbackFence, ReleaseFence
<1>5. ASSUME NEW d \in Deferrals, Poll(d) PROVE FALSE
  BY <1>5, <1>0, <1>a DEF Poll, Begin, Run
<1>6. ASSUME NEW a \in Attempts, Wake(a) PROVE FALSE
  BY <1>6, <1>0, <1>a DEF Wake, Run
<1>7. ASSUME NEW a \in Attempts, Admit(a) PROVE FALSE
  BY <1>7, <1>0, <1>a DEF Admit, Finish, Run, Await
<1>8. ASSUME NEW a \in Attempts, CallerPrepared(a) PROVE FALSE
  BY <1>8, <1>0, <1>a DEF CallerPrepared, Finish, Run
<1>9. ASSUME NEW a \in Attempts, TakeSlot(a) PROVE FALSE
  BY <1>9, <1>0, <1>a DEF TakeSlot, Run, Await
<1>10. ASSUME NEW a \in Attempts, ParkedPrepared(a) PROVE FALSE
  BY <1>10, <1>0, <1>a DEF ParkedPrepared, Run, Await, Finish
<1>11. ASSUME NEW a \in Attempts, Replaced(a) PROVE FALSE
  BY <1>11, <1>0, <1>a DEF Replaced, Await, Run, Finish
<1>12. ASSUME NEW a \in Attempts, Emit(a) PROVE FALSE
  BY <1>12, <1>0, <1>a DEF Emit, CoreEmit, EmitResult, CoreResult, Finish, Run, Await,
       ClearSlot, Drop
<1>13. ASSUME NEW a \in Attempts, Retracted(a) PROVE FALSE
  BY <1>13, <1>0, <1>a DEF Retracted, Reject, Run
<1>14. ASSUME NEW a \in Attempts, Leave(a) PROVE FALSE
  BY <1>14, <1>0, <1>a DEF Leave, ReleaseFence, Await
<1>15. CASE EmitDirectly
  BY <1>15, <1>0, <1>a DEF EmitDirectly, CoreEmit, ClearSlot, Drop
<1>16. CASE AcceptSignal
  BY <1>16, <1>0, <1>a DEF AcceptSignal, Drain, MarkHandled, OutsideHandler
<1>17. CASE AcceptIntent
  BY <1>17, <1>0, <1>a DEF AcceptIntent, Drain, MarkHandled, OutsideHandler
<1>18. CASE IgnoreSignal
  BY <1>18, <1>0, <1>a DEF IgnoreSignal, MarkHandled, OutsideHandler, PullEarlier,
       Coalesce, ArmTimer, NoBegin, Drop, Park, Hooks, Key
<1>19. CASE FailSignal
  BY <1>19, <1>0, <1>a DEF FailSignal, MarkHandled, OutsideHandler
<1>20. CASE SignalFromOutside
  BY <1>20, <1>0, <1>a DEF SignalFromOutside, Idle
<1>21. CASE NextLife
  BY <1>21, <1>0, <1>a DEF NextLife, ClearSlot, Drop
<1>22. CASE Work
  BY <1>22, <1>0, <1>a DEF Work
<1>23. CASE Suspend
  BY <1>23, <1>0, <1>a DEF Suspend
<1>24. CASE Resume
  BY <1>24, <1>0, <1>a DEF Resume
<1>25. CASE UNCHANGED vars
  BY <1>25, <1>0 DEF vars
<1> QED
  BY <1>1, <1>2, <1>3, <1>4, <1>5, <1>6, <1>7, <1>8, <1>9, <1>10, <1>11, <1>12, <1>13,
       <1>14, <1>15, <1>16, <1>17, <1>18, <1>19, <1>20, <1>21, <1>22, <1>23, <1>24, <1>25
       DEF Next, Steps, Handler

-----------------------------------------------------------------------------
(* The theorems *)

\* The inductive invariant holds in every state: a restart request, its
\* deferrals and attempts, the handler of the signal and the restart itself keep
\* it, in any order.
THEOREM RestartAlways == Spec => []RestartInv
<1>1. Init => RestartInv
  BY RestartBegins
<1>2. RestartInv /\ [Next]_vars => RestartInv'
  <2> SUFFICES ASSUME RestartInv, [Next]_vars PROVE RestartInv'
    OBVIOUS
  <2>1. TypeOK /\ StageInv /\ FenceInv /\ SlotInv /\ HoldInv /\ ParkInv
    BY DEF RestartInv
  <2>2. TypeOK'
    BY <2>1, TypeStep
  <2>3. StageInv' /\ FenceInv'
    BY <2>1, StageStep, FenceStep
  <2>4. SlotInv' /\ HoldInv' /\ ParkInv'
    BY <2>1, <2>2, SlotStep, HoldStep, ParkStep
  <2> QED
    BY <2>2, <2>3, <2>4 DEF RestartInv
<1> QED
  BY <1>1, <1>2, PTL DEF Spec

\* Every variable of restart.ts keeps its type, one attempt runs at a time, and
\* an attempt that has left is in no list.
THEOREM RestartTypes == Spec => []TypeOK
<1>1. RestartInv => TypeOK
  BY DEF RestartInv
<1> QED
  BY <1>1, RestartAlways, PTL

\* Admission never stays closed by the restart-signal fence with nobody left to
\* open it: between two turns of the event loop the attempt that closed it is
\* under way, or a handler has yet to answer the signal.
THEOREM FenceKept == Spec => []FenceHasOwner
<1>1. RestartInv => FenceHasOwner
  BY DEF RestartInv, FenceInv, FenceHasOwner
<1> QED
  BY <1>1, RestartAlways, PTL

\* Requests that coalesce into a restart in preparation do not wait for nothing:
\* the slot's deferral polls or an attempt of the slot is under way, unless that
\* deferral ran out of time beside its attempt and the attempt ended without a signal.
THEOREM SlotKept == Spec => []SlotAlive
<1>1. RestartInv => SlotAlive
  <2> SUFFICES ASSUME RestartInv, preparing, ~draining PROVE Worked \/ GaveUp
    BY DEF SlotAlive
  <2>1. polls \cap Scheduled # {} \/ Committed # {} \/ overrun # {}
    BY DEF RestartInv, SlotInv
  <2>2. forced \subseteq Attempts
    BY DEF RestartInv, TypeOK, AttemptType
  <2>3. CASE Committed # {}
    BY <2>2, <2>3 DEF Worked, Committed
  <2>4. CASE overrun # {}
    <3>1. PICK d \in overrun : TRUE
      BY <2>4
    <3>2. d \in Attempts \ Reloads /\ d \notin stale
      BY RestartAssumption
         DEF RestartInv, TypeOK, SlotType, SlotInv, Attempts, Deferrals
    <3> QED
      BY <3>2 DEF Worked, GaveUp
  <2> QED
    BY <2>1, <2>3, <2>4 DEF Worked
<1> QED
  BY <1>1, RestartAlways, PTL

\* A sentinel that beforeEmit wrote, or is writing, is in the hands of an attempt
\* that will send the signal or clear the sentinel, also across a restart.
THEOREM SentinelHeld == Spec => []PreparedIsHeld
<1>1. RestartInv => PreparedIsHeld
  <2> SUFFICES ASSUME RestartInv, NEW r \in Requests, hook[r] \in {"preparing", "prepared"}
               PROVE  \E a \in Inside : r \in {held[a], prep[a]}
    BY DEF PreparedIsHeld
  <2>1. r # None
    BY RestartAssumption
  <2>2. PICK a \in Attempts : r = held[a] \/ r = prep[a]
    BY DEF RestartInv, HoldInv
  <2>3. a \in Inside
    BY <2>1, <2>2 DEF RestartInv, HoldInv, Inside, Body
  <2> QED
    BY <2>2, <2>3
<1> QED
  BY <1>1, RestartAlways, PTL

\* The request of a session never takes the place of the parked continuation of
\* another session: canReplacePendingRestartEmitHooks is asked, or no hooks come along.
THEOREM SessionsKept == Spec => OtherSessionsKept
<1>1. RestartInv /\ RestartInv' /\ [Next]_vars =>
        [\A r, s \in Requests :
           /\ hook[r] = "parked" /\ SessionOf[r] # SessionOf[s]
           /\ hook[s] # "parked" /\ hook'[s] = "parked"
           => hook'[r] = "parked"]_vars
  BY KeptStep
<1> QED
  BY <1>1, RestartAlways, PTL DEF Spec, OtherSessionsKept
==============================================================================
