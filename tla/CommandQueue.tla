---------------------------- MODULE CommandQueue ----------------------------
(***************************************************************************)
(* The in-process command queue of src/src/process/command-queue.ts: named *)
(* lanes, each a priority queue of pending calls drained under a           *)
(* concurrency limit, with caller-owned task timeouts, lane clearing, lane *)
(* resets that abandon the running generation, and waiters on the set of   *)
(* active tasks.                                                           *)
(*                                                                         *)
(* Node runs one synchronous stretch of JavaScript at a time, so an action *)
(* is one such stretch: a call into the module, or the continuation that   *)
(* runs when a task's race is decided.  The loop of drainLane/pump is      *)
(* inside that stretch, which is why the code's `draining` flag is FALSE   *)
(* in every state between two actions and is not a variable here.          *)
(*                                                                         *)
(* A call to enqueueCommandInLane is a member of Calls.  Each call is      *)
(* started at most once, and task ids are never reused, so the call itself *)
(* stands for its task id in activeTaskIds.                                *)
(***************************************************************************)
EXTENDS Integers, Sequences, FiniteSets

CONSTANTS
  Lanes,            \* lane names
  ProbeLanes,       \* the lanes isQuietProbeLane recognises
  Calls,            \* calls to enqueueCommandInLane
  Waiters,          \* calls to waitForActiveTasks
  PriorityOptions,  \* priorities the callers pass
  TimeoutOptions,   \* combinations of task-timeout options the callers pass
  Limits,           \* limits passed to setCommandLaneConcurrency
  MaxGeneration     \* bound: resets of one lane

ASSUME QueueAssumption ==
  /\ Lanes # {} /\ ProbeLanes \subseteq Lanes
  /\ IsFiniteSet(Calls)
  /\ PriorityOptions \subseteq {"foreground", "normal", "background"}
  /\ TimeoutOptions \subseteq SUBSET {"timeout", "abort", "release"}
  /\ Limits \subseteq Nat
  /\ MaxGeneration \in Nat

VARIABLES
  known,            \* lanes for which getLaneState has made a LaneState
  \* LaneState, one field each
  queue,            \* [Lanes -> Seq(Calls)]
  active,           \* activeTaskIds
  maxConcurrent,
  generation,
  \* module state
  nextQueueSequence,
  waiter,           \* activeTaskWaiters and the results they were given
  \* QueueEntry: what the call asked for
  entry,
  \* the async function that drainLane starts for an entry
  startGen,         \* taskGeneration captured at the start
  body,             \* the caller's task
  timer,            \* the timeout timer of runQueueEntryTask
  listening,        \* abort signals it listens to
  verdict,          \* which side won Promise.race
  \* the caller's side
  fired,            \* signals the caller has aborted
  promise           \* the promise enqueueCommandInLane returned

laneVars == <<known, queue, active, maxConcurrent, generation>>
taskVars == <<startGen, body, timer, listening, verdict>>
callVars == <<entry, fired, promise>>
vars == <<laneVars, nextQueueSequence, waiter, taskVars, callVars>>

Signals == {"abort", "release"}
Verdicts == {"resolved", "failed", "timeout"}
Settled == Verdicts \cup {"cleared", "refused"}

\* resolveQueuePriority
PriorityOf(option) ==
  CASE option = "foreground" -> 1
    [] option = "background" -> -1
    [] OTHER -> 0

Entry == [lane : Lanes, priority : {-1, 0, 1}, sequence : Nat,
          opts : SUBSET {"timeout", "abort", "release"}]

\* The entry of a call that has not been made: no property looks at it.
NoEntry == [lane |-> CHOOSE l \in Lanes : TRUE, priority |-> 0,
            sequence |-> 0, opts |-> {}]

AllActive(a) == UNION {a[l] : l \in Lanes}

-----------------------------------------------------------------------------
(* Ordering of a lane's queue *)

\* c is served before d: the negation of enqueueLaneEntry's findIndex test.
Outranks(e, c, d) ==
  \/ e[c].priority > e[d].priority
  \/ e[c].priority = e[d].priority /\ e[c].sequence < e[d].sequence

\* Seeded fault: priorities ignored, every entry pushed at the end.
InsertPositionAppends(e, q, c) == Len(q) + 1

\* The position enqueueLaneEntry inserts at: before the first queued entry
\* that the new one outranks, at the end when there is none.
InsertPosition(e, q, c) ==
  CHOOSE i \in 1..(Len(q) + 1) :
    /\ i <= Len(q) => Outranks(e, c, q[i])
    /\ \A j \in 1..(i - 1) : ~Outranks(e, c, q[j])

EnqueueLaneEntry(e, q, c) ==
  LET i == InsertPosition(e, q, c)
  IN [j \in 1..(Len(q) + 1) |->
        IF j < i THEN q[j] ELSE IF j = i THEN c ELSE q[j - 1]]

-----------------------------------------------------------------------------
(* drainLane and its pump *)

\* How many entries the pump loop takes from queue q with active set a.
StartCount(q, a, limit) ==
  LET room == limit - Cardinality(a)
  IN IF room <= 0 THEN 0 ELSE IF room < Len(q) THEN room ELSE Len(q)

Taken(q, a, limit) == {q[i] : i \in 1..StartCount(q, a, limit)}

Rest(q, a, limit) == SubSeq(q, StartCount(q, a, limit) + 1, Len(q))

\* Seeded fault: an abort signal that fired before the start is overlooked, and
\* the task keeps waiting for progress.
TimerAtStartMissesAbort(o, f) ==
  IF "timeout" \notin o \/ "release" \in o \cap f THEN "off" ELSE "progress"

\* How runQueueEntryTask sets up the race of an entry with options o whose
\* signals f are already aborted when it starts.
TimerAtStart(o, f) ==
  IF "timeout" \notin o \/ "release" \in o \cap f THEN "off"
  ELSE IF "abort" \in o \cap f THEN "grace" ELSE "progress"

\* A signal already aborted ends the set-up early: no listener is attached.
ListeningAtStart(o, f) ==
  IF "timeout" \notin o \/ o \cap f # {} THEN {} ELSE o \cap Signals

VerdictAtStart(o, f) ==
  IF "timeout" \in o /\ "release" \in o \cap f THEN "timeout" ELSE "none"

\* drainLane on every lane of L, given the entries e and the lanes' queues q,
\* active sets a, limits m and generations g at the moment of the call.
DrainLanes(L, e, q, a, m, g) ==
  LET started == UNION {Taken(q[l], a[l], m[l]) : l \in L}
  IN /\ queue' = [l \in Lanes |->
                    IF l \in L THEN Rest(q[l], a[l], m[l]) ELSE q[l]]
     /\ active' = [l \in Lanes |->
                    IF l \in L THEN a[l] \cup Taken(q[l], a[l], m[l]) ELSE a[l]]
     /\ maxConcurrent' = m
     /\ generation' = g
     /\ startGen' = [c \in Calls |->
          IF c \in started THEN g[e[c].lane] ELSE startGen[c]]
     /\ body' = [c \in Calls |-> IF c \in started THEN "running" ELSE body[c]]
     /\ timer' = [c \in Calls |->
          IF c \in started THEN TimerAtStart(e[c].opts, fired[c]) ELSE timer[c]]
     /\ listening' = [c \in Calls |->
          IF c \in started THEN ListeningAtStart(e[c].opts, fired[c])
                           ELSE listening[c]]
     /\ verdict' = [c \in Calls |->
          IF c \in started THEN VerdictAtStart(e[c].opts, fired[c])
                           ELSE verdict[c]]

\* notifyActiveTaskWaiters, with the active sets as they are after the step.
NotifyActiveTaskWaiters ==
  waiter' = [w \in Waiters |->
    IF waiter[w].status = "waiting" /\ waiter[w].ids \cap AllActive(active') = {}
    THEN [waiter[w] EXCEPT !.status = "drained"]
    ELSE waiter[w]]

-----------------------------------------------------------------------------
(* Calls into the queue *)

\* enqueueCommandInLane when admission is open: insert, then drain the lane.
EnqueueCommandInLane(c, l, p, o) ==
  /\ promise[c] = "none"
  /\ known' = known \cup {l}
  /\ nextQueueSequence' = nextQueueSequence + 1
  /\ entry' = [entry EXCEPT ![c] =
       [lane |-> l, priority |-> PriorityOf(p), sequence |-> nextQueueSequence,
        opts |-> o]]
  /\ promise' = [promise EXCEPT ![c] = "pending"]
  /\ DrainLanes({l}, entry', [queue EXCEPT ![l] = EnqueueLaneEntry(entry', @, c)],
                active, maxConcurrent, generation)
  /\ UNCHANGED <<waiter, fired>>

\* enqueueCommandInLane when admission is closed: GatewayDrainingError.
RefuseEnqueue(c) ==
  /\ promise[c] = "none"
  /\ promise' = [promise EXCEPT ![c] = "refused"]
  /\ UNCHANGED <<laneVars, nextQueueSequence, waiter, taskVars, entry, fired>>

\* Seeded fault: the new limit is stored but the lane is not drained.
SetConcurrencyWithoutDrain(l, n) ==
  /\ known' = known \cup {l}
  /\ maxConcurrent' = [maxConcurrent EXCEPT ![l] = n]
  /\ UNCHANGED <<queue, active, generation, nextQueueSequence, waiter, taskVars,
                 callVars>>

\* setCommandLaneConcurrency: drains unless the new limit is zero.
SetCommandLaneConcurrency(l, n) ==
  LET limit == IF l \in ProbeLanes /\ n < 1 THEN 1 ELSE n
  IN /\ known' = known \cup {l}
     /\ DrainLanes(IF limit > 0 THEN {l} ELSE {}, entry, queue, active,
                   [maxConcurrent EXCEPT ![l] = limit], generation)
     /\ UNCHANGED <<nextQueueSequence, waiter, callVars>>

\* Seeded fault: the queue is emptied but nobody is told.
ClearWithoutReject(l) ==
  /\ l \in known
  /\ queue' = [queue EXCEPT ![l] = <<>>]
  /\ UNCHANGED <<known, active, maxConcurrent, generation, nextQueueSequence,
                 waiter, taskVars, callVars>>

\* Seeded fault: what the lane is running is rejected as well.
ClearRejectsRunning(l) ==
  /\ l \in known
  /\ queue' = [queue EXCEPT ![l] = <<>>]
  /\ promise' = [c \in Calls |->
       IF c \in active[l] \/ \E i \in 1..Len(queue[l]) : queue[l][i] = c
       THEN "cleared" ELSE promise[c]]
  /\ UNCHANGED <<known, active, maxConcurrent, generation, nextQueueSequence,
                 waiter, taskVars, entry, fired>>

\* clearCommandLane: empties the queue and rejects what was in it.
ClearCommandLane(l) ==
  /\ l \in known
  /\ queue' = [queue EXCEPT ![l] = <<>>]
  /\ promise' = [c \in Calls |->
       IF \E i \in 1..Len(queue[l]) : queue[l][i] = c THEN "cleared"
                                                      ELSE promise[c]]
  /\ UNCHANGED <<known, active, maxConcurrent, generation, nextQueueSequence,
                 waiter, taskVars, entry, fired>>

\* Seeded fault: the active tasks are dropped without a new generation.
ResetWithoutGeneration(L) ==
  /\ DrainLanes(L, entry, queue,
                [l \in Lanes |-> IF l \in L THEN {} ELSE active[l]],
                maxConcurrent, generation)
  /\ NotifyActiveTaskWaiters
  /\ UNCHANGED <<known, nextQueueSequence, callVars>>

\* Seeded fault: waiters are not notified after the reset.
ResetWithoutNotify(L) ==
  /\ \A l \in L : generation[l] < MaxGeneration
  /\ DrainLanes(L, entry, queue,
                [l \in Lanes |-> IF l \in L THEN {} ELSE active[l]],
                maxConcurrent,
                [l \in Lanes |-> generation[l] + IF l \in L THEN 1 ELSE 0])
  /\ UNCHANGED <<known, nextQueueSequence, waiter, callVars>>

\* resetCommandLane on a lane, resetAllLanes on every known lane: a new
\* generation, no active task; queued entries are drained, waiters notified.
ResetLanes(L) ==
  /\ \A l \in L : generation[l] < MaxGeneration
  /\ DrainLanes(L, entry, queue,
                [l \in Lanes |-> IF l \in L THEN {} ELSE active[l]],
                maxConcurrent,
                [l \in Lanes |-> generation[l] + IF l \in L THEN 1 ELSE 0])
  /\ NotifyActiveTaskWaiters
  /\ UNCHANGED <<known, nextQueueSequence, callVars>>

ResetCommandLane(l) == l \in known /\ ResetLanes({l})

ResetAllLanes == ResetLanes(known)

\* waitForActiveTasks: kind is "forever", "timed" or "poll" (timeoutMs <= 0).
WaitForActiveTasks(w, kind) ==
  /\ waiter[w].status = "none"
  /\ LET ids == AllActive(active)
     IN waiter' = [waiter EXCEPT ![w] =
          [status |-> IF ids = {} THEN "drained"
                      ELSE IF kind = "poll" THEN "timedout" ELSE "waiting",
           ids |-> ids, timed |-> kind = "timed"]]
  /\ UNCHANGED <<laneVars, nextQueueSequence, taskVars, callVars>>

-----------------------------------------------------------------------------
(* Timers, signals and the tasks themselves *)

\* The timer of a waiter fires before its tasks are gone.
WaiterTimesOut(w) ==
  /\ waiter[w].status = "waiting"
  /\ waiter[w].timed
  /\ waiter' = [waiter EXCEPT ![w].status = "timedout"]
  /\ UNCHANGED <<laneVars, nextQueueSequence, taskVars, callVars>>

\* The caller's task settles.  It decides the race unless a timeout already did.
TaskEnds(c, outcome) ==
  /\ body[c] = "running"
  /\ body' = [body EXCEPT ![c] = "ended"]
  /\ verdict' = [verdict EXCEPT ![c] = IF @ = "none" THEN outcome ELSE @]
  /\ UNCHANGED <<laneVars, nextQueueSequence, waiter, startGen, timer,
                 listening, callVars>>

\* rejectForTimeout from the armed timer: the progress timer found no recent
\* progress, or the abort grace elapsed.
TimeoutFires(c) ==
  /\ body[c] # "none" /\ verdict[c] = "none"
  /\ timer[c] # "off"
  /\ verdict' = [verdict EXCEPT ![c] = "timeout"]
  /\ UNCHANGED <<laneVars, nextQueueSequence, waiter, startGen, body, timer,
                 listening, callVars>>

\* The caller aborts one of its signals: onAbort swaps the progress timer for
\* the abort grace, onRelease rejects at once.
FireSignal(c, s) ==
  /\ s \in UNION TimeoutOptions
  /\ s \notin fired[c]
  /\ fired' = [fired EXCEPT ![c] = @ \cup {s}]
  /\ LET heard == s \in listening[c] /\ verdict[c] = "none"
     IN /\ listening' = [listening EXCEPT ![c] = IF heard THEN @ \ {s} ELSE @]
        /\ timer' = [timer EXCEPT ![c] =
                       IF heard /\ s = "abort" THEN "grace" ELSE @]
        /\ verdict' = [verdict EXCEPT ![c] =
                         IF heard /\ s = "release" THEN "timeout" ELSE @]
  /\ UNCHANGED <<laneVars, nextQueueSequence, waiter, startGen, body, entry,
                 promise>>

\* Seeded fault: a completion of an earlier generation returns before it
\* settles the caller's promise.
CompleteTaskDropsStale(c) ==
  LET l == entry[c].lane
  IN /\ promise[c] = "pending" /\ verdict[c] # "none"
     /\ startGen[c] = generation[l]
     /\ promise' = [promise EXCEPT ![c] = verdict[c]]
     /\ DrainLanes({l}, entry, queue, [active EXCEPT ![l] = @ \ {c}],
                   maxConcurrent, generation)
     /\ NotifyActiveTaskWaiters
     /\ UNCHANGED <<known, entry, fired, nextQueueSequence>>

\* The continuation after runQueueEntryTask: completeTask, and when the
\* generation is still the lane's, notify and pump; then settle the promise.
CompleteTask(c) ==
  LET l == entry[c].lane
      current == startGen[c] = generation[l]
  IN /\ promise[c] = "pending"
     /\ verdict[c] # "none"
     /\ promise' = [promise EXCEPT ![c] = verdict[c]]
     /\ UNCHANGED <<known, entry, fired, nextQueueSequence>>
     /\ \/ /\ current
           /\ DrainLanes({l}, entry, queue, [active EXCEPT ![l] = @ \ {c}],
                         maxConcurrent, generation)
           /\ NotifyActiveTaskWaiters
        \/ /\ ~current
           /\ UNCHANGED <<queue, active, maxConcurrent, generation, taskVars,
                          waiter>>

-----------------------------------------------------------------------------
Init ==
  /\ known = {}
  /\ queue = [l \in Lanes |-> <<>>]
  /\ active = [l \in Lanes |-> {}]
  /\ maxConcurrent = [l \in Lanes |-> 1]
  /\ generation = [l \in Lanes |-> 0]
  /\ nextQueueSequence = 1
  /\ waiter = [w \in Waiters |-> [status |-> "none", ids |-> {}, timed |-> FALSE]]
  /\ entry = [c \in Calls |-> NoEntry]
  /\ startGen = [c \in Calls |-> 0]
  /\ body = [c \in Calls |-> "none"]
  /\ timer = [c \in Calls |-> "off"]
  /\ listening = [c \in Calls |-> {}]
  /\ verdict = [c \in Calls |-> "none"]
  /\ fired = [c \in Calls |-> {}]
  /\ promise = [c \in Calls |-> "none"]

Next ==
  \/ \E c \in Calls, l \in Lanes, p \in PriorityOptions, o \in TimeoutOptions :
       EnqueueCommandInLane(c, l, p, o)
  \/ \E c \in Calls : RefuseEnqueue(c)
  \/ \E l \in Lanes, n \in Limits : SetCommandLaneConcurrency(l, n)
  \/ \E l \in Lanes : ClearCommandLane(l)
  \/ \E l \in Lanes : ResetCommandLane(l)
  \/ ResetAllLanes
  \/ \E w \in Waiters, kind \in {"forever", "timed", "poll"} :
       WaitForActiveTasks(w, kind)
  \/ \E w \in Waiters : WaiterTimesOut(w)
  \/ \E c \in Calls, outcome \in {"resolved", "failed"} : TaskEnds(c, outcome)
  \/ \E c \in Calls : TimeoutFires(c)
  \/ \E c \in Calls, s \in Signals : FireSignal(c, s)
  \/ \E c \in Calls : CompleteTask(c)

Spec == Init /\ [][Next]_vars

\* The event loop: continuations and due timers run.  Nothing is assumed of
\* the callers' tasks.
EventLoopFairness ==
  /\ \A c \in Calls : WF_vars(CompleteTask(c))
  /\ \A c \in Calls : WF_vars(timer[c] = "grace" /\ TimeoutFires(c))

\* The callers' tasks end, in whatever way.
TasksEnd == \A c \in Calls : WF_vars(\E o \in {"resolved", "failed"} : TaskEnds(c, o))

LoopSpec == Spec /\ EventLoopFairness

-----------------------------------------------------------------------------
(* Properties *)

Started(c) == body[c] # "none"

Queued(c) == \E i \in 1..Len(queue[entry[c].lane]) : queue[entry[c].lane][i] = c

\* The variables have the shapes of LaneState, QueueEntry and ActiveTaskWaiter.
TypeOK ==
  /\ known \subseteq Lanes
  /\ queue \in [Lanes -> Seq(Calls)]
  /\ active \in [Lanes -> SUBSET Calls]
  /\ maxConcurrent \in [Lanes -> Nat]
  /\ generation \in [Lanes -> Nat]
  /\ nextQueueSequence \in Nat
  /\ waiter \in [Waiters -> [status : {"none", "waiting", "drained", "timedout"},
                             ids : SUBSET Calls, timed : BOOLEAN]]
  /\ entry \in [Calls -> Entry]
  /\ startGen \in [Calls -> Nat]
  /\ body \in [Calls -> {"none", "running", "ended"}]
  /\ timer \in [Calls -> {"off", "progress", "grace"}]
  /\ listening \in [Calls -> SUBSET Signals]
  /\ verdict \in [Calls -> Verdicts \cup {"none"}]
  /\ fired \in [Calls -> SUBSET Signals]
  /\ promise \in [Calls -> Settled \cup {"none", "pending"}]

\* A lane's activeTaskIds are exactly the started, unsettled calls of its
\* current generation: no completion leaks a slot, no reset leaves one behind,
\* and a stale completion never frees a slot of the new generation.
ActiveIsCurrent ==
  \A l \in Lanes :
    active[l] = {c \in Calls : /\ Started(c) /\ promise[c] = "pending"
                               /\ entry[c].lane = l
                               /\ startGen[c] = generation[l]}

\* Work conservation: no call waits in a lane that has a free slot, whatever
\* interleaving of completions, resets and limit changes came before.
NoIdleLane ==
  \A l \in Lanes :
    queue[l] # <<>> => Cardinality(active[l]) >= maxConcurrent[l]

\* A call that entered the queue and has no answer yet is in its lane's queue,
\* once, or has been started, and never both: clears, resets and completions
\* neither lose nor duplicate it.
NoLostCall ==
  \A c \in Calls :
    promise[c] = "pending" =>
      /\ Started(c) # Queued(c)
      /\ \A l \in Lanes : \A i, j \in 1..Len(queue[l]) :
           queue[l][i] = c /\ queue[l][j] = c => i = j /\ l = entry[c].lane

\* waitForActiveTasks does not miss the last completion: a waiter still
\* waiting has one of the tasks it captured still active, and one told
\* `drained` has none.
WaiterNeverStranded ==
  \A w \in Waiters :
    /\ waiter[w].status = "waiting" => waiter[w].ids \cap AllActive(active) # {}
    /\ waiter[w].status = "drained" => waiter[w].ids \cap AllActive(active) = {}

\* A step that starts a task leaves its lane within maxConcurrent; only a
\* lowered limit may leave a lane over it.
LimitStep ==
  \A l \in Lanes :
    active'[l] \ active[l] # {} => Cardinality(active'[l]) <= maxConcurrent'[l]

\* When a call starts, nothing left in its lane's queue outranks it.
OrderStep ==
  \A c \in Calls :
    ~Started(c) /\ Started(c)' =>
      LET q == queue'[entry'[c].lane]
      IN \A i \in 1..Len(q) : ~Outranks(entry', q[i], c)

\* A call starts in its turn: the pump serves by priority and then in the order
\* of the calls, and never beyond the limit, also when the limit was lowered
\* under running tasks and raised again.
StartsInTurn == [][LimitStep /\ OrderStep]_vars

\* Every call that entered the queue is answered when tasks end and no lane's
\* limit stays at zero, across resets that abandon its generation.
EverySettles ==
  TasksEnd => \A c \in Calls : promise[c] = "pending" ~> promise[c] \in Settled

\* A timed call whose abort signal fired is answered even when its task never
\* ends: the abort grace releases the lane.
AbortedIsReleased ==
  \A c \in Calls :
    (/\ Started(c) /\ {"timeout", "abort"} \subseteq entry[c].opts
     /\ "abort" \in fired[c]) ~> promise[c] \in Settled

\* Where a call stands for its caller.
LifeOf(c) ==
  CASE promise[c] = "none" -> "idle"
    [] promise[c] = "pending" /\ ~Started(c) -> "waiting"
    [] promise[c] = "pending" /\ Started(c) -> "running"
    [] promise[c] \in Verdicts -> "answered"
    [] promise[c] \in {"cleared", "refused"} -> "rejected"

Promise == INSTANCE CallPromise WITH life <- [c \in Calls |-> LifeOf(c)]

\* The queue implements CallPromise: across clears, resets, late completions and
\* timeouts a call runs at most once, is answered once, after it ran, and is
\* turned away only if it never ran.
KeepsPromise == Promise!Spec
=============================================================================
