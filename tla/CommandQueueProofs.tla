------------------------- MODULE CommandQueueProofs -------------------------
(***************************************************************************)
(* Theorems about CommandQueue, for every set of lanes, calls and waiters: *)
(* types, exact bookkeeping and the promise to every call first, then what *)
(* the pump takes, how many tasks a lane then has, and in which order they *)
(* are served.                                                             *)
(***************************************************************************)
EXTENDS CommandQueue, FiniteSetTheorems, SequenceTheorems, FunctionTheorems,
        WellFoundedInduction, NaturalsInduction, TLAPS

-----------------------------------------------------------------------------
(* The operators *)

\* The number of active tasks of a lane is a natural number.
LEMMA ActiveCount ==
  ASSUME NEW a \in SUBSET Calls
  PROVE  IsFiniteSet(a) /\ Cardinality(a) \in Nat
  BY QueueAssumption, FS_Subset, FS_CardinalityType

\* The pump loop takes a prefix of the queue.
LEMMA StartCountType ==
  ASSUME NEW q \in Seq(Calls), NEW a \in SUBSET Calls, NEW limit \in Nat
  PROVE  StartCount(q, a, limit) \in 0..Len(q)
  BY ActiveCount, LenProperties DEF StartCount

\* What the pump loop takes are calls, and what it leaves is a queue.
LEMMA TakenRestType ==
  ASSUME NEW q \in Seq(Calls), NEW a \in SUBSET Calls, NEW limit \in Nat
  PROVE  /\ Taken(q, a, limit) \in SUBSET Calls
         /\ Rest(q, a, limit) \in Seq(Calls)
<1>1. StartCount(q, a, limit) \in 0..Len(q)
  BY StartCountType
<1>2. \A i \in 1..Len(q) : q[i] \in Calls
  BY ElementOfSeq
<1>3. Len(q) \in Nat
  BY LenProperties
<1>4. Taken(q, a, limit) \in SUBSET Calls
  BY <1>1, <1>2, <1>3 DEF Taken
<1>5. \A i \in (StartCount(q, a, limit) + 1)..Len(q) : q[i] \in Calls
  BY <1>1, <1>2, <1>3
<1>6. Rest(q, a, limit) \in Seq(Calls)
  BY <1>1, <1>3, <1>5, SubSeqProperties DEF Rest
<1> QED
  BY <1>4, <1>6

\* The code's findIndex has one answer: the first queued entry the new one
\* outranks, or the end of the queue.
LEMMA InsertPositionExists ==
  ASSUME NEW e, NEW q \in Seq(Calls), NEW c
  PROVE  LET i == InsertPosition(e, q, c)
         IN /\ i \in 1..(Len(q) + 1)
            /\ i <= Len(q) => Outranks(e, c, q[i])
            /\ \A j \in 1..(i - 1) : ~Outranks(e, c, q[j])
<1> DEFINE n == Len(q)
           T == {i \in Nat : i \in 1..(n + 1) /\ (i <= n => Outranks(e, c, q[i]))}
<1>1. n \in Nat
  BY LenProperties
<1>2. n + 1 \in T
  BY <1>1
<1> DEFINE R == {ss \in Nat \X Nat : ss[1] < ss[2]}
<1>r. IsWellFoundedOn(R, Nat)
  BY NatLessThanWellFounded DEF OpToRel
<1> HIDE DEF R
<1>3. PICK i \in T : \A y \in T : ~(<<y, i>> \in R)
  BY <1>2, <1>r, WFMin
<1>4. ASSUME NEW y \in T PROVE i <= y
  <2>1. i \in Nat /\ y \in Nat /\ <<y, i>> \notin R
    BY <1>3
  <2>2. ~(y < i)
    BY <2>1 DEF R
  <2> QED
    BY <2>1, <2>2
<1>5. \A j \in 1..(i - 1) : ~Outranks(e, c, q[j])
  BY <1>1, <1>4
<1> QED
  BY <1>1, <1>5 DEF InsertPosition

\* enqueueLaneEntry splices the call into the queue and keeps the rest.
LEMMA EnqueueLaneEntryType ==
  ASSUME NEW e, NEW q \in Seq(Calls), NEW c \in Calls
  PROVE  EnqueueLaneEntry(e, q, c) \in Seq(Calls)
<1> DEFINE i == InsertPosition(e, q, c)
           f == [j \in 1..(Len(q) + 1) |->
                   IF j < i THEN q[j] ELSE IF j = i THEN c ELSE q[j - 1]]
<1>1. Len(q) \in Nat /\ i \in 1..(Len(q) + 1)
  BY LenProperties, InsertPositionExists
<1>2. \A j \in 1..Len(q) : q[j] \in Calls
  BY ElementOfSeq
<1> HIDE DEF i
<1>3. f \in [1..(Len(q) + 1) -> Calls]
  BY <1>1, <1>2
<1>4. f \in Seq(Calls)
  BY <1>1, <1>3
<1> QED
  BY <1>4 DEF EnqueueLaneEntry, i

-----------------------------------------------------------------------------
(* Type correctness *)

\* drainLane keeps the types, whatever lanes it drains and whatever queues,
\* active sets, limits and generations the caller hands it.
LEMMA DrainLanesType ==
  ASSUME TypeOK, NEW L \in SUBSET Lanes, NEW e \in [Calls -> Entry],
         NEW q \in [Lanes -> Seq(Calls)], NEW a \in [Lanes -> SUBSET Calls],
         NEW m \in [Lanes -> Nat], NEW g \in [Lanes -> Nat],
         DrainLanes(L, e, q, a, m, g)
  PROVE  /\ queue' \in [Lanes -> Seq(Calls)]
         /\ active' \in [Lanes -> SUBSET Calls]
         /\ maxConcurrent' \in [Lanes -> Nat]
         /\ generation' \in [Lanes -> Nat]
         /\ startGen' \in [Calls -> Nat]
         /\ body' \in [Calls -> {"none", "running", "ended"}]
         /\ timer' \in [Calls -> {"off", "progress", "grace"}]
         /\ listening' \in [Calls -> SUBSET Signals]
         /\ verdict' \in [Calls -> Verdicts \cup {"none"}]
<1>1. \A l \in Lanes : /\ Taken(q[l], a[l], m[l]) \in SUBSET Calls
                       /\ Rest(q[l], a[l], m[l]) \in Seq(Calls)
  BY TakenRestType
<1>2. queue' \in [Lanes -> Seq(Calls)]
  BY <1>1 DEF DrainLanes
<1>3. active' \in [Lanes -> SUBSET Calls]
  BY <1>1 DEF DrainLanes
<1>4. maxConcurrent' \in [Lanes -> Nat] /\ generation' \in [Lanes -> Nat]
  BY DEF DrainLanes
<1>5. \A c \in Calls : e[c].lane \in Lanes
  BY DEF Entry
<1>6. startGen' \in [Calls -> Nat]
  BY <1>5 DEF DrainLanes, TypeOK
<1>7. body' \in [Calls -> {"none", "running", "ended"}]
  BY DEF DrainLanes, TypeOK
<1>8. timer' \in [Calls -> {"off", "progress", "grace"}]
  BY DEF DrainLanes, TypeOK, TimerAtStart
<1>9. listening' \in [Calls -> SUBSET Signals]
  BY DEF DrainLanes, TypeOK, ListeningAtStart
<1>10. verdict' \in [Calls -> Verdicts \cup {"none"}]
  BY DEF DrainLanes, TypeOK, VerdictAtStart, Verdicts
<1> QED
  BY <1>2, <1>3, <1>4, <1>6, <1>7, <1>8, <1>9, <1>10

\* notifyActiveTaskWaiters keeps the type of the waiters.
LEMMA NotifyType ==
  ASSUME TypeOK, NotifyActiveTaskWaiters
  PROVE  waiter' \in [Waiters -> [status : {"none", "waiting", "drained", "timedout"},
                                  ids : SUBSET Calls, timed : BOOLEAN]]
<1> DEFINE W == [status : {"none", "waiting", "drained", "timedout"},
                 ids : SUBSET Calls, timed : BOOLEAN]
<1>1. waiter \in [Waiters -> W]
  BY DEF TypeOK
<1>2. \A x \in W : [x EXCEPT !.status = "drained"] \in W
  OBVIOUS
<1> HIDE DEF W
<1>3. waiter' \in [Waiters -> W]
  BY <1>1, <1>2 DEF NotifyActiveTaskWaiters
<1> QED
  BY <1>3 DEF W

\* The active tasks of all lanes are calls.
LEMMA AllActiveType ==
  ASSUME NEW a \in [Lanes -> SUBSET Calls]
  PROVE  AllActive(a) \in SUBSET Calls
  BY DEF AllActive

\* Every step of the queue keeps the type invariant.
LEMMA TypeStep ==
  ASSUME TypeOK, [Next]_vars
  PROVE  TypeOK'
<1> USE QueueAssumption
<1>1. ASSUME NEW c \in Calls, NEW l \in Lanes, NEW p \in PriorityOptions,
             NEW o \in TimeoutOptions, EnqueueCommandInLane(c, l, p, o)
      PROVE  TypeOK'
  <2>1. entry' \in [Calls -> Entry]
    <3>1. PriorityOf(p) \in {-1, 0, 1}
      BY DEF PriorityOf
    <3> QED
      BY <1>1, <3>1 DEF EnqueueCommandInLane, TypeOK, Entry
  <2>2. [queue EXCEPT ![l] = EnqueueLaneEntry(entry', @, c)] \in [Lanes -> Seq(Calls)]
    BY EnqueueLaneEntryType DEF TypeOK
  <2>3. DrainLanes({l}, entry', [queue EXCEPT ![l] = EnqueueLaneEntry(entry', @, c)],
                   active, maxConcurrent, generation)
    BY <1>1 DEF EnqueueCommandInLane
  <2>4. active \in [Lanes -> SUBSET Calls] /\ maxConcurrent \in [Lanes -> Nat]
          /\ generation \in [Lanes -> Nat]
    BY DEF TypeOK
  <2>5. /\ known' \subseteq Lanes
        /\ nextQueueSequence' \in Nat
        /\ waiter' = waiter /\ fired' = fired
        /\ promise' \in [Calls -> Settled \cup {"none", "pending"}]
    BY <1>1 DEF EnqueueCommandInLane, TypeOK
  <2>6. /\ queue' \in [Lanes -> Seq(Calls)]
        /\ active' \in [Lanes -> SUBSET Calls]
        /\ maxConcurrent' \in [Lanes -> Nat]
        /\ generation' \in [Lanes -> Nat]
        /\ startGen' \in [Calls -> Nat]
        /\ body' \in [Calls -> {"none", "running", "ended"}]
        /\ timer' \in [Calls -> {"off", "progress", "grace"}]
        /\ listening' \in [Calls -> SUBSET Signals]
        /\ verdict' \in [Calls -> Verdicts \cup {"none"}]
    <3> HIDE QueueAssumption
    <3> QED
      BY <2>1, <2>2, <2>3, <2>4, DrainLanesType
  <2> QED
    BY <2>1, <2>5, <2>6 DEF TypeOK
<1>2. ASSUME NEW c \in Calls, RefuseEnqueue(c) PROVE TypeOK'
  BY <1>2 DEF RefuseEnqueue, TypeOK, laneVars, taskVars, Settled
<1>3. ASSUME NEW l \in Lanes, NEW n \in Limits, SetCommandLaneConcurrency(l, n)
      PROVE  TypeOK'
  <2> DEFINE limit == IF l \in ProbeLanes /\ n < 1 THEN 1 ELSE n
             m == [maxConcurrent EXCEPT ![l] = limit]
             L == IF limit > 0 THEN {l} ELSE {}
  <2>1. m \in [Lanes -> Nat] /\ L \in SUBSET Lanes
    BY DEF TypeOK
  <2>2. DrainLanes(L, entry, queue, active, m, generation)
    BY <1>3 DEF SetCommandLaneConcurrency
  <2>3. /\ known' \subseteq Lanes
        /\ UNCHANGED <<nextQueueSequence, waiter, entry, fired, promise>>
    BY <1>3 DEF SetCommandLaneConcurrency, TypeOK, callVars
  <2> HIDE DEF m, L
  <2> QED
    BY <2>1, <2>2, <2>3, DrainLanesType DEF TypeOK
<1>4. ASSUME NEW l \in Lanes, ClearCommandLane(l) PROVE TypeOK'
  BY <1>4 DEF ClearCommandLane, TypeOK, taskVars, Settled
<1>5. ASSUME NEW L \in SUBSET Lanes, ResetLanes(L) PROVE TypeOK'
  <2> DEFINE a == [l \in Lanes |-> IF l \in L THEN {} ELSE active[l]]
             g == [l \in Lanes |-> generation[l] + IF l \in L THEN 1 ELSE 0]
  <2>1. a \in [Lanes -> SUBSET Calls] /\ g \in [Lanes -> Nat]
    BY DEF TypeOK
  <2>2. DrainLanes(L, entry, queue, a, maxConcurrent, g)
    BY <1>5 DEF ResetLanes
  <2>3. /\ NotifyActiveTaskWaiters
        /\ UNCHANGED <<known, nextQueueSequence, entry, fired, promise>>
    BY <1>5 DEF ResetLanes, callVars
  <2> HIDE DEF a, g
  <2> QED
    BY <2>1, <2>2, <2>3, DrainLanesType, NotifyType DEF TypeOK
<1>6. ASSUME NEW w \in Waiters, NEW kind, WaitForActiveTasks(w, kind)
      PROVE  TypeOK'
  <2>1. AllActive(active) \in SUBSET Calls
    BY AllActiveType DEF TypeOK
  <2> DEFINE W == [status : {"none", "waiting", "drained", "timedout"},
                   ids : SUBSET Calls, timed : BOOLEAN]
             x == [status |-> IF AllActive(active) = {} THEN "drained"
                              ELSE IF kind = "poll" THEN "timedout" ELSE "waiting",
                   ids |-> AllActive(active), timed |-> kind = "timed"]
  <2>2. (kind = "timed") \in BOOLEAN
    OBVIOUS
  <2>3. x \in W
    BY <2>1, <2>2
  <2>4. waiter' = [waiter EXCEPT ![w] = x]
    BY <1>6 DEF WaitForActiveTasks
  <2>5. UNCHANGED <<laneVars, nextQueueSequence, taskVars, callVars>>
    BY <1>6 DEF WaitForActiveTasks
  <2> HIDE DEF x
  <2>6. waiter' \in [Waiters -> W]
    BY <2>3, <2>4 DEF TypeOK
  <2> QED
    BY <2>5, <2>6 DEF TypeOK, laneVars, taskVars, callVars
<1>7. ASSUME NEW w \in Waiters, WaiterTimesOut(w) PROVE TypeOK'
  <2> DEFINE W == [status : {"none", "waiting", "drained", "timedout"},
                   ids : SUBSET Calls, timed : BOOLEAN]
  <2>1. \A x \in W : [x EXCEPT !.status = "timedout"] \in W
    OBVIOUS
  <2>2. waiter' \in [Waiters -> W]
    BY <1>7, <2>1 DEF WaiterTimesOut, TypeOK
  <2> QED
    BY <1>7, <2>2 DEF WaiterTimesOut, TypeOK, laneVars, taskVars, callVars
<1>8. ASSUME NEW c \in Calls, NEW o \in {"resolved", "failed"}, TaskEnds(c, o)
      PROVE  TypeOK'
  BY <1>8 DEF TaskEnds, TypeOK, laneVars, callVars, Verdicts
<1>9. ASSUME NEW c \in Calls, TimeoutFires(c) PROVE TypeOK'
  BY <1>9 DEF TimeoutFires, TypeOK, laneVars, callVars, Verdicts
<1>10. ASSUME NEW c \in Calls, NEW s \in Signals, FireSignal(c, s) PROVE TypeOK'
  BY <1>10 DEF FireSignal, TypeOK, laneVars, Verdicts
<1>11. ASSUME NEW c \in Calls, CompleteTask(c) PROVE TypeOK'
  <2>1. promise' \in [Calls -> Settled \cup {"none", "pending"}]
    BY <1>11 DEF CompleteTask, TypeOK, Settled
  <2>2. UNCHANGED <<known, entry, fired, nextQueueSequence>>
    BY <1>11 DEF CompleteTask
  <2> DEFINE l == entry[c].lane
             a == [active EXCEPT ![l] = @ \ {c}]
  <2>3. CASE /\ DrainLanes({l}, entry, queue, a, maxConcurrent, generation)
             /\ NotifyActiveTaskWaiters
    <3>1. l \in Lanes
      BY DEF TypeOK, Entry
    <3>2. {l} \in SUBSET Lanes /\ a \in [Lanes -> SUBSET Calls]
      BY <3>1 DEF TypeOK
    <3> HIDE DEF a, l
    <3> QED
      BY <2>1, <2>2, <2>3, <3>2, DrainLanesType, NotifyType DEF TypeOK
  <2>4. CASE UNCHANGED <<queue, active, maxConcurrent, generation, taskVars, waiter>>
    BY <2>1, <2>2, <2>4 DEF TypeOK, taskVars
  <2> QED
    BY <1>11, <2>3, <2>4 DEF CompleteTask
<1>12. CASE UNCHANGED vars
  BY <1>12 DEF TypeOK, vars, laneVars, taskVars, callVars
<1>13. ASSUME NEW l \in Lanes, ResetCommandLane(l) PROVE TypeOK'
  BY <1>5, <1>13 DEF ResetCommandLane
<1>14. ASSUME ResetAllLanes PROVE TypeOK'
  <2>1. known \in SUBSET Lanes
    BY DEF TypeOK
  <2> QED
    BY <1>5, <1>14, <2>1 DEF ResetAllLanes
<1> QED
  BY <1>1, <1>2, <1>3, <1>4, <1>6, <1>7, <1>8, <1>9, <1>10, <1>11, <1>12,
     <1>13, <1>14 DEF Next

\* The initial state has the types of LaneState and QueueEntry.
LEMMA TypeInit ==
  Init => TypeOK
<1>1. NoEntry \in Entry
  BY QueueAssumption DEF NoEntry, Entry
<1> QED
  BY <1>1, EmptySeq DEF Init, TypeOK

\* The command queue is well typed: every lane, entry, task and waiter keeps
\* the shape command-queue.ts gives it, in every run and for every number of
\* lanes, calls and waiters.
THEOREM QueueTypeCorrect ==
  Spec => []TypeOK
<1>1. Init => TypeOK
  BY TypeInit
<1>2. TypeOK /\ [Next]_vars => TypeOK'
  BY TypeStep
<1> QED
  BY <1>1, <1>2, PTL DEF Spec

-----------------------------------------------------------------------------
(* The inductive invariant: calls, queues and active sets agree *)

\* What is queued in a lane is an unanswered call of that lane that has not
\* been started, once.
QueueOK(q, e, b, p) ==
  /\ \A l \in Lanes : \A i \in 1..Len(q[l]) :
       p[q[l][i]] = "pending" /\ b[q[l][i]] = "none" /\ e[q[l][i]].lane = l
  /\ \A l \in Lanes : \A i, j \in 1..Len(q[l]) : q[l][i] = q[l][j] => i = j

\* An unanswered call has been started or is queued.
PendingOK(q, e, b, p) ==
  \A c \in Calls : p[c] = "pending" =>
    b[c] # "none" \/ \E i \in 1..Len(q[e[c].lane]) : q[e[c].lane][i] = c

\* ActiveIsCurrent, of any state of its parts.
ActiveOK(a, e, b, p, s, g) ==
  \A l \in Lanes :
    a[l] = {c \in Calls : b[c] # "none" /\ p[c] = "pending" /\ e[c].lane = l
                          /\ s[c] = g[l]}

\* A call that was not made, cleared or refused has no body, verdicts and
\* listeners need a body, and no body was started in a generation to come.
CallOK(e, b, p, s, g, v, n) ==
  /\ \A c \in Calls : p[c] \in {"none", "cleared", "refused"} => b[c] = "none"
  /\ \A c \in Calls : v[c] # "none" \/ n[c] # {} => b[c] # "none"
  /\ \A c \in Calls : b[c] # "none" => s[c] <= g[e[c].lane]

QueueInv ==
  /\ QueueOK(queue, entry, body, promise)
  /\ PendingOK(queue, entry, body, promise)
  /\ ActiveOK(active, entry, body, promise, startGen, generation)
  /\ CallOK(entry, body, promise, startGen, generation, verdict, listening)

\* The pump loop splits a queue at StartCount.
LEMMA Split ==
  ASSUME NEW q \in Seq(Calls), NEW a \in SUBSET Calls, NEW limit \in Nat
  PROVE  /\ StartCount(q, a, limit) \in Nat /\ Len(q) \in Nat
         /\ StartCount(q, a, limit) <= Len(q)
         /\ Len(Rest(q, a, limit)) = Len(q) - StartCount(q, a, limit)
         /\ \A i \in 1..(Len(q) - StartCount(q, a, limit)) :
              Rest(q, a, limit)[i] = q[StartCount(q, a, limit) + i]
         /\ \A c : c \in Taken(q, a, limit) <=>
                    \E i \in 1..StartCount(q, a, limit) : q[i] = c
         /\ Taken(q, a, limit) \subseteq Calls
         /\ \A i \in 1..Len(q) : q[i] \in Calls
<1>1. StartCount(q, a, limit) \in 0..Len(q)
  BY StartCountType
<1>2. Len(q) \in Nat
  BY LenProperties
<1>3. /\ Len(Rest(q, a, limit)) = Len(q) - StartCount(q, a, limit)
      /\ \A i \in 1..(Len(q) - StartCount(q, a, limit)) :
           Rest(q, a, limit)[i] = q[StartCount(q, a, limit) + i]
  BY <1>1, <1>2 DEF Rest
<1>4. \A c : c \in Taken(q, a, limit) <=>
            \E i \in 1..StartCount(q, a, limit) : q[i] = c
  BY DEF Taken
<1>5. \A i \in 1..Len(q) : q[i] \in Calls
  BY ElementOfSeq
<1> QED
  BY <1>1, <1>2, <1>3, <1>4, <1>5, TakenRestType

\* What a drain from active sets a leaves: parts that agree with the entries e,
\* promises p and generations g, and calls that were started before untouched.
Drained(e, a, g, p) ==
  /\ QueueOK(queue', e, body', p)
  /\ PendingOK(queue', e, body', p)
  /\ ActiveOK(active', e, body', p, startGen', g)
  /\ generation' = g
  /\ \A c \in Calls : body[c] # "none" =>
       body'[c] = body[c] /\ startGen'[c] = startGen[c] /\ verdict'[c] = verdict[c]
  /\ \A c \in Calls : body[c] = "none" /\ body'[c] # "none" =>
       p[c] = "pending" /\ startGen'[c] = g[e[c].lane]
  /\ \A c \in Calls : body'[c] = "none" =>
       verdict'[c] = verdict[c] /\ listening'[c] = listening[c]
  /\ \A l \in Lanes : a[l] \subseteq active'[l]
  /\ \A l \in Lanes : \A c \in active'[l] \ a[l] : body[c] = "none"

\* What drainLane does to calls, queues and active sets that agree.
LEMMA DrainKeeps ==
  ASSUME TypeOK, NEW L \in SUBSET Lanes, NEW e \in [Calls -> Entry],
         NEW q \in [Lanes -> Seq(Calls)], NEW a \in [Lanes -> SUBSET Calls],
         NEW m \in [Lanes -> Nat], NEW g \in [Lanes -> Nat], NEW p,
         QueueOK(q, e, body, p), PendingOK(q, e, body, p),
         ActiveOK(a, e, body, p, startGen, g),
         DrainLanes(L, e, q, a, m, g)
  PROVE  Drained(e, a, g, p)
<1> DEFINE T == [l \in Lanes |-> Taken(q[l], a[l], m[l])]
           N == [l \in Lanes |-> StartCount(q[l], a[l], m[l])]
           R == [l \in Lanes |-> Rest(q[l], a[l], m[l])]
           started == UNION {Taken(q[l], a[l], m[l]) : l \in L}
<1>1. \A l \in Lanes :
        /\ N[l] \in Nat /\ N[l] <= Len(q[l]) /\ Len(q[l]) \in Nat
        /\ Len(R[l]) = Len(q[l]) - N[l]
        /\ \A i \in 1..(Len(q[l]) - N[l]) : R[l][i] = q[l][N[l] + i]
        /\ \A c : c \in T[l] <=> \E i \in 1..N[l] : q[l][i] = c
        /\ T[l] \subseteq Calls
        /\ \A i \in 1..Len(q[l]) : q[l][i] \in Calls
  <2> TAKE l \in Lanes
  <2>1. q[l] \in Seq(Calls) /\ a[l] \in SUBSET Calls /\ m[l] \in Nat
    OBVIOUS
  <2>2. /\ T[l] = Taken(q[l], a[l], m[l]) /\ N[l] = StartCount(q[l], a[l], m[l])
        /\ R[l] = Rest(q[l], a[l], m[l])
    OBVIOUS
  <2> HIDE DEF T, N, R
  <2> DEFINE Q == q[l]
             A == a[l]
             M == m[l]
  <2>3. Q \in Seq(Calls) /\ A \in SUBSET Calls /\ M \in Nat
    BY <2>1
  <2> HIDE DEF Q, A, M
  <2>4. /\ StartCount(Q, A, M) \in Nat /\ Len(Q) \in Nat
        /\ StartCount(Q, A, M) <= Len(Q)
        /\ Len(Rest(Q, A, M)) = Len(Q) - StartCount(Q, A, M)
        /\ \A i \in 1..(Len(Q) - StartCount(Q, A, M)) :
             Rest(Q, A, M)[i] = Q[StartCount(Q, A, M) + i]
        /\ \A c : c \in Taken(Q, A, M) <=> \E i \in 1..StartCount(Q, A, M) : Q[i] = c
        /\ Taken(Q, A, M) \subseteq Calls
        /\ \A i \in 1..Len(Q) : Q[i] \in Calls
    BY <2>3, Split, Zenon
  <2> QED
    BY <2>2, <2>4, Zenon DEF Q, A, M
<1>2. \A c : c \in started <=> \E l \in L : c \in T[l]
  OBVIOUS
<1>3. /\ queue' = [l \in Lanes |-> IF l \in L THEN R[l] ELSE q[l]]
      /\ active' = [l \in Lanes |-> IF l \in L THEN a[l] \cup T[l] ELSE a[l]]
      /\ generation' = g
      /\ startGen' = [c \in Calls |->
           IF c \in started THEN g[e[c].lane] ELSE startGen[c]]
      /\ body' = [c \in Calls |-> IF c \in started THEN "running" ELSE body[c]]
  BY DEF DrainLanes
<1>4. \A c \in Calls : c \notin started =>
        verdict'[c] = verdict[c] /\ listening'[c] = listening[c]
  BY DEF DrainLanes
<1>5. \A l \in Lanes : \A i \in 1..Len(q[l]) : q[l][i] \in Calls
  BY <1>1, Zenon
<1>6. \A l \in Lanes : T[l] \subseteq Calls
  BY <1>1, Zenon
<1> HIDE DEF T, N, R, started
<1>q. \A l \in Lanes : \A i \in 1..Len(q[l]) :
        p[q[l][i]] = "pending" /\ body[q[l][i]] = "none" /\ e[q[l][i]].lane = l
  BY Zenon DEF QueueOK
<1>u. \A l \in Lanes : \A i, j \in 1..Len(q[l]) : q[l][i] = q[l][j] => i = j
  BY Zenon DEF QueueOK
<1>7. \A l \in L : \A c \in T[l] : p[c] = "pending" /\ body[c] = "none" /\ e[c].lane = l
  <2> SUFFICES ASSUME NEW l \in L, NEW c \in T[l]
               PROVE  p[c] = "pending" /\ body[c] = "none" /\ e[c].lane = l
    OBVIOUS
  <2>1. l \in Lanes
    OBVIOUS
  <2>2. PICK i \in 1..N[l] : q[l][i] = c
    BY <1>1, <2>1, Zenon
  <2>3. i \in 1..Len(q[l])
    BY <1>1, <2>1
  <2> QED
    BY <1>q, <2>1, <2>2, <2>3
<1>8. \A c \in Calls : c \in started =>
        p[c] = "pending" /\ body[c] = "none" /\ e[c].lane \in L /\ c \in T[e[c].lane]
  BY <1>2, <1>7
<1>9. \A l \in L : \A c \in Calls : c \in T[l] <=> c \in started /\ e[c].lane = l
  BY <1>2, <1>7
<1>10. QueueOK(queue', e, body', p)
  <2>1. ASSUME NEW l \in Lanes, l \notin L, NEW i \in 1..Len(queue'[l])
        PROVE  /\ q[l][i] = queue'[l][i]
               /\ p[q[l][i]] = "pending" /\ body'[q[l][i]] = "none" /\ e[q[l][i]].lane = l
    BY <1>3, <1>5, <1>8, <1>q, <2>1
  <2>2. ASSUME NEW l \in L, NEW i \in 1..Len(queue'[l])
        PROVE  /\ N[l] + i \in 1..Len(q[l]) /\ queue'[l][i] = q[l][N[l] + i]
               /\ q[l][N[l] + i] \notin T[l]
    <3>1. l \in Lanes /\ queue'[l] = R[l]
      BY <1>3
    <3>2. /\ N[l] \in Nat /\ N[l] <= Len(q[l]) /\ Len(q[l]) \in Nat
          /\ i \in 1..(Len(q[l]) - N[l])
      BY <1>1, <3>1
    <3>3. N[l] + i \in 1..Len(q[l])
      BY <3>2
    <3>4. queue'[l][i] = q[l][N[l] + i]
      BY <1>1, <3>1, <3>2
    <3>5. ASSUME NEW j \in 1..N[l] PROVE q[l][j] # q[l][N[l] + i]
      <4>1. j \in 1..Len(q[l]) /\ j # N[l] + i
        BY <3>2
      <4> QED
        BY <1>u, <3>1, <3>3, <4>1
    <3>6. q[l][N[l] + i] \notin T[l]
      BY <1>1, <3>1, <3>5, Zenon
    <3> QED
      BY <3>3, <3>4, <3>6
  <2>3. ASSUME NEW l \in L, NEW i \in 1..Len(queue'[l])
        PROVE  /\ p[queue'[l][i]] = "pending" /\ body'[queue'[l][i]] = "none"
               /\ e[queue'[l][i]].lane = l
    <3>1. l \in Lanes
      OBVIOUS
    <3>2. PICK j \in 1..Len(q[l]) : queue'[l][i] = q[l][j] /\ q[l][j] \notin T[l]
      BY <2>2
    <3>3. PICK c \in Calls : c = q[l][j]
      BY <1>5, <3>1
    <3>4. p[c] = "pending" /\ body[c] = "none" /\ e[c].lane = l
      BY <1>q, <3>1, <3>3
    <3>5. body'[c] = "none"
      BY <1>3, <1>9, <3>2, <3>3, <3>4
    <3> QED
      BY <3>2, <3>3, <3>4, <3>5
  <2>4. ASSUME NEW l \in Lanes, NEW i \in 1..Len(queue'[l]), NEW j \in 1..Len(queue'[l]),
               queue'[l][i] = queue'[l][j]
        PROVE  i = j
    <3>1. CASE l \in L
      <4>1. N[l] + i = N[l] + j
        <5>1. /\ l \in Lanes /\ l \in L
              /\ N[l] + i \in 1..Len(q[l]) /\ queue'[l][i] = q[l][N[l] + i]
              /\ N[l] + j \in 1..Len(q[l]) /\ queue'[l][j] = q[l][N[l] + j]
          BY <2>2, <3>1
        <5>2. q[l][N[l] + i] = q[l][N[l] + j]
          BY <2>4, <5>1
        <5> QED
          BY <1>u, <5>1, <5>2, Zenon
      <4>2. i \in Int /\ j \in Int /\ N[l] \in Nat
        BY <1>1
      <4> QED
        BY <4>1, <4>2
    <3>2. CASE l \notin L
      BY <1>3, <1>u, <2>4, <3>2
    <3> QED
      BY <3>1, <3>2
  <2>5. \A l \in Lanes : \A i \in 1..Len(queue'[l]) :
          p[queue'[l][i]] = "pending" /\ body'[queue'[l][i]] = "none" /\ e[queue'[l][i]].lane = l
    <3> TAKE l \in Lanes
    <3> TAKE i \in 1..Len(queue'[l])
    <3>1. CASE l \in L
      BY <2>3, <3>1, Zenon
    <3>2. CASE l \notin L
      <4>1. /\ q[l][i] = queue'[l][i]
            /\ p[q[l][i]] = "pending" /\ body'[q[l][i]] = "none" /\ e[q[l][i]].lane = l
        BY <2>1, <3>2, Zenon
      <4> QED
        BY <4>1
    <3> QED
      BY <3>1, <3>2
  <2> QED
    BY <2>4, <2>5, Zenon DEF QueueOK
<1>11. PendingOK(queue', e, body', p)
  <2> SUFFICES ASSUME NEW c \in Calls, p[c] = "pending", body'[c] = "none"
               PROVE  \E i \in 1..Len(queue'[e[c].lane]) : queue'[e[c].lane][i] = c
    BY DEF PendingOK
  <2> DEFINE l == e[c].lane
  <2>1. l \in Lanes
    BY DEF Entry
  <2>2. c \notin started /\ body[c] = "none"
    BY <1>3
  <2>3. PICK i \in 1..Len(q[l]) : q[l][i] = c
    BY <2>2 DEF PendingOK
  <2> HIDE DEF l
  <2>4. CASE l \notin L
    BY <1>3, <2>1, <2>3, <2>4 DEF l
  <2>5. CASE l \in L
    <3>1. c \notin T[l]
      BY <1>2, <2>2, <2>5
    <3>2. i \notin 1..N[l]
      BY <1>1, <2>1, <2>3, <3>1
    <3>3. /\ i - N[l] \in 1..(Len(q[l]) - N[l]) /\ N[l] + (i - N[l]) = i
          /\ Len(R[l]) = Len(q[l]) - N[l]
      BY <1>1, <2>1, <2>3, <3>2
    <3>4. R[l][i - N[l]] = c
      BY <1>1, <2>1, <2>3, <3>3
    <3>5. queue'[l] = R[l]
      BY <1>3, <2>1, <2>5
    <3> QED
      BY <3>3, <3>4, <3>5 DEF l
  <2> QED
    BY <2>4, <2>5
<1>12. ActiveOK(active', e, body', p, startGen', g)
  <2> SUFFICES ASSUME NEW l \in Lanes, NEW c \in Calls
               PROVE  c \in active'[l] <=>
                        /\ body'[c] # "none" /\ p[c] = "pending" /\ e[c].lane = l
                        /\ startGen'[c] = g[l]
    <3>1. \A k \in Lanes : active'[k] \subseteq Calls
      BY <1>3, <1>6
    <3> QED
      BY <3>1 DEF ActiveOK
  <2>1. c \in a[l] <=> /\ body[c] # "none" /\ p[c] = "pending" /\ e[c].lane = l
                       /\ startGen[c] = g[l]
    BY DEF ActiveOK
  <2>2. CASE c \in started
    <3>1. c \in active'[l] <=> l = e[c].lane
      BY <1>3, <1>8, <1>9, <2>1, <2>2
    <3> QED
      BY <1>3, <1>8, <2>2, <3>1
  <2>3. CASE c \notin started
    <3>1. c \in active'[l] <=> c \in a[l]
      BY <1>2, <1>3, <2>3
    <3> QED
      BY <1>3, <2>1, <2>3, <3>1
  <2> QED
    BY <2>2, <2>3
<1>13. \A l \in Lanes : a[l] \subseteq active'[l]
  BY <1>3
<1>14. \A l \in Lanes : \A c \in active'[l] \ a[l] : body[c] = "none"
  BY <1>3, <1>7
<1>15. \A c \in Calls : body[c] # "none" =>
         body'[c] = body[c] /\ startGen'[c] = startGen[c] /\ verdict'[c] = verdict[c]
  BY <1>3, <1>4, <1>8
<1>16. \A c \in Calls : body[c] = "none" /\ body'[c] # "none" =>
         p[c] = "pending" /\ startGen'[c] = g[e[c].lane]
  BY <1>3, <1>8
<1>17. \A c \in Calls : body'[c] = "none" =>
         verdict'[c] = verdict[c] /\ listening'[c] = listening[c]
  BY <1>3, <1>4
<1> QED
  BY <1>3, <1>10, <1>11, <1>12, <1>13, <1>14, <1>15, <1>16, <1>17, Zenon DEF Drained

\* A step that started only calls that had not been started, and dropped no
\* task of the active sets a.
StartsOnly(a) ==
  /\ \A l \in Lanes : a[l] \subseteq active'[l]
  /\ \A l \in Lanes : \A c \in active'[l] \ a[l] : body[c] = "none"
  /\ \A c \in Calls : body[c] # "none" => body'[c] # "none"

\* drainLane establishes the invariant when its arguments agree.
LEMMA DrainInv ==
  ASSUME TypeOK, NEW L \in SUBSET Lanes, NEW e \in [Calls -> Entry],
         NEW q \in [Lanes -> Seq(Calls)], NEW a \in [Lanes -> SUBSET Calls],
         NEW m \in [Lanes -> Nat], NEW g \in [Lanes -> Nat], NEW p,
         QueueOK(q, e, body, p), PendingOK(q, e, body, p),
         ActiveOK(a, e, body, p, startGen, g),
         CallOK(e, body, p, startGen, g, verdict, listening),
         DrainLanes(L, e, q, a, m, g), entry' = e, promise' = p
  PROVE  QueueInv' /\ StartsOnly(a)
<1>1. /\ QueueOK(queue', e, body', p)
      /\ PendingOK(queue', e, body', p)
      /\ ActiveOK(active', e, body', p, startGen', g)
      /\ generation' = g
      /\ \A c \in Calls : body[c] # "none" =>
           body'[c] = body[c] /\ startGen'[c] = startGen[c] /\ verdict'[c] = verdict[c]
      /\ \A c \in Calls : body[c] = "none" /\ body'[c] # "none" =>
           p[c] = "pending" /\ startGen'[c] = g[e[c].lane]
      /\ \A c \in Calls : body'[c] = "none" =>
           verdict'[c] = verdict[c] /\ listening'[c] = listening[c]
  <2>1. Drained(e, a, g, p)
    BY DrainKeeps
  <2> QED
    BY <2>1, Zenon DEF Drained
<1>2. \A c \in Calls : g[e[c].lane] \in Nat
  BY DEF Entry
<1>3. \A c \in Calls : p[c] \in {"none", "cleared", "refused"} => body'[c] = "none"
  BY <1>1 DEF CallOK
<1>4. \A c \in Calls : verdict'[c] # "none" \/ listening'[c] # {} => body'[c] # "none"
  BY <1>1 DEF CallOK
<1>5. \A c \in Calls : body'[c] # "none" => startGen'[c] <= g[e[c].lane]
  <2> SUFFICES ASSUME NEW c \in Calls, body'[c] # "none"
               PROVE  startGen'[c] <= g[e[c].lane]
    OBVIOUS
  <2>1. CASE body[c] = "none"
    <3>1. startGen'[c] = g[e[c].lane]
      BY <1>1, <2>1, Zenon
    <3> QED
      BY <1>2, <3>1
  <2>2. CASE body[c] # "none"
    <3>1. startGen'[c] = startGen[c] /\ startGen[c] <= g[e[c].lane]
      BY <1>1, <2>2, Zenon DEF CallOK
    <3> QED
      BY <3>1
  <2> QED
    BY <2>1, <2>2
<1>6. CallOK(e, body', p, startGen', g, verdict', listening')
  BY <1>3, <1>4, <1>5, Zenon DEF CallOK
<1>7. StartsOnly(a)
  <2>1. Drained(e, a, g, p)
    BY DrainKeeps
  <2>2. /\ \A l \in Lanes : a[l] \subseteq active'[l]
        /\ \A l \in Lanes : \A c \in active'[l] \ a[l] : body[c] = "none"
    BY <2>1, Zenon DEF Drained
  <2>3. \A c \in Calls : body[c] # "none" => body'[c] # "none"
    BY <1>1
  <2> QED
    BY <2>2, <2>3, Zenon DEF StartsOnly
<1>8. QueueInv'
  BY <1>1, <1>6, Zenon DEF QueueInv
<1> QED
  BY <1>7, <1>8

\* enqueueLaneEntry adds its call to a queue and keeps the others.
LEMMA EnqueueLaneEntryFacts ==
  ASSUME NEW e, NEW q \in Seq(Calls), NEW c \in Calls,
         \A i, j \in 1..Len(q) : q[i] = q[j] => i = j,
         \A i \in 1..Len(q) : q[i] # c
  PROVE  /\ \A j \in 1..Len(EnqueueLaneEntry(e, q, c)) :
              \/ EnqueueLaneEntry(e, q, c)[j] = c
              \/ \E i \in 1..Len(q) : EnqueueLaneEntry(e, q, c)[j] = q[i]
         /\ \A i \in 1..Len(q) : \E j \in 1..Len(EnqueueLaneEntry(e, q, c)) :
              EnqueueLaneEntry(e, q, c)[j] = q[i]
         /\ \E j \in 1..Len(EnqueueLaneEntry(e, q, c)) : EnqueueLaneEntry(e, q, c)[j] = c
         /\ \A j, k \in 1..Len(EnqueueLaneEntry(e, q, c)) :
              EnqueueLaneEntry(e, q, c)[j] = EnqueueLaneEntry(e, q, c)[k] => j = k
<1> DEFINE n == Len(q)
           x == InsertPosition(e, q, c)
           f == [j \in 1..(n + 1) |-> IF j < x THEN q[j] ELSE IF j = x THEN c ELSE q[j - 1]]
<1>1. n \in Nat /\ x \in 1..(n + 1)
  BY LenProperties, InsertPositionExists
<1>2. f = EnqueueLaneEntry(e, q, c) /\ f \in Seq(Calls)
  BY EnqueueLaneEntryType DEF EnqueueLaneEntry
<1>3. Len(f) = n + 1
  BY <1>1, <1>2, LenProperties
<1>4. \A j \in 1..(n + 1) : f[j] = IF j < x THEN q[j] ELSE IF j = x THEN c ELSE q[j - 1]
  OBVIOUS
<1> HIDE DEF f, x
<1>5. \A i, j \in 1..n : q[i] = q[j] => i = j
  OBVIOUS
<1>6. \A i \in 1..n : q[i] # c
  OBVIOUS
<1> HIDE DEF n
<1>7. \A j \in 1..(n + 1) : f[j] = c \/ \E i \in 1..n : f[j] = q[i]
  <2> TAKE j \in 1..(n + 1)
  <2>1. CASE j < x
    BY <1>1, <1>4, <2>1
  <2>2. CASE j = x
    BY <1>1, <1>4, <2>2
  <2>3. CASE j > x
    <3>1. j - 1 \in 1..n
      BY <1>1, <2>3
    <3> QED
      BY <1>1, <1>4, <2>3, <3>1
  <2> QED
    BY <1>1, <2>1, <2>2, <2>3
<1>8. \A i \in 1..n : \E j \in 1..(n + 1) : f[j] = q[i]
  <2> TAKE i \in 1..n
  <2>1. CASE i < x
    <3>1. i \in 1..(n + 1) /\ f[i] = q[i]
      BY <1>1, <1>4, <2>1
    <3> QED
      BY <3>1
  <2>2. CASE i >= x
    <3>1. i + 1 \in 1..(n + 1) /\ ~(i + 1 < x) /\ i + 1 # x /\ (i + 1) - 1 = i
      BY <1>1, <2>2
    <3>2. f[i + 1] = q[i]
      BY <1>4, <3>1
    <3> QED
      BY <3>1, <3>2
  <2> QED
    BY <1>1, <2>1, <2>2
<1>9. \E j \in 1..(n + 1) : f[j] = c
  BY <1>1, <1>4
<1>10. \A j, k \in 1..(n + 1) : f[j] = f[k] => j = k
  <2> SUFFICES ASSUME NEW j \in 1..(n + 1), NEW k \in 1..(n + 1), f[j] = f[k]
               PROVE  j = k
    OBVIOUS
  <2> DEFINE at(i) == IF i < x THEN i ELSE i - 1
  <2>1. \A i \in 1..(n + 1) : i # x => at(i) \in 1..n /\ f[i] = q[at(i)]
    BY <1>1, <1>4
  <2>2. f[x] = c
    BY <1>1, <1>4
  <2>3. CASE j = x \/ k = x
    BY <1>6, <2>1, <2>2, <2>3
  <2>4. CASE j # x /\ k # x
    <3>1. at(j) \in 1..n /\ at(k) \in 1..n /\ q[at(j)] = q[at(k)]
      BY <2>1, <2>4
    <3>2. at(j) = at(k)
      BY <1>5, <3>1
    <3> QED
      BY <1>1, <2>4, <3>2
  <2> QED
    BY <2>3, <2>4
<1> QED
  BY <1>2, <1>3, <1>7, <1>8, <1>9, <1>10 DEF n

-----------------------------------------------------------------------------
(* Every step keeps the invariant *)

\* A new call joins the queue of its lane.
LEMMA EnqueueKeeps ==
  ASSUME TypeOK, TypeOK', QueueInv, NEW c \in Calls, NEW l \in Lanes,
         NEW pr \in PriorityOptions, NEW o \in TimeoutOptions,
         EnqueueCommandInLane(c, l, pr, o)
  PROVE  /\ QueueInv' /\ StartsOnly(active)
         /\ QueueOK([queue EXCEPT ![l] = EnqueueLaneEntry(entry', queue[l], c)],
                    entry', body, promise')
<1> DEFINE r == EnqueueLaneEntry(entry', queue[l], c)
           q == [queue EXCEPT ![l] = r]
<1>1. /\ promise[c] = "none"
      /\ DrainLanes({l}, entry', q, active, maxConcurrent, generation)
  BY DEF EnqueueCommandInLane
<1>2. body[c] = "none"
  BY <1>1 DEF QueueInv, CallOK
<1>3. /\ entry'[c].lane = l /\ promise'[c] = "pending"
      /\ \A d \in Calls : d # c => entry'[d] = entry[d] /\ promise'[d] = promise[d]
  BY DEF EnqueueCommandInLane, TypeOK
<1>4. /\ queue \in [Lanes -> Seq(Calls)] /\ active \in [Lanes -> SUBSET Calls]
      /\ maxConcurrent \in [Lanes -> Nat] /\ generation \in [Lanes -> Nat]
      /\ entry \in [Calls -> Entry] /\ entry' \in [Calls -> Entry]
  BY DEF TypeOK
<1>5. r \in Seq(Calls) /\ q \in [Lanes -> Seq(Calls)]
  BY <1>4, EnqueueLaneEntryType
<1>6. \A k \in Lanes : \A i \in 1..Len(queue[k]) :
        /\ queue[k][i] \in Calls /\ queue[k][i] # c
        /\ promise[queue[k][i]] = "pending" /\ body[queue[k][i]] = "none"
        /\ entry[queue[k][i]].lane = k
  <2>1. \A k \in Lanes : \A i \in 1..Len(queue[k]) :
          /\ promise[queue[k][i]] = "pending" /\ body[queue[k][i]] = "none"
          /\ entry[queue[k][i]].lane = k
    BY Zenon DEF QueueInv, QueueOK
  <2>2. \A k \in Lanes : queue[k] \in Seq(Calls)
    BY <1>4
  <2>3. \A k \in Lanes : \A i \in 1..Len(queue[k]) : queue[k][i] \in Calls
    BY <2>2, ElementOfSeq
  <2> QED
    BY <1>1, <2>1, <2>3
<1>7. \A k \in Lanes : \A i, j \in 1..Len(queue[k]) : queue[k][i] = queue[k][j] => i = j
  BY Zenon DEF QueueInv, QueueOK
<1>8. /\ \A j \in 1..Len(r) : r[j] = c \/ \E i \in 1..Len(queue[l]) : r[j] = queue[l][i]
      /\ \A i \in 1..Len(queue[l]) : \E j \in 1..Len(r) : r[j] = queue[l][i]
      /\ \E j \in 1..Len(r) : r[j] = c
      /\ \A j, k \in 1..Len(r) : r[j] = r[k] => j = k
  <2> DEFINE x == queue[l]
  <2>1. /\ x \in Seq(Calls)
        /\ \A i, j \in 1..Len(x) : x[i] = x[j] => i = j
        /\ \A i \in 1..Len(x) : x[i] # c
    BY <1>4, <1>6, <1>7
  <2> HIDE DEF x
  <2>2. \A i, j \in 1..Len(x) : x[i] = x[j] => i = j
    BY <2>1
  <2> DEFINE y == EnqueueLaneEntry(entry', x, c)
  <2>3. /\ \A j \in 1..Len(y) : y[j] = c \/ \E i \in 1..Len(x) : y[j] = x[i]
        /\ \A i \in 1..Len(x) : \E j \in 1..Len(y) : y[j] = x[i]
        /\ \E j \in 1..Len(y) : y[j] = c
        /\ \A j, k \in 1..Len(y) : y[j] = y[k] => j = k
    BY <2>1, EnqueueLaneEntryFacts
  <2> QED
    BY <2>3 DEF x
<1>9. q[l] = r /\ \A k \in Lanes : k # l => q[k] = queue[k]
  BY <1>4
<1> HIDE DEF r, q
<1>10. QueueOK(q, entry', body, promise')
  <2>1. ASSUME NEW k \in Lanes, NEW j \in 1..Len(q[k])
        PROVE  /\ promise'[q[k][j]] = "pending" /\ body[q[k][j]] = "none"
               /\ entry'[q[k][j]].lane = k
    <3>1. CASE k = l /\ q[k][j] = c
      BY <1>2, <1>3, <3>1
    <3>2. CASE \E i \in 1..Len(queue[k]) : q[k][j] = queue[k][i]
      BY <1>3, <1>6, <3>2
    <3>3. CASE k = l
      <4>1. q[k] = r /\ j \in 1..Len(r)
        BY <1>9, <3>3
      <4>2. r[j] = c \/ \E i \in 1..Len(queue[l]) : r[j] = queue[l][i]
        BY <1>8, <4>1, Zenon
      <4> QED
        BY <3>1, <3>2, <3>3, <4>1, <4>2
    <3>4. CASE k # l
      BY <1>9, <3>2, <3>4
    <3> QED
      BY <3>3, <3>4
  <2>2. ASSUME NEW k \in Lanes, NEW i \in 1..Len(q[k]), NEW j \in 1..Len(q[k]),
               q[k][i] = q[k][j]
        PROVE  i = j
    BY <1>7, <1>8, <1>9, <2>2
  <2> QED
    BY <2>1, <2>2, Zenon DEF QueueOK
<1>11. PendingOK(q, entry', body, promise')
  <2> SUFFICES ASSUME NEW d \in Calls, promise'[d] = "pending", body[d] = "none"
               PROVE  \E i \in 1..Len(q[entry'[d].lane]) : q[entry'[d].lane][i] = d
    BY DEF PendingOK
  <2>1. CASE d = c
    BY <1>3, <1>8, <1>9, <2>1
  <2>2. CASE d # c
    <3>1. /\ entry'[d] = entry[d] /\ promise[d] = "pending" /\ entry[d].lane \in Lanes
      BY <1>3, <1>4, <2>2 DEF Entry
    <3>2. PICK i \in 1..Len(queue[entry[d].lane]) : queue[entry[d].lane][i] = d
      BY <3>1 DEF QueueInv, PendingOK
    <3>3. CASE entry[d].lane = l
      BY <1>8, <1>9, <3>1, <3>2, <3>3
    <3>4. CASE entry[d].lane # l
      BY <1>9, <3>1, <3>2, <3>4
    <3> QED
      BY <3>3, <3>4
  <2> QED
    BY <2>1, <2>2
<1>12. ActiveOK(active, entry', body, promise', startGen, generation)
  BY <1>2, <1>3 DEF QueueInv, ActiveOK
<1>13. CallOK(entry', body, promise', startGen, generation, verdict, listening)
  BY <1>2, <1>3 DEF QueueInv, CallOK
<1>14. {l} \in SUBSET Lanes
  OBVIOUS
<1>15. QueueInv' /\ StartsOnly(active)
  BY <1>1, <1>4, <1>5, <1>10, <1>11, <1>12, <1>13, <1>14, DrainInv
<1> QED
  BY <1>10, <1>15 DEF q, r

\* A reset: no body was started in the new generation yet.
LEMMA ResetKeeps ==
  ASSUME TypeOK, QueueInv, NEW L \in SUBSET Lanes, ResetLanes(L)
  PROVE  /\ QueueInv'
         /\ StartsOnly([l \in Lanes |-> IF l \in L THEN {} ELSE active[l]])
<1> DEFINE a == [l \in Lanes |-> IF l \in L THEN {} ELSE active[l]]
           g == [l \in Lanes |-> generation[l] + IF l \in L THEN 1 ELSE 0]
<1>1. /\ DrainLanes(L, entry, queue, a, maxConcurrent, g)
      /\ entry' = entry /\ promise' = promise
  BY DEF ResetLanes, callVars
<1>2. /\ queue \in [Lanes -> Seq(Calls)] /\ active \in [Lanes -> SUBSET Calls]
      /\ maxConcurrent \in [Lanes -> Nat] /\ generation \in [Lanes -> Nat]
      /\ entry \in [Calls -> Entry] /\ startGen \in [Calls -> Nat]
  BY DEF TypeOK
<1>3. a \in [Lanes -> SUBSET Calls] /\ g \in [Lanes -> Nat]
  BY <1>2
<1>4. \A c \in Calls : body[c] # "none" =>
        /\ entry[c].lane \in Lanes
        /\ startGen[c] \in Nat /\ generation[entry[c].lane] \in Nat
        /\ startGen[c] <= generation[entry[c].lane]
  BY <1>2 DEF QueueInv, CallOK, Entry
<1>5. ActiveOK(a, entry, body, promise, startGen, g)
  <2> SUFFICES ASSUME NEW l \in Lanes
               PROVE  a[l] = {c \in Calls : /\ body[c] # "none" /\ promise[c] = "pending"
                                            /\ entry[c].lane = l /\ startGen[c] = g[l]}
    BY DEF ActiveOK
  <2>1. CASE l \in L
    <3>1. g[l] = generation[l] + 1 /\ generation[l] \in Nat /\ a[l] = {}
      BY <1>2, <2>1
    <3>2. \A c \in Calls : body[c] # "none" /\ entry[c].lane = l => startGen[c] # g[l]
      BY <1>4, <3>1
    <3> QED
      BY <3>1, <3>2
  <2>2. CASE l \notin L
    <3>1. g[l] = generation[l] /\ a[l] = active[l]
      BY <1>2, <2>2
    <3>2. active[l] = {c \in Calls : /\ body[c] # "none" /\ promise[c] = "pending"
                                     /\ entry[c].lane = l /\ startGen[c] = generation[l]}
      BY Zenon DEF QueueInv, ActiveOK
    <3> QED
      BY <3>1, <3>2
  <2> QED
    BY <2>1, <2>2
<1>6. CallOK(entry, body, promise, startGen, g, verdict, listening)
  <2>1. \A c \in Calls : body[c] # "none" => startGen[c] <= g[entry[c].lane]
    BY <1>4
  <2> QED
    BY <2>1 DEF QueueInv, CallOK
<1> HIDE DEF a, g
<1>7. QueueInv' /\ StartsOnly(a)
  BY <1>1, <1>2, <1>3, <1>5, <1>6, DrainInv DEF QueueInv
<1> QED
  BY <1>7, Zenon DEF a

\* A new limit: the lane is drained, or nothing but the limit changes.
LEMMA LimitKeeps ==
  ASSUME TypeOK, QueueInv, NEW l \in Lanes, NEW n \in Limits,
         SetCommandLaneConcurrency(l, n)
  PROVE  QueueInv' /\ StartsOnly(active)
<1> DEFINE limit == IF l \in ProbeLanes /\ n < 1 THEN 1 ELSE n
           m == [maxConcurrent EXCEPT ![l] = limit]
           L == IF limit > 0 THEN {l} ELSE {}
<1>1. m \in [Lanes -> Nat] /\ L \in SUBSET Lanes
  BY QueueAssumption DEF TypeOK
<1>2. DrainLanes(L, entry, queue, active, m, generation)
  BY DEF SetCommandLaneConcurrency
<1>3. entry' = entry /\ promise' = promise
  BY DEF SetCommandLaneConcurrency, callVars
<1>4. /\ queue \in [Lanes -> Seq(Calls)] /\ active \in [Lanes -> SUBSET Calls]
      /\ generation \in [Lanes -> Nat] /\ entry \in [Calls -> Entry]
  BY DEF TypeOK
<1> HIDE DEF m, L
<1> QED
  BY <1>1, <1>2, <1>3, <1>4, DrainInv DEF QueueInv

\* A completion: it takes its call out of the active set of its generation,
\* and touches no set when its generation is over.
LEMMA CompleteKeeps ==
  ASSUME TypeOK, QueueInv, NEW c \in Calls, CompleteTask(c)
  PROVE  /\ QueueInv'
         /\ \/ /\ NotifyActiveTaskWaiters
               /\ StartsOnly([active EXCEPT ![entry[c].lane] = @ \ {c}])
            \/ UNCHANGED <<active, body, waiter>>
<1> DEFINE l == entry[c].lane
           a == [active EXCEPT ![l] = @ \ {c}]
<1>1. /\ queue \in [Lanes -> Seq(Calls)] /\ active \in [Lanes -> SUBSET Calls]
      /\ maxConcurrent \in [Lanes -> Nat] /\ generation \in [Lanes -> Nat]
      /\ entry \in [Calls -> Entry] /\ l \in Lanes
  BY DEF TypeOK, Entry
<1>2. /\ promise[c] = "pending" /\ verdict[c] # "none" /\ verdict[c] \in Verdicts
      /\ promise' = [promise EXCEPT ![c] = verdict[c]] /\ entry' = entry
  BY DEF CompleteTask, TypeOK
<1>3. body[c] # "none"
  BY <1>2 DEF QueueInv, CallOK
<1>4. /\ promise'[c] \notin {"pending", "none", "cleared", "refused"}
      /\ \A d \in Calls : d # c => promise'[d] = promise[d]
  BY <1>2 DEF Verdicts, TypeOK
<1>5. QueueOK(queue, entry, body, promise')
  <2>1. \A k \in Lanes : \A i \in 1..Len(queue[k]) :
          /\ promise[queue[k][i]] = "pending" /\ body[queue[k][i]] = "none"
          /\ entry[queue[k][i]].lane = k
    BY Zenon DEF QueueInv, QueueOK
  <2>2. \A k \in Lanes : queue[k] \in Seq(Calls)
    BY <1>1
  <2>3. \A k \in Lanes : \A i \in 1..Len(queue[k]) : queue[k][i] \in Calls
    BY <2>2, ElementOfSeq
  <2>4. \A k \in Lanes : \A i \in 1..Len(queue[k]) : promise'[queue[k][i]] = "pending"
    BY <1>3, <1>4, <2>1, <2>3
  <2>5. \A k \in Lanes : \A i, j \in 1..Len(queue[k]) : queue[k][i] = queue[k][j] => i = j
    BY Zenon DEF QueueInv, QueueOK
  <2>6. \A k \in Lanes : \A i \in 1..Len(queue[k]) :
          /\ promise'[queue[k][i]] = "pending" /\ body[queue[k][i]] = "none"
          /\ entry[queue[k][i]].lane = k
    BY <2>1, <2>4
  <2> QED
    BY <2>5, <2>6 DEF QueueOK
<1>6. PendingOK(queue, entry, body, promise')
  BY <1>4 DEF QueueInv, PendingOK
<1>7. CallOK(entry, body, promise', startGen, generation, verdict, listening)
  BY <1>4 DEF QueueInv, CallOK
<1>8. \A k \in Lanes : \A d \in Calls :
        d \in active[k] <=> /\ body[d] # "none" /\ promise[d] = "pending"
                            /\ entry[d].lane = k /\ startGen[d] = generation[k]
  BY DEF QueueInv, ActiveOK
<1>9. CASE startGen[c] = generation[l]
  <2>1. DrainLanes({l}, entry, queue, a, maxConcurrent, generation)
    BY <1>9 DEF CompleteTask
  <2>2. a \in [Lanes -> SUBSET Calls] /\ {l} \in SUBSET Lanes
    BY <1>1
  <2>3. \A k \in Lanes : \A d \in Calls : d \in a[k] <=> d \in active[k] /\ d # c
    BY <1>1, <1>8
  <2> HIDE DEF a, l
  <2>4. ActiveOK(a, entry, body, promise', startGen, generation)
    BY <1>4, <1>8, <2>2, <2>3 DEF ActiveOK
  <2>5. QueueInv' /\ StartsOnly(a)
    BY <1>1, <1>2, <1>5, <1>6, <1>7, <2>1, <2>2, <2>4, DrainInv
  <2>6. NotifyActiveTaskWaiters
    BY <1>9, Zenon DEF CompleteTask, l
  <2> QED
    BY <2>5, <2>6, Zenon DEF a, l
<1>10. CASE startGen[c] # generation[l]
  <2>1. UNCHANGED <<queue, active, generation, startGen, body, verdict, listening>>
    BY <1>10 DEF CompleteTask, taskVars
  <2>2. \A k \in Lanes : \A d \in Calls :
          d \in active[k] <=> /\ body[d] # "none" /\ promise'[d] = "pending"
                              /\ entry[d].lane = k /\ startGen[d] = generation[k]
    <3> SUFFICES ASSUME NEW k \in Lanes, NEW d \in Calls
                 PROVE  d \in active[k] <=>
                          /\ body[d] # "none" /\ promise'[d] = "pending"
                          /\ entry[d].lane = k /\ startGen[d] = generation[k]
      OBVIOUS
    <3>1. CASE d = c
      BY <1>4, <1>8, <1>10, <3>1
    <3>2. CASE d # c
      BY <1>4, <1>8, <3>2
    <3> QED
      BY <3>1, <3>2
  <2>3. \A k \in Lanes : active[k] \subseteq Calls
    BY <1>1
  <2>4. ActiveOK(active, entry, body, promise', startGen, generation)
    BY <2>2, <2>3 DEF ActiveOK
  <2>5. /\ queue' = queue /\ active' = active /\ generation' = generation
        /\ startGen' = startGen /\ body' = body /\ verdict' = verdict
        /\ listening' = listening /\ entry' = entry
    BY <1>2, <2>1
  <2>6. QueueInv'
    BY <1>5, <1>6, <1>7, <2>4, <2>5 DEF QueueInv
  <2>7. UNCHANGED <<active, body, waiter>>
    BY <1>10, <2>5 DEF CompleteTask
  <2> QED
    BY <2>6, <2>7
<1> QED
  BY <1>9, <1>10

\* The calls of a lane that is cleared are answered and leave the queue.
LEMMA ClearKeeps ==
  ASSUME TypeOK, QueueInv, NEW l \in Lanes, ClearCommandLane(l)
  PROVE  QueueInv'
<1>1. /\ queue \in [Lanes -> Seq(Calls)] /\ entry \in [Calls -> Entry]
      /\ promise \in [Calls -> Settled \cup {"none", "pending"}]
  BY DEF TypeOK
<1>2. /\ queue' = [queue EXCEPT ![l] = <<>>]
      /\ promise' = [c \in Calls |->
           IF \E i \in 1..Len(queue[l]) : queue[l][i] = c THEN "cleared" ELSE promise[c]]
      /\ UNCHANGED <<active, generation, startGen, body, verdict, listening, entry>>
  BY DEF ClearCommandLane, taskVars
<1>3. \A k \in Lanes : \A i \in 1..Len(queue[k]) :
        /\ promise[queue[k][i]] = "pending" /\ body[queue[k][i]] = "none"
        /\ entry[queue[k][i]].lane = k
  BY Zenon DEF QueueInv, QueueOK
<1>4. \A k \in Lanes : queue[k] \in Seq(Calls)
  BY <1>1
<1>5. \A k \in Lanes : \A i \in 1..Len(queue[k]) : queue[k][i] \in Calls
  BY <1>4, ElementOfSeq
<1>6. queue'[l] = <<>> /\ \A k \in Lanes : k # l => queue'[k] = queue[k]
  BY <1>1, <1>2
<1>7. \A c \in Calls : \/ promise'[c] = promise[c]
                       \/ promise'[c] = "cleared" /\ body[c] = "none" /\ entry[c].lane = l
  BY <1>2, <1>3
<1>8. QueueOK(queue', entry', body', promise')
  <2>1. ASSUME NEW k \in Lanes, NEW i \in 1..Len(queue'[k])
        PROVE  /\ promise'[queue'[k][i]] = "pending" /\ body[queue'[k][i]] = "none"
               /\ entry[queue'[k][i]].lane = k
    <3>1. k # l
      BY <1>6
    <3>2. queue'[k] = queue[k]
      BY <1>6, <3>1
    <3> QED
      BY <1>3, <1>5, <1>7, <3>1, <3>2
  <2>2. ASSUME NEW k \in Lanes, NEW i \in 1..Len(queue'[k]), NEW j \in 1..Len(queue'[k]),
               queue'[k][i] = queue'[k][j]
        PROVE  i = j
    <3>1. k # l
      BY <1>6
    <3>2. queue'[k] = queue[k]
      BY <1>6, <3>1
    <3> QED
      BY <2>2, <3>2 DEF QueueInv, QueueOK
  <2>3. QueueOK(queue', entry, body, promise')
    BY <2>1, <2>2, Zenon DEF QueueOK
  <2> QED
    BY <1>2, <2>3
<1>9. PendingOK(queue', entry', body', promise')
  <2> SUFFICES ASSUME NEW c \in Calls, promise'[c] = "pending", body[c] = "none"
               PROVE  \E i \in 1..Len(queue'[entry[c].lane]) : queue'[entry[c].lane][i] = c
    BY <1>2 DEF PendingOK
  <2>1. promise[c] = "pending" /\ entry[c].lane \in Lanes
    BY <1>1, <1>7 DEF Entry
  <2>2. PICK i \in 1..Len(queue[entry[c].lane]) : queue[entry[c].lane][i] = c
    BY <2>1 DEF QueueInv, PendingOK
  <2>3. entry[c].lane # l
    BY <1>2, <2>2
  <2> QED
    BY <1>6, <2>1, <2>2, <2>3
<1>10. ActiveOK(active', entry', body', promise', startGen', generation')
  BY <1>2, <1>7 DEF QueueInv, ActiveOK
<1>11. CallOK(entry', body', promise', startGen', generation', verdict', listening')
  BY <1>2, <1>7 DEF QueueInv, CallOK
<1> QED
  BY <1>8, <1>9, <1>10, <1>11, Zenon DEF QueueInv

\* A step that leaves the lanes, the promises and the started bodies alone
\* keeps the invariant, when a new verdict belongs to a started body.
LEMMA TaskKeeps ==
  ASSUME TypeOK, QueueInv,
         UNCHANGED <<queue, active, generation, startGen, entry, promise>>,
         \A c \in Calls : body'[c] = "none" <=> body[c] = "none",
         \A c \in Calls : verdict'[c] # "none" => verdict[c] # "none" \/ body[c] # "none",
         \A c \in Calls : listening'[c] \subseteq listening[c]
  PROVE  QueueInv'
<1>1. /\ queue' = queue /\ active' = active /\ generation' = generation
      /\ startGen' = startGen /\ entry' = entry /\ promise' = promise
  OBVIOUS
<1>2. \A k \in Lanes : \A i \in 1..Len(queue[k]) : queue[k][i] \in Calls
  <2>1. \A k \in Lanes : queue[k] \in Seq(Calls)
    BY DEF TypeOK
  <2> QED
    BY <2>1, ElementOfSeq
<1>3. QueueOK(queue, entry, body', promise)
  <2>1. \A k \in Lanes : \A i \in 1..Len(queue[k]) :
          /\ promise[queue[k][i]] = "pending" /\ body[queue[k][i]] = "none"
          /\ entry[queue[k][i]].lane = k
    BY Zenon DEF QueueInv, QueueOK
  <2>2. \A k \in Lanes : \A i \in 1..Len(queue[k]) :
          /\ promise[queue[k][i]] = "pending" /\ body'[queue[k][i]] = "none"
          /\ entry[queue[k][i]].lane = k
    BY <1>2, <2>1
  <2>3. \A k \in Lanes : \A i, j \in 1..Len(queue[k]) : queue[k][i] = queue[k][j] => i = j
    BY Zenon DEF QueueInv, QueueOK
  <2> QED
    BY <2>2, <2>3, Zenon DEF QueueOK
<1>4. PendingOK(queue, entry, body', promise)
  <2>1. PendingOK(queue, entry, body, promise)
    BY DEF QueueInv
  <2> QED
    BY <2>1, Zenon DEF PendingOK
<1>5. ActiveOK(active, entry, body', promise, startGen, generation)
  BY DEF QueueInv, ActiveOK
<1>6. CallOK(entry, body', promise, startGen, generation, verdict', listening')
  BY DEF QueueInv, CallOK
<1> QED
  BY <1>1, <1>3, <1>4, <1>5, <1>6 DEF QueueInv

\* A refused call was never made: it is in no queue and in no active set.
LEMMA RefuseKeeps ==
  ASSUME TypeOK, QueueInv, NEW c \in Calls, RefuseEnqueue(c)
  PROVE  QueueInv'
<1>1. /\ queue' = queue /\ active' = active /\ generation' = generation
      /\ startGen' = startGen /\ entry' = entry /\ body' = body
      /\ verdict' = verdict /\ listening' = listening
  BY DEF RefuseEnqueue, laneVars, taskVars
<1>2. /\ promise[c] = "none" /\ promise'[c] = "refused"
      /\ \A d \in Calls : d # c => promise'[d] = promise[d]
  BY DEF RefuseEnqueue, TypeOK
<1>3. body[c] = "none"
  BY <1>2 DEF QueueInv, CallOK
<1>4. QueueOK(queue, entry, body, promise')
  <2>1. \A k \in Lanes : \A i \in 1..Len(queue[k]) :
          /\ promise[queue[k][i]] = "pending" /\ body[queue[k][i]] = "none"
          /\ entry[queue[k][i]].lane = k
    BY Zenon DEF QueueInv, QueueOK
  <2>2. \A k \in Lanes : queue[k] \in Seq(Calls)
    BY DEF TypeOK
  <2>3. \A k \in Lanes : \A i \in 1..Len(queue[k]) : queue[k][i] \in Calls
    BY <2>2, ElementOfSeq
  <2>4. \A k \in Lanes : \A i \in 1..Len(queue[k]) :
          /\ promise'[queue[k][i]] = "pending" /\ body[queue[k][i]] = "none"
          /\ entry[queue[k][i]].lane = k
    BY <1>2, <2>1, <2>3
  <2>5. \A k \in Lanes : \A i, j \in 1..Len(queue[k]) : queue[k][i] = queue[k][j] => i = j
    BY Zenon DEF QueueInv, QueueOK
  <2> QED
    BY <2>4, <2>5, Zenon DEF QueueOK
<1>5. PendingOK(queue, entry, body, promise')
  <2>1. PendingOK(queue, entry, body, promise)
    BY DEF QueueInv
  <2>2. \A d \in Calls : promise'[d] = "pending" => promise[d] = "pending"
    BY <1>2
  <2> QED
    BY <2>1, <2>2, Zenon DEF PendingOK
<1>6. ActiveOK(active, entry, body, promise', startGen, generation)
  BY <1>2, <1>3 DEF QueueInv, ActiveOK
<1>7. CallOK(entry, body, promise', startGen, generation, verdict, listening)
  BY <1>2, <1>3 DEF QueueInv, CallOK
<1> QED
  BY <1>1, <1>4, <1>5, <1>6, <1>7 DEF QueueInv

\* Every step of the queue keeps the invariant.
LEMMA QueueStep ==
  ASSUME TypeOK, TypeOK', QueueInv, [Next]_vars
  PROVE  QueueInv'
<1>1. ASSUME NEW l \in Lanes, ResetCommandLane(l) PROVE QueueInv'
  BY <1>1, ResetKeeps DEF ResetCommandLane
<1>2. ASSUME ResetAllLanes PROVE QueueInv'
  <2>1. known \in SUBSET Lanes
    BY DEF TypeOK
  <2> QED
    BY <1>2, <2>1, ResetKeeps DEF ResetAllLanes
<1>3. ASSUME NEW w \in Waiters, NEW kind, WaitForActiveTasks(w, kind) PROVE QueueInv'
  BY <1>3, TaskKeeps DEF WaitForActiveTasks, laneVars, taskVars, callVars
<1>4. ASSUME NEW w \in Waiters, WaiterTimesOut(w) PROVE QueueInv'
  BY <1>4, TaskKeeps DEF WaiterTimesOut, laneVars, taskVars, callVars
<1>5. ASSUME NEW c \in Calls, NEW outcome, TaskEnds(c, outcome) PROVE QueueInv'
  <2>1. UNCHANGED <<queue, active, generation, startGen, entry, promise, listening>>
    BY <1>5 DEF TaskEnds, laneVars, callVars
  <2>2. \A d \in Calls : body'[d] = "none" <=> body[d] = "none"
    BY <1>5 DEF TaskEnds, TypeOK
  <2>3. \A d \in Calls : verdict'[d] # "none" => verdict[d] # "none" \/ body[d] # "none"
    BY <1>5 DEF TaskEnds, TypeOK
  <2> QED
    BY <2>1, <2>2, <2>3, TaskKeeps
<1>6. ASSUME NEW c \in Calls, TimeoutFires(c) PROVE QueueInv'
  <2>1. UNCHANGED <<queue, active, generation, startGen, entry, promise, listening, body>>
    BY <1>6 DEF TimeoutFires, laneVars, callVars
  <2>2. \A d \in Calls : verdict'[d] # "none" => verdict[d] # "none" \/ body[d] # "none"
    BY <1>6 DEF TimeoutFires, TypeOK
  <2> QED
    BY <2>1, <2>2, TaskKeeps
<1>7. ASSUME NEW c \in Calls, NEW s \in Signals, FireSignal(c, s) PROVE QueueInv'
  <2>1. UNCHANGED <<queue, active, generation, startGen, entry, promise, body>>
    BY <1>7 DEF FireSignal, laneVars
  <2>2. \A d \in Calls : listening[d] # {} => body[d] # "none"
    BY DEF QueueInv, CallOK
  <2>3. \A d \in Calls : verdict'[d] # "none" => verdict[d] # "none" \/ body[d] # "none"
    BY <1>7, <2>2 DEF FireSignal, TypeOK
  <2>4. \A d \in Calls : listening'[d] \subseteq listening[d]
    BY <1>7 DEF FireSignal, TypeOK
  <2> QED
    BY <2>1, <2>3, <2>4, TaskKeeps
<1>8. CASE UNCHANGED vars
  BY <1>8, TaskKeeps DEF vars, laneVars, taskVars, callVars
<1> QED
  BY <1>1, <1>2, <1>3, <1>4, <1>5, <1>6, <1>7, <1>8, EnqueueKeeps, RefuseKeeps,
     LimitKeeps, ClearKeeps, CompleteKeeps DEF Next

\* Nothing is queued or started at first.
LEMMA QueueInit ==
  ASSUME Init
  PROVE  QueueInv
<1>1. \A l \in Lanes : queue[l] = <<>> /\ Len(queue[l]) = 0
  BY DEF Init
<1>2. QueueOK(queue, entry, body, promise)
  BY <1>1 DEF QueueOK
<1>3. PendingOK(queue, entry, body, promise)
  BY DEF Init, PendingOK
<1>4. ActiveOK(active, entry, body, promise, startGen, generation)
  BY DEF Init, ActiveOK
<1>5. CallOK(entry, body, promise, startGen, generation, verdict, listening)
  BY DEF Init, CallOK
<1> QED
  BY <1>2, <1>3, <1>4, <1>5 DEF QueueInv

\* The agreement of calls, queues and active sets is inductive.
LEMMA QueueInvariant ==
  Spec => [](TypeOK /\ QueueInv)
<1>1. Init => TypeOK /\ QueueInv
  BY TypeInit, QueueInit
<1>2. TypeOK /\ QueueInv /\ [Next]_vars => (TypeOK /\ QueueInv)'
  BY TypeStep, QueueStep
<1> QED
  BY <1>1, <1>2, PTL DEF Spec

-----------------------------------------------------------------------------
(* The safety theorems *)

\* activeTaskIds is exact for every number of lanes, calls and resets: no
\* completion leaks a slot and no stale completion frees one of the new
\* generation.
THEOREM ActiveAlwaysCurrent ==
  Spec => []ActiveIsCurrent
<1>1. QueueInv => ActiveIsCurrent
  BY Zenon DEF QueueInv, ActiveOK, ActiveIsCurrent, Started
<1> QED
  BY <1>1, QueueInvariant, PTL

\* Whatever clears, resets, limit changes and completions interleave, an
\* unanswered call is in its lane's queue exactly once or has been started,
\* never both and never neither.
THEOREM CallsNeverLost ==
  Spec => []NoLostCall
<1>1. TypeOK /\ QueueInv => NoLostCall
  <2> SUFFICES ASSUME TypeOK, QueueInv, NEW c \in Calls, promise[c] = "pending"
               PROVE  /\ Started(c) # Queued(c)
                      /\ \A l \in Lanes : \A i, j \in 1..Len(queue[l]) :
                           queue[l][i] = c /\ queue[l][j] = c => i = j /\ l = entry[c].lane
    BY DEF NoLostCall
  <2>1. entry[c].lane \in Lanes
    BY DEF TypeOK, Entry
  <2>2. \A l \in Lanes : \A i \in 1..Len(queue[l]) :
          body[queue[l][i]] = "none" /\ entry[queue[l][i]].lane = l
    BY Zenon DEF QueueInv, QueueOK
  <2>3. \A l \in Lanes : \A i, j \in 1..Len(queue[l]) : queue[l][i] = queue[l][j] => i = j
    BY Zenon DEF QueueInv, QueueOK
  <2>4. Queued(c) => ~Started(c)
    BY <2>1, <2>2 DEF Queued, Started
  <2>5. ~Started(c) => Queued(c)
    BY Zenon DEF QueueInv, PendingOK, Queued, Started
  <2>6. Started(c) \in BOOLEAN /\ Queued(c) \in BOOLEAN
    BY DEF Started, Queued
  <2>7. Started(c) # Queued(c)
    BY <2>4, <2>5, <2>6
  <2>8. \A l \in Lanes : \A i, j \in 1..Len(queue[l]) :
          queue[l][i] = c /\ queue[l][j] = c => i = j /\ l = entry[c].lane
    BY <2>2, <2>3
  <2> QED
    BY <2>7, <2>8
<1> QED
  BY <1>1, QueueInvariant, PTL

-----------------------------------------------------------------------------
(* The waiters *)

\* WaiterNeverStranded is inductive together with this: what a waiter captured
\* are calls that were started, so a call that starts later is none of them.
WaitInv ==
  /\ WaiterNeverStranded
  /\ \A w \in Waiters : \A c \in waiter[w].ids : c \in Calls /\ body[c] # "none"

\* Membership in the active tasks of all lanes.
LEMMA AllActiveMember ==
  ASSUME NEW a, NEW c
  PROVE  c \in AllActive(a) <=> \E l \in Lanes : c \in a[l]
  BY DEF AllActive

\* Starting tasks does not disturb a waiter.
LEMMA StartKeepsWaiters ==
  ASSUME WaitInv, waiter' = waiter,
         \A l \in Lanes : active[l] \subseteq active'[l],
         \A l \in Lanes : \A c \in active'[l] \ active[l] : body[c] = "none",
         \A c \in Calls : body[c] # "none" => body'[c] # "none"
  PROVE  WaitInv'
<1>1. \A c : c \in AllActive(active) => c \in AllActive(active')
  BY AllActiveMember
<1>2. \A c : c \in AllActive(active') => c \in AllActive(active) \/ body[c] = "none"
  BY AllActiveMember
<1> QED
  BY <1>1, <1>2 DEF WaitInv, WaiterNeverStranded

\* Neither does dropping tasks, when the waiters are notified.
LEMMA NotifyKeepsWaiters ==
  ASSUME TypeOK, WaitInv, NotifyActiveTaskWaiters,
         \A l \in Lanes : \A c \in active'[l] \ active[l] : body[c] = "none",
         \A c \in Calls : body[c] # "none" => body'[c] # "none"
  PROVE  WaitInv'
<1>1. \A c : c \in AllActive(active') => c \in AllActive(active) \/ body[c] = "none"
  BY AllActiveMember
<1> DEFINE W == [status : {"none", "waiting", "drained", "timedout"},
                 ids : SUBSET Calls, timed : BOOLEAN]
<1>2. \A x \in W : LET y == [x EXCEPT !.status = "drained"]
                   IN y.status = "drained" /\ y.ids = x.ids
  OBVIOUS
<1>3. \A w \in Waiters : waiter[w] \in W
  BY DEF TypeOK
<1> HIDE DEF W
<1>4. \A w \in Waiters :
        /\ waiter'[w].ids = waiter[w].ids
        /\ \/ /\ waiter[w].status = "waiting" /\ waiter'[w].status = "drained"
              /\ waiter[w].ids \cap AllActive(active') = {}
           \/ /\ waiter'[w].status = waiter[w].status
              /\ waiter[w].status = "waiting" =>
                   waiter[w].ids \cap AllActive(active') # {}
  <2> SUFFICES ASSUME NEW w \in Waiters
               PROVE  /\ waiter'[w].ids = waiter[w].ids
                      /\ \/ /\ waiter[w].status = "waiting" /\ waiter'[w].status = "drained"
                            /\ waiter[w].ids \cap AllActive(active') = {}
                         \/ /\ waiter'[w].status = waiter[w].status
                            /\ waiter[w].status = "waiting" =>
                                 waiter[w].ids \cap AllActive(active') # {}
    OBVIOUS
  <2>1. CASE waiter[w].status = "waiting" /\ waiter[w].ids \cap AllActive(active') = {}
    <3>1. waiter'[w] = [waiter[w] EXCEPT !.status = "drained"]
      BY <2>1 DEF NotifyActiveTaskWaiters
    <3> QED
      BY <1>2, <1>3, <2>1, <3>1
  <2>2. CASE ~(waiter[w].status = "waiting" /\ waiter[w].ids \cap AllActive(active') = {})
    <3>1. waiter'[w] = waiter[w]
      BY <2>2 DEF NotifyActiveTaskWaiters
    <3> QED
      BY <2>2, <3>1
  <2> QED
    BY <2>1, <2>2
<1>5. \A w \in Waiters : \A c \in waiter[w].ids : c \in Calls /\ body[c] # "none"
  BY DEF WaitInv
<1>6. \A w \in Waiters : \A c \in waiter'[w].ids : c \in Calls /\ body'[c] # "none"
  BY <1>4, <1>5
<1>7. ASSUME NEW w \in Waiters, waiter'[w].status = "waiting"
      PROVE  waiter'[w].ids \cap AllActive(active') # {}
  BY <1>4, <1>7
<1>8. ASSUME NEW w \in Waiters, waiter'[w].status = "drained"
      PROVE  waiter'[w].ids \cap AllActive(active') = {}
  <2>1. CASE waiter[w].status = "waiting"
    BY <1>4, <1>8, <2>1
  <2>2. CASE waiter[w].status # "waiting"
    <3>1. waiter[w].status = "drained" /\ waiter'[w].ids = waiter[w].ids
      BY <1>4, <1>8, <2>2
    <3>2. waiter[w].ids \cap AllActive(active) = {}
      BY <3>1 DEF WaitInv, WaiterNeverStranded
    <3> QED
      BY <1>1, <1>5, <3>1, <3>2
  <2> QED
    BY <2>1, <2>2
<1> QED
  BY <1>6, <1>7, <1>8 DEF WaitInv, WaiterNeverStranded

\* Every step of the queue keeps its waiters right.
LEMMA WaiterStep ==
  ASSUME TypeOK, TypeOK', QueueInv, WaitInv, [Next]_vars
  PROVE  WaitInv'
<1>1. ASSUME NEW c \in Calls, NEW l \in Lanes, NEW p \in PriorityOptions,
             NEW o \in TimeoutOptions, EnqueueCommandInLane(c, l, p, o)
      PROVE  WaitInv'
  <2>1. StartsOnly(active)
    BY <1>1, EnqueueKeeps
  <2>2. waiter' = waiter
    BY <1>1 DEF EnqueueCommandInLane
  <2> QED
    BY <2>1, <2>2, StartKeepsWaiters DEF StartsOnly
<1>2. ASSUME NEW l \in Lanes, NEW n \in Limits, SetCommandLaneConcurrency(l, n)
      PROVE  WaitInv'
  <2>1. StartsOnly(active)
    BY <1>2, LimitKeeps
  <2>2. waiter' = waiter
    BY <1>2 DEF SetCommandLaneConcurrency
  <2> QED
    BY <2>1, <2>2, StartKeepsWaiters DEF StartsOnly
<1>3. ASSUME NEW L \in SUBSET Lanes, ResetLanes(L) PROVE WaitInv'
  <2> DEFINE a == [l \in Lanes |-> IF l \in L THEN {} ELSE active[l]]
  <2>1. StartsOnly(a) /\ NotifyActiveTaskWaiters
    BY <1>3, ResetKeeps DEF ResetLanes
  <2>2. \A l \in Lanes : a[l] \subseteq active[l]
    OBVIOUS
  <2> HIDE DEF a
  <2> QED
    BY <2>1, <2>2, NotifyKeepsWaiters DEF StartsOnly
<1>4. ASSUME NEW c \in Calls, CompleteTask(c) PROVE WaitInv'
  <2> DEFINE a == [active EXCEPT ![entry[c].lane] = @ \ {c}]
  <2>1. (NotifyActiveTaskWaiters /\ StartsOnly(a)) \/ UNCHANGED <<active, body, waiter>>
    BY <1>4, CompleteKeeps
  <2>2. \A l \in Lanes : a[l] \subseteq active[l]
    BY DEF TypeOK
  <2> HIDE DEF a
  <2>3. CASE NotifyActiveTaskWaiters /\ StartsOnly(a)
    BY <2>2, <2>3, NotifyKeepsWaiters DEF StartsOnly
  <2>4. CASE UNCHANGED <<active, body, waiter>>
    BY <2>4, StartKeepsWaiters
  <2> QED
    BY <2>1, <2>3, <2>4
<1>5. ASSUME NEW w \in Waiters, NEW kind, WaitForActiveTasks(w, kind) PROVE WaitInv'
  <2> DEFINE x == [status |-> IF AllActive(active) = {} THEN "drained"
                              ELSE IF kind = "poll" THEN "timedout" ELSE "waiting",
                   ids |-> AllActive(active), timed |-> kind = "timed"]
  <2>1. /\ waiter' = [waiter EXCEPT ![w] = x]
        /\ active' = active /\ body' = body
    BY <1>5 DEF WaitForActiveTasks, laneVars, taskVars
  <2>2. /\ x.ids = AllActive(active)
        /\ x.status = "waiting" => AllActive(active) # {}
        /\ x.status = "drained" => AllActive(active) = {}
    OBVIOUS
  <2> HIDE DEF x
  <2>3. waiter'[w] = x /\ \A v \in Waiters : v # w => waiter'[v] = waiter[v]
    BY <2>1 DEF TypeOK
  <2>4. \A c \in AllActive(active) : c \in Calls /\ body[c] # "none"
    BY AllActiveMember DEF QueueInv, ActiveOK
  <2> QED
    BY <2>1, <2>2, <2>3, <2>4 DEF WaitInv, WaiterNeverStranded
<1>6. ASSUME NEW w \in Waiters, WaiterTimesOut(w) PROVE WaitInv'
  <2> DEFINE W == [status : {"none", "waiting", "drained", "timedout"},
                   ids : SUBSET Calls, timed : BOOLEAN]
  <2>1. \A x \in W : LET y == [x EXCEPT !.status = "timedout"]
                     IN y.status = "timedout" /\ y.ids = x.ids
    OBVIOUS
  <2>2. waiter[w] \in W
    BY DEF TypeOK
  <2> HIDE DEF W
  <2>3. /\ waiter'[w] = [waiter[w] EXCEPT !.status = "timedout"]
        /\ \A v \in Waiters : v # w => waiter'[v] = waiter[v]
    BY <1>6 DEF WaiterTimesOut, TypeOK
  <2>4. waiter'[w].status = "timedout" /\ waiter'[w].ids = waiter[w].ids
    BY <2>1, <2>2, <2>3
  <2>5. active' = active /\ body' = body
    BY <1>6 DEF WaiterTimesOut, laneVars, taskVars
  <2> QED
    BY <2>3, <2>4, <2>5 DEF WaitInv, WaiterNeverStranded
<1>7. ASSUME NEW c \in Calls, NEW outcome, TaskEnds(c, outcome) PROVE WaitInv'
  <2>1. active' = active /\ waiter' = waiter
    BY <1>7 DEF TaskEnds, laneVars
  <2>2. \A d \in Calls : body[d] # "none" => body'[d] # "none"
    BY <1>7 DEF TaskEnds, TypeOK
  <2> QED
    BY <2>1, <2>2, StartKeepsWaiters
<1>8. ASSUME UNCHANGED <<active, body, waiter>> PROVE WaitInv'
  BY <1>8, StartKeepsWaiters
<1>9. ASSUME NEW c \in Calls, RefuseEnqueue(c) PROVE WaitInv'
  BY <1>8, <1>9 DEF RefuseEnqueue, laneVars, taskVars
<1>10. ASSUME NEW l \in Lanes, ClearCommandLane(l) PROVE WaitInv'
  BY <1>8, <1>10 DEF ClearCommandLane, taskVars
<1>11. ASSUME NEW c \in Calls, TimeoutFires(c) PROVE WaitInv'
  BY <1>8, <1>11 DEF TimeoutFires, laneVars
<1>12. ASSUME NEW c \in Calls, NEW s \in Signals, FireSignal(c, s) PROVE WaitInv'
  BY <1>8, <1>12 DEF FireSignal, laneVars
<1>13. CASE UNCHANGED vars
  BY <1>8, <1>13 DEF vars, laneVars, taskVars
<1>14. ASSUME NEW l \in Lanes, ResetCommandLane(l) PROVE WaitInv'
  BY <1>3, <1>14 DEF ResetCommandLane
<1>15. ASSUME ResetAllLanes PROVE WaitInv'
  <2>1. known \in SUBSET Lanes
    BY DEF TypeOK
  <2> QED
    BY <1>3, <1>15, <2>1 DEF ResetAllLanes
<1> QED
  BY <1>1, <1>2, <1>4, <1>5, <1>6, <1>7, <1>9, <1>10, <1>11, <1>12, <1>13,
     <1>14, <1>15 DEF Next

\* waitForActiveTasks never misses the last completion and never reports a
\* drain while one of its tasks is still active, whatever starts, completes,
\* is reset or times out meanwhile.
THEOREM WaitersNeverStranded ==
  Spec => []WaiterNeverStranded
<1>1. Init => WaitInv
  BY DEF Init, WaitInv, WaiterNeverStranded
<1>2. TypeOK /\ QueueInv /\ (TypeOK /\ QueueInv)' /\ WaitInv /\ [Next]_vars => WaitInv'
  BY WaiterStep
<1>3. WaitInv => WaiterNeverStranded
  BY DEF WaitInv
<1> QED
  BY <1>1, <1>2, <1>3, QueueInvariant, PTL DEF Spec

-----------------------------------------------------------------------------
(* The queue implements CallPromise *)

\* What a step may do to one call.
CallStep(c) ==
  /\ body[c] # "none" => body'[c] # "none"
  /\ \/ promise'[c] = promise[c]
     \/ promise[c] = "none" /\ promise'[c] \in {"pending", "refused"}
     \/ promise[c] = "pending" /\ promise'[c] = "cleared" /\ body[c] = "none"
     \/ promise[c] = "pending" /\ promise'[c] \in Verdicts /\ body[c] # "none"

\* A drain starts bodies and ends none.
LEMMA DrainStarts ==
  ASSUME NEW L, NEW e, NEW q, NEW a, NEW m, NEW g, DrainLanes(L, e, q, a, m, g),
         NEW c \in Calls, body[c] # "none"
  PROVE  body'[c] # "none"
  BY DEF DrainLanes

\* Only these changes happen to a call, whichever call the step is about.
LEMMA CallSteps ==
  ASSUME TypeOK, QueueInv, [Next]_vars, NEW c \in Calls
  PROVE  CallStep(c)
<1>1. ASSUME NEW d \in Calls, NEW l \in Lanes, NEW p, NEW o, EnqueueCommandInLane(d, l, p, o)
      PROVE  CallStep(c)
  <2>1. body[c] # "none" => body'[c] # "none"
    BY <1>1, DrainStarts DEF EnqueueCommandInLane
  <2>2. promise[d] = "none" /\ promise' = [promise EXCEPT ![d] = "pending"]
    BY <1>1 DEF EnqueueCommandInLane
  <2>3. promise'[c] = promise[c] \/ (promise[c] = "none" /\ promise'[c] = "pending")
    BY <2>2 DEF TypeOK
  <2> QED
    BY <2>1, <2>3 DEF CallStep
<1>2. ASSUME NEW d \in Calls, RefuseEnqueue(d) PROVE CallStep(c)
  BY <1>2 DEF RefuseEnqueue, CallStep, TypeOK, taskVars
<1>3. ASSUME NEW l \in Lanes, NEW n \in Limits, SetCommandLaneConcurrency(l, n)
      PROVE  CallStep(c)
  <2>1. promise' = promise
    BY <1>3 DEF SetCommandLaneConcurrency, callVars
  <2>2. body[c] # "none" => body'[c] # "none"
    BY <1>3, DrainStarts DEF SetCommandLaneConcurrency
  <2> QED
    BY <2>1, <2>2 DEF CallStep
<1>4. ASSUME NEW l \in Lanes, ClearCommandLane(l) PROVE CallStep(c)
  <2>1. body' = body
    BY <1>4 DEF ClearCommandLane, taskVars
  <2>2. CASE \E i \in 1..Len(queue[l]) : queue[l][i] = c
    <3>1. promise[c] = "pending" /\ body[c] = "none"
      BY <2>2 DEF QueueInv, QueueOK
    <3>2. promise'[c] = "cleared"
      BY <1>4, <2>2 DEF ClearCommandLane
    <3> QED
      BY <2>1, <3>1, <3>2 DEF CallStep
  <2>3. CASE ~ \E i \in 1..Len(queue[l]) : queue[l][i] = c
    <3>1. promise'[c] = promise[c]
      BY <1>4, <2>3 DEF ClearCommandLane
    <3> QED
      BY <2>1, <3>1 DEF CallStep
  <2> QED
    BY <2>2, <2>3
<1>5. ASSUME NEW L, ResetLanes(L) PROVE CallStep(c)
  <2>1. promise' = promise
    BY <1>5 DEF ResetLanes, callVars
  <2>2. body[c] # "none" => body'[c] # "none"
    BY <1>5, DrainStarts DEF ResetLanes
  <2> QED
    BY <2>1, <2>2 DEF CallStep
<1>6. ASSUME NEW w \in Waiters, NEW kind, WaitForActiveTasks(w, kind) \/ WaiterTimesOut(w)
      PROVE  CallStep(c)
  BY <1>6 DEF WaitForActiveTasks, WaiterTimesOut, CallStep, taskVars, callVars
<1>7. ASSUME NEW d \in Calls, NEW outcome, TaskEnds(d, outcome) PROVE CallStep(c)
  BY <1>7 DEF TaskEnds, CallStep, TypeOK, callVars
<1>8. ASSUME NEW d \in Calls, TimeoutFires(d) PROVE CallStep(c)
  BY <1>8 DEF TimeoutFires, CallStep, callVars
<1>9. ASSUME NEW d \in Calls, NEW s \in Signals, FireSignal(d, s) PROVE CallStep(c)
  BY <1>9 DEF FireSignal, CallStep
<1>10. ASSUME NEW d \in Calls, CompleteTask(d) PROVE CallStep(c)
  <2>1. /\ promise[d] = "pending" /\ verdict[d] # "none"
        /\ promise' = [promise EXCEPT ![d] = verdict[d]]
    BY <1>10 DEF CompleteTask
  <2>2. body[d] # "none" /\ verdict[d] \in Verdicts
    BY <2>1 DEF QueueInv, CallOK, TypeOK
  <2>3. body[c] # "none" => body'[c] # "none"
    BY <1>10, DrainStarts DEF CompleteTask, taskVars
  <2>4. promise'[c] = promise[c] \/ (c = d /\ promise'[c] = verdict[d])
    BY <2>1 DEF TypeOK
  <2> QED
    BY <2>1, <2>2, <2>3, <2>4 DEF CallStep
<1>11. CASE UNCHANGED vars
  BY <1>11 DEF vars, taskVars, callVars, CallStep
<1> QED
  BY <1>1, <1>2, <1>3, <1>4, <1>5, <1>6, <1>7, <1>8, <1>9, <1>10, <1>11
     DEF Next, ResetCommandLane, ResetAllLanes

\* A step of a call is a move of its promise, or none.
LEMMA CallMoves ==
  ASSUME TypeOK, TypeOK', NEW c \in Calls, CallStep(c)
  PROVE  LifeOf(c)' # LifeOf(c) => <<LifeOf(c), LifeOf(c)'>> \in Promise!Moves
<1>1. /\ promise[c] \in Verdicts \cup {"cleared", "refused", "none", "pending"}
      /\ promise'[c] \in Verdicts \cup {"cleared", "refused", "none", "pending"}
  BY DEF TypeOK, Settled
<1>2. CASE promise[c] = "none"
  BY <1>1, <1>2 DEF CallStep, LifeOf, Started, Verdicts, Promise!Moves
<1>3. CASE promise[c] = "pending"
  BY <1>1, <1>3 DEF CallStep, LifeOf, Started, Verdicts, Promise!Moves
<1>4. CASE promise[c] \in Verdicts \cup {"cleared", "refused"}
  BY <1>1, <1>4 DEF CallStep, LifeOf, Started, Verdicts, Promise!Moves
<1> QED
  BY <1>1, <1>2, <1>3, <1>4

\* Where a call stands is always one of the stages of CallPromise.
LEMMA LifeType ==
  TypeOK => \A c \in Calls : LifeOf(c) \in Promise!Lives
<1> SUFFICES ASSUME TypeOK, NEW c \in Calls
             PROVE  LifeOf(c) \in Promise!Lives
  OBVIOUS
<1>1. promise[c] \in Verdicts \cup {"cleared", "refused", "none", "pending"}
  BY DEF TypeOK, Settled
<1> QED
  BY <1>1 DEF LifeOf, Started, Verdicts, Promise!Lives

\* The command queue implements what it promises its callers, for every number
\* of lanes, calls, limits and resets: enqueueCommandInLane runs a task at most
\* once, answers it once and after it ran, or turns it away unrun.
THEOREM QueueKeepsPromise ==
  Spec => KeepsPromise
<1>1. Init => Promise!Init
  <2> SUFFICES ASSUME Init PROVE Promise!Init
    OBVIOUS
  <2>1. ASSUME NEW c \in Calls PROVE LifeOf(c) = "idle"
    <3>1. promise[c] = "none"
      BY DEF Init
    <3> QED
      BY <3>1 DEF LifeOf, Verdicts
  <2> QED
    BY <2>1 DEF Promise!Init
<1>2. TypeOK /\ TypeOK' /\ QueueInv /\ [Next]_vars
        => [Promise!Next]_([c \in Calls |-> LifeOf(c)])
  <2> SUFFICES ASSUME TypeOK, TypeOK', QueueInv, [Next]_vars
               PROVE  Promise!Next
    OBVIOUS
  <2>1. (\A c \in Calls : LifeOf(c) \in Promise!Lives)'
    BY LifeType, PTL
  <2>2. \A c \in Calls : LifeOf(c)' # LifeOf(c) => <<LifeOf(c), LifeOf(c)'>> \in Promise!Moves
    BY CallSteps, CallMoves
  <2> QED
    BY <2>1, <2>2 DEF Promise!Next
<1> QED
  BY <1>1, <1>2, QueueInvariant, PTL DEF Spec, KeepsPromise, Promise!Spec

-----------------------------------------------------------------------------
(* One pump of one lane *)

\* The pump adds as many tasks to the active set as it takes from the queue.
LEMMA TakenCount ==
  ASSUME NEW q \in Seq(Calls), NEW a \in SUBSET Calls, NEW limit \in Nat,
         \A i, j \in 1..Len(q) : q[i] = q[j] => i = j,
         \A i \in 1..Len(q) : q[i] \notin a
  PROVE  Cardinality(a \cup Taken(q, a, limit))
           = Cardinality(a) + StartCount(q, a, limit)
<1> DEFINE n == StartCount(q, a, limit)
           T == Taken(q, a, limit)
           f == [i \in 1..n |-> q[i]]
<1>1. n \in 0..Len(q) /\ Len(q) \in Nat
  BY StartCountType, LenProperties
<1>2. T = {q[i] : i \in 1..n}
  BY DEF Taken
<1> HIDE DEF n, T
<1>3. f \in [1..n -> T] /\ \A t \in T : \E i \in 1..n : f[i] = t
  BY <1>2
<1>4. \A i, j \in 1..n : f[i] = f[j] => i = j
  BY <1>1
<1> HIDE DEF f
<1>5. f \in Bijection(1..n, T)
  BY <1>3, <1>4, Fun_IsBij
<1>6. ExistsBijection(1..n, T)
  BY <1>5 DEF ExistsBijection
<1>7. IsFiniteSet(1..n) /\ Cardinality(1..n) = n
  BY <1>1, FS_Interval
<1>8. IsFiniteSet(T) /\ Cardinality(T) = n
  BY <1>6, <1>7, FS_Bijection
<1>9. a \cap T = {}
  BY <1>1, <1>2
<1>10. IsFiniteSet(a) /\ Cardinality(a) \in Nat
  BY ActiveCount
<1>11. Cardinality(a \cup T) = Cardinality(a) + n - 0
  BY <1>8, <1>9, <1>10, FS_Union, FS_EmptySet
<1> QED
  BY <1>1, <1>10, <1>11 DEF n, T

\* A pump leaves entries only when the lane is full, and takes some only up to
\* the limit.
LEMMA PumpOutcome ==
  ASSUME NEW q \in Seq(Calls), NEW a \in SUBSET Calls, NEW limit \in Nat,
         \A i, j \in 1..Len(q) : q[i] = q[j] => i = j,
         \A i \in 1..Len(q) : q[i] \notin a
  PROVE  LET after == a \cup Taken(q, a, limit)
         IN /\ Rest(q, a, limit) # <<>> => Cardinality(after) >= limit
            /\ after # a => Cardinality(after) <= limit
<1> DEFINE n == StartCount(q, a, limit)
           after == a \cup Taken(q, a, limit)
<1>1. Cardinality(after) = Cardinality(a) + n
  BY TakenCount
<1>2. Cardinality(a) \in Nat /\ Len(q) \in Nat
  BY ActiveCount, LenProperties
<1>3. n = IF limit - Cardinality(a) <= 0 THEN 0
          ELSE IF limit - Cardinality(a) < Len(q) THEN limit - Cardinality(a) ELSE Len(q)
  BY DEF StartCount
<1>4. n = Len(q) => Rest(q, a, limit) = <<>>
  BY <1>2 DEF Rest
<1>5. n = 0 => after = a
  BY DEF Taken
<1> HIDE DEF n, after
<1>6. Rest(q, a, limit) # <<>> => Cardinality(after) >= limit
  BY <1>1, <1>2, <1>3, <1>4
<1>7. after # a => Cardinality(after) <= limit
  BY <1>1, <1>2, <1>3, <1>5
<1> QED
  BY <1>6, <1>7 DEF after

-----------------------------------------------------------------------------
(* Order *)

\* Outranks is a strict order of the entries.
LEMMA OutranksOrder ==
  ASSUME NEW e \in [Calls -> Entry], NEW x \in Calls, NEW y \in Calls, NEW z \in Calls
  PROVE  /\ ~(Outranks(e, x, y) /\ Outranks(e, y, x))
         /\ Outranks(e, x, y) /\ Outranks(e, y, z) => Outranks(e, x, z)
<1>1. \A c \in Calls : e[c].priority \in Int /\ e[c].sequence \in Int
  BY DEF Entry
<1> QED
  BY <1>1 DEF Outranks

\* No entry of a queue outranks one before it.
SortedQueue(e, q) ==
  \A i, j \in 1..Len(q) : i < j => ~Outranks(e, q[j], q[i])

Sorted(e, q) == \A l \in Lanes : SortedQueue(e, q[l])

\* enqueueLaneEntry keeps a queue sorted: it inserts before the first entry
\* that the new one outranks, and what follows that entry does not outrank it.
LEMMA EnqueueSorted ==
  ASSUME NEW e \in [Calls -> Entry], NEW q \in Seq(Calls), NEW c \in Calls,
         SortedQueue(e, q)
  PROVE  SortedQueue(e, EnqueueLaneEntry(e, q, c))
<1> DEFINE n == Len(q)
           x == InsertPosition(e, q, c)
           f == [j \in 1..(n + 1) |-> IF j < x THEN q[j] ELSE IF j = x THEN c ELSE q[j - 1]]
<1>1. /\ n \in Nat /\ x \in 1..(n + 1)
      /\ x <= n => Outranks(e, c, q[x])
      /\ \A j \in 1..(x - 1) : ~Outranks(e, c, q[j])
  BY LenProperties, InsertPositionExists
<1>2. f = EnqueueLaneEntry(e, q, c) /\ f \in Seq(Calls)
  BY EnqueueLaneEntryType DEF EnqueueLaneEntry
<1>3. Len(f) = n + 1
  BY <1>1, <1>2, LenProperties
<1>4. \A j \in 1..(n + 1) : f[j] = IF j < x THEN q[j] ELSE IF j = x THEN c ELSE q[j - 1]
  OBVIOUS
<1>5. \A j \in 1..n : q[j] \in Calls
  BY ElementOfSeq
<1>6. \A i, j \in 1..n : i < j => ~Outranks(e, q[j], q[i])
  BY DEF SortedQueue
<1> HIDE DEF f, x, n
<1>7. \A k \in 1..n : k >= x => ~Outranks(e, q[k], c)
  <2> SUFFICES ASSUME NEW k \in 1..n, k >= x, Outranks(e, q[k], c) PROVE FALSE
    OBVIOUS
  <2>1. x \in 1..n /\ Outranks(e, c, q[x]) /\ q[x] \in Calls /\ q[k] \in Calls
    BY <1>1, <1>5
  <2>2. Outranks(e, q[k], q[x])
    BY <2>1, OutranksOrder
  <2>3. k # x
    BY <2>1, OutranksOrder
  <2> QED
    BY <1>1, <1>6, <2>1, <2>2, <2>3
<1>8. ASSUME NEW i \in 1..(n + 1), NEW j \in 1..(n + 1), i < j
      PROVE  ~Outranks(e, f[j], f[i])
  <2>1. CASE j < x
    BY <1>1, <1>4, <1>6, <1>8, <2>1
  <2>2. CASE j = x
    <3>1. f[j] = c /\ f[i] = q[i] /\ i \in 1..(x - 1)
      BY <1>1, <1>4, <1>8, <2>2
    <3> QED
      BY <1>1, <3>1
  <2>3. CASE j > x
    <3>1. f[j] = q[j - 1] /\ j - 1 \in 1..n /\ j - 1 >= x
      BY <1>1, <1>4, <2>3
    <3>2. CASE i = x
      BY <1>1, <1>4, <1>7, <3>1, <3>2
    <3>3. CASE i < x
      <4>1. f[i] = q[i] /\ i \in 1..n /\ i < j - 1
        BY <1>1, <1>4, <2>3, <3>3
      <4> QED
        BY <1>6, <3>1, <4>1
    <3>4. CASE i > x
      <4>1. f[i] = q[i - 1] /\ i - 1 \in 1..n /\ i - 1 < j - 1
        BY <1>1, <1>4, <1>8, <3>4
      <4> QED
        BY <1>6, <3>1, <4>1
    <3> QED
      BY <1>1, <3>2, <3>3, <3>4
  <2> QED
    BY <1>1, <2>1, <2>2, <2>3
<1> QED
  BY <1>2, <1>3, <1>8 DEF SortedQueue

-----------------------------------------------------------------------------
(* Steps that drain lanes *)

\* A step that drains the lanes L with the queues q, active sets a and limits
\* m, when nothing else happened to the other lanes than losing their limit.
IsDrain(L, q, a, m, g) ==
  /\ L \in SUBSET Lanes /\ q \in [Lanes -> Seq(Calls)]
  /\ a \in [Lanes -> SUBSET Calls] /\ m \in [Lanes -> Nat] /\ g \in [Lanes -> Nat]
  /\ entry' \in [Calls -> Entry]
  /\ DrainLanes(L, entry', q, a, m, g)
  /\ \A l \in Lanes : \A i, j \in 1..Len(q[l]) : q[l][i] = q[l][j] => i = j
  /\ \A l \in Lanes : \A i \in 1..Len(q[l]) :
       body[q[l][i]] = "none" /\ entry'[q[l][i]].lane = l
  /\ \A l \in Lanes : a[l] \subseteq active[l]
  /\ \A l \in Lanes \ L : q[l] = queue[l] /\ a[l] = active[l]
                          /\ m[l] \in {0, maxConcurrent[l]}
  /\ Sorted(entry', q)

\* Capacity: such a step leaves no idle lane and no lane filled over its limit.
LEMMA DrainCapacity ==
  ASSUME TypeOK, QueueInv, NoIdleLane, NEW L, NEW q, NEW a, NEW m, NEW g,
         IsDrain(L, q, a, m, g)
  PROVE  NoIdleLane' /\ LimitStep
<1>1. /\ L \in SUBSET Lanes /\ q \in [Lanes -> Seq(Calls)]
      /\ a \in [Lanes -> SUBSET Calls] /\ m \in [Lanes -> Nat]
      /\ DrainLanes(L, entry', q, a, m, g)
      /\ \A l \in Lanes : \A i, j \in 1..Len(q[l]) : q[l][i] = q[l][j] => i = j
      /\ \A l \in Lanes : \A i \in 1..Len(q[l]) : body[q[l][i]] = "none"
      /\ \A l \in Lanes : a[l] \subseteq active[l]
      /\ \A l \in Lanes \ L : q[l] = queue[l] /\ a[l] = active[l]
                              /\ m[l] \in {0, maxConcurrent[l]}
  BY Zenon DEF IsDrain
<1>2. \A l \in Lanes : \A c \in active[l] : body[c] # "none"
  BY DEF QueueInv, ActiveOK
<1>3. ASSUME NEW l \in L
      PROVE  /\ queue'[l] # <<>> => Cardinality(active'[l]) >= m[l]
             /\ active'[l] # a[l] => Cardinality(active'[l]) <= m[l]
  <2>1. l \in Lanes
    BY <1>1
  <2> DEFINE Q == q[l]
             A == a[l]
             M == m[l]
  <2>2. Q \in Seq(Calls) /\ A \in SUBSET Calls /\ M \in Nat
    BY <1>1, <2>1
  <2>3. \A i, j \in 1..Len(Q) : Q[i] = Q[j] => i = j
    BY <1>1, <2>1, Zenon
  <2>4. \A i \in 1..Len(Q) : Q[i] \notin A
    BY <1>1, <1>2, <2>1
  <2>5. queue'[l] = Rest(Q, A, M) /\ active'[l] = A \cup Taken(Q, A, M)
    BY <1>1, <2>1 DEF DrainLanes
  <2> HIDE DEF Q, A, M
  <2>6. /\ Rest(Q, A, M) # <<>> => Cardinality(A \cup Taken(Q, A, M)) >= M
        /\ A \cup Taken(Q, A, M) # A => Cardinality(A \cup Taken(Q, A, M)) <= M
    BY <2>2, <2>3, <2>4, PumpOutcome
  <2> QED
    BY <2>5, <2>6 DEF A, M
<1>4. ASSUME NEW l \in Lanes, l \notin L
      PROVE  queue'[l] = queue[l] /\ active'[l] = active[l]
  BY <1>1, <1>4 DEF DrainLanes
<1>5. maxConcurrent' = m
  BY <1>1 DEF DrainLanes
<1>6. NoIdleLane'
  <2> SUFFICES ASSUME NEW l \in Lanes, queue'[l] # <<>>
               PROVE  Cardinality(active'[l]) >= m[l]
    BY <1>5 DEF NoIdleLane
  <2>1. CASE l \in L
    BY <1>3, <2>1
  <2>2. CASE l \notin L
    <3>1. Cardinality(active'[l]) >= maxConcurrent[l]
      BY <1>4, <2>2 DEF NoIdleLane
    <3>2. active[l] \in SUBSET Calls /\ active'[l] = active[l]
      BY <1>4, <2>2 DEF TypeOK
    <3>3. Cardinality(active'[l]) \in Nat
      BY <3>2, ActiveCount
    <3>4. m[l] \in {0, maxConcurrent[l]}
      BY <1>1, <2>2
    <3> QED
      BY <3>1, <3>3, <3>4
  <2> QED
    BY <2>1, <2>2
<1>7. LimitStep
  <2> SUFFICES ASSUME NEW l \in Lanes, active'[l] \ active[l] # {}
               PROVE  Cardinality(active'[l]) <= m[l]
    BY <1>5 DEF LimitStep
  <2>1. l \in L
    BY <1>4
  <2>2. active'[l] # a[l]
    BY <1>1
  <2> QED
    BY <1>3, <2>1, <2>2
<1> QED
  BY <1>6, <1>7

\* Order: such a step starts what was in front, and the rest stays sorted.
LEMMA DrainOrder ==
  ASSUME TypeOK, NEW L, NEW q, NEW a, NEW m, NEW g, IsDrain(L, q, a, m, g)
  PROVE  Sorted(entry', queue') /\ OrderStep
<1>1. /\ L \in SUBSET Lanes /\ q \in [Lanes -> Seq(Calls)]
      /\ a \in [Lanes -> SUBSET Calls] /\ m \in [Lanes -> Nat]
      /\ DrainLanes(L, entry', q, a, m, g)
      /\ \A l \in Lanes : \A i \in 1..Len(q[l]) : entry'[q[l][i]].lane = l
      /\ Sorted(entry', q)
  BY Zenon DEF IsDrain
<1>2. \A l \in Lanes : \A i, j \in 1..Len(q[l]) : i < j => ~Outranks(entry', q[l][j], q[l][i])
  BY <1>1, Zenon DEF Sorted, SortedQueue
<1>3. ASSUME NEW l \in Lanes, l \notin L PROVE queue'[l] = q[l]
  BY <1>1, <1>3 DEF DrainLanes
<1>4. ASSUME NEW l \in L
      PROVE  \E n \in Nat :
               /\ n <= Len(q[l]) /\ Len(q[l]) \in Nat
               /\ Len(queue'[l]) = Len(q[l]) - n
               /\ \A i \in 1..(Len(q[l]) - n) : queue'[l][i] = q[l][n + i]
               /\ \A c : c \in Taken(q[l], a[l], m[l]) => \E i \in 1..n : q[l][i] = c
  <2>1. l \in Lanes
    BY <1>1
  <2> DEFINE Q == q[l]
             A == a[l]
             M == m[l]
  <2>2. Q \in Seq(Calls) /\ A \in SUBSET Calls /\ M \in Nat
    BY <1>1, <2>1
  <2>3. queue'[l] = Rest(Q, A, M)
    BY <1>1, <2>1 DEF DrainLanes
  <2> HIDE DEF Q, A, M
  <2>4. /\ StartCount(Q, A, M) \in Nat /\ Len(Q) \in Nat
        /\ StartCount(Q, A, M) <= Len(Q)
        /\ Len(Rest(Q, A, M)) = Len(Q) - StartCount(Q, A, M)
        /\ \A i \in 1..(Len(Q) - StartCount(Q, A, M)) :
             Rest(Q, A, M)[i] = Q[StartCount(Q, A, M) + i]
        /\ \A c : c \in Taken(Q, A, M) <=> \E i \in 1..StartCount(Q, A, M) : Q[i] = c
    BY <2>2, Split, Zenon
  <2> DEFINE n == StartCount(Q, A, M)
  <2>5. /\ n \in Nat /\ n <= Len(Q) /\ Len(Q) \in Nat
        /\ Len(queue'[l]) = Len(Q) - n
        /\ \A i \in 1..(Len(Q) - n) : queue'[l][i] = Q[n + i]
        /\ \A c : c \in Taken(Q, A, M) => \E i \in 1..n : Q[i] = c
    BY <2>3, <2>4
  <2> HIDE DEF n
  <2> QED
    BY <2>5, Zenon DEF Q, A, M
<1>5. Sorted(entry', queue')
  <2> SUFFICES ASSUME NEW l \in Lanes, NEW i \in 1..Len(queue'[l]),
                      NEW j \in 1..Len(queue'[l]), i < j
               PROVE  ~Outranks(entry', queue'[l][j], queue'[l][i])
    BY Zenon DEF Sorted, SortedQueue
  <2>1. CASE l \notin L
    BY <1>2, <1>3, <2>1
  <2>2. CASE l \in L
    <3>1. PICK n \in Nat : /\ n <= Len(q[l]) /\ Len(q[l]) \in Nat
                           /\ Len(queue'[l]) = Len(q[l]) - n
                           /\ \A k \in 1..(Len(q[l]) - n) : queue'[l][k] = q[l][n + k]
      BY <1>4, <2>2, Zenon
    <3>2. n + i \in 1..Len(q[l]) /\ n + j \in 1..Len(q[l]) /\ n + i < n + j
      BY <3>1
    <3>3. queue'[l][i] = q[l][n + i] /\ queue'[l][j] = q[l][n + j]
      BY <3>1
    <3> QED
      BY <1>2, <3>2, <3>3
  <2> QED
    BY <2>1, <2>2
<1>6. OrderStep
  <2> SUFFICES ASSUME NEW c \in Calls, ~Started(c), Started(c)',
                      NEW i \in 1..Len(queue'[entry'[c].lane])
               PROVE  ~Outranks(entry', queue'[entry'[c].lane][i], c)
    BY DEF OrderStep
  <2>1. PICK l \in L : c \in Taken(q[l], a[l], m[l])
    <3>1. body' = [d \in Calls |-> IF d \in UNION {Taken(q[l], a[l], m[l]) : l \in L}
                                   THEN "running" ELSE body[d]]
      BY <1>1 DEF DrainLanes
    <3>2. c \in UNION {Taken(q[l], a[l], m[l]) : l \in L}
      BY <3>1 DEF Started
    <3> QED
      BY <3>2
  <2>2. l \in Lanes
    BY <1>1
  <2>3. PICK n \in Nat : /\ n <= Len(q[l]) /\ Len(q[l]) \in Nat
                         /\ Len(queue'[l]) = Len(q[l]) - n
                         /\ \A k \in 1..(Len(q[l]) - n) : queue'[l][k] = q[l][n + k]
                         /\ \E k \in 1..n : q[l][k] = c
    BY <1>4, <2>1, Zenon
  <2>4. PICK k \in 1..n : q[l][k] = c
    BY <2>3
  <2>5. k \in 1..Len(q[l])
    BY <2>3
  <2>6. entry'[c].lane = l
    BY <1>1, <2>2, <2>4, <2>5
  <2>7. n + i \in 1..Len(q[l]) /\ k < n + i /\ queue'[l][i] = q[l][n + i]
    BY <2>3, <2>6
  <2> QED
    BY <1>2, <2>2, <2>4, <2>5, <2>6, <2>7
<1> QED
  BY <1>5, <1>6

-----------------------------------------------------------------------------
(* Every step *)

\* The inductive invariant: no idle lane, and every queue sorted.
LaneInv == NoIdleLane /\ Sorted(entry, queue)

\* What every step does: it keeps the invariant, the limits and the order.
LaneStep == LaneInv' /\ LimitStep /\ OrderStep

\* A step that drains lanes as IsDrain says is a good one.
LEMMA DrainIsGood ==
  ASSUME TypeOK, QueueInv, LaneInv, NEW L, NEW q, NEW a, NEW m, NEW g,
         IsDrain(L, q, a, m, g)
  PROVE  LaneStep
  BY DrainCapacity, DrainOrder DEF LaneInv, LaneStep

\* So is one that starts nothing and at most empties queues.
LEMMA QuietIsGood ==
  ASSUME LaneInv, active' = active, maxConcurrent' = maxConcurrent, entry' = entry,
         \A c \in Calls : body[c] = "none" => body'[c] = "none",
         \A l \in Lanes : queue'[l] = queue[l] \/ queue'[l] = <<>>
  PROVE  LaneStep
<1>1. NoIdleLane'
  BY DEF LaneInv, NoIdleLane
<1>2. Sorted(entry', queue')
  <2> SUFFICES ASSUME NEW l \in Lanes PROVE SortedQueue(entry, queue'[l])
    BY DEF Sorted
  <2>1. CASE queue'[l] = queue[l]
    BY <2>1 DEF LaneInv, Sorted
  <2>2. CASE queue'[l] = <<>>
    BY <2>2 DEF SortedQueue
  <2> QED
    BY <2>1, <2>2
<1>3. LimitStep /\ OrderStep
  BY DEF LimitStep, OrderStep, Started
<1> QED
  BY <1>1, <1>2, <1>3 DEF LaneStep, LaneInv

\* The lanes' queues before a step agree with the entries.
LEMMA QueuedFacts ==
  ASSUME QueueInv
  PROVE  /\ \A l \in Lanes : \A i, j \in 1..Len(queue[l]) : queue[l][i] = queue[l][j] => i = j
         /\ \A l \in Lanes : \A i \in 1..Len(queue[l]) :
              body[queue[l][i]] = "none" /\ entry[queue[l][i]].lane = l
  BY Zenon DEF QueueInv, QueueOK

\* A drain of the queues as they are, with limits m that other lanes keep or
\* lose, is one that IsDrain describes.
LEMMA DrainOfQueues ==
  ASSUME TypeOK, QueueInv, LaneInv, NEW L \in SUBSET Lanes,
         NEW a \in [Lanes -> SUBSET Calls], NEW m \in [Lanes -> Nat],
         NEW g \in [Lanes -> Nat], entry' = entry,
         DrainLanes(L, entry, queue, a, m, g),
         \A l \in Lanes : a[l] \subseteq active[l],
         \A l \in Lanes \ L : a[l] = active[l] /\ m[l] \in {0, maxConcurrent[l]}
  PROVE  LaneStep
<1>1. queue \in [Lanes -> Seq(Calls)] /\ entry \in [Calls -> Entry]
  BY DEF TypeOK
<1>2. Sorted(entry, queue)
  BY DEF LaneInv
<1>3. IsDrain(L, queue, a, m, g)
  BY <1>1, <1>2, QueuedFacts DEF IsDrain
<1> QED
  BY <1>3, DrainIsGood

\* Every step of the queue keeps lanes busy, within limits and in order.
LEMMA LaneStepGood ==
  ASSUME TypeOK, TypeOK', QueueInv, LaneInv, [Next]_vars
  PROVE  LaneStep
<1>t. /\ queue \in [Lanes -> Seq(Calls)] /\ active \in [Lanes -> SUBSET Calls]
      /\ maxConcurrent \in [Lanes -> Nat] /\ generation \in [Lanes -> Nat]
      /\ entry \in [Calls -> Entry] /\ entry' \in [Calls -> Entry]
  BY DEF TypeOK
<1>1. ASSUME NEW c \in Calls, NEW l \in Lanes, NEW p \in PriorityOptions,
             NEW o \in TimeoutOptions, EnqueueCommandInLane(c, l, p, o)
      PROVE  LaneStep
  <2> DEFINE r == EnqueueLaneEntry(entry', queue[l], c)
             q == [queue EXCEPT ![l] = r]
  <2>1. QueueOK(q, entry', body, promise')
    BY <1>1, EnqueueKeeps
  <2>2. DrainLanes({l}, entry', q, active, maxConcurrent, generation)
    BY <1>1 DEF EnqueueCommandInLane
  <2>3. queue[l] \in Seq(Calls) /\ r \in Seq(Calls) /\ q \in [Lanes -> Seq(Calls)]
    BY <1>t, EnqueueLaneEntryType
  <2>4. q[l] = r /\ \A k \in Lanes : k # l => q[k] = queue[k]
    BY <1>t
  <2>5. /\ promise[c] = "none"
        /\ \A d \in Calls : d # c => entry'[d] = entry[d]
    BY <1>1, <1>t DEF EnqueueCommandInLane
  <2>6. \A k \in Lanes : \A i \in 1..Len(queue[k]) : entry'[queue[k][i]] = entry[queue[k][i]]
    <3>1. \A k \in Lanes : \A i \in 1..Len(queue[k]) : promise[queue[k][i]] = "pending"
      BY Zenon DEF QueueInv, QueueOK
    <3>2. \A k \in Lanes : queue[k] \in Seq(Calls)
      BY <1>t
    <3>3. \A k \in Lanes : \A i \in 1..Len(queue[k]) : queue[k][i] \in Calls
      BY <3>2, ElementOfSeq
    <3> QED
      BY <2>5, <3>1, <3>3
  <2>7. \A k \in Lanes : SortedQueue(entry', queue[k])
    BY <2>6 DEF LaneInv, Sorted, SortedQueue, Outranks
  <2>8. SortedQueue(entry', r)
    BY <1>t, <2>3, <2>7, EnqueueSorted
  <2> HIDE DEF r
  <2>9. Sorted(entry', q)
    BY <2>4, <2>7, <2>8 DEF Sorted
  <2> HIDE DEF q
  <2>10. /\ \A k \in Lanes : \A i, j \in 1..Len(q[k]) : q[k][i] = q[k][j] => i = j
         /\ \A k \in Lanes : \A i \in 1..Len(q[k]) :
              body[q[k][i]] = "none" /\ entry'[q[k][i]].lane = k
    BY <2>1, Zenon DEF QueueOK
  <2>11. \A k \in Lanes \ {l} : q[k] = queue[k] /\ active[k] = active[k]
                                /\ maxConcurrent[k] \in {0, maxConcurrent[k]}
    BY <2>4
  <2>12. IsDrain({l}, q, active, maxConcurrent, generation)
    BY <1>t, <2>2, <2>3, <2>9, <2>10, <2>11 DEF IsDrain
  <2> QED
    BY <2>12, DrainIsGood
<1>2. ASSUME NEW l \in Lanes, NEW n \in Limits, SetCommandLaneConcurrency(l, n)
      PROVE  LaneStep
  <2> DEFINE limit == IF l \in ProbeLanes /\ n < 1 THEN 1 ELSE n
             m == [maxConcurrent EXCEPT ![l] = limit]
             L == IF limit > 0 THEN {l} ELSE {}
  <2>1. m \in [Lanes -> Nat] /\ L \in SUBSET Lanes /\ limit \in Nat
    BY <1>t, QueueAssumption
  <2>2. DrainLanes(L, entry, queue, active, m, generation) /\ entry' = entry
    BY <1>2 DEF SetCommandLaneConcurrency, callVars
  <2>3. \A k \in Lanes \ L : m[k] \in {0, maxConcurrent[k]}
    BY <1>t, <2>1
  <2> HIDE DEF m, L, limit
  <2> QED
    BY <1>t, <2>1, <2>2, <2>3, DrainOfQueues
<1>3. ASSUME NEW L \in SUBSET Lanes, ResetLanes(L) PROVE LaneStep
  <2> DEFINE a == [l \in Lanes |-> IF l \in L THEN {} ELSE active[l]]
             g == [l \in Lanes |-> generation[l] + IF l \in L THEN 1 ELSE 0]
  <2>1. a \in [Lanes -> SUBSET Calls] /\ g \in [Lanes -> Nat]
    BY <1>t
  <2>2. DrainLanes(L, entry, queue, a, maxConcurrent, g) /\ entry' = entry
    BY <1>3 DEF ResetLanes, callVars
  <2>3. /\ \A l \in Lanes : a[l] \subseteq active[l]
        /\ \A l \in Lanes \ L : a[l] = active[l]
                                /\ maxConcurrent[l] \in {0, maxConcurrent[l]}
    OBVIOUS
  <2> HIDE DEF a, g
  <2> QED
    BY <1>t, <2>1, <2>2, <2>3, DrainOfQueues
<1>4. ASSUME NEW c \in Calls, CompleteTask(c) PROVE LaneStep
  <2> DEFINE l == entry[c].lane
             a == [active EXCEPT ![l] = @ \ {c}]
  <2>1. l \in Lanes
    BY <1>t DEF Entry
  <2>2. entry' = entry
    BY <1>4 DEF CompleteTask
  <2>3. CASE DrainLanes({l}, entry, queue, a, maxConcurrent, generation)
    <3>1. /\ a \in [Lanes -> SUBSET Calls] /\ {l} \in SUBSET Lanes
          /\ \A k \in Lanes : a[k] \subseteq active[k]
          /\ \A k \in Lanes \ {l} : a[k] = active[k]
                                    /\ maxConcurrent[k] \in {0, maxConcurrent[k]}
      BY <1>t, <2>1
    <3> HIDE DEF a, l
    <3> QED
      BY <1>t, <2>2, <2>3, <3>1, DrainOfQueues
  <2>4. CASE UNCHANGED <<queue, active, maxConcurrent, body>>
    BY <2>2, <2>4, QuietIsGood
  <2> QED
    BY <1>4, <2>3, <2>4 DEF CompleteTask, taskVars
<1>5. ASSUME NEW l \in Lanes, ClearCommandLane(l) PROVE LaneStep
  BY <1>5, <1>t, QuietIsGood DEF ClearCommandLane, taskVars
<1>6. ASSUME NEW c \in Calls, NEW outcome, TaskEnds(c, outcome) PROVE LaneStep
  <2>1. \A d \in Calls : body[d] = "none" => body'[d] = "none"
    BY <1>6 DEF TaskEnds, TypeOK
  <2> QED
    BY <1>6, <2>1, QuietIsGood DEF TaskEnds, laneVars, callVars
<1>7. ASSUME UNCHANGED <<queue, active, maxConcurrent, entry, body>> PROVE LaneStep
  BY <1>7, QuietIsGood
<1>8. ASSUME NEW c \in Calls, RefuseEnqueue(c) PROVE LaneStep
  BY <1>7, <1>8 DEF RefuseEnqueue, laneVars, taskVars
<1>9. ASSUME NEW w \in Waiters, NEW kind, WaitForActiveTasks(w, kind) PROVE LaneStep
  BY <1>7, <1>9 DEF WaitForActiveTasks, laneVars, taskVars, callVars
<1>10. ASSUME NEW w \in Waiters, WaiterTimesOut(w) PROVE LaneStep
  BY <1>7, <1>10 DEF WaiterTimesOut, laneVars, taskVars, callVars
<1>11. ASSUME NEW c \in Calls, TimeoutFires(c) PROVE LaneStep
  BY <1>7, <1>11 DEF TimeoutFires, laneVars, callVars
<1>12. ASSUME NEW c \in Calls, NEW s \in Signals, FireSignal(c, s) PROVE LaneStep
  BY <1>7, <1>12 DEF FireSignal, laneVars
<1>13. CASE UNCHANGED vars
  BY <1>7, <1>13 DEF vars, laneVars, taskVars, callVars
<1>14. ASSUME NEW l \in Lanes, ResetCommandLane(l) PROVE LaneStep
  BY <1>3, <1>14 DEF ResetCommandLane
<1>15. ASSUME ResetAllLanes PROVE LaneStep
  <2>1. known \in SUBSET Lanes
    BY DEF TypeOK
  <2> QED
    BY <1>3, <1>15, <2>1 DEF ResetAllLanes
<1> QED
  BY <1>1, <1>2, <1>4, <1>5, <1>6, <1>8, <1>9, <1>10, <1>11, <1>12, <1>13,
     <1>14, <1>15 DEF Next

\* Nothing waits at first.
LEMMA LaneInit ==
  ASSUME Init
  PROVE  LaneInv
<1>1. \A l \in Lanes : queue[l] = <<>> /\ Len(queue[l]) = 0
  BY DEF Init
<1> QED
  BY <1>1 DEF LaneInv, NoIdleLane, Sorted, SortedQueue

-----------------------------------------------------------------------------
(* Theorems *)

\* Work conservation for every number of lanes, calls and limits: whatever
\* completions, resets and limit changes interleave, every path of
\* command-queue.ts that frees a slot also pumps the lane.
THEOREM LanesNeverIdle ==
  Spec => []NoIdleLane
<1>1. Init => LaneInv
  BY LaneInit
<1>2. TypeOK /\ QueueInv /\ (TypeOK /\ QueueInv)' /\ LaneInv /\ [Next]_vars => LaneInv'
  BY LaneStepGood DEF LaneStep
<1>3. LaneInv => NoIdleLane
  BY DEF LaneInv
<1> QED
  BY <1>1, <1>2, <1>3, QueueInvariant, PTL DEF Spec

\* A call starts in its turn: no step starts tasks beyond maxConcurrent, also
\* when a limit was lowered below the number of running tasks and raised again,
\* and when a task starts nothing left in its queue outranks it.
THEOREM StartedInTurn ==
  Spec => StartsInTurn
<1>1. Init => LaneInv
  BY LaneInit
<1>2. TypeOK /\ QueueInv /\ (TypeOK /\ QueueInv)' /\ LaneInv /\ [Next]_vars => LaneInv'
  BY LaneStepGood DEF LaneStep
<1>3. TypeOK /\ QueueInv /\ (TypeOK /\ QueueInv)' /\ LaneInv /\ [Next]_vars
      => [LimitStep /\ OrderStep]_vars
  BY LaneStepGood DEF LaneStep
<1> QED
  BY <1>1, <1>2, <1>3, QueueInvariant, PTL DEF Spec, StartsInTurn
=============================================================================
