--------------------------- MODULE SessionLifecycle ---------------------------
(***************************************************************************)
(* Who may work on a session while somebody resets or deletes it:          *)
(* src/src/sessions/session-lifecycle-admission.ts with its handoffs, on   *)
(* top of the writer queues of src/src/shared/store-writer-queue.ts.       *)
(*                                                                         *)
(* A session is known under several identities (its key, its id, aliases). *)
(* Work is admitted, and mutations run, on a set of them.  Both take the   *)
(* lock of each identity in sorted order; identities are numbers in that   *)
(* order.  A lock is a writer queue: its first member holds it.            *)
(*                                                                         *)
(* A mutation marks its identities first, then interrupts the work that is *)
(* admitted on them outside the locks, and only then takes the locks again *)
(* for its body.  The session store has a writer queue of its own, which   *)
(* bodies, maintenance and the last check of an admission go through.      *)
(* Admissions opened from inside a store writer and mutations nested in    *)
(* the body of another are left out.                                       *)
(***************************************************************************)
EXTENDS Naturals, Sequences, FiniteSets

CONSTANTS
  Identities,    \* normalizeSessionIdentities, in its order
  Works,         \* calls of beginSessionWorkAdmission
  Mutations,     \* calls of runExclusiveSessionLifecycleMutation
  Sweeps,        \* maintenance runs of the session store
  Aliases,       \* which identities the calls may be made for
  Signals,       \* calls that are given an AbortSignal
  None

Ops == Works \cup Mutations

ASSUME LifecycleAssumption ==
  /\ Identities \subseteq Nat /\ IsFiniteSet(Identities)
  /\ Aliases \subseteq [Ops -> (SUBSET Identities) \ {{}}]
  /\ Works \cap Mutations = {} /\ Sweeps \cap Ops = {}
  /\ Signals \subseteq Ops /\ None \notin Works

VARIABLES
  ids,           \* the identities of a call
  pc,
  mutationQ,     \* SESSION_LIFECYCLE_MUTATION_QUEUES
  identityQ,     \* SESSION_LIFECYCLE_QUEUES
  writerQ,       \* WRITER_QUEUES of the session store
  active,        \* ACTIVE_SESSION_LIFECYCLE_MUTATIONS
  admitted,      \* ACTIVE_SESSION_WORK_ADMISSIONS
  idle,          \* SESSION_LIFECYCLE_IDLE_WAITERS of a call that still hold it up
  initiator,     \* callerAdmissions: the admitted work a mutation is called from
  draining,      \* admissions whose release a mutation awaits
  drained,       \* admittedWorkReleased
  interrupted,   \* admission.interrupted
  told,          \* the current owner of the admission has had its onInterrupt
  offered,       \* SESSION_WORK_ADMISSION_HANDOFFS
  aborted,       \* signals that have fired
  preserve,      \* what a sweep leaves alone
  gone           \* sessions that no longer exist

lockVars == <<mutationQ, identityQ, writerQ>>
drainVars == <<draining, drained, interrupted, told>>
envVars == <<aborted, preserve, gone>>
vars == <<ids, pc, lockVars, active, admitted, idle, initiator, drainVars, offered,
          envVars>>

Overlap(a, b) == ids[a] \cap ids[b] # {}

Goto(a, to) == pc' = [pc EXCEPT ![a] = to]

-----------------------------------------------------------------------------
(* The writer queues as locks *)

Joined(q, a) == {i \in Identities : \E n \in 1..Len(q[i]) : q[i][n] = a}

Held(q, a) == {i \in Identities : q[i] # <<>> /\ Head(q[i]) = a}

\* Seeded fault: mutations take the locks as they were given, here backwards.
LockAsGiven(a, left) ==
  IF a \in Works THEN CHOOSE i \in left : \A j \in left : i <= j
  ELSE CHOOSE i \in left : \A j \in left : j <= i

\* The identities are sorted.
NextLock(a, left) == CHOOSE i \in left : \A j \in left : i <= j

\* runQueuedStoreWrite for the next identity, inside the locks of those before.
CanJoin(q, a) == Joined(q, a) = Held(q, a) /\ Joined(q, a) # ids[a]

Join(q, a) == [q EXCEPT ![NextLock(a, ids[a] \ Joined(q, a))] = Append(@, a)]

Holds(q, a) == ids[a] \subseteq Held(q, a)

\* The functions passed to the queues return, and the next in line may run.
Leave(q, a) == [i \in Identities |-> IF i \in ids[a] THEN Tail(q[i]) ELSE q[i]]

WriterIs(a) == writerQ # <<>> /\ Head(writerQ) = a

-----------------------------------------------------------------------------
(* runExclusiveSessionLifecycle and beginSessionWorkAdmission *)

\* hasActiveSessionLifecycleMutation
Blocked(w) == \E m \in active : Overlap(m, w)

ActiveIds == UNION {ids[m] : m \in active}

Elsewhere == UNCHANGED <<ids, active, initiator, drainVars, envVars>>

\* One round of the loop: refuse, wait for the mutations in progress, or line up
\* for the locks.
Check(w) ==
  \/ w \in aborted /\ Goto(w, "refused") /\ UNCHANGED <<idle, identityQ>>
  \/ /\ w \notin aborted /\ Blocked(w)
     /\ idle' = [idle EXCEPT ![w] = ids[w] \cap ActiveIds]
     /\ Goto(w, "idling") /\ UNCHANGED identityQ
  \/ /\ w \notin aborted /\ ~Blocked(w)
     /\ identityQ' = Join(identityQ, w)
     /\ Goto(w, "locking") /\ UNCHANGED idle

\* isGatewaySubordinateWorkAdmissionClosed may refuse the call, here and again
\* once assertAllowed has answered.
BeginWork(w) ==
  /\ pc[w] = "new"
  /\ Check(w) \/ (Goto(w, "refused") /\ UNCHANGED <<idle, identityQ>>)
  /\ Elsewhere /\ UNCHANGED <<mutationQ, writerQ, admitted, offered>>

CheckWork(w) ==
  /\ pc[w] = "checking" /\ Check(w)
  /\ Elsewhere /\ UNCHANGED <<mutationQ, writerQ, admitted, offered>>

\* Promise.all of the idle waiters, raced with the signal.
WakeWork(w) ==
  /\ pc[w] = "idling"
  /\ Elsewhere /\ UNCHANGED <<lockVars, admitted, offered>>
  /\ \/ idle[w] = {} /\ Goto(w, "checking") /\ UNCHANGED idle
     \/ w \in aborted /\ Goto(w, "refused") /\ idle' = [idle EXCEPT ![w] = {}]

LockWork(w) ==
  /\ pc[w] = "locking" /\ CanJoin(identityQ, w)
  /\ identityQ' = Join(identityQ, w)
  /\ Elsewhere /\ UNCHANGED <<pc, mutationQ, writerQ, admitted, idle, offered>>

\* Inside the locks the question is asked again.
EnterWork(w) ==
  /\ pc[w] = "locking" /\ Holds(identityQ, w)
  /\ Elsewhere /\ UNCHANGED <<mutationQ, writerQ, admitted, idle, offered>>
  /\ \/ /\ w \in aborted \/ Blocked(w)
        /\ Goto(w, IF w \in aborted THEN "refused" ELSE "checking")
        /\ identityQ' = Leave(identityQ, w)
     \/ /\ w \notin aborted /\ ~Blocked(w)
        /\ Goto(w, "asserting") /\ UNCHANGED identityQ

Exists(w) == ids[w] \cap gone = {}

\* assertAllowed has answered: refuse, or register and cross the store's writer
\* queue.
RegisterWork(w) ==
  /\ pc[w] = "asserting"
  /\ Elsewhere /\ UNCHANGED <<mutationQ, idle, offered>>
  /\ \/ /\ Goto(w, "refused")
        /\ identityQ' = Leave(identityQ, w)
        /\ UNCHANGED <<writerQ, admitted>>
     \/ /\ Exists(w)
        /\ admitted' = admitted \cup {w}
        /\ writerQ' = Append(writerQ, w)
        /\ Goto(w, "barrier")
        /\ UNCHANGED identityQ

\* Seeded fault: the tokens of a released admission stay valid.
ReleaseKeepsOffer(w) ==
  /\ admitted' = admitted \ {w}
  /\ draining' = [m \in Mutations |-> draining[m] \ {w}]
  /\ UNCHANGED offered

\* release: whoever awaits it is told, and its handoffs are void.
Release(w) ==
  /\ admitted' = admitted \ {w}
  /\ draining' = [m \in Mutations |-> draining[m] \ {w}]
  /\ offered' = offered \ {w}

\* Seeded fault: the session is not looked at again behind earlier writers.
GrantUnchecked(w) ==
  /\ pc[w] = "barrier" /\ WriterIs(w)
  /\ writerQ' = Tail(writerQ)
  /\ identityQ' = Leave(identityQ, w)
  /\ Goto(w, "working")
  /\ UNCHANGED <<ids, mutationQ, active, admitted, idle, initiator, drainVars, offered,
                 envVars>>

\* The turn of the admission in the writer queue: revalidateAllowed.
GrantWork(w) ==
  /\ pc[w] = "barrier" /\ WriterIs(w)
  /\ writerQ' = Tail(writerQ)
  /\ identityQ' = Leave(identityQ, w)
  /\ UNCHANGED <<ids, mutationQ, active, idle, initiator, drained, interrupted, told,
                 envVars>>
  /\ \/ /\ Exists(w) /\ w \notin aborted
        /\ Goto(w, "working") /\ UNCHANGED <<admitted, draining, offered>>
     \/ Goto(w, "refused") /\ Release(w)

\* The signal fires while the admission waits for its turn: the caller is
\* refused and its turn comes to nothing.
AbandonBarrier(w) ==
  /\ pc[w] = "barrier" /\ w \in aborted /\ ~WriterIs(w)
  /\ Goto(w, "refused") /\ Release(w)
  /\ identityQ' = Leave(identityQ, w)
  /\ UNCHANGED <<ids, mutationQ, writerQ, active, idle, initiator, drained, interrupted,
                 told, envVars>>

EmptyTurn(w) ==
  /\ pc[w] = "refused" /\ WriterIs(w)
  /\ writerQ' = Tail(writerQ)
  /\ Elsewhere /\ UNCHANGED <<pc, mutationQ, identityQ, admitted, idle, offered>>

\* A turn that called a mutation awaits it, unless the signal frees it before the
\* mutation is active.
Suspended(w) ==
  \E m \in Mutations :
    /\ initiator[m] = w
    /\ m \in active \/ (pc[m] \in {"mlocking", "ilocking"} /\ m \notin aborted)

EndWork(w) ==
  /\ pc[w] = "working" /\ ~Suspended(w)
  /\ Goto(w, "done") /\ Release(w)
  /\ UNCHANGED <<ids, lockVars, active, idle, initiator, drained, interrupted, told,
                 envVars>>

\* createHandoff and consumeSessionWorkAdmissionHandoff; cancelling an offer is
\* EndWork.
OfferWork(w) ==
  /\ pc[w] = "working" /\ w \notin offered
  /\ offered' = offered \cup {w}
  /\ Elsewhere /\ UNCHANGED <<pc, lockVars, admitted, idle>>

\* Seeded fault: the new owner is not told of an interrupt that came before.
AdoptUnaware(w) ==
  /\ w \in offered
  /\ offered' = offered \ {w}
  /\ told' = told \ {w}
  /\ UNCHANGED <<ids, pc, lockVars, active, admitted, idle, initiator, draining, drained,
                 interrupted, envVars>>

AdoptWork(w) ==
  /\ w \in offered
  /\ offered' = offered \ {w}
  /\ told' = IF w \in interrupted THEN told \cup {w} ELSE told \ {w}
  /\ UNCHANGED <<ids, pc, lockVars, active, admitted, idle, initiator, draining, drained,
                 interrupted, envVars>>

-----------------------------------------------------------------------------
(* runExclusiveSessionLifecycleMutation *)

\* The call itself, from a turn that is working or from outside any turn.
StartMutation(m) ==
  /\ pc[m] = "new"
  /\ \E w \in {None} \cup {v \in Works : pc[v] = "working" /\ ~Suspended(v)} :
       initiator' = [initiator EXCEPT ![m] = w]
  /\ \/ m \in aborted /\ Goto(m, "refused") /\ UNCHANGED mutationQ
     \/ /\ m \notin aborted
        /\ mutationQ' = Join(mutationQ, m)
        /\ Goto(m, "mlocking")
  /\ UNCHANGED <<ids, identityQ, writerQ, active, admitted, idle, drainVars, offered, envVars>>

\* runWithSessionMutationIdentityLocks, with all of them the locks to activate.
LockMutation(m) ==
  /\ pc[m] = "mlocking"
  /\ UNCHANGED <<ids, writerQ, active, admitted, idle, initiator, drainVars, offered, envVars>>
  /\ \/ /\ CanJoin(mutationQ, m)
        /\ mutationQ' = Join(mutationQ, m) /\ UNCHANGED <<pc, identityQ>>
     \/ /\ Holds(mutationQ, m)
        /\ identityQ' = Join(identityQ, m)
        /\ Goto(m, "ilocking") /\ UNCHANGED mutationQ

\* runWithSessionIdentityLocks, three times: to activate, for the body, to end.
LockIdentities(m) ==
  /\ pc[m] \in {"ilocking", "prepared", "finishing"} /\ CanJoin(identityQ, m)
  /\ identityQ' = Join(identityQ, m)
  /\ UNCHANGED <<ids, pc, mutationQ, writerQ, active, admitted, idle, initiator, drainVars,
                 offered, envVars>>

\* Seeded fault: the mutation is marked as soon as it is the only mutation, by
\* whoever holds the identities.
ActivateOutside(m) ==
  /\ pc[m] = "ilocking" /\ Joined(identityQ, m) # {}
  /\ identityQ' = [i \in Identities |-> SelectSeq(identityQ[i], LAMBDA a : a # m)]
  /\ active' = active \cup {m}
  /\ Goto(m, "preparing")
  /\ UNCHANGED <<ids, mutationQ, writerQ, admitted, idle, initiator, drainVars, offered,
                 envVars>>

\* A signal that has fired turns the call away; from here on it is ignored.
Activate(m) ==
  /\ pc[m] = "ilocking" /\ Holds(identityQ, m)
  /\ identityQ' = Leave(identityQ, m)
  /\ UNCHANGED <<ids, writerQ, admitted, idle, initiator, drainVars, offered, envVars>>
  /\ \/ /\ m \in aborted
        /\ mutationQ' = Leave(mutationQ, m)
        /\ Goto(m, "refused") /\ UNCHANGED active
     \/ /\ m \notin aborted
        /\ active' = active \cup {m}
        /\ Goto(m, "preparing") /\ UNCHANGED mutationQ

Competing(m) == {w \in admitted : Overlap(m, w)} \ {initiator[m]}

\* prepare returns, or throws and the body is passed over.
Prepared(m) ==
  /\ identityQ' = Join(identityQ, m)
  /\ Goto(m, "prepared") \/ Goto(m, "finishing")

\* prepare: interruptSessionWorkAdmissions, or an earlier end.
Prepare(m) ==
  /\ pc[m] = "preparing"
  /\ UNCHANGED <<ids, mutationQ, writerQ, active, admitted, idle, initiator, drained, offered,
                 envVars>>
  /\ \/ Prepared(m) /\ UNCHANGED <<draining, interrupted, told>>
     \/ /\ Goto(m, "draining") /\ UNCHANGED identityQ
        /\ draining' = [draining EXCEPT ![m] = Competing(m)]
        /\ interrupted' = interrupted \cup Competing(m)
        /\ told' = told \cup Competing(m)

\* The race between the releases and the timer.
DrainEnds(m, released) ==
  /\ pc[m] = "draining"
  /\ drained' = [drained EXCEPT ![m] = released]
  /\ draining' = [draining EXCEPT ![m] = {}]
  /\ Prepared(m)
  /\ UNCHANGED <<ids, mutationQ, writerQ, active, admitted, idle, initiator, interrupted, told,
                 offered, envVars>>

DrainReleased(m) == draining[m] = {} /\ DrainEnds(m, TRUE)

DrainTimeout(m) == draining[m] # {} /\ DrainEnds(m, FALSE)

\* run: without the drain it ends at once, as it may for reasons of its own;
\* otherwise it has a write for the store.
RunBody(m) ==
  /\ pc[m] = "prepared" /\ Holds(identityQ, m)
  /\ UNCHANGED <<ids, mutationQ, active, admitted, idle, initiator, drainVars, offered,
                 envVars>>
  /\ \/ /\ Goto(m, "finishing")
        /\ identityQ' = Join(Leave(identityQ, m), m) /\ UNCHANGED writerQ
     \/ /\ drained[m]
        /\ writerQ' = Append(writerQ, m)
        /\ Goto(m, "writing") /\ UNCHANGED identityQ

\* The write takes effect or fails.
BodyWrites(m) ==
  /\ pc[m] = "writing" /\ WriterIs(m)
  /\ gone' = gone \/ gone' = gone \cup ids[m]
  /\ writerQ' = Tail(writerQ)
  /\ identityQ' = Join(Leave(identityQ, m), m)
  /\ Goto(m, "finishing")
  /\ UNCHANGED <<ids, mutationQ, active, admitted, idle, initiator, drainVars, offered,
                 aborted, preserve>>

\* Seeded fault: those who wait for the identities to be idle are not woken.
DeactivateSilently(m) ==
  /\ pc[m] = "finishing" /\ Holds(identityQ, m)
  /\ active' = active \ {m}
  /\ identityQ' = Leave(identityQ, m)
  /\ mutationQ' = Leave(mutationQ, m)
  /\ Goto(m, "done")
  /\ UNCHANGED <<ids, writerQ, admitted, idle, initiator, drainVars, offered, envVars>>

\* The finally: identities without another mutation wake those who wait for them.
Deactivate(m) ==
  /\ pc[m] = "finishing" /\ Holds(identityQ, m)
  /\ active' = active \ {m}
  /\ LET still == UNION {ids[n] : n \in active \ {m}} IN
       idle' = [w \in Works |-> idle[w] \ (ids[m] \ still)]
  /\ identityQ' = Leave(identityQ, m)
  /\ mutationQ' = Leave(mutationQ, m)
  /\ Goto(m, "done")
  /\ UNCHANGED <<ids, writerQ, admitted, initiator, drainVars, offered, envVars>>

-----------------------------------------------------------------------------
(* Store maintenance, and signals *)

\* A maintenance run is a writer of the store.
StartSweep(s) ==
  /\ pc[s] = "new"
  /\ writerQ' = Append(writerQ, s)
  /\ Goto(s, "queued")
  /\ Elsewhere /\ UNCHANGED <<mutationQ, identityQ, admitted, idle, offered>>

\* collectActiveSessionWorkAdmissionKeys
SweepReads(s) ==
  /\ pc[s] = "queued" /\ WriterIs(s)
  /\ preserve' = [preserve EXCEPT ![s] = UNION {ids[w] : w \in admitted}]
  /\ Goto(s, "sweeping")
  /\ UNCHANGED <<ids, lockVars, active, admitted, idle, initiator, drainVars, offered,
                 aborted, gone>>

SweepDeletes(s) ==
  /\ pc[s] = "sweeping"
  /\ \E old \in SUBSET (Identities \ preserve[s]) : gone' = gone \cup old
  /\ writerQ' = Tail(writerQ)
  /\ preserve' = [preserve EXCEPT ![s] = {}]
  /\ Goto(s, "done")
  /\ UNCHANGED <<ids, mutationQ, identityQ, active, admitted, idle, initiator, drainVars,
                 offered, aborted>>

FireAbort(a) ==
  /\ a \in Signals \ aborted
  /\ aborted' = aborted \cup {a}
  /\ UNCHANGED <<ids, pc, lockVars, active, admitted, idle, initiator, drainVars, offered,
                 preserve, gone>>

-----------------------------------------------------------------------------
Init ==
  /\ ids \in Aliases
  /\ pc = [a \in Ops \cup Sweeps |-> "new"]
  /\ mutationQ = [i \in Identities |-> <<>>]
  /\ identityQ = [i \in Identities |-> <<>>]
  /\ writerQ = <<>>
  /\ active = {} /\ admitted = {}
  /\ idle = [w \in Works |-> {}]
  /\ initiator = [m \in Mutations |-> None]
  /\ draining = [m \in Mutations |-> {}]
  /\ drained = [m \in Mutations |-> FALSE]
  /\ interrupted = {} /\ told = {} /\ offered = {} /\ aborted = {} /\ gone = {}
  /\ preserve = [s \in Sweeps |-> {}]

WorkSteps(w) ==
  \/ CheckWork(w) \/ WakeWork(w) \/ LockWork(w) \/ EnterWork(w) \/ RegisterWork(w)
  \/ GrantWork(w) \/ AbandonBarrier(w) \/ EmptyTurn(w)

MutationSteps(m) ==
  \/ LockMutation(m) \/ LockIdentities(m) \/ Activate(m) \/ Prepare(m)
  \/ DrainReleased(m) \/ DrainTimeout(m) \/ RunBody(m) \/ BodyWrites(m) \/ Deactivate(m)

SweepSteps(s) == SweepReads(s) \/ SweepDeletes(s)

Next ==
  \/ \E w \in Works : BeginWork(w) \/ WorkSteps(w) \/ EndWork(w) \/ OfferWork(w) \/ AdoptWork(w)
  \/ \E m \in Mutations : StartMutation(m) \/ MutationSteps(m)
  \/ \E s \in Sweeps : StartSweep(s) \/ SweepSteps(s)
  \/ \E a \in Signals : FireAbort(a)

Spec == Init /\ [][Next]_vars

\* Promises settle, writers return and timers fire.  Nothing makes a turn end.
Fairness ==
  /\ \A w \in Works : WF_vars(WorkSteps(w))
  /\ \A m \in Mutations : WF_vars(MutationSteps(m))
  /\ \A s \in Sweeps : WF_vars(SweepSteps(s))

LiveSpec == Spec /\ Fairness

-----------------------------------------------------------------------------
(* Properties *)

Stages == {"new", "refused", "checking", "idling", "locking", "asserting", "barrier",
           "working", "done", "mlocking", "ilocking", "preparing", "draining", "prepared",
           "writing", "finishing", "queued", "sweeping"}

\* Every variable has its type.
TypeOK ==
  /\ ids \in Aliases
  /\ pc \in [Ops \cup Sweeps -> Stages]
  /\ mutationQ \in [Identities -> Seq(Mutations)]
  /\ identityQ \in [Identities -> Seq(Ops)]
  /\ writerQ \in Seq(Ops \cup Sweeps)
  /\ active \subseteq Mutations /\ admitted \subseteq Works
  /\ idle \in [Works -> SUBSET Identities]
  /\ initiator \in [Mutations -> Works \cup {None}]
  /\ draining \in [Mutations -> SUBSET Works]
  /\ drained \in [Mutations -> BOOLEAN]
  /\ interrupted \subseteq Works /\ told \subseteq Works /\ offered \subseteq admitted
  /\ aborted \subseteq Signals /\ gone \subseteq Identities
  /\ preserve \in [Sweeps -> SUBSET Identities]

\* A body that got its drain is alone: the only work still admitted on its
\* identities is the turn it was called from, and no other active mutation
\* shares one of them (sessions-delete.ts and session-reset-service.ts remove the
\* session without looking at the admissions again).
MutationAlone ==
  \A m \in Mutations : pc[m] = "writing" =>
    /\ Competing(m) = {}
    /\ \A n \in active \ {m} : ~Overlap(m, n)

\* Work that was let in has its session under it: nobody else deletes it, be it
\* maintenance that read the admissions before or a writer that was ahead of the
\* admission's last check.  A turn may delete its own session.
NoWorkOnGone ==
  \A w \in Works : pc[w] = "working" =>
    \A i \in ids[w] \cap gone : \E m \in Mutations : initiator[m] = w /\ i \in ids[m]

\* Whoever waits for a mutation to be over waits for one that is active: the
\* waiters of SESSION_LIFECYCLE_IDLE_WAITERS are woken by the last one to leave.
IdleNeverStranded ==
  \A w \in Works : \A i \in idle[w] : i \in ActiveIds

\* An interrupt reaches whoever owns the admission, also an owner that adopts it
\* after the interrupt (consumeSessionWorkAdmissionHandoff).
InterruptReaches == interrupted \cap admitted \subseteq told

\* Nobody waits on everybody: in the end every call for admission has been let in
\* or refused and every mutation has ended, even when turns never do and when two
\* turns each await a mutation that waits for the other turn.
EveryoneAnswered ==
  <>[](\A a \in Ops \cup Sweeps : pc[a] \in {"new", "working", "refused", "done"})
=============================================================================
