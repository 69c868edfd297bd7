----------------------- MODULE SessionLifecycleProofs -----------------------
(***************************************************************************)
(* Theorems about SessionLifecycle, for every set of turns, mutations,     *)
(* maintenance runs and identities.                                        *)
(***************************************************************************)
EXTENDS SessionLifecycle, SequenceTheorems, TLAPS

-----------------------------------------------------------------------------
(* The lines of writers *)

\* A caller that lines up does not change who is first in a line.
LEMMA JoinKeeps ==
  ASSUME NEW S, NEW q \in [Identities -> Seq(S)], NEW a \in S
  PROVE  /\ Join(q, a) \in [Identities -> Seq(S)]
         /\ \A b : Held(q, b) \subseteq Held(Join(q, a), b)
<1> DEFINE x == NextLock(a, ids[a] \ Joined(q, a))
           r == [q EXCEPT ![x] = Append(@, a)]
<1>0. Join(q, a) = r
  BY DEF Join
<1> HIDE DEF x
<1>1. \A i \in Identities : q[i] \in Seq(S) /\ r[i] = IF i = x THEN Append(q[i], a) ELSE q[i]
  OBVIOUS
<1>2. r \in [Identities -> Seq(S)]
  <2>1. \A i \in Identities : Append(q[i], a) \in Seq(S)
    BY <1>1
  <2> QED
    BY <2>1
<1> HIDE DEF r
<1>3. ASSUME NEW b, NEW i \in Held(q, b) PROVE i \in Held(r, b)
  <2>1. i \in Identities /\ q[i] # <<>> /\ Head(q[i]) = b /\ q[i] \in Seq(S)
    BY <1>1 DEF Held
  <2>2. Append(q[i], a) # <<>> /\ Head(Append(q[i], a)) = b
    BY <2>1
  <2> QED
    BY <1>1, <2>1, <2>2 DEF Held
<1> QED
  BY <1>0, <1>2, <1>3

\* The first in its lines steps out of them: whoever else is first stays first.
LEMMA LeaveKeeps ==
  ASSUME NEW S, NEW q \in [Identities -> Seq(S)], NEW a, Holds(q, a)
  PROVE  /\ Leave(q, a) \in [Identities -> Seq(S)]
         /\ \A b : b # a => Held(q, b) \subseteq Held(Leave(q, a), b)
<1> DEFINE r == Leave(q, a)
<1>1. \A i \in Identities : q[i] \in Seq(S) /\ r[i] = IF i \in ids[a] THEN Tail(q[i]) ELSE q[i]
  BY DEF Leave
<1>2. \A i \in ids[a] : i \in Identities /\ q[i] # <<>> /\ Head(q[i]) = a
  BY DEF Holds, Held
<1>3. ASSUME NEW i \in Identities PROVE r[i] \in Seq(S)
  <2>1. q[i] # <<>> => Tail(q[i]) \in Seq(S)
    BY <1>1
  <2> QED
    BY <1>1, <1>2, <2>1
<1>4. \A b : b # a => Held(q, b) \subseteq Held(r, b)
  BY <1>1, <1>2 DEF Held
<1> QED
  BY <1>3, <1>4 DEF Leave

\* What a step of a does to the lines of one kind.
LineMove(q, r, a) ==
  \/ r = q
  \/ r = Join(q, a)
  \/ Holds(q, a) /\ r = Leave(q, a)
  \/ Holds(q, a) /\ r = Join(Leave(q, a), a)

\* Whatever a does, everybody else keeps the locks they have.
LEMMA LineMoveKeeps ==
  ASSUME NEW S, NEW q \in [Identities -> Seq(S)], NEW r, NEW a \in S, LineMove(q, r, a)
  PROVE  /\ r \in [Identities -> Seq(S)]
         /\ \A b : b # a => Held(q, b) \subseteq Held(r, b)
<1>1. CASE r = q
  BY <1>1
<1>2. CASE r = Join(q, a)
  BY <1>2, JoinKeeps
<1>3. CASE Holds(q, a) /\ r = Leave(q, a)
  BY <1>3, LeaveKeeps
<1>4. CASE Holds(q, a) /\ r = Join(Leave(q, a), a)
  <2> DEFINE p == Leave(q, a)
  <2>1. p \in [Identities -> Seq(S)] /\ \A b : b # a => Held(q, b) \subseteq Held(p, b)
    BY <1>4, LeaveKeeps
  <2> HIDE DEF p
  <2>2. Join(p, a) \in [Identities -> Seq(S)] /\ \A b : Held(p, b) \subseteq Held(Join(p, a), b)
    BY <2>1, JoinKeeps
  <2> QED
    BY <1>4, <2>1, <2>2 DEF p
<1> QED
  BY <1>1, <1>2, <1>3, <1>4 DEF LineMove

-----------------------------------------------------------------------------
(* Who holds the locks *)

\* Stages in which a caller is inside its identity locks.
Inside == {"asserting", "barrier", "writing"}

\* Stages in which a mutation is marked active.
Marked == {"preparing", "draining", "prepared", "writing", "finishing"}

LockInv ==
  /\ \A a \in Ops : pc[a] \in Inside => Holds(identityQ, a)
  /\ \A m \in Mutations : pc[m] \in Marked \cup {"ilocking"} => Holds(mutationQ, m)

\* A step of a: its stage, its lines, and the locks it needs where it arrives.
ActorStep(a) ==
  /\ ids' = ids
  /\ pc' = pc \/ \E to \in Stages : pc' = [pc EXCEPT ![a] = to]
  /\ LineMove(identityQ, identityQ', a)
  /\ mutationQ' = mutationQ \/ (a \in Mutations /\ LineMove(mutationQ, mutationQ', a))
  /\ pc'[a] \in Inside => ids[a] \subseteq Held(identityQ', a)
  /\ a \in Mutations /\ pc'[a] \in Marked \cup {"ilocking"} => ids[a] \subseteq Held(mutationQ', a)

\* Every step of a turn is one.
LEMMA WorkActs ==
  ASSUME TypeOK, LockInv, NEW w \in Works,
         BeginWork(w) \/ CheckWork(w) \/ WakeWork(w) \/ LockWork(w)
           \/ EnterWork(w) \/ RegisterWork(w) \/ GrantWork(w) \/ AbandonBarrier(w)
           \/ EmptyTurn(w) \/ EndWork(w) \/ OfferWork(w) \/ AdoptWork(w)
  PROVE  ActorStep(w)
<1>t. /\ pc \in [Ops \cup Sweeps -> Stages]
      /\ identityQ \in [Identities -> Seq(Ops)] /\ mutationQ \in [Identities -> Seq(Mutations)]
  BY DEF TypeOK
<1>h. pc[w] \in Inside => Holds(identityQ, w)
  BY DEF LockInv, Ops
<1>j. Held(identityQ, w) \subseteq Held(Join(identityQ, w), w)
  <2>1. w \in Ops
    BY DEF Ops
  <2> QED
    BY <1>t, <2>1, JoinKeeps
<1> USE DEF Goto, Elsewhere, lockVars, Stages, Ops, Inside, Marked
<1>1. CASE BeginWork(w)
  BY <1>1, <1>t, <1>h, <1>j, LifecycleAssumption DEF BeginWork, Check, ActorStep, LineMove, Holds
<1>2. CASE CheckWork(w)
  BY <1>2, <1>t, <1>h, <1>j, LifecycleAssumption DEF CheckWork, Check, ActorStep, LineMove, Holds
<1>3. CASE WakeWork(w)
  BY <1>3, <1>t, <1>h, <1>j, LifecycleAssumption DEF WakeWork, ActorStep, LineMove, Holds
<1>4. CASE LockWork(w)
  BY <1>4, <1>t, <1>h, <1>j, LifecycleAssumption DEF LockWork, ActorStep, LineMove, Holds
<1>5. CASE EnterWork(w)
  BY <1>5, <1>t, <1>h, <1>j, LifecycleAssumption DEF EnterWork, ActorStep, LineMove, Holds
<1>6. CASE RegisterWork(w)
  BY <1>6, <1>t, <1>h, <1>j, LifecycleAssumption DEF RegisterWork, ActorStep, LineMove, Holds
<1>7. CASE GrantWork(w)
  BY <1>7, <1>t, <1>h, <1>j, LifecycleAssumption DEF GrantWork, Release, WriterIs, ActorStep, LineMove, Holds
<1>8. CASE AbandonBarrier(w)
  BY <1>8, <1>t, <1>h, <1>j, LifecycleAssumption DEF AbandonBarrier, Release, ActorStep, LineMove, Holds
<1>9. CASE EmptyTurn(w)
  BY <1>9, <1>t, <1>h, <1>j, LifecycleAssumption DEF EmptyTurn, WriterIs, ActorStep, LineMove, Holds
<1>10. CASE EndWork(w)
  BY <1>10, <1>t, <1>h, <1>j, LifecycleAssumption DEF EndWork, Release, ActorStep, LineMove, Holds
<1>11. CASE OfferWork(w)
  BY <1>11, <1>t, <1>h, <1>j, LifecycleAssumption DEF OfferWork, ActorStep, LineMove, Holds
<1>12. CASE AdoptWork(w)
  BY <1>12, <1>t, <1>h, <1>j, LifecycleAssumption DEF AdoptWork, ActorStep, LineMove, Holds
<1> QED
  BY <1>1, <1>2, <1>3, <1>4, <1>5, <1>6, <1>7, <1>8, <1>9, <1>10, <1>11, <1>12

\* Every step of a mutation is one.
LEMMA MutationActs ==
  ASSUME TypeOK, LockInv, NEW m \in Mutations,
         StartMutation(m) \/ LockMutation(m) \/ LockIdentities(m) \/ Activate(m)
           \/ Prepare(m) \/ DrainReleased(m) \/ DrainTimeout(m) \/ RunBody(m)
           \/ BodyWrites(m) \/ Deactivate(m)
  PROVE  ActorStep(m)
<1>t. /\ pc \in [Ops \cup Sweeps -> Stages]
      /\ identityQ \in [Identities -> Seq(Ops)] /\ mutationQ \in [Identities -> Seq(Mutations)]
  BY DEF TypeOK
<1>h. /\ pc[m] \in Inside => Holds(identityQ, m)
      /\ pc[m] \in Marked \cup {"ilocking"} => Holds(mutationQ, m)
  BY DEF LockInv, Ops
<1>j. Held(identityQ, m) \subseteq Held(Join(identityQ, m), m)
  <2>1. m \in Ops
    BY DEF Ops
  <2> QED
    BY <1>t, <2>1, JoinKeeps
<1>k. Held(mutationQ, m) \subseteq Held(Join(mutationQ, m), m)
  BY <1>t, JoinKeeps
<1> USE DEF Goto, Elsewhere, lockVars, Stages, Ops, Inside, Marked
<1>1. CASE StartMutation(m)
  BY <1>1, <1>t, <1>h, <1>j, <1>k, LifecycleAssumption DEF StartMutation, ActorStep, LineMove, Holds
<1>2. CASE LockMutation(m)
  BY <1>2, <1>t, <1>h, <1>j, <1>k, LifecycleAssumption DEF LockMutation, ActorStep, LineMove, Holds
<1>3. CASE LockIdentities(m)
  BY <1>3, <1>t, <1>h, <1>j, <1>k, LifecycleAssumption DEF LockIdentities, ActorStep, LineMove, Holds
<1>4. CASE Activate(m)
  BY <1>4, <1>t, <1>h, <1>j, <1>k, LifecycleAssumption DEF Activate, ActorStep, LineMove, Holds
<1>5. CASE Prepare(m)
  BY <1>5, <1>t, <1>h, <1>j, <1>k, LifecycleAssumption DEF Prepare, Prepared, ActorStep, LineMove, Holds
<1>6. CASE DrainReleased(m)
  BY <1>6, <1>t, <1>h, <1>j, <1>k, LifecycleAssumption DEF DrainReleased, DrainEnds, Prepared, ActorStep, LineMove, Holds
<1>7. CASE DrainTimeout(m)
  BY <1>7, <1>t, <1>h, <1>j, <1>k, LifecycleAssumption DEF DrainTimeout, DrainEnds, Prepared, ActorStep, LineMove, Holds
<1>8. CASE RunBody(m)
  BY <1>8, <1>t, <1>h, <1>j, <1>k, LifecycleAssumption DEF RunBody, ActorStep, LineMove, Holds
<1>9. CASE BodyWrites(m)
  BY <1>9, <1>t, <1>h, <1>j, <1>k, LifecycleAssumption DEF BodyWrites, WriterIs, ActorStep, LineMove, Holds
<1>10. CASE Deactivate(m)
  BY <1>10, <1>t, <1>h, <1>j, <1>k, LifecycleAssumption DEF Deactivate, ActorStep, LineMove, Holds
<1> QED
  BY <1>1, <1>2, <1>3, <1>4, <1>5, <1>6, <1>7, <1>8, <1>9, <1>10

\* Such a step keeps everybody's locks.
LEMMA ActorKeepsLocks ==
  ASSUME TypeOK, LockInv, NEW a \in Ops, ActorStep(a)
  PROVE  /\ LockInv'
         /\ pc' \in [Ops \cup Sweeps -> Stages]
         /\ identityQ' \in [Identities -> Seq(Ops)]
         /\ mutationQ' \in [Identities -> Seq(Mutations)]
<1>t. /\ pc \in [Ops \cup Sweeps -> Stages]
      /\ identityQ \in [Identities -> Seq(Ops)] /\ mutationQ \in [Identities -> Seq(Mutations)]
  BY DEF TypeOK
<1>1. /\ pc' \in [Ops \cup Sweeps -> Stages]
      /\ \A b \in Ops : b # a => pc'[b] = pc[b]
  BY <1>t DEF ActorStep
<1>2. /\ identityQ' \in [Identities -> Seq(Ops)]
      /\ \A b : b # a => Held(identityQ, b) \subseteq Held(identityQ', b)
  <2>1. LineMove(identityQ, identityQ', a)
    BY DEF ActorStep
  <2> QED
    BY <1>t, <2>1, LineMoveKeeps, SMTT(30)
<1>3. /\ mutationQ' \in [Identities -> Seq(Mutations)]
      /\ \A b : b # a => Held(mutationQ, b) \subseteq Held(mutationQ', b)
  <2>1. CASE mutationQ' = mutationQ
    BY <1>t, <2>1
  <2>2. CASE a \in Mutations /\ LineMove(mutationQ, mutationQ', a)
    BY <1>t, <2>2, LineMoveKeeps, SMTT(30)
  <2> QED
    BY <2>1, <2>2 DEF ActorStep
<1>4. ids' = ids
  BY DEF ActorStep
<1>5. ASSUME NEW b \in Ops, pc'[b] \in Inside PROVE ids'[b] \subseteq Held(identityQ', b)
  <2>1. CASE b = a
    BY <1>4, <1>5, <2>1 DEF ActorStep
  <2>2. CASE b # a
    BY <1>1, <1>2, <1>4, <1>5, <2>2 DEF LockInv, Holds
  <2> QED
    BY <2>1, <2>2
<1>6. ASSUME NEW m \in Mutations, pc'[m] \in Marked \cup {"ilocking"}
      PROVE  ids'[m] \subseteq Held(mutationQ', m)
  <2>1. CASE m = a
    BY <1>4, <1>6, <2>1 DEF ActorStep
  <2>2. CASE m # a
    <3>1. m \in Ops
      BY DEF Ops
    <3> QED
      BY <1>1, <1>3, <1>4, <1>6, <2>2, <3>1 DEF LockInv, Holds
  <2> QED
    BY <2>1, <2>2
<1>7. LockInv'
  <2>1. \A b \in Ops : pc'[b] \in Inside => Holds(identityQ, b)'
    BY <1>5 DEF Holds, Held
  <2>2. \A m \in Mutations : pc'[m] \in Marked \cup {"ilocking"} => Holds(mutationQ, m)'
    BY <1>6 DEF Holds, Held
  <2> QED
    BY <2>1, <2>2 DEF LockInv
<1> QED
  BY <1>1, <1>2, <1>3, <1>7

\* The steps of maintenance and the signals leave the locks alone.
LEMMA BystanderKeepsLocks ==
  ASSUME TypeOK, LockInv, ids' = ids, identityQ' = identityQ, mutationQ' = mutationQ,
         pc' \in [Ops \cup Sweeps -> Stages], \A a \in Ops : pc'[a] = pc[a]
  PROVE  LockInv'
<1>1. \A m \in Mutations : m \in Ops
  BY DEF Ops
<1>2. \A a : /\ Holds(identityQ, a)' <=> Holds(identityQ, a)
             /\ Holds(mutationQ, a)' <=> Holds(mutationQ, a)
  BY DEF Holds, Held
<1> QED
  BY <1>1, <1>2 DEF LockInv

-----------------------------------------------------------------------------
(* Types *)

\* The registries are those in the stages between entry and exit, and a
\* maintenance run is the writer of the store while it works.
StageInv ==
  /\ active = {m \in Mutations : pc[m] \in Marked}
  /\ admitted = {w \in Works : pc[w] \in {"barrier", "working"}}
  /\ \A s \in Sweeps : pc[s] = "sweeping" => WriterIs(s)

\* A session has its identities.
LEMMA IdsType ==
  ASSUME TypeOK
  PROVE  \A a \in Ops : ids[a] \subseteq Identities
  BY LifecycleAssumption DEF TypeOK

\* TypeOK without the stages and the locks.
RestOK ==
  /\ ids \in Aliases
  /\ writerQ \in Seq(Ops \cup Sweeps)
  /\ active \subseteq Mutations /\ admitted \subseteq Works
  /\ idle \in [Works -> SUBSET Identities]
  /\ initiator \in [Mutations -> Works \cup {None}]
  /\ draining \in [Mutations -> SUBSET Works]
  /\ drained \in [Mutations -> BOOLEAN]
  /\ interrupted \subseteq Works /\ told \subseteq Works /\ offered \subseteq admitted
  /\ aborted \subseteq Signals /\ gone \subseteq Identities
  /\ preserve \in [Sweeps -> SUBSET Identities]

\* The steps of a turn keep the types of the other variables.
LEMMA WorkTypes ==
  ASSUME TypeOK, StageInv, NEW w \in Works,
         BeginWork(w) \/ CheckWork(w) \/ WakeWork(w) \/ LockWork(w)
           \/ EnterWork(w) \/ RegisterWork(w) \/ GrantWork(w) \/ AbandonBarrier(w)
           \/ EmptyTurn(w) \/ EndWork(w) \/ OfferWork(w) \/ AdoptWork(w)
  PROVE  RestOK'
<1>t. RestOK
  BY DEF TypeOK, RestOK
<1>q. \A a \in Ops \cup Sweeps : Append(writerQ, a) \in Seq(Ops \cup Sweeps)
  BY <1>t DEF RestOK
<1>r. writerQ # <<>> => Tail(writerQ) \in Seq(Ops \cup Sweeps)
  BY <1>t DEF RestOK
<1>o. w \in Ops \cup Sweeps
  BY DEF Ops
<1> USE DEF Elsewhere, lockVars, drainVars, envVars, RestOK
<1>i. [idle EXCEPT ![w] = ids[w] \cap ActiveIds] \in [Works -> SUBSET Identities]
  BY <1>t, IdsType DEF Ops
<1>1. CASE BeginWork(w)
  BY <1>1, <1>t, <1>i DEF BeginWork, Check
<1>2. CASE CheckWork(w)
  BY <1>2, <1>t, <1>i DEF CheckWork, Check
<1>3. CASE WakeWork(w)
  BY <1>3, <1>t, <1>q, <1>r, <1>o DEF WakeWork
<1>4. CASE LockWork(w)
  BY <1>4, <1>t, <1>q, <1>r, <1>o DEF LockWork
<1>5. CASE EnterWork(w)
  BY <1>5, <1>t, <1>q, <1>r, <1>o DEF EnterWork
<1>6. CASE RegisterWork(w)
  BY <1>6, <1>t, <1>q, <1>r, <1>o DEF RegisterWork
<1>7. CASE GrantWork(w)
  BY <1>7, <1>t, <1>q, <1>r, <1>o DEF GrantWork, Release, WriterIs
<1>8. CASE AbandonBarrier(w)
  BY <1>8, <1>t, <1>q, <1>r, <1>o DEF AbandonBarrier, Release
<1>9. CASE EmptyTurn(w)
  BY <1>9, <1>t, <1>q, <1>r, <1>o DEF EmptyTurn, WriterIs
<1>10. CASE EndWork(w)
  BY <1>10, <1>t, <1>q, <1>r, <1>o DEF EndWork, Release
<1>11. CASE OfferWork(w)
  BY <1>11, <1>t DEF OfferWork, StageInv
<1>12. CASE AdoptWork(w)
  BY <1>12, <1>t, <1>q, <1>r, <1>o DEF AdoptWork
<1> QED
  BY <1>1, <1>2, <1>3, <1>4, <1>5, <1>6, <1>7, <1>8, <1>9, <1>10, <1>11, <1>12

\* So do those of a mutation.
LEMMA MutationTypes ==
  ASSUME TypeOK, NEW m \in Mutations,
         StartMutation(m) \/ LockMutation(m) \/ LockIdentities(m) \/ Activate(m)
           \/ Prepare(m) \/ DrainReleased(m) \/ DrainTimeout(m) \/ RunBody(m)
           \/ BodyWrites(m) \/ Deactivate(m)
  PROVE  RestOK'
<1>t. RestOK
  BY DEF TypeOK, RestOK
<1>q. \A a \in Ops \cup Sweeps : Append(writerQ, a) \in Seq(Ops \cup Sweeps)
  BY <1>t DEF RestOK
<1>r. writerQ # <<>> => Tail(writerQ) \in Seq(Ops \cup Sweeps)
  BY <1>t DEF RestOK
<1>o. m \in Ops \cup Sweeps
  BY DEF Ops
<1> USE DEF Elsewhere, lockVars, drainVars, envVars, RestOK
<1>1. CASE StartMutation(m)
  BY <1>1, <1>t, <1>q, <1>r, <1>o DEF StartMutation
<1>2. CASE LockMutation(m)
  BY <1>2, <1>t, <1>q, <1>r, <1>o DEF LockMutation
<1>3. CASE LockIdentities(m)
  BY <1>3, <1>t, <1>q, <1>r, <1>o DEF LockIdentities
<1>4. CASE Activate(m)
  BY <1>4, <1>t, <1>q, <1>r, <1>o DEF Activate
<1>5. CASE Prepare(m)
  <2>1. Competing(m) \subseteq Works
    BY <1>t DEF Competing
  <2> QED
    BY <1>5, <1>t, <2>1 DEF Prepare, Prepared
<1>6. CASE DrainReleased(m)
  BY <1>6, <1>t, <1>q, <1>r, <1>o DEF DrainReleased, DrainEnds, Prepared
<1>7. CASE DrainTimeout(m)
  BY <1>7, <1>t, <1>q, <1>r, <1>o DEF DrainTimeout, DrainEnds, Prepared
<1>8. CASE RunBody(m)
  BY <1>8, <1>t, <1>q, <1>r, <1>o DEF RunBody
<1>9. CASE BodyWrites(m)
  <2>1. ids[m] \subseteq Identities
    BY IdsType DEF Ops
  <2> QED
    BY <1>9, <1>t, <1>r, <2>1 DEF BodyWrites, WriterIs
<1>10. CASE Deactivate(m)
  BY <1>10, <1>t, <1>q, <1>r, <1>o DEF Deactivate
<1> QED
  BY <1>1, <1>2, <1>3, <1>4, <1>5, <1>6, <1>7, <1>8, <1>9, <1>10

\* So do those of maintenance.
LEMMA SweepTypes ==
  ASSUME TypeOK, StageInv, NEW s \in Sweeps,
         StartSweep(s) \/ SweepReads(s) \/ SweepDeletes(s)
  PROVE  RestOK'
<1>t. RestOK
  BY DEF TypeOK, RestOK
<1>q. \A a \in Ops \cup Sweeps : Append(writerQ, a) \in Seq(Ops \cup Sweeps)
  BY <1>t DEF RestOK
<1>r. writerQ # <<>> => Tail(writerQ) \in Seq(Ops \cup Sweeps)
  BY <1>t DEF RestOK
<1>o. s \in Ops \cup Sweeps
  BY DEF Ops
<1> USE DEF Elsewhere, lockVars, drainVars, envVars, RestOK
<1>1. CASE StartSweep(s)
  BY <1>1, <1>t, <1>q, <1>r, <1>o DEF StartSweep
<1>2. CASE SweepReads(s)
  <2>1. UNION {ids[w] : w \in admitted} \subseteq Identities
    BY <1>t, IdsType DEF Ops
  <2> QED
    BY <1>2, <1>t, <2>1 DEF SweepReads
<1>3. CASE SweepDeletes(s)
  BY <1>3, <1>t, <1>r DEF SweepDeletes, StageInv, WriterIs
<1> QED
  BY <1>1, <1>2, <1>3

-----------------------------------------------------------------------------
(* What the steps do to the registries *)

\* A step of the turn w: it may come in where no mutation is marked, go out and
\* be forgotten by those who await it, be told, or be offered on.
WorkEffect(w) ==
  /\ ids' = ids /\ active' = active /\ initiator' = initiator /\ drained' = drained
  /\ gone' = gone /\ preserve' = preserve /\ interrupted' = interrupted
  /\ \A a \in Ops \cup Sweeps : a # w => pc'[a] = pc[a]
  /\ admitted' \subseteq admitted \cup (IF pc[w] = "asserting" THEN {w} ELSE {})
  /\ admitted' = {v \in Works : pc'[v] \in {"barrier", "working"}}
  /\ \A m \in Mutations : (draining[m] \ draining'[m]) \cap admitted' = {}
  /\ told \ told' \subseteq {w} \ interrupted
  /\ pc'[w] = "asserting" => ~Blocked(w)
  /\ pc'[w] = "working" /\ pc[w] # "working" => WriterIs(w) /\ Exists(w)
  /\ pc'[w] \in {"new", "checking", "idling", "locking", "asserting"}
       => pc[w] \in {"new", "checking", "idling", "locking"}
  /\ pc[w] = "asserting" => w \notin admitted
  /\ idle' = idle \/ idle' = [idle EXCEPT ![w] = {}]
       \/ idle' = [idle EXCEPT ![w] = ids[w] \cap ActiveIds]
  /\ \A a \in Sweeps : WriterIs(a) => WriterIs(a)'

\* Every step of a turn is one.
LEMMA WorkEffects ==
  ASSUME TypeOK, StageInv, NEW w \in Works,
         BeginWork(w) \/ CheckWork(w) \/ WakeWork(w) \/ LockWork(w)
           \/ EnterWork(w) \/ RegisterWork(w) \/ GrantWork(w) \/ AbandonBarrier(w)
           \/ EmptyTurn(w) \/ EndWork(w) \/ OfferWork(w) \/ AdoptWork(w)
  PROVE  WorkEffect(w)
<1>t. /\ pc \in [Ops \cup Sweeps -> Stages] /\ writerQ \in Seq(Ops \cup Sweeps)
      /\ admitted = {v \in Works : pc[v] \in {"barrier", "working"}}
      /\ draining \in [Mutations -> SUBSET Works] /\ offered \subseteq admitted
  BY DEF TypeOK, StageInv
<1>s. w \notin Sweeps /\ w \in Ops
  BY LifecycleAssumption DEF Ops
<1>q. writerQ # <<>> => /\ Append(writerQ, w) # <<>> /\ Head(Append(writerQ, w)) = Head(writerQ)
  BY <1>t
<1> USE DEF Elsewhere, lockVars, drainVars, envVars, WorkEffect, Goto, Ops, WriterIs
<1>1. CASE BeginWork(w)
  BY <1>1, <1>t, <1>s, <1>q DEF BeginWork, Check
<1>2. CASE CheckWork(w)
  BY <1>2, <1>t, <1>s, <1>q DEF CheckWork, Check
<1>3. CASE WakeWork(w)
  BY <1>3, <1>t, <1>s, <1>q DEF WakeWork
<1>4. CASE LockWork(w)
  BY <1>4, <1>t, <1>s, <1>q DEF LockWork
<1>5. CASE EnterWork(w)
  BY <1>5, <1>t, <1>s, <1>q DEF EnterWork
<1>6. CASE RegisterWork(w)
  BY <1>6, <1>t, <1>s, <1>q DEF RegisterWork
<1>7. CASE GrantWork(w)
  BY <1>7, <1>t, <1>s, <1>q DEF GrantWork, Release, WriterIs
<1>8. CASE AbandonBarrier(w)
  BY <1>8, <1>t, <1>s, <1>q DEF AbandonBarrier, Release
<1>9. CASE EmptyTurn(w)
  BY <1>9, <1>t, <1>s, <1>q DEF EmptyTurn, WriterIs
<1>10. CASE EndWork(w)
  BY <1>10, <1>t, <1>s, <1>q DEF EndWork, Release
<1>11. CASE OfferWork(w)
  BY <1>11, <1>t, <1>s, <1>q DEF OfferWork
<1>12. CASE AdoptWork(w)
  BY <1>12, <1>t, <1>s, <1>q DEF AdoptWork
<1> QED
  BY <1>1, <1>2, <1>3, <1>4, <1>5, <1>6, <1>7, <1>8, <1>9, <1>10, <1>11, <1>12

\* What a mutation knows of the turns: those it still awaits are the only ones
\* that compete with it, and once it is told that they are gone there are none.
\* A turn that asks whether it is allowed overlaps no marked mutation.
GuardInv ==
  /\ \A w \in Works : pc[w] = "asserting" => ~Blocked(w)
  /\ \A m \in Mutations : pc[m] = "draining" => Competing(m) \subseteq draining[m]
  /\ \A m \in Mutations : drained[m] => pc[m] \in {"prepared", "writing", "finishing", "done"}
  /\ \A m \in Mutations : pc[m] = "writing" => drained[m]
  /\ \A m \in Mutations : drained[m] /\ pc[m] \in {"prepared", "writing"} => Competing(m) = {}

\* Before it is called a mutation has no caller, only turns that came in are
\* interrupted, and maintenance spares the turns that are let in while it works.
CallerInv == \A m \in Mutations : pc[m] = "new" => initiator[m] = None

Outside == {"new", "checking", "idling", "locking", "asserting"}

ToldInv ==
  /\ InterruptReaches
  /\ \A w \in interrupted : pc[w] \notin Outside

SpareInv ==
  /\ NoWorkOnGone
  /\ \A s \in Sweeps : \A w \in Works :
       pc[s] = "sweeping" /\ pc[w] = "working" => ids[w] \subseteq preserve[s]

LifecycleInv ==
  /\ TypeOK /\ LockInv /\ StageInv /\ GuardInv
  /\ CallerInv /\ IdleNeverStranded /\ ToldInv /\ SpareInv

\* GuardInv where the mutation m arrives.
Arrives(m) ==
  /\ pc'[m] = "draining" => Competing(m) \subseteq draining'[m]
  /\ drained'[m] => pc'[m] \in {"prepared", "writing", "finishing", "done"}
  /\ pc'[m] = "writing" => drained'[m]
  /\ drained'[m] /\ pc'[m] \in {"prepared", "writing"} => Competing(m) = {}

\* A step of the mutation m: it is marked inside its locks, tells the turns it
\* interrupts, removes only its own session and wakes those who wait for it.
MutationEffect(m) ==
  /\ ids' = ids /\ admitted' = admitted /\ preserve' = preserve
  /\ \A a \in Ops \cup Sweeps : a # m => pc'[a] = pc[a]
  /\ active' = {n \in Mutations : pc'[n] \in Marked}
  /\ \A n \in active' \ active : n = m /\ Holds(identityQ, m)
  /\ told \subseteq told' /\ interrupted' \ interrupted \subseteq told' \cap admitted
  /\ \A n \in Mutations : n # m =>
       initiator'[n] = initiator[n] /\ draining'[n] = draining[n] /\ drained'[n] = drained[n]
  /\ pc[m] # "new" => initiator' = initiator
  /\ pc[m] = "new" => pc'[m] \notin {"draining", "prepared", "writing"}
  /\ pc'[m] # "new"
  /\ \A w \in Works : idle'[w] \subseteq idle[w] /\ idle'[w] \cap ActiveIds \subseteq ActiveIds'
  /\ Arrives(m)
  /\ gone' = gone \/ (gone' = gone \cup ids[m] /\ pc[m] = "writing")
  /\ \A a \in Sweeps : WriterIs(a) => WriterIs(a)'

\* Every step of a mutation is one.
LEMMA MutationEffects ==
  ASSUME TypeOK, LockInv, StageInv, GuardInv, NEW m \in Mutations,
         StartMutation(m) \/ LockMutation(m) \/ LockIdentities(m) \/ Activate(m)
           \/ Prepare(m) \/ DrainReleased(m) \/ DrainTimeout(m) \/ RunBody(m)
           \/ BodyWrites(m) \/ Deactivate(m)
  PROVE  MutationEffect(m)
<1>t. /\ pc \in [Ops \cup Sweeps -> Stages] /\ writerQ \in Seq(Ops \cup Sweeps)
      /\ active = {n \in Mutations : pc[n] \in Marked}
      /\ initiator \in [Mutations -> Works \cup {None}]
      /\ draining \in [Mutations -> SUBSET Works] /\ drained \in [Mutations -> BOOLEAN]
  BY DEF TypeOK, StageInv
<1>g. /\ pc[m] = "draining" => Competing(m) \subseteq draining[m]
      /\ drained[m] => pc[m] \in {"prepared", "writing", "finishing", "done"}
      /\ pc[m] = "writing" => drained[m]
      /\ drained[m] /\ pc[m] \in {"prepared", "writing"} => Competing(m) = {}
  BY DEF GuardInv
<1>s. m \notin Sweeps /\ m \in Ops
  BY LifecycleAssumption DEF Ops
<1>c. Competing(m) \subseteq admitted
  BY DEF Competing
<1>p. /\ \A a \in Ops \cup Sweeps : a # m => pc'[a] = pc[a]
      /\ \A to : Goto(m, to) => pc'[m] = to
      /\ ids' = ids
  <2>1. ActorStep(m)
    BY MutationActs
  <2> QED
    BY <1>t, <1>s, <2>1 DEF ActorStep, Goto
<1>n. \A n \in Mutations : n # m => pc'[n] = pc[n]
  BY <1>p DEF Ops
<1>a. ASSUME active' = active, pc'[m] \in Marked <=> pc[m] \in Marked
      PROVE  active' = {n \in Mutations : pc'[n] \in Marked}
  BY <1>t, <1>n, <1>a
<1>w. ASSUME \/ writerQ' = writerQ \/ writerQ' = Append(writerQ, m)
             \/ WriterIs(m) /\ writerQ' = Tail(writerQ)
      PROVE  \A a \in Sweeps : WriterIs(a) => WriterIs(a)'
  <2>1. CASE writerQ' = writerQ
    BY <2>1 DEF WriterIs
  <2>2. CASE writerQ' = Append(writerQ, m)
    <3>1. writerQ # <<>> => /\ Append(writerQ, m) # <<>>
                            /\ Head(Append(writerQ, m)) = Head(writerQ)
      BY <1>t
    <3> QED
      BY <2>2, <3>1 DEF WriterIs
  <2>3. CASE WriterIs(m)
    BY <2>3, <1>s DEF WriterIs
  <2> QED
    BY <1>w, <2>1, <2>2, <2>3
<1>i. ASSUME idle' = idle, active \subseteq active'
      PROVE  \A w \in Works : idle'[w] \subseteq idle[w] /\ idle'[w] \cap ActiveIds \subseteq ActiveIds'
  <2>1. ActiveIds \subseteq ActiveIds'
    BY <1>i, <1>p DEF ActiveIds
  <2> QED
    BY <1>i, <2>1
<1>1. CASE StartMutation(m)
  <2>1. /\ pc[m] = "new" /\ pc'[m] \in {"refused", "mlocking"}
        /\ UNCHANGED <<idle, writerQ, active, admitted, preserve, gone, told, interrupted, draining, drained>>
    BY <1>1, <1>p DEF StartMutation, drainVars, envVars
  <2>2. \A n \in Mutations : n # m => initiator'[n] = initiator[n]
    BY <1>1, <1>t DEF StartMutation
  <2>3. active' = {n \in Mutations : pc'[n] \in Marked}
    BY <2>1, <1>a DEF Marked
  <2> QED
    BY <2>1, <2>2, <2>3, <1>p, <1>g, <1>w, <1>i DEF MutationEffect, Arrives
<1>2. CASE LockMutation(m)
  <2>1. /\ pc[m] = "mlocking" /\ pc'[m] \in {"mlocking", "ilocking"}
        /\ UNCHANGED <<idle, writerQ, active, admitted, preserve, gone, told, interrupted, draining,
                       drained, initiator>>
    BY <1>2, <1>p DEF LockMutation, drainVars, envVars
  <2>2. active' = {n \in Mutations : pc'[n] \in Marked}
    BY <2>1, <1>a DEF Marked
  <2> QED
    BY <2>1, <2>2, <1>p, <1>g, <1>w, <1>i DEF MutationEffect, Arrives
<1>3. CASE LockIdentities(m)
  <2>1. /\ pc'[m] = pc[m] /\ pc[m] # "new"
        /\ UNCHANGED <<idle, writerQ, active, admitted, preserve, gone, told, interrupted, draining,
                       drained, initiator>>
    BY <1>3 DEF LockIdentities, drainVars, envVars
  <2>2. active' = {n \in Mutations : pc'[n] \in Marked}
    BY <2>1, <1>a
  <2> QED
    BY <2>1, <2>2, <1>p, <1>g, <1>w, <1>i DEF MutationEffect, Arrives
<1>4. CASE Activate(m)
  <2>1. /\ pc[m] = "ilocking" /\ Holds(identityQ, m)
        /\ \/ pc'[m] = "refused" /\ active' = active
           \/ pc'[m] = "preparing" /\ active' = active \cup {m}
        /\ UNCHANGED <<idle, writerQ, admitted, preserve, gone, told, interrupted, draining,
                       drained, initiator>>
    BY <1>4, <1>p DEF Activate, drainVars, envVars
  <2>2. active' = {n \in Mutations : pc'[n] \in Marked}
    BY <2>1, <1>t, <1>n DEF Marked
  <2> QED
    BY <2>1, <2>2, <1>p, <1>g, <1>w, <1>i DEF MutationEffect, Arrives
<1>5. CASE Prepare(m)
  <2>1. /\ pc[m] = "preparing"
        /\ UNCHANGED <<idle, writerQ, active, admitted, preserve, gone, drained, initiator>>
        /\ \/ /\ pc'[m] \in {"prepared", "finishing"}
              /\ UNCHANGED <<draining, interrupted, told>>
           \/ /\ pc'[m] = "draining"
              /\ draining' = [draining EXCEPT ![m] = Competing(m)]
              /\ interrupted' = interrupted \cup Competing(m)
              /\ told' = told \cup Competing(m)
    BY <1>5, <1>p DEF Prepare, Prepared, envVars
  <2>2. active' = {n \in Mutations : pc'[n] \in Marked}
    BY <2>1, <1>a DEF Marked
  <2>3. /\ \A n \in Mutations : n # m => draining'[n] = draining[n]
        /\ pc'[m] = "draining" => draining'[m] = Competing(m)
    BY <2>1, <1>t
  <2>4. told \subseteq told' /\ interrupted' \ interrupted \subseteq told' \cap admitted
    BY <2>1, <1>c
  <2>5. ~drained[m]
    BY <2>1, <1>g
  <2> QED
    BY <2>1, <2>2, <2>3, <2>4, <2>5, <1>p, <1>w, <1>i DEF MutationEffect, Arrives
<1>6. CASE DrainReleased(m) \/ DrainTimeout(m)
  <2>0. PICK r \in BOOLEAN : DrainEnds(m, r) /\ (r => draining[m] = {})
    BY <1>6 DEF DrainReleased, DrainTimeout
  <2>1. /\ pc[m] = "draining" /\ pc'[m] \in {"prepared", "finishing"}
        /\ UNCHANGED <<idle, writerQ, active, admitted, preserve, gone, initiator, interrupted, told>>
        /\ drained' = [drained EXCEPT ![m] = r]
        /\ draining' = [draining EXCEPT ![m] = {}]
    BY <2>0, <1>p DEF DrainEnds, Prepared, envVars
  <2>2. active' = {n \in Mutations : pc'[n] \in Marked}
    BY <2>1, <1>a DEF Marked
  <2>3. /\ \A n \in Mutations : n # m => draining'[n] = draining[n] /\ drained'[n] = drained[n]
        /\ drained'[m] = r
    BY <2>1, <1>t
  <2>4. r => Competing(m) = {}
    BY <2>0, <2>1, <1>g
  <2> QED
    BY <2>1, <2>2, <2>3, <2>4, <1>p, <1>w, <1>i DEF MutationEffect, Arrives
<1>7. CASE RunBody(m)
  <2>1. /\ pc[m] = "prepared"
        /\ pc'[m] = "finishing" \/ (pc'[m] = "writing" /\ drained[m])
        /\ writerQ' = writerQ \/ writerQ' = Append(writerQ, m)
        /\ UNCHANGED <<idle, active, admitted, preserve, gone, initiator, interrupted, told, draining,
                       drained>>
    BY <1>7, <1>p DEF RunBody, drainVars, envVars
  <2>2. active' = {n \in Mutations : pc'[n] \in Marked}
    BY <2>1, <1>a DEF Marked
  <2> QED
    BY <2>1, <2>2, <1>p, <1>g, <1>w, <1>i DEF MutationEffect, Arrives
<1>8. CASE BodyWrites(m)
  <2>1. /\ pc[m] = "writing" /\ pc'[m] = "finishing"
        /\ gone' = gone \/ gone' = gone \cup ids[m]
        /\ WriterIs(m) /\ writerQ' = Tail(writerQ)
        /\ UNCHANGED <<idle, active, admitted, preserve, initiator, interrupted, told, draining, drained>>
    BY <1>8, <1>p DEF BodyWrites, drainVars
  <2>2. active' = {n \in Mutations : pc'[n] \in Marked}
    BY <2>1, <1>a DEF Marked
  <2> QED
    BY <2>1, <2>2, <1>p, <1>g, <1>w, <1>i DEF MutationEffect, Arrives
<1>9. CASE Deactivate(m)
  <2>1. /\ pc[m] = "finishing" /\ pc'[m] = "done"
        /\ active' = active \ {m}
        /\ UNCHANGED <<writerQ, admitted, preserve, gone, initiator, interrupted, told, draining,
                       drained>>
    BY <1>9, <1>p DEF Deactivate, drainVars, envVars
  <2>2. active' = {n \in Mutations : pc'[n] \in Marked}
    BY <2>1, <1>t, <1>n DEF Marked
  <2>3. \A w \in Works : idle'[w] \subseteq idle[w] /\ idle'[w] \cap ActiveIds \subseteq ActiveIds'
    <3> DEFINE still == UNION {ids[n] : n \in active \ {m}}
    <3>1. \A w \in Works : idle'[w] = idle[w] \ (ids[m] \ still)
      BY <1>9 DEF Deactivate
    <3>2. ActiveIds' = still
      BY <2>1, <1>p DEF ActiveIds
    <3>3. ActiveIds \subseteq ids[m] \cup still
      BY DEF ActiveIds
    <3> HIDE DEF still
    <3> QED
      BY <3>1, <3>2, <3>3
  <2> QED
    BY <2>1, <2>2, <2>3, <1>p, <1>g, <1>w DEF MutationEffect, Arrives
<1> QED
  BY <1>1, <1>2, <1>3, <1>4, <1>5, <1>6, <1>7, <1>8, <1>9

\* A step of the maintenance run s: it reads the admissions and removes what it
\* did not read as the writer of the store, and no other run works meanwhile.
SweepEffect(s) ==
  /\ UNCHANGED <<ids, identityQ, mutationQ, active, admitted, idle, initiator, draining,
                 drained, interrupted, told>>
  /\ pc' \in [Ops \cup Sweeps -> Stages]
  /\ \A a \in Ops \cup Sweeps : a # s => pc'[a] = pc[a]
  /\ pc'[s] = "sweeping" => WriterIs(s)' /\ preserve'[s] = UNION {ids[w] : w \in admitted}
  /\ \A r \in Sweeps : r # s /\ pc[r] = "sweeping" => WriterIs(r)' /\ preserve'[r] = preserve[r]
  /\ gone' = gone \/ (pc[s] = "sweeping" /\ gone' \cap preserve[s] \subseteq gone)

\* Every step of maintenance is one.
LEMMA SweepEffects ==
  ASSUME TypeOK, StageInv, NEW s \in Sweeps,
         StartSweep(s) \/ SweepReads(s) \/ SweepDeletes(s)
  PROVE  SweepEffect(s)
<1>t. /\ pc \in [Ops \cup Sweeps -> Stages] /\ writerQ \in Seq(Ops \cup Sweeps)
      /\ preserve \in [Sweeps -> SUBSET Identities]
      /\ \A r \in Sweeps : pc[r] = "sweeping" => WriterIs(r)
  BY DEF TypeOK, StageInv
<1>p. ASSUME NEW to \in Stages, Goto(s, to)
      PROVE  /\ pc' \in [Ops \cup Sweeps -> Stages] /\ pc'[s] = to
             /\ \A a \in Ops \cup Sweeps : a # s => pc'[a] = pc[a]
  BY <1>t, <1>p DEF Goto
<1>1. CASE StartSweep(s)
  <2>1. /\ Goto(s, "queued") /\ writerQ' = Append(writerQ, s) /\ preserve' = preserve
        /\ gone' = gone
        /\ UNCHANGED <<ids, identityQ, mutationQ, active, admitted, idle, initiator, draining,
                       drained, interrupted, told>>
    BY <1>1 DEF StartSweep, Elsewhere, drainVars, envVars
  <2>2. writerQ # <<>> => /\ Append(writerQ, s) # <<>>
                          /\ Head(Append(writerQ, s)) = Head(writerQ)
    BY <1>t
  <2>3. \A r \in Sweeps : WriterIs(r) => WriterIs(r)'
    BY <2>1, <2>2 DEF WriterIs
  <2>4. "queued" \in Stages
    BY DEF Stages
  <2> QED
    BY <2>1, <2>3, <2>4, <1>t, <1>p DEF SweepEffect
<1>2. CASE SweepReads(s)
  <2>1. /\ Goto(s, "sweeping") /\ writerQ' = writerQ /\ WriterIs(s) /\ gone' = gone
        /\ preserve' = [preserve EXCEPT ![s] = UNION {ids[w] : w \in admitted}]
        /\ UNCHANGED <<ids, identityQ, mutationQ, active, admitted, idle, initiator, draining,
                       drained, interrupted, told>>
    BY <1>2 DEF SweepReads, lockVars, drainVars
  <2>2. \A r \in Sweeps : WriterIs(r) => WriterIs(r)'
    BY <2>1 DEF WriterIs
  <2>3. "sweeping" \in Stages
    BY DEF Stages
  <2>4. /\ preserve'[s] = UNION {ids[w] : w \in admitted}
        /\ \A r \in Sweeps : r # s => preserve'[r] = preserve[r]
    BY <2>1, <1>t
  <2> QED
    BY <2>1, <2>2, <2>3, <2>4, <1>t, <1>p DEF SweepEffect
<1>3. CASE SweepDeletes(s)
  <2>1. /\ pc[s] = "sweeping" /\ Goto(s, "done")
        /\ UNCHANGED <<ids, identityQ, mutationQ, active, admitted, idle, initiator, draining,
                       drained, interrupted, told>>
    BY <1>3 DEF SweepDeletes, drainVars
  <2>2. gone' \cap preserve[s] \subseteq gone
    BY <1>3 DEF SweepDeletes
  <2>3. \A r \in Sweeps : r # s => pc[r] # "sweeping"
    BY <2>1, <1>t DEF WriterIs
  <2>4. "done" \in Stages
    BY DEF Stages
  <2> QED
    BY <2>1, <2>2, <2>3, <2>4, <1>p DEF SweepEffect
<1> QED
  BY <1>1, <1>2, <1>3

-----------------------------------------------------------------------------
(* What the steps preserve *)

\* Two that hold the same identity are the same: the locks exclude.
LEMMA LocksExclude ==
  ASSUME NEW q, NEW a, NEW b, Holds(q, a), Holds(q, b), Overlap(a, b)
  PROVE  a = b
  BY DEF Holds, Held, Overlap

\* A turn keeps what the mutations know of the turns: it comes in only where none
\* is marked, and whoever awaits it forgets it only when it is gone.
LEMMA WorkKeepsGuard ==
  ASSUME TypeOK, StageInv, GuardInv, NEW w \in Works, WorkEffect(w)
  PROVE  GuardInv'
<1>1. ids' = ids /\ active' = active /\ initiator' = initiator /\ drained' = drained
  BY DEF WorkEffect
<1>2. \A m \in Mutations : pc'[m] = pc[m]
  BY LifecycleAssumption DEF WorkEffect, Ops
<1>3. \A v \in Works : pc'[v] = "asserting" => ~Blocked(v)
  BY DEF WorkEffect, GuardInv, Ops
<1>4. ASSUME NEW m \in active PROVE Competing(m)' \subseteq Competing(m)
  <2>1. pc[w] = "asserting" => ~Overlap(m, w)
    BY DEF GuardInv, Blocked
  <2>2. admitted' \subseteq admitted \cup (IF pc[w] = "asserting" THEN {w} ELSE {})
    BY DEF WorkEffect
  <2> QED
    BY <1>1, <2>1, <2>2 DEF Competing, Overlap
<1>5. \A m \in Mutations : pc[m] \in Marked => m \in active
  BY DEF StageInv
<1>6. \A m \in Mutations : (draining[m] \ draining'[m]) \cap admitted' = {}
  BY DEF WorkEffect
<1>7. ASSUME NEW m \in Mutations, pc'[m] = "draining" PROVE Competing(m)' \subseteq draining'[m]
  <2>1. Competing(m)' \subseteq Competing(m) /\ Competing(m) \subseteq draining[m]
    BY <1>2, <1>4, <1>5, <1>7 DEF GuardInv, Marked
  <2>2. Competing(m)' \subseteq admitted'
    BY DEF Competing
  <2> QED
    BY <1>6, <2>1, <2>2
<1>8. ASSUME NEW m \in Mutations, drained'[m], pc'[m] \in {"prepared", "writing"}
      PROVE  Competing(m)' = {}
  BY <1>1, <1>2, <1>4, <1>5, <1>8 DEF GuardInv, Marked
<1>9. \A v \in Works : pc'[v] = "asserting" => ~Blocked(v)'
  BY <1>1, <1>3 DEF Blocked, Overlap
<1> QED
  BY <1>1, <1>2, <1>7, <1>8, <1>9 DEF GuardInv

\* A mutation keeps it: it is marked inside the locks that a turn holds while it
\* asks.
LEMMA MutationKeepsGuard ==
  ASSUME TypeOK, LockInv, StageInv, GuardInv, NEW m \in Mutations, MutationEffect(m)
  PROVE  GuardInv'
<1>1. ids' = ids /\ admitted' = admitted
  BY DEF MutationEffect
<1>2. /\ \A v \in Works : pc'[v] = pc[v]
      /\ \A n \in Mutations : n # m => pc'[n] = pc[n]
  BY LifecycleAssumption DEF MutationEffect, Ops
<1>3. ASSUME NEW w \in Works, pc'[w] = "asserting" PROVE ~Blocked(w)'
  <2>1. pc[w] = "asserting" /\ ~Blocked(w) /\ Holds(identityQ, w)
    BY <1>2, <1>3 DEF GuardInv, LockInv, Inside, Ops
  <2>2. ASSUME NEW n \in active' \ active PROVE ~Overlap(n, w)
    <3>1. n = m /\ Holds(identityQ, m)
      BY DEF MutationEffect
    <3>2. m # w
      BY LifecycleAssumption
    <3> QED
      BY <2>1, <3>1, <3>2, LocksExclude
  <2> QED
    BY <1>1, <2>1, <2>2 DEF Blocked, Overlap
<1>4. ASSUME NEW n \in Mutations, n # m
      PROVE  /\ Competing(n)' = Competing(n) /\ draining'[n] = draining[n]
             /\ drained'[n] = drained[n] /\ pc'[n] = pc[n]
  BY <1>1, <1>2, <1>4 DEF MutationEffect, Competing, Overlap
<1>5. pc'[m] \in {"draining", "prepared", "writing"} => Competing(m)' = Competing(m)
  BY <1>1 DEF MutationEffect, Competing, Overlap
<1>6. Arrives(m)
  BY DEF MutationEffect
<1>7. ASSUME NEW n \in Mutations
      PROVE  /\ pc'[n] = "draining" => Competing(n)' \subseteq draining'[n]
             /\ drained'[n] => pc'[n] \in {"prepared", "writing", "finishing", "done"}
             /\ pc'[n] = "writing" => drained'[n]
             /\ drained'[n] /\ pc'[n] \in {"prepared", "writing"} => Competing(n)' = {}
  <2>1. CASE n = m
    BY <1>5, <1>6, <2>1 DEF Arrives
  <2>2. CASE n # m
    BY <1>4, <2>2 DEF GuardInv
  <2> QED
    BY <2>1, <2>2
<1> QED
  BY <1>3, <1>7 DEF GuardInv

\* Interrupts, callers, waiters and what is spared, under the steps of a turn.
LEMMA WorkKeepsRest ==
  ASSUME TypeOK, StageInv, CallerInv, IdleNeverStranded, ToldInv, SpareInv,
         NEW w \in Works, WorkEffect(w)
  PROVE  CallerInv' /\ IdleNeverStranded' /\ ToldInv' /\ SpareInv'
<1>1. /\ ids' = ids /\ active' = active /\ initiator' = initiator /\ gone' = gone
      /\ preserve' = preserve /\ interrupted' = interrupted
  BY DEF WorkEffect
<1>2. /\ \A m \in Mutations : pc'[m] = pc[m]
      /\ \A s \in Sweeps : pc'[s] = pc[s]
      /\ \A v \in Works : v # w => pc'[v] = pc[v]
  BY LifecycleAssumption DEF WorkEffect, Ops
<1>3. CallerInv'
  BY <1>1, <1>2 DEF CallerInv
<1>4. IdleNeverStranded'
  <2>1. ActiveIds' = ActiveIds
    BY <1>1 DEF ActiveIds
  <2>2. idle \in [Works -> SUBSET Identities]
    BY DEF TypeOK
  <2>3. \A v \in Works : idle'[v] \subseteq idle[v] \cup ActiveIds
    BY <2>2 DEF WorkEffect
  <2> QED
    BY <2>1, <2>3 DEF IdleNeverStranded
<1>5. ToldInv'
  <2>1. interrupted \subseteq Works
    BY DEF TypeOK
  <2>2. \A v \in interrupted : pc'[v] \notin Outside
    BY <1>2, <2>1 DEF ToldInv, WorkEffect, Outside
  <2>3. \A v \in interrupted \cap admitted' : v \in admitted
    BY DEF ToldInv, WorkEffect, Outside
  <2>4. \A v \in interrupted \cap admitted' : v \in told'
    BY <2>3 DEF ToldInv, InterruptReaches, WorkEffect
  <2> QED
    BY <1>1, <2>2, <2>4 DEF ToldInv, InterruptReaches
<1>6. SpareInv'
  <2>1. ASSUME NEW v \in Works, pc'[v] = "working", NEW i \in ids[v] \cap gone
        PROVE  \E m \in Mutations : initiator[m] = v /\ i \in ids[m]
    <3>1. CASE pc[v] = "working"
      BY <3>1 DEF SpareInv, NoWorkOnGone
    <3>2. CASE pc[v] # "working"
      BY <1>2, <2>1, <3>2 DEF WorkEffect, Exists
    <3> QED
      BY <3>1, <3>2
  <2>2. ASSUME NEW s \in Sweeps, NEW v \in Works, pc[s] = "sweeping", pc'[v] = "working"
        PROVE  ids[v] \subseteq preserve[s]
    <3>1. WriterIs(s) /\ s # w
      BY <2>2, LifecycleAssumption DEF StageInv, Ops
    <3>2. pc[v] = "working"
      BY <1>2, <2>2, <3>1 DEF WorkEffect, WriterIs
    <3> QED
      BY <2>2, <3>2 DEF SpareInv
  <2>3. NoWorkOnGone'
    BY <1>1, <2>1 DEF NoWorkOnGone
  <2> QED
    BY <1>1, <1>2, <2>2, <2>3 DEF SpareInv
<1> QED
  BY <1>3, <1>4, <1>5, <1>6

\* The same under the steps of a mutation: it removes a session only when the one
\* turn left on it is its caller.
LEMMA MutationKeepsRest ==
  ASSUME TypeOK, StageInv, GuardInv, CallerInv, IdleNeverStranded, ToldInv, SpareInv,
         NEW m \in Mutations, MutationEffect(m)
  PROVE  CallerInv' /\ IdleNeverStranded' /\ ToldInv' /\ SpareInv'
<1>1. /\ ids' = ids /\ admitted' = admitted /\ preserve' = preserve
  BY DEF MutationEffect
<1>2. /\ \A v \in Works : pc'[v] = pc[v]
      /\ \A s \in Sweeps : pc'[s] = pc[s]
      /\ \A n \in Mutations : n # m => pc'[n] = pc[n] /\ initiator'[n] = initiator[n]
  BY LifecycleAssumption DEF MutationEffect, Ops
<1>3. CallerInv'
  BY <1>2 DEF CallerInv, MutationEffect
<1>4. IdleNeverStranded'
  BY DEF IdleNeverStranded, MutationEffect
<1>5. ToldInv'
  <2>1. \A v \in admitted : v \in Works /\ pc[v] \notin Outside
    BY DEF StageInv, Outside
  <2>2. interrupted \subseteq Works
    BY DEF TypeOK
  <2>3. told \subseteq told' /\ \A v \in interrupted' : v \in interrupted \/ v \in told' \cap admitted
    BY DEF MutationEffect
  <2> QED
    BY <1>1, <1>2, <2>1, <2>2, <2>3 DEF ToldInv, InterruptReaches
<1>6. SpareInv'
  <2>1. ASSUME NEW v \in Works, NEW n \in Mutations, initiator[n] = v PROVE initiator'[n] = v
    <3>1. CASE n # m
      BY <1>2, <2>1, <3>1
    <3>2. CASE n = m
      BY <2>1, <3>2, LifecycleAssumption DEF MutationEffect, CallerInv
    <3> QED
      BY <3>1, <3>2
  <2>2. ASSUME NEW v \in Works, pc[v] = "working", NEW i \in ids[v] \cap gone'
        PROVE  \E n \in Mutations : initiator[n] = v /\ i \in ids[n]
    <3>1. CASE i \in gone
      BY <2>2, <3>1 DEF SpareInv, NoWorkOnGone
    <3>2. CASE i \notin gone
      <4>1. pc[m] = "writing" /\ i \in ids[m]
        BY <2>2, <3>2 DEF MutationEffect
      <4>2. Competing(m) = {}
        BY <4>1 DEF GuardInv
      <4>3. v \in admitted /\ Overlap(m, v)
        BY <2>2, <4>1 DEF StageInv, Overlap
      <4> QED
        BY <4>1, <4>2, <4>3 DEF Competing
    <3> QED
      BY <3>1, <3>2
  <2>3. NoWorkOnGone'
    BY <1>1, <1>2, <2>1, <2>2 DEF NoWorkOnGone
  <2> QED
    BY <1>1, <1>2, <2>3 DEF SpareInv
<1> QED
  BY <1>3, <1>4, <1>5, <1>6

\* And under those of maintenance: the turns it did not read are not let in before
\* it has ended, for their last check is behind it in the line of writers.
LEMMA SweepKeepsRest ==
  ASSUME TypeOK, StageInv, GuardInv, CallerInv, IdleNeverStranded, ToldInv, SpareInv,
         NEW s \in Sweeps, SweepEffect(s)
  PROVE  GuardInv' /\ CallerInv' /\ IdleNeverStranded' /\ ToldInv' /\ SpareInv'
<1>1. UNCHANGED <<ids, active, admitted, idle, initiator, draining, drained, interrupted, told>>
  BY DEF SweepEffect
<1>2. /\ \A a \in Works \cup Mutations : pc'[a] = pc[a]
      /\ \A r \in Sweeps : r # s => pc'[r] = pc[r]
  BY LifecycleAssumption DEF SweepEffect, Ops
<1>3. \A a : /\ Competing(a)' = Competing(a) /\ Blocked(a)' = Blocked(a)
  BY <1>1 DEF Competing, Blocked, Overlap
<1>4. GuardInv'
  BY <1>1, <1>2, <1>3 DEF GuardInv
<1>5. CallerInv'
  BY <1>1, <1>2 DEF CallerInv
<1>6. IdleNeverStranded'
  BY <1>1 DEF IdleNeverStranded, ActiveIds
<1>7. ToldInv'
  <2>1. interrupted \subseteq Works
    BY DEF TypeOK
  <2> QED
    BY <1>1, <1>2, <2>1 DEF ToldInv, InterruptReaches
<1>8. SpareInv'
  <2>1. ASSUME NEW v \in Works, pc[v] = "working", NEW i \in ids[v] \cap gone'
        PROVE  \E n \in Mutations : initiator[n] = v /\ i \in ids[n]
    <3>1. i \in gone
      BY <2>1 DEF SweepEffect, SpareInv
    <3> QED
      BY <2>1, <3>1 DEF SpareInv, NoWorkOnGone
  <2>2. NoWorkOnGone'
    BY <1>1, <1>2, <2>1 DEF NoWorkOnGone
  <2>3. ASSUME NEW r \in Sweeps, NEW v \in Works, pc'[r] = "sweeping", pc'[v] = "working"
        PROVE  ids[v] \subseteq preserve'[r]
    <3>1. pc[v] = "working" /\ v \in admitted
      BY <1>2, <2>3 DEF StageInv
    <3>2. CASE r = s
      BY <2>3, <3>1, <3>2 DEF SweepEffect
    <3>3. CASE r # s
      BY <1>2, <2>3, <3>1, <3>3 DEF SweepEffect, SpareInv
    <3> QED
      BY <3>2, <3>3
  <2> QED
    BY <1>1, <2>2, <2>3 DEF SpareInv
<1> QED
  BY <1>4, <1>5, <1>6, <1>7, <1>8

-----------------------------------------------------------------------------
(* The theorems *)

\* A program that has just started satisfies the invariant.
LEMMA LifecycleInit == Init => LifecycleInv
<1> SUFFICES ASSUME Init PROVE LifecycleInv
  OBVIOUS
<1>1. /\ pc \in [Ops \cup Sweeps -> Stages] /\ \A a \in Ops \cup Sweeps : pc[a] = "new"
  BY DEF Init, Stages
<1>2. \A T : <<>> \in Seq(T)
  OBVIOUS
<1>3. TypeOK
  BY <1>1, <1>2 DEF Init, TypeOK
<1>4. LockInv
  BY <1>1 DEF LockInv, Inside, Marked, Ops
<1>5. StageInv
  BY <1>1 DEF Init, StageInv, Marked, Ops
<1>6. GuardInv
  BY <1>1 DEF Init, GuardInv, Ops
<1>7. CallerInv /\ IdleNeverStranded
  BY DEF Init, CallerInv, IdleNeverStranded
<1>8. ToldInv
  BY DEF Init, ToldInv, InterruptReaches
<1>9. SpareInv
  BY <1>1 DEF SpareInv, NoWorkOnGone, Ops
<1> QED
  BY <1>3, <1>4, <1>5, <1>6, <1>7, <1>8, <1>9 DEF LifecycleInv

\* No step breaks it.
LEMMA LifecycleStep == LifecycleInv /\ [Next]_vars => LifecycleInv'
<1> SUFFICES ASSUME LifecycleInv, [Next]_vars PROVE LifecycleInv'
  OBVIOUS
<1>i. /\ TypeOK /\ LockInv /\ StageInv /\ GuardInv
      /\ CallerInv /\ IdleNeverStranded /\ ToldInv /\ SpareInv
  BY DEF LifecycleInv
<1>1. ASSUME NEW w \in Works,
             BeginWork(w) \/ WorkSteps(w) \/ EndWork(w) \/ OfferWork(w) \/ AdoptWork(w)
      PROVE  LifecycleInv'
  <2>1. ActorStep(w) /\ RestOK' /\ WorkEffect(w)
    BY <1>i, <1>1, WorkActs, WorkTypes, WorkEffects DEF WorkSteps
  <2>2. w \in Ops
    BY DEF Ops
  <2>3. TypeOK' /\ LockInv'
    <3>1. /\ LockInv' /\ pc' \in [Ops \cup Sweeps -> Stages]
          /\ identityQ' \in [Identities -> Seq(Ops)]
          /\ mutationQ' \in [Identities -> Seq(Mutations)]
      BY <1>i, <2>1, <2>2, ActorKeepsLocks
    <3> QED
      BY <2>1, <3>1 DEF RestOK, TypeOK
  <2>4. StageInv'
    <3>1. \A s \in Sweeps : pc'[s] = pc[s]
      BY <2>1, LifecycleAssumption DEF Ops, WorkEffect
    <3> QED
      BY <1>i, <2>1, <3>1, LifecycleAssumption DEF StageInv, WorkEffect, Ops
  <2>5. GuardInv' /\ CallerInv' /\ IdleNeverStranded' /\ ToldInv' /\ SpareInv'
    BY <1>i, <2>1, WorkKeepsGuard, WorkKeepsRest
  <2> QED
    BY <2>3, <2>4, <2>5 DEF LifecycleInv
<1>2. ASSUME NEW m \in Mutations, StartMutation(m) \/ MutationSteps(m)
      PROVE  LifecycleInv'
  <2>1. ActorStep(m) /\ RestOK' /\ MutationEffect(m)
    BY <1>i, <1>2, MutationActs, MutationTypes, MutationEffects DEF MutationSteps
  <2>2. m \in Ops
    BY DEF Ops
  <2>3. TypeOK' /\ LockInv'
    <3>1. /\ LockInv' /\ pc' \in [Ops \cup Sweeps -> Stages]
          /\ identityQ' \in [Identities -> Seq(Ops)]
          /\ mutationQ' \in [Identities -> Seq(Mutations)]
      BY <1>i, <2>1, <2>2, ActorKeepsLocks
    <3> QED
      BY <2>1, <3>1 DEF RestOK, TypeOK
  <2>4. StageInv'
    <3>1. /\ \A s \in Sweeps : pc'[s] = pc[s]
          /\ \A v \in Works : pc'[v] = pc[v]
      BY <2>1, LifecycleAssumption DEF Ops, MutationEffect
    <3> QED
      BY <1>i, <2>1, <3>1 DEF StageInv, MutationEffect
  <2>5. GuardInv' /\ CallerInv' /\ IdleNeverStranded' /\ ToldInv' /\ SpareInv'
    BY <1>i, <2>1, MutationKeepsGuard, MutationKeepsRest
  <2> QED
    BY <2>3, <2>4, <2>5 DEF LifecycleInv
<1>3. ASSUME NEW s \in Sweeps, StartSweep(s) \/ SweepSteps(s)
      PROVE  LifecycleInv'
  <2>1. RestOK' /\ SweepEffect(s)
    BY <1>i, <1>3, SweepTypes, SweepEffects DEF SweepSteps
  <2>2. \A a \in Ops : pc'[a] = pc[a]
    BY <2>1, LifecycleAssumption DEF SweepEffect
  <2>3. TypeOK' /\ LockInv'
    <3>1. LockInv'
      BY <1>i, <2>1, <2>2, BystanderKeepsLocks DEF SweepEffect
    <3>2. /\ pc' \in [Ops \cup Sweeps -> Stages]
          /\ identityQ' \in [Identities -> Seq(Ops)]
          /\ mutationQ' \in [Identities -> Seq(Mutations)]
      BY <1>i, <2>1 DEF SweepEffect, TypeOK
    <3> QED
      BY <2>1, <3>1, <3>2 DEF RestOK, TypeOK
  <2>4. StageInv'
    <3>1. \A r \in Sweeps : r # s => pc'[r] = pc[r]
      BY <2>1 DEF SweepEffect
    <3>2. \A r \in Sweeps : pc'[r] = "sweeping" => WriterIs(r)'
      BY <2>1, <3>1 DEF SweepEffect
    <3> QED
      BY <1>i, <2>1, <2>2, <3>2 DEF StageInv, SweepEffect, Ops
  <2>5. GuardInv' /\ CallerInv' /\ IdleNeverStranded' /\ ToldInv' /\ SpareInv'
    BY <1>i, <2>1, SweepKeepsRest
  <2> QED
    BY <2>3, <2>4, <2>5 DEF LifecycleInv
<1>4. ASSUME NEW a \in Signals, FireAbort(a) PROVE LifecycleInv'
  <2>1. UNCHANGED <<ids, pc, lockVars, active, admitted, idle, initiator, drainVars, offered,
                    preserve, gone>> /\ aborted' = aborted \cup {a}
    BY <1>4 DEF FireAbort
  <2>2. TypeOK'
    BY <1>i, <2>1 DEF TypeOK, lockVars, drainVars
  <2>3. LockInv' /\ StageInv' /\ GuardInv' /\ CallerInv' /\ IdleNeverStranded' /\ ToldInv' /\ SpareInv'
    BY <1>i, <2>1 DEF lockVars, drainVars, LockInv, Holds, Held, StageInv, WriterIs, GuardInv, Blocked,
       Overlap, Competing, CallerInv, IdleNeverStranded, ActiveIds, ToldInv, InterruptReaches,
       SpareInv, NoWorkOnGone
  <2> QED
    BY <2>2, <2>3 DEF LifecycleInv
<1>5. CASE UNCHANGED vars
  BY <1>i, <1>5 DEF vars, lockVars, drainVars, envVars, LifecycleInv, TypeOK, LockInv, Holds, Held,
     StageInv, WriterIs, GuardInv, Blocked, Overlap, Competing, CallerInv, IdleNeverStranded,
     ActiveIds, ToldInv, InterruptReaches, SpareInv, NoWorkOnGone
<1> QED
  BY <1>1, <1>2, <1>3, <1>4, <1>5 DEF Next

\* So it holds always.
LEMMA LifecycleAlways == Spec => []LifecycleInv
  BY LifecycleInit, LifecycleStep, PTL DEF Spec

\* Every variable of the admission and mutation registries keeps its type.
THEOREM LifecycleTypes == Spec => []TypeOK
<1>1. LifecycleInv => TypeOK
  BY DEF LifecycleInv
<1> QED
  BY <1>1, LifecycleAlways, PTL

\* A mutation body that got its drain is alone on its session when it writes: no
\* turn but its caller is admitted there and no other mutation is active there.
THEOREM BodyIsAlone == Spec => []MutationAlone
<1>1. LifecycleInv => MutationAlone
  <2> SUFFICES ASSUME LifecycleInv, NEW m \in Mutations, pc[m] = "writing"
               PROVE  Competing(m) = {} /\ \A n \in active \ {m} : ~Overlap(m, n)
    BY DEF MutationAlone
  <2>1. Competing(m) = {}
    BY DEF LifecycleInv, GuardInv
  <2>2. ASSUME NEW n \in active PROVE Holds(mutationQ, n) /\ n \in Mutations
    BY DEF LifecycleInv, LockInv, StageInv
  <2>3. Holds(mutationQ, m)
    BY DEF LifecycleInv, LockInv, Marked
  <2> QED
    BY <2>1, <2>2, <2>3, LocksExclude
<1> QED
  BY <1>1, LifecycleAlways, PTL

\* A turn that was let in loses its session only to a mutation it called itself,
\* whatever maintenance runs and other mutations do around it.
THEOREM WorkKeepsSession == Spec => []NoWorkOnGone
<1>1. LifecycleInv => NoWorkOnGone
  BY DEF LifecycleInv, SpareInv
<1> QED
  BY <1>1, LifecycleAlways, PTL

\* Nobody waits for the end of a mutation that is not active.
THEOREM WaitersHaveMutation == Spec => []IdleNeverStranded
<1>1. LifecycleInv => IdleNeverStranded
  BY DEF LifecycleInv
<1> QED
  BY <1>1, LifecycleAlways, PTL

\* The owner of an interrupted admission has been told, also after a handoff.
THEOREM InterruptsAreTold == Spec => []InterruptReaches
<1>1. LifecycleInv => InterruptReaches
  BY DEF LifecycleInv, ToldInv
<1> QED
  BY <1>1, LifecycleAlways, PTL
=============================================================================
