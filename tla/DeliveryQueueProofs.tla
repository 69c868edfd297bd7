------------------------- MODULE DeliveryQueueProofs -------------------------
(***************************************************************************)
(* Theorems about DeliveryQueue, for every set of entries and drains, every *)
(* number of payloads and retries, and however often the process crashes   *)
(* and the queue's writes fail.                                            *)
(***************************************************************************)
EXTENDS DeliveryQueue, TLAPS

-----------------------------------------------------------------------------
(* The inductive invariant, entry by entry *)

\* Stages of an attempt between its begin and its end.
Moving == {"ready", "sending", "dispatching", "shown", "unshown"}

\* The recipient has seen nothing of the message.
Unseen(e) == \A u \in Units(e) : visible[e][u] = 0

\* The row, if it can be replayed, says that a send may have happened.
Evident(e) == row[e] # "pending" \/ recoveryState[e] # "none"

\* A call that has not been made has left nothing behind; one that has just
\* persisted its row finds it untouched; a send without a row has none.
CallerInv(e) ==
  /\ mode[e] = "direct" => row[e] = "none"
  /\ caller[e] = "none" => row[e] = "none" /\ mode[e] = "idle" /\ terminals[e] = <<>> /\ Unseen(e)
  /\ caller[e] = "persisted" =>
       row[e] = "pending" /\ mode[e] = "idle" /\ recoveryState[e] = "none" /\ retryCount[e] = 0

\* Where an attempt is among its payloads, and what it has noticed so far.
PlaceInv(e) ==
  Running(e) =>
    /\ stage[e] # "none"
    /\ stage[e] \in Moving => unit[e] \in Units(e)
    /\ stage[e] = "returned" => unit[e] = opt[e].payloads + 1
    /\ stage[e] \in Moving \cup {"returned"} => results[e] < unit[e]
    /\ stage[e] # "threw" /\ (unit[e] = 1 \/ ~opt[e].bestEffort) => failures[e] = "no"
    /\ stage[e] # "threw" => failures[e] # "abort"
    /\ stage[e] = "reconcile" =>
         /\ mode[e] = "recovery" /\ unit[e] = 1 /\ results[e] = 0
         /\ pre[e] = "none" /\ post[e] = "none"

\* What an attempt remembers of its row is true, a row that is gone under it was
\* given up because a write failed, and there is budget for one failure.
RowInv(e) ==
  Queued(e) =>
    /\ row[e] # "pending" => faults > 0
    /\ post[e] = "acked" => row[e] # "pending"
    /\ post[e] \in {"marked", "failed"} => row[e] = "pending"
    /\ post[e] # "failed" => retryCount[e] < MaxRetries

\* Nothing becomes visible before there is evidence in the row, and an attempt
\* without evidence whose failures are proof of that has shown nothing.
EvidenceInv(e) ==
  /\ ~Evident(e) => Unseen(e)
  /\ Queued(e) /\ pre[e] # "none" => Evident(e)
  /\ Queued(e) /\ stage[e] \in {"dispatching", "shown", "unshown"} => Evident(e)
  /\ Queued(e) /\ ~opt[e].exact
       /\ (stage[e] \in Moving \ {"ready"} \/ post[e] # "none" \/ results[e] > 0)
         => pre[e] # "none"
  /\ Queued(e) /\ post[e] = "none" /\ failures[e] \in {"no", "proven"}
       /\ stage[e] \notin {"reconcile", "shown"} => Unseen(e)

\* What lies ahead of an attempt is unseen; what lies behind one that noticed no
\* failure was seen or withheld.
SeenInv(e) ==
  /\ \A u \in Units(e) : visible[e][u] \in {0, 1}
  /\ Running(e) /\ stage[e] \in Moving =>
       \A u \in Units(e) : u > unit[e] \/ (u = unit[e] /\ stage[e] # "shown") => visible[e][u] = 0
  /\ Running(e) /\ stage[e] = "shown" => visible[e][unit[e]] = 1
  /\ Running(e) /\ failures[e] = "no" /\ stage[e] \in Moving \cup {"returned"} =>
       \A u \in Units(e) : u < unit[e] => visible[e][u] > 0 \/ u \in skipped[e]

\* AtMostOnce, OneOutcome and CompletedIsSeen are about the end of a message.
EndInv(e) ==
  /\ Len(terminals[e]) <= 1
  /\ terminals[e] # <<>> => row[e] # "pending" /\ ~Running(e)
  /\ row[e] \in {"deleted", "failed"} =>
       terminals[e] # <<>> \/ Running(e) \/ crashes > 0 \/ faults > 1
  /\ terminals[e] = <<"completed">> => \A u \in Units(e) : visible[e][u] > 0 \/ u \in skipped[e]

EntryInv(e) ==
  CallerInv(e) /\ PlaceInv(e) /\ RowInv(e) /\ EvidenceInv(e) /\ SeenInv(e) /\ EndInv(e)

DeliveryInv == TypeOK /\ \A e \in Entries : EntryInv(e)

\* The options of an entry are well formed.
LEMMA OptionType ==
  ASSUME TypeOK, NEW e \in Entries
  PROVE  /\ opt[e].payloads \in 1..MaxPayloads
         /\ opt[e].bestEffort \in BOOLEAN /\ opt[e].exact \in BOOLEAN
         /\ opt[e].exact => opt[e].payloads = 1
         /\ Units(e) = 1..opt[e].payloads
  BY DeliveryAssumption DEF TypeOK, Units

-----------------------------------------------------------------------------
(* What the parts of an action do to the entry they are about *)

RowStates == {"none", "pending", "failed", "deleted"}
RecoveryStates == {"none", "started", "unknown"}
AttemptStages == {"none", "reconcile", "ready", "sending", "dispatching", "shown", "unshown",
                  "returned", "threw"}

RowAt(e, status, state, retries) ==
  /\ row' = [row EXCEPT ![e] = status] /\ row'[e] = status
  /\ recoveryState' = [recoveryState EXCEPT ![e] = state] /\ recoveryState'[e] = state
  /\ retryCount' = [retryCount EXCEPT ![e] = retries] /\ retryCount'[e] = retries

\* A write to the row of e.
LEMMA RowParts ==
  ASSUME TypeOK, NEW e \in Entries
  PROVE  /\ \A a, b, c : SetRow(e, a, b, c) => RowAt(e, a, b, c)
         /\ NoWrite => RowAt(e, row[e], recoveryState[e], retryCount[e])
<1>1. /\ row \in [Entries -> RowStates] /\ recoveryState \in [Entries -> RecoveryStates]
      /\ retryCount \in [Entries -> 0..MaxRetries]
  BY DEF TypeOK, RowStates, RecoveryStates
<1>2. \A a, b, c : SetRow(e, a, b, c) => RowAt(e, a, b, c)
  BY <1>1 DEF SetRow, RowAt
<1>3. NoWrite => RowAt(e, row[e], recoveryState[e], retryCount[e])
  BY <1>1 DEF NoWrite, rowVars, RowAt
<1> QED
  BY <1>2, <1>3

UnitAt(e, u) == unit' = [unit EXCEPT ![e] = u] /\ unit'[e] = u
StageAt(e, s) == stage' = [stage EXCEPT ![e] = s] /\ stage'[e] = s
FailuresAt(e, f) == failures' = [failures EXCEPT ![e] = f] /\ failures'[e] = f
PreAt(e, p) == pre' = [pre EXCEPT ![e] = p] /\ pre'[e] = p
PostAt(e, p) == post' = [post EXCEPT ![e] = p] /\ post'[e] = p
ResultsAt(e, n) == results' = [results EXCEPT ![e] = n] /\ results'[e] = n
ModeAt(e, m) == mode' = [mode EXCEPT ![e] = m] /\ mode'[e] = m
CallerAt(e, c) == caller' = [caller EXCEPT ![e] = c] /\ caller'[e] = c
TerminalsAt(e, t) == terminals' = [terminals EXCEPT ![e] = t] /\ terminals'[e] = t
SkippedAt(e, s) == skipped' = [skipped EXCEPT ![e] = s] /\ skipped'[e] = s
VisibleAt(e, v) == visible' = [visible EXCEPT ![e] = v] /\ visible'[e] = v

\* The position after a payload.
PassesAt(e) ==
  /\ UnitAt(e, unit[e] + 1)
  /\ StageAt(e, IF unit[e] = opt[e].payloads THEN "returned" ELSE "ready")

\* The position after a payload that failed.
FailsAt(e, why) ==
  \/ /\ opt[e].bestEffort /\ PassesAt(e)
     /\ FailuresAt(e, IF why = "proven" /\ failures[e] # "unproven" THEN "proven" ELSE "unproven")
  \/ /\ ~opt[e].bestEffort
     /\ StageAt(e, "threw") /\ FailuresAt(e, why) /\ UnitAt(e, unit[e])

\* An attempt that ends.
EndsAt(e) ==
  /\ ModeAt(e, "idle") /\ StageAt(e, "none")
  /\ CallerAt(e, IF caller[e] = "sending" THEN "done" ELSE caller[e])
  /\ UnitAt(e, unit[e]) /\ PreAt(e, pre[e]) /\ PostAt(e, post[e])
  /\ ResultsAt(e, results[e]) /\ FailuresAt(e, failures[e])

\* An attempt that begins.
BeginsAt(e, m, s) ==
  /\ ModeAt(e, m) /\ StageAt(e, s) /\ UnitAt(e, 1) /\ PreAt(e, "none") /\ PostAt(e, "none")
  /\ ResultsAt(e, 0) /\ FailuresAt(e, "no")

\* The steps of an attempt, and those that leave a part of it alone.
LEMMA AttemptParts ==
  ASSUME TypeOK, NEW e \in Entries
  PROVE  /\ NextUnit(e) => PassesAt(e)
         /\ \A why : UnitFails(e, why) => FailsAt(e, why)
         /\ Over(e) => EndsAt(e)
         /\ \A m, s : Begin(e, m, s) => BeginsAt(e, m, s)
         /\ \A s : stage' = [stage EXCEPT ![e] = s] => StageAt(e, s)
         /\ \A p : pre' = [pre EXCEPT ![e] = p] => PreAt(e, p)
         /\ \A p : post' = [post EXCEPT ![e] = p] => PostAt(e, p)
         /\ \A f : failures' = [failures EXCEPT ![e] = f] => FailuresAt(e, f)
<1>1. /\ unit \in [Entries -> 1..(MaxPayloads + 1)] /\ stage \in [Entries -> AttemptStages]
      /\ pre \in [Entries -> {"none", "marked", "acked"}]
      /\ post \in [Entries -> {"none", "marked", "acked", "failed"}]
      /\ results \in [Entries -> 0..MaxPayloads]
      /\ failures \in [Entries -> {"no", "proven", "unproven", "abort"}]
      /\ mode \in [Entries -> {"idle", "live", "direct", "recovery"}]
      /\ caller \in [Entries -> {"none", "persisted", "sending", "done"}]
  BY DEF TypeOK, AttemptStages
<1>2. NextUnit(e) => PassesAt(e)
  BY <1>1 DEF NextUnit, PassesAt, UnitAt, StageAt
<1>3. ASSUME NEW why, UnitFails(e, why) PROVE FailsAt(e, why)
  BY <1>1, <1>2, <1>3 DEF UnitFails, FailsAt, UnitAt, StageAt, FailuresAt
<1>4. Over(e) => EndsAt(e)
  BY <1>1 DEF Over, EndsAt, ModeAt, StageAt, CallerAt, UnitAt, PreAt, PostAt, ResultsAt, FailuresAt
<1>5. ASSUME NEW m, NEW s, Begin(e, m, s) PROVE BeginsAt(e, m, s)
  BY <1>1, <1>5 DEF Begin, BeginsAt, ModeAt, StageAt, UnitAt, PreAt, PostAt, ResultsAt, FailuresAt
<1>6. /\ \A s : stage' = [stage EXCEPT ![e] = s] => StageAt(e, s)
      /\ \A p : pre' = [pre EXCEPT ![e] = p] => PreAt(e, p)
      /\ \A p : post' = [post EXCEPT ![e] = p] => PostAt(e, p)
      /\ \A f : failures' = [failures EXCEPT ![e] = f] => FailuresAt(e, f)
  BY <1>1 DEF StageAt, PreAt, PostAt, FailuresAt
<1> QED
  BY <1>2, <1>3, <1>4, <1>5, <1>6

\* A part that is left alone.
LEMMA SameParts ==
  ASSUME TypeOK, NEW e \in Entries
  PROVE  /\ unit' = unit => UnitAt(e, unit[e])
         /\ pre' = pre => PreAt(e, pre[e])
         /\ post' = post => PostAt(e, post[e])
         /\ results' = results => ResultsAt(e, results[e])
         /\ failures' = failures => FailuresAt(e, failures[e])
         /\ stage' = stage => StageAt(e, stage[e])
         /\ mode' = mode => ModeAt(e, mode[e])
         /\ caller' = caller => CallerAt(e, caller[e])
         /\ visible' = visible => VisibleAt(e, visible[e])
         /\ skipped' = skipped => SkippedAt(e, skipped[e])
         /\ Quiet => TerminalsAt(e, terminals[e])
  BY DEF TypeOK, UnitAt, PreAt, PostAt, ResultsAt, FailuresAt, StageAt, ModeAt, CallerAt,
         VisibleAt, SkippedAt, TerminalsAt, Quiet

\* TypeOK for one entry.
TypeAt(e) ==
  /\ row[e] \in RowStates /\ recoveryState[e] \in RecoveryStates
  /\ retryCount[e] \in 0..MaxRetries
  /\ caller[e] \in {"none", "persisted", "sending", "done"}
  /\ mode[e] \in {"idle", "live", "direct", "recovery"}
  /\ stage[e] \in AttemptStages
  /\ unit[e] \in 1..(MaxPayloads + 1)
  /\ pre[e] \in {"none", "marked", "acked"}
  /\ post[e] \in {"none", "marked", "acked", "failed"}
  /\ results[e] \in 0..MaxPayloads
  /\ failures[e] \in {"no", "proven", "unproven", "abort"}
  /\ visible[e] \in [1..MaxPayloads -> Nat]
  /\ skipped[e] \in SUBSET (1..MaxPayloads)
  /\ terminals[e] \in Seq({"completed", "failed", "unknown"})

\* TypeOK holds of every entry.
LEMMA EntryType ==
  ASSUME TypeOK, NEW e \in Entries
  PROVE  TypeAt(e)
  BY DEF TypeOK, TypeAt, RowStates, RecoveryStates, AttemptStages

\* A step that changes nothing of the other entries.
Frame(e) ==
  /\ opt' = opt
  /\ row' = [row EXCEPT ![e] = row'[e]]
  /\ recoveryState' = [recoveryState EXCEPT ![e] = recoveryState'[e]]
  /\ retryCount' = [retryCount EXCEPT ![e] = retryCount'[e]]
  /\ caller' = [caller EXCEPT ![e] = caller'[e]]
  /\ mode' = [mode EXCEPT ![e] = mode'[e]]
  /\ stage' = [stage EXCEPT ![e] = stage'[e]]
  /\ unit' = [unit EXCEPT ![e] = unit'[e]]
  /\ pre' = [pre EXCEPT ![e] = pre'[e]]
  /\ post' = [post EXCEPT ![e] = post'[e]]
  /\ results' = [results EXCEPT ![e] = results'[e]]
  /\ failures' = [failures EXCEPT ![e] = failures'[e]]
  /\ visible' = [visible EXCEPT ![e] = visible'[e]]
  /\ skipped' = [skipped EXCEPT ![e] = skipped'[e]]
  /\ terminals' = [terminals EXCEPT ![e] = terminals'[e]]

\* A write that goes through or fails.
Faulty == Written \/ WriteFails

\* Writes that fail are counted.
LEMMA FaultsGrow ==
  ASSUME TypeOK, Faulty
  PROVE  /\ faults \in 0..MaxFaults /\ faults' \in 0..MaxFaults /\ MaxFaults \in Nat
         /\ faults' >= faults /\ (WriteFails => faults' = faults + 1)
  BY DeliveryAssumption DEF TypeOK, Faulty, Written, WriteFails

\* A step of a running attempt that does not end it.
Goes(e) ==
  /\ Frame(e) /\ Stay /\ Quiet /\ mode' = mode /\ crashes' = crashes /\ Faulty
  /\ mode[e] = "direct" => row'[e] = row[e]
  /\ TypeAt(e)' /\ PlaceInv(e)' /\ RowInv(e)' /\ EvidenceInv(e)' /\ SeenInv(e)'

\* What every such step leaves alone.
Steady(e) ==
  /\ Stay /\ Quiet /\ mode' = mode /\ opt' = opt /\ crashes' = crashes /\ Faulty
  /\ ModeAt(e, mode[e]) /\ CallerAt(e, caller[e])

KeepsRow(e) == RowAt(e, row[e], recoveryState[e], retryCount[e])

\* A payload that is withheld, or answered without an identity.
Withholds(e) ==
  /\ stage[e] \in {"ready", "unshown"} /\ PassesAt(e)
  /\ KeepsRow(e) /\ PreAt(e, pre[e]) /\ PostAt(e, post[e]) /\ ResultsAt(e, results[e])
  /\ FailuresAt(e, failures[e]) /\ VisibleAt(e, visible[e])
  /\ SkippedAt(e, skipped[e] \cup {unit[e]})

\* A payload that fails, or a send that cannot be set up.
Stumbles(e) ==
  /\ KeepsRow(e) /\ PreAt(e, pre[e]) /\ PostAt(e, post[e]) /\ ResultsAt(e, results[e])
  /\ VisibleAt(e, visible[e]) /\ SkippedAt(e, skipped[e])
  /\ stage[e] \in {"ready", "sending", "shown", "unshown"}
  /\ \E why \in {"proven", "unproven", "abort"} :
       /\ stage[e] = "shown" => why # "proven"
       /\ \/ FailsAt(e, why)
          \/ /\ stage[e] = "ready" /\ unit[e] = 1
             /\ StageAt(e, "threw") /\ FailuresAt(e, why) /\ UnitAt(e, unit[e])

\* What the lemmas below need of an entry whose attempt runs.
LEMMA AttemptFacts ==
  ASSUME TypeOK, NEW e \in Entries, EntryInv(e), Running(e)
  PROVE  /\ TypeAt(e) /\ PlaceInv(e) /\ RowInv(e) /\ EvidenceInv(e) /\ SeenInv(e)
         /\ opt[e].payloads \in 1..MaxPayloads /\ Units(e) = 1..opt[e].payloads
         /\ MaxPayloads \in Nat
         /\ Evident(e) \in BOOLEAN
  BY EntryType, OptionType, DeliveryAssumption DEF EntryInv, Evident

\* A payload that is withheld takes the attempt on.
LEMMA WithholdsGoes ==
  ASSUME TypeOK, NEW e \in Entries, EntryInv(e), Running(e), Steady(e), Withholds(e)
  PROVE  Goes(e)
<1>i. /\ TypeAt(e) /\ PlaceInv(e) /\ RowInv(e) /\ EvidenceInv(e) /\ SeenInv(e)
      /\ opt[e].payloads \in 1..MaxPayloads /\ Units(e) = 1..opt[e].payloads
      /\ MaxPayloads \in Nat
  BY AttemptFacts
<1> USE DEF RowAt, PassesAt, UnitAt, StageAt, PreAt, PostAt, ResultsAt, FailuresAt, VisibleAt,
            ModeAt, CallerAt, SkippedAt, KeepsRow, Steady, Withholds
<1>1. Frame(e)
  BY SameParts DEF Frame, TerminalsAt
<1>2. unit[e] \in 1..opt[e].payloads /\ unit'[e] = unit[e] + 1
  BY <1>i DEF PlaceInv, Moving
<1>k. /\ pre'[e] = pre[e] /\ post'[e] = post[e] /\ results'[e] = results[e]
      /\ failures'[e] = failures[e] /\ visible'[e] = visible[e]
      /\ skipped'[e] = skipped[e] \cup {unit[e]} /\ stage[e] \in {"ready", "unshown"}
      /\ stage'[e] = IF unit[e] = opt[e].payloads THEN "returned" ELSE "ready"
      /\ row'[e] = row[e] /\ recoveryState'[e] = recoveryState[e] /\ retryCount'[e] = retryCount[e]
      /\ mode'[e] = mode[e] /\ caller'[e] = caller[e] /\ opt' = opt
      /\ terminals'[e] = terminals[e]
  BY DEF Quiet
<1> HIDE DEF RowAt, PassesAt, UnitAt, StageAt, PreAt, PostAt, ResultsAt, FailuresAt, VisibleAt,
             ModeAt, CallerAt, SkippedAt, KeepsRow, Steady, Withholds
<1>3. TypeAt(e)'
  <2>1. unit'[e] \in 1..(MaxPayloads + 1)
    BY <1>i, <1>2
  <2>2. skipped'[e] \in SUBSET (1..MaxPayloads)
    BY <1>i, <1>2, <1>k DEF TypeAt
  <2>3. stage'[e] \in AttemptStages
    BY <1>k DEF AttemptStages
  <2> QED
    BY <1>i, <1>k, <2>1, <2>2, <2>3 DEF TypeAt
<1>u. Running(e)' /\ Units(e)' = Units(e) /\ results[e] \in Nat
  BY <1>i, <1>k DEF Running, Units, TypeAt
<1>4. PlaceInv(e)'
  BY <1>i, <1>2, <1>k, <1>u DEF PlaceInv, Moving
<1>5. RowInv(e)'
  <2>1. faults \in Nat /\ faults' \in Nat /\ faults' >= faults
    BY FaultsGrow DEF Steady
  <2> QED
    BY <1>i, <1>k, <2>1 DEF RowInv, Queued
<1>6. EvidenceInv(e)'
  BY <1>i, <1>k DEF EvidenceInv, Evident, Queued, Moving, Unseen, Units
<1>7. SeenInv(e)'
  <2>1. \A u \in Units(e) : u \in Nat
    BY <1>i
  <2> QED
    BY <1>i, <1>2, <1>k, <1>u, <2>1 DEF SeenInv, Moving
<1> QED
  BY <1>1, <1>3, <1>4, <1>5, <1>6, <1>7, <1>k DEF Goes, Steady

\* An attempt that stumbles without proof is on record as unproven.
LEMMA StumblesGoes ==
  ASSUME TypeOK, NEW e \in Entries, EntryInv(e), Running(e), Steady(e), Stumbles(e)
  PROVE  Goes(e)
<1>i. /\ TypeAt(e) /\ PlaceInv(e) /\ RowInv(e) /\ EvidenceInv(e) /\ SeenInv(e)
      /\ opt[e].payloads \in 1..MaxPayloads /\ Units(e) = 1..opt[e].payloads
      /\ MaxPayloads \in Nat
  BY AttemptFacts
<1> USE DEF RowAt, UnitAt, StageAt, PreAt, PostAt, ResultsAt, FailuresAt, VisibleAt,
            ModeAt, CallerAt, SkippedAt, KeepsRow, Steady
<1>1. /\ stage' = [stage EXCEPT ![e] = stage'[e]]
      /\ unit' = [unit EXCEPT ![e] = unit'[e]]
      /\ failures' = [failures EXCEPT ![e] = failures'[e]]
  BY DEF Stumbles, FailsAt, PassesAt
<1>2. Frame(e)
  <2>1. terminals' = [terminals EXCEPT ![e] = terminals'[e]]
    BY SameParts DEF TerminalsAt
  <2> QED
    BY <1>1, <2>1 DEF Frame, Stumbles
<1>3. unit[e] \in 1..opt[e].payloads /\ results[e] < unit[e]
  BY <1>i DEF PlaceInv, Moving, Stumbles
<1>4. /\ \/ /\ unit'[e] = unit[e] + 1
            /\ stage'[e] = IF unit[e] = opt[e].payloads THEN "returned" ELSE "ready"
            /\ opt[e].bestEffort /\ failures'[e] \in {"proven", "unproven"}
         \/ unit'[e] = unit[e] /\ stage'[e] = "threw"
      /\ failures'[e] \in {"proven", "unproven", "abort"}
      /\ stage[e] = "shown" => failures'[e] # "proven"
      /\ failures[e] \in {"no", "proven", "unproven"}
      /\ failures[e] = "unproven" => failures'[e] = "unproven"
  BY <1>i DEF Stumbles, FailsAt, PassesAt, PlaceInv, TypeAt
<1>k. /\ pre'[e] = pre[e] /\ post'[e] = post[e] /\ results'[e] = results[e]
      /\ visible'[e] = visible[e] /\ skipped'[e] = skipped[e]
      /\ row'[e] = row[e] /\ recoveryState'[e] = recoveryState[e] /\ retryCount'[e] = retryCount[e]
      /\ mode'[e] = mode[e] /\ caller'[e] = caller[e] /\ opt' = opt
      /\ terminals'[e] = terminals[e] /\ stage[e] \in {"ready", "sending", "shown", "unshown"}
  BY DEF Stumbles, Quiet
<1> HIDE DEF RowAt, UnitAt, StageAt, PreAt, PostAt, ResultsAt, FailuresAt, VisibleAt,
             ModeAt, CallerAt, SkippedAt, KeepsRow, Steady
<1>u. Running(e)' /\ Units(e)' = Units(e) /\ results[e] \in Nat
  BY <1>i, <1>k DEF Running, Units, TypeAt
<1>5. TypeAt(e)'
  <2>1. unit'[e] \in 1..(MaxPayloads + 1)
    BY <1>i, <1>3, <1>4
  <2>2. stage'[e] \in AttemptStages
    BY <1>4 DEF AttemptStages
  <2> QED
    BY <1>i, <1>4, <1>k, <2>1, <2>2 DEF TypeAt
<1>6. PlaceInv(e)'
  BY <1>i, <1>3, <1>4, <1>k, <1>u DEF PlaceInv, Moving
<1>7. RowInv(e)'
  <2>1. faults \in Nat /\ faults' \in Nat /\ faults' >= faults
    BY FaultsGrow DEF Steady
  <2> QED
    BY <1>i, <1>k, <2>1 DEF RowInv, Queued
<1>8. EvidenceInv(e)'
  BY <1>i, <1>4, <1>k, <1>u DEF EvidenceInv, Evident, Queued, Moving, Unseen
<1>9. SeenInv(e)'
  <2>1. \A u \in Units(e) : u \in Nat
    BY <1>i
  <2> QED
    BY <1>i, <1>3, <1>4, <1>k, <1>u, <2>1 DEF SeenInv, Moving
<1> QED
  BY <1>2, <1>5, <1>6, <1>7, <1>8, <1>9, <1>k DEF Goes, Steady

\* An attempt that goes on to the platform, with or without a marker.
Advances(e) ==
  /\ UnitAt(e, unit[e]) /\ ResultsAt(e, results[e]) /\ FailuresAt(e, failures[e])
  /\ VisibleAt(e, visible[e]) /\ SkippedAt(e, skipped[e])
  /\ \/ /\ stage[e] = "ready" /\ StageAt(e, "sending")
        /\ ~Queued(e) \/ opt[e].exact \/ pre[e] # "none"
        /\ KeepsRow(e) /\ PreAt(e, pre[e]) /\ PostAt(e, post[e])
     \/ /\ stage[e] = "ready" /\ StageAt(e, "sending")
        /\ Queued(e) /\ row[e] = "pending"
        /\ RowAt(e, "pending", "started", retryCount[e])
        /\ PreAt(e, "marked") /\ PostAt(e, post[e])
     \/ /\ stage[e] = "ready" /\ StageAt(e, "sending")
        /\ Queued(e) /\ ~opt[e].exact /\ pre[e] = "none" /\ UpdateFails(e)
        /\ RowAt(e, IF row[e] = "pending" THEN "deleted" ELSE row[e], recoveryState[e], retryCount[e])
        /\ PreAt(e, "acked") /\ PostAt(e, IF mode[e] = "live" THEN "acked" ELSE post[e])
     \/ /\ stage[e] = "sending" /\ StageAt(e, "dispatching")
        /\ Queued(e) /\ row[e] = "pending"
        /\ RowAt(e, "pending", "started", retryCount[e])
        /\ PreAt(e, "marked") /\ PostAt(e, post[e])
     \/ /\ stage[e] = "sending" /\ StageAt(e, "dispatching")
        /\ ~(Queued(e) /\ opt[e].exact)
        /\ KeepsRow(e) /\ PreAt(e, pre[e]) /\ PostAt(e, post[e])

\* Before the platform is asked there is evidence in the row, or no row.
LEMMA AdvancesGoes ==
  ASSUME TypeOK, NEW e \in Entries, EntryInv(e), Running(e), Steady(e), Advances(e)
  PROVE  Goes(e)
<1>i. /\ TypeAt(e) /\ PlaceInv(e) /\ RowInv(e) /\ EvidenceInv(e) /\ SeenInv(e)
      /\ opt[e].payloads \in 1..MaxPayloads /\ Units(e) = 1..opt[e].payloads
      /\ MaxPayloads \in Nat
  BY AttemptFacts
<1>c. mode[e] = "direct" => row[e] = "none"
  BY DEF EntryInv, CallerInv
<1> USE DEF RowAt, UnitAt, StageAt, PreAt, PostAt, ResultsAt, FailuresAt, VisibleAt,
            ModeAt, CallerAt, SkippedAt, KeepsRow, Steady
<1>1. Frame(e)
  <2>1. terminals' = [terminals EXCEPT ![e] = terminals'[e]]
    BY SameParts DEF TerminalsAt
  <2> QED
    BY <2>1 DEF Frame, Advances
<1>2. TypeAt(e)'
  BY <1>i DEF TypeAt, Quiet, Advances, RowStates, RecoveryStates, AttemptStages
<1>3. PlaceInv(e)'
  BY <1>i DEF TypeAt, PlaceInv, Moving, Units, Running, Advances
<1>4. RowInv(e)'
  <2>1. faults \in Nat /\ faults' \in Nat /\ faults' >= faults
    BY FaultsGrow
  <2>2. UpdateFails(e) => row[e] # "pending" \/ faults' > 0
    BY <2>1 DEF UpdateFails, WriteFails
  <2> QED
    BY <1>i, <2>1, <2>2 DEF RowInv, Queued, Advances, EvidenceInv
<1>5. EvidenceInv(e)'
  <2>1. ~Evident(e)' => Unseen(e)'
    BY <1>i DEF EvidenceInv, Evident, Unseen, Units, Advances
  <2>2. Queued(e)' /\ pre'[e] # "none" => Evident(e)'
    BY <1>i DEF EvidenceInv, Evident, Queued, Advances
  <2>3. Queued(e)' /\ stage'[e] \in {"dispatching", "shown", "unshown"} => Evident(e)'
    BY <1>i DEF EvidenceInv, Evident, Queued, Advances, Moving
  <2>4. Queued(e)' /\ ~opt'[e].exact
          /\ (stage'[e] \in Moving \ {"ready"} \/ post'[e] # "none" \/ results'[e] > 0)
            => pre'[e] # "none"
    BY <1>i DEF EvidenceInv, Queued, Advances, Moving
  <2>5. Queued(e)' /\ post'[e] = "none" /\ failures'[e] \in {"no", "proven"}
          /\ stage'[e] \notin {"reconcile", "shown"} => Unseen(e)'
    BY <1>i DEF EvidenceInv, Queued, Advances, Unseen, Units
  <2> QED
    BY <2>1, <2>2, <2>3, <2>4, <2>5 DEF EvidenceInv
<1>6. SeenInv(e)'
  BY <1>i DEF SeenInv, TypeAt, Moving, Units, Running, Advances
<1>7. mode[e] = "direct" => row'[e] = row[e]
  BY <1>c DEF Advances, Queued
<1> QED
  BY <1>1, <1>2, <1>3, <1>4, <1>5, <1>6, <1>7 DEF Goes

\* The platform shows a payload that nobody has seen, or does not.
LEMMA SendGoes ==
  ASSUME TypeOK, NEW e \in Entries, EntryInv(e), NEW shown \in BOOLEAN, PlatformSend(e, shown)
  PROVE  Goes(e)
<1>r. Running(e) /\ stage[e] = "dispatching"
  BY DEF PlatformSend
<1>i. /\ TypeAt(e) /\ PlaceInv(e) /\ RowInv(e) /\ EvidenceInv(e) /\ SeenInv(e)
      /\ opt[e].payloads \in 1..MaxPayloads /\ Units(e) = 1..opt[e].payloads
      /\ MaxPayloads \in Nat
  BY <1>r, AttemptFacts
<1>c. mode[e] = "direct" => row[e] = "none"
  BY DEF EntryInv, CallerInv
<1>1. /\ Stay /\ Quiet /\ mode' = mode /\ opt' = opt /\ crashes' = crashes /\ Written /\ KeepsRow(e)
      /\ UnitAt(e, unit[e]) /\ PreAt(e, pre[e]) /\ PostAt(e, post[e]) /\ ResultsAt(e, results[e])
      /\ FailuresAt(e, failures[e]) /\ SkippedAt(e, skipped[e])
      /\ ModeAt(e, mode[e]) /\ CallerAt(e, caller[e])
      /\ StageAt(e, IF shown THEN "shown" ELSE "unshown")
  BY RowParts, AttemptParts, SameParts DEF PlatformSend, Stay, Quiet, KeepsRow
<1> DEFINE seen == [visible[e] EXCEPT ![unit[e]] = visible[e][unit[e]] + (IF shown THEN 1 ELSE 0)]
<1>2. VisibleAt(e, seen)
  <2>1. visible \in [Entries -> [1..MaxPayloads -> Nat]]
    BY DEF TypeOK
  <2>2. visible' = [visible EXCEPT ![e] = seen]
    BY DEF PlatformSend
  <2> HIDE DEF seen
  <2> QED
    BY <2>1, <2>2 DEF VisibleAt
<1> USE DEF RowAt, UnitAt, StageAt, PreAt, PostAt, ResultsAt, FailuresAt, VisibleAt,
            ModeAt, CallerAt, SkippedAt, KeepsRow
<1>3. Frame(e)
  BY SameParts, <1>1, <1>2 DEF Frame, TerminalsAt
<1>4. unit[e] \in 1..opt[e].payloads /\ visible[e][unit[e]] = 0
  BY <1>i, <1>r DEF PlaceInv, SeenInv, Moving
<1>5. /\ visible'[e][unit[e]] = IF shown THEN 1 ELSE 0
      /\ \A u \in 1..MaxPayloads : u # unit[e] => visible'[e][u] = visible[e][u]
      /\ visible'[e] \in [1..MaxPayloads -> Nat]
  BY <1>i, <1>2, <1>4 DEF TypeAt
<1>6. \A u \in Units(e) : u \in 1..MaxPayloads
  BY <1>i
<1>7. TypeAt(e)'
  BY <1>i, <1>1, <1>5 DEF TypeAt, Quiet, AttemptStages
<1>8. PlaceInv(e)'
  BY <1>i, <1>r, <1>1 DEF TypeAt, PlaceInv, Moving, Units, Running
<1>9. RowInv(e)'
  BY <1>i, <1>1 DEF RowInv, Queued, Written
<1>10. EvidenceInv(e)'
  <2>1. Evident(e)
    BY <1>i, <1>r, <1>c DEF EvidenceInv, Evident, Queued, Running, TypeAt
  <2>2. Evident(e)'
    BY <1>1, <2>1 DEF Evident
  <2>3. ~shown => \A u \in Units(e) : visible'[e][u] = visible[e][u]
    BY <1>4, <1>5, <1>6
  <2> QED
    BY <1>i, <1>r, <1>1, <2>2, <2>3 DEF EvidenceInv, Queued, Moving, Unseen, Units
<1>11. SeenInv(e)'
  <2>1. ASSUME NEW u \in Units(e)
        PROVE  /\ visible'[e][u] \in {0, 1}
               /\ u > unit[e] \/ (u = unit[e] /\ ~shown) => visible'[e][u] = 0
               /\ visible[e][u] > 0 => visible'[e][u] > 0
    BY <1>i, <1>r, <1>4, <1>5, <1>6 DEF SeenInv, Moving
  <2> QED
    BY <1>i, <1>r, <1>1, <1>5, <2>1 DEF SeenInv, Moving, Units, Running
<1> QED
  BY <1>1, <1>3, <1>7, <1>8, <1>9, <1>10, <1>11 DEF Goes, Faulty

\* What persistQueuedPostSendState leaves in the row and in the attempt.
LeavesMark(e) ==
  /\ Queued(e) /\ post[e] = "none"
  /\ \/ /\ row[e] = "pending" /\ RowAt(e, "pending", "unknown", retryCount[e])
        /\ PostAt(e, "marked")
     \/ /\ UpdateFails(e)
        /\ RowAt(e, IF row[e] = "pending" THEN "deleted" ELSE row[e], recoveryState[e], retryCount[e])
        /\ PostAt(e, "acked")
     \/ /\ row[e] = "pending" /\ RowAt(e, "pending", "unknown", retryCount[e] + 1)
        /\ PostAt(e, "failed")

\* A result comes in, or what earlier results owe is made up for at the end.
Records(e) ==
  /\ PreAt(e, pre[e]) /\ VisibleAt(e, visible[e]) /\ SkippedAt(e, skipped[e])
  /\ \/ LeavesMark(e)
     \/ /\ KeepsRow(e) /\ PostAt(e, post[e])
        /\ ~Queued(e) \/ post[e] # "none" \/ failures'[e] = "unproven"
  /\ \/ /\ stage[e] = "shown" /\ ResultsAt(e, results[e] + 1)
        /\ \/ PassesAt(e) /\ FailuresAt(e, failures[e])
           \/ FailsAt(e, "unproven")
     \/ /\ stage[e] \in {"returned", "threw"} /\ ResultsAt(e, results[e])
        /\ results[e] > 0 \/ pre[e] # "none"
        /\ UnitAt(e, unit[e]) /\ StageAt(e, stage[e]) /\ FailuresAt(e, failures[e])

\* A result leaves evidence behind or is on record as a failure.
LEMMA RecordsGoes ==
  ASSUME TypeOK, NEW e \in Entries, EntryInv(e), Running(e), Steady(e), Records(e)
  PROVE  Goes(e)
<1>i. /\ TypeAt(e) /\ PlaceInv(e) /\ RowInv(e) /\ EvidenceInv(e) /\ SeenInv(e)
      /\ opt[e].payloads \in 1..MaxPayloads /\ Units(e) = 1..opt[e].payloads
      /\ MaxPayloads \in Nat
  BY AttemptFacts
<1>c. mode[e] = "direct" => row[e] = "none"
  BY DEF EntryInv, CallerInv
<1> USE DEF RowAt, UnitAt, StageAt, PreAt, PostAt, ResultsAt, FailuresAt, VisibleAt,
            ModeAt, CallerAt, SkippedAt, KeepsRow, Steady
<1>1. /\ unit' = [unit EXCEPT ![e] = unit'[e]] /\ stage' = [stage EXCEPT ![e] = stage'[e]]
      /\ failures' = [failures EXCEPT ![e] = failures'[e]]
      /\ results' = [results EXCEPT ![e] = results'[e]]
  BY DEF Records, FailsAt, PassesAt
<1>2. /\ row' = [row EXCEPT ![e] = row'[e]] /\ post' = [post EXCEPT ![e] = post'[e]]
      /\ recoveryState' = [recoveryState EXCEPT ![e] = recoveryState'[e]]
      /\ retryCount' = [retryCount EXCEPT ![e] = retryCount'[e]]
  BY DEF Records, LeavesMark
<1>3. Frame(e)
  <2>1. /\ pre' = [pre EXCEPT ![e] = pre'[e]] /\ visible' = [visible EXCEPT ![e] = visible'[e]]
        /\ skipped' = [skipped EXCEPT ![e] = skipped'[e]]
    BY DEF Records
  <2>2. /\ mode' = [mode EXCEPT ![e] = mode'[e]] /\ caller' = [caller EXCEPT ![e] = caller'[e]]
        /\ opt' = opt
    OBVIOUS
  <2>3. terminals' = [terminals EXCEPT ![e] = terminals'[e]]
    BY SameParts DEF TerminalsAt
  <2> QED
    BY <1>1, <1>2, <2>1, <2>2, <2>3 DEF Frame
<1>4. \/ /\ stage[e] = "shown" /\ unit[e] \in 1..opt[e].payloads /\ results[e] < unit[e]
         /\ results'[e] = results[e] + 1
         /\ \/ /\ unit'[e] = unit[e] + 1
               /\ stage'[e] = IF unit[e] = opt[e].payloads THEN "returned" ELSE "ready"
               /\ \/ failures'[e] = failures[e]
                  \/ failures'[e] = "unproven" /\ opt[e].bestEffort
            \/ unit'[e] = unit[e] /\ stage'[e] = "threw" /\ failures'[e] = "unproven"
      \/ /\ stage[e] \in {"returned", "threw"} /\ results'[e] = results[e]
         /\ results[e] > 0 \/ pre[e] # "none"
         /\ unit'[e] = unit[e] /\ stage'[e] = stage[e] /\ failures'[e] = failures[e]
  <2>1. stage[e] = "shown" => unit[e] \in 1..opt[e].payloads /\ results[e] < unit[e]
    BY <1>i DEF PlaceInv, Moving
  <2>2. CASE stage[e] = "shown"
    <3>1. FailsAt(e, "unproven") \/ (PassesAt(e) /\ FailuresAt(e, failures[e]))
      BY <2>2 DEF Records
    <3>2. results'[e] = results[e] + 1
      BY <2>2 DEF Records
    <3> QED
      BY <2>1, <2>2, <3>1, <3>2 DEF FailsAt, PassesAt
  <2>3. CASE stage[e] # "shown"
    BY <2>3 DEF Records
  <2> QED
    BY <2>2, <2>3
<1>5. \/ /\ Queued(e) /\ post[e] = "none"
         /\ \/ /\ row[e] = "pending" /\ row'[e] = "pending" /\ recoveryState'[e] = "unknown"
               /\ retryCount'[e] = retryCount[e] /\ post'[e] = "marked"
            \/ /\ row'[e] \in {"deleted", row[e]} \ {"pending"}
               /\ row[e] = "pending" => faults' > 0
               /\ recoveryState'[e] = recoveryState[e]
               /\ retryCount'[e] = retryCount[e] /\ post'[e] = "acked"
            \/ /\ row[e] = "pending" /\ row'[e] = "pending" /\ recoveryState'[e] = "unknown"
               /\ retryCount'[e] = retryCount[e] + 1 /\ post'[e] = "failed"
      \/ /\ row'[e] = row[e] /\ recoveryState'[e] = recoveryState[e]
         /\ retryCount'[e] = retryCount[e] /\ post'[e] = post[e]
         /\ ~Queued(e) \/ post[e] # "none" \/ failures'[e] = "unproven"
  <2>1. UpdateFails(e) /\ row[e] = "pending" => faults' > 0
    BY DeliveryAssumption DEF UpdateFails, WriteFails, TypeOK
  <2> QED
    BY <2>1 DEF Records, LeavesMark
<1>6. faults \in Nat /\ faults' \in Nat /\ faults' >= faults
  BY FaultsGrow
<1>7. /\ pre'[e] = pre[e] /\ visible'[e] = visible[e] /\ skipped'[e] = skipped[e]
      /\ mode'[e] = mode[e] /\ caller'[e] = caller[e] /\ opt' = opt
      /\ terminals'[e] = terminals[e]
  BY DEF Records, Quiet
<1> HIDE DEF RowAt, UnitAt, StageAt, PreAt, PostAt, ResultsAt, FailuresAt, VisibleAt,
             ModeAt, CallerAt, SkippedAt, KeepsRow, Steady
<1>8. TypeAt(e)'
  <2>1. /\ unit'[e] \in 1..(MaxPayloads + 1) /\ results'[e] \in 0..MaxPayloads
        /\ stage'[e] \in AttemptStages /\ failures'[e] \in {"no", "proven", "unproven", "abort"}
    BY <1>i, <1>4 DEF TypeAt, AttemptStages
  <2>2. /\ row'[e] \in RowStates /\ recoveryState'[e] \in RecoveryStates
        /\ post'[e] \in {"none", "marked", "acked", "failed"}
    BY <1>i, <1>5 DEF TypeAt, RowStates, RecoveryStates
  <2>3. retryCount'[e] \in 0..MaxRetries
    BY <1>i, <1>5, DeliveryAssumption DEF TypeAt, RowInv
  <2> QED
    BY <1>i, <1>7, <2>1, <2>2, <2>3 DEF TypeAt
<1>9. PlaceInv(e)'
  <2>1. Running(e)' /\ Units(e)' = Units(e) /\ unit[e] \in Nat /\ results[e] \in Nat
    BY <1>i, <1>7 DEF Running, Units, TypeAt
  <2>2. CASE stage[e] = "shown"
    BY <1>i, <1>4, <1>7, <2>1, <2>2 DEF PlaceInv, Moving
  <2>3. CASE stage[e] # "shown"
    BY <1>i, <1>4, <1>7, <2>1, <2>3 DEF PlaceInv, Moving
  <2> QED
    BY <2>2, <2>3
<1>10. RowInv(e)'
  BY <1>i, <1>5, <1>6, <1>7 DEF RowInv, Queued, TypeAt
<1>11. EvidenceInv(e)'
  <2>1. Evident(e) => Evident(e)'
    BY <1>5 DEF Evident
  <2>2. ~Evident(e)' => Unseen(e)'
    BY <1>i, <1>7, <2>1 DEF EvidenceInv, Unseen, Units
  <2>3. Queued(e)' /\ (pre'[e] # "none" \/ stage'[e] \in {"dispatching", "shown", "unshown"})
          => Evident(e)'
    BY <1>i, <1>4, <1>7, <2>1 DEF EvidenceInv, Queued
  <2>4. Queued(e)' /\ ~opt'[e].exact
          /\ (stage'[e] \in Moving \ {"ready"} \/ post'[e] # "none" \/ results'[e] > 0)
            => pre'[e] # "none"
    BY <1>i, <1>4, <1>5, <1>7 DEF EvidenceInv, Queued, Moving
  <2>5. ASSUME Queued(e), post'[e] = "none", failures'[e] # "unproven"
        PROVE  Unseen(e)'
    <3>1. post[e] # "none" \/ failures'[e] = "unproven" \/ post'[e] # "none"
      BY <1>5, <2>5
    <3> QED
      BY <2>5, <3>1, <1>5
  <2>6. Queued(e)' <=> Queued(e)
    BY <1>7 DEF Queued
  <2> QED
    BY <2>2, <2>3, <2>4, <2>5, <2>6 DEF EvidenceInv
<1>12. SeenInv(e)'
  <2>1. \A u \in Units(e) : u \in Nat
    BY <1>i
  <2> QED
    <3>1. Running(e)' /\ Units(e)' = Units(e) /\ unit[e] \in Nat
      BY <1>i, <1>7 DEF Running, Units, TypeAt
    <3>2. \A u \in Units(e) : visible'[e][u] \in {0, 1}
      BY <1>i, <1>7 DEF SeenInv
    <3>3. ASSUME stage'[e] \in Moving, NEW u \in Units(e), u >= unit'[e] PROVE visible'[e][u] = 0
      BY <1>i, <1>4, <1>7, <2>1, <3>1, <3>3 DEF SeenInv, Moving
    <3>4. stage'[e] # "shown"
      BY <1>4
    <3>5. ASSUME failures'[e] = "no", stage'[e] \in Moving \cup {"returned"},
                 NEW u \in Units(e), u < unit'[e]
          PROVE  visible'[e][u] > 0 \/ u \in skipped'[e]
      <4>1. CASE stage[e] = "shown"
        <5>1. unit'[e] = unit[e] + 1 /\ failures[e] = "no"
          BY <1>4, <3>5, <4>1 DEF Moving
        <5>2. CASE u = unit[e]
          BY <1>i, <1>7, <4>1, <5>2 DEF SeenInv
        <5>3. CASE u # unit[e]
          BY <1>i, <1>7, <2>1, <3>1, <3>5, <4>1, <5>1, <5>3 DEF SeenInv, Moving
        <5> QED
          BY <5>2, <5>3
      <4>2. CASE stage[e] # "shown"
        BY <1>i, <1>4, <1>7, <3>5, <4>2 DEF SeenInv
      <4> QED
        BY <4>1, <4>2
    <3>6. unit'[e] \in Nat
      BY <1>4, <3>1
    <3>7. stage'[e] \in Moving => \A u \in Units(e) :
            u > unit'[e] \/ (u = unit'[e] /\ stage'[e] # "shown") => visible'[e][u] = 0
      BY <2>1, <3>3, <3>6
    <3> QED
      BY <3>1, <3>2, <3>4, <3>5, <3>7 DEF SeenInv
<1>13. mode[e] = "direct" => row'[e] = row[e]
  BY <1>5 DEF Queued
<1> QED
  BY <1>3, <1>8, <1>9, <1>10, <1>11, <1>12, <1>13 DEF Goes, Steady

-----------------------------------------------------------------------------
(* From the entry of a step to all entries *)

\* A step that is about one entry keeps what holds of the others.
LEMMA OthersKept ==
  ASSUME TypeOK, NEW e \in Entries, Frame(e), Faulty, crashes' = crashes,
         NEW f \in Entries, f # e, EntryInv(f)
  PROVE  EntryInv(f)'
<1>1. /\ row'[f] = row[f] /\ recoveryState'[f] = recoveryState[f] /\ retryCount'[f] = retryCount[f]
      /\ caller'[f] = caller[f] /\ mode'[f] = mode[f] /\ stage'[f] = stage[f] /\ unit'[f] = unit[f]
      /\ pre'[f] = pre[f] /\ post'[f] = post[f] /\ results'[f] = results[f]
      /\ failures'[f] = failures[f] /\ visible'[f] = visible[f] /\ skipped'[f] = skipped[f]
      /\ terminals'[f] = terminals[f] /\ opt'[f] = opt[f]
  BY DEF TypeOK, Frame
<1>2. faults \in Nat /\ faults' \in Nat /\ faults' >= faults
  BY FaultsGrow
<1>3. /\ Units(f)' = Units(f) /\ (Running(f)' <=> Running(f)) /\ (Queued(f)' <=> Queued(f))
      /\ (Unseen(f)' <=> Unseen(f)) /\ (Evident(f)' <=> Evident(f))
  BY <1>1 DEF Units, Running, Queued, Unseen, Evident
<1>4. CallerInv(f)' /\ PlaceInv(f)' /\ EvidenceInv(f)' /\ SeenInv(f)'
  BY <1>1, <1>3 DEF EntryInv, CallerInv, PlaceInv, EvidenceInv, SeenInv
<1>5. RowInv(f)'
  BY <1>1, <1>2, <1>3 DEF EntryInv, RowInv
<1>6. EndInv(f)'
  BY <1>1, <1>2, <1>3 DEF EntryInv, EndInv
<1> QED
  BY <1>4, <1>5, <1>6 DEF EntryInv

\* And the types of all variables when the types of the entry are right.
LEMMA FrameTypes ==
  ASSUME TypeOK, NEW e \in Entries, Frame(e), TypeAt(e)', Faulty, crashes' = crashes,
         entriesInProgress' \subseteq Entries,
         drain' \in [Drains -> [todo : SUBSET Entries, current : Entries \cup {None}]]
  PROVE  TypeOK'
<1>1. faults' \in 0..MaxFaults
  BY FaultsGrow
<1>2. ASSUME NEW S, NEW f \in [Entries -> S], NEW x \in S PROVE [f EXCEPT ![e] = x] \in [Entries -> S]
  OBVIOUS
<1>3. /\ row' \in [Entries -> RowStates]
      /\ recoveryState' \in [Entries -> RecoveryStates]
      /\ retryCount' \in [Entries -> 0..MaxRetries]
      /\ caller' \in [Entries -> {"none", "persisted", "sending", "done"}]
      /\ mode' \in [Entries -> {"idle", "live", "direct", "recovery"}]
      /\ stage' \in [Entries -> AttemptStages]
  <2>1. row' \in [Entries -> RowStates]
    <3>1. row \in [Entries -> RowStates] /\ row' = [row EXCEPT ![e] = row'[e]] /\ row'[e] \in RowStates
      BY DEF TypeOK, Frame, TypeAt, RowStates
    <3> QED
      BY <3>1, <1>2
  <2>2. recoveryState' \in [Entries -> RecoveryStates]
    <3>1. recoveryState \in [Entries -> RecoveryStates] /\ recoveryState' = [recoveryState EXCEPT ![e] = recoveryState'[e]] /\ recoveryState'[e] \in RecoveryStates
      BY DEF TypeOK, Frame, TypeAt, RecoveryStates
    <3> QED
      BY <3>1, <1>2
  <2>3. retryCount' \in [Entries -> 0..MaxRetries]
    <3>1. retryCount \in [Entries -> 0..MaxRetries] /\ retryCount' = [retryCount EXCEPT ![e] = retryCount'[e]] /\ retryCount'[e] \in 0..MaxRetries
      BY DEF TypeOK, Frame, TypeAt
    <3> QED
      BY <3>1, <1>2
  <2>4. caller' \in [Entries -> {"none", "persisted", "sending", "done"}]
    <3>1. caller \in [Entries -> {"none", "persisted", "sending", "done"}] /\ caller' = [caller EXCEPT ![e] = caller'[e]] /\ caller'[e] \in {"none", "persisted", "sending", "done"}
      BY DEF TypeOK, Frame, TypeAt
    <3> QED
      BY <3>1, <1>2
  <2>5. mode' \in [Entries -> {"idle", "live", "direct", "recovery"}]
    <3>1. mode \in [Entries -> {"idle", "live", "direct", "recovery"}] /\ mode' = [mode EXCEPT ![e] = mode'[e]] /\ mode'[e] \in {"idle", "live", "direct", "recovery"}
      BY DEF TypeOK, Frame, TypeAt
    <3> QED
      BY <3>1, <1>2
  <2>6. stage' \in [Entries -> AttemptStages]
    <3>1. stage \in [Entries -> AttemptStages] /\ stage' = [stage EXCEPT ![e] = stage'[e]] /\ stage'[e] \in AttemptStages
      BY DEF TypeOK, Frame, TypeAt, AttemptStages
    <3> QED
      BY <3>1, <1>2
  <2> QED
    BY <2>1, <2>2, <2>3, <2>4, <2>5, <2>6
<1>4. /\ unit' \in [Entries -> 1..(MaxPayloads + 1)]
      /\ pre' \in [Entries -> {"none", "marked", "acked"}]
      /\ post' \in [Entries -> {"none", "marked", "acked", "failed"}]
      /\ results' \in [Entries -> 0..MaxPayloads]
      /\ failures' \in [Entries -> {"no", "proven", "unproven", "abort"}]
  <2>1. unit' \in [Entries -> 1..(MaxPayloads + 1)]
    <3>1. unit \in [Entries -> 1..(MaxPayloads + 1)] /\ unit' = [unit EXCEPT ![e] = unit'[e]] /\ unit'[e] \in 1..(MaxPayloads + 1)
      BY DEF TypeOK, Frame, TypeAt
    <3> QED
      BY <3>1, <1>2
  <2>2. pre' \in [Entries -> {"none", "marked", "acked"}]
    <3>1. pre \in [Entries -> {"none", "marked", "acked"}] /\ pre' = [pre EXCEPT ![e] = pre'[e]] /\ pre'[e] \in {"none", "marked", "acked"}
      BY DEF TypeOK, Frame, TypeAt
    <3> QED
      BY <3>1, <1>2
  <2>3. post' \in [Entries -> {"none", "marked", "acked", "failed"}]
    <3>1. post \in [Entries -> {"none", "marked", "acked", "failed"}] /\ post' = [post EXCEPT ![e] = post'[e]] /\ post'[e] \in {"none", "marked", "acked", "failed"}
      BY DEF TypeOK, Frame, TypeAt
    <3> QED
      BY <3>1, <1>2
  <2>4. results' \in [Entries -> 0..MaxPayloads]
    <3>1. results \in [Entries -> 0..MaxPayloads] /\ results' = [results EXCEPT ![e] = results'[e]] /\ results'[e] \in 0..MaxPayloads
      BY DEF TypeOK, Frame, TypeAt
    <3> QED
      BY <3>1, <1>2
  <2>5. failures' \in [Entries -> {"no", "proven", "unproven", "abort"}]
    <3>1. failures \in [Entries -> {"no", "proven", "unproven", "abort"}] /\ failures' = [failures EXCEPT ![e] = failures'[e]] /\ failures'[e] \in {"no", "proven", "unproven", "abort"}
      BY DEF TypeOK, Frame, TypeAt
    <3> QED
      BY <3>1, <1>2
  <2> QED
    BY <2>1, <2>2, <2>3, <2>4, <2>5
<1>5. /\ visible' \in [Entries -> [1..MaxPayloads -> Nat]]
      /\ skipped' \in [Entries -> SUBSET (1..MaxPayloads)]
      /\ terminals' \in [Entries -> Seq({"completed", "failed", "unknown"})]
  <2>1. visible' \in [Entries -> [1..MaxPayloads -> Nat]]
    <3>1. visible \in [Entries -> [1..MaxPayloads -> Nat]] /\ visible' = [visible EXCEPT ![e] = visible'[e]] /\ visible'[e] \in [1..MaxPayloads -> Nat]
      BY DEF TypeOK, Frame, TypeAt
    <3> QED
      BY <3>1, <1>2
  <2>2. skipped' \in [Entries -> SUBSET (1..MaxPayloads)]
    <3>1. skipped \in [Entries -> SUBSET (1..MaxPayloads)] /\ skipped' = [skipped EXCEPT ![e] = skipped'[e]] /\ skipped'[e] \in SUBSET (1..MaxPayloads)
      BY DEF TypeOK, Frame, TypeAt
    <3> QED
      BY <3>1, <1>2
  <2>3. terminals' \in [Entries -> Seq({"completed", "failed", "unknown"})]
    <3>1. terminals \in [Entries -> Seq({"completed", "failed", "unknown"})] /\ terminals' = [terminals EXCEPT ![e] = terminals'[e]] /\ terminals'[e] \in Seq({"completed", "failed", "unknown"})
      BY DEF TypeOK, Frame, TypeAt
    <3> QED
      BY <3>1, <1>2
  <2> QED
    BY <2>1, <2>2, <2>3
<1>6. opt' \in [Entries -> Options] /\ crashes' \in 0..MaxCrashes
  BY DEF TypeOK, Frame
<1> QED
  BY <1>1, <1>3, <1>4, <1>5, <1>6 DEF TypeOK, RowStates, RecoveryStates, AttemptStages

\* A step of an attempt that goes on.
LEMMA GoesKeeps ==
  ASSUME DeliveryInv, NEW e \in Entries, Running(e), Goes(e)
  PROVE  DeliveryInv'
<1>1. TypeOK /\ EntryInv(e)
  BY DEF DeliveryInv
<1>2. TypeOK'
  <2>1. /\ entriesInProgress' \subseteq Entries
        /\ drain' \in [Drains -> [todo : SUBSET Entries, current : Entries \cup {None}]]
    BY <1>1 DEF Goes, Stay, TypeOK
  <2> QED
    BY <1>1, <2>1, FrameTypes DEF Goes
<1>3. /\ mode'[e] = mode[e] /\ caller'[e] = caller[e] /\ terminals'[e] = terminals[e]
      /\ crashes' = crashes
  BY DEF Goes, Stay, Quiet
<1>4. CallerInv(e)'
  BY <1>1, <1>3 DEF Goes, EntryInv, CallerInv, Running
<1>5. terminals[e] = <<>>
  BY <1>1 DEF EntryInv, EndInv
<1>6. EndInv(e)'
  <2>1. Len(<<>>) = 0 /\ <<>> # <<"completed">>
    OBVIOUS
  <2> QED
    BY <1>3, <1>5, <2>1 DEF EndInv, Running
<1>7. EntryInv(e)'
  BY <1>4, <1>6 DEF Goes, EntryInv
<1>8. \A f \in Entries : f # e => EntryInv(f)'
  BY <1>1, OthersKept DEF Goes, DeliveryInv
<1> QED
  BY <1>2, <1>7, <1>8 DEF DeliveryInv

-----------------------------------------------------------------------------
(* The end of an attempt, or of a claim without one *)

Outcomes == {"completed", "failed", "unknown"}

AllSeen(e) == \A u \in Units(e) : visible[e][u] > 0 \/ u \in skipped[e]

\* An end that says what became of the message, on a row nobody will replay.
Speaks(e) ==
  /\ terminals[e] = <<>> /\ row'[e] # "pending"
  /\ \E o \in Outcomes : Emit(e, o) /\ (o = "completed" => AllSeen(e))

\* An end that says nothing: the row stays for a replay, or was spoken for, or the
\* word was lost with a second write.
Defers(e) ==
  /\ Quiet
  /\ terminals[e] # <<>> => row'[e] # "pending"
  /\ row'[e] \in {"deleted", "failed"} => terminals[e] # <<>> \/ crashes > 0 \/ faults' > 1

Ends(e) ==
  /\ Over(e) /\ opt' = opt /\ visible' = visible /\ skipped' = skipped /\ crashes' = crashes
  /\ Faulty /\ caller[e] # "persisted"
  /\ \E a \in RowStates, b \in RecoveryStates, c \in 0..MaxRetries :
       RowAt(e, a, b, c) /\ (a = "pending" /\ b = "none" => Unseen(e))
                         /\ (row[e] = "none" => a = "none")
  /\ Speaks(e) \/ Defers(e)

\* An end of either kind keeps the invariant.
LEMMA EndsKeeps ==
  ASSUME DeliveryInv, NEW e \in Entries, Ends(e), Running(e) => caller[e] # "none",
         caller[e] = "none" => Quiet
  PROVE  DeliveryInv'
<1>1. TypeOK /\ EntryInv(e) /\ TypeAt(e)
  BY EntryType DEF DeliveryInv
<1>2. EndsAt(e)
  BY <1>1, AttemptParts DEF Ends
<1>3. VisibleAt(e, visible[e]) /\ SkippedAt(e, skipped[e])
  BY <1>1, SameParts DEF Ends
<1>4. PICK a \in RowStates, b \in RecoveryStates, c \in 0..MaxRetries :
        /\ RowAt(e, a, b, c) /\ (a = "pending" /\ b = "none" => Unseen(e))
        /\ (row[e] = "none" => a = "none")
  BY DEF Ends
<1>5. /\ terminals' = [terminals EXCEPT ![e] = terminals'[e]]
      /\ \/ /\ Quiet /\ terminals'[e] = terminals[e]
            /\ terminals[e] # <<>> => row'[e] # "pending"
            /\ row'[e] \in {"deleted", "failed"} => terminals[e] # <<>> \/ crashes > 0 \/ faults' > 1
         \/ /\ \E o \in Outcomes : terminals'[e] = <<o>> /\ (o = "completed" => AllSeen(e))
            /\ row'[e] # "pending" /\ caller[e] # "none"
  <2>1. CASE Defers(e)
    BY <1>1, <2>1, SameParts DEF Defers, TerminalsAt
  <2>2. CASE Speaks(e)
    <3>1. PICK o \in Outcomes : Emit(e, o) /\ (o = "completed" => AllSeen(e))
      BY <2>2 DEF Speaks
    <3>2. terminals' = [terminals EXCEPT ![e] = Append(<<>>, o)]
      BY <2>2, <3>1 DEF Speaks, Emit
    <3>3. Append(<<>>, o) = <<o>>
      OBVIOUS
    <3>4. terminals' = [terminals EXCEPT ![e] = <<o>>] /\ terminals'[e] = <<o>>
      BY <1>1, <3>2, <3>3 DEF TypeOK
    <3>5. caller[e] # "none"
      <4>1. CASE caller[e] = "none"
        <5>1. terminals' = terminals
          BY <4>1 DEF Quiet
        <5>2. <<o>> # <<>>
          OBVIOUS
        <5> QED
          BY <2>2, <3>4, <5>1, <5>2 DEF Speaks
      <4> QED
        BY <4>1
    <3> QED
      BY <2>2, <3>1, <3>4, <3>5 DEF Speaks
  <2> QED
    BY <2>1, <2>2 DEF Ends
<1> USE DEF RowAt, UnitAt, StageAt, PreAt, PostAt, ResultsAt, FailuresAt, VisibleAt,
            ModeAt, CallerAt, SkippedAt, EndsAt
<1>6. Frame(e)
  BY <1>2, <1>3, <1>4, <1>5 DEF Frame, Ends
<1>7. TypeAt(e)'
  <2>1. terminals'[e] \in Seq({"completed", "failed", "unknown"})
    <3>1. \A o \in Outcomes : <<o>> \in Seq(Outcomes)
      OBVIOUS
    <3>2. terminals[e] \in Seq(Outcomes)
      BY <1>1 DEF TypeAt, Outcomes
    <3>3. terminals'[e] \in Seq(Outcomes)
      BY <1>5, <3>1, <3>2
    <3> QED
      BY <3>3 DEF Outcomes
  <2> QED
    BY <1>1, <1>2, <1>3, <1>4, <2>1 DEF TypeAt, AttemptStages
<1>8. TypeOK'
  <2>1. entriesInProgress' \subseteq Entries
    BY <1>1 DEF Ends, Over, TypeOK
  <2>2. drain' \in [Drains -> [todo : SUBSET Entries, current : Entries \cup {None}]]
    BY <1>1 DEF Ends, Over, DrainReleases, TypeOK
  <2> QED
    BY <1>1, <1>6, <1>7, <2>1, <2>2, FrameTypes DEF Ends
<1>9. /\ mode'[e] = "idle" /\ visible'[e] = visible[e] /\ skipped'[e] = skipped[e]
      /\ caller'[e] = IF caller[e] = "sending" THEN "done" ELSE caller[e]
      /\ row'[e] = a /\ recoveryState'[e] = b
      /\ Units(e)' = Units(e) /\ crashes' = crashes /\ caller[e] # "persisted"
  BY <1>2, <1>3, <1>4 DEF Units, Ends
<1>10. CallerInv(e)'
  <2>1. caller'[e] = "none" => /\ row[e] = "none" /\ terminals[e] = <<>> /\ Unseen(e)
                               /\ terminals'[e] = terminals[e]
    BY <1>1, <1>5, <1>9 DEF EntryInv, CallerInv
  <2> QED
    BY <1>4, <1>9, <2>1 DEF CallerInv, Unseen
<1>11. PlaceInv(e)' /\ RowInv(e)'
  BY <1>9 DEF PlaceInv, RowInv, Running, Queued
<1>12. EvidenceInv(e)'
  BY <1>4, <1>9 DEF EvidenceInv, Queued, Evident, Unseen
<1>13. SeenInv(e)'
  BY <1>1, <1>9 DEF EntryInv, SeenInv, Running
<1>14. EndInv(e)'
  <2>1. Len(terminals[e]) <= 1 /\ (terminals[e] = <<"completed">> => AllSeen(e))
    BY <1>1 DEF EntryInv, EndInv, AllSeen
  <2>2. ASSUME NEW o
        PROVE  Len(<<o>>) = 1 /\ <<o>> # <<>> /\ (<<o>> = <<"completed">> => o = "completed")
    <3>1. Len(<<o>>) = 1 /\ <<o>> # <<>>
      OBVIOUS
    <3>2. <<o>>[1] = o /\ <<"completed">>[1] = "completed"
      OBVIOUS
    <3> QED
      BY <3>1, <3>2
  <2>3. AllSeen(e) => \A u \in Units(e)' : visible'[e][u] > 0 \/ u \in skipped'[e]
    BY <1>9 DEF AllSeen
  <2>4. Len(terminals'[e]) <= 1 /\ (terminals'[e] = <<"completed">> => AllSeen(e))
    <3>1. CASE terminals'[e] = terminals[e]
      BY <2>1, <3>1
    <3>2. CASE \E o \in Outcomes : terminals'[e] = <<o>> /\ (o = "completed" => AllSeen(e))
      <4>1. PICK o \in Outcomes : terminals'[e] = <<o>> /\ (o = "completed" => AllSeen(e))
        BY <3>2
      <4>2. Len(<<o>>) = 1 /\ (<<o>> = <<"completed">> => o = "completed")
        BY <2>2
      <4>3. Len(terminals'[e]) <= 1
        BY <4>1, <4>2
      <4> QED
        BY <4>1, <4>2, <4>3
    <3> QED
      BY <1>5, <3>1, <3>2
  <2>5. terminals'[e] # <<>> => row'[e] # "pending"
    BY <1>5, <2>2
  <2>6. row'[e] \in {"deleted", "failed"} => terminals'[e] # <<>> \/ crashes' > 0 \/ faults' > 1
    BY <1>5, <1>9, <2>2
  <2> QED
    BY <1>9, <2>3, <2>4, <2>5, <2>6 DEF EndInv, Running
<1>15. EntryInv(e)'
  BY <1>10, <1>11, <1>12, <1>13, <1>14 DEF EntryInv
<1>16. \A f \in Entries : f # e => EntryInv(f)'
  BY <1>1, <1>6, OthersKept DEF Ends, DeliveryInv
<1> QED
  BY <1>8, <1>15, <1>16 DEF DeliveryInv

-----------------------------------------------------------------------------
(* The actions *)

\* The steps of an attempt up to its end.
LEMMA SendingKeeps ==
  ASSUME DeliveryInv, NEW e \in Entries,
         \/ Suppress(e) \/ SendReturnsNothing(e)
         \/ \E why \in {"proven", "unproven", "abort"} : FailsEarly(e, why)
         \/ \E why \in {"proven", "unproven"} : SetupThrows(e, why)
         \/ \E why \in {"proven", "unproven", "abort"} : SendThrows(e, why)
         \/ PlatformSendStart(e) \/ PlatformSendDispatch(e)
         \/ \E shown \in BOOLEAN : PlatformSend(e, shown)
         \/ DeliveryResult(e)
  PROVE  DeliveryInv'
<1>1. TypeOK /\ EntryInv(e)
  BY DEF DeliveryInv
<1>r. Running(e)
  BY DEF Suppress, SendReturnsNothing, FailsEarly, SetupThrows, SendThrows, PlatformSendStart,
         PlatformSendDispatch, PlatformSend, DeliveryResult
<1>s. ASSUME Stay, Quiet, mode' = mode, opt' = opt, crashes' = crashes, Faulty PROVE Steady(e)
  BY <1>1, <1>s, SameParts DEF Steady, Stay
<1>p. /\ NoWrite => KeepsRow(e)
      /\ AckDelivery(e) => RowAt(e, IF row[e] = "pending" THEN "deleted" ELSE row[e],
                                 recoveryState[e], retryCount[e])
      /\ MarkSendAttemptStarted(e) =>
           row[e] = "pending" /\ RowAt(e, "pending", "started", retryCount[e])
      /\ MarkOutcomeUnknown(e) =>
           row[e] = "pending" /\ RowAt(e, "pending", "unknown", retryCount[e])
      /\ FailAfterPlatformSend(e) =>
           row[e] = "pending" /\ RowAt(e, "pending", "unknown", retryCount[e] + 1)
  BY <1>1, RowParts DEF KeepsRow, AckDelivery, MarkSendAttemptStarted, MarkOutcomeUnknown,
     FailAfterPlatformSend
<1>u. UpdateFails(e) => Faulty
  BY DEF UpdateFails, Faulty
<1>2. CASE Suppress(e) \/ SendReturnsNothing(e)
  <2>1. Steady(e)
    BY <1>2, <1>s DEF Suppress, SendReturnsNothing, Quiet, Faulty
  <2>2. SkippedAt(e, skipped[e] \cup {unit[e]})
    BY <1>1, <1>2 DEF Suppress, SendReturnsNothing, TypeOK, SkippedAt
  <2>3. Withholds(e)
    BY <1>1, <1>2, <1>p, <2>2, AttemptParts, SameParts DEF Suppress, SendReturnsNothing, Withholds
  <2> QED
    BY <1>1, <1>r, <2>1, <2>3, WithholdsGoes, GoesKeeps
<1>3. CASE \E why \in {"proven", "unproven", "abort"} : FailsEarly(e, why)
  <2>1. PICK why \in {"proven", "unproven", "abort"} : FailsEarly(e, why)
    BY <1>3
  <2>2. Steady(e)
    BY <2>1, <1>s DEF FailsEarly, worldVars, Quiet, Faulty
  <2>3. FailsAt(e, why)
    BY <1>1, <2>1, AttemptParts DEF FailsEarly
  <2>4. Stumbles(e)
    BY <1>1, <1>p, <2>1, <2>3, SameParts DEF FailsEarly, worldVars, Stumbles
  <2> QED
    BY <1>1, <1>r, <2>2, <2>4, StumblesGoes, GoesKeeps
<1>4. CASE \E why \in {"proven", "unproven"} : SetupThrows(e, why)
  <2>1. PICK why \in {"proven", "unproven"} : SetupThrows(e, why)
    BY <1>4
  <2>2. Steady(e)
    BY <2>1, <1>s DEF SetupThrows, worldVars, Quiet, Faulty
  <2>3. StageAt(e, "threw") /\ FailuresAt(e, why) /\ UnitAt(e, unit[e])
    BY <1>1, <2>1, AttemptParts, SameParts DEF SetupThrows
  <2>4. Stumbles(e)
    BY <1>1, <1>p, <2>1, <2>3, SameParts DEF SetupThrows, worldVars, Stumbles
  <2> QED
    BY <1>1, <1>r, <2>2, <2>4, StumblesGoes, GoesKeeps
<1>5. CASE \E why \in {"proven", "unproven", "abort"} : SendThrows(e, why)
  <2>1. PICK why \in {"proven", "unproven", "abort"} : SendThrows(e, why)
    BY <1>5
  <2>2. Steady(e)
    BY <2>1, <1>s DEF SendThrows, worldVars, Quiet, Faulty
  <2>3. FailsAt(e, why)
    BY <1>1, <2>1, AttemptParts DEF SendThrows
  <2>4. Stumbles(e)
    BY <1>1, <1>p, <2>1, <2>3, SameParts DEF SendThrows, worldVars, Stumbles
  <2> QED
    BY <1>1, <1>r, <2>2, <2>4, StumblesGoes, GoesKeeps
<1>6. CASE PlatformSendStart(e)
  <2>1. Steady(e)
    BY <1>6, <1>s, <1>u DEF PlatformSendStart, worldVars, Quiet, Faulty
  <2>2. ResultsAt(e, results[e]) /\ VisibleAt(e, visible[e]) /\ SkippedAt(e, skipped[e]) /\ stage[e] = "ready"
    BY <1>1, <1>6, SameParts DEF PlatformSendStart, worldVars
  <2>3. Advances(e) \/ Stumbles(e)
    <3>1. UnitFails(e, "unproven") => FailsAt(e, "unproven")
      BY <1>1, AttemptParts
    <3>2. /\ stage' = [stage EXCEPT ![e] = "sending"] => StageAt(e, "sending")
          /\ \A q : pre' = [pre EXCEPT ![e] = q] => PreAt(e, q)
          /\ post' = [post EXCEPT ![e] = IF mode[e] = "live" THEN "acked" ELSE @]
               => PostAt(e, IF mode[e] = "live" THEN "acked" ELSE post[e])
      BY <1>1, AttemptParts
    <3>3. /\ unit' = unit => UnitAt(e, unit[e])
          /\ pre' = pre => PreAt(e, pre[e])
          /\ post' = post => PostAt(e, post[e])
          /\ failures' = failures => FailuresAt(e, failures[e])
      BY <1>1, SameParts
    <3> QED
      BY <1>6, <1>p, <2>2, <3>1, <3>2, <3>3 DEF PlatformSendStart, Advances, Stumbles
  <2> QED
    BY <1>1, <1>r, <2>1, <2>3, AdvancesGoes, StumblesGoes, GoesKeeps
<1>7. CASE PlatformSendDispatch(e)
  <2>1. Steady(e)
    BY <1>7, <1>s, <1>u DEF PlatformSendDispatch, worldVars, Quiet, Faulty
  <2>2. /\ ResultsAt(e, results[e]) /\ VisibleAt(e, visible[e]) /\ SkippedAt(e, skipped[e])
        /\ PostAt(e, post[e]) /\ stage[e] = "sending"
    BY <1>1, <1>7, SameParts DEF PlatformSendDispatch, worldVars
  <2>3. Advances(e) \/ Stumbles(e)
    <3>1. UnitFails(e, "unproven") => FailsAt(e, "unproven")
      BY <1>1, AttemptParts
    <3>2. /\ stage' = [stage EXCEPT ![e] = "dispatching"] => StageAt(e, "dispatching")
          /\ \A q : pre' = [pre EXCEPT ![e] = q] => PreAt(e, q)
      BY <1>1, AttemptParts
    <3>3. /\ unit' = unit => UnitAt(e, unit[e])
          /\ pre' = pre => PreAt(e, pre[e])
          /\ failures' = failures => FailuresAt(e, failures[e])
      BY <1>1, SameParts
    <3> QED
      BY <1>7, <1>p, <2>2, <3>1, <3>2, <3>3 DEF PlatformSendDispatch, Advances, Stumbles
  <2> QED
    BY <1>1, <1>r, <2>1, <2>3, AdvancesGoes, StumblesGoes, GoesKeeps
<1>8. CASE \E shown \in BOOLEAN : PlatformSend(e, shown)
  BY <1>1, <1>r, <1>8, SendGoes, GoesKeeps
<1>9. CASE DeliveryResult(e)
  <2>1. Steady(e)
    BY <1>9, <1>s, <1>u DEF DeliveryResult, PersistPostSend, PersistPostSendThrows, worldVars, Quiet, Faulty
  <2>2. /\ PreAt(e, pre[e]) /\ VisibleAt(e, visible[e]) /\ SkippedAt(e, skipped[e])
        /\ ResultsAt(e, results[e] + 1) /\ stage[e] = "shown"
    <3>1. results \in [Entries -> 0..MaxPayloads]
      BY <1>1 DEF TypeOK
    <3>2. ResultsAt(e, results[e] + 1)
      BY <1>9, <3>1 DEF DeliveryResult, ResultsAt
    <3> QED
      BY <1>1, <1>9, <3>2, SameParts DEF DeliveryResult, worldVars
  <2>3. PersistPostSend(e) /\ Queued(e) /\ post[e] = "none" => LeavesMark(e)
    <3>1. \A p : post' = [post EXCEPT ![e] = p] => PostAt(e, p)
      BY <1>1, AttemptParts
    <3> QED
      BY <1>p, <3>1 DEF PersistPostSend, LeavesMark
  <2>4. UnitFails(e, "unproven") => FailsAt(e, "unproven") /\ failures'[e] = "unproven"
    BY <1>1, AttemptParts DEF FailsAt, FailuresAt
  <2>5. AfterResult(e) => (PassesAt(e) /\ FailuresAt(e, failures[e])) \/ FailsAt(e, "unproven")
    BY <1>1, <2>4, AttemptParts, SameParts DEF AfterResult
  <2>6. post' = post => PostAt(e, post[e])
    BY <1>1, SameParts
  <2>7. Records(e)
    BY <1>9, <1>p, <2>2, <2>3, <2>4, <2>5, <2>6 DEF DeliveryResult, PersistPostSendThrows, Records
  <2> QED
    BY <1>1, <1>r, <2>1, <2>7, RecordsGoes, GoesKeeps
<1> QED
  BY <1>2, <1>3, <1>4, <1>5, <1>6, <1>7, <1>8, <1>9

\* The writes that end an attempt.
RowWrites(e) ==
  /\ NoWrite => RowAt(e, row[e], recoveryState[e], retryCount[e])
  /\ AckDelivery(e) => RowAt(e, IF row[e] = "pending" THEN "deleted" ELSE row[e],
                             recoveryState[e], retryCount[e])
  /\ FailDelivery(e) =>
       row[e] = "pending" /\ RowAt(e, "pending", recoveryState[e], retryCount[e] + 1)
  /\ FailBeforePlatformSend(e) =>
       row[e] = "pending" /\ RowAt(e, "pending", "none", retryCount[e] + 1)
  /\ FailAfterPlatformSend(e) =>
       row[e] = "pending" /\ RowAt(e, "pending", "unknown", retryCount[e] + 1)
  /\ MoveToFailed(e) =>
       row[e] = "pending" /\ RowAt(e, "failed", recoveryState[e], retryCount[e])

\* What the writes at the end of an attempt do to its row.
LEMMA EndWrites ==
  ASSUME TypeOK, NEW e \in Entries
  PROVE  RowWrites(e)
  BY RowParts DEF RowWrites, AckDelivery, FailDelivery, FailBeforePlatformSend,
     FailAfterPlatformSend, MoveToFailed

\* What a row may look like after the attempt.
RowEnd(e) ==
  /\ \E a \in RowStates, b \in RecoveryStates, c \in 0..MaxRetries :
       RowAt(e, a, b, c) /\ (a = "pending" /\ b = "none" => Unseen(e))
                         /\ (row[e] = "none" => a = "none")

\* An update of the row at the end of an attempt leaves a row of that kind: it is
\* taken back to "not sent" only by an attempt that has shown nothing.
LEMMA RowEnds ==
  ASSUME TypeOK, NEW e \in Entries, EntryInv(e),
         \/ NoWrite \/ AckDelivery(e) \/ MoveToFailed(e)
         \/ Queued(e) /\ post[e] # "failed" /\ (FailDelivery(e) \/ FailAfterPlatformSend(e))
         \/ Queued(e) /\ post[e] = "none" /\ failures[e] = "proven"
              /\ stage[e] \notin {"reconcile", "shown"} /\ FailBeforePlatformSend(e)
  PROVE  RowEnd(e)
<1>1. TypeAt(e) /\ RowWrites(e) /\ MaxRetries \in Nat
  BY EntryType, EndWrites, DeliveryAssumption
<1>2. row[e] = "pending" /\ recoveryState[e] = "none" => Unseen(e)
  BY DEF EntryInv, EvidenceInv, Evident
<1>3. Queued(e) /\ post[e] # "failed" => retryCount[e] + 1 \in 0..MaxRetries
  BY <1>1 DEF EntryInv, RowInv, TypeAt
<1>4. Queued(e) /\ post[e] = "none" /\ failures[e] = "proven"
        /\ stage[e] \notin {"reconcile", "shown"} => Unseen(e)
  BY DEF EntryInv, EvidenceInv
<1> USE DEF RowStates, RecoveryStates
<1>5. CASE NoWrite
  <2>1. RowAt(e, row[e], recoveryState[e], retryCount[e])
    BY <1>1, <1>5 DEF RowWrites
  <2> QED
    BY <1>1, <1>2, <2>1 DEF RowEnd, TypeAt
<1>6. CASE AckDelivery(e)
  <2>1. RowAt(e, IF row[e] = "pending" THEN "deleted" ELSE row[e], recoveryState[e], retryCount[e])
    BY <1>1, <1>6 DEF RowWrites
  <2> QED
    BY <1>1, <2>1 DEF RowEnd, TypeAt
<1>7. CASE MoveToFailed(e)
  <2>1. row[e] = "pending" /\ RowAt(e, "failed", recoveryState[e], retryCount[e])
    BY <1>1, <1>7 DEF RowWrites
  <2> QED
    BY <1>1, <2>1 DEF RowEnd, TypeAt
<1>8. CASE Queued(e) /\ post[e] # "failed" /\ FailDelivery(e)
  <2>1. row[e] = "pending" /\ RowAt(e, "pending", recoveryState[e], retryCount[e] + 1)
    BY <1>1, <1>8 DEF RowWrites
  <2> QED
    BY <1>1, <1>2, <1>3, <1>8, <2>1 DEF RowEnd, TypeAt
<1>9. CASE Queued(e) /\ post[e] # "failed" /\ FailAfterPlatformSend(e)
  <2>1. row[e] = "pending" /\ RowAt(e, "pending", "unknown", retryCount[e] + 1)
    BY <1>1, <1>9 DEF RowWrites
  <2> QED
    BY <1>1, <1>3, <1>9, <2>1 DEF RowEnd, TypeAt
<1>10. CASE Queued(e) /\ post[e] = "none" /\ failures[e] = "proven"
              /\ stage[e] \notin {"reconcile", "shown"} /\ FailBeforePlatformSend(e)
  <2>1. row[e] = "pending" /\ RowAt(e, "pending", "none", retryCount[e] + 1)
    BY <1>1, <1>10 DEF RowWrites
  <2> QED
    BY <1>1, <1>3, <1>4, <1>10, <2>1 DEF RowEnd, TypeAt
<1> QED
  BY <1>5, <1>6, <1>7, <1>8, <1>9, <1>10

\* The end of an attempt that has a row.
LEMMA ClosingKeeps ==
  ASSUME DeliveryInv, NEW e \in Entries,
         \/ CloseCompleted(e) \/ CloseFailedAfterSend(e) \/ CloseFailedUnsent(e)
         \/ CloseFailedDirect(e) \/ CloseAborted(e)
  PROVE  DeliveryInv'
<1>1. TypeOK /\ EntryInv(e) /\ TypeAt(e) /\ RowWrites(e)
  BY EntryType, EndWrites DEF DeliveryInv
<1>2. Running(e) /\ Over(e) /\ opt' = opt /\ visible' = visible /\ skipped' = skipped /\ crashes' = crashes
  BY DEF CloseCompleted, CloseFailedAfterSend, CloseFailedUnsent, CloseFailedDirect, CloseAborted, Running
<1>3. caller[e] \notin {"none", "persisted"} /\ terminals[e] = <<>>
  BY <1>1, <1>2 DEF EntryInv, CallerInv, EndInv, Running
<1>4. Faulty
  BY DEF CloseCompleted, CloseFailedAfterSend, CloseFailedUnsent, CloseFailedDirect, CloseAborted,
         RecordFailure, Faulty
<1>5. SUFFICES RowEnd(e) /\ (Speaks(e) \/ Defers(e))
  BY <1>2, <1>3, <1>4, EndsKeeps DEF Ends, RowEnd
<1>6. /\ faults \in Nat /\ faults' \in Nat /\ (WriteFails => faults' = faults + 1)
  BY <1>1, <1>4, FaultsGrow
<1>7. /\ Queued(e) /\ row[e] # "pending" => faults > 0
      /\ Queued(e) /\ post[e] = "acked" => row[e] # "pending"
      /\ Queued(e) /\ post[e] \in {"marked", "failed"} => row[e] = "pending"
      /\ ~Queued(e) => row[e] = "none"
  BY <1>1, <1>2 DEF EntryInv, RowInv, CallerInv, Queued, Running, TypeAt
<1>8. WriteFails /\ Queued(e) /\ row[e] # "pending" => faults' > 1
  BY <1>6, <1>7
<1> USE DEF RowAt, Outcomes
<1>9. CASE CloseCompleted(e)
  <2>1. RowEnd(e)
    BY <1>1, <1>9, RowEnds DEF CloseCompleted
  <2>2. AllSeen(e)
    <3>1. /\ stage[e] = "returned" /\ failures[e] = "no"
          /\ unit[e] = opt[e].payloads + 1 /\ Units(e) = 1..opt[e].payloads
          /\ opt[e].payloads \in Nat
      BY <1>1, <1>2, <1>9, OptionType, DeliveryAssumption DEF CloseCompleted, EntryInv, PlaceInv
    <3> QED
      BY <1>1, <1>2, <3>1 DEF EntryInv, SeenInv, AllSeen, Moving
  <2>3. Emit(e, "completed") /\ row'[e] # "pending" => Speaks(e)
    BY <1>3, <2>2 DEF Speaks
  <2>4. Quiet /\ row'[e] \in {"deleted", "failed"} /\ faults' > 1 => Defers(e)
    BY <1>3 DEF Defers
  <2>5. Quiet /\ row'[e] = "pending" => Defers(e)
    BY <1>3 DEF Defers
  <2>6. NoWrite => row'[e] = row[e]
    BY <1>1 DEF RowWrites
  <2>7. CASE Emit(e, "completed") /\ ((NoWrite /\ (~Queued(e) \/ post[e] = "acked")) \/ AckDelivery(e))
    <3>1. row'[e] # "pending"
      BY <1>1, <1>7, <2>6, <2>7 DEF RowWrites
    <3> QED
      BY <2>1, <2>3, <2>7, <3>1
  <2>8. CASE Quiet /\ Queued(e) /\ post[e] = "failed" /\ NoWrite
    BY <1>7, <2>1, <2>5, <2>6, <2>8
  <2>9. CASE /\ Quiet /\ Queued(e) /\ WriteFails
             /\ NoWrite \/ FailAfterPlatformSend(e) \/ FailDelivery(e)
    <3>1. row'[e] = "pending" \/ (row'[e] = row[e] /\ row[e] # "pending")
      BY <1>1, <2>6, <2>9 DEF RowWrites
    <3>2. row'[e] \in {"deleted", "failed"} => faults' > 1
      BY <1>8, <2>9, <3>1
    <3> QED
      BY <1>3, <2>1, <2>9, <3>1, <3>2 DEF Defers
  <2> QED
    BY <1>9, <2>1, <2>7, <2>8, <2>9 DEF CloseCompleted
<1>10. CASE CloseFailedAfterSend(e)
  <2>1. RowEnd(e)
    BY <1>1, <1>10, RowEnds DEF CloseFailedAfterSend
  <2>2. CASE Emit(e, "failed") /\ post[e] = "acked" /\ NoWrite
    <3>1. row'[e] # "pending"
      BY <1>1, <1>7, <1>10, <2>2 DEF RowWrites, CloseFailedAfterSend
    <3> QED
      BY <1>3, <2>1, <2>2, <3>1 DEF Speaks
  <2>3. CASE /\ Quiet
             /\ \/ post[e] \in {"marked", "failed"} /\ NoWrite
                \/ FailAfterPlatformSend(e) \/ FailDelivery(e)
    <3>1. row'[e] = "pending"
      BY <1>1, <1>7, <1>10, <2>3 DEF CloseFailedAfterSend, RowWrites
    <3> QED
      BY <1>3, <2>1, <2>3, <3>1 DEF Defers
  <2> QED
    BY <1>10, <2>1, <2>2, <2>3 DEF CloseFailedAfterSend
<1>11. CASE CloseFailedUnsent(e)
  <2>1. RowEnd(e)
    BY <1>1, <1>11, RowEnds DEF CloseFailedUnsent, RecordFailure
  <2>2. CASE Emit(e, "failed") /\ ((row[e] # "pending" /\ NoWrite) \/ MoveToFailed(e))
    <3>1. row'[e] # "pending"
      BY <1>1, <2>2 DEF RowWrites
    <3> QED
      BY <1>3, <2>1, <2>2, <3>1 DEF Speaks
  <2>3. CASE Quiet /\ row[e] = "pending" /\ RecordFailure(e)
    <3>1. row'[e] = "pending"
      BY <1>1, <2>3 DEF RecordFailure, RowWrites
    <3> QED
      BY <1>3, <2>1, <2>3, <3>1 DEF Defers
  <2> QED
    BY <1>11, <2>1, <2>2, <2>3 DEF CloseFailedUnsent
<1>12. CASE CloseFailedDirect(e)
  <2>1. RowEnd(e)
    BY <1>1, <1>12, RowEnds DEF CloseFailedDirect
  <2>2. row'[e] = "none"
    BY <1>1, <1>7, <1>12 DEF CloseFailedDirect, RowWrites, Queued
  <2> QED
    BY <1>3, <1>12, <2>1, <2>2 DEF CloseFailedDirect, Speaks
<1>13. CASE CloseAborted(e)
  <2>1. RowEnd(e)
    BY <1>1, <1>13, RowEnds DEF CloseAborted
  <2>2. CASE AckDelivery(e) /\ Emit(e, "failed")
    <3>1. row'[e] # "pending"
      BY <1>1, <2>2 DEF RowWrites
    <3> QED
      BY <1>3, <2>1, <2>2, <3>1 DEF Speaks
  <2>3. CASE WriteFails /\ NoWrite /\ Quiet
    <3>1. row'[e] = row[e] /\ Queued(e)
      BY <1>1, <1>13, <2>3 DEF RowWrites, CloseAborted, Queued
    <3> QED
      BY <1>3, <1>8, <2>1, <2>3, <3>1 DEF Defers
  <2> QED
    BY <1>13, <2>1, <2>2, <2>3 DEF CloseAborted
<1> QED
  BY <1>9, <1>10, <1>11, <1>12, <1>13

\* Evidence that is made up for at the end, or cannot be.
LEMMA EvidenceKeeps ==
  ASSUME DeliveryInv, NEW e \in Entries, LeaveEvidence(e)
  PROVE  DeliveryInv'
<1>1. TypeOK /\ EntryInv(e) /\ TypeAt(e) /\ RowWrites(e)
  BY EntryType, EndWrites DEF DeliveryInv
<1>2. /\ Running(e) /\ Quiet /\ opt' = opt /\ visible' = visible /\ skipped' = skipped /\ crashes' = crashes
      /\ Queued(e) /\ post[e] = "none" /\ stage[e] \in {"returned", "threw"}
      /\ results[e] > 0 \/ pre[e] # "none"
  BY DEF LeaveEvidence, OwesEvidence
<1>3. caller[e] \notin {"none", "persisted"} /\ terminals[e] = <<>>
  BY <1>1, <1>2 DEF EntryInv, CallerInv, EndInv, Running
<1>4. Faulty
  BY DEF LeaveEvidence, PersistPostSend, PersistPostSendThrows, UpdateFails, Faulty
<1>5. CASE PersistPostSend(e) /\ Stay /\ UNCHANGED <<mode, stage, unit, pre, results, failures>>
  <2>1. LeavesMark(e)
    <3>1. /\ AckDelivery(e) => RowAt(e, IF row[e] = "pending" THEN "deleted" ELSE row[e],
                                     recoveryState[e], retryCount[e])
          /\ MarkOutcomeUnknown(e) =>
               row[e] = "pending" /\ RowAt(e, "pending", "unknown", retryCount[e])
          /\ FailAfterPlatformSend(e) =>
               row[e] = "pending" /\ RowAt(e, "pending", "unknown", retryCount[e] + 1)
      BY <1>1, RowParts DEF AckDelivery, MarkOutcomeUnknown, FailAfterPlatformSend
    <3>2. \A q : post' = [post EXCEPT ![e] = q] => PostAt(e, q)
      BY <1>1, AttemptParts
    <3> QED
      BY <1>2, <1>5, <3>1, <3>2 DEF PersistPostSend, LeavesMark
  <2>2. /\ PreAt(e, pre[e]) /\ VisibleAt(e, visible[e]) /\ SkippedAt(e, skipped[e])
        /\ ResultsAt(e, results[e]) /\ UnitAt(e, unit[e]) /\ StageAt(e, stage[e])
        /\ FailuresAt(e, failures[e]) /\ ModeAt(e, mode[e]) /\ CallerAt(e, caller[e])
    BY <1>1, <1>2, <1>5, SameParts DEF Stay
  <2>3. Records(e) /\ Steady(e)
    BY <1>2, <1>4, <1>5, <2>1, <2>2 DEF Records, Steady
  <2> QED
    BY <1>1, <1>2, <2>3, RecordsGoes, GoesKeeps
<1>6. CASE PersistPostSendThrows /\ Over(e)
  <2>1. RowEnd(e)
    BY <1>1, <1>6, RowEnds DEF PersistPostSendThrows
  <2>2. row'[e] = row[e]
    BY <1>1, <1>6 DEF PersistPostSendThrows, RowWrites, RowAt
  <2>3. row[e] # "pending" => faults' > 1
    <3>1. /\ faults \in Nat /\ faults' = faults + 1
      BY <1>1, <1>4, <1>6, FaultsGrow DEF PersistPostSendThrows
    <3>2. row[e] # "pending" => faults > 0
      BY <1>1, <1>2 DEF EntryInv, RowInv
    <3> QED
      BY <3>1, <3>2
  <2>4. Defers(e)
    BY <1>2, <1>3, <2>2, <2>3 DEF Defers
  <2> QED
    BY <1>2, <1>3, <1>4, <1>6, <2>1, <2>4, EndsKeeps DEF Ends, RowEnd
<1> QED
  BY <1>5, <1>6 DEF LeaveEvidence

\* A reconciliation that finds the message unsent lets the attempt go on.
LEMMA ResumesGoes ==
  ASSUME TypeOK, NEW e \in Entries, EntryInv(e), Running(e), Steady(e), Unseen(e),
         stage[e] = "reconcile", StageAt(e, "ready"), KeepsRow(e), UnitAt(e, unit[e]),
         PreAt(e, pre[e]), PostAt(e, post[e]), ResultsAt(e, results[e]),
         FailuresAt(e, failures[e]), VisibleAt(e, visible[e]), SkippedAt(e, skipped[e])
  PROVE  Goes(e)
<1>i. /\ TypeAt(e) /\ PlaceInv(e) /\ RowInv(e) /\ EvidenceInv(e) /\ SeenInv(e)
      /\ opt[e].payloads \in 1..MaxPayloads /\ Units(e) = 1..opt[e].payloads
      /\ MaxPayloads \in Nat
  BY AttemptFacts
<1> USE DEF RowAt, UnitAt, StageAt, PreAt, PostAt, ResultsAt, FailuresAt, VisibleAt,
            ModeAt, CallerAt, SkippedAt, KeepsRow, Steady
<1>1. Frame(e)
  BY SameParts DEF Frame, TerminalsAt
<1>2. TypeAt(e)'
  BY <1>i DEF TypeAt, Quiet, AttemptStages
<1>3. PlaceInv(e)'
  BY <1>i DEF PlaceInv, Moving, Units, Running
<1>4. RowInv(e)'
  <2>1. faults \in Nat /\ faults' \in Nat /\ faults' >= faults
    BY FaultsGrow
  <2> QED
    BY <1>i, <2>1 DEF RowInv, Queued
<1>5. EvidenceInv(e)'
  BY <1>i DEF EvidenceInv, PlaceInv, Evident, Queued, Moving, Unseen, Units
<1>6. SeenInv(e)'
  <2>1. unit[e] = 1 /\ \A u \in Units(e) : u >= 1
    BY <1>i DEF PlaceInv
  <2> QED
    BY <1>i, <2>1 DEF SeenInv, Moving, Units, Running, Unseen
<1> QED
  BY <1>1, <1>2, <1>3, <1>4, <1>5, <1>6 DEF Goes

\* The reconciliation of a row that may have been sent.
LEMMA ReconcileKeeps ==
  ASSUME DeliveryInv, NEW e \in Entries, NEW answer, Reconcile(e, answer)
  PROVE  DeliveryInv'
<1>1. TypeOK /\ EntryInv(e) /\ TypeAt(e) /\ RowWrites(e)
  BY EntryType, EndWrites DEF DeliveryInv
<1>2. /\ Running(e) /\ Queued(e) /\ stage[e] = "reconcile"
      /\ opt' = opt /\ visible' = visible /\ skipped' = skipped /\ crashes' = crashes
      /\ answer \in Answers(e)
  BY DEF Reconcile, Running, Queued
<1>3. caller[e] \notin {"none", "persisted"} /\ terminals[e] = <<>> /\ post[e] = "none"
  BY <1>1, <1>2 DEF EntryInv, CallerInv, EndInv, PlaceInv, Running
<1>4. Faulty
  BY DEF Reconcile, Faulty
<1>5. ASSUME Over(e), RowEnd(e), Speaks(e) \/ Defers(e) PROVE DeliveryInv'
  BY <1>2, <1>3, <1>4, <1>5, EndsKeeps DEF Ends, RowEnd
<1>6. WriteFails /\ row[e] # "pending" => faults' > 1
  <2>1. WriteFails => faults \in Nat /\ faults' = faults + 1
    BY <1>1, <1>4, FaultsGrow
  <2>2. row[e] # "pending" => faults > 0
    BY <1>1, <1>2 DEF EntryInv, RowInv
  <2> QED
    BY <2>1, <2>2
<1>7. ASSUME Quiet, WriteFails, NoWrite PROVE RowEnd(e) /\ Defers(e)
  <2>1. RowEnd(e) /\ row'[e] = row[e]
    BY <1>1, <1>7, RowEnds DEF RowWrites, RowAt
  <2> QED
    BY <1>3, <1>6, <1>7, <2>1 DEF Defers
<1>8. ASSUME Quiet, FailDelivery(e) PROVE RowEnd(e) /\ Defers(e)
  <2>1. RowEnd(e) /\ row'[e] = "pending"
    BY <1>1, <1>2, <1>3, <1>8, RowEnds DEF RowWrites, RowAt
  <2> QED
    BY <1>3, <1>8, <2>1 DEF Defers
<1>9. CASE answer = "sent" /\ Over(e) /\ AckDelivery(e) /\ Emit(e, "completed")
  <2>1. AllSeen(e)
    BY <1>2, <1>9 DEF Answers, AllSeen
  <2>2. RowEnd(e) /\ row'[e] # "pending"
    BY <1>1, <1>9, RowEnds DEF RowWrites, RowAt
  <2> QED
    BY <1>3, <1>5, <1>9, <2>1, <2>2 DEF Speaks, Outcomes
<1>10. CASE MoveToFailed(e) /\ Over(e) /\ Emit(e, "unknown")
  <2>1. RowEnd(e) /\ row'[e] # "pending"
    BY <1>1, <1>10, RowEnds DEF RowWrites, RowAt
  <2> QED
    BY <1>3, <1>5, <1>10, <2>1 DEF Speaks, Outcomes
<1>11. CASE /\ answer = "not_sent" /\ stage' = [stage EXCEPT ![e] = "ready"] /\ NoWrite /\ Stay /\ Quiet
            /\ UNCHANGED <<mode, unit, pre, post, results, failures>>
  <2>1. Unseen(e)
    BY <1>2, <1>11 DEF Answers, Unseen
  <2>2. Steady(e)
    BY <1>1, <1>2, <1>4, <1>11, SameParts DEF Steady, Stay
  <2>3. /\ StageAt(e, "ready") /\ KeepsRow(e) /\ UnitAt(e, unit[e])
        /\ PreAt(e, pre[e]) /\ PostAt(e, post[e]) /\ ResultsAt(e, results[e])
        /\ FailuresAt(e, failures[e]) /\ VisibleAt(e, visible[e]) /\ SkippedAt(e, skipped[e])
    BY <1>1, <1>2, <1>11, SameParts, AttemptParts, RowParts DEF KeepsRow
  <2> QED
    BY <1>1, <1>2, <2>1, <2>2, <2>3, ResumesGoes, GoesKeeps
<1> QED
  BY <1>5, <1>7, <1>8, <1>9, <1>10, <1>11 DEF Reconcile

\* An attempt begins on a message nobody has seen, or that is to be reconciled.
LEMMA BeginKeeps ==
  ASSUME DeliveryInv, NEW e \in Entries, NEW m \in {"live", "direct", "recovery"},
         NEW st \in {"ready", "reconcile"}, Begin(e, m, st),
         RowAt(e, row[e], recoveryState[e], retryCount[e]), Quiet, Faulty,
         opt' = opt, visible' = visible, skipped' = skipped, crashes' = crashes,
         entriesInProgress' \subseteq Entries, drain' = drain,
         caller' = [caller EXCEPT ![e] = caller'[e]], caller'[e] \in {"sending", "done"},
         IF m = "direct" THEN row[e] = "none" ELSE row[e] = "pending",
         m # "direct" => retryCount[e] < MaxRetries,
         st = "ready" => Unseen(e), st = "reconcile" => m = "recovery",
         terminals[e] = <<>>
  PROVE  DeliveryInv'
<1>1. /\ TypeOK /\ EntryInv(e) /\ TypeAt(e)
      /\ opt[e].payloads \in 1..MaxPayloads /\ Units(e) = 1..opt[e].payloads /\ MaxPayloads \in Nat
  BY EntryType, OptionType, DeliveryAssumption DEF DeliveryInv
<1>2. BeginsAt(e, m, st) /\ VisibleAt(e, visible[e]) /\ SkippedAt(e, skipped[e]) /\ TerminalsAt(e, terminals[e])
  BY <1>1, AttemptParts, SameParts
<1> USE DEF RowAt, UnitAt, StageAt, PreAt, PostAt, ResultsAt, FailuresAt, VisibleAt,
            ModeAt, SkippedAt, TerminalsAt, BeginsAt
<1>3. Frame(e)
  BY <1>2 DEF Frame
<1>4. TypeAt(e)'
  <2>1. unit'[e] \in 1..(MaxPayloads + 1) /\ results'[e] \in 0..MaxPayloads
    BY <1>1, <1>2
  <2>2. stage'[e] \in AttemptStages /\ caller'[e] \in {"none", "persisted", "sending", "done"}
    BY <1>2 DEF AttemptStages
  <2>3. mode'[e] \in {"idle", "live", "direct", "recovery"} /\ failures'[e] = "no"
        /\ pre'[e] = "none" /\ post'[e] = "none"
    BY <1>2
  <2>4. /\ row'[e] = row[e] /\ recoveryState'[e] = recoveryState[e] /\ retryCount'[e] = retryCount[e]
        /\ visible'[e] = visible[e] /\ skipped'[e] = skipped[e] /\ terminals'[e] = terminals[e]
    BY <1>2
  <2> QED
    BY <1>1, <2>1, <2>2, <2>3, <2>4 DEF TypeAt
<1>5. TypeOK'
  <2>1. drain' \in [Drains -> [todo : SUBSET Entries, current : Entries \cup {None}]]
    BY <1>1 DEF TypeOK
  <2> QED
    BY <1>1, <1>3, <1>4, <2>1, FrameTypes
<1>6. Units(e)' = Units(e) /\ mode'[e] = m /\ Running(e)' /\ (Queued(e)' <=> m # "direct")
  BY <1>2 DEF Units, Running, Queued
<1>7. CallerInv(e)'
  BY <1>2 DEF CallerInv
<1>8. PlaceInv(e)'
  <2>1. 1 \in Units(e) /\ 0 < 1
    BY <1>1
  <2> QED
    BY <1>2, <1>6, <2>1 DEF PlaceInv, Moving
<1>9. RowInv(e)'
  BY <1>2, <1>6 DEF RowInv
<1>10. EvidenceInv(e)'
  <2>1. ~Evident(e)' => Unseen(e)'
    BY <1>1, <1>2, <1>6 DEF EntryInv, EvidenceInv, Evident, Unseen
  <2>2. st = "ready" => Unseen(e)'
    BY <1>2, <1>6 DEF Unseen
  <2> QED
    BY <1>2, <2>1, <2>2 DEF EvidenceInv, Moving
<1>11. SeenInv(e)'
  <2>1. \A u \in Units(e) : visible[e][u] \in {0, 1} /\ u >= 1 /\ u \in Nat
    BY <1>1 DEF EntryInv, SeenInv
  <2> QED
    BY <1>2, <1>6, <2>1 DEF SeenInv, Moving, Unseen
<1>12. EndInv(e)'
  <2>1. Len(<<>>) = 0 /\ <<>> # <<"completed">>
    OBVIOUS
  <2>2. terminals'[e] = <<>>
    BY <1>2
  <2>3. Len(terminals'[e]) <= 1 /\ terminals'[e] # <<"completed">>
    BY <2>1, <2>2
  <2> QED
    BY <1>6, <2>2, <2>3 DEF EndInv
<1>13. \A f \in Entries : f # e => EntryInv(f)'
  BY <1>1, <1>3, OthersKept DEF DeliveryInv
<1> QED
  BY <1>5, <1>7, <1>8, <1>9, <1>10, <1>11, <1>12, <1>13 DEF DeliveryInv, EntryInv

\* deliverOutboundPayloads up to its claim.
LEMMA EnqueueKeeps ==
  ASSUME DeliveryInv, NEW e \in Entries, Enqueue(e)
  PROVE  DeliveryInv'
<1>1. TypeOK /\ EntryInv(e) /\ TypeAt(e) /\ RowWrites(e)
  BY EntryType, EndWrites DEF DeliveryInv
<1>2. /\ caller[e] = "none" /\ row[e] = "none" /\ mode[e] = "idle" /\ terminals[e] = <<>> /\ Unseen(e)
      /\ opt' = opt /\ drain' = drain /\ visible' = visible /\ skipped' = skipped
      /\ crashes' = crashes /\ entriesInProgress' = entriesInProgress
  BY <1>1 DEF Enqueue, EntryInv, CallerInv
<1>3. caller \in [Entries -> {"none", "persisted", "sending", "done"}] /\ entriesInProgress \subseteq Entries
      /\ drain' \in [Drains -> [todo : SUBSET Entries, current : Entries \cup {None}]]
  BY <1>1, <1>2 DEF TypeOK
<1>4. Faulty
  BY DEF Enqueue, Faulty
<1>5. VisibleAt(e, visible[e]) /\ SkippedAt(e, skipped[e])
  BY <1>1, <1>2, SameParts
<1>6. CASE /\ WriteFails /\ NoWrite /\ Begin(e, "direct", "ready") /\ Quiet
           /\ caller' = [caller EXCEPT ![e] = "sending"]
  <2>1. caller' = [caller EXCEPT ![e] = caller'[e]] /\ caller'[e] \in {"sending", "done"}
    BY <1>3, <1>6
  <2>2. RowAt(e, row[e], recoveryState[e], retryCount[e])
    BY <1>1, <1>6 DEF RowWrites
  <2> QED
    BY <1>2, <1>3, <1>4, <1>6, <2>1, <2>2, BeginKeeps
<1>7. CASE /\ UNCHANGED attemptVars
           /\ \/ /\ SetRow(e, "pending", "none", 0) /\ Written
                 /\ caller' = [caller EXCEPT ![e] = "persisted"] /\ UNCHANGED terminals
              \/ /\ NoWrite /\ caller' = [caller EXCEPT ![e] = "done"] /\ Emit(e, "failed")
  <2>1. \/ RowAt(e, "pending", "none", 0) /\ CallerAt(e, "persisted") /\ TerminalsAt(e, <<>>)
        \/ /\ RowAt(e, row[e], recoveryState[e], retryCount[e]) /\ CallerAt(e, "done")
           /\ TerminalsAt(e, <<"failed">>)
    <3>1. \A c : caller' = [caller EXCEPT ![e] = c] => CallerAt(e, c)
      BY <1>3 DEF CallerAt
    <3>2. Emit(e, "failed") => TerminalsAt(e, <<"failed">>)
      <4>1. Append(<<>>, "failed") = <<"failed">>
        OBVIOUS
      <4> QED
        BY <1>1, <1>2, <4>1 DEF Emit, TerminalsAt, TypeOK
    <3>3. UNCHANGED terminals => TerminalsAt(e, <<>>)
      BY <1>1, <1>2, SameParts DEF Quiet
    <3> QED
      BY <1>1, <1>7, <3>1, <3>2, <3>3, RowParts
  <2>2. /\ ModeAt(e, mode[e]) /\ StageAt(e, stage[e]) /\ UnitAt(e, unit[e]) /\ PreAt(e, pre[e])
        /\ PostAt(e, post[e]) /\ ResultsAt(e, results[e]) /\ FailuresAt(e, failures[e])
    BY <1>1, <1>7, SameParts DEF attemptVars
  <2> USE DEF RowAt, UnitAt, StageAt, PreAt, PostAt, ResultsAt, FailuresAt, VisibleAt,
              ModeAt, SkippedAt, TerminalsAt, CallerAt
  <2>3. Frame(e)
    BY <1>2, <1>5, <2>1, <2>2 DEF Frame
  <2>4. TypeAt(e)'
    <3>1. <<"failed">> \in Seq({"completed", "failed", "unknown"}) /\ <<>> \in Seq({"completed", "failed", "unknown"})
      OBVIOUS
    <3>2. terminals'[e] \in Seq({"completed", "failed", "unknown"})
      BY <2>1, <3>1
    <3>3. /\ row'[e] \in RowStates /\ recoveryState'[e] \in RecoveryStates
          /\ retryCount'[e] \in 0..MaxRetries
          /\ caller'[e] \in {"none", "persisted", "sending", "done"}
      BY <1>1, <2>1, DeliveryAssumption DEF TypeAt, RowStates, RecoveryStates
    <3>4. /\ mode'[e] = mode[e] /\ stage'[e] = stage[e] /\ unit'[e] = unit[e] /\ pre'[e] = pre[e]
          /\ post'[e] = post[e] /\ results'[e] = results[e] /\ failures'[e] = failures[e]
          /\ visible'[e] = visible[e] /\ skipped'[e] = skipped[e]
      BY <1>5, <2>2
    <3> QED
      BY <1>1, <3>2, <3>3, <3>4 DEF TypeAt
  <2>5. TypeOK'
    BY <1>1, <1>2, <1>3, <1>4, <2>3, <2>4, FrameTypes
  <2>6. Units(e)' = Units(e) /\ ~Running(e)' /\ ~Queued(e)' /\ Unseen(e)' /\ mode'[e] = "idle"
    BY <1>2, <1>5, <2>2 DEF Units, Running, Queued, Unseen
  <2>7. CallerInv(e)' /\ PlaceInv(e)' /\ RowInv(e)' /\ EvidenceInv(e)'
    BY <2>1, <2>6 DEF CallerInv, PlaceInv, RowInv, EvidenceInv
  <2>8. SeenInv(e)'
    BY <2>6 DEF SeenInv, Unseen
  <2>9. EndInv(e)'
    <3>1. /\ Len(<<>>) = 0 /\ <<>> # <<"completed">> /\ Len(<<"failed">>) = 1
          /\ <<"failed">>[1] = "failed" /\ <<"completed">>[1] = "completed"
      OBVIOUS
    <3>2. <<"failed">> # <<"completed">>
      BY <3>1
    <3>3. terminals'[e] \in {<<>>, <<"failed">>} /\ row'[e] \in {"pending", "none"}
          /\ (terminals'[e] # <<>> => row'[e] # "pending")
      BY <1>2, <2>1
    <3>4. Len(terminals'[e]) <= 1 /\ terminals'[e] # <<"completed">>
      <4>1. CASE terminals'[e] = <<>>
        BY <3>1, <4>1
      <4>2. CASE terminals'[e] = <<"failed">>
        BY <3>1, <3>2, <4>2
      <4> QED
        BY <3>3, <4>1, <4>2
    <3> QED
      BY <2>6, <3>3, <3>4 DEF EndInv
  <2>10. \A f \in Entries : f # e => EntryInv(f)'
    BY <1>1, <1>2, <1>4, <2>3, OthersKept DEF DeliveryInv
  <2> QED
    BY <2>5, <2>7, <2>8, <2>9, <2>10 DEF DeliveryInv, EntryInv
<1> QED
  BY <1>6, <1>7 DEF Enqueue

\* What holds of every entry when only claims, drains, callers that are over, and
\* attempts that are gone change.
LEMMA RestKeeps ==
  ASSUME DeliveryInv, NoWrite, Written, UNCHANGED <<opt, attemptVars, worldVars>>,
         crashes' = crashes, entriesInProgress' \subseteq Entries,
         drain' \in [Drains -> [todo : SUBSET Entries, current : Entries \cup {None}]],
         caller' \in [Entries -> {"none", "persisted", "sending", "done"}],
         \A e \in Entries : caller'[e] \in {caller[e], "done"}
  PROVE  DeliveryInv'
<1> USE DEF NoWrite, Written, rowVars, attemptVars, worldVars
<1>1. TypeOK'
  BY DEF DeliveryInv, TypeOK
<1>2. ASSUME NEW e \in Entries PROVE EntryInv(e)'
  <2>1. EntryInv(e) /\ caller'[e] \in {caller[e], "done"}
    BY <1>2 DEF DeliveryInv
  <2>2. /\ Units(e)' = Units(e) /\ (Running(e)' <=> Running(e)) /\ (Queued(e)' <=> Queued(e))
        /\ (Unseen(e)' <=> Unseen(e)) /\ (Evident(e)' <=> Evident(e))
    BY DEF Units, Running, Queued, Unseen, Evident
  <2>3. CallerInv(e)'
    BY <2>1, <2>2 DEF EntryInv, CallerInv
  <2>4. PlaceInv(e)' /\ RowInv(e)'
    BY <2>1, <2>2 DEF EntryInv, PlaceInv, RowInv
  <2>5. EvidenceInv(e)'
    BY <2>1, <2>2 DEF EntryInv, EvidenceInv
  <2>6. SeenInv(e)'
    BY <2>1, <2>2 DEF EntryInv, SeenInv
  <2>7. EndInv(e)'
    BY <2>1, <2>2 DEF EntryInv, EndInv
  <2> QED
    BY <2>3, <2>4, <2>5, <2>6, <2>7 DEF EntryInv
<1> QED
  BY <1>1, <1>2 DEF DeliveryInv

\* withActiveDeliveryClaim of the live send.
LEMMA ClaimLiveKeeps ==
  ASSUME DeliveryInv, NEW e \in Entries, ClaimLive(e)
  PROVE  DeliveryInv'
<1>1. TypeOK /\ EntryInv(e)
  BY DEF DeliveryInv
<1>2. /\ caller[e] = "persisted" /\ row[e] = "pending" /\ mode[e] = "idle"
      /\ recoveryState[e] = "none" /\ retryCount[e] = 0
      /\ opt' = opt /\ drain' = drain /\ NoWrite /\ Written /\ crashes' = crashes
      /\ UNCHANGED worldVars
  BY <1>1 DEF ClaimLive, EntryInv, CallerInv
<1>3. caller \in [Entries -> {"none", "persisted", "sending", "done"}] /\ entriesInProgress \subseteq Entries
      /\ drain' \in [Drains -> [todo : SUBSET Entries, current : Entries \cup {None}]]
  BY <1>1, <1>2 DEF TypeOK
<1>4. CASE /\ caller' = [caller EXCEPT ![e] = "done"]
           /\ UNCHANGED <<entriesInProgress, attemptVars>>
  <2>1. /\ caller' \in [Entries -> {"none", "persisted", "sending", "done"}]
        /\ \A f \in Entries : caller'[f] \in {caller[f], "done"}
    BY <1>3, <1>4
  <2> QED
    BY <1>2, <1>3, <1>4, <2>1, RestKeeps
<1>5. CASE /\ entriesInProgress' = entriesInProgress \cup {e}
           /\ caller' = [caller EXCEPT ![e] = "sending"] /\ Begin(e, "live", "ready")
  <2>1. caller' = [caller EXCEPT ![e] = caller'[e]] /\ caller'[e] \in {"sending", "done"}
    BY <1>3, <1>5
  <2>2. Unseen(e) /\ terminals[e] = <<>>
    BY <1>1, <1>2 DEF EntryInv, EvidenceInv, Evident, EndInv
  <2>3. RowAt(e, row[e], recoveryState[e], retryCount[e]) /\ retryCount[e] < MaxRetries
    BY <1>1, <1>2, RowParts, DeliveryAssumption
  <2>4. Quiet /\ Faulty /\ visible' = visible /\ skipped' = skipped
    BY <1>2 DEF worldVars, Quiet, Faulty
  <2>5. entriesInProgress' \subseteq Entries
    BY <1>3, <1>5
  <2> QED
    BY <1>2, <1>5, <2>1, <2>2, <2>3, <2>4, <2>5, BeginKeeps
<1> QED
  BY <1>4, <1>5 DEF ClaimLive

\* The steps of a drain that only move its snapshot and its claim.
LEMMA SnapshotKeeps ==
  ASSUME DeliveryInv, NEW d \in Drains,
         \/ StartDrain(d) \/ DrainStops(d)
         \/ \E e \in Entries : DrainPassesBy(d, e) \/ DrainClaims(d, e)
  PROVE  DeliveryInv'
<1>1. /\ caller \in [Entries -> {"none", "persisted", "sending", "done"}] /\ entriesInProgress \subseteq Entries
      /\ drain \in [Drains -> [todo : SUBSET Entries, current : Entries \cup {None}]]
  BY DEF DeliveryInv, TypeOK
<1>2. /\ NoWrite /\ Written /\ UNCHANGED <<opt, attemptVars, worldVars>>
      /\ crashes' = crashes /\ caller' = caller
  BY DEF StartDrain, DrainStops, DrainPassesBy, DrainClaims
<1>3. entriesInProgress' \subseteq Entries
  BY <1>1 DEF StartDrain, DrainStops, DrainPassesBy, DrainClaims
<1>4. drain' \in [Drains -> [todo : SUBSET Entries, current : Entries \cup {None}]]
  BY <1>1 DEF StartDrain, DrainStops, DrainPassesBy, DrainClaims
<1>5. \A e \in Entries : caller'[e] \in {caller[e], "done"}
  BY <1>2
<1> QED
  BY <1>1, <1>2, <1>3, <1>4, <1>5, RestKeeps

\* A drain lets go of an entry, or begins an attempt on it.
LEMMA DrainKeeps ==
  ASSUME DeliveryInv, NEW d \in Drains, NEW e \in Entries,
         DrainSkips(d, e) \/ DrainRejects(d, e) \/ DrainGivesUp(d, e) \/ DrainBegins(d, e)
  PROVE  DeliveryInv'
<1>1. TypeOK /\ EntryInv(e) /\ TypeAt(e) /\ RowWrites(e)
  BY EntryType, EndWrites DEF DeliveryInv
<1>2. /\ ~Running(e) /\ caller[e] # "persisted" /\ opt' = opt /\ crashes' = crashes
      /\ visible' = visible /\ skipped' = skipped
  BY DEF DrainSkips, DrainRejects, DrainGivesUp, DrainBegins, Holds, worldVars
<1>3. Faulty
  BY DEF DrainSkips, DrainRejects, DrainGivesUp, DrainBegins, Faulty
<1>4. row[e] = "pending" => caller[e] # "none" /\ terminals[e] = <<>>
  BY <1>1 DEF EntryInv, CallerInv, EndInv
<1>5. ASSUME Over(e), RowEnd(e), Speaks(e) \/ Defers(e), Quiet \/ row[e] = "pending"
      PROVE  DeliveryInv'
  BY <1>2, <1>3, <1>4, <1>5, EndsKeeps DEF Ends, RowEnd
<1>6. ASSUME Quiet, NoWrite PROVE RowEnd(e) /\ Defers(e)
  <2>1. RowEnd(e) /\ row'[e] = row[e]
    BY <1>1, <1>6, RowEnds DEF RowWrites, RowAt
  <2>2. /\ terminals[e] # <<>> => row[e] # "pending"
        /\ row[e] \in {"deleted", "failed"} => terminals[e] # <<>> \/ crashes > 0 \/ faults > 1
    BY <1>1, <1>2 DEF EntryInv, EndInv
  <2>3. faults \in Nat /\ faults' \in Nat /\ faults' >= faults
    BY <1>1, <1>3, FaultsGrow
  <2>4. faults > 1 => faults' > 1
    BY <2>3
  <2> QED
    BY <1>6, <2>1, <2>2, <2>4 DEF Defers
<1>7. ASSUME MoveToFailed(e), NEW o \in {"failed", "unknown"}, Emit(e, o)
      PROVE  RowEnd(e) /\ Speaks(e) /\ row[e] = "pending"
  <2>1. RowEnd(e) /\ row'[e] # "pending" /\ row[e] = "pending"
    BY <1>1, <1>7, RowEnds DEF RowWrites, RowAt, MoveToFailed
  <2> QED
    BY <1>4, <1>7, <2>1 DEF Speaks, Outcomes
<1>8. CASE DrainSkips(d, e)
  <2>1. Over(e) /\ Quiet /\ NoWrite
    BY <1>8 DEF DrainSkips, worldVars, Quiet
  <2> QED
    BY <1>5, <1>6, <2>1
<1>9. CASE DrainRejects(d, e)
  <2>1. Over(e) /\ MoveToFailed(e) /\ Emit(e, IF recoveryState[e] = "none" THEN "failed" ELSE "unknown")
    BY <1>9 DEF DrainRejects
  <2> QED
    BY <1>5, <1>7, <2>1
<1>10. CASE DrainGivesUp(d, e)
  <2>1. /\ Over(e)
        /\ \/ MoveToFailed(e) /\ Emit(e, IF recoveryState[e] = "none" THEN "failed" ELSE "unknown")
           \/ NoWrite /\ Quiet
    BY <1>10 DEF DrainGivesUp
  <2> QED
    BY <1>5, <1>6, <1>7, <2>1
<1>11. CASE DrainBegins(d, e)
  <2> DEFINE st == IF recoveryState[e] = "none" THEN "ready" ELSE "reconcile"
  <2>1. /\ row[e] = "pending" /\ retryCount[e] < MaxRetries /\ Begin(e, "recovery", st)
        /\ NoWrite /\ Quiet /\ caller' = caller /\ drain' = drain
        /\ entriesInProgress' = entriesInProgress
    BY <1>11 DEF DrainBegins, worldVars, Quiet
  <2>2. st \in {"ready", "reconcile"} /\ (st = "ready" => Unseen(e))
    BY <1>1, <2>1 DEF EntryInv, EvidenceInv, Evident
  <2>3. /\ caller' = [caller EXCEPT ![e] = caller'[e]] /\ caller'[e] \in {"sending", "done"}
        /\ entriesInProgress' \subseteq Entries
    BY <1>1, <1>2, <1>4, <2>1 DEF TypeOK
  <2>4. RowAt(e, row[e], recoveryState[e], retryCount[e])
    BY <1>1, <2>1 DEF RowWrites
  <2> HIDE DEF st
  <2> QED
    BY <1>2, <1>3, <1>4, <2>1, <2>2, <2>3, <2>4, BeginKeeps
<1> QED
  BY <1>8, <1>9, <1>10, <1>11

\* The process dies: what is in the rows and what the recipient saw stays related.
LEMMA CrashKeeps ==
  ASSUME DeliveryInv, Crash
  PROVE  DeliveryInv'
<1>1. TypeOK'
  <2>1. crashes' \in 0..MaxCrashes
    BY DeliveryAssumption DEF DeliveryInv, TypeOK, Crash
  <2>2. /\ mode' \in [Entries -> {"idle", "live", "direct", "recovery"}]
        /\ stage' \in [Entries -> {"none", "reconcile", "ready", "sending", "dispatching",
                                   "shown", "unshown", "returned", "threw"}]
        /\ caller' \in [Entries -> {"none", "persisted", "sending", "done"}]
        /\ drain' \in [Drains -> [todo : SUBSET Entries, current : Entries \cup {None}]]
        /\ entriesInProgress' \subseteq Entries
    BY DEF Crash
  <2> QED
    BY <2>1, <2>2 DEF DeliveryInv, TypeOK, Crash, rowVars, worldVars
<1>2. ASSUME NEW e \in Entries PROVE EntryInv(e)'
  <2>1. EntryInv(e) /\ crashes' > 0
    BY <1>2 DEF DeliveryInv, TypeOK, Crash
  <2>2. /\ mode'[e] = "idle" /\ caller'[e] = IF caller[e] = "none" THEN "none" ELSE "done"
        /\ Units(e)' = Units(e) /\ ~Running(e)' /\ ~Queued(e)'
        /\ row' = row /\ recoveryState' = recoveryState /\ visible' = visible
        /\ skipped' = skipped /\ terminals' = terminals
    BY DEF Crash, Units, Running, Queued, rowVars, worldVars
  <2>3. (Unseen(e)' <=> Unseen(e)) /\ (Evident(e)' <=> Evident(e))
    BY <2>2 DEF Unseen, Evident
  <2>4. CallerInv(e)'
    BY <2>1, <2>2, <2>3 DEF EntryInv, CallerInv
  <2>5. PlaceInv(e)' /\ RowInv(e)'
    BY <2>2 DEF PlaceInv, RowInv
  <2>6. EvidenceInv(e)'
    BY <2>1, <2>2, <2>3 DEF EntryInv, EvidenceInv
  <2>7. SeenInv(e)'
    BY <2>1, <2>2 DEF EntryInv, SeenInv
  <2>8. EndInv(e)'
    BY <2>1, <2>2 DEF EntryInv, EndInv
  <2> QED
    BY <2>4, <2>5, <2>6, <2>7, <2>8 DEF EntryInv
<1> QED
  BY <1>1, <1>2 DEF DeliveryInv

-----------------------------------------------------------------------------
(* The specification *)

\* A fresh queue satisfies the invariant.
LEMMA DeliveryInit == Init => DeliveryInv
<1> SUFFICES ASSUME Init PROVE DeliveryInv
  OBVIOUS
<1>1. TypeOK
  <2>1. <<>> \in Seq({"completed", "failed", "unknown"})
    OBVIOUS
  <2> QED
    BY <2>1, DeliveryAssumption DEF Init, TypeOK
<1>2. ASSUME NEW e \in Entries PROVE EntryInv(e)
  <2>1. /\ row[e] = "none" /\ mode[e] = "idle" /\ caller[e] = "none" /\ terminals[e] = <<>>
        /\ ~Running(e) /\ ~Queued(e)
    BY <1>2 DEF Init, Running, Queued
  <2>2. Unseen(e)
    <3>1. Units(e) = 1..opt[e].payloads /\ opt[e].payloads \in 1..MaxPayloads /\ MaxPayloads \in Nat
      BY <1>1, <1>2, OptionType, DeliveryAssumption
    <3>2. visible[e] = [u \in 1..MaxPayloads |-> 0]
      BY <1>2 DEF Init
    <3>3. \A u \in Units(e) : u \in 1..MaxPayloads
      BY <3>1
    <3> QED
      BY <3>2, <3>3 DEF Unseen
  <2>3. Len(<<>>) = 0 /\ <<>> # <<"completed">>
    OBVIOUS
  <2>4. Len(terminals[e]) <= 1 /\ terminals[e] # <<"completed">>
    BY <2>1, <2>3
  <2>5. CallerInv(e) /\ PlaceInv(e) /\ RowInv(e) /\ EvidenceInv(e)
    BY <2>1, <2>2 DEF CallerInv, PlaceInv, RowInv, EvidenceInv
  <2>6. SeenInv(e)
    BY <2>1, <2>2 DEF SeenInv, Unseen
  <2>7. EndInv(e)
    BY <2>1, <2>4 DEF EndInv
  <2> QED
    BY <2>5, <2>6, <2>7 DEF EntryInv
<1> QED
  BY <1>1, <1>2 DEF DeliveryInv

\* Every step of the senders, the drains and the process keeps it.
LEMMA DeliveryStep == DeliveryInv /\ [Next]_vars => DeliveryInv'
<1> SUFFICES ASSUME DeliveryInv, [Next]_vars PROVE DeliveryInv'
  OBVIOUS
<1>1. CASE \E e \in Entries : Enqueue(e) \/ ClaimLive(e)
  BY <1>1, EnqueueKeeps, ClaimLiveKeeps
<1>2. CASE \E e \in Entries : AttemptStep(e)
  <2>1. PICK e \in Entries : AttemptStep(e)
    BY <1>2
  <2>2. CASE LeaveEvidence(e)
    BY <2>2, EvidenceKeeps
  <2>3. CASE \/ CloseCompleted(e) \/ CloseFailedAfterSend(e) \/ CloseFailedUnsent(e)
             \/ CloseFailedDirect(e) \/ CloseAborted(e)
    BY <2>3, ClosingKeeps
  <2>4. CASE \E answer \in {"sent", "not_sent", "retryable", "unresolved", "none"} :
               Reconcile(e, answer)
    BY <2>4, ReconcileKeeps
  <2>5. CASE \/ Suppress(e) \/ SendReturnsNothing(e)
             \/ \E why \in {"proven", "unproven", "abort"} : FailsEarly(e, why)
             \/ \E why \in {"proven", "unproven"} : SetupThrows(e, why)
             \/ \E why \in {"proven", "unproven", "abort"} : SendThrows(e, why)
             \/ PlatformSendStart(e) \/ PlatformSendDispatch(e)
             \/ \E shown \in BOOLEAN : PlatformSend(e, shown)
             \/ DeliveryResult(e)
    BY <2>5, SendingKeeps
  <2> QED
    BY <2>1, <2>2, <2>3, <2>4, <2>5 DEF AttemptStep
<1>3. CASE \E d \in Drains : DrainStep(d)
  <2>1. PICK d \in Drains : DrainStep(d)
    BY <1>3
  <2>2. CASE StartDrain(d) \/ DrainStops(d) \/ \E e \in Entries : DrainPassesBy(d, e) \/ DrainClaims(d, e)
    BY <2>2, SnapshotKeeps
  <2>3. CASE \E e \in Entries :
               DrainSkips(d, e) \/ DrainRejects(d, e) \/ DrainGivesUp(d, e) \/ DrainBegins(d, e)
    BY <2>3, DrainKeeps
  <2> QED
    BY <2>1, <2>2, <2>3 DEF DrainStep
<1>4. CASE Crash
  BY <1>4, CrashKeeps
<1>5. CASE UNCHANGED vars
  <2>1. /\ NoWrite /\ Written /\ UNCHANGED <<opt, attemptVars, worldVars>>
        /\ crashes' = crashes /\ caller' = caller /\ drain' = drain
        /\ entriesInProgress' = entriesInProgress
    BY <1>5 DEF vars, NoWrite, Written
  <2>2. /\ caller' \in [Entries -> {"none", "persisted", "sending", "done"}]
        /\ entriesInProgress' \subseteq Entries
        /\ drain' \in [Drains -> [todo : SUBSET Entries, current : Entries \cup {None}]]
        /\ \A e \in Entries : caller'[e] \in {caller[e], "done"}
    BY <2>1 DEF DeliveryInv, TypeOK
  <2> QED
    BY <2>1, <2>2, RestKeeps
<1> QED
  BY <1>1, <1>2, <1>3, <1>4, <1>5 DEF Next

\* The invariant holds whatever crashes and failing writes the queue meets.
THEOREM DeliveryAlways == Spec => []DeliveryInv
<1> QED
  BY DeliveryInit, DeliveryStep, PTL DEF Spec

\* The rows, the claims and the locals of the attempts keep their types, and
\* failDelivery never takes the count past MAX_RETRIES, for any number of entries.
THEOREM DeliveryTypes == Spec => []TypeOK
<1>1. DeliveryInv => TypeOK
  BY DEF DeliveryInv
<1> QED
  BY <1>1, DeliveryAlways, PTL

\* However often the process crashes between the platform's send and its marker,
\* and whatever write fails, no payload of a message reaches its recipient twice:
\* a row is replayed only when its markers or the channel's own answer say that
\* nothing was shown.
THEOREM SentAtMostOnce == Spec => []AtMostOnce
<1>1. DeliveryInv => AtMostOnce
  BY DEF DeliveryInv, EntryInv, SeenInv, AtMostOnce
<1> QED
  BY <1>1, DeliveryAlways, PTL

\* When the queue says "completed" of a message, every payload was seen by the
\* recipient or withheld on purpose, also when recovery or a reconciliation said it.
THEOREM CompletedMeansSeen == Spec => []CompletedIsSeen
<1>1. DeliveryInv => CompletedIsSeen
  BY DEF DeliveryInv, EntryInv, EndInv, CompletedIsSeen
<1> QED
  BY <1>1, DeliveryAlways, PTL

\* Every message ends with exactly one audit terminal: never two, none while its
\* row can still be replayed, and none missing but for a crash or a second failing
\* write.
THEOREM OneOutcomeEach == Spec => []OneOutcome
<1>1. DeliveryInv => OneOutcome
  BY DEF DeliveryInv, EntryInv, EndInv, OneOutcome, TerminalIsFinal, NoSilentEnd
<1> QED
  BY <1>1, DeliveryAlways, PTL

=============================================================================
