---------------------------- MODULE RestartNotice ----------------------------
(***************************************************************************)
(* deliverRestartSentinelNotice of src/src/gateway/server-restart-         *)
(* sentinel.ts beside the delivery queue: a notice writes a row of its own *)
(* and then sends with skipQueue, without the row's claim and without its  *)
(* markers, until a send has a result or its attempts are used up.         *)
(***************************************************************************)
EXTENDS DeliveryQueue

CONSTANT MaxAttempts   \* OUTBOUND_MAX_ATTEMPTS

VARIABLES
  notice,        \* "none", "trying", "shown", "unshown", "done" or "lost" in a crash
  attempt        \* sends of the loop that have failed

noticeVars == <<notice, attempt>>

NoticeInit ==
  /\ Init
  /\ notice = [e \in Entries |-> "none"]
  /\ attempt = [e \in Entries |-> 0]

Move(e, to) == notice' = [notice EXCEPT ![e] = to]

Beside == UNCHANGED <<entriesInProgress, opt, drain, attemptVars, skipped, terminals,
                      crashes>>

\* enqueueDelivery; without a row the notice is sent all the same.
StartNotice(e) ==
  /\ caller[e] = "none" /\ caller' = [caller EXCEPT ![e] = "done"]
  /\ Move(e, "trying") /\ UNCHANGED <<attempt, visible>> /\ Beside
  /\ \/ SetRow(e, "pending", "none", 0) /\ Written
     \/ WriteFails /\ NoWrite

\* sendDurableMessageBatch with skipQueue: one payload.
NoticeSend(e, shown) ==
  /\ notice[e] = "trying"
  /\ visible' = [visible EXCEPT ![e][1] = @ + IF shown THEN 1 ELSE 0]
  /\ Move(e, IF shown THEN "shown" ELSE "unshown")
  /\ NoWrite /\ Written /\ UNCHANGED <<caller, attempt>> /\ Beside

\* A result: the row is removed, and an error of that is swallowed.
NoticeSent(e) ==
  /\ notice[e] = "shown"
  /\ Move(e, "done") /\ UNCHANGED <<caller, attempt, visible>> /\ Beside
  /\ (AckDelivery(e) /\ Written) \/ (WriteFails /\ NoWrite)

\* No result: again after a second, or else failDelivery, whose error is swallowed.
NoticeFails(e) ==
  /\ notice[e] \in {"shown", "unshown"}
  /\ attempt' = [attempt EXCEPT ![e] = @ + 1]
  /\ UNCHANGED <<caller, visible>> /\ Beside
  /\ \/ /\ attempt[e] + 1 < MaxAttempts
        /\ Move(e, "trying") /\ NoWrite /\ Written
     \/ /\ attempt[e] + 1 = MaxAttempts /\ Move(e, "done")
        /\ (FailDelivery(e) /\ Written) \/ (UpdateFails(e) /\ NoWrite)

NoticeCrash ==
  /\ Crash
  /\ notice' = [e \in Entries |->
       IF notice[e] \in {"none", "done"} THEN notice[e] ELSE "lost"]
  /\ UNCHANGED attempt

\* The queue's own steps; its messages are the notices only.
QueueStep ==
  /\ \/ \E e \in Entries : AttemptStep(e)
     \/ \E d \in Drains : DrainStep(d)
  /\ UNCHANGED noticeVars

NoticeNext ==
  \/ \E e \in Entries : \/ StartNotice(e) \/ NoticeSent(e) \/ NoticeFails(e)
                        \/ \E shown \in BOOLEAN : NoticeSend(e, shown)
  \/ QueueStep
  \/ NoticeCrash

NoticeSpec == NoticeInit /\ [][NoticeNext]_<<vars, noticeVars>>

\* After a crash recovery does not send a notice that the recipient already has:
\* "A crash after platform send start cannot be blindly replayed; adapters must
\* reconcile whether the platform already committed the message"
\* (delivery-queue-recovery.ts:485).
NoBlindReplay ==
  \A e \in Entries :
    /\ notice[e] = "lost" /\ mode[e] = "recovery"
    /\ stage[e] \in {"ready", "sending", "dispatching"}
    => visible[e][unit[e]] = 0
=============================================================================
