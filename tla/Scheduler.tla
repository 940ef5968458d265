------------------------------ MODULE Scheduler ------------------------------
(***************************************************************************)
(* scheduler-service: its consumer of booking.reminder.requested.v1        *)
(* composed with the job queue and worker replicas (JobWorker).            *)
(*                                                                         *)
(* The consumer loop (read with auto-commit, inbox.Record, handler) is the *)
(* Consumer module instanced over the job keys: a reminder request names   *)
(* its job by appointment|remind_at|channel, so every delivery of one      *)
(* request carries one key.  The handler is one transaction: Begin,        *)
(* jobRepo.Insert (ON CONFLICT (idempotency_key) DO NOTHING), Commit; an   *)
(* error of any of them is returned and rolls the insert back.             *)
(***************************************************************************)
EXTENDS JobWorker, Sequences, SequencesExt

CONSTANTS
    MaxDeliveries,   \* bound on the messages put on the topic
    RecordOutcomes,  \* outcomes of the inbox INSERT: "ok", "err"
    HandlerOutcomes, \* outcomes of the handler transaction: "ok", "err"
    MayCrash,        \* whether the process may stop mid-message
    NoEvent          \* no message in hand

VARIABLES topic, offset, pc, cur, inbox, handled, dropped  \* see Consumer

cvars == <<topic, offset, pc, cur, inbox, handled, dropped>>
jvars == <<status, attempts, wait, claim, dueEvents, dlqEvents,
          failedTries, rollbacks>>
allvars == <<jvars, cvars>>

C == INSTANCE Consumer WITH Events <- Keys

-----------------------------------------------------------------------------
\* Mutant: the committed offset skips one message past the one read.
ReadMessageCommitsAhead == C!ReadMessageCommitsAhead /\ UNCHANGED jvars

ReadMessage == C!ReadMessage /\ UNCHANGED jvars

\* Mutant: the inbox insert has no unique constraint.
RecordWithoutDedup == C!RecordWithoutDedup /\ UNCHANGED jvars

\* Mutant: Run skips the handler when Record reports a new insert.
RecordInverted == C!RecordInverted /\ UNCHANGED jvars

Record == C!Record /\ UNCHANGED jvars

(* The handler's transaction.  When it commits, the job row exists: it was *)
(* inserted now, or an earlier insert makes ON CONFLICT do nothing.  When  *)
(* it fails, the insert rolls back.                                        *)
Handle ==
    /\ C!Handle
    /\ IF handled' = handled
       THEN UNCHANGED jvars
       ELSE \/ Insert(cur)
            \/ status[cur] # "absent" /\ UNCHANGED jvars

-----------------------------------------------------------------------------
SchedulerInit == Init /\ C!Init

SchedulerNext ==
    \/ \E k \in Keys : C!Deliver(k) /\ UNCHANGED jvars
    \/ ReadMessage
    \/ Record
    \/ Handle
    \/ C!Crash /\ UNCHANGED jvars
    \/ Tick /\ UNCHANGED cvars
    \/ \E w \in Workers :
          /\ \/ FetchBatch(w)
             \/ ProcessBatch(w)
             \/ EnqueueServerError(w)
             \/ RollbackBatch(w)
          /\ UNCHANGED cvars

(* The consumer loops on ReadMessage and the workers' tickers fire (see    *)
(* Consumer and JobWorker).                                                *)
SchedulerFairness ==
    /\ Fairness
    /\ WF_allvars(ReadMessage) /\ WF_allvars(Record) /\ WF_allvars(Handle)

SchedulerSpec == SchedulerInit /\ [][SchedulerNext]_allvars /\ SchedulerFairness

-----------------------------------------------------------------------------
SchedulerTypeOK == TypeOK /\ C!TypeOK

(* Spec 8: however often a reminder request is delivered, and whatever     *)
(* fails or crashes in between, the handler commits at most once for it.   *)
AtMostOnce == C!AtMostOnce

(* End to end: every reminder request put on the topic eventually has its *)
(* job processed (its due event enqueued) or dead-lettered, unless an      *)
(* inbox or handler error or a crash abandoned one of its deliveries.      *)
(* Workers racing, failed enqueues and rolled-back batches do not excuse   *)
(* it.                                                                     *)
EveryRequestSettles ==
    \A k \in Keys :
        Contains(topic, k) ~> (status[k] \in {"processed", "failed"} \/ k \in dropped)
(* Spec 4.2, 4.4 and 7: a failure in the scheduler is retried until it is  *)
(* counted, never absorbed.  Every reminder request the consumer read is   *)
(* handled or still in hand, whatever the inbox insert or the handler      *)
(* returned.  Every worker batch whose outbox Insert failed for a job is   *)
(* counted in that job's attempts.                                         *)
FailuresNeverAbsorbed == C!NoEventDropped /\ FailedEnqueueCounted
=============================================================================
