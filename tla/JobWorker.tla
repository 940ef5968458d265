------------------------------ MODULE JobWorker ------------------------------
(***************************************************************************)
(* The scheduler-service job queue (scheduler_jobs) and its worker.        *)
(*                                                                         *)
(*   Repository.Insert      the reminder consumer's handler inserts a job, *)
(*                          ON CONFLICT (idempotency_key) DO NOTHING;      *)
(*   Worker.processBatch    one tick of a worker replica: BEGIN, FetchDue  *)
(*                          (status = 'pending' AND next_run_at <= now()   *)
(*                          ORDER BY next_run_at LIMIT n FOR UPDATE SKIP   *)
(*                          LOCKED), one outbox Insert per job,            *)
(*                          MarkProcessed(ids), MarkFailed per failed job  *)
(*                          with enqueueDLQ when attempts >= max_attempts, *)
(*                          COMMIT.                                        *)
(*                                                                         *)
(* Time is kept relative: wait[k] is next_run_at - now in backoff units,   *)
(* clamped at 0 (the job is due).  An outbox Insert can fail in two ways   *)
(* that the code cannot tell apart but Postgres can: a client-side error   *)
(* leaves the transaction usable, a server-side error aborts it so that    *)
(* every later statement, and with it processBatch, fails.                 *)
(***************************************************************************)
EXTENDS Naturals, FiniteSets

CONSTANTS
    Workers,      \* worker replicas
    Keys,         \* job idempotency keys (appointment|remind_at|channel)
    MaxAttempts,  \* scheduler_jobs.max_attempts
    BatchSize,    \* WorkerConfig.BatchSize, the LIMIT of FetchDue
    Backoff,      \* WorkerConfig.Backoff, in clock ticks
    MaxLead,      \* latest first run of a new job, in clock ticks
    MaxRollbacks  \* bound on processBatch transactions that roll back

ASSUME MaxAttempts \in Nat \ {0} /\ BatchSize \in Nat \ {0}
ASSUME Backoff \in Nat \ {0} /\ MaxLead \in Nat /\ MaxRollbacks \in Nat

Status == {"absent", "pending", "processed", "failed"}

VARIABLES
    status,     \* status[k]: the job row's status ("absent": no row yet)
    attempts,   \* attempts[k]
    wait,       \* wait[k]: ticks until next_run_at
    claim,      \* claim[w]: job keys locked by w's open transaction
    dueEvents,  \* committed scheduler.reminder.due.v1 outbox rows per job
    dlqEvents,  \* committed scheduler.reminder.dlq.v1 outbox rows per job
    failedTries,\* history: batches in which the job's outbox Insert failed
    rollbacks   \* processBatch transactions rolled back so far

vars == <<status, attempts, wait, claim, dueEvents, dlqEvents,
          failedTries, rollbacks>>

Locked == UNION {claim[w] : w \in Workers}

\* Mutant: FetchDue without FOR UPDATE SKIP LOCKED.
DueIgnoringLocks == {k \in Keys : status[k] = "pending" /\ wait[k] = 0}

Due == {k \in Keys : status[k] = "pending" /\ wait[k] = 0 /\ k \notin Locked}

\* FetchDue: BatchSize of the due, unlocked jobs.  Every due job has
\* next_run_at <= now; which come first is left open.
FetchDue(S) ==
    /\ S \subseteq Due
    /\ Cardinality(S) = IF Cardinality(Due) < BatchSize
                        THEN Cardinality(Due) ELSE BatchSize

\* Mutant: the failed job's count is not incremented.
NextAttemptsUnchanged(n) == n

\* processBatch's new attempt count for a failed job: job.Attempts + 1.
NextAttempts(n) == n + 1

\* Mutant: MarkFailed tests attempts > maxAttempts.
FailedStatusStrict(n) == IF n > MaxAttempts THEN "failed" ELSE "pending"

\* MarkFailed's new status for a job whose attempt count becomes n.
FailedStatus(n) == IF n >= MaxAttempts THEN "failed" ELSE "pending"

\* Mutant: the DLQ test uses job.Attempts, the count before this failure.
EmitsDLQBeforeIncrement(n) == n - 1 >= MaxAttempts

\* processBatch calls enqueueDLQ for a failed job whose count becomes n.
EmitsDLQ(n) == n >= MaxAttempts

\* One more failed try in the history, saturating one past max_attempts
\* (no property tells more tries apart, and the state space stays finite).
CountTry(n) == IF n > MaxAttempts THEN n ELSE n + 1

-----------------------------------------------------------------------------
(* The reminder consumer's handler: jobRepo.Insert and Commit.  A          *)
(* duplicate key hits ON CONFLICT DO NOTHING and changes nothing.          *)
Insert(k) ==
    /\ status[k] = "absent"
    /\ \E lead \in 0..MaxLead :
          /\ status' = [status EXCEPT ![k] = "pending"]
          /\ wait' = [wait EXCEPT ![k] = lead]
    /\ UNCHANGED <<attempts, claim, dueEvents, dlqEvents, failedTries,
                   rollbacks>>

(* Time passes: now() moves one tick closer to every next_run_at.          *)
Tick ==
    /\ \E k \in Keys : status[k] = "pending" /\ wait[k] > 0
    /\ wait' = [k \in Keys |-> IF wait[k] > 0 THEN wait[k] - 1 ELSE 0]
    /\ UNCHANGED <<status, attempts, claim, dueEvents, dlqEvents,
                   failedTries, rollbacks>>

(* processBatch: Begin + FetchDue with a non-empty result.                 *)
FetchBatch(w) ==
    /\ claim[w] = {}
    /\ \E S \in SUBSET Keys :
          /\ FetchDue(S)
          /\ S # {}
          /\ claim' = [claim EXCEPT ![w] = S]
    /\ UNCHANGED <<status, attempts, wait, dueEvents, dlqEvents,
                   failedTries, rollbacks>>

(* The rest of processBatch when every statement succeeds: the jobs in ok  *)
(* got their due event, the others' outbox Insert failed client-side.      *)
(* MarkProcessed(ids); per failed job MarkFailed(attempts + 1,             *)
(* next_run_at = now + backoff) and, once attempts reaches max_attempts,   *)
(* enqueueDLQ; Commit.                                                     *)
ProcessBatch(w) ==
    /\ claim[w] # {}
    /\ \E ok \in SUBSET claim[w] :
        LET failed == claim[w] \ ok
            n(k) == NextAttempts(attempts[k])
        IN
        /\ status' = [k \in Keys |->
                        IF k \in ok THEN "processed"
                        ELSE IF k \in failed THEN FailedStatus(n(k))
                        ELSE status[k]]
        /\ attempts' = [k \in Keys |-> IF k \in failed THEN n(k)
                                                       ELSE attempts[k]]
        /\ wait' = [k \in Keys |-> IF k \in failed THEN Backoff ELSE wait[k]]
        /\ dueEvents' = [k \in Keys |-> IF k \in ok THEN dueEvents[k] + 1
                                                    ELSE dueEvents[k]]
        /\ dlqEvents' = [k \in Keys |->
                           IF k \in failed /\ EmitsDLQ(n(k))
                           THEN dlqEvents[k] + 1 ELSE dlqEvents[k]]
        /\ failedTries' = [k \in Keys |->
                             IF k \in failed THEN CountTry(failedTries[k])
                                             ELSE failedTries[k]]
    /\ claim' = [claim EXCEPT ![w] = {}]
    /\ UNCHANGED rollbacks

(* The outbox Insert of some jobs fails server-side: Postgres aborts the  *)
(* transaction, MarkProcessed or MarkFailed then fails, processBatch      *)
(* returns the error and the deferred Rollback undoes the whole batch.    *)
EnqueueServerError(w) ==
    /\ claim[w] # {}
    /\ rollbacks < MaxRollbacks
    /\ \E bad \in SUBSET claim[w] :
          /\ bad # {}
          /\ failedTries' = [k \in Keys |-> IF k \in bad THEN CountTry(failedTries[k])
                                                         ELSE failedTries[k]]
    /\ claim' = [claim EXCEPT ![w] = {}]
    /\ rollbacks' = rollbacks + 1
    /\ UNCHANGED <<status, attempts, wait, dueEvents, dlqEvents>>

(* Any other error before COMMIT (MarkProcessed, MarkFailed, enqueueDLQ,   *)
(* Commit) or the process stopping mid-batch: everything rolls back.       *)
RollbackBatch(w) ==
    /\ claim[w] # {}
    /\ rollbacks < MaxRollbacks
    /\ claim' = [claim EXCEPT ![w] = {}]
    /\ rollbacks' = rollbacks + 1
    /\ UNCHANGED <<status, attempts, wait, dueEvents, dlqEvents, failedTries>>

-----------------------------------------------------------------------------
Init ==
    /\ status = [k \in Keys |-> "absent"]
    /\ attempts = [k \in Keys |-> 0]
    /\ wait = [k \in Keys |-> 0]
    /\ claim = [w \in Workers |-> {}]
    /\ dueEvents = [k \in Keys |-> 0]
    /\ dlqEvents = [k \in Keys |-> 0]
    /\ failedTries = [k \in Keys |-> 0]
    /\ rollbacks = 0

Next ==
    \/ \E k \in Keys : Insert(k)
    \/ Tick
    \/ \E w \in Workers :
          \/ FetchBatch(w)
          \/ ProcessBatch(w)
          \/ EnqueueServerError(w)
          \/ RollbackBatch(w)

(* The clock always advances, and each worker's ticker fires every         *)
(* Interval while the service runs.  Rollbacks are bounded, not fair.      *)
Fairness ==
    /\ WF_vars(Tick)
    /\ \A w \in Workers : WF_vars(FetchBatch(w)) /\ WF_vars(ProcessBatch(w))

Spec == Init /\ [][Next]_vars /\ Fairness

-----------------------------------------------------------------------------
TypeOK ==
    /\ status \in [Keys -> Status]
    /\ attempts \in [Keys -> 0..MaxAttempts]
    /\ wait \in [Keys -> 0..(IF Backoff > MaxLead THEN Backoff ELSE MaxLead)]
    /\ claim \in [Workers -> SUBSET Keys]
    /\ dueEvents \in [Keys -> Nat]
    /\ dlqEvents \in [Keys -> Nat]
    /\ failedTries \in [Keys -> 0..(MaxAttempts + 1)]
    /\ rollbacks \in 0..MaxRollbacks

(* Exactly one dead-letter event exists for every failed job and none for *)
(* any other: the pending->failed flip and enqueueDLQ happen in the same   *)
(* commit, and a failed job is never fetched again, whatever the workers   *)
(* interleave or roll back.                                                *)
DeadLetterExactlyOnce ==
    \A k \in Keys : dlqEvents[k] = IF status[k] = "failed" THEN 1 ELSE 0

(* A reminder-due event is enqueued exactly once for a processed job and   *)
(* never for any other, although several replicas poll the same table.     *)
DueEventExactlyOnce ==
    \A k \in Keys : dueEvents[k] = IF status[k] = "processed" THEN 1 ELSE 0

(* Every job that is inserted eventually leaves pending: it is processed   *)
(* or, after max_attempts failures, dead-lettered.                         *)
EveryJobSettles ==
    \A k \in Keys :
        status[k] = "pending" ~> status[k] \in {"processed", "failed"}

(* Spec 4.4: a failed enqueue increments attempts (so that repeated        *)
(* failures end in the dead-letter queue): every batch in which a job's    *)
(* outbox Insert failed is counted in its attempts.                        *)
FailedEnqueueCounted ==
    \A k \in Keys : attempts[k] >= failedTries[k]
=============================================================================
