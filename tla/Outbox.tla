------------------------------- MODULE Outbox -------------------------------
(***************************************************************************)
(* The transactional outbox of every service and its publisher loop.       *)
(*                                                                         *)
(*   Repository.Insert            appends a row inside the caller's        *)
(*                                transaction (the row exists iff the      *)
(*                                domain change committed);                *)
(*   Publisher.publishBatch       one tick of a publisher replica: BEGIN,  *)
(*                                FetchUnpublished (ORDER BY id LIMIT n    *)
(*                                FOR UPDATE SKIP LOCKED), one             *)
(*                                WriteMessages per row, MarkPublished,    *)
(*                                COMMIT; any error returns and the        *)
(*                                deferred Rollback releases the rows.     *)
(*                                                                         *)
(* A row id is its position in `rows` (the bigserial id).  The bus keeps   *)
(* the ids written to Kafka in write order; a message already on the bus   *)
(* twice is not appended a third time: no property tells a third copy from *)
(* a second, and the cap keeps the state space finite.                     *)
(***************************************************************************)
EXTENDS Naturals, Sequences, SequencesExt, FiniteSets

CONSTANTS
    Publishers,   \* publisher replicas (goroutines of service instances)
    Aggregates,   \* aggregate ids (the Kafka message key)
    MaxRows,      \* bound on the number of outbox rows ever inserted
    BatchSize,    \* PublisherConfig.BatchSize, the LIMIT of FetchUnpublished
    MaxAborts     \* bound on failed publishBatch transactions

ASSUME BatchSize \in Nat \ {0} /\ MaxRows \in Nat /\ MaxAborts \in Nat

VARIABLES
    rows,      \* Seq of [agg, published]: the outbox_events table
    claim,     \* claim[p]: ids locked by p's open transaction, in id order
    written,   \* written[p]: how many of claim[p] WriteMessages has sent
    bus,       \* ids written to Kafka, in write order (at most 2 copies)
    aborted,   \* history: ids that were in a rolled-back batch
    aborts     \* number of rolled-back publish transactions so far

vars == <<rows, claim, written, bus, aborted, aborts>>

Ids == 1..Len(rows)

Locked == UNION {ToSet(claim[p]) : p \in Publishers}

Copies(i) == Cardinality({k \in 1..Len(bus) : bus[k] = i})

\* Kafka write of row i; a third copy is not recorded (see header).
WriteToBus(i) == bus' = IF Copies(i) < 2 THEN Append(bus, i) ELSE bus

\* Mutant: FetchUnpublished without FOR UPDATE SKIP LOCKED.
UnpublishedIgnoringLocks == {i \in Ids : ~rows[i].published}

\* The rows FetchUnpublished returns: unpublished, not locked by another
\* transaction, lowest ids first, at most BatchSize of them.
Unpublished == {i \in Ids : ~rows[i].published /\ i \notin Locked}

\* Mutant: FetchUnpublished without its LIMIT.
FetchUnpublishedNoLimit == SetToSortSeq(Unpublished, <)

FetchUnpublished ==
    LET cand == SetToSortSeq(Unpublished, <)
    IN  SubSeq(cand, 1, IF Len(cand) < BatchSize THEN Len(cand) ELSE BatchSize)

\* Mutant: MarkPublished with id <= max(ids) instead of id = ANY(ids).
MarkPublishedUpTo(ids) ==
    [i \in Ids |-> IF i <= Max(ids) THEN [rows[i] EXCEPT !.published = TRUE]
                                    ELSE rows[i]]

\* MarkPublished(ids): SET published_at = now() WHERE id = ANY(ids).
MarkPublished(ids) ==
    [i \in Ids |-> IF i \in ids THEN [rows[i] EXCEPT !.published = TRUE]
                                ELSE rows[i]]

Idle(p) == claim[p] = <<>>

\* Mutant: the batch is released but its write count is not reset.
ReleaseKeepsWritten(p) ==
    /\ claim' = [claim EXCEPT ![p] = <<>>]
    /\ UNCHANGED written

Release(p) ==
    /\ claim' = [claim EXCEPT ![p] = <<>>]
    /\ written' = [written EXCEPT ![p] = 0]

-----------------------------------------------------------------------------
(* Repository.Insert inside a domain transaction that commits.             *)
Insert(a) ==
    /\ Len(rows) < MaxRows
    /\ rows' = Append(rows, [agg |-> a, published |-> FALSE])
    /\ UNCHANGED <<claim, written, bus, aborted, aborts>>

(* publishBatch: Begin + FetchUnpublished.  An empty result commits at     *)
(* once and changes nothing, so only a non-empty claim is a step.          *)
FetchBatch(p) ==
    /\ Idle(p)
    /\ FetchUnpublished # <<>>
    /\ claim' = [claim EXCEPT ![p] = FetchUnpublished]
    /\ UNCHANGED <<rows, written, bus, aborted, aborts>>

(* writer.WriteMessages for the next record of the batch succeeds.         *)
WriteMessage(p) ==
    /\ written[p] < Len(claim[p])
    /\ WriteToBus(claim[p][written[p] + 1])
    /\ written' = [written EXCEPT ![p] = @ + 1]
    /\ UNCHANGED <<rows, claim, aborted, aborts>>

(* writer.WriteMessages returns an error: publishBatch returns and the     *)
(* deferred Rollback releases every row of the batch.  The error may be a  *)
(* timeout racing the broker's acknowledgement, so the message may have    *)
(* reached Kafka all the same.                                             *)
WriteMessageFails(p) ==
    /\ written[p] < Len(claim[p])
    /\ aborts < MaxAborts
    /\ \E reached \in BOOLEAN :
          IF reached THEN WriteToBus(claim[p][written[p] + 1])
                     ELSE UNCHANGED bus
    /\ Release(p)
    /\ aborted' = aborted \cup ToSet(claim[p])
    /\ aborts' = aborts + 1
    /\ UNCHANGED rows

(* Any other way the transaction ends without COMMIT: MarkPublished or     *)
(* Commit returns an error, or the process stops mid-batch.  Messages      *)
(* already written stay on the bus; the rows stay unpublished.             *)
Abort(p) ==
    /\ ~Idle(p)
    /\ aborts < MaxAborts
    /\ Release(p)
    /\ aborted' = aborted \cup ToSet(claim[p])
    /\ aborts' = aborts + 1
    /\ UNCHANGED <<rows, bus>>

\* Mutant: MarkPublished and Commit run before the last record is written.
CommitBeforeLastWrite(p) ==
    /\ ~Idle(p)
    /\ written[p] >= Len(claim[p]) - 1
    /\ rows' = MarkPublished(ToSet(claim[p]))
    /\ Release(p)
    /\ UNCHANGED <<bus, aborted, aborts>>

(* Every record was written: MarkPublished(ids) and Commit.                *)
Commit(p) ==
    /\ ~Idle(p)
    /\ written[p] = Len(claim[p])
    /\ rows' = MarkPublished(ToSet(claim[p]))
    /\ Release(p)
    /\ UNCHANGED <<bus, aborted, aborts>>

-----------------------------------------------------------------------------
Init ==
    /\ rows = <<>>
    /\ claim = [p \in Publishers |-> <<>>]
    /\ written = [p \in Publishers |-> 0]
    /\ bus = <<>>
    /\ aborted = {}
    /\ aborts = 0

Next ==
    \/ \E a \in Aggregates : Insert(a)
    \/ \E p \in Publishers :
          \/ FetchBatch(p)
          \/ WriteMessage(p)
          \/ WriteMessageFails(p)
          \/ Abort(p)
          \/ Commit(p)

(* Each replica's ticker fires every PollEvery for as long as the service  *)
(* runs, so a replica that can make progress eventually does.  Failures    *)
(* get no fairness: they are bounded by MaxAborts instead.                 *)
Fairness ==
    \A p \in Publishers :
        /\ WF_vars(FetchBatch(p))
        /\ WF_vars(WriteMessage(p))
        /\ WF_vars(Commit(p))

Spec == Init /\ [][Next]_vars /\ Fairness

-----------------------------------------------------------------------------
TypeOK ==
    /\ rows \in Seq([agg : Aggregates, published : BOOLEAN])
    /\ Len(rows) <= MaxRows
    /\ claim \in [Publishers -> Seq(Ids)]
    /\ written \in [Publishers -> 0..BatchSize]
    /\ bus \in Seq(Ids)
    /\ aborted \subseteq Ids
    /\ aborts \in 0..MaxAborts

(* A row is marked published only after its message was written to Kafka   *)
(* (publishBatch calls MarkPublished after the WriteMessages loop): never   *)
(* falsely marked before a successful send.                                *)
PublishedWasSent ==
    \A i \in Ids : rows[i].published => Copies(i) > 0

(* SKIP LOCKED gives each replica exclusive rows, so a message reaches the *)
(* bus twice only if a batch holding its row was rolled back after the     *)
(* message was (or may have been) written.                                 *)
DuplicateOnlyAfterAbort ==
    \A i \in Ids : Copies(i) > 1 => i \in aborted

(* Every committed outbox row is eventually marked published (and so, by  *)
(* PublishedWasSent, written to Kafka), whatever failures happen first.    *)
EveryRowPublished ==
    \A i \in 1..MaxRows :
        (i <= Len(rows)) ~> (i <= Len(rows) /\ rows[i].published)

(* The outbox of spec 4.1: the table, and the set of rows whose message    *)
(* reached the bus at least once.                                          *)
Abstract == INSTANCE OutboxSpec WITH
    table <- rows,
    sent  <- {i \in Ids : Copies(i) > 0}

(* publishBatch implements the outbox contract: every step of every        *)
(* replica (fetch, write, failed write, rollback, commit) is a step of     *)
(* OutboxSpec or leaves the table and the sent rows alone (a published row *)
(* is never written again or unmarked, a row is marked only with rows      *)
(* already sent), and the replicas' fairness gives OutboxSpec's: every     *)
(* row is eventually sent and marked.                                      *)
ImplementsOutboxSpec == Abstract!Spec
=============================================================================
