------------------------- MODULE NotificationAnalytics -------------------------
(***************************************************************************)
(* The reminder pipeline from the reminder topic to the analytics tables:  *)
(* notification-service (the Notification module) writes one               *)
(* notification.sent.v1 or notification.failed.v1 event per handled        *)
(* reminder to its outbox; the outbox publisher puts it on the topic, at   *)
(* least once; analytics-service consumes it with its own inbox consumer   *)
(* (the Consumer module again, over the variables prefixed "a") and a      *)
(* handler of two autocommit statements:                                   *)
(*                                                                         *)
(*   InsertMetric    INSERT INTO notification_metrics; an error is         *)
(*                   returned;                                             *)
(*   BumpAggregate   bumpNotificationAggregate: an upsert adding 1 to      *)
(*                   sent_count or failed_count of daily_notification_     *)
(*                   metrics; an error is returned.                        *)
(*                                                                         *)
(* The sent and failed topics have a consumer each; they share the inbox   *)
(* but no event id and no row of a handler, so one consumer reading both   *)
(* kinds stands for the two.  An event is named by the reminder it         *)
(* reports (Notification writes at most one per reminder, see              *)
(* RecordsTruthful); the payload always carries the business id.           *)
(***************************************************************************)
EXTENDS Notification, FiniteSets

CONSTANTS
    AMaxDeliveries   \* bound on the redeliveries on the notification topics

VARIABLES
    atopic, aoffset, apc, acur, ainbox, ahandled, adropped,  \* see Consumer
    astep,      \* the handler's next statement: "insert" or "bump"
    metrics,    \* metrics[e]: statuses of the notification_metrics rows of e
    agg         \* agg[s]: the summed sent_count / failed_count

acvars == <<atopic, aoffset, apc, acur, ainbox, ahandled, adropped>>
avars == <<acvars, astep, metrics, agg>>
allvars == <<vars, avars>>

Statuses == {"sent", "failed"}

A == INSTANCE Consumer
        WITH topic <- atopic, offset <- aoffset, pc <- apc, cur <- acur,
             inbox <- ainbox, handled <- ahandled, dropped <- adropped,
             MaxDeliveries <- AMaxDeliveries, HandlerOutcomes <- {"ok"}

-----------------------------------------------------------------------------
(* The outbox publisher puts the notification event of e on its topic: the *)
(* first time whenever the row exists, again (a retried batch) while the   *)
(* redelivery bound allows.                                                *)
Publish(e) ==
    /\ events[e] # <<>>
    /\ ~Contains(atopic, e) \/ Len(atopic) < AMaxDeliveries
    /\ atopic' = Append(atopic, e)
    /\ UNCHANGED <<vars, aoffset, apc, acur, ainbox, ahandled, adropped,
                   astep, metrics, agg>>

\* Mutant: the committed offset skips one message past the one read.
AReadMessageCommitsAhead ==
    A!ReadMessageCommitsAhead /\ UNCHANGED <<vars, astep, metrics, agg>>

AReadMessage == A!ReadMessage /\ UNCHANGED <<vars, astep, metrics, agg>>

ARecord ==
    /\ A!Record
    /\ astep' = "insert"
    /\ UNCHANGED <<vars, metrics, agg>>

\* The handler returns an error: the loop logs it and reads the next message.
AHandlerError ==
    /\ apc' = "read"
    /\ adropped' = adropped \cup {acur}

\* bumpNotificationAggregate: sent_count or failed_count of the day grows by 1.
Bump(s) == agg' = [agg EXCEPT ![s] = @ + 1]

\* Mutant: the aggregate is bumped first and the metric row inserted after.
InsertMetricAfterBump ==
    /\ apc = "handle" /\ astep = "insert"
    /\ \E out \in InsertOutcomes :
          /\ Bump(events[acur][1])
          /\ IF out = "ok"
             THEN /\ metrics' = [metrics EXCEPT ![acur] = Append(@, events[acur][1])]
                  /\ ahandled' = [ahandled EXCEPT ![acur] = @ + 1]
                  /\ apc' = "read"
                  /\ UNCHANGED adropped
             ELSE /\ AHandlerError
                  /\ UNCHANGED <<metrics, ahandled>>
    /\ UNCHANGED <<vars, atopic, aoffset, acur, ainbox, astep>>

(* The INSERT INTO notification_metrics of the status the topic names.     *)
InsertMetric ==
    /\ apc = "handle" /\ astep = "insert"
    /\ \E out \in InsertOutcomes :
          IF out = "ok"
          THEN /\ metrics' = [metrics EXCEPT ![acur] = Append(@, events[acur][1])]
               /\ astep' = "bump"
               /\ UNCHANGED <<apc, adropped>>
          ELSE /\ AHandlerError
               /\ UNCHANGED <<metrics, astep>>
    /\ UNCHANGED <<vars, atopic, aoffset, acur, ainbox, ahandled, agg>>

(* bumpNotificationAggregate; the handler then returns nil or its error.   *)
BumpAggregate ==
    /\ apc = "handle" /\ astep = "bump"
    /\ \E out \in InsertOutcomes :
          IF out = "ok"
          THEN /\ Bump(events[acur][1])
               /\ ahandled' = [ahandled EXCEPT ![acur] = @ + 1]
               /\ apc' = "read"
               /\ UNCHANGED adropped
          ELSE /\ AHandlerError
               /\ UNCHANGED <<agg, ahandled>>
    /\ UNCHANGED <<vars, atopic, aoffset, acur, ainbox, astep, metrics>>

ACrash == A!Crash /\ UNCHANGED <<vars, astep, metrics, agg>>

-----------------------------------------------------------------------------
SystemInit ==
    /\ Init
    /\ A!Init
    /\ astep = "insert"
    /\ metrics = [e \in Events |-> <<>>]
    /\ agg = [s \in Statuses |-> 0]

SystemNext ==
    \/ Next /\ UNCHANGED avars
    \/ \E e \in Events : Publish(e)
    \/ AReadMessage
    \/ ARecord
    \/ InsertMetric
    \/ BumpAggregate
    \/ ACrash

(* The publisher polls until every outbox row is published (Outbox run);   *)
(* the analytics loop reads on and runs its handler to its end.            *)
SystemFairness ==
    /\ Fairness
    /\ \A e \in Events : WF_allvars(Publish(e))
    /\ WF_allvars(AReadMessage) /\ WF_allvars(ARecord)
    /\ WF_allvars(InsertMetric) /\ WF_allvars(BumpAggregate)

SystemSpec == SystemInit /\ [][SystemNext]_allvars /\ SystemFairness
-----------------------------------------------------------------------------
SystemTypeOK ==
    /\ TypeOK
    /\ A!TypeOK
    /\ astep \in {"insert", "bump"}
    /\ metrics \in [Events -> Seq(Statuses)]
    /\ agg \in [Statuses -> Nat]

(* The analytics tables tell what notification-service did: each reminder  *)
(* has at most one metric row, with the status of its notification event   *)
(* (so a "sent" metric means the provider took the reminder), and a daily  *)
(* count never exceeds the metric rows of its status, however the two      *)
(* statements of the handler fail, crash or are redelivered.               *)
AnalyticsTruthful ==
    /\ \A e \in Events : Len(metrics[e]) <= 1 /\ IsPrefix(metrics[e], events[e])
    /\ \A s \in Statuses :
          agg[s] <= Cardinality({e \in Events : Contains(metrics[e], s)})

(* End to end: every reminder put on the reminder topic is eventually      *)
(* counted by analytics (its handler returned nil: metric row and daily    *)
(* count written), unless an error or crash abandoned it in one of the two *)
(* services.                                                               *)
EveryReminderCounted ==
    \A e \in Events :
        Contains(topic, e) ~> (ahandled[e] = 1 \/ e \in dropped \/ e \in adropped)
=============================================================================
