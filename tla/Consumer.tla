------------------------------ MODULE Consumer ------------------------------
(***************************************************************************)
(* The inbox-deduplicating Kafka consumer of a service.                    *)
(*                                                                         *)
(*   Consumer.Run         loop: ReadMessage (a consumer-group reader, so   *)
(*                        the offset is committed as the message is read), *)
(*                        ExtractEventMeta, inbox.Record, then the handler;*)
(*                        every error is logged and the loop continues     *)
(*                        with the next message;                           *)
(*   inbox.Record         INSERT INTO inbox_events; a unique violation     *)
(*                        (23505) is "already processed", any other error  *)
(*                        is returned.                                     *)
(*                                                                         *)
(* The handler is transactional (the scheduler's job Insert, the booking   *)
(* entitlements upsert): its effect commits exactly when it returns nil.   *)
(* Upstream delivery is at least once, so an event id may be on the topic  *)
(* several times.                                                          *)
(***************************************************************************)
EXTENDS Naturals, Sequences, SequencesExt

CONSTANTS
    Events,          \* event ids (the event_id header)
    MaxDeliveries,   \* bound on the messages put on the topic
    RecordOutcomes,  \* outcomes of the inbox INSERT: "ok", "err"
    HandlerOutcomes, \* outcomes of the handler: "ok", "err"
    MayCrash,        \* whether the process may stop mid-message
    NoEvent          \* no message in hand

ASSUME RecordOutcomes \subseteq {"ok", "err"} /\ "ok" \in RecordOutcomes
ASSUME HandlerOutcomes \subseteq {"ok", "err"} /\ "ok" \in HandlerOutcomes
ASSUME MayCrash \in BOOLEAN /\ NoEvent \notin Events

VARIABLES
    topic,    \* the partition: event ids in offset order
    offset,   \* the group's committed offset = messages read so far
    pc,       \* "read", "record" or "handle"
    cur,      \* the event id of the message in hand
    inbox,    \* inbox_events: event ids recorded
    handled,  \* handled[e]: committed handler effects for e
    dropped   \* history: events whose processing an error or crash abandoned

vars == <<topic, offset, pc, cur, inbox, handled, dropped>>

-----------------------------------------------------------------------------
(* An upstream publisher writes event e (again, if it is a retry).         *)
Deliver(e) ==
    /\ Len(topic) < MaxDeliveries
    /\ topic' = Append(topic, e)
    /\ UNCHANGED <<offset, pc, cur, inbox, handled, dropped>>

\* Mutant: the committed offset skips one message past the one read.
ReadMessageCommitsAhead ==
    /\ pc = "read"
    /\ offset < Len(topic)
    /\ cur' = topic[offset + 1]
    /\ offset' = offset + 2
    /\ pc' = "record"
    /\ UNCHANGED <<topic, inbox, handled, dropped>>

(* reader.ReadMessage returns the next message and commits its offset;     *)
(* ExtractEventMeta takes its event_id header.                             *)
ReadMessage ==
    /\ pc = "read"
    /\ offset < Len(topic)
    /\ cur' = topic[offset + 1]
    /\ offset' = offset + 1
    /\ pc' = "record"
    /\ UNCHANGED <<topic, inbox, handled, dropped>>

\* Mutant: the insert has no unique constraint, so a redelivery is recorded
\* again and handled again.
RecordWithoutDedup ==
    /\ pc = "record"
    /\ \E out \in RecordOutcomes :
       /\ dropped' = IF out = "err" THEN dropped \cup {cur} ELSE dropped
       /\ IF out = "ok"
          THEN /\ inbox' = inbox \cup {cur}
               /\ pc' = "handle"
          ELSE /\ pc' = "read"
               /\ UNCHANGED inbox
    /\ UNCHANGED <<topic, offset, cur, handled>>

\* Mutant: Run skips the handler when Record reports a new insert.
RecordInverted ==
    /\ pc = "record"
    /\ \E out \in RecordOutcomes :
       /\ dropped' = IF out = "err" THEN dropped \cup {cur} ELSE dropped
       /\ IF out = "ok" /\ cur \in inbox
          THEN /\ pc' = "handle"
               /\ UNCHANGED inbox
          ELSE /\ inbox' = IF out = "ok" THEN inbox \cup {cur} ELSE inbox
               /\ pc' = "read"
    /\ UNCHANGED <<topic, offset, cur, handled>>

(* inbox.Record: true on insert, false on conflict, or an error.  False    *)
(* and error both `continue` to the next message.                          *)
Record ==
    /\ pc = "record"
    /\ \E out \in RecordOutcomes :
       /\ dropped' = IF out = "err" THEN dropped \cup {cur} ELSE dropped
       /\ IF out = "ok" /\ cur \notin inbox
          THEN /\ inbox' = inbox \cup {cur}
               /\ pc' = "handle"
          ELSE /\ pc' = "read"
               /\ UNCHANGED inbox
    /\ UNCHANGED <<topic, offset, cur, handled>>

(* c.handler(ctx, msg): its transaction commits iff it returns nil; on an  *)
(* error the loop logs and continues.                                      *)
Handle ==
    /\ pc = "handle"
    /\ \E out \in HandlerOutcomes :
          /\ handled' = IF out = "ok" THEN [handled EXCEPT ![cur] = @ + 1]
                                      ELSE handled
          /\ dropped' = IF out = "err" THEN dropped \cup {cur} ELSE dropped
    /\ pc' = "read"
    /\ UNCHANGED <<topic, offset, cur, inbox>>

(* The process stops with a message in hand and restarts; the reader       *)
(* resumes after the committed offset.                                     *)
Crash ==
    /\ MayCrash
    /\ pc # "read"
    /\ pc' = "read"
    /\ dropped' = dropped \cup {cur}
    /\ UNCHANGED <<topic, offset, cur, inbox, handled>>

-----------------------------------------------------------------------------
Init ==
    /\ topic = <<>>
    /\ offset = 0
    /\ pc = "read"
    /\ cur = NoEvent
    /\ inbox = {}
    /\ handled = [e \in Events |-> 0]
    /\ dropped = {}

Next ==
    \/ \E e \in Events : Deliver(e)
    \/ ReadMessage
    \/ Record
    \/ Handle
    \/ Crash

(* Run loops without waiting on anything but the next message.             *)
Fairness == WF_vars(ReadMessage) /\ WF_vars(Record) /\ WF_vars(Handle)

Spec == Init /\ [][Next]_vars /\ Fairness

-----------------------------------------------------------------------------
TypeOK ==
    /\ topic \in Seq(Events)
    /\ offset \in 0..Len(topic)
    /\ pc \in {"read", "record", "handle"}
    /\ cur \in Events \cup {NoEvent}
    /\ inbox \subseteq Events
    /\ handled \in [Events -> Nat]
    /\ dropped \subseteq Events

(* Spec 8: however often an event id is delivered, and whatever fails or  *)
(* crashes in between, its handler's effect is committed at most once.    *)
AtMostOnce ==
    \A e \in Events : handled[e] <= 1

(* Run neither stalls nor skips an event silently: every event put on the *)
(* topic is eventually handled exactly once, unless an inbox or handler    *)
(* error or a crash abandoned one of its deliveries (the loss finding 1-2  *)
(* is about).  Redeliveries, duplicates and errors on other events do not  *)
(* excuse it.                                                              *)
EveryEventHandled ==
    \A e \in Events : Contains(topic, e) ~> (handled[e] = 1 \/ e \in dropped)

(* Spec 4.2 and 7: handler and infrastructure errors are retried, and only *)
(* a handler that completed gets an inbox entry, so no event that was read *)
(* is dropped: it is handled, or still in hand.                            *)
NoEventDropped ==
    \A e \in ToSet(SubSeq(topic, 1, offset)) :
        handled[e] > 0 \/ (pc # "read" /\ cur = e)
=============================================================================
