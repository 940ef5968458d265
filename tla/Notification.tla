---------------------------- MODULE Notification ----------------------------
(***************************************************************************)
(* notification-service: its inbox consumer of scheduler.reminder.due.v1   *)
(* composed with the reminder handler of main.go.                          *)
(*                                                                         *)
(* The consumer loop (read with auto-commit, inbox.Record, handler) is the *)
(* Consumer module, instanced over this module's variables.  Its atomic    *)
(* Handle is replaced by the handler's three steps, each its own           *)
(* statement or transaction:                                               *)
(*                                                                         *)
(*   Send                 email or SMS; an error, an unsupported channel   *)
(*                        or the simulated-failure suffix makes the status *)
(*                        "failed";                                        *)
(*   InsertNotification   notificationsRepo.Insert (autocommit); an error  *)
(*                        is returned;                                     *)
(*   WriteOutbox          writeOutboxSent / writeOutboxFailed in its own   *)
(*                        transaction; an error is returned.               *)
(*                                                                         *)
(* A returned error ends the message: the loop logs it and reads on.       *)
(***************************************************************************)
EXTENDS Naturals, Sequences, SequencesExt

CONSTANTS
    Events,          \* reminder event ids
    MaxDeliveries,   \* bound on the messages put on the topic
    RecordOutcomes,  \* outcomes of the inbox INSERT: "ok", "err"
    SendOutcomes,    \* outcomes of the provider call: "ok", "err" (not
                     \* delivered), "lost" (delivered, but the call errs:
                     \* the SMS webhook's 5 s client timeout after the
                     \* provider took it, or smtp.SendMail failing after
                     \* the server accepted the DATA)
    InsertOutcomes,  \* outcomes of the notifications INSERT: "ok", "err"
    OutboxOutcomes,  \* outcomes of the outbox transaction: "ok", "err"
    MayCrash,        \* whether the process may stop mid-message
    NoEvent          \* no message in hand

ASSUME SendOutcomes \subseteq {"ok", "err", "lost"} /\ SendOutcomes # {}

\* The provider outcomes in which the reminder reaches the customer.
Reaches(out) == out \in {"ok", "lost"}
ASSUME InsertOutcomes \subseteq {"ok", "err"} /\ "ok" \in InsertOutcomes
ASSUME OutboxOutcomes \subseteq {"ok", "err"} /\ "ok" \in OutboxOutcomes

VARIABLES
    topic, offset, pc, cur, inbox, dropped,  \* the consumer (see Consumer)
    handled,    \* handled[e]: handler runs for e that returned nil
    step,       \* the handler's next step: "send", "insert" or "outbox"
    status,     \* the status the handler decided: "sent" or "failed"
    delivered,  \* delivered[e]: reminders for e handed to the provider
    rows,       \* rows[e]: statuses of the notifications rows for e
    events      \* events[e]: kinds of the notification outbox rows for e

cvars == <<topic, offset, pc, cur, inbox, handled, dropped>>
nvars == <<step, status, delivered, rows, events>>
vars == <<cvars, nvars>>

C == INSTANCE Consumer WITH HandlerOutcomes <- {"ok"}

-----------------------------------------------------------------------------
\* notificationsRepo.Insert: one row with the decided status.
InsertRow(e, st) == rows' = [rows EXCEPT ![e] = Append(@, st)]

\* writeOutboxSent / writeOutboxFailed: one outbox row in its own transaction.
AppendOutbox(e, st) == events' = [events EXCEPT ![e] = Append(@, st)]

\* The handler returns an error: the loop logs it and reads the next message.
HandlerError ==
    /\ pc' = "read"
    /\ dropped' = dropped \cup {cur}

\* Mutant: the committed offset skips one message past the one read.
ReadMessageCommitsAhead == C!ReadMessageCommitsAhead /\ UNCHANGED nvars

ReadMessage == C!ReadMessage /\ UNCHANGED nvars

\* Mutant: the inbox insert has no unique constraint.
RecordWithoutDedup ==
    /\ C!RecordWithoutDedup
    /\ step' = "send"
    /\ UNCHANGED <<status, delivered, rows, events>>

Record ==
    /\ C!Record
    /\ step' = "send"
    /\ UNCHANGED <<status, delivered, rows, events>>

\* Mutant: a send error is logged but the status stays "sent".
SendStatusUnchangedOnError ==
    /\ pc = "handle" /\ step = "send"
    /\ \E out \in SendOutcomes :
          /\ status' = "sent"
          /\ delivered' = IF Reaches(out) THEN [delivered EXCEPT ![cur] = @ + 1]
                                        ELSE delivered
    /\ step' = "insert"
    /\ UNCHANGED <<cvars, rows, events>>

(* Status decision and provider call: "sent" with a provider id when the   *)
(* call returns nil, else "failed" with the error as the reason, whether   *)
(* or not the provider delivered.                                          *)
Send ==
    /\ pc = "handle" /\ step = "send"
    /\ \E out \in SendOutcomes :
          /\ status' = IF out = "ok" THEN "sent" ELSE "failed"
          /\ delivered' = IF Reaches(out) THEN [delivered EXCEPT ![cur] = @ + 1]
                                        ELSE delivered
    /\ step' = "insert"
    /\ UNCHANGED <<cvars, rows, events>>

(* The notifications row; on error the handler returns it.                 *)
InsertNotification ==
    /\ pc = "handle" /\ step = "insert"
    /\ \E out \in InsertOutcomes :
          IF out = "ok"
          THEN /\ InsertRow(cur, status)
               /\ step' = "outbox"
               /\ UNCHANGED <<pc, dropped>>
          ELSE /\ HandlerError
               /\ UNCHANGED <<rows, step>>
    /\ UNCHANGED <<topic, offset, cur, inbox, handled, status, delivered, events>>

\* Mutant: only a sent reminder gets an outbox event; a failed one returns nil.
WriteOutboxSentOnly ==
    /\ pc = "handle" /\ step = "outbox"
    /\ \E out \in OutboxOutcomes :
          IF out = "ok"
          THEN /\ IF status = "sent" THEN AppendOutbox(cur, status)
                                     ELSE UNCHANGED events
               /\ handled' = [handled EXCEPT ![cur] = @ + 1]
               /\ pc' = "read"
               /\ UNCHANGED dropped
          ELSE /\ HandlerError
               /\ UNCHANGED <<events, handled>>
    /\ UNCHANGED <<topic, offset, cur, inbox, step, status, delivered, rows>>

(* notification.sent.v1 or notification.failed.v1 through the outbox; the  *)
(* handler then returns nil, or the transaction's error.                   *)
WriteOutbox ==
    /\ pc = "handle" /\ step = "outbox"
    /\ \E out \in OutboxOutcomes :
          IF out = "ok"
          THEN /\ AppendOutbox(cur, status)
               /\ handled' = [handled EXCEPT ![cur] = @ + 1]
               /\ pc' = "read"
               /\ UNCHANGED dropped
          ELSE /\ HandlerError
               /\ UNCHANGED <<events, handled>>
    /\ UNCHANGED <<topic, offset, cur, inbox, step, status, delivered, rows>>

Crash == C!Crash /\ UNCHANGED nvars

-----------------------------------------------------------------------------
Init ==
    /\ C!Init
    /\ step = "send"
    /\ status = "sent"
    /\ delivered = [e \in Events |-> 0]
    /\ rows = [e \in Events |-> <<>>]
    /\ events = [e \in Events |-> <<>>]

Next ==
    \/ \E e \in Events : C!Deliver(e) /\ UNCHANGED nvars
    \/ ReadMessage
    \/ Record
    \/ Send
    \/ InsertNotification
    \/ WriteOutbox
    \/ Crash

(* Run loops on ReadMessage and runs the handler to its end.               *)
Fairness ==
    /\ WF_vars(ReadMessage) /\ WF_vars(Record)
    /\ WF_vars(Send) /\ WF_vars(InsertNotification) /\ WF_vars(WriteOutbox)

Spec == Init /\ [][Next]_vars /\ Fairness
-----------------------------------------------------------------------------
TypeOK ==
    /\ C!TypeOK
    /\ step \in {"send", "insert", "outbox"}
    /\ status \in {"sent", "failed"}
    /\ delivered \in [Events -> Nat]
    /\ rows \in [Events -> Seq({"sent", "failed"})]
    /\ events \in [Events -> Seq({"sent", "failed"})]

(* Spec 8 carried to the customer: however often the due event is          *)
(* redelivered and whatever fails or crashes, a reminder is handed to the  *)
(* email or SMS provider at most once per event.                           *)
AtMostOnceDelivery ==
    \A e \in Events : delivered[e] <= 1

(* The records never overstate the send: a "sent" row, however often the  *)
(* event was redelivered and whatever failed, means the reminder reached   *)
(* the provider; and the notification events written so far repeat the    *)
(* rows' statuses in order (an event never exists without its row).  A     *)
(* "failed" row does not mean the reminder was not delivered: the provider *)
(* call can err after delivering.                                          *)
RecordsTruthful ==
    \A e \in Events :
        /\ Contains(rows[e], "sent") => delivered[e] > 0
        /\ IsPrefix(events[e], rows[e])

(* The handler runs to its end: every reminder put on the topic is         *)
(* eventually reported by a notification event, unless an error or crash   *)
(* abandoned one of its deliveries.                                        *)
EveryReminderReported ==
    \A e \in Events : Contains(topic, e) ~> (events[e] # <<>> \/ e \in dropped)
=============================================================================
