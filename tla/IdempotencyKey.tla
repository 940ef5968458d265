---------------------------- MODULE IdempotencyKey ----------------------------
(***************************************************************************)
(* booking-service POST /bookings with an Idempotency-Key header:          *)
(* BookingHandler.Create and the key store it calls,                       *)
(* BookingRepository.LockIdempotencyKey / FinalizeIdempotency.             *)
(*                                                                         *)
(* All requests carry the same (business_id, key) and the same slot: they  *)
(* are one client call, sent again by retries or by impatient clients.     *)
(* Each request runs in its own transaction.  The model keeps Postgres'    *)
(* READ COMMITTED behaviour of the three statements that make this work:   *)
(*   SELECT ... FOR UPDATE   sees only committed rows; it locks the row,   *)
(*                           waiting for a transaction that holds it, and  *)
(*                           takes no lock when there is no row;           *)
(*   INSERT ... ON CONFLICT  waits for a transaction that inserted the key *)
(*     DO NOTHING            and has not ended, then inserts or not;       *)
(*   appointments exclusion  an overlapping booking waits for an           *)
(*     constraint (23P01)    uncommitted one, and fails on a committed one.*)
(***************************************************************************)
EXTENDS Naturals

CONSTANTS
    Requests,              \* concurrent requests with the same key and slot
    AvailabilityOutcomes,  \* validateBookingWithinAvailability: "ok",
                           \*   "outside" (false, nil), "unavailable" (err)
    EntitlementOutcomes,   \* enforceMonthlyAppointmentLimit: "ok",
                           \*   "limit" (errPaymentRequired), "error"
    ReminderOutcomes,      \* enqueueReminder: "ok", "skip" (no recipient
                           \*   or remind_at passed), "err" (insert error)
    MayFail,               \* whether a statement or the commit may fail
    None                   \* no appointment id / no row / no response

ASSUME AvailabilityOutcomes \subseteq {"ok", "outside", "unavailable"}
ASSUME EntitlementOutcomes \subseteq {"ok", "limit", "error"}
ASSUME ReminderOutcomes \subseteq {"ok", "skip", "err"}
ASSUME MayFail \in BOOLEAN /\ None \notin Requests

\* A key row: the appointment id and status code written by
\* FinalizeIdempotency (None and 0 while only reserved).  The response body
\* is a function of the two, so it is not kept apart.
Rec == [appt : Requests \cup {None}, code : {0, 201, 402, 422}]
Reserved == [appt |-> None, code |-> 0]

\* Outbox events of an appointment: booking.appointment.booked.v1 and
\* booking.reminder.requested.v1.
OutboxEvent == Requests \X {"booked", "reminder"}

\* An answer; 200 with no appointment is the empty 200 net/http sends for a
\* handler that returns without writing.
Response == [code : {200, 201, 402, 409, 422, 500, 503}, appt : Requests \cup {None}]

VARIABLES
    row,      \* the committed booking_idempotency_keys row, or None
    appts,    \* committed appointments (named by the request that made one)
    pc,       \* pc[r]: where request r is in Create
    lock,     \* the request holding the key row's lock, or None
    ins,      \* ins[r]: r's transaction inserted the key row, uncommitted
    rec,      \* rec[r]: the row LockIdempotencyKey returned to r
    exists,   \* exists[r]: the `exists` result of LockIdempotencyKey
    booked,   \* booked[r]: r's transaction inserted the appointment
    snap,     \* history: the committed row when r first selected it
    resp,     \* resp[r]: the response r's client received, or None
    pend,     \* pend[r]: outbox events inserted by r's open transaction
    aborted,  \* aborted[r]: a statement of r's transaction failed in the
              \* server, which then rejects every later statement
    due,      \* history: due[r] when r's appointment has a reminder due
    outbox    \* committed outbox events

vars == <<row, appts, pc, lock, ins, rec, exists, booked, snap, resp, pend,
          aborted, due, outbox>>

Finalized(x) == x # None /\ x.code > 0

\* The replay test of Create.
Replays(r) == exists[r] /\ rec[r].appt # None /\ rec[r].code > 0

\* r's transaction ends: its pending inserts and its aborted state go.
EndTx(r) ==
    /\ pend' = [pend EXCEPT ![r] = {}]
    /\ aborted' = [aborted EXCEPT ![r] = FALSE]

\* Mutant: the deferred rollback does not release the key row's lock.
RollbackKeepsLock(r, response) ==
    /\ resp' = [resp EXCEPT ![r] = response]
    /\ pc' = [pc EXCEPT ![r] = "done"]
    /\ ins' = [ins EXCEPT ![r] = FALSE]
    /\ booked' = [booked EXCEPT ![r] = FALSE]
    /\ EndTx(r)
    /\ UNCHANGED <<row, appts, lock, outbox>>

\* Mutant: an error path commits instead of rolling back, keeping the
\* reserved key row it inserted.
RollbackCommitsKey(r, response) ==
    /\ resp' = [resp EXCEPT ![r] = response]
    /\ pc' = [pc EXCEPT ![r] = "done"]
    /\ lock' = IF lock = r THEN None ELSE lock
    /\ row' = IF ins[r] THEN Reserved ELSE row
    /\ ins' = [ins EXCEPT ![r] = FALSE]
    /\ booked' = [booked EXCEPT ![r] = FALSE]
    /\ EndTx(r)
    /\ UNCHANGED <<appts, outbox>>

\* Ending r's transaction without COMMIT: the deferred tx.Rollback.
Rollback(r, response) ==
    /\ resp' = [resp EXCEPT ![r] = response]
    /\ pc' = [pc EXCEPT ![r] = "done"]
    /\ lock' = IF lock = r THEN None ELSE lock
    /\ ins' = [ins EXCEPT ![r] = FALSE]
    /\ booked' = [booked EXCEPT ![r] = FALSE]
    /\ EndTx(r)
    /\ UNCHANGED <<row, appts, outbox>>

\* FinalizeIdempotency(appt, code) then tx.Commit; the client gets answer.
FinalizeAndCommit(r, appt, code, answer) ==
    /\ row' = [appt |-> appt, code |-> code]
    /\ appts' = IF booked[r] THEN appts \cup {r} ELSE appts
    /\ resp' = [resp EXCEPT ![r] = answer]
    /\ pc' = [pc EXCEPT ![r] = "done"]
    /\ lock' = None
    /\ ins' = [ins EXCEPT ![r] = FALSE]
    /\ booked' = [booked EXCEPT ![r] = FALSE]
    /\ outbox' = outbox \cup pend[r]
    /\ EndTx(r)

(* finalizeIdempotencyError and what Create does with its result: when     *)
(* FinalizeIdempotency succeeds, `_ = tx.Commit` and return without a      *)
(* response written, an empty 200 whether or not the commit succeeds; when *)
(* it fails, the deferred rollback and http.Error with code.               *)
FinalizeError(r, code) ==
    \/ FinalizeAndCommit(r, None, code, [code |-> 200, appt |-> None])
    \/ MayFail /\ Rollback(r, [code |-> 200, appt |-> None])
    \/ MayFail /\ Rollback(r, [code |-> code, appt |-> None])

-----------------------------------------------------------------------------
\* Mutant: the committed row is returned with exists = false.
SelectKeyNoExists(r) ==
    /\ pc[r] = "select"
    /\ snap' = [snap EXCEPT ![r] = row]
    /\ IF row # None
       THEN /\ lock = None
            /\ lock' = r
            /\ rec' = [rec EXCEPT ![r] = row]
            /\ exists' = [exists EXCEPT ![r] = FALSE]
            /\ pc' = [pc EXCEPT ![r] = "decide"]
       ELSE /\ pc' = [pc EXCEPT ![r] = "insert"]
            /\ UNCHANGED <<lock, rec, exists>>
    /\ UNCHANGED <<row, appts, ins, booked, resp,
                   pend, aborted, due, outbox>>

(* LockIdempotencyKey, first selectIdempotencyForUpdate.  A committed row  *)
(* is locked (waiting while another request holds it) and returned with   *)
(* exists = true; with no committed row the select gets ErrNoRows.         *)
SelectKey(r) ==
    /\ pc[r] = "select"
    /\ snap' = [snap EXCEPT ![r] = row]
    /\ IF row # None
       THEN /\ lock = None
            /\ lock' = r
            /\ rec' = [rec EXCEPT ![r] = row]
            /\ exists' = [exists EXCEPT ![r] = TRUE]
            /\ pc' = [pc EXCEPT ![r] = "decide"]
       ELSE /\ pc' = [pc EXCEPT ![r] = "insert"]
            /\ UNCHANGED <<lock, rec, exists>>
    /\ UNCHANGED <<row, appts, ins, booked, resp,
                   pend, aborted, due, outbox>>

(* INSERT ... ON CONFLICT DO NOTHING: waits while another transaction has *)
(* inserted the key and not ended; inserts only if no row is committed.    *)
InsertKey(r) ==
    /\ pc[r] = "insert"
    /\ \A o \in Requests : ~ins[o]
    /\ IF row = None
       THEN /\ ins' = [ins EXCEPT ![r] = TRUE]
            /\ lock' = r
       ELSE UNCHANGED <<ins, lock>>
    /\ pc' = [pc EXCEPT ![r] = "reselect"]
    /\ UNCHANGED <<row, appts, rec, exists, booked, snap, resp,
                   pend, aborted, due, outbox>>

(* The second selectIdempotencyForUpdate: locks the row (its own insert,   *)
(* or the row another request committed meanwhile) and returns it with     *)
(* exists = false.                                                         *)
ReselectKey(r) ==
    /\ pc[r] = "reselect"
    /\ lock \in {None, r}
    /\ lock' = r
    /\ rec' = [rec EXCEPT ![r] = IF ins[r] THEN Reserved ELSE row]
    /\ exists' = [exists EXCEPT ![r] = FALSE]
    /\ pc' = [pc EXCEPT ![r] = "decide"]
    /\ UNCHANGED <<row, appts, ins, booked, snap, resp,
                   pend, aborted, due, outbox>>

(* exists && AppointmentID != "" && StatusCode > 0: replay the row.        *)
Decide(r) ==
    /\ pc[r] = "decide"
    /\ IF Replays(r)
       THEN Rollback(r, [code |-> rec[r].code, appt |-> rec[r].appt])
       ELSE /\ pc' = [pc EXCEPT ![r] = "availability"]
            /\ UNCHANGED <<row, appts, lock, ins, booked, resp, pend, aborted,
                                 outbox>>
    /\ UNCHANGED <<rec, exists, snap, due>>

(* validateBookingWithinAvailability: a dependency error answers 503 and   *)
(* leaves the key unfinalized; outside availability finalizes 422.         *)
CheckAvailability(r) ==
    /\ pc[r] = "availability"
    /\ \E out \in AvailabilityOutcomes :
          CASE out = "unavailable" -> Rollback(r, [code |-> 503, appt |-> None])
            [] out = "outside"     -> FinalizeError(r, 422)
            [] out = "ok"          ->
                  /\ pc' = [pc EXCEPT ![r] = "entitlements"]
                  /\ UNCHANGED <<row, appts, lock, ins, booked, resp, pend, aborted,
                                 outbox>>
    /\ UNCHANGED <<rec, exists, snap, due>>

\* Mutant: an entitlements dependency error is finalized as a 500.
CheckEntitlementsFinalizesError(r) ==
    /\ pc[r] = "entitlements"
    /\ \E out \in EntitlementOutcomes :
          CASE out = "limit" -> FinalizeError(r, 402)
            [] out = "error" -> FinalizeError(r, 500)
            [] out = "ok"    ->
                  /\ pc' = [pc EXCEPT ![r] = "create"]
                  /\ UNCHANGED <<row, appts, lock, ins, booked, resp, pend, aborted,
                                 outbox>>
    /\ UNCHANGED <<rec, exists, snap, due>>

(* enforceMonthlyAppointmentLimit: the limit finalizes 402; any other      *)
(* error answers 500 unfinalized.                                          *)
CheckEntitlements(r) ==
    /\ pc[r] = "entitlements"
    /\ \E out \in EntitlementOutcomes :
          CASE out = "limit" -> FinalizeError(r, 402)
            [] out = "error" -> Rollback(r, [code |-> 500, appt |-> None])
            [] out = "ok"    ->
                  /\ pc' = [pc EXCEPT ![r] = "create"]
                  /\ UNCHANGED <<row, appts, lock, ins, booked, resp, pend, aborted,
                                 outbox>>
    /\ UNCHANGED <<rec, exists, snap, due>>

(* repo.Create: waits while another transaction holds an uncommitted      *)
(* booking of the slot; a committed one is an exclusion conflict, 409.     *)
CreateAppointment(r) ==
    /\ pc[r] = "create"
    /\ \A o \in Requests : ~booked[o]
    /\ IF appts # {}
       THEN Rollback(r, [code |-> 409, appt |-> None])
       ELSE /\ booked' = [booked EXCEPT ![r] = TRUE]
            /\ pc' = [pc EXCEPT ![r] = "events"]
            /\ UNCHANGED <<row, appts, lock, ins, resp, pend, aborted, outbox>>
    /\ UNCHANGED <<rec, exists, snap, due>>

\* Mutant: enqueueReminder runs its insert under a savepoint, so an insert
\* error leaves the transaction usable.
EnqueueReminderSavepoint(r, out, evs) ==
    /\ pend' = [pend EXCEPT ![r] = IF out = "ok" THEN evs \cup {<<r, "reminder">>}
                                                ELSE evs]
    /\ UNCHANGED aborted

(* enqueueReminder after the outbox inserts evs of r's transaction: the    *)
(* reminder's outbox Insert, whose error is only logged, although the      *)
(* failed statement has aborted the transaction.                           *)
EnqueueReminder(r, out, evs) ==
    /\ pend' = [pend EXCEPT ![r] = IF out = "ok" THEN evs \cup {<<r, "reminder">>}
                                                ELSE evs]
    /\ aborted' = [aborted EXCEPT ![r] = out = "err"]

(* The booked event's outbox Insert (its error is a Fail), then the        *)
(* reminder of the appointment, if one is due.                             *)
WriteEvents(r) ==
    /\ pc[r] = "events"
    /\ \E out \in ReminderOutcomes :
          /\ EnqueueReminder(r, out, {<<r, "booked">>})
          /\ due' = [due EXCEPT ![r] = out # "skip"]
    /\ pc' = [pc EXCEPT ![r] = "commit"]
    /\ UNCHANGED <<row, appts, lock, ins, rec, exists, booked, snap, resp,
                   outbox>>

(* FinalizeIdempotency (id, 201, body), Commit, 201; in an aborted         *)
(* transaction FinalizeIdempotency fails: 500.                             *)
CommitBooking(r) ==
    /\ pc[r] = "commit"
    /\ IF aborted[r] THEN Rollback(r, [code |-> 500, appt |-> None])
                     ELSE FinalizeAndCommit(r, r, 201, [code |-> 201, appt |-> r])
    /\ UNCHANGED <<rec, exists, snap, due>>

(* A statement of the open transaction (LockIdempotencyKey, Create, the    *)
(* outbox Insert, a finalize, the Commit) fails: 500, nothing committed.   *)
Fail(r) ==
    /\ MayFail
    /\ pc[r] \in {"select", "insert", "reselect", "create", "events",
                  "commit"}
    /\ Rollback(r, [code |-> 500, appt |-> None])
    /\ UNCHANGED <<rec, exists, snap, due>>

-----------------------------------------------------------------------------
Init ==
    /\ row = None
    /\ appts = {}
    /\ pc = [r \in Requests |-> "select"]
    /\ lock = None
    /\ ins = [r \in Requests |-> FALSE]
    /\ rec = [r \in Requests |-> Reserved]
    /\ exists = [r \in Requests |-> FALSE]
    /\ booked = [r \in Requests |-> FALSE]
    /\ snap = [r \in Requests |-> None]
    /\ resp = [r \in Requests |-> None]
    /\ pend = [r \in Requests |-> {}]
    /\ aborted = [r \in Requests |-> FALSE]
    /\ due = [r \in Requests |-> FALSE]
    /\ outbox = {}

Next ==
    \E r \in Requests :
        \/ SelectKey(r)
        \/ InsertKey(r)
        \/ ReselectKey(r)
        \/ Decide(r)
        \/ CheckAvailability(r)
        \/ CheckEntitlements(r)
        \/ CreateAppointment(r)
        \/ WriteEvents(r)
        \/ CommitBooking(r)
        \/ Fail(r)

\* Every step of r but a failure.
Step(r) ==
    \/ SelectKey(r) \/ InsertKey(r) \/ ReselectKey(r) \/ Decide(r)
    \/ CheckAvailability(r) \/ CheckEntitlements(r)
    \/ CreateAppointment(r) \/ WriteEvents(r) \/ CommitBooking(r)

(* A request's goroutine runs until it answers, and a Postgres lock wait   *)
(* ends when the holder's transaction ends.                                *)
Fairness == \A r \in Requests : WF_vars(Step(r))

Spec == Init /\ [][Next]_vars /\ Fairness

-----------------------------------------------------------------------------
TypeOK ==
    /\ row \in Rec \cup {None}
    /\ appts \subseteq Requests
    /\ pc \in [Requests -> {"select", "insert", "reselect", "decide",
                            "availability", "entitlements", "create",
                            "events", "commit", "done"}]
    /\ lock \in Requests \cup {None}
    /\ ins \in [Requests -> BOOLEAN]
    /\ rec \in [Requests -> Rec]
    /\ exists \in [Requests -> BOOLEAN]
    /\ booked \in [Requests -> BOOLEAN]
    /\ snap \in [Requests -> Rec \cup {None}]
    /\ resp \in [Requests -> Response \cup {None}]
    /\ pend \in [Requests -> SUBSET OutboxEvent]
    /\ aborted \in [Requests -> BOOLEAN]
    /\ due \in [Requests -> BOOLEAN]
    /\ outbox \subseteq OutboxEvent

(* Spec 4.3: the key row is finalized in the same transaction as the      *)
(* outcome it records, so whatever fails, no reservation is ever          *)
(* committed unfinalized (which would make every retry re-execute).        *)
NoDanglingReservation ==
    row # None => row.code > 0

(* Spec 6: a request that reads a finalized booking (201 naming the       *)
(* appointment) for its key is answered with exactly that booking, however *)
(* many requests with the key run concurrently or fail.                   *)
FinalizedBookingReplayed ==
    \A r \in Requests :
        (/\ snap[r] # None /\ snap[r].code = 201 /\ resp[r] # None) =>
            resp[r] = [code |-> 201, appt |-> snap[r].appt]

(* Spec 4.3 and 8: two concurrent requests with the same key serialize on *)
(* the key row; the later one observes the outcome the first one          *)
(* finalized, so every final (non-5xx) answer for the key is the same.    *)
SameKeySameAnswer ==
    \A r1, r2 \in Requests :
        (/\ resp[r1] # None /\ resp[r1].code < 500
         /\ resp[r2] # None /\ resp[r2].code < 500) => resp[r1] = resp[r2]

(* No request waits forever on the key row or the slot: every request,    *)
(* concurrent ones included, is eventually answered.                      *)
EveryRequestAnswered ==
    \A r \in Requests : <>(resp[r] # None)

(* Spec 4.1: an outbox event exists if and only if the mutation it        *)
(* describes committed.  A booking commits with its booked event and, when *)
(* a reminder is due, its reminder request; enqueueReminder only logs an   *)
(* insert error, and it is the aborted transaction that keeps a booking    *)
(* without its reminder from committing.                                   *)
EventsCommitWithBooking ==
    \A r \in Requests :
        /\ (<<r, "booked">> \in outbox) <=> (r \in appts)
        /\ (r \in appts /\ due[r]) => <<r, "reminder">> \in outbox
=============================================================================
