------------------------------- MODULE Booking -------------------------------
(***************************************************************************)
(* booking-service's appointment handlers over one business and one staff *)
(* member, and the entitlement cache the monthly limit reads.              *)
(*                                                                         *)
(*   Create    POST /public/book without an Idempotency-Key (the key path  *)
(*             is the IdempotencyKey module): Begin; availability check;   *)
(*             monthly limit (entitlements row, COUNT of booked rows);     *)
(*             INSERT appointment; outbox booked event; Commit.            *)
(*   Cancel    POST /appointments/cancel: Begin; SELECT ... FOR UPDATE;    *)
(*             replay, 409 or UPDATE + outbox cancelled event; Commit.     *)
(*   Slots     GET /public/slots: windows, booked intervals and            *)
(*             availability.AvailableSlots, a pure function of the state.  *)
(*                                                                         *)
(* Time is counted in 15-minute units, all in one month.  Every create     *)
(* request names its appointment, so appointment ids are the requests.     *)
(* The appointments table's overlap constraint (SQLSTATE 23P01, the only   *)
(* conflict Create maps to 409) is taken as an exclusion over booked rows  *)
(* of one staff member: an INSERT waits for an uncommitted overlapping     *)
(* insert and fails if an overlapping booked row is committed.             *)
(***************************************************************************)
EXTENDS Integers, FiniteSets, Sequences, SequencesExt, Availability

CONSTANTS
    Reqs,           \* create requests; the appointment of r has id r
    Cancels,        \* cancel requests
    Intervals,      \* intervals a create may ask for: [s |-> .., e |-> ..]
    Hours,          \* the staff_working_hours row of the day's weekday
    Weekday,        \* the day's weekday, 0 (Sunday) to 6
    TimeOff,        \* the staff member's staff_time_off rows (a sequence)
    ConfigDuration, \* cfg.DurationMinutes, in units (<= 0: unset)
    ConfigStep,     \* cfg.SlotStepMinutes, in units (<= 0: unset)
    Nows,           \* clock readings Slots may run at
    SlotsFetchOutcomes, \* Slots' GetAvailabilityConfig, as AvailabilityOutcomes
    QueryWindow,    \* the fallback workday_start..workday_end (09:00-17:00)
    AvailabilityOutcomes, \* Create's GetAvailabilityConfig: "ok", "err" (the
                          \* gRPC call fails), "hoursErr" (its working-hours
                          \* read fails), "timeOffErr" (its ListTimeOff fails)
    MayFail,        \* whether a statement or Commit may fail
    Tiers,          \* paid tiers billing activates
    MaxBillingEvents, \* bound on billing's entitlement changes
    ConsumeCanceled,  \* KAFKA_CONSUME_TOPIC_2 names the canceled topic
    None

VARIABLES
    appt,       \* appt[a]: "none", "pending" (inserted, uncommitted), "booked", "cancelled"
    want,       \* want[r]: the interval create request r asks for
    cpc,        \* create handler: "idle", "insert", "commit", "done"
    cresp,      \* create response code (0 before it answers)
    kpc,        \* cancel handler: "idle", "locked", "done"
    target,     \* target[c]: the appointment cancel c names
    seen,       \* seen[c]: the status its SELECT ... FOR UPDATE returned
    lock,       \* lock[a]: the cancel holding appointment a's row lock, or None
    kresp,      \* cancel response code
    events,     \* events[a]: outbox event kinds written for appointment a, in order
    granted,    \* billing's subscription row for the business: "none", a tier, or "free" (canceled)
    topicA,     \* billing.subscription.activated.v1: limits carried, in order
    topicC,     \* billing.subscription.canceled.v1
    offA, offC, \* how far booking's two consumers have read
    cache,      \* business_entitlements.max_monthly_appointments, or None
    bev         \* entitlement changes billing has made

avars == <<appt, want, cpc, cresp, kpc, target, seen, lock, kresp, events>>
evars == <<granted, topicA, topicC, offA, offC, cache, bev>>
vars == <<avars, evars>>

Status == {"none", "pending", "booked", "cancelled"}

-----------------------------------------------------------------------------
(* availability.AvailableSlots and overlapsAny.                            *)

\* Mutant: closed intervals, so touching bookings count as overlapping.
OverlapsAnyClosed(s, e, busy) == \E b \in busy : s <= b.e /\ b.s <= e

\* Half-open [s1,e1) and [s2,e2) overlap iff s1 < e2 and s2 < e1.
OverlapsAny(s, e, busy) == \E b \in busy : s < b.e /\ b.s < e

RECURSIVE SlotsFrom(_, _, _, _, _, _)
\* Mutant: the loop runs while t is before windowEnd, not t+duration.
SlotsFromPastEnd(t, we, d, step, busy, now) ==
    IF t >= we THEN <<>>
    ELSE (IF t < now \/ OverlapsAny(t, t + d, busy) THEN <<>> ELSE <<t>>)
         \o SlotsFrom(t + step, we, d, step, busy, now)

\* The loop from t: while t+duration <= windowEnd, keep t unless it is past
\* or overlaps a busy interval, then step.
SlotsFrom(t, we, d, step, busy, now) ==
    IF t + d > we THEN <<>>
    ELSE (IF t < now \/ OverlapsAny(t, t + d, busy) THEN <<>> ELSE <<t>>)
         \o SlotsFrom(t + step, we, d, step, busy, now)

AvailableSlots(ws, we, d, step, busy, now) ==
    IF d <= 0 \/ step <= 0 \/ we <= ws \/ ws + d > we THEN <<>>
    ELSE SlotsFrom(ws, we, d, step, busy, now)

(* Slots: resolveAvailabilityWindows (defaults 30 and 15 minutes, windows  *)
(* with end after start), minMaxWindows, ListBookedIntervals (booked rows  *)
(* of the staff member within [minStart, maxEnd)), and the slots of every  *)
(* window in order.                                                        *)
(* The windows booking-service resolves from business-service's          *)
(* GetAvailabilityConfig over the day's working hours and time off, for    *)
(* each outcome of the two reads it makes.                                 *)
ConfigOutcomes == {"ok", "hoursErr", "timeOffErr"}

WindowsBy ==
    [out \in ConfigOutcomes |->
        ToSet(ResolveAvailabilityWindows(
            GetAvailabilityConfig(ReadWorkingHours(Hours, Weekday, out # "hoursErr"),
                                  TimeOff, out # "timeOffErr")))]

Windows == WindowsBy["ok"]

SlotDuration == IF ConfigDuration <= 0 THEN 2 ELSE ConfigDuration
SlotStep == IF ConfigStep <= 0 THEN 1 ELSE ConfigStep
Resolved(out) == {w \in WindowsBy[out] : w.e > w.s}

Booked == {a \in Reqs : appt[a] = "booked"}

ListBookedIntervals(lo, hi) ==
    {want[a] : a \in {b \in Booked : want[b].s < hi /\ want[b].e > lo}}

(* The windows Slots works from: business-service's, or, when the config   *)
(* fetch fails, the query-parameter fallback with its default workday and  *)
(* the default 30 and 15 minutes, which knows nothing of the time off.     *)
SlotWindows(out) == IF out = "err" THEN {QueryWindow} ELSE Resolved(out)
SlotLength(out) == IF out = "err" THEN 2 ELSE SlotDuration
SlotGrid(out) == IF out = "err" THEN 1 ELSE SlotStep

OfferedSlots(now, out) ==
    IF SlotWindows(out) = {} THEN {}
    ELSE LET lo == Min({w.s : w \in SlotWindows(out)})
             hi == Max({w.e : w \in SlotWindows(out)})
             busy == ListBookedIntervals(lo, hi)
         IN UNION {ToSet(AvailableSlots(w.s, w.e, SlotLength(out), SlotGrid(out),
                                        busy, now))
                   : w \in SlotWindows(out)}

(* validateBookingWithinAvailability: some window contains [s, e).          *)
WithinAvailability(iv, out) ==
    \E w \in WindowsBy[out] : w.e > w.s /\ w.s <= iv.s /\ iv.e <= w.e
(* enforceMonthlyAppointmentLimit: max is the cached row's limit when it   *)
(* is positive, else the free tier's 200.                                  *)
EnforcedMax == IF cache = None THEN 200 ELSE cache

\* CountBookedByBusinessInRange: committed booked rows of the month.
BookedCount == Cardinality(Booked)

Overlap(i, j) == i.s < j.e /\ j.s < i.e

Respond(r, code) ==
    /\ cpc' = [cpc EXCEPT ![r] = "done"]
    /\ cresp' = [cresp EXCEPT ![r] = code]

-----------------------------------------------------------------------------
(* Create up to the INSERT: availability (503 when every config fetch      *)
(* fails, 422 when no window contains the interval), then the monthly      *)
(* limit from the entitlements row and the COUNT, both read now under      *)
(* READ COMMITTED (402 at the limit).  Nothing is written before INSERT.   *)
CreateCheck(r) ==
    /\ cpc[r] = "idle"
    /\ \E out \in AvailabilityOutcomes :
          CASE out = "err"                    -> Respond(r, 503)
            [] ~WithinAvailability(want[r], out) -> Respond(r, 422)
            [] BookedCount >= EnforcedMax     -> Respond(r, 402)
            [] OTHER -> cpc' = [cpc EXCEPT ![r] = "insert"] /\ UNCHANGED cresp
    /\ UNCHANGED <<appt, want, kpc, target, seen, lock, kresp, events, evars>>

(* INSERT INTO appointments: it waits while an uncommitted insert overlaps *)
(* it, and fails with 23P01 (409) when a booked row overlaps it.           *)
CreateInsert(r) ==
    /\ cpc[r] = "insert"
    /\ ~\E o \in Reqs \ {r} : appt[o] = "pending" /\ Overlap(want[o], want[r])
    /\ IF \E o \in Booked : Overlap(want[o], want[r])
       THEN Respond(r, 409) /\ UNCHANGED appt
       ELSE /\ appt' = [appt EXCEPT ![r] = "pending"]
            /\ cpc' = [cpc EXCEPT ![r] = "commit"]
            /\ UNCHANGED cresp
    /\ UNCHANGED <<want, kpc, target, seen, lock, kresp, events, evars>>

(* The outbox booked event, then Commit and 201.                           *)
CreateCommit(r) ==
    /\ cpc[r] = "commit"
    /\ appt' = [appt EXCEPT ![r] = "booked"]
    /\ events' = [events EXCEPT ![r] = Append(@, "booked")]
    /\ Respond(r, 201)
    /\ UNCHANGED <<want, kpc, target, seen, lock, kresp, evars>>

\* Mutant: an error path returns without the deferred Rollback.
CreateFailWithoutRollback(r) ==
    /\ MayFail
    /\ cpc[r] \in {"idle", "insert", "commit"}
    /\ Respond(r, 500)
    /\ UNCHANGED <<appt, want, kpc, target, seen, lock, kresp, events, evars>>

(* Begin, an entitlements or COUNT query, the INSERT, the outbox insert or *)
(* Commit fails: 500, and the deferred Rollback removes the inserted row.  *)
CreateFail(r) ==
    /\ MayFail
    /\ cpc[r] \in {"idle", "insert", "commit"}
    /\ Respond(r, 500)
    /\ appt' = [appt EXCEPT ![r] = IF @ = "pending" THEN "none" ELSE @]
    /\ UNCHANGED <<want, kpc, target, seen, lock, kresp, events, evars>>

-----------------------------------------------------------------------------
KRespond(c, code) ==
    /\ kpc' = [kpc EXCEPT ![c] = "done"]
    /\ kresp' = [kresp EXCEPT ![c] = code]

\* Mutant: GetAppointmentForUpdate without FOR UPDATE.
CancelLockWithoutForUpdate(c) ==
    /\ kpc[c] = "idle"
    /\ LET a == target[c] IN
       IF appt[a] \in {"none", "pending"}
       THEN KRespond(c, 404) /\ UNCHANGED seen
       ELSE /\ seen' = [seen EXCEPT ![c] = appt[a]]
            /\ kpc' = [kpc EXCEPT ![c] = "locked"]
            /\ UNCHANGED kresp
    /\ UNCHANGED <<appt, want, cpc, cresp, target, lock, events, evars>>

(* GetAppointmentForUpdate: a row not committed is not found (404); a      *)
(* committed row is locked, waiting while another cancel holds it, and its *)
(* status read after the wait.                                             *)
CancelLock(c) ==
    /\ kpc[c] = "idle"
    /\ LET a == target[c] IN
       IF appt[a] \in {"none", "pending"}
       THEN KRespond(c, 404) /\ UNCHANGED <<seen, lock>>
       ELSE /\ lock[a] = None
            /\ lock' = [lock EXCEPT ![a] = c]
            /\ seen' = [seen EXCEPT ![c] = appt[a]]
            /\ kpc' = [kpc EXCEPT ![c] = "locked"]
            /\ UNCHANGED kresp
    /\ UNCHANGED <<appt, want, cpc, cresp, target, events, evars>>

Release(c) == lock' = [a \in Reqs |-> IF lock[a] = c THEN None ELSE lock[a]]

\* Mutant: the UPDATE writes billing's spelling 'canceled'.
CancelApplyCanceledSpelling(c) ==
    /\ kpc[c] = "locked"
    /\ LET a == target[c] IN
       CASE seen[c] = "cancelled" -> KRespond(c, 200) /\ UNCHANGED <<appt, events>>
         [] seen[c] # "booked"    -> KRespond(c, 409) /\ UNCHANGED <<appt, events>>
         [] OTHER -> /\ appt' = [appt EXCEPT ![a] = "canceled"]
                     /\ events' = [events EXCEPT ![a] = Append(@, "cancelled")]
                     /\ KRespond(c, 200)
    /\ Release(c)
    /\ UNCHANGED <<want, cpc, cresp, target, seen, evars>>

(* An already cancelled row replays 200; a row not booked is 409; else     *)
(* CancelAppointment, the outbox cancelled event and Commit, then 200.     *)
(* Every return ends the transaction and releases the row lock.            *)
CancelApply(c) ==
    /\ kpc[c] = "locked"
    /\ LET a == target[c] IN
       CASE seen[c] = "cancelled" -> KRespond(c, 200) /\ UNCHANGED <<appt, events>>
         [] seen[c] # "booked"    -> KRespond(c, 409) /\ UNCHANGED <<appt, events>>
         [] OTHER -> /\ appt' = [appt EXCEPT ![a] = "cancelled"]
                     /\ events' = [events EXCEPT ![a] = Append(@, "cancelled")]
                     /\ KRespond(c, 200)
    /\ Release(c)
    /\ UNCHANGED <<want, cpc, cresp, target, seen, evars>>

(* CancelAppointment, the outbox insert or Commit fails: 500, rollback.    *)
CancelFail(c) ==
    /\ MayFail
    /\ kpc[c] = "locked"
    /\ KRespond(c, 500)
    /\ Release(c)
    /\ UNCHANGED <<appt, want, cpc, cresp, target, seen, events, evars>>
-----------------------------------------------------------------------------
(* The entitlements billing-service emits (subscriptions.Service) and      *)
(* booking-service's consumers of them.                                    *)

\* entitlements.LimitsForTier(t).MaxMonthlyAppointments
LimitOf(t) == CASE t = "starter" -> 1 [] t = "pro" -> 2000 [] OTHER -> 200

(* ApplyActivated: the row becomes active at tier t; the activated event,  *)
(* carrying LimitsForTier(t), is written unless the row was already active *)
(* at t.                                                                   *)
BillingActivated(t) ==
    /\ bev < MaxBillingEvents
    /\ granted # t
    /\ granted' = t
    /\ topicA' = Append(topicA, LimitOf(t))
    /\ bev' = bev + 1
    /\ UNCHANGED <<topicC, offA, offC, cache, avars>>

(* ApplyCanceled: the row becomes canceled at "free"; the canceled event,  *)
(* carrying the free limits, is written unless it already was.             *)
BillingCanceled ==
    /\ bev < MaxBillingEvents
    /\ granted # "free"
    /\ granted' = "free"
    /\ topicC' = Append(topicC, LimitOf("free"))
    /\ bev' = bev + 1
    /\ UNCHANGED <<topicA, offA, offC, cache, avars>>

(* The consumers' handler: a payload without a positive limit is skipped;  *)
(* else UpsertBusinessEntitlements overwrites the row.                     *)
Upsert(max) == cache' = IF max > 0 THEN max ELSE cache

ConsumeActivated ==
    /\ offA < Len(topicA)
    /\ Upsert(topicA[offA + 1])
    /\ offA' = offA + 1
    /\ UNCHANGED <<granted, topicA, topicC, offC, bev, avars>>

\* Started only when KAFKA_CONSUME_TOPIC_2 is set.
ConsumeCanceledTopic ==
    /\ ConsumeCanceled
    /\ offC < Len(topicC)
    /\ Upsert(topicC[offC + 1])
    /\ offC' = offC + 1
    /\ UNCHANGED <<granted, topicA, topicC, offA, bev, avars>>

-----------------------------------------------------------------------------
Init ==
    /\ appt = [a \in Reqs |-> "none"]
    /\ want \in [Reqs -> Intervals]
    /\ cpc = [r \in Reqs |-> "idle"]
    /\ cresp = [r \in Reqs |-> 0]
    /\ kpc = [c \in Cancels |-> "idle"]
    /\ target \in [Cancels -> Reqs]
    /\ seen = [c \in Cancels |-> "none"]
    /\ lock = [a \in Reqs |-> None]
    /\ kresp = [c \in Cancels |-> 0]
    /\ events = [a \in Reqs |-> <<>>]
    /\ granted = "none"
    /\ topicA = <<>> /\ topicC = <<>>
    /\ offA = 0 /\ offC = 0
    /\ cache = None
    /\ bev = 0

Next ==
    \/ \E r \in Reqs :
          CreateCheck(r) \/ CreateInsert(r) \/ CreateCommit(r) \/ CreateFail(r)
    \/ \E c \in Cancels : CancelLock(c) \/ CancelApply(c) \/ CancelFail(c)
    \/ \E t \in Tiers : BillingActivated(t)
    \/ BillingCanceled
    \/ ConsumeActivated
    \/ ConsumeCanceledTopic

(* Every request reaches its handler and the handler runs on (a waiting    *)
(* statement resumes once the lock it waits on is released); the           *)
(* consumers' loops keep reading.                                          *)
Fairness ==
    /\ \A r \in Reqs : WF_vars(CreateCheck(r)) /\ WF_vars(CreateInsert(r))
                       /\ WF_vars(CreateCommit(r))
    /\ \A c \in Cancels : WF_vars(CancelLock(c)) /\ WF_vars(CancelApply(c))
    /\ WF_vars(ConsumeActivated) /\ WF_vars(ConsumeCanceledTopic)

Spec == Init /\ [][Next]_vars /\ Fairness
-----------------------------------------------------------------------------
BookingTypeOK ==
    /\ appt \in [Reqs -> Status]
    /\ want \in [Reqs -> Intervals]
    /\ cpc \in [Reqs -> {"idle", "insert", "commit", "done"}]
    /\ cresp \in [Reqs -> {0, 201, 402, 409, 422, 500, 503}]
    /\ kpc \in [Cancels -> {"idle", "locked", "done"}]
    /\ target \in [Cancels -> Reqs]
    /\ seen \in [Cancels -> Status]
    /\ lock \in [Reqs -> Cancels \cup {None}]
    /\ kresp \in [Cancels -> {0, 200, 404, 409, 500}]
    /\ events \in [Reqs -> Seq({"booked", "cancelled"})]
    /\ granted \in Tiers \cup {"none", "free"}
    /\ cache \in {None} \cup {LimitOf(t) : t \in Tiers \cup {"free"}}

(* The outbox tells the appointment's story exactly: a committed booking   *)
(* has one booked event, a cancelled one a booked and then one cancelled   *)
(* event, however cancels of it race; and a cancel that answered 200 left  *)
(* its appointment cancelled.                                              *)
CancelEventExactlyOnce ==
    /\ \A a \in Reqs :
          events[a] = CASE appt[a] = "booked"    -> <<"booked">>
                        [] appt[a] = "cancelled" -> <<"booked", "cancelled">>
                        [] OTHER                 -> <<>>
    /\ \A c \in Cancels : kresp[c] = 200 => appt[target[c]] = "cancelled"

(* Every slot GET /public/slots offers from a config business-service     *)
(* answered, at any clock reading, would pass Create's availability check  *)
(* on the same config and overlap no booked appointment: Slots and Create  *)
(* agree on what is free.  (The query-parameter fallback of a failed fetch *)
(* is TimeOffNeverOffered's concern.)                                      *)
OfferedSlotsBookable ==
    \A out \in SlotsFetchOutcomes \ {"err"}, now \in Nows :
      \A t \in OfferedSlots(now, out) :
        LET iv == [s |-> t, e |-> t + SlotDuration]
        IN  /\ WithinAvailability(iv, out)
            /\ ~\E a \in Booked : Overlap(iv, want[a])

(* availability.AvailableSlots, by its doc comment: the slot starts on the *)
(* step grid from windowStart, not in the past, whose booking of length    *)
(* duration ends by windowEnd and meets no busy interval, in increasing    *)
(* order; nothing for a non-positive duration or step.  Checked for every  *)
(* window and clock reading, durations and steps 0..3, and the booked      *)
(* intervals of each reachable state as the busy list.                     *)
RefSlots(ws, we, d, step, busy, now) ==
    IF d > 0 /\ step > 0
    THEN {t \in ws..we : /\ (t - ws) % step = 0
                         /\ now <= t /\ t + d <= we
                         /\ \A b \in busy : t + d <= b.s \/ b.e <= t}
    ELSE {}

AvailableSlotsMatchReference ==
    LET busy == {want[a] : a \in Booked} IN
    \A w \in Windows, d \in 0..3, step \in 0..3, now \in Nows :
        LET q == AvailableSlots(w.s, w.e, d, step, busy, now)
        IN  /\ ToSet(q) = RefSlots(w.s, w.e, d, step, busy, now)
            /\ \A i \in 1..Len(q) - 1 : q[i] < q[i + 1]

(* Every create and cancel request is answered: no INSERT waits forever on *)
(* an overlapping insert and no cancel on a row lock, whatever fails.      *)
EveryBookingRequestAnswered ==
    <>(\A r \in Reqs : cpc[r] = "done") /\ <>(\A c \in Cancels : kpc[c] = "done")

(* The monthly cap: a booking never commits past the limit enforced when  *)
(* it commits (enforceMonthlyAppointmentLimit's "cap monthly booked        *)
(* appointments per business").                                           *)
BookedWithinLimit ==
    [][\A r \in Reqs : appt[r] # "booked" /\ appt'[r] = "booked"
                       => BookedCount' <= EnforcedMax']_vars

(* Booking enforces the limit billing grants: once billing stops changing  *)
(* the subscription, booking's cached limit comes to equal the limit of    *)
(* billing's tier and stays so.                                            *)
EntitlementConverges == <>[](EnforcedMax = LimitOf(granted))

(* Booking honours the plan billing grants: no booking commits past the    *)
(* limit enforced when it commits, and the enforced limit comes to equal   *)
(* the limit of billing's tier.  Both halves are what the monthly limit of *)
(* enforceMonthlyAppointmentLimit and the entitlement consumers promise    *)
(* together.                                                               *)
PlanLimitHonoured == BookedWithinLimit /\ EntitlementConverges

(* Time off is unavailable ("time off blocks availability",               *)
(* validateBookingWithinAvailability): no step commits a booking that      *)
(* overlaps a time-off row of its staff member.  The windows Create checks *)
(* and Slots offers are those business-service computes from the working   *)
(* hours and the time off (Availability), as booking-service resolves them.*)
TimeOffNeverBooked ==
    [][\A r \in Reqs : appt[r] # "booked" /\ appt'[r] = "booked"
                     => \A i \in 1..Len(TimeOff) : ~Overlap(want'[r], TimeOff[i])]_vars

(* Time off blocks availability for Slots too: after no step does         *)
(* GET /public/slots offer a slot overlapping a time-off row, whether      *)
(* business-service answered its config fetch or not.                      *)
TimeOffNeverOffered ==
    [][\A now \in Nows, out \in SlotsFetchOutcomes :
          \A t \in OfferedSlots(now, out)' :
             \A i \in 1..Len(TimeOff) :
                ~Overlap([s |-> t, e |-> t + SlotLength(out)], TimeOff[i])]_vars

====
