------------------------------ MODULE Checkout ------------------------------
(***************************************************************************)
(* billing-service's Stripe checkout sessions (handlers/billing.go,        *)
(* handlers/stripe_webhook.go, storage/repository.go).                     *)
(*                                                                         *)
(*   CheckoutStub     checkoutsession.New with the request's               *)
(*                    Idempotency-Key, then one transaction:               *)
(*                    UpsertCheckoutSession (ON CONFLICT DO UPDATE SET     *)
(*                    status = 'created'), the audit row, Commit.          *)
(*   StripeWebhook    checkout.session.completed: MarkCheckoutSession-     *)
(*                    Completed (and ApplyActivated, see Billing);         *)
(*                    checkout.session.expired: MarkCheckoutSessionExpired *)
(*                    WHERE status <> 'completed'.  A replayed event is    *)
(*                    ignored through provider_events.                     *)
(*   AckCheckoutReturn  the return page: return_seen_at, and 'canceled'    *)
(*                    for a cancel unless the row is 'completed'.          *)
(*                                                                         *)
(* A session is named by the request's key, or by the request when it has *)
(* none: Stripe creates at most one session per key.                       *)
(***************************************************************************)
EXTENDS Naturals

CONSTANTS
    Keys,       \* Idempotency-Key header values
    Reqs,       \* checkout requests
    NoKey,      \* a request without Idempotency-Key
    MayFail     \* whether the Stripe call and the transaction may fail

VARIABLES
    key,        \* key[r]: the Idempotency-Key of request r
    pc,         \* pc[r]: "start", "persist" or "done"
    stripe,     \* stripe[s]: Stripe's session: "none", "open", "complete", "expired"
    sent,       \* webhook events Stripe has sent: <<type, session>>
    recorded,   \* provider_events: the events a committed webhook applied
    row,        \* row[s]: checkout_sessions.status, "absent" without a row
    seen        \* sessions with return_seen_at set

vars == <<key, pc, stripe, sent, recorded, row, seen>>

SessionIds == Keys \cup Reqs

SessionOf(r) == IF key[r] = NoKey THEN r ELSE key[r]

\* The customer can pay or cancel once a checkout answered with the URL.
Answered(s) == row[s] # "absent"

Outcomes == IF MayFail THEN {"ok", "err"} ELSE {"ok"}

-----------------------------------------------------------------------------
(* The statements of storage.Repository on checkout_sessions, as the new   *)
(* value of row.  An UPDATE of a session without a row touches nothing.    *)
UpsertCheckoutSession(s) == [row EXCEPT ![s] = "created"]

MarkCheckoutSessionCompleted(s) ==
    [row EXCEPT ![s] = IF @ = "absent" THEN @ ELSE "completed"]

MarkCheckoutSessionExpired(s) ==
    [row EXCEPT ![s] = IF @ \in {"absent", "completed"} THEN @ ELSE "expired"]

AckReturnNoGuard(s, result) ==
    [row EXCEPT ![s] = IF result = "cancel" THEN "canceled" ELSE @]

RepoAckCheckoutReturn(s, result) ==
    [row EXCEPT ![s] = IF result = "cancel" /\ @ # "completed" THEN "canceled" ELSE @]

(* checkoutsession.New.  Every call embeds a fresh returnToken in its     *)
(* success and cancel URLs, so a request that repeats a key Stripe has     *)
(* already seen sends other parameters and Stripe answers it with an       *)
(* idempotency error: the handler's 502, with no row written.  Only the    *)
(* first call of a key, or a call without a key, opens a session.          *)
CheckoutStripe(r) ==
    /\ pc[r] = "start"
    /\ \E out \in Outcomes :
          IF out = "ok" /\ stripe[SessionOf(r)] = "none"
          THEN /\ stripe' = [stripe EXCEPT ![SessionOf(r)] = "open"]
               /\ pc' = [pc EXCEPT ![r] = "persist"]
          ELSE /\ pc' = [pc EXCEPT ![r] = "done"]
               /\ UNCHANGED stripe
    /\ UNCHANGED <<key, sent, recorded, row, seen>>

(* The transaction of UpsertCheckoutSession (status 'created' on insert    *)
(* and on conflict), the audit row and Commit; any error rolls it back.    *)
CheckoutPersist(r) ==
    /\ pc[r] = "persist"
    /\ pc' = [pc EXCEPT ![r] = "done"]
    /\ \E out \in Outcomes :
          row' = IF out = "ok" THEN UpsertCheckoutSession(SessionOf(r)) ELSE row
    /\ UNCHANGED <<key, stripe, sent, recorded, seen>>

(* The customer pays on Stripe's page, or lets the session expire; Stripe  *)
(* sends the webhook event of the change.                                  *)
StripeComplete(s) ==
    /\ stripe[s] = "open" /\ Answered(s)
    /\ stripe' = [stripe EXCEPT ![s] = "complete"]
    /\ sent' = sent \cup {<<"completed", s>>}
    /\ UNCHANGED <<key, pc, recorded, row, seen>>

StripeExpire(s) ==
    /\ stripe[s] = "open"
    /\ stripe' = [stripe EXCEPT ![s] = "expired"]
    /\ sent' = sent \cup {<<"expired", s>>}
    /\ UNCHANGED <<key, pc, recorded, row, seen>>

(* StripeWebhook's transaction for a checkout event not yet in             *)
(* provider_events, in any order and after any delay (a failed delivery    *)
(* rolls back and Stripe sends it again).  The UPDATEs touch no row when   *)
(* the session has none.                                                   *)
Webhook(e) ==
    /\ e \in sent \ recorded
    /\ recorded' = recorded \cup {e}
    /\ row' = IF e[1] = "completed" THEN MarkCheckoutSessionCompleted(e[2])
              ELSE MarkCheckoutSessionExpired(e[2])
    /\ UNCHANGED <<key, pc, stripe, sent, seen>>

(* AckCheckoutReturn with the session's return token, the one its URLs    *)
(* and its row were built with.                                            *)
AckCheckoutReturn(s, result) ==
    /\ Answered(s)
    /\ seen' = seen \cup {s}
    /\ row' = RepoAckCheckoutReturn(s, result)
    /\ UNCHANGED <<key, pc, stripe, sent, recorded>>

-----------------------------------------------------------------------------
Init ==
    /\ key \in [Reqs -> Keys \cup {NoKey}]
    /\ pc = [r \in Reqs |-> "start"]
    /\ stripe = [s \in SessionIds |-> "none"]
    /\ sent = {}
    /\ recorded = {}
    /\ row = [s \in SessionIds |-> "absent"]
    /\ seen = {}

Next ==
    \/ \E r \in Reqs : CheckoutStripe(r) \/ CheckoutPersist(r)
    \/ \E s \in SessionIds :
          \/ StripeComplete(s) \/ StripeExpire(s)
          \/ \E result \in {"success", "cancel"} : AckCheckoutReturn(s, result)
    \/ \E e \in sent : Webhook(e)

Spec == Init /\ [][Next]_vars

-----------------------------------------------------------------------------
(* CheckoutSessionStatus: what the public return page shows of a session.  *)
CheckoutSessionStatus(s) == IF row[s] = "absent" THEN "not found" ELSE row[s]

(* The Stripe webhook is the source of truth for a completed checkout      *)
(* (AckCheckoutReturn and MarkCheckoutSessionExpired both refuse to move a *)
(* completed row): once Stripe completed a session and its completed event *)
(* was applied, the status page reports the session completed, whatever    *)
(* checkout requests, retries and return-page calls come after.            *)
CompletedStaysCompleted ==
    \A s \in SessionIds :
        stripe[s] = "complete" /\ <<"completed", s>> \in recorded
            => CheckoutSessionStatus(s) = "completed"
====
