------------------------------- MODULE Billing -------------------------------
(***************************************************************************)
(* billing-service subscriptions kept in step with Stripe.                  *)
(*                                                                         *)
(*   Handler.StripeWebhook        one transaction per delivered event:     *)
(*                                InsertProviderEvent (ON CONFLICT DO      *)
(*                                NOTHING; a duplicate answers 200), the   *)
(*                                audit row, then by event type            *)
(*                                ApplyActivated / ApplyCanceled / nothing,*)
(*                                COMMIT;                                  *)
(*   Handler.CancelSubscription   read the row, cancel its Stripe          *)
(*                                subscription (Stripe idempotency key     *)
(*                                cancel:<business>:<subscription>), then  *)
(*                                in a transaction record that key as a    *)
(*                                provider event and ApplyCanceled;        *)
(*   Service.ApplyActivated /     lock the row (GetSubscriptionForUpdate), *)
(*     ApplyCanceled              upsert it (updated_at = now()), and      *)
(*                                insert an entitlement outbox event       *)
(*                                unless the effective tier/status is      *)
(*                                unchanged;                               *)
(*   StripeReconciler.            ListStripeSubscriptionsForReconcile      *)
(*     reconcileOnce              (ORDER BY updated_at DESC LIMIT n), then *)
(*                                per listed row: fetch its subscription   *)
(*                                id from Stripe, and in its own           *)
(*                                transaction apply activated              *)
(*                                (active/trialing) or canceled; a fetch   *)
(*                                or apply error skips the row.            *)
(*                                                                         *)
(* Stripe is the environment.  Each subscription id belongs to one         *)
(* business (SubOwner); a business has at most one live subscription, and  *)
(* each change sends one webhook event carrying the subscription's state   *)
(* at that moment.  Stripe retries a delivery until it is acknowledged or  *)
(* it gives up (after some days), and does not order deliveries.  Active   *)
(* stands for active and trialing, which every path treats alike.  A transaction is one step: the row lock     *)
(* serializes transactions on one business.  One reconciler runs           *)
(* (pg_try_advisory_lock).                                                 *)
(***************************************************************************)
EXTENDS Naturals, Sequences, SequencesExt

CONSTANTS
    Businesses,  \* business ids with a Stripe customer
    Tiers,       \* paid tiers set in the Stripe metadata
    SubOwner,    \* SubOwner[s]: the business of Stripe subscription id s
    MaxEvents,   \* bound on the Stripe events sent
    BatchSize,   \* StripeReconcilerConfig.BatchSize, the LIMIT of the listing
    MaxFailures, \* bound on failed Stripe calls and transactions
    None         \* no subscription fetched

SubIds == DOMAIN SubOwner

ASSUME SubOwner \in [SubIds -> Businesses] /\ 0 \notin SubIds
ASSUME BatchSize \in Nat \ {0} /\ MaxEvents \in Nat /\ MaxFailures \in Nat

StripeStatus == {"none", "active", "past_due", "canceled"}
SubStatus == {"none", "active", "canceled"}

\* A Stripe webhook event about subscription s: "activated" is
\* checkout.session.completed or customer.subscription.created/updated
\* with status active; "inactive" is customer.subscription.updated with any
\* other status; "deleted" is customer.subscription.deleted.
Event == [id : 1..MaxEvents, s : SubIds,
          kind : {"activated", "inactive", "deleted"}, tier : Tiers]

VARIABLES
    stripe,      \* stripe[s]: subscription s as Stripe has it
    sent,        \* the webhook events Stripe has sent
    recorded,    \* provider_events: ids of events whose transaction committed
    lost,        \* ids of events Stripe stopped retrying, never applied
    ckeys,       \* Stripe idempotency keys of cancels: subscription ids
    cancels,     \* provider_events of provider "internal": cancel keys
    creq,        \* creq[b]: subscription a cancel request of b has canceled
                 \* at Stripe and not yet recorded, or 0
    sub,         \* sub[b]: the subscriptions row (status, tier, sid)
    emitted,     \* emitted[b]: tier of the latest entitlement outbox event
    recency,     \* businesses with a row, by updated_at, latest first
    rlist,       \* the reconciler's listed rows (b, sid) not yet handled
    rfetch,      \* the Stripe subscription fetched for Head(rlist), or None
    fails        \* failed Stripe calls and transactions so far

vars == <<stripe, sent, recorded, lost, ckeys, cancels, creq, sub, emitted,
          recency, rlist, rfetch, fails>>

-----------------------------------------------------------------------------
\* entitlements.LimitsForTier(t).Tier: unknown tiers map to "free".
LimitsTier(t) == IF t \in {"starter", "pro"} THEN t ELSE "free"

\* The entitlement a row grants: the payload tier of its outbox event.
Effective(r) ==
    CASE r.st = "active"   -> LimitsTier(r.tier)
      [] r.st = "canceled" -> "free"
      [] OTHER             -> "none"

\* Mutant: every subscription that is not canceled counts as entitled.
EntitledUnlessCanceled(st) == st # "canceled"

\* Only active (and trialing) subscriptions are entitled.
Entitled(st) == st = "active"

\* UpsertSubscription sets updated_at = now(): b becomes the latest row.
Touch(b) == recency' = <<b>> \o SelectSeq(recency, LAMBDA x : x # b)

\* Mutant: the emit test compares the status only, not the tier.
ActivatedUnchangedStatusOnly(old, t) == old.st = "active"

\* ApplyActivated's early return: the effective entitlement is unchanged.
ActivatedUnchanged(old, t) == old.st = "active" /\ old.tier = t

\* ApplyActivated(b, t, s): lock, upsert active/t/s, emit unless unchanged.
ApplyActivated(b, t, s) ==
    /\ sub' = [sub EXCEPT ![b] = [st |-> "active", tier |-> t, sid |-> s]]
    /\ emitted' = IF ActivatedUnchanged(sub[b], t) THEN emitted
                  ELSE [emitted EXCEPT ![b] = LimitsTier(t)]
    /\ Touch(b)

\* Mutant: the row takes Stripe's status string verbatim.
ApplyCanceledStripeStatus(b, s) ==
    /\ sub' = [sub EXCEPT ![b] = [st |-> stripe[s].st, tier |-> "free", sid |-> s]]
    /\ emitted' = IF sub[b].st = "canceled" /\ sub[b].tier = "free"
                  THEN emitted ELSE [emitted EXCEPT ![b] = "free"]
    /\ Touch(b)

\* ApplyCanceled(b, s): lock, upsert canceled/free/s, emit unless unchanged.
ApplyCanceled(b, s) ==
    /\ sub' = [sub EXCEPT ![b] = [st |-> "canceled", tier |-> "free", sid |-> s]]
    /\ emitted' = IF sub[b].st = "canceled" /\ sub[b].tier = "free"
                  THEN emitted ELSE [emitted EXCEPT ![b] = "free"]
    /\ Touch(b)

\* Stripe sends the event for a change of subscription s.
Send(s, kind, t) ==
    /\ Cardinality(sent) < MaxEvents
    /\ sent' = sent \cup {[id |-> Cardinality(sent) + 1, s |-> s,
                           kind |-> kind, tier |-> t]}

\* Subscriptions of b that Stripe has created, and the live ones.
Subs(b) == {s \in SubIds : SubOwner[s] = b /\ stripe[s].st # "none"}
Live(b) == {s \in Subs(b) : stripe[s].st \in {"active", "past_due"}}

\* A failure, while the bound allows one.
Fail == fails < MaxFailures /\ fails' = fails + 1
-----------------------------------------------------------------------------
Env == <<recorded, lost, ckeys, cancels, creq, sub, emitted, recency, rlist, rfetch,
         fails>>

(* Stripe: a checkout completes and creates subscription s for its owner,  *)
(* which has no live subscription.                                         *)
StripeSubscribe(s, t) ==
    /\ stripe[s].st = "none"
    /\ Live(SubOwner[s]) = {}
    /\ Send(s, "activated", t)
    /\ stripe' = [stripe EXCEPT ![s] = [st |-> "active", tier |-> t]]
    /\ UNCHANGED Env

(* Stripe: the plan of an active subscription changes.                     *)
StripeChangeTier(s, t) ==
    /\ stripe[s].st = "active" /\ stripe[s].tier # t
    /\ Send(s, "activated", t)
    /\ stripe' = [stripe EXCEPT ![s].tier = t]
    /\ UNCHANGED Env

(* Stripe: a payment fails and the subscription becomes past_due.          *)
StripePastDue(s) ==
    /\ stripe[s].st = "active"
    /\ Send(s, "inactive", stripe[s].tier)
    /\ stripe' = [stripe EXCEPT ![s].st = "past_due"]
    /\ UNCHANGED Env

(* Stripe: the subscription is canceled outside the API (dashboard,        *)
(* dunning).                                                               *)
StripeCancel(s) ==
    /\ stripe[s].st \in {"active", "past_due"}
    /\ Send(s, "deleted", stripe[s].tier)
    /\ stripe' = [stripe EXCEPT ![s].st = "canceled"]
    /\ UNCHANGED Env

(* StripeWebhook for a first delivery of e (a redelivery of a recorded id  *)
(* is answered "duplicate" and changes nothing).                           *)
Webhook(e) ==
    /\ e \in sent
    /\ e.id \notin recorded \cup lost
    /\ recorded' = recorded \cup {e.id}
    /\ CASE e.kind = "activated" -> ApplyActivated(SubOwner[e.s], e.tier, e.s)
         [] e.kind = "deleted"   -> ApplyCanceled(SubOwner[e.s], e.s)
         [] e.kind = "inactive"  -> UNCHANGED <<sub, emitted, recency>>
    /\ UNCHANGED <<stripe, sent, lost, ckeys, cancels, creq, rlist, rfetch, fails>>

(* Every delivery of e fails (the endpoint is down or answers 5xx) until   *)
(* Stripe stops retrying it: the event is missed.                          *)
WebhookMissed(e) ==
    /\ e \in sent
    /\ e.id \notin recorded \cup lost
    /\ Fail
    /\ lost' = lost \cup {e.id}
    /\ UNCHANGED <<stripe, sent, recorded, ckeys, cancels, creq, sub, emitted,
                   recency, rlist, rfetch>>

(* CancelSubscription up to the Stripe call: GetSubscription gives the     *)
(* row's subscription id (none: 404/409); stripesubscription.Cancel with   *)
(* the key cancel:<b>:<s> cancels a live subscription, replays a key it    *)
(* has seen, and otherwise fails (502).                                    *)
CancelAtStripe(b) ==
    /\ creq[b] = 0
    /\ sub[b].st # "none" /\ sub[b].sid # 0
    /\ LET s == sub[b].sid IN
         \/ /\ stripe[s].st \in {"active", "past_due"}
            /\ Send(s, "deleted", stripe[s].tier)
            /\ stripe' = [stripe EXCEPT ![s].st = "canceled"]
            /\ ckeys' = ckeys \cup {s}
            /\ creq' = [creq EXCEPT ![b] = s]
         \/ /\ s \in ckeys
            /\ creq' = [creq EXCEPT ![b] = s]
            /\ UNCHANGED <<stripe, sent, ckeys>>
    /\ UNCHANGED <<recorded, lost, cancels, sub, emitted, recency, rlist, rfetch, fails>>

(* CancelSubscription's transaction: InsertProviderEvent("internal", key)  *)
(* (a recorded key answers "duplicate"), the audit row, ApplyCanceled with *)
(* the subscription id read before the Stripe call, COMMIT.               *)
CancelCommit(b) ==
    /\ creq[b] # 0
    /\ LET s == creq[b] IN
         IF s \in cancels
         THEN UNCHANGED <<cancels, sub, emitted, recency>>
         ELSE /\ cancels' = cancels \cup {s}
              /\ ApplyCanceled(b, s)
    /\ creq' = [creq EXCEPT ![b] = 0]
    /\ UNCHANGED <<stripe, sent, recorded, lost, ckeys, rlist, rfetch, fails>>

(* The cancel transaction fails (500); Stripe's subscription stays         *)
(* canceled.                                                               *)
CancelCommitFails(b) ==
    /\ creq[b] # 0
    /\ Fail
    /\ creq' = [creq EXCEPT ![b] = 0]
    /\ UNCHANGED <<stripe, sent, recorded, lost, ckeys, cancels, sub, emitted,
                   recency, rlist, rfetch>>

(* reconcileOnce: ListStripeSubscriptionsForReconcile, the BatchSize most  *)
(* recently updated rows with a subscription id.                           *)
ReconcileList ==
    /\ rlist = <<>>
    /\ recency # <<>>
    /\ rlist' = [i \in 1..Min({Len(recency), BatchSize}) |->
                    [b |-> recency[i], sid |-> sub[recency[i]].sid]]
    /\ UNCHANGED <<stripe, sent, recorded, lost, ckeys, cancels, creq, sub, emitted,
                   recency, rfetch, fails>>

(* stripesubscription.Get of the listed row's subscription id.             *)
ReconcileFetch ==
    /\ rlist # <<>> /\ rfetch = None
    /\ LET s == Head(rlist).sid IN
         rfetch' = [st |-> stripe[s].st, tier |-> stripe[s].tier, sid |-> s]
    /\ UNCHANGED <<stripe, sent, recorded, lost, ckeys, cancels, creq, sub, emitted,
                   recency, rlist, fails>>

(* The row's transaction: ApplyActivated when the fetched subscription is *)
(* entitled, ApplyCanceled otherwise, both with the fetched id; then the   *)
(* next row.                                                               *)
ReconcileApply ==
    /\ rfetch # None
    /\ IF Entitled(rfetch.st)
       THEN ApplyActivated(Head(rlist).b, rfetch.tier, rfetch.sid)
       ELSE ApplyCanceled(Head(rlist).b, rfetch.sid)
    /\ rlist' = Tail(rlist)
    /\ rfetch' = None
    /\ UNCHANGED <<stripe, sent, recorded, lost, ckeys, cancels, creq, fails>>

(* The fetch, the apply or the commit fails: the row is skipped.           *)
ReconcileSkip ==
    /\ rlist # <<>>
    /\ Fail
    /\ rlist' = Tail(rlist)
    /\ rfetch' = None
    /\ UNCHANGED <<stripe, sent, recorded, lost, ckeys, cancels, creq, sub, emitted,
                   recency>>

(* repo.Begin fails: reconcileOnce returns and the rest of the batch waits *)
(* for the next tick.                                                      *)
ReconcileAbort ==
    /\ rfetch # None
    /\ Fail
    /\ rlist' = <<>>
    /\ rfetch' = None
    /\ UNCHANGED <<stripe, sent, recorded, lost, ckeys, cancels, creq, sub, emitted,
                   recency>>

-----------------------------------------------------------------------------
Init ==
    /\ stripe = [s \in SubIds |-> [st |-> "none", tier |-> "free"]]
    /\ sent = {}
    /\ recorded = {}
    /\ lost = {}
    /\ ckeys = {}
    /\ cancels = {}
    /\ creq = [b \in Businesses |-> 0]
    /\ sub = [b \in Businesses |-> [st |-> "none", tier |-> "free", sid |-> 0]]
    /\ emitted = [b \in Businesses |-> "none"]
    /\ recency = <<>>
    /\ rlist = <<>>
    /\ rfetch = None
    /\ fails = 0

Next ==
    \/ \E s \in SubIds :
          \/ \E t \in Tiers : StripeSubscribe(s, t) \/ StripeChangeTier(s, t)
          \/ StripePastDue(s)
          \/ StripeCancel(s)
    \/ \E e \in sent : Webhook(e) \/ WebhookMissed(e)
    \/ \E b \in Businesses :
          CancelAtStripe(b) \/ CancelCommit(b) \/ CancelCommitFails(b)
    \/ ReconcileList
    \/ ReconcileFetch
    \/ ReconcileApply
    \/ ReconcileSkip
    \/ ReconcileAbort

(* Stripe retries an event until it is acknowledged or missed; a cancel    *)
(* request goes on to its transaction once Stripe answers; the            *)
(* reconciler's ticker fires every interval.                               *)
Fairness ==
    /\ WF_vars(\E e \in sent : Webhook(e))
    /\ \A b \in Businesses : WF_vars(CancelCommit(b))
    /\ WF_vars(ReconcileList)
    /\ WF_vars(ReconcileFetch)
    /\ WF_vars(ReconcileApply)

Spec == Init /\ [][Next]_vars /\ Fairness
-----------------------------------------------------------------------------
TypeOK ==
    /\ stripe \in [SubIds -> [st : StripeStatus, tier : Tiers \cup {"free"}]]
    /\ sent \subseteq Event
    /\ recorded \subseteq 1..MaxEvents /\ lost \subseteq 1..MaxEvents
    /\ ckeys \subseteq SubIds /\ cancels \subseteq SubIds
    /\ creq \in [Businesses -> SubIds \cup {0}]
    /\ sub \in [Businesses -> [st : SubStatus, tier : Tiers \cup {"free"},
                               sid : SubIds \cup {0}]]
    /\ emitted \in [Businesses -> Tiers \cup {"free", "none"}]
    /\ recency \in Seq(Businesses)
    /\ rlist \in Seq([b : Businesses, sid : SubIds \cup {0}])
    /\ rfetch \in [st : StripeStatus, tier : Tiers \cup {"free"}, sid : SubIds]
                  \cup {None}
    /\ fails \in 0..MaxFailures

(* The latest entitlement event billing published for a business always    *)
(* states the entitlement its subscriptions row grants, whichever of the   *)
(* webhook, cancel, reconciler or duplicate paths wrote the row last:      *)
(* booking's entitlement cache, fed by these events, agrees with billing.  *)
EntitlementEventMatchesRow ==
    \A b \in Businesses : emitted[b] = Effective(sub[b])

\* The row agrees with Stripe: the business's active subscription, with its
\* id and tier; canceled when it has subscriptions and none is active.
Synced(b) ==
    CASE Subs(b) = {} -> sub[b].st = "none"
      [] \E s \in Subs(b) : stripe[s].st = "active" ->
            \E s \in Subs(b) :
                /\ stripe[s].st = "active"
                /\ sub[b] = [st |-> "active", tier |-> stripe[s].tier, sid |-> s]
      [] OTHER -> sub[b].st = "canceled"

(* What the reconciler heals: once Stripe stops changing, every           *)
(* subscriptions row that exists ends up agreeing with Stripe, although    *)
(* webhooks arrive late, in any order or never, past_due updates are       *)
(* ignored by the webhook handler, and cancel requests, Stripe calls and   *)
(* reconciler transactions fail.                                           *)
SubscriptionConverges ==
    \A b \in Businesses : <>[](sub[b].st # "none" => Synced(b))

(* main.go:110: the reconciler "periodically self-heal[s] subscription     *)
(* state if webhooks are missed": once Stripe stops changing, every        *)
(* business's row ends up agreeing with Stripe, whichever webhooks were    *)
(* missed and however many businesses subscribe.                           *)
SubscriptionHealed ==
    \A b \in Businesses : <>[]Synced(b)
====
