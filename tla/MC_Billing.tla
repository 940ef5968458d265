------------------------------ MODULE MC_Billing ------------------------------
EXTENDS Billing

CONSTANTS b1, b2

MCBusinesses == {b1, b2}

\* One Stripe subscription per business.
MCSubOwner == (1 :> b1) @@ (2 :> b2)

\* b1 subscribes again after its first subscription ends; b2 subscribes.
MCResubscribeOwner == (1 :> b1) @@ (2 :> b1) @@ (3 :> b2)
==============================================================================
