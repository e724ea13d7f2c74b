------------------------- MODULE MCSubscriptionEntry ------------------------
(* SubscriptionEntry on one subscription, for TLC. *)
EXTENDS SubscriptionEntry
=============================================================================
