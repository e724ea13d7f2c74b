------------------------ MODULE MCSubscriptionHandler -----------------------
(***************************************************************************)
(* SubscriptionHandler with a few subscriptions and heartbeats, for TLC.   *)
(***************************************************************************)
EXTENDS SubscriptionHandler

\* A client that lets heartbeats begin has one subscription at most.  Heartbeats and
\* subscriptions have nothing in common but the handler and the connection.
Bounded == inits > 0 => \A d, e \in Entry :
  sub[d].subscribed # "no" /\ sub[e].subscribed # "no" => d = e

\* What it refuses are messages of the client, of which none has to come.
MCSpec == HandlerInit /\ [][HandlerNext /\ Bounded']_allVars /\ HandlerFairness
=============================================================================
