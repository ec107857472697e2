------------------------- MODULE MCWebhookDelivery -------------------------
(***************************************************************************)
(* Instances of WebhookDelivery for TLC.                                   *)
(***************************************************************************)
EXTENDS WebhookDelivery

\* All events belong to one webhook: the interesting case, they compete for
\* its row lock, its switch and the place of its oldest waiting event.
OneWebhook == [e \in Events |-> CHOOSE w \in Webhooks : TRUE]
=============================================================================
