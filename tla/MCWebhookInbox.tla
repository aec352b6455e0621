--------------------------- MODULE MCWebhookInbox ---------------------------
(* WebhookInbox for TLC.                                                     *)
EXTENDS WebhookInbox, TLC

\* Events and delivery slots are interchangeable.  For safety runs only.
Symmetry == Permutations(Events) \cup Permutations(Deliveries)
=============================================================================
