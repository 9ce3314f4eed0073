-------------------------- MODULE MCWebhookIngest --------------------------
(***************************************************************************)
(* WebhookIngest for TLC.                                                  *)
(***************************************************************************)
EXTENDS WebhookIngest, TLC

\* Delivery ids and requests are interchangeable.
Interchangeable == Permutations(Deliveries) \cup Permutations(Requests)

=============================================================================
