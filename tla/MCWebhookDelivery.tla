------------------------- MODULE MCWebhookDelivery -------------------------
(* WebhookDelivery on small instances. *)
EXTENDS WebhookDelivery, TLC

\* Deliveries, workers and sweeps are interchangeable.
Symmetry == Permutations(Delivery) \cup Permutations(Worker) \cup Permutations(Sweeper)
=============================================================================
