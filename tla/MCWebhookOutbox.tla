--------------------------- MODULE MCWebhookOutbox ---------------------------
(* WebhookOutbox with a backoff of one tick and then two. *)
EXTENDS WebhookOutbox

Waits == [n \in 1..MaxAttempts |-> n]
===============================================================================
