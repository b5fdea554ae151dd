-------------------------- MODULE MCWebhookDelivery --------------------------
(* Small instances of WebhookDelivery for TLC. *)
EXTENDS WebhookDelivery

CONSTANTS h1, r1, r2, r3, k

\* r1 and r2 are one event sent twice, r3 has no key; one webhook.
MCHook == [r \in Reqs |-> h1]

MCKey == [r \in Reqs |-> IF r = r3 THEN NoKey ELSE k]
=============================================================================
