------------------------ MODULE MCWebhookDeliveries ------------------------
(* Instance of WebhookDeliveries for TLC. *)
EXTENDS WebhookDeliveries
==============================================================================
