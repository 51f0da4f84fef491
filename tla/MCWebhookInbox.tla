---------------------------- MODULE MCWebhookInbox ----------------------------
(* A small instance of WebhookInbox.  Events and drainers are not            *)
(* interchangeable: liveness is checked and one provider is unknown.         *)
EXTENDS WebhookInbox, TLC

CONSTANTS e1, e2, d1, d2
=============================================================================
