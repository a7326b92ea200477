-------------------------- MODULE MCWebhookManager --------------------------
(***************************************************************************)
(* Instances of WebhookManager for TLC; the configurations give the bounds.*)
(***************************************************************************)
EXTENDS WebhookManager
=============================================================================
