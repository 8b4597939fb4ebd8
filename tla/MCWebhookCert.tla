--------------------------- MODULE MCWebhookCert ---------------------------
(* Two managers and two webhooks; see MCWebhookCert.cfg for the bounds. *)
EXTENDS WebhookCert
CONSTANTS m1, m2, w1, w2, c1, c2, c3, c4, c5, c6
=============================================================================
