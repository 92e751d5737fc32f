-------------------------- MODULE MCWebhookDelivery --------------------------
(* Instances of WebhookDelivery for TLC: the cfg files give the sizes.      *)
EXTENDS WebhookProperties

CONSTANTS d1, d2, p1, p2

TwoDeliveries == {d1, d2}
TwoLoops == {p1, p2}
=============================================================================
