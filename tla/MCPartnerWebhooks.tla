--------------------------- MODULE MCPartnerWebhooks ---------------------------
(* Small instances of PartnerWebhooks for TLC. *)
EXTENDS PartnerWebhooks
=============================================================================
