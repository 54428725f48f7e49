--------------------------- MODULE MCProvisioning ---------------------------
(***************************************************************************)
(* Two companies that may want the same subdomain, model-checked.          *)
(***************************************************************************)
EXTENDS Provisioning, TLC
=============================================================================
