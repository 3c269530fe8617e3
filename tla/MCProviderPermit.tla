--------------------------- MODULE MCProviderPermit ---------------------------
(* Instances of ProviderPermit for TLC. *)
EXTENDS ProviderPermit
=============================================================================
