------------------------- MODULE MCProvisionCatalog -------------------------
(* The catalog provisioner for TLC.                                        *)
EXTENDS ProvisionCatalog

AllModes == {"create", "delete", "refresh"}
PlatformNamespaces == {"dev_db", "raw", "features"}

=============================================================================
