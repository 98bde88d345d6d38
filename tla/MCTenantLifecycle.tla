------------------------- MODULE MCTenantLifecycle -------------------------
(* Small instances of TenantLifecycle for TLC: the sets of requests and     *)
(* rows are sets of model values given in the .cfg files.                   *)
EXTENDS TenantLifecycle
=============================================================================
