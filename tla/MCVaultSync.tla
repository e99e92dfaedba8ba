---------------------------- MODULE MCVaultSync -----------------------------
(* VaultSync for TLC: all constants have their values in the .cfg files.   *)
EXTENDS VaultSync
=============================================================================
