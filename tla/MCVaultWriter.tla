---------------------------- MODULE MCVaultWriter ----------------------------
(* Values of the constants of VaultWriter for TLC.                         *)
EXTENDS VaultWriter, TLC

ExecutorSymmetry == Permutations(Executors)
=============================================================================
