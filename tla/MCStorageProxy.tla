---------------------------- MODULE MCStorageProxy ----------------------------
(* An instance of StorageProxy for TLC. *)
EXTENDS StorageProxy, TLC

CONSTANTS n1, v1

=============================================================================
