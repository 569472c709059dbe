-------------------------- MODULE MC_StorageManager --------------------------
(* Ron's drive and a stranger at one mount point; a memory and a record of   *)
(* the performance archive.                                                  *)
EXTENDS StorageManager
=============================================================================
