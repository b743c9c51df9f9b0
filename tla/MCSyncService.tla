--------------------------- MODULE MCSyncService ---------------------------
(* Small instances of SyncService for TLC. *)
EXTENDS SyncService
=============================================================================
