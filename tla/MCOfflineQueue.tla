---------------------------- MODULE MCOfflineQueue ----------------------------
(* OfflineQueue on three entries and two flush() callers.                    *)
EXTENDS OfflineQueue, TLC
=============================================================================
