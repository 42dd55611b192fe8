---------------------------- MODULE MCSyncSystem ----------------------------
(* SyncSystem for TLC: cron is due at every time.                           *)
EXTENDS SyncSystem

MCNextExecution == [t \in Time |-> t + 1]
=============================================================================
