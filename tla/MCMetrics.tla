------------------------------ MODULE MCMetrics ------------------------------
(* Metrics for TLC: the origin is asked first, then the replica.            *)
EXTENDS Metrics

CONSTANTS origin, replica

MCOrder == <<origin, replica>>
=============================================================================
