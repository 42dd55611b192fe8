---------------------------- MODULE MCReplicaEnv ----------------------------
(* ReplicaEnv for TLC.                                                      *)
EXTENDS ReplicaEnv
=============================================================================
