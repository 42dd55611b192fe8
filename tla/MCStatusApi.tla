----------------------------- MODULE MCStatusApi -----------------------------
(* StatusApi for TLC.                                                       *)
EXTENDS StatusApi
=============================================================================
