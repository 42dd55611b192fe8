------------------------------ MODULE MCWorker ------------------------------
(* Worker for TLC: a cron expression that is due at every second time.      *)
EXTENDS Worker, TLC

MCNextExecution == [t \in Time |-> 2 * (t \div 2) + 2]

Symmetry == Permutations(CronJobs) \cup Permutations(Handlers)
=============================================================================
