--------------------------- MODULE MCJobScheduler ---------------------------
(***************************************************************************)
(* JobScheduler on small instances: the symmetry of the workers, and what  *)
(* the scheduler promises, its liveness included.                          *)
(***************************************************************************)
EXTENDS JobSchedulerInv, TLC

\* pthread_create gives every thread the same code and arguments.
WorkerSymmetry == Permutations(Workers)

\* The scheduler carries out batches as BatchExecutor promises: one answer per
\* query, and no batch delivered before its last answer.  And it does not sit on a
\* batch: a pending query is answered, and an answered batch is delivered.
ImplementsLiveExecutor == Promise!Live
=============================================================================
