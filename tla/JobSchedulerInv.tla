--------------------------- MODULE JobSchedulerInv ---------------------------
(***************************************************************************)
(* The facts that make the barrier of JobScheduler.tla inductive when the  *)
(* threads start parked and no wait returns early, and the mapping of its  *)
(* state to that of BatchExecutor.                                         *)
(***************************************************************************)
EXTENDS JobScheduler

\* pthread_create's threads are not the marker of a free mutex.
ASSUME FreeAssumption == Free \notin Workers

\* Main outside a batch or at its borders: it touches what workers share.
QuietPoints == {"read", "open", "metric", "rebuild", "print", "poison"}
\* Main in wait_all_tasks_finish.
WaitPoints == {"await", "blocked"}
\* Main between reading an F line and freeing the table.
BatchPoints == {"open", "wake", "await", "blocked", "metric", "rebuild", "print"}

\* A batch number is used only for an F line the workload has.
BatchBound ==
  /\ mpc \in BatchPoints /\ ~closing => batch < MaxBatches
  /\ mpc \in {"poison", "join", "done"} => closing
  /\ mpc \in {"read", "metric", "rebuild", "print"} => ~closing

\* The owner variables say which worker is inside which critical section.
LockOwners ==
  \A w \in Workers :
    /\ batchMutex = w <=> wpc[w] \in HasBatch
    /\ queueMutex = w <=> wpc[w] \in HasQueue
    /\ parkedMutex = w <=> wpc[w] = "parked"

\* A worker holds a job exactly from Fetch to the end of its search.
JobsHeld ==
  \A w \in Workers :
    /\ wpc[w] \in Busy => job[w] # NoJob
    /\ wpc[w] \in {"count", "write"} => job[w].type = "Q"
    /\ wpc[w] \notin Busy \cup {"release"} => job[w] = NoJob

\* The count is exact: nobody is woken between the reset and the broadcast.
ParkedCount ==
  /\ mpc \in QuietPoints => \A w \in Workers : wpc[w] \in Counted
  /\ mpc = "wake" => parkedThreads = 0 /\ \A w \in Workers : wpc[w] = "asleep"
  /\ mpc \in QuietPoints \cup WaitPoints
     => parkedThreads = Cardinality(ParkedWorkers)

\* A worker parks only in a closed batch, and a batch is closed only when its
\* queue has run empty.
ClosedAndEmpty ==
  /\ mpc \in QuietPoints \cup WaitPoints
     => \A w \in Workers : wpc[w] \in Counted \cup {"park"} => batchfinished = 0
  /\ \A w \in Workers : wpc[w] \in {"close", "closed"} => queue = <<>>
  /\ mpc \in WaitPoints /\ ~closing /\ batchfinished = 0 => queue = <<>>
  /\ mpc \in {"metric", "rebuild", "print"} => queue = <<>>
  /\ mpc = "wake" => batchfinished = 1

\* Every query about is one of the current batch, and what it needs is alive.
JobsCurrent ==
  /\ \A i \in 1 .. Len(queue) :
       queue[i].type = "Q" => queue[i].batch = batch /\ queue[i].poss < jobId
  /\ \A w \in Workers :
       job[w].type = "Q" => job[w].batch = batch /\ job[w].poss < jobId
  /\ ~closing => index = "live"
  /\ ~closing /\ mpc \in BatchPoints => results.live
  /\ mpc = "read" => ~results.live
  /\ EndsWithF /\ closing => jobId = 0

Queued(q)   == \E i \in 1 .. Len(queue) : queue[i] = q
InHand(q)   == \E w \in Workers : job[w] = q
Answered(q) == results.live /\ results.cell[q.poss] = q

\* Every query of the batch is waiting, being answered, or answered.
JobsAccounted ==
  ~closing => \A p \in 0 .. (jobId - 1) :
                \/ Queued(Query(batch, p))
                \/ InHand(Query(batch, p))
                \/ Answered(Query(batch, p))

BarrierInv ==
  /\ BatchBound /\ LockOwners /\ JobsHeld /\ ParkedCount
  /\ ClosedAndEmpty /\ JobsCurrent /\ JobsAccounted

-----------------------------------------------------------------------------
(* The scheduler as an implementation of BatchExecutor *)

\* A query is pending from submit_job until its answer is in the table.
PendingJobs == {q \in QueryJobs : Queued(q) \/ InHand(q)}

AnsweredJobs ==
  {q \in QueryJobs : results.live /\ \E p \in Positions : results.cell[p] = q}

Phase ==
  IF closing THEN "stopped"
  ELSE IF mpc = "read" THEN "reading" ELSE "executing"

Promise == INSTANCE BatchExecutor
             WITH Jobs <- QueryJobs, phase <- Phase,
                  pending <- PendingJobs, answered <- AnsweredJobs
=============================================================================
