---------------------------- MODULE JobScheduler ----------------------------
(***************************************************************************)
(* The job scheduler of Src/Threads/jobScheduler.c and the main thread     *)
(* that drives it (staticWorkLoad and dynamicWorkLoad in                   *)
(* Src/Graph/graphQA.c), at the grain of pthread calls.                    *)
(*                                                                         *)
(* Main reads the workload line by line.  A Q line puts a query job in the *)
(* queue; an F line allocates the results table, opens the batch, waits at *)
(* a barrier until every worker has parked, prints and frees the table; at *)
(* the end of the file main frees the index, waits at the barrier once     *)
(* more and kills every worker with a poison job.                          *)
(*                                                                         *)
(* A critical section that touches one shared variable is one action,      *)
(* enabled when its mutex is free; queueMutex, batchMutex and              *)
(* parkedThreadsMutex have owners because they are held across several     *)
(* steps or nested.  A thread that a broadcast wakes is at the same point  *)
(* as one that is about to lock batchMutex for the first time (both lock   *)
(* it and test batchfinished), so waking is the step "asleep" -> "enter".  *)
(***************************************************************************)
EXTENDS Integers, Sequences, FiniteSets

CONSTANTS
  Workers,      \* the threads of initialize_scheduler
  MaxQueries,   \* bound: Q lines between two F lines
  MaxBatches,   \* bound: F lines of the workload
  GraphTypes,   \* the workload headers considered, a subset of {"S", "D"}
  MetricVal,    \* METRIC_VAL: uses per query from which the index is rebuilt
  EndsWithF,    \* TRUE when the last Q line is followed by an F line
  ParkedBound   \* bound: no spurious wakeup once parkedThreads is this large

ASSUME WorkersAssumption == IsFiniteSet(Workers) /\ Workers # {}
ASSUME BoundsAssumption == /\ MaxQueries \in Nat
                           /\ MaxBatches \in Nat
                           /\ ParkedBound \in Nat
ASSUME WorkloadAssumption == /\ GraphTypes \subseteq {"S", "D"}
                             /\ MetricVal \in Nat
                             /\ EndsWithF \in BOOLEAN

VARIABLES
  queue,            \* js->queue, first job to be taken first
  queueMutex,       \* the worker that holds js->queueMutex, or Free
  batchMutex,       \* the worker that holds js->batchMutex, or Free
  parkedMutex,      \* the worker that holds js->parkedThreadsMutex, or Free
  batchfinished,    \* js->batchfinished (1: the batch is open)
  parkedThreads,    \* js->parkedThreads
  wpc,              \* where each worker is
  job,              \* the job each worker has taken
  mpc,              \* where the main thread is
  typeOfGraph,      \* threadArgs->typeOfGraph
  batch,            \* number of F lines read so far
  jobId,            \* number of queries of the current batch
  closing,          \* TRUE from destroy_scheduler on
  poisons,          \* poison jobs submitted so far
  results,          \* the table res[0]: is it allocated, and what is in it
  index,            \* is the index (GRAIL and SCC, or CC) allocated
  timesUsedCounter, \* dG.cc->updateIndex->timesUsedCounter
  queriesCount      \* dynamicWorkLoad's queriesCount

locks == <<queueMutex, batchMutex, parkedMutex>>
sched == <<batchfinished, parkedThreads>>
local == <<wpc, job>>
work  == <<results, index, timesUsedCounter, queriesCount>>
main  == <<mpc, batch, jobId, closing, poisons>>
vars  == <<queue, locks, sched, local, main, work, typeOfGraph>>

-----------------------------------------------------------------------------
Free == "free"

\* A Job: its type, the batch it was read in (its identity) and its position.
Query(b, p) == [type |-> "Q", batch |-> b, poss |-> p]
Poison      == [type |-> "P", batch |-> 0, poss |-> -1]
NoJob       == [type |-> "none", batch |-> 0, poss |-> -1]

Positions == 0 .. (MaxQueries - 1)
QueryJobs == {Query(b, p) : b \in 0 .. MaxBatches, p \in Positions}

WorkerPoints ==
  {"enter", "park", "parked", "announce", "sleep", "asleep", "leave", "fetch",
   "close", "closed", "release", "run", "count", "write", "exited"}
MainPoints ==
  {"read", "open", "wake", "await", "blocked", "metric", "rebuild", "print",
   "poison", "join", "done"}

\* A worker that has counted itself in parkedThreads and has not been woken.
Counted == {"parked", "announce", "sleep", "asleep"}
\* A worker that holds batchMutex; one that holds queueMutex.
HasBatch == {"park", "parked", "announce", "sleep", "leave", "closed"}
HasQueue == {"close", "closed", "release"}
\* A worker with a job in its hands, which it has not answered yet.
Busy == {"run", "count", "write"}

ParkedWorkers == {w \in Workers : wpc[w] \in Counted}

\* calloc(jobId, sizeof(int)): every cell is 0 until a worker writes its answer.
\* A cell holds the job whose answer it is.  Freed is the table after free().
NewTable == [live |-> TRUE, cell |-> [p \in Positions |-> NoJob]]
Freed    == [live |-> FALSE, cell |-> [p \in Positions |-> NoJob]]

-----------------------------------------------------------------------------
MachineInit ==
  /\ queue = <<>>
  /\ queueMutex = Free /\ batchMutex = Free /\ parkedMutex = Free
  /\ batchfinished = 0
  /\ job = [w \in Workers |-> NoJob]
  /\ mpc = "read"
  /\ typeOfGraph \in GraphTypes
  /\ batch = 0 /\ jobId = 0 /\ closing = FALSE /\ poisons = 0
  /\ results = Freed
  /\ index = "live"
  /\ timesUsedCounter = 0 /\ queriesCount = 0

\* initialize_scheduler has created the threads; none of them has run yet.
Init ==
  /\ MachineInit
  /\ parkedThreads = 0
  /\ wpc = [w \in Workers |-> "enter"]

\* The same program when the threads happen to have parked before main reads
\* its first line: a state that Init's behaviours can reach.
ParkedInit ==
  /\ MachineInit
  /\ parkedThreads = Cardinality(Workers)
  /\ wpc = [w \in Workers |-> "asleep"]

-----------------------------------------------------------------------------
(* threadWorker *)

Go(w, there) == wpc' = [wpc EXCEPT ![w] = there]

\* Lock batchMutex and test batchfinished, before or after a wait.
Enter(w) ==
  /\ wpc[w] = "enter" /\ batchMutex = Free
  /\ batchMutex' = w
  /\ Go(w, IF batchfinished = 0 THEN "park" ELSE "leave")
  /\ UNCHANGED <<queue, queueMutex, parkedMutex, sched, job, main, work, typeOfGraph>>

Park(w) ==
  /\ wpc[w] = "park" /\ parkedMutex = Free
  /\ parkedMutex' = w
  /\ parkedThreads' = parkedThreads + 1
  /\ Go(w, "parked")
  /\ UNCHANGED <<queue, queueMutex, batchMutex, batchfinished, job, main, work, typeOfGraph>>

UnlockParked(w) ==
  /\ wpc[w] = "parked"
  /\ parkedMutex' = Free
  /\ Go(w, "announce")
  /\ UNCHANGED <<queue, queueMutex, batchMutex, sched, job, main, work, typeOfGraph>>

\* Mutant of Announce: nobody broadcasts cond_parkedMutex.
AnnounceNothing(w) ==
  /\ wpc[w] = "announce"
  /\ Go(w, "sleep")
  /\ UNCHANGED <<queue, locks, sched, job, main, work, typeOfGraph>>

\* pthread_cond_broadcast(&cond_parkedMutex): only main waits on it.
Announce(w) ==
  /\ wpc[w] = "announce"
  /\ mpc' = IF mpc = "blocked" THEN "await" ELSE mpc
  /\ Go(w, "sleep")
  /\ UNCHANGED <<queue, locks, sched, job, batch, jobId, closing, poisons, work, typeOfGraph>>

\* pthread_cond_wait(&cond_batch_finished, &batchMutex) lets the mutex go.
Sleep(w) ==
  /\ wpc[w] = "sleep"
  /\ batchMutex' = Free
  /\ Go(w, "asleep")
  /\ UNCHANGED <<queue, queueMutex, parkedMutex, sched, job, main, work, typeOfGraph>>

Leave(w) ==
  /\ wpc[w] = "leave"
  /\ batchMutex' = Free
  /\ Go(w, "fetch")
  /\ UNCHANGED <<queue, queueMutex, parkedMutex, sched, job, main, work, typeOfGraph>>

\* Mutant of Fetch: takefromGQueue forgets to unlink the last node.
FetchKeepsLast(w) ==
  /\ wpc[w] = "fetch" /\ queueMutex = Free
  /\ queueMutex' = w
  /\ \/ /\ queue # <<>>
        /\ job' = [job EXCEPT ![w] = Head(queue)]
        /\ queue' = IF Len(queue) = 1 THEN queue ELSE Tail(queue)
        /\ Go(w, "release")
     \/ /\ queue = <<>>
        /\ Go(w, "close")
        /\ UNCHANGED <<queue, job>>
  /\ UNCHANGED <<batchMutex, parkedMutex, sched, main, work, typeOfGraph>>

\* Mutant of Fetch: queueMutex is let go before the batch is closed.
FetchUnlocksEarly(w) ==
  /\ wpc[w] = "fetch" /\ queueMutex = Free
  /\ \/ /\ queue # <<>>
        /\ queueMutex' = w
        /\ job' = [job EXCEPT ![w] = Head(queue)]
        /\ queue' = Tail(queue)
        /\ Go(w, "release")
     \/ /\ queue = <<>>
        /\ Go(w, "close")
        /\ UNCHANGED <<queue, queueMutex, job>>
  /\ UNCHANGED <<batchMutex, parkedMutex, sched, main, work, typeOfGraph>>

\* Lock queueMutex and take the oldest job, if there is one.
Fetch(w) ==
  /\ wpc[w] = "fetch" /\ queueMutex = Free
  /\ queueMutex' = w
  /\ \/ /\ queue # <<>>
        /\ job' = [job EXCEPT ![w] = Head(queue)]
        /\ queue' = Tail(queue)
        /\ Go(w, "release")
     \/ /\ queue = <<>>
        /\ Go(w, "close")
        /\ UNCHANGED <<queue, job>>
  /\ UNCHANGED <<batchMutex, parkedMutex, sched, main, work, typeOfGraph>>

\* No job: close the batch, with queueMutex still held.
Close(w) ==
  /\ wpc[w] = "close" /\ batchMutex = Free
  /\ batchMutex' = w
  /\ batchfinished' = 0
  /\ Go(w, "closed")
  /\ UNCHANGED <<queue, queueMutex, parkedMutex, parkedThreads, job, main, work, typeOfGraph>>

UnlockClosed(w) ==
  /\ wpc[w] = "closed"
  /\ batchMutex' = Free
  /\ Go(w, "release")
  /\ UNCHANGED <<queue, queueMutex, parkedMutex, sched, job, main, work, typeOfGraph>>

\* Mutant of Release: a worker that found no job ends instead of parking.
ReleaseQuits(w) ==
  /\ wpc[w] = "release"
  /\ queueMutex' = Free
  /\ Go(w, IF job[w] = NoJob THEN "exited" ELSE "run")
  /\ UNCHANGED <<queue, batchMutex, parkedMutex, sched, job, main, work, typeOfGraph>>

\* Mutant of Release: queueMutex stays locked when there was no job.
ReleaseKeepsLock(w) ==
  /\ wpc[w] = "release"
  /\ queueMutex' = IF job[w] = NoJob THEN queueMutex ELSE Free
  /\ Go(w, IF job[w] = NoJob THEN "enter" ELSE "run")
  /\ UNCHANGED <<queue, batchMutex, parkedMutex, sched, job, main, work, typeOfGraph>>

Release(w) ==
  /\ wpc[w] = "release"
  /\ queueMutex' = Free
  /\ Go(w, IF job[w] = NoJob THEN "enter" ELSE "run")
  /\ UNCHANGED <<queue, batchMutex, parkedMutex, sched, job, main, work, typeOfGraph>>

Exit(w) ==
  /\ wpc[w] = "run" /\ job[w].type = "P"
  /\ job' = [job EXCEPT ![w] = NoJob]
  /\ Go(w, "exited")
  /\ UNCHANGED <<queue, locks, sched, main, work, typeOfGraph>>

\* The search reads the graph and the index.  A dynamic one may have used the
\* update index; where shortestLengthDynamicBBFS returns before it stores
\* *updateIndexUsed the flag is what malloc left there, so both are possible.
Search(w) ==
  /\ wpc[w] = "run" /\ job[w].type = "Q"
  /\ \/ Go(w, "write")
     \/ typeOfGraph = "D" /\ Go(w, "count")
  /\ UNCHANGED <<queue, locks, sched, job, main, work, typeOfGraph>>

\* timesUsedCounter++ under queriesUsedUpdateIndexMutex.
CountUse(w) ==
  /\ wpc[w] = "count"
  /\ timesUsedCounter' = timesUsedCounter + 1
  /\ Go(w, "write")
  /\ UNCHANGED <<queue, locks, sched, job, main, results, index, queriesCount, typeOfGraph>>

\* res[0][job->poss] = result, into whatever table res[0] is now; a store into
\* a freed table reaches no table.
Write(w) ==
  /\ wpc[w] = "write"
  /\ results' = IF results.live
                THEN [live |-> TRUE,
                      cell |-> [results.cell EXCEPT ![job[w].poss] = job[w]]]
                ELSE results
  /\ job' = [job EXCEPT ![w] = NoJob]
  /\ Go(w, "fetch")
  /\ UNCHANGED <<queue, locks, sched, main, index, timesUsedCounter, queriesCount, typeOfGraph>>

Worker(w) ==
  \/ Enter(w) \/ Park(w) \/ UnlockParked(w) \/ Announce(w) \/ Sleep(w)
  \/ Leave(w) \/ Fetch(w) \/ Close(w) \/ UnlockClosed(w) \/ Release(w)
  \/ Exit(w) \/ Search(w) \/ CountUse(w) \/ Write(w)

-----------------------------------------------------------------------------
(* The main thread: staticWorkLoad, dynamicWorkLoad and the calls they make *)

At(here)  == mpc = here
Then(next) == mpc' = next

\* A Q line: submit_job.
ReadQuery ==
  /\ At("read") /\ queueMutex = Free
  /\ jobId < MaxQueries /\ (EndsWithF => batch < MaxBatches)
  /\ queue' = Append(queue, Query(batch, jobId))
  /\ jobId' = jobId + 1
  /\ queriesCount' = IF typeOfGraph = "D" THEN queriesCount + 1 ELSE queriesCount
  /\ UNCHANGED <<locks, sched, local, mpc, batch, closing, poisons, results, index,
                 timesUsedCounter, typeOfGraph>>

\* An F line: calloc the table, then execute_all_jobs.
ReadF ==
  /\ At("read") /\ batch < MaxBatches
  /\ results' = NewTable
  /\ Then("open")
  /\ UNCHANGED <<queue, locks, sched, local, batch, jobId, closing, poisons, index,
                 timesUsedCounter, queriesCount, typeOfGraph>>

\* End of file: the index is freed, and then destroy_scheduler is called.
ReadEnd ==
  /\ At("read") /\ (EndsWithF => jobId = 0)
  /\ index' = "freed"
  /\ closing' = TRUE
  /\ Then("await")
  /\ UNCHANGED <<queue, locks, sched, local, batch, jobId, poisons, results,
                 timesUsedCounter, queriesCount, typeOfGraph>>

\* Mutant of Open: parkedThreads is not reset.
OpenKeepsCount ==
  /\ At("open") /\ batchMutex = Free
  /\ batchfinished' = 1
  /\ Then("wake")
  /\ UNCHANGED <<queue, locks, parkedThreads, local, batch, jobId, closing, poisons,
                 work, typeOfGraph>>

\* execute_all_jobs up to the unlock: parkedThreads is reset here.
Open ==
  /\ At("open") /\ batchMutex = Free
  /\ batchfinished' = 1
  /\ parkedThreads' = 0
  /\ Then("wake")
  /\ UNCHANGED <<queue, locks, local, batch, jobId, closing, poisons, work, typeOfGraph>>

\* Mutant of Wake: pthread_cond_signal, which wakes one worker.
WakeOne ==
  /\ At("wake")
  /\ \/ \E w \in Workers : wpc[w] = "asleep" /\ Go(w, "enter")
     \/ (\A w \in Workers : wpc[w] # "asleep") /\ UNCHANGED wpc
  /\ Then(IF closing THEN "join" ELSE "await")
  /\ UNCHANGED <<queue, locks, sched, job, batch, jobId, closing, poisons, work, typeOfGraph>>

\* Mutant of Wake: the driver does not call wait_all_tasks_finish.
WakeWithoutWait ==
  /\ At("wake")
  /\ wpc' = [w \in Workers |-> IF wpc[w] = "asleep" THEN "enter" ELSE wpc[w]]
  /\ Then(IF closing THEN "join" ELSE "print")
  /\ UNCHANGED <<queue, locks, sched, job, batch, jobId, closing, poisons, work, typeOfGraph>>

\* The broadcast of execute_all_jobs, after batchMutex was let go.
Wake ==
  /\ At("wake")
  /\ wpc' = [w \in Workers |-> IF wpc[w] = "asleep" THEN "enter" ELSE wpc[w]]
  /\ Then(IF closing THEN "join" ELSE "await")
  /\ UNCHANGED <<queue, locks, sched, job, batch, jobId, closing, poisons, work, typeOfGraph>>

\* Mutant of Await: the barrier opens one worker early.
AwaitOneFewer ==
  /\ At("await") /\ parkedMutex = Free
  /\ Then(IF parkedThreads < Cardinality(Workers) - 1 THEN "blocked"
          ELSE IF closing THEN "poison"
          ELSE IF typeOfGraph = "D" THEN "metric" ELSE "print")
  /\ UNCHANGED <<queue, locks, sched, local, batch, jobId, closing, poisons, work, typeOfGraph>>

\* wait_all_tasks_finish: test the count, then leave or wait on cond_parkedMutex.
Await ==
  /\ At("await") /\ parkedMutex = Free
  /\ Then(IF parkedThreads < Cardinality(Workers) THEN "blocked"
          ELSE IF closing THEN "poison"
          ELSE IF typeOfGraph = "D" THEN "metric" ELSE "print")
  /\ UNCHANGED <<queue, locks, sched, local, batch, jobId, closing, poisons, work, typeOfGraph>>

\* estimateMetric reads the counter without its mutex.  0 uses of 0 queries
\* divide to NaN, which estimateMetric takes for "rebuild", as >= does here.
Metric ==
  /\ At("metric")
  /\ Then(IF timesUsedCounter >= MetricVal * queriesCount THEN "rebuild" ELSE "print")
  /\ UNCHANGED <<queue, locks, sched, local, batch, jobId, closing, poisons, work, typeOfGraph>>

\* rebuildIndexes and a new update index, under queriesUsedUpdateIndexMutex.
Rebuild ==
  /\ At("rebuild")
  /\ timesUsedCounter' = 0
  /\ queriesCount' = 0
  /\ Then("print")
  /\ UNCHANGED <<queue, locks, sched, local, batch, jobId, closing, poisons, results,
                 index, typeOfGraph>>

\* Mutant of PrintResults: queriesCount restarts with every batch.
PrintForgetsQueries ==
  /\ At("print")
  /\ jobId' = 0
  /\ batch' = batch + 1
  /\ results' = Freed
  /\ queriesCount' = 0
  /\ Then("read")
  /\ UNCHANGED <<queue, locks, sched, local, closing, poisons, index, timesUsedCounter,
                 typeOfGraph>>

\* Print the answers and free the table.
PrintResults ==
  /\ At("print")
  /\ jobId' = 0
  /\ batch' = batch + 1
  /\ results' = Freed
  /\ Then("read")
  /\ UNCHANGED <<queue, locks, sched, local, closing, poisons, index, timesUsedCounter,
                 queriesCount, typeOfGraph>>

\* Mutant of SubmitPoison: the loop runs once too often.
SubmitPoisonTooMany ==
  /\ At("poison") /\ queueMutex = Free
  /\ poisons <= Cardinality(Workers)
  /\ queue' = Append(queue, Poison)
  /\ poisons' = poisons + 1
  /\ Then(IF poisons = Cardinality(Workers) THEN "open" ELSE "poison")
  /\ UNCHANGED <<locks, sched, local, batch, jobId, closing, work, typeOfGraph>>

\* destroy_scheduler submits one poison job per thread, then opens the batch.
SubmitPoison ==
  /\ At("poison") /\ queueMutex = Free
  /\ poisons < Cardinality(Workers)
  /\ queue' = Append(queue, Poison)
  /\ poisons' = poisons + 1
  /\ Then(IF poisons + 1 = Cardinality(Workers) THEN "open" ELSE "poison")
  /\ UNCHANGED <<locks, sched, local, batch, jobId, closing, work, typeOfGraph>>

\* pthread_join of every thread; then the scheduler is freed.
Join ==
  /\ At("join") /\ \A w \in Workers : wpc[w] = "exited"
  /\ Then("done")
  /\ UNCHANGED <<queue, locks, sched, local, batch, jobId, closing, poisons, work, typeOfGraph>>

Main ==
  \/ ReadQuery \/ ReadF \/ ReadEnd \/ Open \/ Wake \/ Await \/ Metric
  \/ Rebuild \/ PrintResults \/ SubmitPoison \/ Join

\* The process has returned from the workload.
Finished == At("done") /\ UNCHANGED vars

Next == Main \/ Finished \/ \E w \in Workers : Worker(w)

\* pthread_cond_wait may return without a broadcast.
SpuriousWakeup(w) ==
  /\ wpc[w] = "asleep" /\ parkedThreads < ParkedBound
  /\ Go(w, "enter")
  /\ UNCHANGED <<queue, locks, sched, job, main, work, typeOfGraph>>

\* The same for main, which then tests parkedThreads again.
SpuriousMainWakeup ==
  /\ At("blocked")
  /\ Then("await")
  /\ UNCHANGED <<queue, locks, sched, local, batch, jobId, closing, poisons, work, typeOfGraph>>

PosixNext ==
  Next \/ SpuriousMainWakeup \/ \E w \in Workers : SpuriousWakeup(w)

\* Every thread that can take a step is eventually scheduled.
Fairness == WF_vars(Main) /\ \A w \in Workers : WF_vars(Worker(w))

Spec       == Init /\ [][Next]_vars /\ Fairness
ParkedSpec == ParkedInit /\ [][Next]_vars /\ Fairness
PosixSpec  == Init /\ [][PosixNext]_vars /\ Fairness

-----------------------------------------------------------------------------
(* Properties *)

\* Every variable keeps to the values its declaration in JobScheduler.h,
\* Job and the drivers give it.
TypeOK ==
  /\ queue \in Seq(QueryJobs \cup {Poison})
  /\ queueMutex \in Workers \cup {Free}
  /\ batchMutex \in Workers \cup {Free}
  /\ parkedMutex \in Workers \cup {Free}
  /\ batchfinished \in {0, 1}
  /\ parkedThreads \in Nat
  /\ wpc \in [Workers -> WorkerPoints]
  /\ job \in [Workers -> QueryJobs \cup {Poison, NoJob}]
  /\ mpc \in MainPoints
  /\ typeOfGraph \in GraphTypes
  /\ batch \in 0 .. MaxBatches
  /\ jobId \in 0 .. MaxQueries
  /\ closing \in BOOLEAN
  /\ poisons \in 0 .. Cardinality(Workers)
  /\ results \in [live : BOOLEAN, cell : [Positions -> QueryJobs \cup {NoJob}]]
  /\ index \in {"live", "freed"}
  /\ timesUsedCounter \in Nat
  /\ queriesCount \in Nat

\* takefromGQueue under queueMutex hands every query to one worker: no query
\* is twice in the queue, in two workers' hands, or in a hand and the queue.
HandedOutOnce ==
  /\ \A i, k \in 1 .. Len(queue) :
       queue[i] = queue[k] /\ queue[i].type = "Q" => i = k
  /\ \A v, w \in Workers :
       job[v].type = "Q" /\ job[v] = job[w] => v = w
  /\ \A w \in Workers, i \in 1 .. Len(queue) :
       job[w].type = "Q" => queue[i] # job[w]

\* A worker closes the batch only when it has seen the queue empty, so from the
\* moment main has opened a batch, a job left in the queue keeps it open and no
\* worker can go to sleep on it (jobScheduler.c:40-46 against 145-148).
QueuedKeepsOpen ==
  mpc \in {"wake", "await", "blocked", "join"} /\ queue # <<>>
    /\ (mpc \in {"await", "blocked"} => ~closing)
  => batchfinished = 1

\* The count is raised under parkedThreadsMutex and announced after it: when
\* main sleeps on a count that is already complete, a worker is still about to
\* announce it (jobScheduler.c:24-28 against 156-160).
NoLostWakeup ==
  mpc = "blocked" /\ parkedThreads >= Cardinality(Workers)
  => \E w \in Workers : wpc[w] \in {"parked", "announce"}

\* destroy_scheduler's poison jobs are used up one per thread: those queued,
\* those taken and the threads they ended add up to those submitted, and no
\* thread exits while a query is still queued.
OnePoisonEach ==
  /\ poisons = Cardinality({i \in 1 .. Len(queue) : queue[i] = Poison})
              + Cardinality({w \in Workers : job[w] = Poison})
              + Cardinality({w \in Workers : wpc[w] = "exited"})
  /\ (\E w \in Workers : wpc[w] = "exited")
     => \A i \in 1 .. Len(queue) : queue[i] = Poison

\* Every workload is carried out and every thread joined: no wakeup is lost
\* and no batch is left behind.
Termination == <>(mpc = "done")

\* wait_all_tasks_finish is a barrier: while main reads lines (and with them
\* changes the graph), rebuilds the index, prints or frees the table, every
\* worker is parked, so none is searching or about to answer.
Barrier ==
  mpc \in {"read", "metric", "rebuild", "print", "poison"}
  => \A w \in Workers : wpc[w] \in Counted

\* What main prints for a batch is the answer to each of its queries, in the
\* order of the workload.
PrintedComplete ==
  mpc = "print" => \A p \in 0 .. (jobId - 1) : results.cell[p] = Query(batch, p)

\* A worker with a query searches an index and answers into a table that main
\* has not freed, and the table is the one of that query's batch.
LiveWhileBusy ==
  \A w \in Workers :
    wpc[w] \in Busy /\ job[w].type = "Q"
    => /\ index = "live" /\ results.live
       /\ job[w].batch = batch /\ job[w].poss < jobId

\* Between two rebuilds a query raises timesUsedCounter at most once and main
\* never resets under a worker's feet: the ratio estimateMetric computes is <= 1.
UsesWithinQueries == timesUsedCounter <= queriesCount
=============================================================================
