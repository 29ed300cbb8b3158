------------------------- MODULE JobSchedulerProofs -------------------------
(***************************************************************************)
(* Theorems about JobScheduler.tla, for any number of threads and jobs.    *)
(***************************************************************************)
EXTENDS JobSchedulerInv, TLAPS, FiniteSetTheorems, SequenceTheorems

\* There is at least one thread, so a count of them is a positive number.
LEMMA WorkersCard == Cardinality(Workers) \in Nat /\ Cardinality(Workers) > 0
  BY WorkersAssumption, FS_CardinalityType, FS_EmptySet

\* A batch is not opened beyond the last F line, whoever wakes up when.
LEMMA BatchBoundStep ==
  ASSUME TypeOK, BatchBound, [PosixNext]_vars
  PROVE  BatchBound'
<1> USE DEF BatchBound, BatchPoints
<1>1. ASSUME NEW w \in Workers, Worker(w)
      PROVE  BatchBound'
  <2> USE <1>1 DEF main, work, At, Then
  <2>1. ASSUME Announce(w) PROVE BatchBound'
    BY <2>1 DEF Announce, TypeOK, MainPoints
  <2>2. CASE ~Announce(w)
    BY <2>2 DEF Worker, Enter, Park, UnlockParked, Sleep, Leave, Fetch, Close,
       UnlockClosed, Release, Exit, Search, CountUse, Write
  <2> QED BY <2>1, <2>2
<1>2. CASE Main
  BY <1>2, BoundsAssumption DEF Main, main, At, Then, TypeOK, MainPoints, ReadQuery, ReadF, ReadEnd, Open, Wake,
     Await, Metric, Rebuild, PrintResults, SubmitPoison, Join
<1>3. ASSUME UNCHANGED main PROVE BatchBound'
  BY <1>3 DEF main
<1>4. CASE SpuriousMainWakeup
  BY <1>4 DEF SpuriousMainWakeup, At, Then
<1>5. ASSUME NEW w \in Workers, SpuriousWakeup(w) PROVE UNCHANGED main
  BY <1>5 DEF SpuriousWakeup
<1>6. CASE Finished \/ UNCHANGED vars
  BY <1>6, <1>3 DEF Finished, vars
<1> QED BY <1>1, <1>2, <1>3, <1>4, <1>5, <1>6 DEF PosixNext, Next

\* The initial states of the three specifications are of the right types.
LEMMA TypeInit == Init \/ ParkedInit => TypeOK
<1> USE WorkersCard, BoundsAssumption, WorkloadAssumption
<1> SUFFICES ASSUME Init \/ ParkedInit PROVE TypeOK
  OBVIOUS
<1>1. MachineInit
  BY DEF Init, ParkedInit
<1>2. /\ wpc \in [Workers -> WorkerPoints]
      /\ parkedThreads \in Nat
  BY DEF Init, ParkedInit, WorkerPoints
<1>3. /\ queue \in Seq(QueryJobs \cup {Poison})
      /\ job \in [Workers -> QueryJobs \cup {Poison, NoJob}]
      /\ results \in [live : BOOLEAN, cell : [Positions -> QueryJobs \cup {NoJob}]]
  BY <1>1 DEF MachineInit, Freed
<1>4. /\ batch \in 0 .. MaxBatches /\ jobId \in 0 .. MaxQueries
      /\ poisons \in 0 .. Cardinality(Workers)
  BY <1>1 DEF MachineInit
<1> QED BY <1>1, <1>2, <1>3, <1>4 DEF MachineInit, TypeOK, MainPoints

\* Every step keeps every variable in its type.
LEMMA TypeStep ==
  ASSUME TypeOK, BatchBound, [PosixNext]_vars
  PROVE  TypeOK'
<1> USE WorkersCard, BoundsAssumption, WorkloadAssumption
<1>1. ASSUME NEW w \in Workers, Worker(w)
      PROVE  TypeOK'
  <2> USE <1>1 DEF TypeOK, main, work, locks, sched, Go, WorkerPoints
  <2>1. CASE Enter(w)        BY <2>1 DEF Enter
  <2>2. CASE Park(w)         BY <2>2 DEF Park
  <2>3. CASE UnlockParked(w) BY <2>3 DEF UnlockParked
  <2>4. CASE Announce(w)     BY <2>4 DEF Announce, MainPoints
  <2>5. CASE Sleep(w)        BY <2>5 DEF Sleep
  <2>6. CASE Leave(w)        BY <2>6 DEF Leave
  <2>7. CASE Fetch(w)
    <3>1. CASE queue # <<>>
      <4>1. Head(queue) \in QueryJobs \cup {Poison} /\ Tail(queue) \in Seq(QueryJobs \cup {Poison})
        BY <3>1
      <4>2. /\ queue' \in Seq(QueryJobs \cup {Poison})
            /\ job' \in [Workers -> QueryJobs \cup {Poison, NoJob}]
            /\ wpc' \in [Workers -> WorkerPoints]
        BY ZenonT(40), <2>7, <3>1, <4>1 DEF Fetch
      <4> QED BY <2>7, <4>2 DEF Fetch
    <3>2. CASE queue = <<>>  BY <2>7, <3>2 DEF Fetch
    <3> QED BY <3>1, <3>2
  <2>8. CASE Close(w)        BY <2>8 DEF Close
  <2>9. CASE UnlockClosed(w) BY <2>9 DEF UnlockClosed
  <2>10. CASE Release(w)     BY <2>10 DEF Release
  <2>11. CASE Exit(w)        BY <2>11 DEF Exit
  <2>12. CASE Search(w)      BY <2>12 DEF Search
  <2>13. CASE CountUse(w)    BY <2>13 DEF CountUse
  <2>14. CASE Write(w)
    <3>1. results' \in [live : BOOLEAN, cell : [Positions -> QueryJobs \cup {NoJob}]]
      <4>1. CASE job[w].poss \in Positions
        <5>1. job[w] \in QueryJobs \cup {NoJob}
          BY <4>1 DEF Positions, Poison, NoJob
        <5> QED BY <2>14, <5>1 DEF Write
      <4>2. CASE job[w].poss \notin Positions
        <5>1. [results.cell EXCEPT ![job[w].poss] = job[w]] = results.cell
          BY <4>2
        <5> QED BY <2>14, <5>1 DEF Write
      <4> QED BY <4>1, <4>2
    <3>2. job' \in [Workers -> QueryJobs \cup {Poison, NoJob}]
      BY <2>14 DEF Write
    <3> QED BY <2>14, <3>1, <3>2 DEF Write
  <2> QED
    BY <2>1, <2>2, <2>3, <2>4, <2>5, <2>6, <2>7, <2>8, <2>9, <2>10, <2>11, <2>12,
       <2>13, <2>14 DEF Worker
<1>2. ASSUME Main
      PROVE  TypeOK'
  <2> USE <1>2 DEF TypeOK, MainPoints, locks, sched, local, work, At, Then
  <2>1. CASE ReadQuery
    <3>1. Query(batch, jobId) \in QueryJobs
      BY SMTT(30), <2>1 DEF ReadQuery, QueryJobs, Positions
    <3>2. queue' \in Seq(QueryJobs \cup {Poison})
      BY <2>1, <3>1 DEF ReadQuery
    <3> QED BY <2>1, <3>2 DEF ReadQuery
  <2>2. CASE ReadF           BY <2>2 DEF ReadF, NewTable
  <2>3. CASE ReadEnd         BY <2>3 DEF ReadEnd
  <2>4. CASE Open            BY <2>4 DEF Open
  <2>5. CASE Wake            BY <2>5 DEF Wake, WorkerPoints
  <2>6. CASE Await           BY <2>6 DEF Await
  <2>7. CASE Metric          BY <2>7 DEF Metric
  <2>8. CASE Rebuild         BY <2>8 DEF Rebuild
  <2>9. CASE PrintResults    BY <2>9 DEF PrintResults, Freed, BatchBound, BatchPoints
  <2>10. CASE SubmitPoison   BY <2>10 DEF SubmitPoison
  <2>11. CASE Join           BY <2>11 DEF Join
  <2> QED
    BY <2>1, <2>2, <2>3, <2>4, <2>5, <2>6, <2>7, <2>8, <2>9, <2>10, <2>11 DEF Main
<1>3. CASE SpuriousMainWakeup
  BY <1>3 DEF SpuriousMainWakeup, TypeOK, MainPoints, locks, sched, local, work, At, Then
<1>4. ASSUME NEW w \in Workers, SpuriousWakeup(w)
      PROVE  TypeOK'
  BY <1>4 DEF SpuriousWakeup, TypeOK, WorkerPoints, locks, sched, main, work, Go
<1>5. CASE Finished \/ UNCHANGED vars
  BY <1>5 DEF Finished, vars, locks, sched, local, main, work, TypeOK
<1> QED BY <1>1, <1>2, <1>3, <1>4, <1>5 DEF PosixNext, Next

-----------------------------------------------------------------------------
(* Type correctness, whatever the threads' start and the waits' returns *)

\* No batch is open before the first line is read.
LEMMA BatchBoundInit == Init \/ ParkedInit => BatchBound
  BY DEF Init, ParkedInit, MachineInit, BatchBound, BatchPoints

\* No interleaving of the threads, early wakeups included, takes a variable
\* of the scheduler or of the drivers out of its declared range.
THEOREM PosixTyped == PosixSpec => []TypeOK
<1>1. Init => TypeOK /\ BatchBound
  BY TypeInit, BatchBoundInit
<1>2. TypeOK /\ BatchBound /\ [PosixNext]_vars => (TypeOK /\ BatchBound)'
  BY TypeStep, BatchBoundStep
<1> QED BY <1>1, <1>2, PTL DEF PosixSpec

\* The same from the parked start.
THEOREM ParkedTyped == ParkedSpec => [](TypeOK /\ BatchBound)
<1>1. ParkedInit => TypeOK /\ BatchBound
  BY TypeInit, BatchBoundInit
<1>2. TypeOK /\ BatchBound /\ [Next]_vars => (TypeOK /\ BatchBound)'
  BY TypeStep, BatchBoundStep DEF PosixNext
<1> QED BY <1>1, <1>2, PTL DEF ParkedSpec

-----------------------------------------------------------------------------
(* The parts of BarrierInv, each kept by every step *)

\* A mutex is held by the worker inside its critical section and by no other.
LEMMA LockStep ==
  ASSUME TypeOK, LockOwners, [PosixNext]_vars
  PROVE  LockOwners'
<1> USE FreeAssumption DEF LockOwners, HasBatch, HasQueue
<1>1. ASSUME NEW w \in Workers, Worker(w)
      PROVE  LockOwners'
  <2> USE <1>1 DEF TypeOK, WorkerPoints, Go
  <2>1. CASE Enter(w)        BY <2>1 DEF Enter
  <2>2. CASE Park(w)         BY <2>2 DEF Park
  <2>3. CASE UnlockParked(w) BY <2>3 DEF UnlockParked
  <2>4. CASE Announce(w)     BY <2>4 DEF Announce, locks
  <2>5. CASE Sleep(w)        BY <2>5 DEF Sleep
  <2>6. CASE Leave(w)        BY <2>6 DEF Leave
  <2>7. CASE Fetch(w)        BY <2>7 DEF Fetch
  <2>8. CASE Close(w)        BY <2>8 DEF Close
  <2>9. CASE UnlockClosed(w) BY <2>9 DEF UnlockClosed
  <2>10. CASE Release(w)     BY <2>10 DEF Release
  <2>11. CASE Exit(w)        BY <2>11 DEF Exit, locks
  <2>12. CASE Search(w)      BY <2>12 DEF Search, locks
  <2>13. CASE CountUse(w)    BY <2>13 DEF CountUse, locks
  <2>14. CASE Write(w)       BY <2>14 DEF Write, locks
  <2> QED
    BY <2>1, <2>2, <2>3, <2>4, <2>5, <2>6, <2>7, <2>8, <2>9, <2>10, <2>11, <2>12,
       <2>13, <2>14 DEF Worker
<1>2. CASE Wake
  BY <1>2 DEF Wake, locks, TypeOK, WorkerPoints
<1>3. CASE Main /\ ~Wake
  BY <1>3 DEF Main, locks, local, ReadQuery, ReadF, ReadEnd, Open, Await, Metric,
     Rebuild, PrintResults, SubmitPoison, Join
<1>4. ASSUME NEW w \in Workers, SpuriousWakeup(w)
      PROVE  LockOwners'
  BY <1>4 DEF SpuriousWakeup, Go, locks, TypeOK, WorkerPoints
<1>5. CASE SpuriousMainWakeup \/ Finished \/ UNCHANGED vars
  BY <1>5 DEF SpuriousMainWakeup, Finished, vars, locks, local
<1> QED BY <1>1, <1>2, <1>3, <1>4, <1>5 DEF PosixNext, Next

\* A worker holds a job from Fetch to Write and at no other point.
LEMMA JobsHeldStep ==
  ASSUME TypeOK, JobsHeld, [PosixNext]_vars
  PROVE  JobsHeld'
<1> USE DEF JobsHeld, Busy
<1>1. ASSUME NEW w \in Workers, Worker(w)
      PROVE  JobsHeld'
  <2> USE <1>1 DEF TypeOK, WorkerPoints, Go
  <2>1. CASE Enter(w)        BY <2>1 DEF Enter
  <2>2. CASE Park(w)         BY <2>2 DEF Park
  <2>3. CASE UnlockParked(w) BY <2>3 DEF UnlockParked
  <2>4. CASE Announce(w)     BY <2>4 DEF Announce
  <2>5. CASE Sleep(w)        BY <2>5 DEF Sleep
  <2>6. CASE Leave(w)        BY <2>6 DEF Leave
  <2>7. CASE Fetch(w)        BY <2>7 DEF Fetch
  <2>8. CASE Close(w)        BY <2>8 DEF Close
  <2>9. CASE UnlockClosed(w) BY <2>9 DEF UnlockClosed
  <2>10. CASE Release(w)     BY <2>10 DEF Release
  <2>11. CASE Exit(w)        BY <2>11 DEF Exit
  <2>12. CASE Search(w)      BY <2>12 DEF Search
  <2>13. CASE CountUse(w)    BY <2>13 DEF CountUse
  <2>14. CASE Write(w)       BY <2>14 DEF Write
  <2> QED
    BY <2>1, <2>2, <2>3, <2>4, <2>5, <2>6, <2>7, <2>8, <2>9, <2>10, <2>11, <2>12,
       <2>13, <2>14 DEF Worker
<1>2. CASE Wake
  BY <1>2 DEF Wake, TypeOK, WorkerPoints
<1>3. CASE Main /\ ~Wake
  BY <1>3 DEF Main, local, ReadQuery, ReadF, ReadEnd, Open, Await, Metric,
     Rebuild, PrintResults, SubmitPoison, Join
<1>4. ASSUME NEW w \in Workers, SpuriousWakeup(w)
      PROVE  JobsHeld'
  BY <1>4 DEF SpuriousWakeup, Go, TypeOK, WorkerPoints
<1>5. CASE SpuriousMainWakeup \/ Finished \/ UNCHANGED vars
  BY <1>5 DEF SpuriousMainWakeup, Finished, vars, local
<1> QED BY <1>1, <1>2, <1>3, <1>4, <1>5 DEF PosixNext, Next

\* Main in a quiet or waiting point sees exactly the workers that are parked.
LEMMA ParkedCountStep ==
  ASSUME TypeOK, LockOwners, ParkedCount, [Next]_vars
  PROVE  ParkedCount'
<1> USE DEF ParkedCount, QuietPoints, WaitPoints
<1>0. /\ IsFiniteSet(ParkedWorkers) /\ ParkedWorkers \subseteq Workers
      /\ Cardinality(ParkedWorkers) \in Nat
  BY WorkersAssumption, FS_Subset, FS_CardinalityType DEF ParkedWorkers
<1>1. ASSUME NEW w \in Workers, Park(w)
      PROVE  ParkedCount'
  <2>1. w \notin ParkedWorkers /\ mpc' = mpc /\ mpc \notin QuietPoints \cup {"wake"}
    BY <1>1 DEF Park, main, Counted, ParkedWorkers
  <2>2. ParkedWorkers' = ParkedWorkers \cup {w}
    BY <1>1 DEF Park, Go, TypeOK, WorkerPoints, ParkedWorkers, Counted
  <2>3. Cardinality(ParkedWorkers') = Cardinality(ParkedWorkers) + 1
    BY <1>0, <2>1, <2>2, FS_AddElement
  <2> QED BY <1>1, <2>1, <2>3 DEF Park
<1>2. ASSUME NEW w \in Workers, UnlockParked(w) \/ Announce(w) \/ Sleep(w)
      PROVE  ParkedCount'
  <2>1. /\ ParkedWorkers' = ParkedWorkers
        /\ \A v \in Workers : wpc[v] \in Counted => wpc'[v] \in Counted
        /\ parkedThreads' = parkedThreads
        /\ wpc[w] # "asleep"
    BY <1>2 DEF UnlockParked, Announce, Sleep, Go, sched, TypeOK, WorkerPoints,
       ParkedWorkers, Counted
  <2>2. mpc' = mpc \/ (mpc = "blocked" /\ mpc' = "await")
    BY <1>2 DEF UnlockParked, Announce, Sleep, main
  <2>3. mpc # "wake"
    BY <2>1
  <2>4. CASE mpc' = mpc
    BY <2>1, <2>3, <2>4
  <2>5. CASE mpc = "blocked" /\ mpc' = "await"
    BY <2>1, <2>5
  <2> QED BY <2>2, <2>4, <2>5
<1>3. ASSUME NEW w \in Workers, Worker(w),
             ~Park(w), ~UnlockParked(w), ~Announce(w), ~Sleep(w)
      PROVE  ParkedCount'
  <2>1. /\ mpc' = mpc /\ parkedThreads' = parkedThreads
        /\ wpc[w] \notin Counted
        /\ ParkedWorkers' = ParkedWorkers
    BY <1>3 DEF Worker, Enter, Leave, Fetch, Close, UnlockClosed, Release, Exit,
       Search, CountUse, Write, Go, main, sched, TypeOK, WorkerPoints, ParkedWorkers, Counted
  <2>2. mpc \notin QuietPoints \cup {"wake"}
    BY <2>1 DEF Counted
  <2> QED BY <2>1, <2>2
<1>4. CASE Await
  <2>1. /\ parkedThreads' = parkedThreads /\ ParkedWorkers' = ParkedWorkers
        /\ mpc' # "wake"
    BY <1>4 DEF Await, sched, local, At, Then, ParkedWorkers
  <2>2. parkedThreads = Cardinality(ParkedWorkers)
    BY <1>4 DEF Await, At
  <2>3. CASE parkedThreads < Cardinality(Workers)
    BY <1>4, <2>1, <2>2, <2>3 DEF Await, Then
  <2>4. CASE ~(parkedThreads < Cardinality(Workers))
    <3>1. ParkedWorkers = Workers
      BY <1>0, <2>2, <2>4, WorkersAssumption, WorkersCard, FS_Subset
    <3>2. \A w \in Workers : wpc[w] \in Counted
      BY <3>1 DEF ParkedWorkers
    <3> QED BY <1>4, <2>1, <2>2, <3>2 DEF Await, local
  <2> QED BY <2>3, <2>4
<1>5. CASE Open
  <2>1. \A w \in Workers : wpc[w] = "asleep"
    BY <1>5, FreeAssumption DEF Open, At, LockOwners, HasBatch, Counted
  <2> QED BY <1>5, <2>1 DEF Open, Then, local
<1>6. CASE Wake
  <2>1. ParkedWorkers' = {}
    BY <1>6 DEF Wake, At, ParkedWorkers, Counted
  <2>2. parkedThreads' = Cardinality(ParkedWorkers')
    BY <1>6, <2>1, FS_EmptySet DEF Wake, At, sched
  <2> QED BY <1>6, <2>2 DEF Wake, Then
<1>7. CASE Main /\ ~Await /\ ~Open /\ ~Wake
  BY <1>7 DEF Main, ReadQuery, ReadF, ReadEnd, Metric, Rebuild, PrintResults,
     SubmitPoison, Join, At, Then, sched, local, ParkedWorkers
<1>8. CASE Finished \/ UNCHANGED vars
  BY <1>8 DEF Finished, vars, sched, local, main, ParkedWorkers
<1> QED BY <1>1, <1>2, <1>3, <1>4, <1>5, <1>6, <1>7, <1>8 DEF Next

\* A worker parks in a closed batch only, and closing found the queue empty.
LEMMA ClosedAndEmptyStep ==
  ASSUME TypeOK, BatchBound, LockOwners, ParkedCount, ClosedAndEmpty, [Next]_vars
  PROVE  ClosedAndEmpty'
<1> USE DEF ClosedAndEmpty, QuietPoints, WaitPoints
<1>1. ASSUME NEW w \in Workers, Worker(w)
      PROVE  ClosedAndEmpty'
  <2> USE <1>1 DEF TypeOK, WorkerPoints, Go, Counted, main, sched
  <2>1. CASE Enter(w)        BY <2>1 DEF Enter
  <2>2. CASE Park(w)         BY <2>2 DEF Park
  <2>3. CASE UnlockParked(w) BY <2>3 DEF UnlockParked
  <2>4. CASE Announce(w)
    <3>1. /\ wpc[w] \in Counted /\ queue' = queue /\ batchfinished' = batchfinished
          /\ closing' = closing
          /\ wpc' = [wpc EXCEPT ![w] = "sleep"]
      BY <2>4 DEF Announce
    <3>2. mpc' = mpc \/ (mpc = "blocked" /\ mpc' = "await")
      BY <2>4 DEF Announce
    <3> QED BY <3>1, <3>2
  <2>5. CASE Sleep(w)        BY <2>5 DEF Sleep
  <2>6. CASE Leave(w)        BY <2>6 DEF Leave
  <2>7. CASE Fetch(w)
    <3>1. \A v \in Workers : wpc[v] \notin {"close", "closed"}
      BY <2>7, FreeAssumption DEF Fetch, LockOwners, HasQueue
    <3>2. CASE queue # <<>>
      BY <2>7, <3>1, <3>2 DEF Fetch
    <3>3. CASE queue = <<>>
      BY <2>7, <3>1, <3>3 DEF Fetch
    <3> QED BY <3>2, <3>3
  <2>8. CASE Close(w)        BY <2>8 DEF Close, ParkedCount
  <2>9. CASE UnlockClosed(w) BY <2>9 DEF UnlockClosed
  <2>10. CASE Release(w)     BY <2>10 DEF Release
  <2>11. CASE Exit(w)        BY <2>11 DEF Exit
  <2>12. CASE Search(w)      BY <2>12 DEF Search
  <2>13. CASE CountUse(w)    BY <2>13 DEF CountUse
  <2>14. CASE Write(w)       BY <2>14 DEF Write
  <2> QED
    BY <2>1, <2>2, <2>3, <2>4, <2>5, <2>6, <2>7, <2>8, <2>9, <2>10, <2>11, <2>12,
       <2>13, <2>14 DEF Worker
<1>2. CASE ReadQuery \/ SubmitPoison
  <2>1. \A v \in Workers : wpc[v] \notin {"close", "closed"}
    BY <1>2, FreeAssumption DEF ReadQuery, SubmitPoison, LockOwners, HasQueue
  <2> QED BY <1>2, <2>1 DEF ReadQuery, SubmitPoison, At, Then, sched, local
<1>3. CASE Open
  BY <1>3 DEF Open, Then, local
<1>4. CASE Wake
  <2>1. \A w \in Workers : wpc'[w] = "enter"
    BY <1>4 DEF Wake, At, ParkedCount
  <2>2. /\ mpc = "wake" /\ mpc' \in {"join", "await"}
        /\ queue' = queue /\ batchfinished' = batchfinished
    BY <1>4 DEF Wake, At, Then, sched
  <2> QED BY <2>1, <2>2 DEF Counted
<1>5. CASE Await
  <2>1. /\ wpc' = wpc /\ queue' = queue /\ batchfinished' = batchfinished
        /\ closing' = closing
    BY <1>5 DEF Await, local, sched
  <2>2. CASE mpc' = "blocked"
    BY <1>5, <2>1, <2>2 DEF Await, At
  <2>3. CASE mpc' = "poison"
    BY <1>5, <2>1, <2>3 DEF Await, At
  <2>4. CASE ~closing /\ mpc' \in {"metric", "print"}
    <3>1. ParkedCount'
      BY ParkedCountStep
    <3>2. \A w \in Workers : wpc[w] \in Counted
      BY <2>1, <2>4, <3>1 DEF ParkedCount
    <3>3. batchfinished = 0
      BY <1>5, <3>2, WorkersAssumption DEF Await, At
    <3> QED BY <1>5, <2>1, <2>4, <3>3 DEF Await, At
  <2> QED BY <1>5, <2>2, <2>3, <2>4 DEF Await, Then
<1>6. CASE ReadF \/ ReadEnd \/ Metric \/ Rebuild \/ PrintResults \/ Join
  BY <1>6 DEF ReadF, ReadEnd, Metric, Rebuild, PrintResults, Join, At, Then, sched, local
<1>7. CASE Finished \/ UNCHANGED vars
  BY <1>7 DEF Finished, vars, sched, local, main
<1> QED BY <1>1, <1>2, <1>3, <1>4, <1>5, <1>6, <1>7 DEF Next, Main

\* What taking the head of a job queue leaves.
LEMMA TailJobs ==
  ASSUME NEW S, NEW q \in Seq(S), q # <<>>
  PROVE  /\ Len(q) \in Nat \ {0} /\ Head(q) = q[1]
         /\ Len(Tail(q)) = Len(q) - 1
         /\ \A i \in 1 .. Len(Tail(q)) : Tail(q)[i] = q[i + 1]
  OBVIOUS

\* A query is known by its batch and its position, and no other job is one.
LEMMA QueryFields ==
  /\ \A q \in QueryJobs :
       /\ q.type = "Q" /\ q = Query(q.batch, q.poss)
       /\ q.batch \in 0 .. MaxBatches /\ q.poss \in Positions
  /\ \A q \in QueryJobs \cup {Poison, NoJob} : q.type = "Q" => q \in QueryJobs
  BY DEF QueryJobs, Query, Poison, NoJob

\* No query outlives its batch, and no batch its table and index.
LEMMA JobsCurrentStep ==
  ASSUME TypeOK, BatchBound, JobsHeld, ParkedCount, ClosedAndEmpty, JobsCurrent, [Next]_vars
  PROVE  JobsCurrent'
<1> USE DEF JobsCurrent, BatchPoints
<1>1. ASSUME NEW w \in Workers, Worker(w)
      PROVE  JobsCurrent'
  <2> USE <1>1 DEF TypeOK, work
  <2>1. CASE Fetch(w) /\ queue # <<>>
    <3>1. UNCHANGED <<batch, jobId, closing, mpc, results, index>>
      BY <2>1 DEF Fetch, main
    <3>2. \A i \in 1 .. Len(queue') : i + 1 \in 1 .. Len(queue) /\ queue'[i] = queue[i + 1]
      <4>1. queue \in Seq(QueryJobs \cup {Poison}) /\ queue # <<>> /\ queue' = Tail(queue)
        BY <2>1 DEF Fetch
      <4>2. /\ Len(queue) \in Nat \ {0} /\ Len(Tail(queue)) = Len(queue) - 1
            /\ \A i \in 1 .. Len(Tail(queue)) : Tail(queue)[i] = queue[i + 1]
        BY <4>1, TailJobs
      <4> QED BY <4>1, <4>2
    <3>3. \A i \in 1 .. Len(queue') :
            queue'[i].type = "Q" => queue'[i].batch = batch /\ queue'[i].poss < jobId
      BY <3>2
    <3>4. job' = [job EXCEPT ![w] = queue[1]] /\ 1 \in 1 .. Len(queue)
      BY <2>1, TailJobs DEF Fetch
    <3>5. \A v \in Workers :
            job'[v].type = "Q" => job'[v].batch = batch /\ job'[v].poss < jobId
      BY <3>4
    <3> QED BY <3>1, <3>3, <3>5
  <2>2. CASE Fetch(w) /\ queue = <<>>
    BY <2>2 DEF Fetch, main
  <2>3. CASE Announce(w)
    <3>1. /\ UNCHANGED <<queue, job, batch, jobId, closing, results, index>>
          /\ mpc' = mpc \/ (mpc = "blocked" /\ mpc' = "await")
      BY <2>3 DEF Announce
    <3> QED BY <3>1
  <2>4. CASE Write(w) \/ Exit(w)
    <3>1. UNCHANGED <<queue, batch, jobId, closing, mpc, index>>
      BY <2>4 DEF Write, Exit, main
    <3>2. results'.live = results.live
      <4>1. CASE results' = results
        BY <4>1
      <4>2. CASE results' # results
        <5>1. results.live /\ results'.live = TRUE
          BY <2>4, <4>2 DEF Write, Exit
        <5> QED BY <5>1
      <4> QED BY <4>1, <4>2
    <3>3. job' = [job EXCEPT ![w] = NoJob]
      BY <2>4 DEF Write, Exit
    <3> QED BY <3>1, <3>2, <3>3 DEF NoJob
  <2>5. CASE Worker(w) /\ ~Fetch(w) /\ ~Announce(w) /\ ~Write(w) /\ ~Exit(w)
    <3>1. UNCHANGED <<queue, job, batch, jobId, closing, mpc, results, index>>
      BY <2>5 DEF Worker, Enter, Park, UnlockParked, Sleep, Leave, Close, UnlockClosed,
         Release, Search, CountUse, main
    <3> QED BY <3>1
  <2> QED BY <2>1, <2>2, <2>3, <2>4, <2>5
<1>2. CASE ReadQuery
  <2>1. /\ UNCHANGED <<job, batch, closing, mpc, results, index>> /\ mpc = "read"
        /\ jobId' = jobId + 1 /\ queue' = Append(queue, Query(batch, jobId))
    BY <1>2 DEF ReadQuery, local, At
  <2>2. ~closing
    BY <2>1 DEF BatchBound
  <2>3. \A i \in 1 .. Len(queue') :
          queue'[i].type = "Q" => queue'[i].batch = batch /\ queue'[i].poss < jobId'
    <3>1. queue \in Seq(QueryJobs \cup {Poison}) /\ jobId \in Nat
      BY BoundsAssumption DEF TypeOK
    <3>2. \A i \in 1 .. Len(queue') :
            (i \in 1 .. Len(queue) /\ queue'[i] = queue[i]) \/ queue'[i] = Query(batch, jobId)
      BY <2>1, <3>1, AppendProperties
    <3>3. \A i \in 1 .. Len(queue) :
            queue[i].type = "Q" => /\ queue[i] \in QueryJobs
                                   /\ queue[i].batch = batch /\ queue[i].poss < jobId
      BY <3>1, QueryFields DEF JobsCurrent
    <3>4. \A q \in QueryJobs : q.poss < jobId => q.poss < jobId + 1
      BY <3>1, QueryFields, BoundsAssumption DEF Positions
    <3>5. Query(batch, jobId).batch = batch /\ Query(batch, jobId).poss < jobId + 1
      BY <3>1 DEF Query
    <3> QED BY <2>1, <3>2, <3>3, <3>4, <3>5
  <2>4. \A w \in Workers :
          job[w].type = "Q" => job[w].batch = batch /\ job[w].poss < jobId'
    <3> SUFFICES ASSUME NEW w \in Workers, job[w].type = "Q"
                 PROVE  job[w].batch = batch /\ job[w].poss < jobId + 1
      BY <2>1
    <3>1. job[w].poss \in Positions /\ jobId \in Nat
      BY QueryFields, BoundsAssumption DEF TypeOK
    <3> QED BY <3>1, BoundsAssumption DEF Positions
  <2> QED BY <2>1, <2>2, <2>3, <2>4
<1>3. CASE SubmitPoison
  <2>1. /\ UNCHANGED <<job, batch, jobId, closing, results, index>> /\ mpc = "poison"
        /\ queue' = Append(queue, Poison) /\ mpc' \in {"open", "poison"}
    BY <1>3 DEF SubmitPoison, local, work, At, Then
  <2>2. closing
    BY <2>1 DEF BatchBound
  <2>3. \A i \in 1 .. Len(queue') :
          queue'[i].type = "Q" => queue'[i].batch = batch /\ queue'[i].poss < jobId
    BY <2>1 DEF TypeOK, Poison
  <2> QED BY <2>1, <2>2, <2>3
<1>4. CASE PrintResults
  <2>1. queue = <<>> /\ \A w \in Workers : job[w] = NoJob
    BY <1>4 DEF PrintResults, At, ClosedAndEmpty, ParkedCount, QuietPoints, JobsHeld, Counted, Busy
  <2>2. /\ UNCHANGED <<queue, job, closing, index>> /\ jobId' = 0
        /\ mpc' = "read" /\ results' = Freed /\ mpc = "print"
    BY <1>4 DEF PrintResults, local, At, Then
  <2> QED BY <2>1, <2>2 DEF NoJob, Freed, BatchBound
<1>5. CASE ReadF \/ ReadEnd
  BY <1>5, WorkloadAssumption DEF ReadF, ReadEnd, NewTable, At, Then, local
<1>6. CASE Open \/ Wake \/ Await \/ Metric \/ Rebuild \/ Join
  <2>1. /\ UNCHANGED <<queue, job, batch, jobId, closing, results, index>>
        /\ mpc \in BatchPoints \/ closing
        /\ mpc' # "read"
    BY <1>6 DEF Open, Wake, Await, Metric, Rebuild, Join, At, Then, local, work, BatchBound
  <2> QED BY <2>1
<1>7. CASE Finished \/ UNCHANGED vars
  BY <1>7 DEF Finished, vars, local, main, work
<1> QED BY <1>1, <1>2, <1>3, <1>4, <1>5, <1>6, <1>7 DEF Next, Main

\* No query of the batch is ever lost: it waits, is in hand, or is answered.
LEMMA JobsAccountedStep ==
  ASSUME TypeOK, BatchBound, LockOwners, JobsHeld, ParkedCount, ClosedAndEmpty,
         JobsCurrent, JobsAccounted, [Next]_vars
  PROVE  JobsAccounted'
<1> SUFFICES ASSUME ~closing', NEW p \in 0 .. (jobId' - 1),
                    NEW q, q = Query(batch', p)
             PROVE  Queued(q)' \/ InHand(q)' \/ Answered(q)'
  BY DEF JobsAccounted, Queued, InHand, Answered
<1>a. q.poss = p /\ q.type = "Q" /\ q.batch = batch'
  BY DEF Query
<1>b. p \in Int /\ jobId \in Nat /\ jobId <= MaxQueries
  BY BoundsAssumption DEF TypeOK
<1>c. ASSUME batch' = batch, p \in 0 .. (jobId - 1), ~closing
      PROVE  Queued(q) \/ InHand(q) \/ Answered(q)
  BY <1>c DEF JobsAccounted
<1>1. ASSUME NEW w \in Workers, Worker(w), UNCHANGED <<batch, jobId, closing>>
      PROVE  Queued(q)' \/ InHand(q)' \/ Answered(q)'
  <2>1. Queued(q) \/ InHand(q) \/ Answered(q)
    BY <1>1, <1>c
  <2>2. CASE Fetch(w) /\ queue # <<>>
    <3>1. /\ queue \in Seq(QueryJobs \cup {Poison}) /\ queue' = Tail(queue)
          /\ job' = [job EXCEPT ![w] = queue[1]] /\ results' = results /\ job[w] = NoJob
          /\ job \in [Workers -> QueryJobs \cup {Poison, NoJob}]
      BY SMTT(30), <2>2, TailJobs DEF Fetch, TypeOK, work, JobsHeld, Busy
    <3>2. CASE Answered(q)
      BY <3>1, <3>2 DEF Answered
    <3>3. CASE InHand(q)
      <4>1. PICK v \in Workers : job[v] = q
        BY <3>3 DEF InHand
      <4>2. v # w
        BY <4>1, <3>1, <1>a DEF NoJob
      <4> QED BY <4>1, <4>2, <3>1 DEF InHand
    <3>4. CASE Queued(q)
      <4>1. PICK i \in 1 .. Len(queue) : queue[i] = q
        BY <3>4 DEF Queued
      <4>2. CASE i = 1
        BY <3>1, <4>1, <4>2 DEF InHand
      <4>3. CASE i # 1
        <5>1. /\ Len(queue) \in Nat \ {0} /\ Len(queue') = Len(queue) - 1
              /\ \A k \in 1 .. Len(queue') : queue'[k] = queue[k + 1]
          BY <2>2, <3>1, TailJobs
        <5>2. i - 1 \in 1 .. Len(queue') /\ (i - 1) + 1 = i
          BY <4>1, <4>3, <5>1
        <5>3. queue'[i - 1] = q
          BY <4>1, <5>1, <5>2
        <5> QED BY <5>2, <5>3 DEF Queued
      <4> QED BY <4>2, <4>3
    <3> QED BY <2>1, <3>2, <3>3, <3>4
  <2>3. CASE Write(w)
    <3>1. /\ queue' = queue /\ job' = [job EXCEPT ![w] = NoJob]
          /\ job \in [Workers -> QueryJobs \cup {Poison, NoJob}]
          /\ job[w].type = "Q" /\ mpc' = mpc
      BY <2>3 DEF Write, TypeOK, JobsHeld, main
    <3>2. results.live
      <4>1. wpc[w] \notin Counted /\ wpc[w] # "asleep"
        BY <2>3 DEF Write, Counted
      <4>2. mpc \notin QuietPoints \cup {"wake"}
        BY <4>1 DEF ParkedCount
      <4>3. mpc \in BatchPoints
        BY <4>2, <1>1 DEF QuietPoints, BatchPoints, BatchBound, TypeOK, MainPoints
      <4> QED BY <4>3, <1>1 DEF JobsCurrent
    <3>3. /\ results'.live
          /\ results'.cell = [results.cell EXCEPT ![job[w].poss] = job[w]]
          /\ results.cell \in [Positions -> QueryJobs \cup {NoJob}]
      BY <2>3, <3>2 DEF Write, TypeOK
    <3>4. job[w] \in QueryJobs /\ job[w] = Query(batch, job[w].poss) /\ job[w].poss \in Positions
      BY <3>1, QueryFields DEF JobsCurrent
    <3>5. CASE Queued(q)
      BY <3>1, <3>5 DEF Queued
    <3>6. CASE InHand(q)
      <4>1. PICK v \in Workers : job[v] = q
        BY <3>6 DEF InHand
      <4>2. CASE v = w
        BY <4>1, <4>2, <3>3, <3>4 DEF Answered
      <4>3. CASE v # w
        BY <4>1, <4>3, <3>1 DEF InHand
      <4> QED BY <4>2, <4>3
    <3>7. CASE Answered(q)
      <4>1. CASE job[w].poss = p
        BY <4>1, <1>a, <1>1, <3>3, <3>4 DEF Answered
      <4>2. CASE job[w].poss # p
        BY <4>2, <3>7, <1>a, <3>3 DEF Answered
      <4> QED BY <4>1, <4>2
    <3> QED BY <2>1, <3>5, <3>6, <3>7
  <2>4. CASE Exit(w)
    BY <2>4, <2>1, <1>a DEF Exit, work, Queued, InHand, Answered, TypeOK
  <2>5. CASE Worker(w) /\ ~(Fetch(w) /\ queue # <<>>) /\ ~Write(w) /\ ~Exit(w)
    <3>1. UNCHANGED <<queue, job, results>>
      BY <2>5 DEF Worker, Enter, Park, UnlockParked, Announce, Sleep, Leave, Fetch, Close,
         UnlockClosed, Release, Search, CountUse, work
    <3> QED BY <2>1, <3>1 DEF Queued, InHand, Answered
  <2> QED BY <1>1, <2>2, <2>3, <2>4, <2>5
<1>2. ASSUME NEW w \in Workers, Worker(w)
      PROVE  UNCHANGED <<batch, jobId, closing>>
  BY <1>2 DEF Worker, Enter, Park, UnlockParked, Announce, Sleep, Leave, Fetch, Close,
     UnlockClosed, Release, Exit, Search, CountUse, Write, main
<1>3. CASE ReadQuery
  <2>1. /\ queue' = Append(queue, Query(batch, jobId)) /\ jobId' = jobId + 1
        /\ UNCHANGED <<batch, closing, job, results>> /\ queue \in Seq(QueryJobs \cup {Poison})
    BY <1>3 DEF ReadQuery, local, TypeOK
  <2>2. CASE p = jobId
    <3>1. Len(queue') \in 1 .. Len(queue') /\ queue'[Len(queue')] = q
      BY <2>1, <2>2
    <3> QED BY <3>1 DEF Queued
  <2>3. CASE p # jobId
    <3>1. Queued(q) \/ InHand(q) \/ Answered(q)
      BY <2>1, <2>3, <1>b, <1>c
    <3>2. Queued(q) => Queued(q)'
      BY <2>1 DEF Queued
    <3> QED BY <2>1, <3>1, <3>2 DEF InHand, Answered
  <2> QED BY <2>2, <2>3
<1>4. CASE ReadF
  <2>1. UNCHANGED <<queue, job, batch, jobId, closing>> /\ ~results.live
    BY <1>4 DEF ReadF, local, At, JobsCurrent
  <2>2. Queued(q) \/ InHand(q)
    BY <2>1, <1>c DEF Answered
  <2> QED BY <2>1, <2>2 DEF Queued, InHand
<1>5. CASE PrintResults
  BY <1>5, <1>b DEF PrintResults
<1>6. CASE ReadEnd \/ SubmitPoison
  BY <1>6 DEF ReadEnd, SubmitPoison, At, BatchBound
<1>7. CASE Open \/ Wake \/ Await \/ Metric \/ Rebuild \/ Join \/ Finished \/ UNCHANGED vars
  <2>1. UNCHANGED <<queue, job, batch, jobId, closing, results>>
    BY <1>7 DEF Open, Wake, Await, Metric, Rebuild, Join, Finished, vars, local, main, work
  <2>2. Queued(q) \/ InHand(q) \/ Answered(q)
    BY <2>1, <1>c
  <2> QED BY <2>1, <2>2 DEF Queued, InHand, Answered
<1> QED BY <1>1, <1>2, <1>3, <1>4, <1>5, <1>6, <1>7 DEF Next, Main

-----------------------------------------------------------------------------
(* The barrier, from a parked start and without spurious wakeups *)

\* The parked start satisfies the strengthening.
LEMMA BarrierInvInit == ParkedInit => BarrierInv
<1> SUFFICES ASSUME ParkedInit PROVE BarrierInv
  OBVIOUS
<1> USE DEF ParkedInit, MachineInit
<1>1. BatchBound
  BY BatchBoundInit
<1>2. LockOwners
  BY FreeAssumption DEF LockOwners, HasBatch, HasQueue
<1>3. JobsHeld
  BY DEF JobsHeld, Busy
<1>4. ParkedCount
  <2>1. ParkedWorkers = Workers
    BY DEF ParkedWorkers, Counted
  <2> QED BY <2>1 DEF ParkedCount, Counted
<1>5. ClosedAndEmpty
  BY DEF ClosedAndEmpty
<1>6. JobsCurrent
  BY DEF JobsCurrent, BatchPoints, Freed, NoJob
<1>7. JobsAccounted
  BY DEF JobsAccounted
<1> QED BY <1>1, <1>2, <1>3, <1>4, <1>5, <1>6, <1>7 DEF BarrierInv

\* Every step of main and of the workers keeps it.
LEMMA BarrierInvStep ==
  ASSUME TypeOK, BarrierInv, [Next]_vars
  PROVE  BarrierInv'
<1> USE DEF BarrierInv
<1>1. [PosixNext]_vars
  BY DEF PosixNext
<1>2. BatchBound'
  BY <1>1, BatchBoundStep
<1>3. LockOwners'
  BY <1>1, LockStep
<1>4. JobsHeld'
  BY <1>1, JobsHeldStep
<1>5. ParkedCount'
  BY ParkedCountStep
<1>6. ClosedAndEmpty'
  BY ClosedAndEmptyStep
<1>7. JobsCurrent'
  BY JobsCurrentStep
<1>8. JobsAccounted'
  BY JobsAccountedStep
<1> QED BY <1>2, <1>3, <1>4, <1>5, <1>6, <1>7, <1>8

\* The strengthening that the three theorems below rest on.
THEOREM ParkedInvariant == ParkedSpec => [](TypeOK /\ BarrierInv)
<1>1. ParkedInit => TypeOK /\ BarrierInv
  BY TypeInit, BarrierInvInit
<1>2. TypeOK /\ BarrierInv /\ [Next]_vars => (TypeOK /\ BarrierInv)'
  BY TypeStep, BarrierInvStep DEF BarrierInv, PosixNext
<1> QED BY <1>1, <1>2, PTL DEF ParkedSpec

\* wait_all_tasks_finish is a barrier for any number of threads: when main has
\* passed it every worker is parked.
THEOREM ParkedBarrier == ParkedSpec => []Barrier
<1>1. BarrierInv => Barrier
  BY DEF BarrierInv, ParkedCount, QuietPoints, Barrier
<1> QED BY <1>1, ParkedInvariant, PTL

\* Every answer main prints is there and in its query's place.
THEOREM ParkedPrintsAll == ParkedSpec => []PrintedComplete
<1>1. TypeOK /\ BarrierInv => PrintedComplete
  <2> SUFFICES ASSUME TypeOK, BarrierInv, mpc = "print", NEW p \in 0 .. (jobId - 1)
               PROVE  results.cell[p] = Query(batch, p)
    BY DEF PrintedComplete
  <2>1. ~closing /\ queue = <<>>
    BY DEF BarrierInv, BatchBound, ClosedAndEmpty
  <2>2. ~Queued(Query(batch, p))
    BY <2>1 DEF Queued
  <2>3. \A w \in Workers : job[w] = NoJob
    BY DEF BarrierInv, ParkedCount, QuietPoints, JobsHeld, Counted, Busy
  <2>4. ~InHand(Query(batch, p))
    BY <2>3 DEF InHand, Query, NoJob
  <2>5. Answered(Query(batch, p))
    BY <2>1, <2>2, <2>4 DEF BarrierInv, JobsAccounted
  <2> QED BY <2>5 DEF Answered, Query
<1> QED BY <1>1, ParkedInvariant, PTL

\* In a workload whose last line is F, no worker searches a freed index or
\* answers into a freed table or the table of another batch.
THEOREM ParkedLiveWhileBusy ==
  ASSUME EndsWithF
  PROVE  ParkedSpec => []LiveWhileBusy
<1>1. TypeOK /\ BarrierInv => LiveWhileBusy
  <2> SUFFICES ASSUME TypeOK, BarrierInv,
                      NEW w \in Workers, wpc[w] \in Busy, job[w].type = "Q"
               PROVE  /\ index = "live" /\ results.live
                      /\ job[w].batch = batch /\ job[w].poss < jobId
    BY DEF LiveWhileBusy
  <2>1. job[w].batch = batch /\ job[w].poss < jobId
    BY DEF BarrierInv, JobsCurrent
  <2>2. job[w].poss \in Positions
    BY QueryFields DEF TypeOK
  <2>3. ~closing
    BY <2>1, <2>2, BoundsAssumption DEF BarrierInv, JobsCurrent, Positions
  <2>4. mpc \in BatchPoints
    BY <2>3 DEF BarrierInv, ParkedCount, BatchBound, QuietPoints, BatchPoints, TypeOK,
       MainPoints, Counted, Busy
  <2> QED BY <2>1, <2>3, <2>4 DEF BarrierInv, JobsCurrent
<1> QED BY <1>1, ParkedInvariant, PTL

-----------------------------------------------------------------------------
(* What holds of every start and every early return of a wait *)

\* An open batch with work left stays open: no worker sleeps on a queued job.
THEOREM PosixQueuedKeepsOpen == PosixSpec => []QueuedKeepsOpen
<1> DEFINE SawEmpty == \A w \in Workers : wpc[w] \in {"close", "closed"} => queue = <<>>
           Inv == TypeOK /\ BatchBound /\ LockOwners /\ SawEmpty /\ QueuedKeepsOpen
<1>1. Init => Inv
  <2>1. Init => LockOwners
    BY FreeAssumption DEF Init, MachineInit, LockOwners, HasBatch, HasQueue
  <2>2. Init => SawEmpty /\ QueuedKeepsOpen
    BY DEF Init, MachineInit, QueuedKeepsOpen
  <2> QED BY <2>1, <2>2, TypeInit, BatchBoundInit
<1>2. Inv /\ [PosixNext]_vars => Inv'
  <2> SUFFICES ASSUME Inv, [PosixNext]_vars PROVE SawEmpty' /\ QueuedKeepsOpen'
    BY TypeStep, BatchBoundStep, LockStep
  <2> USE DEF QueuedKeepsOpen
  <2>1. ASSUME NEW w \in Workers, Worker(w) \/ SpuriousWakeup(w)
        PROVE  SawEmpty' /\ QueuedKeepsOpen'
    <3>1. CASE Fetch(w)
      <4>1. \A v \in Workers : wpc[v] \notin {"close", "closed"}
        BY <3>1, FreeAssumption DEF Fetch, LockOwners, HasQueue
      <4> QED BY <3>1, <4>1 DEF Fetch, Go, main, sched, TypeOK, WorkerPoints
    <3>2. CASE Announce(w)
      <4>1. /\ UNCHANGED <<queue, batchfinished, closing>>
            /\ wpc' = [wpc EXCEPT ![w] = "sleep"]
            /\ mpc' = mpc \/ (mpc = "blocked" /\ mpc' = "await")
        BY <3>2 DEF Announce, Go, sched
      <4> QED BY <4>1 DEF TypeOK, WorkerPoints
    <3>3. CASE Close(w)
      BY <3>3 DEF Close, Go, main, TypeOK, WorkerPoints
    <3>4. CASE Worker(w) /\ ~Fetch(w) /\ ~Announce(w) /\ ~Close(w)
      BY <3>4 DEF Worker, Enter, Park, UnlockParked, Sleep, Leave, UnlockClosed, Release,
         Exit, Search, CountUse, Write, Go, main, sched, TypeOK, WorkerPoints
    <3>5. CASE SpuriousWakeup(w)
      BY <3>5 DEF SpuriousWakeup, Go, main, sched, TypeOK, WorkerPoints
    <3> QED BY <2>1, <3>1, <3>2, <3>3, <3>4, <3>5
  <2>2. CASE ReadQuery \/ SubmitPoison
    <3>1. \A v \in Workers : wpc[v] \notin {"close", "closed"}
      BY <2>2, FreeAssumption DEF ReadQuery, SubmitPoison, LockOwners, HasQueue
    <3> QED BY <2>2, <3>1 DEF ReadQuery, SubmitPoison, At, Then, local
  <2>3. CASE Open
    BY <2>3 DEF Open, local
  <2>4. CASE Wake
    BY <2>4 DEF Wake, At, Then, sched, TypeOK, WorkerPoints
  <2>5. CASE Main /\ ~ReadQuery /\ ~SubmitPoison /\ ~Open /\ ~Wake
    BY <2>5 DEF Main, ReadF, ReadEnd, Await, Metric, Rebuild, PrintResults, Join,
       At, Then, sched, local, BatchBound
  <2>6. CASE SpuriousMainWakeup \/ Finished \/ UNCHANGED vars
    BY <2>6 DEF SpuriousMainWakeup, Finished, vars, At, Then, sched, local, main
  <2> QED BY <2>1, <2>2, <2>3, <2>4, <2>5, <2>6 DEF PosixNext, Next
<1>3. Inv => QueuedKeepsOpen
  OBVIOUS
<1> QED BY <1>1, <1>2, <1>3, PTL DEF PosixSpec

\* The wakeup of main is never lost: a complete count is about to be announced.
THEOREM PosixNoLostWakeup == PosixSpec => []NoLostWakeup
<1>1. Init => NoLostWakeup
  BY DEF Init, MachineInit, NoLostWakeup
<1>2. TypeOK /\ NoLostWakeup /\ [PosixNext]_vars => NoLostWakeup'
  <2> SUFFICES ASSUME TypeOK, NoLostWakeup, [PosixNext]_vars PROVE NoLostWakeup'
    OBVIOUS
  <2> USE DEF NoLostWakeup
  <2>1. ASSUME NEW w \in Workers, Worker(w) \/ SpuriousWakeup(w)
        PROVE  NoLostWakeup'
    <3>1. CASE Park(w)
      BY <3>1 DEF Park, Go, TypeOK
    <3>2. CASE Announce(w)
      BY <3>2 DEF Announce
    <3>3. CASE UnlockParked(w)
      BY <3>3 DEF UnlockParked, Go, TypeOK, main, sched
    <3>4. CASE (Worker(w) /\ ~Park(w) /\ ~Announce(w) /\ ~UnlockParked(w)) \/ SpuriousWakeup(w)
      <4>1. /\ UNCHANGED <<mpc, parkedThreads>>
            /\ wpc[w] \notin {"parked", "announce"}
            /\ \E here \in WorkerPoints : wpc' = [wpc EXCEPT ![w] = here]
        BY <3>4 DEF Worker, Enter, Sleep, Leave, Fetch, Close, UnlockClosed, Release, Exit,
           Search, CountUse, Write, SpuriousWakeup, Go, main, sched, WorkerPoints
      <4> QED BY <4>1 DEF TypeOK
    <3> QED BY <2>1, <3>1, <3>2, <3>3, <3>4
  <2>2. CASE Main
    <3>1. CASE Await
      <4>1. mpc' = "blocked" => parkedThreads < Cardinality(Workers)
        BY <3>1 DEF Await, Then
      <4>2. parkedThreads' = parkedThreads /\ parkedThreads \in Nat
        BY <3>1 DEF Await, sched, TypeOK
      <4> QED BY <4>1, <4>2, WorkersCard
    <3>2. CASE ~Await
      <4>1. mpc' # "blocked"
        BY <2>2, <3>2 DEF Main, ReadQuery, ReadF, ReadEnd, Open, Wake, Metric, Rebuild,
           PrintResults, SubmitPoison, Join, At, Then
      <4> QED BY <4>1
    <3> QED BY <3>1, <3>2
  <2>3. CASE SpuriousMainWakeup \/ Finished \/ UNCHANGED vars
    BY <2>3 DEF SpuriousMainWakeup, Finished, vars, At, Then, sched, local, main
  <2> QED BY <2>1, <2>2, <2>3 DEF PosixNext, Next
<1> QED BY <1>1, <1>2, PosixTyped, PTL DEF PosixSpec

-----------------------------------------------------------------------------
(* Queries are handed out once, whatever the start and the returns of waits *)

\* A query that is about was read before the next one that main will submit.
Earlier(q) == q.batch < batch \/ (q.batch = batch /\ q.poss < jobId)

JobsRead ==
  /\ \A i \in 1 .. Len(queue) : queue[i].type = "Q" => Earlier(queue[i])
  /\ \A w \in Workers : job[w].type = "Q" => Earlier(job[w])

\* Taking the first job of the queue moves it into one pair of hands.
LEMMA FetchHandsOut ==
  ASSUME TypeOK, HandedOutOnce, JobsRead, NEW w \in Workers, Fetch(w), queue # <<>>,
         job[w].type # "Q"
  PROVE  HandedOutOnce' /\ JobsRead'
<1>1. /\ UNCHANGED <<batch, jobId>>
      /\ job' = [job EXCEPT ![w] = queue[1]]
      /\ Len(queue') \in Nat /\ 1 \in 1 .. Len(queue)
      /\ \A i \in 1 .. Len(queue') :
           i + 1 \in 1 .. Len(queue) /\ i + 1 # 1 /\ queue'[i] = queue[i + 1]
  <2>1. queue \in Seq(QueryJobs \cup {Poison}) /\ queue' = Tail(queue)
    BY DEF Fetch, TypeOK
  <2>2. /\ Len(queue) \in Nat \ {0} /\ Len(Tail(queue)) = Len(queue) - 1
        /\ \A i \in 1 .. Len(Tail(queue)) : Tail(queue)[i] = queue[i + 1]
    BY <2>1, TailJobs
  <2>3. job' = [job EXCEPT ![w] = queue[1]] /\ UNCHANGED <<batch, jobId>>
    BY <2>1 DEF Fetch, main
  <2> QED BY ONLY <2>1, <2>2, <2>3
<1>2. /\ job \in [Workers -> QueryJobs \cup {Poison, NoJob}]
      /\ job'[w] = queue[1] /\ \A v \in Workers \ {w} : job'[v] = job[v]
  BY <1>1 DEF TypeOK
<1>3. JobsRead'
  BY <1>1, <1>2 DEF JobsRead, Earlier
<1>4. \A i, k \in 1 .. Len(queue') : queue'[i] = queue'[k] /\ queue'[i].type = "Q" => i = k
  <2> SUFFICES ASSUME NEW i \in 1 .. Len(queue'), NEW k \in 1 .. Len(queue'),
                      queue'[i] = queue'[k], queue'[i].type = "Q"
               PROVE  i = k
    OBVIOUS
  <2>1. i + 1 = k + 1
    <3>1. /\ i + 1 \in 1 .. Len(queue) /\ k + 1 \in 1 .. Len(queue)
          /\ queue[i + 1] = queue[k + 1] /\ queue[i + 1].type = "Q"
      BY <1>1
    <3> QED BY <3>1 DEF HandedOutOnce
  <2> QED BY <2>1, <1>1
<1>5. \A u, v \in Workers : job'[u].type = "Q" /\ job'[u] = job'[v] => u = v
  BY <1>1, <1>2 DEF HandedOutOnce
<1>6. \A v \in Workers, i \in 1 .. Len(queue') : job'[v].type = "Q" => queue'[i] # job'[v]
  <2> SUFFICES ASSUME NEW v \in Workers, NEW i \in 1 .. Len(queue'), job'[v].type = "Q"
               PROVE  queue'[i] # job'[v]
    OBVIOUS
  <2>1. CASE v = w
    BY <1>1, <1>2, <2>1 DEF HandedOutOnce
  <2>2. CASE v # w
    BY <1>1, <1>2, <2>2 DEF HandedOutOnce
  <2> QED BY <2>1, <2>2
<1> QED BY <1>3, <1>4, <1>5, <1>6 DEF HandedOutOnce

\* A new job at the end of the queue is none of those that are about.
LEMMA SubmitKeepsApart ==
  ASSUME TypeOK, HandedOutOnce, JobsRead, NEW q \in QueryJobs \cup {Poison},
         q.type = "Q" => ~Earlier(q),
         queue' = Append(queue, q), UNCHANGED job
  PROVE  HandedOutOnce'
<1>1. /\ Len(queue) \in Nat /\ Len(queue') = Len(queue) + 1
      /\ queue'[Len(queue) + 1] = q
      /\ \A i \in 1 .. Len(queue) : queue'[i] = queue[i]
  <2>1. queue \in Seq(QueryJobs \cup {Poison})
    BY DEF TypeOK
  <2> QED BY <2>1, AppendProperties
<1>2. \A i \in 1 .. Len(queue') : i \in 1 .. Len(queue) \/ i = Len(queue) + 1
  BY <1>1
<1>3. \A i \in 1 .. Len(queue) : queue[i].type = "Q" => queue[i] # q
  BY DEF JobsRead
<1>4. \A i, k \in 1 .. Len(queue') : queue'[i] = queue'[k] /\ queue'[i].type = "Q" => i = k
  BY <1>1, <1>2, <1>3 DEF HandedOutOnce
<1>5. \A w \in Workers : job[w].type = "Q" => job[w] # q
  BY DEF JobsRead
<1>6. \A w \in Workers, i \in 1 .. Len(queue') : job[w].type = "Q" => queue'[i] # job[w]
  BY <1>1, <1>2, <1>5 DEF HandedOutOnce
<1> QED BY <1>4, <1>6 DEF HandedOutOnce

\* No step puts a query in a second place.
LEMMA HandedOutStep ==
  ASSUME TypeOK, BatchBound, JobsHeld, JobsRead, HandedOutOnce, [PosixNext]_vars
  PROVE  JobsRead' /\ HandedOutOnce'
<1>1. ASSUME NEW w \in Workers, Worker(w) \/ SpuriousWakeup(w)
      PROVE  JobsRead' /\ HandedOutOnce'
  <2>1. CASE Fetch(w) /\ queue # <<>>
    <3>1. job[w].type # "Q"
      BY <2>1 DEF Fetch, JobsHeld, Busy, NoJob
    <3> QED BY <2>1, <3>1, FetchHandsOut
  <2>2. CASE Exit(w) \/ Write(w)
    <3>1. UNCHANGED <<queue, batch, jobId>> /\ job' = [job EXCEPT ![w] = NoJob]
      BY <2>2 DEF Exit, Write, main
    <3>2. \A v \in Workers : job'[v] = job[v] \/ job'[v].type # "Q"
      BY <3>1 DEF TypeOK, NoJob
    <3>3. JobsRead'
      BY <3>1, <3>2 DEF JobsRead, Earlier
    <3>4. \A u, v \in Workers : job'[u].type = "Q" /\ job'[u] = job'[v] => u = v
      BY <3>1, <3>2 DEF HandedOutOnce
    <3>5. \A v \in Workers, i \in 1 .. Len(queue') :
            job'[v].type = "Q" => queue'[i] # job'[v]
      BY <3>1, <3>2 DEF HandedOutOnce
    <3> QED BY <3>1, <3>3, <3>4, <3>5 DEF HandedOutOnce
  <2>3. CASE (Fetch(w) /\ queue = <<>>)
             \/ ((Worker(w) \/ SpuriousWakeup(w)) /\ ~Fetch(w) /\ ~Exit(w) /\ ~Write(w))
    <3>1. UNCHANGED <<queue, job, batch, jobId>>
      BY <2>3 DEF Worker, Enter, Park, UnlockParked, Announce, Sleep, Leave, Fetch, Close,
         UnlockClosed, Release, Search, CountUse, SpuriousWakeup, main
    <3> QED BY <3>1 DEF JobsRead, Earlier, HandedOutOnce
  <2> QED BY <1>1, <2>1, <2>2, <2>3
<1>2. CASE ReadQuery
  <2>1. /\ UNCHANGED <<job, batch>> /\ jobId' = jobId + 1
        /\ queue' = Append(queue, Query(batch, jobId))
    BY <1>2 DEF ReadQuery, local
  <2>2. batch \in Nat /\ jobId \in Nat /\ Query(batch, jobId) \in QueryJobs
    BY <1>2, BoundsAssumption DEF ReadQuery, TypeOK, QueryJobs, Positions
  <2>3. ~Earlier(Query(batch, jobId))
    BY <2>2 DEF Earlier, Query
  <2>4. HandedOutOnce'
    BY <2>1, <2>2, <2>3, SubmitKeepsApart
  <2>5. \A q \in QueryJobs : Earlier(q) => q.batch < batch \/ (q.batch = batch /\ q.poss < jobId + 1)
    BY <2>2, QueryFields, BoundsAssumption DEF Earlier, Positions
  <2>6. Query(batch, jobId).batch = batch /\ Query(batch, jobId).poss < jobId + 1
    BY <2>2 DEF Query
  <2>7. /\ \A i \in 1 .. Len(queue) : queue[i].type = "Q" => queue[i] \in QueryJobs
        /\ \A w \in Workers : job[w].type = "Q" => job[w] \in QueryJobs
    BY QueryFields DEF TypeOK
  <2>8. \A i \in 1 .. Len(queue') :
          (i \in 1 .. Len(queue) /\ queue'[i] = queue[i]) \/ queue'[i] = Query(batch, jobId)
    BY <2>1, <2>2, AppendProperties DEF TypeOK
  <2>9. JobsRead'
    BY <2>1, <2>5, <2>6, <2>7, <2>8 DEF JobsRead, Earlier
  <2> QED BY <2>4, <2>9
<1>3. CASE SubmitPoison
  <2>1. UNCHANGED <<job, batch, jobId>> /\ queue' = Append(queue, Poison)
    BY <1>3 DEF SubmitPoison, local
  <2>2. Poison.type # "Q"
    BY DEF Poison
  <2>3. HandedOutOnce'
    BY <2>1, <2>2, SubmitKeepsApart
  <2>4. \A i \in 1 .. Len(queue') :
          (i \in 1 .. Len(queue) /\ queue'[i] = queue[i]) \/ queue'[i] = Poison
    BY <2>1, AppendProperties DEF TypeOK
  <2>5. JobsRead'
    BY <2>1, <2>2, <2>4 DEF JobsRead, Earlier
  <2> QED BY <2>3, <2>5
<1>4. CASE PrintResults
  <2>1. UNCHANGED <<queue, job>> /\ batch' = batch + 1 /\ batch \in Nat
    BY <1>4, BoundsAssumption DEF PrintResults, local, TypeOK
  <2>2. \A q \in QueryJobs : Earlier(q) => q.batch < batch'
    BY <2>1, QueryFields, BoundsAssumption DEF Earlier
  <2>3. /\ \A i \in 1 .. Len(queue) : queue[i].type = "Q" => queue[i] \in QueryJobs
        /\ \A w \in Workers : job[w].type = "Q" => job[w] \in QueryJobs
    BY QueryFields DEF TypeOK
  <2>4. /\ \A i \in 1 .. Len(queue) : queue[i].type = "Q" => queue[i].batch < batch'
        /\ \A w \in Workers : job[w].type = "Q" => job[w].batch < batch'
    BY <2>2, <2>3 DEF JobsRead
  <2>5. JobsRead'
    BY <2>1, <2>4 DEF JobsRead, Earlier
  <2> QED BY <2>1, <2>5 DEF HandedOutOnce
<1>5. CASE (Main /\ ~ReadQuery /\ ~SubmitPoison /\ ~PrintResults)
           \/ SpuriousMainWakeup \/ Finished \/ UNCHANGED vars
  <2>1. UNCHANGED <<queue, job, batch, jobId>>
    BY <1>5 DEF Main, ReadF, ReadEnd, Open, Wake, Await, Metric, Rebuild, Join,
       SpuriousMainWakeup, Finished, vars, local, main
  <2> QED BY <2>1 DEF JobsRead, Earlier, HandedOutOnce
<1> QED BY <1>1, <1>2, <1>3, <1>4, <1>5 DEF PosixNext, Next

\* No query is in two places at once, queue and hands, from any start and under
\* early returns: it is answered by one worker.
THEOREM PosixHandedOutOnce == PosixSpec => []HandedOutOnce
<1> DEFINE Inv == TypeOK /\ BatchBound /\ JobsHeld /\ JobsRead /\ HandedOutOnce
<1>1. Init => Inv
  <2>1. Init => JobsHeld
    BY DEF Init, MachineInit, JobsHeld, Busy
  <2>2. Init => JobsRead /\ HandedOutOnce
    BY DEF Init, MachineInit, JobsRead, HandedOutOnce, NoJob
  <2> QED BY <2>1, <2>2, TypeInit, BatchBoundInit
<1>2. Inv /\ [PosixNext]_vars => Inv'
  BY TypeStep, BatchBoundStep, JobsHeldStep, HandedOutStep
<1>3. Inv => HandedOutOnce
  OBVIOUS
<1> QED BY <1>1, <1>2, <1>3, PTL DEF PosixSpec

-----------------------------------------------------------------------------
(* Counting the jobs of a queue *)

\* One more element is one more.
LEMMA OneMore ==
  ASSUME NEW S, NEW x, IsFiniteSet(S), x \notin S
  PROVE  IsFiniteSet(S \cup {x}) /\ Cardinality(S \cup {x}) = Cardinality(S) + 1
  BY FS_AddElement

\* Moving a finite set of numbers up by one keeps their number.
LEMMA ShiftCard ==
  ASSUME NEW T \in SUBSET Nat, IsFiniteSet(T)
  PROVE  LET U == {i + 1 : i \in T}
         IN  IsFiniteSet(U) /\ Cardinality(U) = Cardinality(T)
<1> DEFINE U == {i + 1 : i \in T}
           f == [i \in T |-> i + 1]
<1>1. f \in [T -> U]
  OBVIOUS
<1>2. \A i, k \in T : f[i] = f[k] => i = k
  OBVIOUS
<1>3. \A u \in U : \E i \in T : f[i] = u
  OBVIOUS
<1> HIDE DEF f, U
<1>4. f \in Injection(T, U)
  BY <1>1, <1>2 DEF Injection, IsInjective
<1>5. f \in Surjection(T, U)
  BY <1>1, <1>3 DEF Surjection
<1>6. ExistsBijection(T, U)
  BY <1>4, <1>5 DEF ExistsBijection, Bijection
<1>7. IsFiniteSet(U) /\ Cardinality(U) = Cardinality(T)
  BY <1>6, FS_Bijection
<1> QED BY <1>7 DEF U

\* The places of a job queue that hold a job of a kind.
Places(q, K) == {i \in 1 .. Len(q) : q[i] \in K}

LEMMA PlacesFinite ==
  ASSUME NEW q \in Seq(QueryJobs \cup {Poison}), NEW K
  PROVE  IsFiniteSet(Places(q, K)) /\ Cardinality(Places(q, K)) \in Nat
<1>1. Len(q) \in Nat
  OBVIOUS
<1>2. IsFiniteSet(1 .. Len(q))
  BY <1>1, FS_Interval
<1>3. Places(q, K) \subseteq 1 .. Len(q)
  BY DEF Places
<1>4. IsFiniteSet(Places(q, K))
  BY <1>2, <1>3, FS_Subset
<1> QED BY <1>4, FS_CardinalityType

\* Taking the head off a queue takes one place off if its job is of the kind.
LEMMA PlacesOfTail ==
  ASSUME NEW q \in Seq(QueryJobs \cup {Poison}), NEW K, q # <<>>
  PROVE  Cardinality(Places(q, K)) =
           Cardinality(Places(Tail(q), K)) + (IF q[1] \in K THEN 1 ELSE 0)
<1> DEFINE T == Places(Tail(q), K)
           U == {i + 1 : i \in T}
<1>1. /\ Len(q) \in Nat \ {0} /\ Len(Tail(q)) = Len(q) - 1
      /\ \A i \in 1 .. Len(Tail(q)) : Tail(q)[i] = q[i + 1]
  BY TailJobs
<1>2. Tail(q) \in Seq(QueryJobs \cup {Poison})
  OBVIOUS
<1>3. IsFiniteSet(T) /\ Cardinality(T) \in Nat
  BY <1>2, PlacesFinite
<1>4. T \subseteq Nat /\ \A i \in T : i \in 1 .. Len(Tail(q)) /\ Tail(q)[i] \in K
  BY <1>1 DEF Places
<1>5. IsFiniteSet(U) /\ Cardinality(U) = Cardinality(T)
  <2> HIDE DEF T
  <2> QED BY <1>3, <1>4, ShiftCard
<1>6. \A i \in U : i \in Places(q, K) /\ i # 1
  <2> SUFFICES ASSUME NEW i \in T PROVE i + 1 \in Places(q, K) /\ i + 1 # 1
    OBVIOUS
  <2>1. i \in 1 .. Len(Tail(q)) /\ Tail(q)[i] \in K
    BY <1>4
  <2>2. i + 1 \in 1 .. Len(q) /\ q[i + 1] \in K /\ i + 1 # 1
    BY <1>1, <2>1
  <2> QED BY <2>2 DEF Places
<1>7. \A i \in Places(q, K) : i = 1 \/ i \in U
  <2> SUFFICES ASSUME NEW i \in Places(q, K), i # 1 PROVE i \in U
    OBVIOUS
  <2>1. i \in 1 .. Len(q) /\ q[i] \in K
    BY DEF Places
  <2>2. i - 1 \in 1 .. Len(Tail(q)) /\ (i - 1) + 1 = i
    BY <1>1, <2>1
  <2>3. Tail(q)[i - 1] \in K
    BY <1>1, <2>1, <2>2
  <2>4. i - 1 \in T
    BY <2>2, <2>3 DEF Places
  <2> QED BY <2>2, <2>4
<1>8. 1 \in Places(q, K) <=> q[1] \in K
  BY <1>1 DEF Places
<1> HIDE DEF T, U
<1>9. CASE q[1] \in K
  <2>1. Places(q, K) = U \cup {1} /\ 1 \notin U
    BY <1>6, <1>7, <1>8, <1>9
  <2>2. Cardinality(U \cup {1}) = Cardinality(U) + 1
    BY <1>5, <2>1, OneMore
  <2> QED BY <1>3, <1>5, <1>9, <2>1, <2>2 DEF T
<1>10. CASE q[1] \notin K
  <2>1. Places(q, K) = U
    BY <1>6, <1>7, <1>8, <1>10
  <2> QED BY <1>3, <1>5, <1>10, <2>1 DEF T
<1> QED BY <1>9, <1>10

LEMMA PlacesOfAppend ==
  ASSUME NEW q \in Seq(QueryJobs \cup {Poison}), NEW K, NEW e \in QueryJobs \cup {Poison}
  PROVE  Cardinality(Places(Append(q, e), K)) =
           Cardinality(Places(q, K)) + (IF e \in K THEN 1 ELSE 0)
<1> DEFINE n == Len(q) + 1
<1>1. /\ Len(q) \in Nat /\ Len(Append(q, e)) = n
      /\ Append(q, e)[n] = e
      /\ \A i \in 1 .. Len(q) : Append(q, e)[i] = q[i]
  BY AppendProperties
<1>2. IsFiniteSet(Places(q, K)) /\ Cardinality(Places(q, K)) \in Nat
  BY PlacesFinite
<1>3. n \notin Places(q, K)
  BY <1>1 DEF Places
<1>4. \A i \in Places(q, K) : i \in Places(Append(q, e), K)
  BY <1>1 DEF Places
<1>5. \A i \in Places(Append(q, e), K) : i \in Places(q, K) \/ (i = n /\ e \in K)
  <2> SUFFICES ASSUME NEW i \in Places(Append(q, e), K)
               PROVE  i \in Places(q, K) \/ (i = n /\ e \in K)
    OBVIOUS
  <2>1. i \in 1 .. n /\ Append(q, e)[i] \in K
    BY <1>1 DEF Places
  <2>2. i \in 1 .. Len(q) \/ i = n
    BY <1>1, <2>1
  <2> QED BY <1>1, <2>1, <2>2 DEF Places
<1>6. e \in K => n \in Places(Append(q, e), K)
  BY <1>1 DEF Places
<1> HIDE DEF n
<1>7. CASE e \in K
  <2>1. Places(Append(q, e), K) = Places(q, K) \cup {n}
    BY <1>4, <1>5, <1>6, <1>7
  <2> QED BY <1>2, <1>3, <1>7, <2>1, OneMore
<1>8. CASE e \notin K
  <2>1. Places(Append(q, e), K) = Places(q, K)
    BY <1>4, <1>5, <1>8
  <2> QED BY <1>2, <1>8, <2>1
<1> QED BY <1>7, <1>8

-----------------------------------------------------------------------------
(* One poison job per thread, whatever the start and the returns of waits *)

Poisons(q) == {i \in 1 .. Len(q) : q[i] = Poison}
InHands == {w \in Workers : job[w] = Poison}
Gone    == {w \in Workers : wpc[w] = "exited"}

\* Poison jobs are submitted behind all queries, and a thread takes one when no
\* query is left.
PoisonsLast ==
  /\ ~closing => poisons = 0
  /\ \A i, k \in 1 .. Len(queue) : i <= k /\ queue[i] = Poison => queue[k] = Poison
  /\ InHands \cup Gone # {} => \A i \in 1 .. Len(queue) : queue[i] = Poison

LEMMA PoisonPlaces == \A q : Poisons(q) = Places(q, {Poison})
  BY DEF Poisons, Places

LEMMA PoisonsFinite ==
  /\ \A q \in Seq(QueryJobs \cup {Poison}) :
       IsFiniteSet(Poisons(q)) /\ Cardinality(Poisons(q)) \in Nat
  /\ IsFiniteSet(InHands) /\ Cardinality(InHands) \in Nat
  /\ IsFiniteSet(Gone) /\ Cardinality(Gone) \in Nat
<1>1. \A q \in Seq(QueryJobs \cup {Poison}) :
        IsFiniteSet(Poisons(q)) /\ Cardinality(Poisons(q)) \in Nat
  BY PlacesFinite, PoisonPlaces
<1>2. InHands \subseteq Workers /\ Gone \subseteq Workers
  BY DEF InHands, Gone
<1>3. IsFiniteSet(InHands) /\ IsFiniteSet(Gone)
  BY <1>2, WorkersAssumption, FS_Subset
<1>4. Cardinality(InHands) \in Nat /\ Cardinality(Gone) \in Nat
  BY <1>3, FS_CardinalityType
<1> QED BY <1>1, <1>3, <1>4

LEMMA PoisonsOfTail ==
  ASSUME NEW q \in Seq(QueryJobs \cup {Poison}), q # <<>>
  PROVE  Cardinality(Poisons(q)) =
           Cardinality(Poisons(Tail(q))) + (IF q[1] = Poison THEN 1 ELSE 0)
<1>1. Cardinality(Places(q, {Poison})) =
        Cardinality(Places(Tail(q), {Poison})) + (IF q[1] \in {Poison} THEN 1 ELSE 0)
  BY PlacesOfTail
<1> QED BY <1>1, PoisonPlaces

LEMMA PoisonsOfAppend ==
  ASSUME NEW q \in Seq(QueryJobs \cup {Poison}), NEW e \in QueryJobs \cup {Poison}
  PROVE  Cardinality(Poisons(Append(q, e))) =
           Cardinality(Poisons(q)) + (IF e = Poison THEN 1 ELSE 0)
<1>1. Cardinality(Places(Append(q, e), {Poison})) =
        Cardinality(Places(q, {Poison})) + (IF e \in {Poison} THEN 1 ELSE 0)
  BY PlacesOfAppend
<1> QED BY <1>1, PoisonPlaces

\* OnePoisonEach by its three counts.
LEMMA PoisonCounts ==
  OnePoisonEach <=>
    /\ poisons = Cardinality(Poisons(queue)) + Cardinality(InHands) + Cardinality(Gone)
    /\ Gone # {} => \A i \in 1 .. Len(queue) : queue[i] = Poison
  BY DEF OnePoisonEach, Poisons, InHands, Gone

\* Before the first poison job is submitted there is none, and no thread ended.
LEMMA NoPoisonYet ==
  ASSUME TypeOK, OnePoisonEach, poisons = 0
  PROVE  Poisons(queue) = {} /\ InHands = {} /\ Gone = {}
<1>1. queue \in Seq(QueryJobs \cup {Poison})
  BY DEF TypeOK
<1>2. /\ Cardinality(Poisons(queue)) \in Nat
      /\ Cardinality(InHands) \in Nat /\ Cardinality(Gone) \in Nat
  BY <1>1, PoisonsFinite
<1>3. 0 = Cardinality(Poisons(queue)) + Cardinality(InHands) + Cardinality(Gone)
  BY PoisonCounts
<1>4. Cardinality(Poisons(queue)) = 0 /\ Cardinality(InHands) = 0 /\ Cardinality(Gone) = 0
  BY <1>2, <1>3
<1>5. IsFiniteSet(Poisons(queue)) /\ IsFiniteSet(InHands) /\ IsFiniteSet(Gone)
  BY <1>1, PoisonsFinite
<1> QED BY <1>4, <1>5, FS_EmptySet

\* What the theorem's steps have in common.
PoisonInv == TypeOK /\ BatchBound /\ JobsHeld /\ PoisonsLast /\ OnePoisonEach

\* A worker that takes a job off the queue takes a poison job only as the last.
LEMMA PoisonFetch ==
  ASSUME PoisonInv, NEW w \in Workers, Fetch(w), queue # <<>>
  PROVE  PoisonsLast' /\ OnePoisonEach'
<1> USE DEF PoisonInv
<1>1. queue \in Seq(QueryJobs \cup {Poison}) /\ queue' = Tail(queue)
  BY DEF Fetch, TypeOK
<1>2. /\ Len(queue) \in Nat \ {0} /\ Len(queue') = Len(queue) - 1
      /\ \A i \in 1 .. Len(queue') : queue'[i] = queue[i + 1]
  BY <1>1, TailJobs
<1>3. /\ \A i \in 1 .. Len(queue') : i + 1 \in 1 .. Len(queue) /\ queue'[i] = queue[i + 1]
      /\ Len(queue') \in Nat /\ 1 \in 1 .. Len(queue)
  BY <1>2
<1>4. /\ UNCHANGED <<closing, poisons>> /\ job' = [job EXCEPT ![w] = queue[1]]
      /\ wpc' = [wpc EXCEPT ![w] = "release"] /\ wpc[w] = "fetch"
  BY <1>1, TailJobs DEF Fetch, Go, main
<1>5. job[w] # Poison
  BY <1>4 DEF JobsHeld, Busy, Poison, NoJob
<1>6. Gone' = Gone
  BY <1>4 DEF Gone, TypeOK
<1>7. Cardinality(Poisons(queue)) =
        Cardinality(Poisons(queue')) + (IF queue[1] = Poison THEN 1 ELSE 0)
  BY <1>1, PoisonsOfTail
<1>8. queue' \in Seq(QueryJobs \cup {Poison})
  BY <1>1
<1>9. /\ Cardinality(Poisons(queue')) \in Nat /\ Cardinality(InHands) \in Nat
      /\ Cardinality(Gone) \in Nat /\ IsFiniteSet(InHands)
  BY <1>8, PoisonsFinite
<1>10. \A i, k \in 1 .. Len(queue') : i <= k /\ queue'[i] = Poison => queue'[k] = Poison
  <2> SUFFICES ASSUME NEW i \in 1 .. Len(queue'), NEW k \in 1 .. Len(queue'),
                      i <= k, queue'[i] = Poison
               PROVE  queue'[k] = Poison
    OBVIOUS
  <2>1. i + 1 <= k + 1 /\ queue[i + 1] = Poison
    BY <1>3
  <2> QED BY <2>1, <1>3 DEF PoisonsLast
<1>11. poisons = Cardinality(Poisons(queue)) + Cardinality(InHands) + Cardinality(Gone)
  BY PoisonCounts
<1>12. CASE queue[1] = Poison
  <2>1. \A i \in 1 .. Len(queue) : 1 <= i /\ queue[i] = Poison
    BY <1>3, <1>12 DEF PoisonsLast
  <2>2. \A i \in 1 .. Len(queue') : queue'[i] = Poison
    BY <1>3, <2>1
  <2>3. InHands' = InHands \cup {w} /\ w \notin InHands
    BY <1>4, <1>5, <1>12 DEF InHands, TypeOK
  <2>4. Cardinality(InHands') = Cardinality(InHands) + 1
    BY <1>9, <2>3, OneMore
  <2>5. poisons' = Cardinality(Poisons(queue')) + Cardinality(InHands') + Cardinality(Gone')
    BY ONLY <1>4, <1>6, <1>7, <1>9, <1>11, <1>12, <2>4
  <2>6. OnePoisonEach'
    BY <2>2, <2>5 DEF OnePoisonEach, Poisons, InHands, Gone
  <2>7. PoisonsLast'
    BY <1>4, <1>10, <2>2 DEF PoisonsLast
  <2> QED BY <2>6, <2>7
<1>13. CASE queue[1] # Poison
  <2>1. InHands \cup Gone = {}
    BY <1>3, <1>13 DEF PoisonsLast
  <2>2. InHands' = InHands
    BY <1>4, <1>5, <1>13 DEF InHands, TypeOK
  <2>3. poisons' = Cardinality(Poisons(queue')) + Cardinality(InHands') + Cardinality(Gone')
    BY ONLY <1>4, <1>6, <1>7, <1>9, <1>11, <1>13, <2>2
  <2>4. Gone' = {} /\ InHands' = {}
    BY <1>6, <2>1, <2>2
  <2>5. OnePoisonEach'
    BY <2>3, <2>4 DEF OnePoisonEach, Poisons, InHands, Gone
  <2>6. PoisonsLast'
    BY <1>4, <1>10, <2>4 DEF PoisonsLast
  <2> QED BY <2>5, <2>6
<1> QED BY <1>12, <1>13

\* A thread that ends turns the poison job in its hands into an exit.
LEMMA PoisonExit ==
  ASSUME PoisonInv, NEW w \in Workers, Exit(w)
  PROVE  PoisonsLast' /\ OnePoisonEach'
<1> USE DEF PoisonInv
<1>1. /\ UNCHANGED <<queue, closing, poisons>> /\ job' = [job EXCEPT ![w] = NoJob]
      /\ wpc' = [wpc EXCEPT ![w] = "exited"] /\ wpc[w] = "run" /\ job[w].type = "P"
  BY DEF Exit, Go, main
<1>2. job[w] = Poison
  BY <1>1 DEF TypeOK, QueryJobs, Query, NoJob
<1>3. InHands = InHands' \cup {w} /\ w \notin InHands' /\ InHands' \subseteq InHands
  BY <1>1, <1>2 DEF InHands, TypeOK, Poison, NoJob
<1>4. Gone' = Gone \cup {w} /\ w \notin Gone
  BY <1>1 DEF Gone, TypeOK
<1>5. IsFiniteSet(InHands) /\ IsFiniteSet(Gone) /\ Cardinality(Gone) \in Nat
  BY PoisonsFinite
<1>6. IsFiniteSet(InHands')
  BY <1>3, <1>5, FS_Subset
<1>7. Cardinality(InHands) = Cardinality(InHands') + 1 /\ Cardinality(InHands') \in Nat
  BY <1>3, <1>6, OneMore, FS_CardinalityType
<1>8. Cardinality(Gone') = Cardinality(Gone) + 1
  BY <1>4, <1>5, OneMore
<1>9. Cardinality(Poisons(queue)) \in Nat
  BY PoisonsFinite DEF TypeOK
<1>10. poisons = Cardinality(Poisons(queue)) + Cardinality(InHands) + Cardinality(Gone)
  BY PoisonCounts
<1>11. poisons' = Cardinality(Poisons(queue')) + Cardinality(InHands') + Cardinality(Gone')
  BY ONLY <1>1, <1>5, <1>7, <1>8, <1>9, <1>10
<1>12. \A i \in 1 .. Len(queue') : queue'[i] = Poison
  BY <1>1, <1>3 DEF PoisonsLast
<1>13. OnePoisonEach'
  BY <1>11, <1>12 DEF OnePoisonEach, Poisons, InHands, Gone
<1>14. PoisonsLast'
  BY <1>1, <1>12 DEF PoisonsLast
<1> QED BY <1>13, <1>14

\* A job that main submits goes behind the others, and a query goes behind no
\* poison job.
LEMMA PoisonSubmit ==
  ASSUME PoisonInv, ReadQuery \/ SubmitPoison
  PROVE  PoisonsLast' /\ OnePoisonEach'
<1> USE DEF PoisonInv
<1>1. queue \in Seq(QueryJobs \cup {Poison}) /\ Len(queue) \in Nat
  BY DEF TypeOK
<1>2. UNCHANGED <<job, wpc, closing>> /\ InHands' = InHands /\ Gone' = Gone
  BY DEF ReadQuery, SubmitPoison, local, InHands, Gone
<1>3. /\ Cardinality(Poisons(queue)) \in Nat /\ Cardinality(InHands) \in Nat
      /\ Cardinality(Gone) \in Nat
  BY <1>1, PoisonsFinite
<1>4. poisons = Cardinality(Poisons(queue)) + Cardinality(InHands) + Cardinality(Gone)
  BY PoisonCounts
<1>5. CASE ReadQuery
  <2> DEFINE q == Query(batch, jobId)
  <2>1. queue' = Append(queue, q) /\ poisons' = poisons
    BY <1>5 DEF ReadQuery
  <2>2. q \in QueryJobs \cup {Poison} /\ q # Poison
    BY <1>5, BoundsAssumption DEF ReadQuery, TypeOK, QueryJobs, Positions, Query, Poison
  <2>3. ~closing /\ poisons = 0
    BY <1>5 DEF ReadQuery, At, BatchBound, PoisonsLast
  <2>4. Poisons(queue) = {} /\ InHands = {} /\ Gone = {}
    BY <2>3, NoPoisonYet
  <2> HIDE DEF q
  <2>5. Cardinality(Poisons(queue')) = Cardinality(Poisons(queue))
    BY <1>1, <1>3, <2>1, <2>2, PoisonsOfAppend
  <2>6. poisons' = Cardinality(Poisons(queue')) + Cardinality(InHands') + Cardinality(Gone')
    BY ONLY <1>2, <1>4, <2>1, <2>5
  <2>7. OnePoisonEach'
    BY <1>2, <2>4, <2>6 DEF OnePoisonEach, Poisons, InHands, Gone
  <2>8. \A i \in 1 .. Len(queue) : queue[i] # Poison
    BY <2>4 DEF Poisons
  <2>9. \A i \in 1 .. Len(queue') : queue'[i] # Poison
    BY <1>1, <2>1, <2>2, <2>8, AppendProperties
  <2>10. PoisonsLast'
    BY <1>2, <2>1, <2>3, <2>4, <2>9 DEF PoisonsLast
  <2> QED BY <2>7, <2>10
<1>6. CASE SubmitPoison
  <2>1. queue' = Append(queue, Poison) /\ poisons' = poisons + 1
    BY <1>6 DEF SubmitPoison
  <2>2. closing
    BY <1>6 DEF SubmitPoison, At, BatchBound
  <2>3. Cardinality(Poisons(queue')) = Cardinality(Poisons(queue)) + 1
    BY <1>1, <2>1, PoisonsOfAppend
  <2>4. poisons' = Cardinality(Poisons(queue')) + Cardinality(InHands') + Cardinality(Gone')
    <3>1. poisons' = poisons + 1 /\ InHands' = InHands /\ Gone' = Gone
      BY <1>2, <2>1
    <3> HIDE DEF InHands, Gone, Poisons
    <3> QED BY <1>3, <1>4, <2>3, <3>1
  <2>5. /\ Len(queue') = Len(queue) + 1 /\ queue'[Len(queue) + 1] = Poison
        /\ \A i \in 1 .. Len(queue) : queue'[i] = queue[i]
    BY <1>1, <2>1, AppendProperties
  <2>6. \A i \in 1 .. Len(queue') :
          queue'[i] = Poison \/ (i \in 1 .. Len(queue) /\ queue'[i] = queue[i])
    BY <1>1, <2>5
  <2>7. \A i, k \in 1 .. Len(queue') : i <= k /\ queue'[i] = Poison => queue'[k] = Poison
    <3> SUFFICES ASSUME NEW i \in 1 .. Len(queue'), NEW k \in 1 .. Len(queue'),
                        i <= k, queue'[i] = Poison, k \in 1 .. Len(queue)
                 PROVE  queue'[k] = Poison
      BY <2>6
    <3>1. i \in 1 .. Len(queue) /\ queue[i] = Poison
      BY <1>1, <2>5
    <3> QED BY <3>1, <2>5 DEF PoisonsLast
  <2>8. InHands' \cup Gone' # {} => \A i \in 1 .. Len(queue') : queue'[i] = Poison
    BY <1>2, <2>6 DEF PoisonsLast
  <2>9. PoisonsLast'
    BY <1>2, <2>2, <2>7, <2>8 DEF PoisonsLast
  <2>10. OnePoisonEach'
    BY <2>4, <2>8 DEF OnePoisonEach, Poisons, InHands, Gone
  <2> QED BY <2>9, <2>10
<1> QED BY <1>5, <1>6

\* Every thread is ended by one poison job, from any start and under early
\* returns, and no thread ends while a query is queued.
THEOREM PosixOnePoisonEach == PosixSpec => []OnePoisonEach
<1>1. Init => PoisonInv
  <2> SUFFICES ASSUME Init PROVE PoisonInv
    OBVIOUS
  <2>1. queue = <<>> /\ poisons = 0 /\ \A w \in Workers : job[w] = NoJob /\ wpc[w] = "enter"
    BY DEF Init, MachineInit
  <2>2. InHands = {} /\ Gone = {} /\ Poisons(queue) = {}
    BY <2>1 DEF InHands, Gone, Poisons, NoJob, Poison
  <2>3. OnePoisonEach
    BY <2>1, <2>2, FS_EmptySet, PoisonCounts
  <2>4. PoisonsLast /\ JobsHeld
    BY <2>1, <2>2 DEF PoisonsLast, JobsHeld, Busy
  <2> QED BY <2>3, <2>4, TypeInit, BatchBoundInit DEF PoisonInv
<1>2. PoisonInv /\ [PosixNext]_vars => PoisonInv'
  <2> SUFFICES ASSUME PoisonInv, [PosixNext]_vars PROVE PoisonsLast' /\ OnePoisonEach'
    BY TypeStep, BatchBoundStep, JobsHeldStep DEF PoisonInv
  <2> USE DEF PoisonInv
  <2>1. CASE \E w \in Workers : Exit(w) \/ (Fetch(w) /\ queue # <<>>)
    BY <2>1, PoisonFetch, PoisonExit
  <2>2. CASE ReadQuery \/ SubmitPoison
    BY <2>2, PoisonSubmit
  <2>3. ASSUME UNCHANGED <<queue, poisons>>, InHands' = InHands, Gone' = Gone,
               closing => closing'
        PROVE  PoisonsLast' /\ OnePoisonEach'
    BY <2>3 DEF PoisonsLast, OnePoisonEach, Poisons, InHands, Gone
  <2>4. ASSUME NEW w \in Workers, Write(w) PROVE PoisonsLast' /\ OnePoisonEach'
    <3>1. /\ UNCHANGED <<queue, closing, poisons>> /\ job' = [job EXCEPT ![w] = NoJob]
          /\ wpc' = [wpc EXCEPT ![w] = "fetch"] /\ wpc[w] = "write"
      BY <2>4 DEF Write, Go, main
    <3>2. job[w] # Poison
      BY <3>1 DEF JobsHeld, Poison
    <3>3. InHands' = InHands /\ Gone' = Gone
      BY <3>1, <3>2 DEF InHands, Gone, TypeOK, Poison, NoJob
    <3> QED BY <3>1, <3>3, <2>3
  <2>5. ASSUME NEW w \in Workers, Worker(w) \/ SpuriousWakeup(w),
               ~Exit(w), ~Write(w), ~(Fetch(w) /\ queue # <<>>)
        PROVE  PoisonsLast' /\ OnePoisonEach'
    <3>1. UNCHANGED <<queue, job, closing, poisons>>
      BY <2>5 DEF Worker, Enter, Park, UnlockParked, Announce, Sleep, Leave, Fetch, Close,
         UnlockClosed, Release, Search, CountUse, SpuriousWakeup, main
    <3>2. \A v \in Workers : wpc'[v] = "exited" <=> wpc[v] = "exited"
      BY <2>5 DEF Worker, Enter, Park, UnlockParked, Announce, Sleep, Leave, Fetch, Close,
         UnlockClosed, Release, Search, CountUse, SpuriousWakeup, Go, TypeOK
    <3>3. InHands' = InHands /\ Gone' = Gone
      BY <3>1, <3>2 DEF InHands, Gone
    <3> QED BY <3>1, <3>3, <2>3
  <2>6. CASE (Main /\ ~ReadQuery /\ ~SubmitPoison)
             \/ SpuriousMainWakeup \/ Finished \/ UNCHANGED vars
    <3>1. UNCHANGED <<queue, job, poisons>> /\ (closing => closing')
      BY <2>6 DEF Main, ReadF, ReadEnd, Open, Wake, Await, Metric, Rebuild, PrintResults,
         Join, SpuriousMainWakeup, Finished, vars, local, main
    <3>2. \A v \in Workers : wpc'[v] = "exited" <=> wpc[v] = "exited"
      BY <2>6 DEF Main, ReadF, ReadEnd, Open, Wake, Await, Metric, Rebuild, PrintResults,
         Join, SpuriousMainWakeup, Finished, vars, local
    <3>3. InHands' = InHands /\ Gone' = Gone
      BY <3>1, <3>2 DEF InHands, Gone
    <3> QED BY <3>1, <3>3, <2>3
  <2> QED BY <2>1, <2>2, <2>4, <2>5, <2>6 DEF PosixNext, Next
<1>3. PoisonInv => OnePoisonEach
  BY DEF PoisonInv
<1> QED BY <1>1, <1>2, <1>3, PTL DEF PosixSpec

-----------------------------------------------------------------------------
(* No more uses of the update index than queries *)

Waiting   == Places(queue, QueryJobs)
Uncounted == {w \in Workers : job[w].type = "Q" /\ wpc[w] # "write"}

\* A query that waits or is being searched has not been counted as a use yet,
\* and only a dynamic workload counts.
UsesInv ==
  /\ typeOfGraph = "D" =>
       timesUsedCounter + Cardinality(Waiting) + Cardinality(Uncounted) <= queriesCount
  /\ typeOfGraph # "D" =>
       timesUsedCounter = 0 /\ \A w \in Workers : wpc[w] # "count"

LEMMA UsesNumbers ==
  ASSUME TypeOK
  PROVE  /\ Cardinality(Waiting) \in Nat
         /\ IsFiniteSet(Uncounted) /\ Cardinality(Uncounted) \in Nat
         /\ timesUsedCounter \in Nat /\ queriesCount \in Nat
<1>1. Cardinality(Waiting) \in Nat
  BY PlacesFinite DEF TypeOK, Waiting
<1>2. Uncounted \subseteq Workers
  BY DEF Uncounted
<1>3. IsFiniteSet(Uncounted)
  BY <1>2, WorkersAssumption, FS_Subset
<1> QED BY <1>1, <1>3, FS_CardinalityType DEF TypeOK

\* Taking a query off the queue leaves it uncounted.
LEMMA UsesFetch ==
  ASSUME TypeOK, JobsHeld, UsesInv, NEW w \in Workers, Fetch(w), queue # <<>>
  PROVE  UsesInv'
<1>1. queue \in Seq(QueryJobs \cup {Poison}) /\ queue' = Tail(queue)
  BY DEF Fetch, TypeOK
<1>2. queue[1] \in QueryJobs \cup {Poison} /\ Head(queue) = queue[1]
  BY <1>1, TailJobs
<1>3. /\ job' = [job EXCEPT ![w] = queue[1]] /\ wpc' = [wpc EXCEPT ![w] = "release"]
      /\ wpc[w] = "fetch"
      /\ UNCHANGED <<typeOfGraph, timesUsedCounter, queriesCount>>
  BY <1>2 DEF Fetch, Go, work
<1>4. job[w] = NoJob
  BY <1>3 DEF JobsHeld, Busy
<1>5. Cardinality(Waiting) = Cardinality(Waiting') + (IF queue[1] \in QueryJobs THEN 1 ELSE 0)
  BY <1>1, PlacesOfTail DEF Waiting
<1>6. IsFiniteSet(Uncounted) /\ Cardinality(Uncounted) \in Nat
  BY UsesNumbers
<1>7. w \notin Uncounted
  BY <1>4 DEF Uncounted, NoJob
<1>8. Cardinality(Waiting') \in Nat
  <2>1. queue' \in Seq(QueryJobs \cup {Poison})
    BY <1>1
  <2> QED BY <2>1, PlacesFinite DEF Waiting
<1>9. Cardinality(Waiting') + Cardinality(Uncounted') = Cardinality(Waiting) + Cardinality(Uncounted)
  <2>1. CASE queue[1] \in QueryJobs
    <3>1. queue[1].type = "Q"
      BY <2>1, QueryFields
    <3>2. Uncounted' = Uncounted \cup {w}
      BY <1>3, <1>7, <3>1 DEF Uncounted, TypeOK
    <3>3. Cardinality(Uncounted') = Cardinality(Uncounted) + 1
      BY <1>6, <1>7, <3>2, OneMore
    <3> QED BY ONLY <1>5, <1>6, <1>8, <2>1, <3>3
  <2>2. CASE queue[1] \notin QueryJobs
    <3>1. queue[1].type # "Q"
      BY <1>2, <2>2 DEF Poison
    <3>2. Uncounted' = Uncounted
      BY <1>3, <1>7, <3>1 DEF Uncounted, TypeOK
    <3> QED BY ONLY <1>5, <1>6, <1>8, <2>2, <3>2
  <2> QED BY <2>1, <2>2
<1>10. typeOfGraph # "D" => \A v \in Workers : wpc'[v] # "count"
  BY <1>3 DEF UsesInv, TypeOK
<1>11. timesUsedCounter \in Nat /\ queriesCount \in Nat /\ Cardinality(Waiting) \in Nat
  BY UsesNumbers
<1>12. typeOfGraph = "D" =>
         timesUsedCounter + Cardinality(Waiting') + Cardinality(Uncounted') <= queriesCount
  <2>1. typeOfGraph = "D" =>
          timesUsedCounter + Cardinality(Waiting) + Cardinality(Uncounted) <= queriesCount
    BY DEF UsesInv
  <2>2. Cardinality(Uncounted') \in Nat
    <3>1. Uncounted' \subseteq Workers
      BY DEF Uncounted
    <3> QED BY <3>1, WorkersAssumption, FS_Subset, FS_CardinalityType
  <2> QED BY ONLY <1>6, <1>8, <1>9, <1>11, <2>1, <2>2
<1> QED BY <1>3, <1>10, <1>12 DEF UsesInv

\* A search that has ended, counted or not, leaves one query less to count.
LEMMA UsesSearch ==
  ASSUME TypeOK, JobsHeld, UsesInv, NEW w \in Workers, Search(w) \/ CountUse(w)
  PROVE  UsesInv'
<1>1. /\ UNCHANGED <<queue, job, typeOfGraph, queriesCount>>
      /\ wpc[w] # "write" /\ job[w].type = "Q"
  BY DEF Search, CountUse, work, JobsHeld
<1>2. Waiting' = Waiting
  BY <1>1 DEF Waiting
<1>3. /\ Cardinality(Waiting) \in Nat /\ timesUsedCounter \in Nat /\ queriesCount \in Nat
      /\ IsFiniteSet(Uncounted)
  BY UsesNumbers
<1>4. CASE wpc' = [wpc EXCEPT ![w] = "write"]
  <2>1. Uncounted = Uncounted' \cup {w} /\ w \notin Uncounted' /\ Uncounted' \subseteq Uncounted
    BY <1>1, <1>4 DEF Uncounted, TypeOK
  <2>2. IsFiniteSet(Uncounted')
    BY <1>3, <2>1, FS_Subset
  <2>3. Cardinality(Uncounted) = Cardinality(Uncounted') + 1 /\ Cardinality(Uncounted') \in Nat
    BY <2>1, <2>2, OneMore, FS_CardinalityType
  <2>4. /\ timesUsedCounter' = timesUsedCounter
           \/ (timesUsedCounter' = timesUsedCounter + 1 /\ wpc[w] = "count")
    BY DEF Search, CountUse, work
  <2>5. typeOfGraph = "D" =>
          timesUsedCounter' + Cardinality(Waiting) + Cardinality(Uncounted') <= queriesCount
    <3>1. typeOfGraph = "D" =>
            timesUsedCounter + Cardinality(Waiting) + Cardinality(Uncounted) <= queriesCount
      BY DEF UsesInv
    <3> QED BY ONLY <1>3, <2>3, <2>4, <3>1
  <2>6. typeOfGraph # "D" =>
          timesUsedCounter' = 0 /\ \A v \in Workers : wpc'[v] # "count"
    BY <1>4, <2>4 DEF UsesInv, TypeOK
  <2> QED BY <1>1, <1>2, <2>5, <2>6 DEF UsesInv
<1>5. CASE wpc' # [wpc EXCEPT ![w] = "write"]
  <2>1. typeOfGraph = "D" /\ wpc' = [wpc EXCEPT ![w] = "count"]
        /\ timesUsedCounter' = timesUsedCounter
    BY <1>5 DEF Search, CountUse, Go, work
  <2>2. Uncounted' = Uncounted
    BY <1>1, <2>1 DEF Uncounted, TypeOK
  <2> QED BY <1>1, <1>2, <2>1, <2>2 DEF UsesInv
<1> QED BY <1>4, <1>5

\* Whatever changes neither the queue, the counters nor what is uncounted.
LEMMA UsesFrame ==
  ASSUME UsesInv, UNCHANGED <<queue, typeOfGraph, timesUsedCounter, queriesCount>>,
         Uncounted' = Uncounted,
         \A w \in Workers : wpc'[w] = "count" => wpc[w] = "count"
  PROVE  UsesInv'
  BY DEF UsesInv, Waiting

LEMMA UsesSubmit ==
  ASSUME TypeOK, UsesInv, ReadQuery \/ SubmitPoison
  PROVE  UsesInv'
<1>1. /\ UNCHANGED <<job, wpc, typeOfGraph, timesUsedCounter>> /\ Uncounted' = Uncounted
      /\ queue \in Seq(QueryJobs \cup {Poison})
  BY DEF ReadQuery, SubmitPoison, local, work, Uncounted, TypeOK
<1>2. /\ Cardinality(Waiting) \in Nat /\ Cardinality(Uncounted) \in Nat
      /\ timesUsedCounter \in Nat /\ queriesCount \in Nat
  BY UsesNumbers
<1>3. typeOfGraph = "D" => Cardinality(Waiting') - Cardinality(Waiting)
                             <= queriesCount' - queriesCount
                           /\ Cardinality(Waiting') \in Nat /\ queriesCount' \in Nat
  <2>1. CASE ReadQuery
    <3> DEFINE q == Query(batch, jobId)
    <3>1. /\ queue' = Append(queue, q)
          /\ typeOfGraph = "D" => queriesCount' = queriesCount + 1
      BY <2>1 DEF ReadQuery
    <3>2. q \in QueryJobs
      <4>1. batch \in 0 .. MaxBatches /\ jobId \in Nat /\ jobId < MaxQueries
        BY <2>1, BoundsAssumption DEF ReadQuery, TypeOK
      <4>2. jobId \in Positions
        BY <4>1, BoundsAssumption DEF Positions
      <4> QED BY <4>1, <4>2 DEF QueryJobs
    <3> HIDE DEF q
    <3>3. Cardinality(Waiting') = Cardinality(Waiting) + 1
      BY <1>1, <3>1, <3>2, PlacesOfAppend DEF Waiting
    <3> QED BY ONLY <1>2, <3>1, <3>3
  <2>2. CASE SubmitPoison
    <3>1. queue' = Append(queue, Poison) /\ queriesCount' = queriesCount
      BY <2>2 DEF SubmitPoison, work
    <3>2. Poison \notin QueryJobs
      BY QueryFields DEF Poison
    <3>3. Cardinality(Waiting') = Cardinality(Waiting)
      <4>1. Cardinality(Waiting') = Cardinality(Waiting) + 0
        BY <1>1, <3>1, <3>2, PlacesOfAppend DEF Waiting
      <4> QED BY ONLY <4>1, <1>2
    <3> QED BY ONLY <1>2, <3>1, <3>3
  <2> QED BY <2>1, <2>2
<1>4. typeOfGraph = "D" =>
        timesUsedCounter + Cardinality(Waiting') + Cardinality(Uncounted) <= queriesCount'
  <2>1. typeOfGraph = "D" =>
          timesUsedCounter + Cardinality(Waiting) + Cardinality(Uncounted) <= queriesCount
    BY DEF UsesInv
  <2> QED BY ONLY <1>2, <1>3, <2>1
<1> QED BY <1>1, <1>4 DEF UsesInv

\* When main resets the counters no query waits and none is being searched.
LEMMA UsesRebuild ==
  ASSUME TypeOK, BarrierInv, Rebuild
  PROVE  UsesInv'
<1>1. /\ UNCHANGED <<queue, job, wpc, typeOfGraph>> /\ mpc = "rebuild"
      /\ timesUsedCounter' = 0 /\ queriesCount' = 0
  BY DEF Rebuild, local, At
<1>2. queue = <<>> /\ \A w \in Workers : wpc[w] \in Counted
  BY <1>1 DEF BarrierInv, ClosedAndEmpty, ParkedCount, QuietPoints
<1>3. \A w \in Workers : job[w] = NoJob /\ wpc[w] # "count"
  BY <1>2 DEF BarrierInv, JobsHeld, Counted, Busy
<1>4. Waiting' = {} /\ Uncounted' = {}
  BY <1>1, <1>2, <1>3 DEF Waiting, Places, Uncounted, NoJob
<1>5. Cardinality(Waiting') = 0 /\ Cardinality(Uncounted') = 0
  BY <1>4, FS_EmptySet
<1> QED BY <1>1, <1>3, <1>5 DEF UsesInv

\* The ratio that estimateMetric computes is at most 1, from the parked start:
\* main resets both counters when no query is under way.
THEOREM ParkedUsesWithinQueries == ParkedSpec => []UsesWithinQueries
<1>1. ParkedInit => UsesInv
  <2> SUFFICES ASSUME ParkedInit PROVE UsesInv
    OBVIOUS
  <2>1. /\ queue = <<>> /\ timesUsedCounter = 0 /\ queriesCount = 0
        /\ \A w \in Workers : job[w] = NoJob /\ wpc[w] = "asleep"
    BY DEF ParkedInit, MachineInit
  <2>2. Waiting = {} /\ Uncounted = {}
    BY <2>1 DEF Waiting, Places, Uncounted, NoJob
  <2> QED BY <2>1, <2>2, FS_EmptySet DEF UsesInv
<1>2. TypeOK /\ BarrierInv /\ UsesInv /\ [Next]_vars => UsesInv'
  <2> SUFFICES ASSUME TypeOK, BarrierInv, UsesInv, [Next]_vars PROVE UsesInv'
    OBVIOUS
  <2>0. JobsHeld
    BY DEF BarrierInv
  <2>1. ASSUME NEW w \in Workers, Worker(w) PROVE UsesInv'
    <3>1. CASE Fetch(w) /\ queue # <<>>
      BY <2>0, <3>1, UsesFetch
    <3>2. CASE Search(w) \/ CountUse(w)
      BY <2>0, <3>2, UsesSearch
    <3>3. CASE Exit(w) \/ Write(w)
      <4>1. /\ UNCHANGED <<queue, typeOfGraph, timesUsedCounter, queriesCount>>
            /\ job' = [job EXCEPT ![w] = NoJob]
            /\ wpc' = [wpc EXCEPT ![w] = IF Exit(w) THEN "exited" ELSE "fetch"]
            /\ wpc[w] = "write" \/ job[w].type # "Q"
        BY <3>3 DEF Exit, Write, Go, work
      <4>2. Uncounted' = Uncounted
        BY <4>1 DEF Uncounted, TypeOK, NoJob
      <4>3. \A v \in Workers : wpc'[v] = "count" => wpc[v] = "count"
        BY <4>1 DEF TypeOK
      <4> QED BY <4>1, <4>2, <4>3, UsesFrame
    <3>4. ASSUME (Fetch(w) /\ queue = <<>>)
                 \/ (~Fetch(w) /\ ~Search(w) /\ ~CountUse(w) /\ ~Exit(w) /\ ~Write(w))
          PROVE  UsesInv'
      <4>1. UNCHANGED <<queue, job, typeOfGraph, timesUsedCounter, queriesCount>>
        BY <2>1, <3>4 DEF Worker, Enter, Park, UnlockParked, Announce, Sleep, Leave, Fetch,
           Close, UnlockClosed, Release, work
      <4>2. \A v \in Workers : /\ wpc'[v] = "count" <=> wpc[v] = "count"
                               /\ wpc'[v] = "write" <=> wpc[v] = "write"
        BY <2>1, <3>4 DEF Worker, Enter, Park, UnlockParked, Announce, Sleep, Leave, Fetch,
           Close, UnlockClosed, Release, Go, TypeOK
      <4>3. Uncounted' = Uncounted
        BY <4>1, <4>2 DEF Uncounted
      <4> QED BY <4>1, <4>2, <4>3, UsesFrame
    <3> QED BY <3>1, <3>2, <3>3, <3>4
  <2>2. CASE ReadQuery \/ SubmitPoison
    BY <2>2, UsesSubmit
  <2>3. CASE Rebuild
    BY <2>3, UsesRebuild
  <2>4. CASE (Main /\ ~ReadQuery /\ ~SubmitPoison /\ ~Rebuild) \/ Finished \/ UNCHANGED vars
    <3>1. UNCHANGED <<queue, job, typeOfGraph, timesUsedCounter, queriesCount>>
      BY <2>4 DEF Main, ReadF, ReadEnd, Open, Wake, Await, Metric, PrintResults, Join,
         Finished, vars, local, work
    <3>2. \A v \in Workers : /\ wpc'[v] = "count" <=> wpc[v] = "count"
                             /\ wpc'[v] = "write" <=> wpc[v] = "write"
      BY <2>4 DEF Main, ReadF, ReadEnd, Open, Wake, Await, Metric, PrintResults, Join,
         Finished, vars, local
    <3>3. Uncounted' = Uncounted
      BY <3>1, <3>2 DEF Uncounted
    <3> QED BY <3>1, <3>2, <3>3, UsesFrame
  <2> QED BY <2>1, <2>2, <2>3, <2>4 DEF Next
<1>3. TypeOK /\ UsesInv => UsesWithinQueries
  <2> SUFFICES ASSUME TypeOK, UsesInv PROVE timesUsedCounter <= queriesCount
    BY DEF UsesWithinQueries
  <2>1. /\ Cardinality(Waiting) \in Nat /\ Cardinality(Uncounted) \in Nat
        /\ timesUsedCounter \in Nat /\ queriesCount \in Nat
    BY UsesNumbers
  <2> HIDE DEF Waiting, Uncounted
  <2> QED BY <2>1 DEF UsesInv
<1> QED BY <1>1, <1>2, <1>3, ParkedInvariant, PTL DEF ParkedSpec

-----------------------------------------------------------------------------
(* Every step is one of BatchExecutor, or leaves its state alone *)

\* A cell of the table is empty or holds the answer to its query of this batch.
CellsCurrent ==
  results.live => \A p \in Positions : results.cell[p] \in {NoJob, Query(batch, p)}

RefinementInv == TypeOK /\ BarrierInv /\ JobsRead /\ HandedOutOnce /\ CellsCurrent

\* What the abstract state is made of.
SameState == UNCHANGED <<Phase, PendingJobs, AnsweredJobs>>

\* Jobs that are no queries are nothing to the abstract state.
LEMMA NoQueries == Poison \notin QueryJobs /\ NoJob \notin QueryJobs
  BY QueryFields DEF Poison, NoJob

\* What is queued and in hand decides what is pending, the table what is answered.
LEMMA SamePending ==
  ASSUME UNCHANGED <<queue, job>>
  PROVE  PendingJobs' = PendingJobs
BY DEF PendingJobs, Queued, InHand

LEMMA SameAnswered ==
  ASSUME UNCHANGED results
  PROVE  AnsweredJobs' = AnsweredJobs
BY DEF AnsweredJobs

\* Taking a job moves a query from the queue to a hand.
LEMMA FetchKeepsPending ==
  ASSUME TypeOK, JobsHeld, NEW w \in Workers, Fetch(w)
  PROVE  PendingJobs' = PendingJobs
<1>1. CASE queue = <<>>
  BY <1>1, SamePending DEF Fetch
<1>2. CASE queue # <<>>
  <2>1. /\ queue \in Seq(QueryJobs \cup {Poison}) /\ queue' = Tail(queue)
        /\ job' = [job EXCEPT ![w] = Head(queue)]
        /\ job \in [Workers -> QueryJobs \cup {Poison, NoJob}]
    BY <1>2 DEF Fetch, TypeOK
  <2>2. /\ Len(queue) \in Nat \ {0} /\ Head(queue) = queue[1] /\ Len(queue') = Len(queue) - 1
        /\ \A i \in 1 .. Len(queue') : queue'[i] = queue[i + 1]
    BY <1>2, <2>1, TailJobs
  <2>3. job[w] = NoJob
    BY DEF Fetch, JobsHeld, Busy
  <2>4. job'[w] = queue[1] /\ \A v \in Workers \ {w} : job'[v] = job[v]
    BY <2>1, <2>2
  <2>5. ASSUME NEW q \in QueryJobs
        PROVE  Queued(q)' \/ InHand(q)' <=> Queued(q) \/ InHand(q)
    <3>1. Queued(q) <=> Queued(q)' \/ q = queue[1]
      <4>1. ASSUME Queued(q), q # queue[1] PROVE Queued(q)'
        <5>1. PICK i \in 1 .. Len(queue) : queue[i] = q
          BY <4>1 DEF Queued
        <5>2. i - 1 \in 1 .. Len(queue') /\ (i - 1) + 1 = i
          BY <2>2, <4>1, <5>1
        <5>3. queue'[i - 1] = q
          BY <2>2, <5>1, <5>2
        <5> QED BY <5>2, <5>3 DEF Queued
      <4>2. ASSUME Queued(q)' PROVE Queued(q)
        <5>1. PICK i \in 1 .. Len(queue') : queue'[i] = q
          BY <4>2 DEF Queued
        <5>2. i + 1 \in 1 .. Len(queue)
          BY <2>2, <5>1
        <5> QED BY <2>2, <5>1, <5>2 DEF Queued
      <4>3. q = queue[1] => Queued(q)
        <5>1. 1 \in 1 .. Len(queue)
          BY <2>2
        <5> QED BY <5>1 DEF Queued
      <4> QED BY <4>1, <4>2, <4>3
    <3>2. InHand(q)' <=> InHand(q) \/ q = queue[1]
      <4>1. q # NoJob
        BY NoQueries
      <4> QED BY <2>3, <2>4, <4>1 DEF InHand
    <3> QED BY <3>1, <3>2
  <2> QED BY <2>5 DEF PendingJobs
<1> QED BY <1>1, <1>2

\* A worker that writes answers one pending query, which no other has.
LEMMA WriteAnswers ==
  ASSUME RefinementInv, EndsWithF, NEW w \in Workers, Write(w)
  PROVE  Promise!Answer /\ CellsCurrent'
<1> DEFINE q == job[w]
<1>1. /\ wpc[w] = "write" /\ job' = [job EXCEPT ![w] = NoJob] /\ queue' = queue
      /\ UNCHANGED <<mpc, batch, closing>>
  BY DEF Write, main
<1>2. /\ job \in [Workers -> QueryJobs \cup {Poison, NoJob}] /\ q \in QueryJobs /\ q.type = "Q"
  BY <1>1, QueryFields DEF RefinementInv, TypeOK, BarrierInv, JobsHeld
<1>3. q.batch = batch /\ q.poss < jobId /\ q.poss \in Positions /\ q = Query(batch, q.poss)
  BY <1>2, QueryFields DEF RefinementInv, BarrierInv, JobsCurrent
<1>4. ~closing
  <2>1. q.poss \in Nat
    BY <1>3, BoundsAssumption DEF Positions
  <2>2. closing => jobId = 0
    BY DEF RefinementInv, BarrierInv, JobsCurrent
  <2> QED BY <1>3, <2>1, <2>2
<1>5. mpc \in BatchPoints /\ mpc # "read"
  <2>1. mpc \notin QuietPoints
    BY <1>1 DEF RefinementInv, BarrierInv, ParkedCount, Counted
  <2>2. mpc \notin {"poison", "join", "done"}
    BY <1>4 DEF RefinementInv, BarrierInv, BatchBound
  <2> QED BY <2>1, <2>2 DEF RefinementInv, TypeOK, MainPoints, QuietPoints, BatchPoints
<1>6. results.live
  BY <1>4, <1>5 DEF RefinementInv, BarrierInv, JobsCurrent
<1>7. results.cell \in [Positions -> QueryJobs \cup {NoJob}]
  BY DEF RefinementInv, TypeOK
<1>8. results'.live /\ results'.cell = [results.cell EXCEPT ![q.poss] = q]
  BY <1>6 DEF Write
<1>9. Phase = "executing" /\ Phase' = Phase
  BY <1>1, <1>4, <1>5 DEF Phase
<1> HIDE DEF q
<1>10. q \in PendingJobs
  BY <1>2 DEF PendingJobs, InHand, q
<1>11. PendingJobs' = PendingJobs \ {q}
  <2>1. ~Queued(q)
    BY <1>2 DEF Queued, RefinementInv, HandedOutOnce, q
  <2>2. \A v \in Workers \ {w} : job[v] # q
    BY <1>2 DEF RefinementInv, HandedOutOnce, q
  <2>3. job'[w] = NoJob /\ \A v \in Workers \ {w} : job'[v] = job[v]
    BY <1>1, <1>2
  <2>4. ASSUME NEW r \in QueryJobs
        PROVE  Queued(r)' \/ InHand(r)' <=> (Queued(r) \/ InHand(r)) /\ r # q
    <3>1. Queued(r)' <=> Queued(r)
      BY <1>1 DEF Queued
    <3>2. InHand(r)' <=> InHand(r) /\ r # q
      BY <2>2, <2>3, NoQueries DEF InHand, q
    <3> QED BY <2>1, <3>1, <3>2
  <2> QED BY <2>4 DEF PendingJobs
<1>12. /\ results'.cell[q.poss] = q
       /\ \A p \in Positions \ {q.poss} : results'.cell[p] = results.cell[p]
       /\ results.cell[q.poss] \in {NoJob, q}
  <2>1. results.cell[q.poss] \in {NoJob, q}
    BY <1>3, <1>6 DEF RefinementInv, CellsCurrent
  <2> QED BY <1>3, <1>7, <1>8, <2>1
<1>13. AnsweredJobs' = AnsweredJobs \cup {q}
  <2>1. ASSUME NEW r \in QueryJobs
        PROVE  (\E p \in Positions : results'.cell[p] = r)
                 <=> (\E p \in Positions : results.cell[p] = r) \/ r = q
    BY <1>3, <1>12, NoQueries
  <2> QED BY <1>2, <1>6, <1>8, <2>1 DEF AnsweredJobs
<1>14. CellsCurrent'
  BY <1>1, <1>3, <1>6, <1>12 DEF RefinementInv, CellsCurrent
<1> QED BY <1>9, <1>10, <1>11, <1>13, <1>14 DEF Promise!Answer

LEMMA WorkerRefines ==
  ASSUME RefinementInv, EndsWithF, NEW w \in Workers, Worker(w)
  PROVE  (Promise!Answer \/ SameState) /\ CellsCurrent'
<1>1. CASE Write(w)
  BY <1>1, WriteAnswers
<1>2. CASE ~Write(w)
  <2>1. UNCHANGED <<results, batch, closing>> /\ (mpc' = "read" <=> mpc = "read")
    BY <1>2 DEF Worker, Enter, Park, UnlockParked, Announce, Sleep, Leave, Fetch, Close,
       UnlockClosed, Release, Exit, Search, CountUse, main, work
  <2>2. AnsweredJobs' = AnsweredJobs /\ Phase' = Phase /\ CellsCurrent'
    BY <2>1, SameAnswered DEF Phase, RefinementInv, CellsCurrent
  <2>3. PendingJobs' = PendingJobs
    <3>1. CASE Fetch(w)
      BY <3>1, FetchKeepsPending DEF RefinementInv, BarrierInv
    <3>2. CASE Exit(w)
      <4>1. /\ queue' = queue /\ job' = [job EXCEPT ![w] = NoJob] /\ job[w] \notin QueryJobs
            /\ job \in [Workers -> QueryJobs \cup {Poison, NoJob}]
        BY <3>2, QueryFields DEF Exit, RefinementInv, TypeOK
      <4>2. \A q \in QueryJobs : InHand(q)' <=> InHand(q)
        BY <4>1, NoQueries DEF InHand
      <4>3. \A q \in QueryJobs : Queued(q)' <=> Queued(q)
        BY <4>1 DEF Queued
      <4> QED BY <4>2, <4>3 DEF PendingJobs
    <3>3. CASE ~Fetch(w) /\ ~Exit(w)
      <4>1. UNCHANGED <<queue, job>>
        BY <1>2, <3>3 DEF Worker, Enter, Park, UnlockParked, Announce, Sleep, Leave, Close,
           UnlockClosed, Release, Search, CountUse
      <4> QED BY <4>1, SamePending
    <3> QED BY <3>1, <3>2, <3>3
  <2> QED BY <2>2, <2>3 DEF SameState
<1> QED BY <1>1, <1>2

\* A job at the end of the queue is pending if it is a query.
LEMMA SubmitPending ==
  ASSUME TypeOK, NEW j \in QueryJobs \cup {Poison}, queue' = Append(queue, j), UNCHANGED job
  PROVE  PendingJobs' = PendingJobs \cup ({j} \cap QueryJobs)
<1>1. /\ Len(queue) \in Nat /\ Len(queue') = Len(queue) + 1 /\ queue'[Len(queue) + 1] = j
      /\ \A i \in 1 .. Len(queue) : queue'[i] = queue[i]
  <2>1. queue \in Seq(QueryJobs \cup {Poison})
    BY DEF TypeOK
  <2> QED BY <2>1, AppendProperties
<1>2. /\ \A i \in 1 .. Len(queue') : i \in 1 .. Len(queue) \/ i = Len(queue) + 1
      /\ Len(queue) + 1 \in 1 .. Len(queue') /\ \A i \in 1 .. Len(queue) : i \in 1 .. Len(queue')
  BY <1>1
<1>3. \A q \in QueryJobs : Queued(q)' <=> Queued(q) \/ q = j
  BY <1>1, <1>2 DEF Queued
<1>4. \A q \in QueryJobs : InHand(q)' <=> InHand(q)
  BY DEF InHand
<1> QED BY <1>3, <1>4 DEF PendingJobs

\* Without queries queued and with all workers parked nothing is pending.
LEMMA NothingPending ==
  ASSUME RefinementInv, \A q \in QueryJobs : ~Queued(q), mpc \in QuietPoints
  PROVE  PendingJobs = {}
<1>1. \A w \in Workers : job[w] = NoJob
  BY DEF RefinementInv, BarrierInv, ParkedCount, JobsHeld, Counted, Busy
<1> QED BY <1>1, NoQueries DEF PendingJobs, InHand

LEMMA MainRefines ==
  ASSUME RefinementInv, EndsWithF, Main
  PROVE  (Promise!Next \/ SameState) /\ CellsCurrent'
<1>0. TypeOK /\ BatchBound /\ JobsCurrent /\ ClosedAndEmpty
  BY DEF RefinementInv, BarrierInv
<1>1. CASE ReadQuery
  <2>1. /\ mpc = "read" /\ UNCHANGED <<mpc, closing, batch, results, job>> /\ jobId < MaxQueries
        /\ queue' = Append(queue, Query(batch, jobId))
    BY <1>1 DEF ReadQuery, At, local
  <2> DEFINE q == Query(batch, jobId)
  <2>2. /\ q \in QueryJobs /\ jobId \in Nat /\ q.poss = jobId /\ q.type = "Q"
    BY <1>0, <2>1, BoundsAssumption DEF TypeOK, QueryJobs, Positions, Query
  <2>3. ~Queued(q) /\ ~InHand(q)
    BY <1>0, <2>2 DEF JobsCurrent, Queued, InHand
  <2> HIDE DEF q
  <2>4. PendingJobs' = PendingJobs \cup {q} /\ q \notin PendingJobs
    BY <1>0, <2>1, <2>2, <2>3, SubmitPending DEF q, PendingJobs
  <2>5. Phase = "reading" /\ Phase' = Phase /\ AnsweredJobs' = AnsweredJobs
    BY <1>0, <2>1, SameAnswered DEF Phase, BatchBound
  <2>6. Promise!Accept
    BY <2>2, <2>4, <2>5 DEF Promise!Accept
  <2> QED BY <2>1, <2>6 DEF Promise!Next, RefinementInv, CellsCurrent
<1>2. CASE ReadF
  <2>1. /\ mpc = "read" /\ mpc' = "open" /\ UNCHANGED <<closing, queue, job>>
        /\ results' = NewTable /\ ~closing
    BY <1>0, <1>2 DEF ReadF, At, Then, local, BatchBound
  <2>2. AnsweredJobs = {}
    BY <1>0, <2>1 DEF JobsCurrent, AnsweredJobs
  <2>3. \A p \in Positions : results'.cell[p] = NoJob
    BY <2>1 DEF NewTable
  <2>4. AnsweredJobs' = {} /\ CellsCurrent'
    BY <2>3, NoQueries DEF AnsweredJobs, CellsCurrent
  <2>5. Promise!Start
    BY <2>1, <2>2, <2>4, SamePending DEF Promise!Start, Phase
  <2> QED BY <2>4, <2>5 DEF Promise!Next
<1>3. CASE ReadEnd
  <2>1. /\ mpc = "read" /\ closing' /\ UNCHANGED <<queue, job, results, batch>> /\ jobId = 0
        /\ ~closing
    BY <1>0, <1>3 DEF ReadEnd, At, local, BatchBound
  <2>2. \A q \in QueryJobs : ~Queued(q)
    <3> SUFFICES ASSUME NEW q \in QueryJobs, Queued(q) PROVE FALSE
      OBVIOUS
    <3>1. q.poss < 0
      BY <1>0, <2>1, QueryFields DEF JobsCurrent, Queued
    <3>2. q.poss \in Nat
      BY QueryFields, BoundsAssumption DEF Positions
    <3> QED BY <3>1, <3>2
  <2>3. PendingJobs = {}
    BY <2>1, <2>2, NothingPending DEF QuietPoints
  <2>4. Promise!Stop
    BY <2>1, <2>3, SamePending, SameAnswered DEF Promise!Stop, Phase
  <2> QED BY <2>1, <2>4 DEF Promise!Next, RefinementInv, CellsCurrent
<1>4. CASE Open \/ Wake \/ Await \/ Metric \/ Rebuild \/ Join
  <2>1. /\ UNCHANGED <<closing, queue, job, results, batch>> /\ mpc # "read" /\ mpc' # "read"
    BY <1>4 DEF Open, Wake, Await, Metric, Rebuild, Join, At, Then, local, work
  <2>2. SameState
    BY <2>1, SamePending, SameAnswered DEF SameState, Phase
  <2> QED BY <2>1, <2>2 DEF RefinementInv, CellsCurrent
<1>5. CASE PrintResults
  <2>1. /\ mpc = "print" /\ mpc' = "read" /\ UNCHANGED <<closing, queue, job>>
        /\ results' = Freed /\ ~closing
    BY <1>0, <1>5 DEF PrintResults, At, Then, local, BatchBound
  <2>2. queue = <<>>
    BY <1>0, <2>1 DEF ClosedAndEmpty
  <2>3. PendingJobs = {}
    <3>1. \A q \in QueryJobs : ~Queued(q)
      BY <2>2 DEF Queued
    <3> QED BY <2>1, <3>1, NothingPending DEF QuietPoints
  <2>4. AnsweredJobs' = {} /\ CellsCurrent'
    BY <2>1 DEF AnsweredJobs, CellsCurrent, Freed
  <2>5. Promise!Deliver
    BY <2>1, <2>3, <2>4, SamePending DEF Promise!Deliver, Phase
  <2> QED BY <2>4, <2>5 DEF Promise!Next
<1>6. CASE SubmitPoison
  <2>1. /\ mpc = "poison" /\ mpc' # "read" /\ UNCHANGED <<closing, job, results, batch>>
        /\ queue' = Append(queue, Poison)
    BY <1>6 DEF SubmitPoison, At, Then, local, work
  <2>2. PendingJobs' = PendingJobs
    BY <1>0, <2>1, SubmitPending, NoQueries
  <2>3. SameState
    BY <2>1, <2>2, SameAnswered DEF SameState, Phase
  <2> QED BY <2>1, <2>3 DEF RefinementInv, CellsCurrent
<1> QED BY <1>1, <1>2, <1>3, <1>4, <1>5, <1>6 DEF Main

\* From the parked start, and with a workload that ends with an F line, the
\* scheduler and its drivers do what BatchExecutor promises: every query is answered
\* once, and a batch is delivered when all of its queries are answered
\* (jobScheduler.c; graphQA.c, staticWorkLoad and dynamicWorkLoad).
THEOREM ParkedImplementsExecutor ==
  ASSUME EndsWithF
  PROVE  ParkedSpec => Promise!Spec
<1>1. ParkedInit => JobsRead /\ HandedOutOnce /\ CellsCurrent /\ Promise!Init
  <2> SUFFICES ASSUME ParkedInit
               PROVE  JobsRead /\ HandedOutOnce /\ CellsCurrent /\ Promise!Init
    OBVIOUS
  <2>1. /\ queue = <<>> /\ \A w \in Workers : job[w] = NoJob
        /\ mpc = "read" /\ ~closing /\ results = Freed
    BY DEF ParkedInit, MachineInit
  <2>2. JobsRead /\ HandedOutOnce
    BY <2>1 DEF JobsRead, HandedOutOnce, NoJob
  <2>3. CellsCurrent /\ AnsweredJobs = {}
    BY <2>1 DEF CellsCurrent, AnsweredJobs, Freed
  <2>4. PendingJobs = {}
    BY <2>1, NoQueries DEF PendingJobs, Queued, InHand
  <2> QED BY <2>1, <2>2, <2>3, <2>4 DEF Promise!Init, Phase
<1>2. RefinementInv /\ [Next]_vars
        => (JobsRead /\ HandedOutOnce /\ CellsCurrent)' /\ [Promise!Next]_(Promise!vars)
  <2> SUFFICES ASSUME RefinementInv, [Next]_vars
               PROVE  /\ (JobsRead /\ HandedOutOnce /\ CellsCurrent)'
                      /\ Promise!Next \/ SameState
    BY DEF SameState, Promise!vars
  <2>1. JobsRead' /\ HandedOutOnce'
    BY HandedOutStep DEF RefinementInv, BarrierInv, PosixNext
  <2>2. ASSUME NEW w \in Workers, Worker(w)
        PROVE  CellsCurrent' /\ (Promise!Next \/ SameState)
    BY <2>2, WorkerRefines DEF Promise!Next
  <2>3. CASE Main
    BY <2>1, <2>3, MainRefines
  <2>4. CASE Finished \/ UNCHANGED vars
    <3>1. UNCHANGED <<queue, job, mpc, closing, results, batch>>
      BY <2>4 DEF Finished, vars, local, main, work
    <3>2. SameState
      BY <3>1, SamePending, SameAnswered DEF SameState, Phase
    <3> QED BY <2>1, <3>1, <3>2 DEF RefinementInv, CellsCurrent
  <2> QED BY <2>1, <2>2, <2>3, <2>4 DEF Next
<1> QED BY <1>1, <1>2, ParkedInvariant, PTL DEF ParkedSpec, RefinementInv, Promise!Spec
=============================================================================
