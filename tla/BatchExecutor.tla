---------------------------- MODULE BatchExecutor ----------------------------
(***************************************************************************)
(* What the scheduler promises the workload drivers (staticWorkLoad and    *)
(* dynamicWorkLoad): queries are collected while lines are read, a batch   *)
(* is executed in any order and each query is answered once, and the batch *)
(* is delivered only when every one of its queries has been answered.      *)
(***************************************************************************)
EXTENDS Integers

CONSTANTS
  Jobs  \* the queries that a workload can hold

VARIABLES
  phase,    \* "reading", "executing" or "stopped"
  pending,  \* queries accepted and not yet answered
  answered  \* queries of the batch under way that have been answered

vars == <<phase, pending, answered>>

Init == phase = "reading" /\ pending = {} /\ answered = {}

\* A query is read.
Accept ==
  /\ phase = "reading"
  /\ \E j \in Jobs \ pending : pending' = pending \cup {j}
  /\ UNCHANGED <<phase, answered>>

\* The batch is opened.
Start ==
  /\ phase = "reading"
  /\ phase' = "executing"
  /\ UNCHANGED <<pending, answered>>

\* Some worker answers a query of the batch.
Answer ==
  /\ phase = "executing"
  /\ \E j \in pending : pending' = pending \ {j} /\ answered' = answered \cup {j}
  /\ UNCHANGED phase

\* The batch is delivered: nothing of it is left to answer.
Deliver ==
  /\ phase = "executing" /\ pending = {}
  /\ phase' = "reading"
  /\ answered' = {}
  /\ UNCHANGED pending

\* The workload has ended.
Stop ==
  /\ phase = "reading" /\ pending = {}
  /\ phase' = "stopped"
  /\ UNCHANGED <<pending, answered>>

Next == Accept \/ Start \/ Answer \/ Deliver \/ Stop

Spec == Init /\ [][Next]_vars

Live == Spec /\ WF_vars(Answer \/ Deliver)
=============================================================================
