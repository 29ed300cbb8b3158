--------------------------- MODULE DynamicWorkload ---------------------------
(***************************************************************************)
(* dynamicWorkLoad (Src/Graph/graphQA.c) on the data it works on: A lines  *)
(* add edges between Q lines, but the queries are answered together, at    *)
(* the F line, on the graph as it is by then.  A query must see the graph  *)
(* of its own line: every edge carries in edgeProperty the version at      *)
(* which it was added, a query carries the version of its line, and the    *)
(* search passes over edges that are newer.                                *)
(*                                                                         *)
(* The threads that answer are JobScheduler's; here an answer is one step  *)
(* and the answers of a batch come in any order, which is what the barrier *)
(* of that module gives.  The search is its result: BidirectionalBFS shows *)
(* that it finds the distance in the edges that it does not pass over.     *)
(***************************************************************************)
EXTENDS UpdateIndex

CONSTANTS
  Asks,        \* bound: the pairs of nodes that Q lines ask about
  MetricVal,   \* METRIC_VAL: uses per query from which the index is rebuilt
  MaxAdds,     \* bound: A lines of the workload
  MaxQueries,  \* bound: Q lines between two F lines
  MaxBatches   \* bound: F lines of the workload

ASSUME AsksAssumption == Asks \subseteq Nodes \X Nodes
ASSUME LimitsAssumption ==
  /\ MetricVal \in Nat /\ MaxAdds \in Nat /\ MaxQueries \in Nat /\ MaxBatches \in Nat
  /\ 1 .. MaxAdds + 1 \subseteq Versions
\* The loaded graph has an edge out of and one into its biggest node, so that
\* both node tables cover every node of the workload.
ASSUME TablesAssumption ==
  \E n \in Nodes : /\ \A u \in Nodes : u <= n
                   /\ \E u, v \in Nodes : <<n, u>> \in InitEdges /\ <<v, n>> \in InitEdges

VARIABLES
  in,                \* the ingoing lists: <<s, f, edgeProperty>>
  phase,             \* "read", "execute" or "print"
  currentVersion,
  previousJob,       \* the type of the last Q or A line
  queries,           \* the queries of the batch; graph is the edges at its line
  results,           \* results[0]: 0 from calloc until the answer is written
  open,              \* positions of the queries not answered yet
  timesUsedCounter,
  queriesCount,
  adds, batches      \* lines read so far, for the bounds

lists == <<out, in>>
lines == <<currentVersion, previousJob, queries>>
count == <<timesUsedCounter, queriesCount>>
vars  == <<indexVars, in, phase, lines, results, open, count, adds, batches>>

-----------------------------------------------------------------------------
biggestNode == CHOOSE n \in Nodes : \A u \in Nodes : u <= n

\* Edges that a search at the given version does not pass over.
VisibleOut(version) == {e \in Edges : out[e] <= version}
VisibleIn(version)  == {<<t[1], t[2]>> : t \in {r \in in : r[3] <= version}}

Init ==
  /\ IndexInit
  /\ in = {<<e[1], e[2], OUTGOING_EDGE>> : e \in InitEdges}
  /\ phase = "read"
  /\ currentVersion = 1 /\ previousJob = "Q"
  /\ queries = <<>> /\ results = <<>> /\ open = {}
  /\ timesUsedCounter = 0 /\ queriesCount = 0
  /\ adds = 0 /\ batches = 0

\* A Q line.
QueryLine ==
  /\ phase = "read" /\ Len(queries) < MaxQueries
  /\ previousJob' = "Q"
  /\ \E q \in Asks :
       queries' = Append(queries, [nodeS |-> q[1], nodeF |-> q[2],
                                   versioning |-> currentVersion, graph |-> Edges])
  /\ queriesCount' = queriesCount + 1
  /\ UNCHANGED <<indexVars, in, phase, currentVersion, results, open, timesUsedCounter,
                 adds, batches>>

\* addEdge finds the edge already there only when it looks, and it looks only
\* when the end node is not the biggest and has an outgoing list itself.
FoundDouble(s, f) ==
  f < biggestNode /\ (\E e \in Edges : e[1] = f) /\ <<s, f>> \in Edges

addEdge(s, f, version) ==
  /\ InsertOutgoing(s, f, version)
  /\ in' = IF FoundDouble(s, f) THEN in ELSE in \cup {<<s, f, version>>}

\* An A line: a new version if the last line was a Q.
LineVersion == IF previousJob = "Q" THEN currentVersion + 1 ELSE currentVersion

\* Mutant of AddLine: the edge is added at the version before it is raised.
AddLineLate ==
  /\ phase = "read" /\ adds < MaxAdds
  /\ currentVersion' = LineVersion
  /\ previousJob' = "A"
  /\ \E e \in Adds : /\ addEdge(e[1], e[2], currentVersion)
                     /\ insertNewEdge(e[1], e[2], LineVersion)
  /\ adds' = adds + 1
  /\ UNCHANGED <<ccindex, component, phase, queries, results, open, count, batches>>

\* Mutant of AddLine: insertNewEdge is not called.
AddLineForgetsIndex ==
  /\ phase = "read" /\ adds < MaxAdds
  /\ currentVersion' = LineVersion
  /\ previousJob' = "A"
  /\ \E e \in Adds : addEdge(e[1], e[2], LineVersion)
  /\ adds' = adds + 1
  /\ UNCHANGED <<ccindex, component, index, phase, queries, results, open, count, batches>>

AddLine ==
  /\ phase = "read" /\ adds < MaxAdds
  /\ currentVersion' = LineVersion
  /\ previousJob' = "A"
  /\ \E e \in Adds : /\ addEdge(e[1], e[2], LineVersion)
                     /\ insertNewEdge(e[1], e[2], LineVersion)
  /\ adds' = adds + 1
  /\ UNCHANGED <<ccindex, component, phase, queries, results, open, count, batches>>

\* An F line, up to the opening of the batch.
FLine ==
  /\ phase = "read" /\ batches < MaxBatches
  /\ results' = [p \in 1 .. Len(queries) |-> 0]
  /\ open' = 1 .. Len(queries)
  /\ phase' = "execute"
  /\ batches' = batches + 1
  /\ UNCHANGED <<indexVars, in, lines, count, adds>>

\* Mutant of shortestLengthDynamicBBFS: newer edges are not passed over.
SearchNewest(q) ==
  IF q.nodeS = q.nodeF THEN [length : {0}, used : BOOLEAN]
  ELSE {[length |-> IF i.same THEN Dist(Nodes, Edges, q.nodeS, q.nodeF) ELSE -1,
         used |-> i.used] :
          i \in nodesInSameComponent(q.nodeS, q.nodeF, q.versioning)}

\* What shortestLengthDynamicBBFS may return for a query, and whether it
\* reports that the update index was used.
shortestLengthDynamicBBFS(q) ==
  IF q.nodeS = q.nodeF THEN [length : {0}, used : BOOLEAN]
  ELSE {[length |-> IF i.same
                    THEN Dist(Nodes, VisibleOut(q.versioning), q.nodeS, q.nodeF)
                    ELSE -1,
         used |-> i.used] :
          i \in nodesInSameComponent(q.nodeS, q.nodeF, q.versioning)}

\* Some worker answers some query of the batch.
Answer ==
  /\ phase = "execute"
  /\ \E p \in open :
       /\ \E a \in shortestLengthDynamicBBFS(queries[p]) :
            /\ results' = [results EXCEPT ![p] = a.length]
            /\ timesUsedCounter' = timesUsedCounter + IF a.used THEN 1 ELSE 0
       /\ open' = open \ {p}
  /\ UNCHANGED <<indexVars, in, phase, lines, queriesCount, adds, batches>>

\* Mutant of estimateMetric: the metric is 1, a use by every query.
MetricOfOne == timesUsedCounter >= queriesCount

\* estimateMetric: 0 uses of 0 queries is NaN, which it takes for "rebuild".
estimateMetric == timesUsedCounter >= MetricVal * queriesCount

\* Every query is answered: rebuild or not, then print.
Metric ==
  /\ phase = "execute" /\ open = {}
  /\ IF estimateMetric
     THEN rebuildIndexes /\ timesUsedCounter' = 0 /\ queriesCount' = 0
     ELSE UNCHANGED <<ccindex, component, index, count>>
  /\ phase' = "print"
  /\ UNCHANGED <<lists, lines, results, open, adds, batches>>

PrintResults ==
  /\ phase = "print"
  /\ queries' = <<>> /\ results' = <<>>
  /\ phase' = "read"
  /\ UNCHANGED <<indexVars, in, currentVersion, previousJob, open, count, adds, batches>>

Next == QueryLine \/ AddLine \/ FLine \/ Answer \/ Metric \/ PrintResults

Spec == Init /\ [][Next]_vars

-----------------------------------------------------------------------------
(* Properties *)

\* However many edges are added after a Q line, and whether or not they were
\* there already, the search sees in the outgoing and in the ingoing lists the
\* graph as it was at that line (the versions of dynamicWorkLoad against the
\* tests of edgeProperty in shortestLengthDynamicBBFS).
SnapshotVisible ==
  \A p \in 1 .. Len(queries) :
    /\ VisibleOut(queries[p].versioning) = queries[p].graph
    /\ VisibleIn(queries[p].versioning) = queries[p].graph

\* What makes SnapshotVisible inductive.  The two tables hold the same edges,
\* and an edge that was added twice passes both at the same versions: the
\* outgoing list keeps the first edgeProperty, the ingoing one has it too.
TablesAgree ==
  /\ Edges \subseteq Nodes \X Nodes
  /\ \A e \in Edges : /\ out[e] \in Nat /\ out[e] <= currentVersion
                      /\ <<e[1], e[2], out[e]>> \in in
  /\ \A t \in in : /\ t \in Nodes \X Nodes \X Nat
                  /\ <<t[1], t[2]>> \in Edges /\ out[<<t[1], t[2]>>] <= t[3]

QueryJobs == [nodeS : Nodes, nodeF : Nodes, versioning : Nat, graph : SUBSET (Nodes \X Nodes)]

\* No query has the version that the next A line will use: dynamicWorkLoad raises
\* currentVersion with the first A line after a Q line.
QueriesBefore ==
  /\ queries \in Seq(QueryJobs)
  /\ \A p \in 1 .. Len(queries) :
       /\ queries[p].versioning < LineVersion
       /\ VisibleOut(queries[p].versioning) = queries[p].graph

\* currentVersion is raised at most once per A line.
VersionBound ==
  /\ adds \in 0 .. MaxAdds /\ currentVersion \in 1 .. adds + 1
  /\ previousJob \in {"Q", "A"}

Distance(q) == Dist(Nodes, q.graph, q.nodeS, q.nodeF)

\* A length that is printed is the distance at the query's line.
FoundIsExact ==
  phase = "print" =>
    \A p \in 1 .. Len(queries) : results[p] # -1 => results[p] = Distance(queries[p])

\* No node has changed component since the graph was loaded.
NeverRelabelled == \A u \in Nodes : u \in component[ccindex[u]]

\* The lookups cannot both find a version later than the query's.
NotJoinedLater(q) ==
  LET c == ccindex[q.nodeS]
      d == ccindex[q.nodeF]
  IN ~ (/\ \E v \in Lookup(c, d) : v > q.versioning
        /\ \E v \in Lookup(d, c) : v > q.versioning)

\* A -1 is printed only when there is no path, as long as the update index has
\* had no more than two cells to keep equal, has never been folded into
\* ccindex, and holds no later version of the query's two components in both
\* directions: beyond that insertNewEdge and nodesInSameComponent lose merges.
ExactUpToTwoCells ==
  phase = "print" /\ NeverRelabelled /\ Len(cell) <= 2 =>
    \A p \in 1 .. Len(queries) :
      NotJoinedLater(queries[p]) => results[p] = Distance(queries[p])

\* Every answer printed is the length of a shortest path at the query's line
\* (Documentation.pdf p.4: "it can be checked if two separate components were
\* merged into one"; the *_RESULTS.txt files compare every line).
AnswersExact ==
  phase = "print" => \A p \in 1 .. Len(queries) : results[p] = Distance(queries[p])

\* With METRIC_VAL above 1 an index that some query used since the last rebuild
\* is never folded into ccindex: estimateMetric says so only for 0 of 0.
UsedIndexKept == [][ccindex' # ccindex => queriesCount = 0 /\ timesUsedCounter = 0]_vars
=============================================================================
