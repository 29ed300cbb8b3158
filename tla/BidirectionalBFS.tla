-------------------------- MODULE BidirectionalBFS --------------------------
(***************************************************************************)
(* The breadth-first searches of the program, which share one skeleton: a  *)
(* search from each end, one whole layer at a time, on the outgoing lists  *)
(* from nodeS and on the ingoing lists from nodeF, until one side meets a  *)
(* node that the other has marked.                                         *)
(*                                                                         *)
(*   dynamic  shortestLengthDynamicBBFS, on the edges that the version of  *)
(*            the job lets pass (Src/Graph/graphQA.c)                      *)
(*   plain    shortestLengthBBFS, on every edge (Src/Graph/graphQA.c)      *)
(*   static   shortestLengthStaticBBFS (Src/Graph/graphQA.c), which leaves *)
(*            out nodes by the GRAIL index, and, between two nodes of one  *)
(*            component, estimateShortestPathStronglyConnectedComponents   *)
(*            (Src/Components/stronglyConnectedComponents.c), which leaves *)
(*            out the nodes of the others                                  *)
(*                                                                         *)
(* Each queue holds what is left of the layer being expanded and, behind   *)
(* it, the layer being found; the code tells them apart with counters      *)
(* (cCurrentLayerS, cNextLayerS) and the model with two sets, so that the  *)
(* nodes of a layer are taken in any order.  What the index answers is     *)
(* taken from StaticIndex: NO only where there is no path, MAYBE anywhere. *)
(***************************************************************************)
EXTENDS Paths

CONSTANTS
  Nodes,      \* the nodes, 0 .. biggestNode of both graphs
  Pairs,      \* bound: the edges a graph may have
  Asks        \* bound: the pairs of nodes asked about

ASSUME NodesAssumption == IsFiniteSet(Nodes) /\ Nodes \subseteq Nat
ASSUME PairsAssumption == Pairs \subseteq Nodes \X Nodes /\ Asks \subseteq Nodes \X Nodes

VARIABLES
  edgeProperty, \* "absent", or whether the version of the job lets it pass
  search,       \* the kind of the search
  nodeS, nodeF, \* the job
  verdict,      \* what nodesInSameComponent returned
  pc,           \* "start", "test", the side whose layer is expanded, or "done"
  visitedTable, \* each node's mark: none, or the side that found it first
  layer, next,  \* of each side: what is left of its layer, and the next one
  distance,
  result

job    == <<edgeProperty, search, nodeS, nodeF, verdict>>
layers == <<layer, next>>
vars   == <<job, pc, visitedTable, layers, distance, result>>

-----------------------------------------------------------------------------
NOT_VISITED == "none"
S_VISITED   == "S"
F_VISITED   == "F"
Pending     == -2   \* no result yet

Listed   == {e \in Pairs : edgeProperty[e] # "absent"}
Visible  == {e \in Pairs : edgeProperty[e] = "passes"}

Sides       == {S_VISITED, F_VISITED}
Other(side) == IF side = S_VISITED THEN F_VISITED ELSE S_VISITED

\* Mutant of Neighbors: the backward search reads the outgoing lists.
NeighborsOutgoing(side, u) == {e[2] : e \in {d \in Visible : d[1] = u}}

\* The list that a side reads, without the edges it passes over.
Neighbors(side, u) ==
  IF side = S_VISITED THEN {e[2] : e \in {d \in Visible : d[1] = u}}
                      ELSE {e[1] : e \in {d \in Visible : d[2] = u}}

Marked(mark) == {u \in Nodes : visitedTable[u] = mark}

\* Some node of the first set leads to some node of the second.
Leads(A, B) == \E a \in A : Forward(Visible, a)[Cardinality(Nodes)] \cap B # {}
Mutual(u, v) == Leads({u}, {v}) /\ Leads({v}, {u})

\* Mutant of Meets: the backward side does not look at the other's marks.
MeetsForward(side, u) ==
  side = S_VISITED /\ Neighbors(side, u) \cap Marked(Other(side)) # {}

Meets(side, u) == Neighbors(side, u) \cap Marked(Other(side)) # {}

New(side, u) == Neighbors(side, u) \cap Marked(NOT_VISITED)

\* Mutant of Needed: the forward side asks whether the other layer leads here.
NeededReversed(side, v) == Leads(layer[Other(side)], {v})

\* The index does not rule out that v is on a path to the other side's layer.
Needed(side, v) == IF side = S_VISITED THEN Leads({v}, layer[Other(side)])
                                       ELSE Leads(layer[Other(side)], {v})

\* Which of the new nodes may be queued and marked.  The static search keeps
\* those that isReachableGrailIndex does not rule out for one node at least of the
\* other side's layer: all that are needed, and some of the others.
Kept(side, u) ==
  IF search # "static" THEN {New(side, u)}
  ELSE IF Mutual(nodeS, nodeF) THEN {{v \in New(side, u) : Mutual(v, nodeS)}}
  ELSE IF layer[Other(side)] = {} THEN {{}}
  ELSE {kept \in SUBSET New(side, u) : \A v \in New(side, u) : Needed(side, v) => v \in kept}

Init ==
  /\ search \in {"dynamic", "plain", "static"}
  /\ edgeProperty \in [Pairs -> IF search = "dynamic" THEN {"absent", "newer", "passes"}
                                                      ELSE {"absent", "passes"}]
  /\ \E q \in Asks : nodeS = q[1] /\ nodeF = q[2]
  /\ verdict \in IF search = "dynamic" THEN {"same", "different"} ELSE {"same"}
  /\ pc = "start"
  /\ visitedTable = [u \in Nodes |-> NOT_VISITED]
  /\ layer = [side \in Sides |-> {}] /\ next = layer
  /\ distance = 0 /\ result = Pending

Return(length) ==
  /\ result' = length
  /\ pc' = "done"
  /\ UNCHANGED <<job, visitedTable, layers, distance>>

\* An end without a list: for the plain search, before it compares the ends.
NoList == \/ \A e \in Listed : e[1] # nodeS
          \/ \A e \in Listed : e[2] # nodeF

\* The early returns, in their order: the same node, two components, or no
\* path by the index, and an end without a list.
NoSearch ==
  /\ pc = "start"
  /\ \/ /\ nodeS = nodeF
        /\ Return(IF search = "plain" /\ NoList THEN -1 ELSE 0)
     \/ /\ nodeS # nodeF
        /\ \/ verdict = "different"
           \/ search = "static" /\ ~Leads({nodeS}, {nodeF})
           \/ NoList
        /\ Return(-1)

Begin ==
  /\ pc = "start" /\ nodeS # nodeF /\ verdict = "same" /\ ~NoList
  /\ visitedTable' = [visitedTable EXCEPT ![nodeS] = S_VISITED, ![nodeF] = F_VISITED]
  /\ layer' = [side \in Sides |-> IF side = S_VISITED THEN {nodeS} ELSE {nodeF}]
  /\ pc' = "test"
  /\ UNCHANGED <<job, next, distance, result>>

\* The loop's condition, at the top of a round: both queues hold a layer.
Test ==
  /\ pc = "test"
  /\ \/ /\ \A side \in Sides : layer[side] # {}
        /\ distance' = distance + 1
        /\ pc' = S_VISITED
        /\ UNCHANGED <<job, visitedTable, layers, result>>
     \/ /\ \E side \in Sides : layer[side] = {}
        /\ Return(-1)

\* Mutant of Expand: a node that leads nowhere new stays in its layer.
ExpandKeepsNode(side, u) ==
  \E found \in Kept(side, u) :
    /\ visitedTable' = [v \in Nodes |-> IF v \in found THEN side ELSE visitedTable[v]]
    /\ next' = [next EXCEPT ![side] = @ \cup found]
    /\ layer' = [layer EXCEPT ![side] = IF found = {} THEN @ ELSE @ \ {u}]
    /\ UNCHANGED <<job, pc, distance, result>>

\* The node's list is read to its end.
Expand(side, u) ==
  \E found \in Kept(side, u) :
    /\ visitedTable' = [v \in Nodes |-> IF v \in found THEN side ELSE visitedTable[v]]
    /\ next' = [next EXCEPT ![side] = @ \cup found]
    /\ layer' = [layer EXCEPT ![side] = @ \ {u}]
    /\ UNCHANGED <<job, pc, distance, result>>

\* Take a node of the layer and look at its list.
Pop(side) ==
  /\ pc = side
  /\ \E u \in layer[side] :
       \/ Meets(side, u) /\ Return(distance)
       \/ ~Meets(side, u) /\ Expand(side, u)

PopS == Pop(S_VISITED)
PopF == Pop(F_VISITED)

\* The next layer becomes the layer.
Shift(side) == /\ layer[side] = {}
               /\ layer' = [layer EXCEPT ![side] = next[side]]
               /\ next' = [next EXCEPT ![side] = {}]
               /\ UNCHANGED <<job, visitedTable, result>>

\* The forward layer is done: the backward one of the same round.
TurnToF ==
  /\ pc = S_VISITED /\ Shift(S_VISITED)
  /\ pc' = F_VISITED
  /\ distance' = distance + 1

\* The backward layer is done: the next round.
EndRound ==
  /\ pc = F_VISITED /\ Shift(F_VISITED)
  /\ pc' = "test"
  /\ UNCHANGED distance

Returned == pc = "done" /\ UNCHANGED vars

Next == NoSearch \/ Begin \/ Test \/ PopS \/ TurnToF \/ PopF \/ EndRound \/ Returned

\* A thread that searches keeps running.
Spec == Init /\ [][Next]_vars /\ WF_vars(Next)

-----------------------------------------------------------------------------
(* Properties *)

\* Whether the static search may leave a node out: it is on no path.
Needless(u) == search = "static" /\ ~(Leads({nodeS}, {u}) /\ Leads({u}, {nodeF}))

\* After n rounds each side has marked the nodes within n edges of its end, along
\* edges that the version lets pass, and no others; the layer to expand is the
\* nodes n edges away.  The static search may have left out, or found late, nodes
\* on no path from nodeS to nodeF, and only these.
LayersAreDistances ==
  pc = "test" =>
    LET n == distance \div 2
        from  == Forward(Visible, nodeS)
        to    == Backward(Visible, nodeF)
        fromN == IF n = 0 THEN from[0] ELSE from[n] \ from[n - 1]
        toN   == IF n = 0 THEN to[0] ELSE to[n] \ to[n - 1]
    IN /\ Marked(S_VISITED) \subseteq from[n] /\ Marked(F_VISITED) \subseteq to[n]
       /\ \A u \in Nodes :
            \/ Needless(u)
            \/ /\ u \in from[n] <=> u \in Marked(S_VISITED)
               /\ u \in to[n] <=> u \in Marked(F_VISITED)
               /\ u \in fromN <=> u \in layer[S_VISITED]
               /\ u \in toN <=> u \in layer[F_VISITED]

\* The result is the distance from nodeS to nodeF along the edges that the
\* version lets pass, or -1 if there is none or the index says there is none.
\* The plain search finds a node that is no edge's start, or no edge's end, at no
\* distance from itself.
ResultIsDistance ==
  pc = "done" =>
    result = IF \/ verdict = "different" /\ nodeS # nodeF
                \/ search = "plain" /\ NoList
             THEN -1
             ELSE Dist(Nodes, Visible, nodeS, nodeF)

\* At the top of a round no edge from the forward side to the backward one has
\* been overlooked: only layers still to be expanded may be an edge apart.
NoEdgeMissed ==
  pc = "test" =>
    \A e \in Visible :
      visitedTable[e[1]] = S_VISITED /\ visitedTable[e[2]] = F_VISITED
      => e[1] \in layer[S_VISITED] /\ e[2] \in layer[F_VISITED]

\* The search ends, on any graph.
Terminates == <>(pc = "done")
=============================================================================
