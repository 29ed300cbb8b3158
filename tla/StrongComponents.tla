-------------------------- MODULE StrongComponents --------------------------
(***************************************************************************)
(* estimateStronglyConnectedComponents                                     *)
(* (Src/Components/stronglyConnectedComponents.c): Tarjan's algorithm with *)
(* two explicit stacks.  stack holds the nodes that have no component yet; *)
(* path (the code's "queue", used from its tail only) holds the nodes      *)
(* being expanded, each a neighbour of the one below it.                   *)
(*                                                                         *)
(* A node keeps the neighbour it is looking at, also while that neighbour  *)
(* is being expanded, and looks at it again afterwards.  The order of the  *)
(* neighbours in a node's list is left open.                               *)
(***************************************************************************)
EXTENDS Paths, Sequences

CONSTANTS
  Nodes,  \* the nodes, 0 .. biggestNode of both graphs
  Pairs   \* bound: the edges a graph may have

ASSUME NodesAssumption == IsFiniteSet(Nodes) /\ Nodes \subseteq Nat
ASSUME PairsAssumption == Pairs \subseteq Nodes \X Nodes

VARIABLES
  edges,            \* the loaded graph, by its outgoing lists
  index,            \* the number of the next node to be defined
  idx, lowLink,     \* of each node: index (0 if not defined), lowLink
  currentNeightbor, \* of each node: the neighbour it is looking at
  rest,             \* of each node: the neighbours after that one
  stack, path,      \* the two stacks, top first
  componentId,      \* the id of the next component
  component_id      \* id_belongs_to_component: the id of each node's, or 0

sccVars == <<edges, index, idx, lowLink, currentNeightbor, rest, stack, path,
             componentId, component_id>>

-----------------------------------------------------------------------------
ALL_NEIGHBORS_EXPANDED == -2

ComponentIds == 1 .. Cardinality(Nodes)
Outgoing(u) == {e[2] : e \in {d \in edges : d[1] = u}}
Leads(u, v) == v \in Forward(edges, u)[Cardinality(Nodes)]

Defined(u)  == idx[u] # 0
onStack(u)  == \E k \in DOMAIN stack : stack[k] = u
minimum(a, b) == IF a < b THEN a ELSE b

\* getNextNeighbor, when these neighbours are still to come.
NextOf(neighbors) == IF neighbors = {} THEN {ALL_NEIGHBORS_EXPANDED} ELSE neighbors

SCCInit ==
  /\ edges \in SUBSET Pairs
  /\ index = 1
  /\ idx = [u \in Nodes |-> 0] /\ lowLink = idx
  /\ currentNeightbor = [u \in Nodes |-> ALL_NEIGHBORS_EXPANDED]
  /\ rest = [u \in Nodes |-> {}]
  /\ stack = <<>> /\ path = <<>>
  /\ componentId = 1
  /\ component_id = [u \in Nodes |-> 0]

\* u moves on to its next neighbour.
Advance(u, neighbors) ==
  \E v \in NextOf(neighbors) :
    /\ currentNeightbor' = [currentNeightbor EXCEPT ![u] = v]
    /\ rest' = [rest EXCEPT ![u] = neighbors \ {v}]

\* createStackNode: u is defined and goes on both stacks.
Enter(u) ==
  /\ idx' = [idx EXCEPT ![u] = index]
  /\ lowLink' = [lowLink EXCEPT ![u] = index]
  /\ index' = index + 1
  /\ Advance(u, Outgoing(u))
  /\ stack' = <<u>> \o stack
  /\ path' = <<u>> \o path
  /\ UNCHANGED <<edges, componentId, component_id>>

\* The next node of the loop over all nodes that is not defined.
StartNode ==
  /\ path = <<>>
  /\ \E u \in Nodes : /\ ~Defined(u)
                      /\ \A v \in Nodes : ~Defined(v) => u <= v
                      /\ Enter(u)

\* The node on top of the path looks at a neighbour that is not defined.
Descend ==
  /\ path # <<>>
  /\ LET v == currentNeightbor[Head(path)]
     IN v # ALL_NEIGHBORS_EXPANDED /\ ~Defined(v) /\ Enter(v)

\* Mutant of LookAt: the neighbour counts though it has its component.
LookAtAny ==
  /\ path # <<>>
  /\ LET u == Head(path)
         v == currentNeightbor[u]
     IN /\ v # ALL_NEIGHBORS_EXPANDED /\ Defined(v)
        /\ lowLink' = [lowLink EXCEPT ![u] = minimum(@, idx[v])]
        /\ Advance(u, rest[u])
  /\ UNCHANGED <<edges, index, idx, stack, path, componentId, component_id>>

\* It looks at one that is: on the stack, or with a component of its own.
LookAt ==
  /\ path # <<>>
  /\ LET u == Head(path)
         v == currentNeightbor[u]
     IN /\ v # ALL_NEIGHBORS_EXPANDED /\ Defined(v)
        /\ lowLink' = [lowLink EXCEPT ![u] = IF onStack(v) THEN minimum(@, idx[v]) ELSE @]
        /\ Advance(u, rest[u])
  /\ UNCHANGED <<edges, index, idx, stack, path, componentId, component_id>>

\* Mutant of HandDown: the lowLink is lost when the path is left.
HandDownNothing(u, below) == UNCHANGED lowLink

\* The lowLink of u goes to the node below it on the path.
HandDown(u, below) ==
  lowLink' = IF below = <<>> THEN lowLink
             ELSE [lowLink EXCEPT ![Head(below)] = minimum(lowLink[u], @)]

\* Everything on the stack down to u becomes a component.
Close(u) ==
  \E k \in DOMAIN stack :
    /\ stack[k] = u
    /\ component_id' = [v \in Nodes |-> IF \E j \in 1 .. k : stack[j] = v
                                        THEN componentId ELSE component_id[v]]
    /\ stack' = SubSeq(stack, k + 1, Len(stack))
    /\ componentId' = componentId + 1

\* The node on top of the path has no more neighbours and leaves it.
Ascend ==
  /\ path # <<>>
  /\ LET u == Head(path)
     IN /\ currentNeightbor[u] = ALL_NEIGHBORS_EXPANDED
        /\ path' = Tail(path)
        /\ HandDown(u, Tail(path))
        /\ \/ lowLink[u] = idx[u] /\ Close(u)
           \/ lowLink[u] # idx[u] /\ UNCHANGED <<stack, componentId, component_id>>
  /\ UNCHANGED <<edges, index, idx, currentNeightbor, rest>>

SCCNext == StartNode \/ Descend \/ LookAt \/ Ascend

SCCDone == path = <<>> /\ \A u \in Nodes : Defined(u)

-----------------------------------------------------------------------------
(* Properties *)

\* The lowLink of a node on the stack is the index of a node that is on the
\* stack too, not above it, and that it leads to: lowLinks taken over from
\* finished components would let components run together or never close.
LowLinkOnStack ==
  \A u \in Nodes : onStack(u) =>
    \E v \in Nodes : /\ onStack(v) /\ idx[v] = lowLink[u]
                     /\ lowLink[u] <= idx[u] /\ Leads(u, v)

\* A component, as soon as it is closed, is exact: two nodes have the same id if
\* and only if each leads to the other.
ComponentsAreMutual ==
  \A u, v \in Nodes :
    component_id[u] # 0 =>
      (component_id[u] = component_id[v] <=> Leads(u, v) /\ Leads(v, u))

\* Components are closed in reverse topological order: an edge never leads to a
\* component that is still open or has a greater id.  The condensation that GRAIL
\* walks has no cycle for this reason.
IdsFollowEdges ==
  \A e \in edges :
    component_id[e[1]] # 0 => component_id[e[2]] \in 1 .. component_id[e[1]]
=============================================================================
