----------------------------- MODULE StaticIndex -----------------------------
(***************************************************************************)
(* What staticWorkLoad builds before its first line                        *)
(* (Src/Graph/graphQA.c): the strongly connected components, the           *)
(* hypergraph of these (Src/HyperGraph/hyperGraph.c), and the GRAIL index  *)
(* on it; and what the searches then ask of them.                          *)
(***************************************************************************)
EXTENDS StrongComponents, Grail

ASSUME IdsOfNodes == Ids = ComponentIds

vars == <<sccVars, grailVars>>

-----------------------------------------------------------------------------
Init ==
  /\ SCCInit
  /\ components = {} /\ hEdges = {} /\ rootNodes = {}
  /\ lable = 0 /\ roots = {} /\ gStack = <<>> /\ rankCounter = 1
  /\ expanded = [c \in Ids |-> {}]
  /\ tagsTable = [i \in Labels |-> [c \in Ids |-> Unset]]

estimateStronglyConnectedComponents == lable = 0 /\ SCCNext /\ UNCHANGED grailVars

\* Mutant of RootsOf: the components that an edge leaves are no roots.
RootsOfSinks(ids, tables) == {c \in ids : \A e \in tables : e[1] # c}

\* The components that rootNodeMap does not mark.
RootsOf(ids, tables) == {c \in ids : \A e \in tables : e[2] # c}

\* createHyperGraph with insertEdge, which stores an edge between two components
\* once, and then the start of buildGrailIndex.
createHyperGraph ==
  /\ lable = 0 /\ SCCDone
  /\ LET ids    == 1 .. componentId - 1
         tables == {e \in {<<component_id[d[1]], component_id[d[2]]>> : d \in edges} :
                      e[1] # e[2]}
     IN /\ components' = ids /\ hEdges' = tables
        /\ rootNodes' = RootsOf(ids, tables)
        /\ buildGrailIndex(RootsOf(ids, tables))
  /\ UNCHANGED sccVars

walkLabels == GrailNext /\ UNCHANGED sccVars

Finished == GrailDone /\ UNCHANGED vars

Next == estimateStronglyConnectedComponents \/ createHyperGraph \/ walkLabels \/ Finished

\* One thread builds the index, and keeps running.
Spec == Init /\ [][Next]_vars /\ WF_vars(Next)

isReachableGrailIndex(nodeS, nodeF) == isReachable(component_id[nodeS], component_id[nodeF])

-----------------------------------------------------------------------------
(* Properties *)

\* A finished label has ranked every component, each at a place of its own: one
\* that no root led to would keep -1, which rules out everything.
EveryoneRanked ==
  \A i \in Labels : i < lable =>
    {tagsTable[i][c].rank : c \in components} = 1 .. Cardinality(components)

\* The index rules no path out that exists in the loaded graph, and it says YES
\* exactly of two nodes that lead to each other: on this the static search relies
\* when it returns -1 or leaves nodes out.
NoMeansNoPath ==
  GrailDone =>
    \A u, v \in Nodes :
      /\ isReachableGrailIndex(u, v) = NO => ~Leads(u, v)
      /\ isReachableGrailIndex(u, v) = YES <=> Leads(u, v) /\ Leads(v, u)

\* The index is finished for every graph.
Terminates == <>GrailDone
=============================================================================
