--------------------------- MODULE WeakComponents ---------------------------
(***************************************************************************)
(* estimateConnectedComponets                                              *)
(* (Src/Components/weaklyConnectedConponens.c): the weakly connected       *)
(* components of the loaded graph, found by a search over both kinds of    *)
(* lists from the least node that has no component yet.                    *)
(*                                                                         *)
(* queue1 holds the nodes not found yet, queue2 those whose lists are      *)
(* still to be read; visitMap leads from a node to its place, so that it   *)
(* can be deleted from the middle of queue1.  A node enters nodeList when  *)
(* it is found and again when it is taken, the first one of a component    *)
(* only when it is taken.  The order of the lists is left open.            *)
(***************************************************************************)
EXTENDS Paths, Sequences, SequencesExt, LinkedQueue

CONSTANTS
  biggestNode,  \* the biggest node of both graphs
  Pairs         \* bound: the edges a graph may have

Nodes == 0 .. biggestNode

ASSUME NodesAssumption == biggestNode \in Nat
ASSUME PairsAssumption == Pairs \subseteq Nodes \X Nodes

VARIABLES
  edges,     \* the loaded graph
  queue1,    \* the nodes not found yet
  queue2,    \* the nodes found in this component, whose lists are still to be read
  links,     \* next and previous of every queue node; visitMap is the identity
  unread,    \* the neighbours of the node in hand that have not been looked at
  ccId,      \* the number of components begun
  ccindex,   \* the component of each node, or 0
  nodeList,  \* how often each node has been put in the list of this component
  component  \* of each finished component, how often it includes each node

queueVars == <<queue1, queue2, links>>
vars == <<edges, queueVars, unread, ccId, ccindex, nodeList, component>>

-----------------------------------------------------------------------------
Empty == [u \in Nodes |-> 0]

\* queue1 after the loop has inserted the nodes up to one of them.
Filled ==
  LET upTo[i \in Nodes] ==
        IF i = 0 THEN insertAtQueue(EmptyQueue, [u \in Nodes |-> Cut], 0)
                 ELSE insertAtQueue(upTo[i - 1].queue, upTo[i - 1].links, i)
  IN  upTo[biggestNode]

Init ==
  /\ edges \in SUBSET Pairs
  /\ queue1 = Filled.queue /\ links = Filled.links /\ queue2 = EmptyQueue
  /\ unread = {}
  /\ ccId = 0
  /\ ccindex = Empty /\ nodeList = Empty
  /\ component = <<>>

\* deleteNodeFromQueue(queue1, n) and insertNodeAtQueue(queue2, n).
MoveToQueue2(n) ==
  LET deleted  == deleteNodeFromQueue(queue1, links, n)
      inserted == insertNodeAtQueue(queue2, deleted.links, n)
  IN  queue1' = deleted.queue /\ queue2' = inserted.queue /\ links' = inserted.links

NextComponent ==
  /\ Len(component) = ccId /\ queue1.head # NULL
  /\ ccId' = ccId + 1
  /\ MoveToQueue2(queue1.head)
  /\ UNCHANGED <<edges, unread, ccindex, nodeList, component>>

\* Mutant of Adjacent: the ingoing lists are not read.
AdjacentOut(u) == {e[2] : e \in {d \in edges : d[1] = u}}

\* The nodes in the ingoing and the outgoing list of u.
Adjacent(u) == {e[1] : e \in {d \in edges : d[2] = u}} \cup
               {e[2] : e \in {d \in edges : d[1] = u}}

\* The next node of queue2 gets the component, and its lists are begun.
TakeFromQueue2 ==
  /\ Len(component) < ccId /\ unread = {} /\ queue2.head # NULL
  /\ LET u == queue2.head
         taken == takeNode(queue2, links) IN
       /\ queue2' = taken.queue /\ links' = taken.links
       /\ ccindex' = [ccindex EXCEPT ![u] = ccId]
       /\ nodeList' = [nodeList EXCEPT ![u] = @ + 1]
       /\ unread' = Adjacent(u)
  /\ UNCHANGED <<edges, queue1, ccId, component>>

LookAt(v) ==
  /\ v \in unread
  /\ unread' = unread \ {v}
  /\ IF ccindex[v] = 0
     THEN /\ ccindex' = [ccindex EXCEPT ![v] = ccId]
          /\ nodeList' = [nodeList EXCEPT ![v] = @ + 1]
          /\ MoveToQueue2(v)
     ELSE UNCHANGED <<ccindex, nodeList, queueVars>>
  /\ UNCHANGED <<edges, ccId, component>>

\* Mutant of CloseComponent: the list goes on into the next component.
CloseKeepingList ==
  /\ Len(component) < ccId /\ unread = {} /\ queue2.head = NULL
  /\ component' = Append(component, nodeList)
  /\ UNCHANGED <<edges, queueVars, unread, ccId, ccindex, nodeList>>

\* The list is moved into the component's table, and is empty again.
CloseComponent ==
  /\ Len(component) < ccId /\ unread = {} /\ queue2.head = NULL
  /\ component' = Append(component, nodeList)
  /\ nodeList' = Empty
  /\ UNCHANGED <<edges, queueVars, unread, ccId, ccindex>>

Finished == queue1.head = NULL /\ Len(component) = ccId

Next ==
  \/ NextComponent \/ TakeFromQueue2 \/ CloseComponent
  \/ \E v \in Nodes : LookAt(v)
  \/ Finished /\ UNCHANGED vars

Spec == Init /\ [][Next]_vars

-----------------------------------------------------------------------------
(* Properties *)

\* Deleting from the middle and moving between the queues leaves two lists that are
\* the same read from either end: in queue1 the nodes without a component, in their
\* order, and in queue2 others, among them any without a component that is not in
\* queue1.
QueuesLinked ==
  LET list1 == Walk(links, queue1.head, "previous")
      list2 == Walk(links, queue2.head, "previous") IN
    /\ Walk(links, queue1.tail, "next") = Reverse(list1)
    /\ Walk(links, queue2.tail, "next") = Reverse(list2)
    /\ \A i, j \in DOMAIN list1 : i < j => list1[i] < list1[j]
    /\ \A i, j \in DOMAIN list2 : i # j => list2[i] # list2[j]
    /\ Range(list1) \cap Range(list2) = {}
    /\ {u \in Nodes : ccindex[u] = 0} \ Range(list2) = Range(list1)
    /\ \A u \in Range(list2) : ccindex[u] \in {0, ccId} /\ nodeList[u] < 2

\* A finished component includes the nodes that bear its id and no others, its
\* least node once and every other one twice: included_nodes_count is twice the
\* number of nodes, less one.
IncludesOwnNodes ==
  \A c \in DOMAIN component : \A u \in Nodes :
    component[c][u] = IF ccindex[u] # c THEN 0
                      ELSE IF \E v \in Nodes : ccindex[v] = c /\ v < u THEN 2 ELSE 1

\* In the end the components are those of the loaded graph, numbered from 1 in
\* the order of their least nodes, as UpdateIndex takes them to be.
LeavesNumbering ==
  Finished => /\ NumberedByLeast(Nodes, edges, ccindex)
              /\ \A u \in Nodes : ccindex[u] \in 1 .. ccId
=============================================================================
