---------------------------- MODULE LinkedQueue ----------------------------
(***************************************************************************)
(* Src/ExclusiveStructs/queue.c: doubly linked queues that share one heap  *)
(* of nodes.  A queue is its head and its tail; links gives each node its  *)
(* next (towards the head) and its previous one (towards the tail).        *)
(*                                                                         *)
(* An operation takes a queue and the links and returns both.  A node that *)
(* is taken keeps its previous pointer; one that is deleted does not.      *)
(***************************************************************************)
EXTENDS Integers, FiniteSets

NULL == -1

Cut == [next |-> NULL, previous |-> NULL]

EmptyQueue == [head |-> NULL, tail |-> NULL]

After(q, l) == [queue |-> q, links |-> l]

\* The new node becomes the tail.  Into an empty queue it goes with the links it has.
insertNodeAtQueue(q, l, n) ==
  IF q.tail = NULL
  THEN After([head |-> n, tail |-> n], l)
  ELSE After([q EXCEPT !.tail = n],
             [l EXCEPT ![q.tail].previous = n, ![n] = [next |-> q.tail, previous |-> NULL]])

\* createNode cuts both links of the new node.
insertAtQueue(q, l, n) == insertNodeAtQueue(q, [l EXCEPT ![n] = Cut], n)

\* The four cases of the code: the only node, the head, the tail, one in the middle.
Unlinked(q, l, n) ==
  CASE l[n].next = NULL /\ l[n].previous = NULL -> After(EmptyQueue, l)
    [] l[n].next = NULL /\ l[n].previous # NULL ->
         After([q EXCEPT !.head = l[n].previous], [l EXCEPT ![l[n].previous].next = NULL])
    [] l[n].next # NULL /\ l[n].previous = NULL ->
         After([q EXCEPT !.tail = l[n].next], [l EXCEPT ![l[n].next].previous = NULL])
    [] OTHER ->
         After(q, [l EXCEPT ![l[n].next].previous = l[n].previous,
                            ![l[n].previous].next = l[n].next])

\* Mutant of deleteNodeFromQueue: the deleted node keeps its links.
deleteKeepsLinks(q, l, n) == Unlinked(q, l, n)

deleteNodeFromQueue(q, l, n) ==
  After(Unlinked(q, l, n).queue, [Unlinked(q, l, n).links EXCEPT ![n] = Cut])

takeNode(q, l) ==
  IF l[q.head].previous = NULL
  THEN After(EmptyQueue, l)
  ELSE After([q EXCEPT !.head = l[q.head].previous], [l EXCEPT ![l[q.head].previous].next = NULL])

-----------------------------------------------------------------------------
(* Reading a queue *)

\* The nodes reached from one by its links in a direction, with a bound on a cycle.
Walk(l, from, direction) ==
  LET at[k \in 0 .. Cardinality(DOMAIN l) + 1] ==
        IF k = 0 THEN from ELSE IF at[k - 1] = NULL THEN NULL ELSE l[at[k - 1]][direction]
      length == Cardinality({k \in DOMAIN at : at[k] # NULL})
  IN  [k \in 1 .. length |-> at[k - 1]]
=============================================================================
