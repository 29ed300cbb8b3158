----------------------------- MODULE EdgeLists -----------------------------
(***************************************************************************)
(* What a loaded graph promises the searches: for each node a list of its  *)
(* outgoing neighbours, without repetition, and a list of its ingoing      *)
(* ones.  A list only grows, at its end, by one neighbour at a time.       *)
(***************************************************************************)
EXTENDS Sequences, Functions

CONSTANT Nodes

VARIABLE lists

EdgeInit == lists = [s \in {"out", "in"} |-> [u \in Nodes |-> <<>>]]

AddNeighbor(s, u, v) ==
  /\ s = "out" => v \notin Range(lists[s][u])
  /\ lists' = [lists EXCEPT ![s][u] = Append(@, v)]

EdgeNext == \E s \in {"out", "in"}, u, v \in Nodes : AddNeighbor(s, u, v)

EdgeSpec == EdgeInit /\ [][EdgeNext]_lists
=============================================================================
