-------------------------------- MODULE Paths --------------------------------
(***************************************************************************)
(* Reference definitions about directed graphs, given as sets of edges     *)
(* <<u, v>>: what "connected" and "distance" mean where the program's own  *)
(* algorithms are checked.  None of them translates code.                  *)
(***************************************************************************)
EXTENDS Integers, FiniteSets

\* No edge of E has one end inside C and the other outside.
Closed(E, C) == \A e \in E : e[1] \in C <=> e[2] \in C

\* u and v are weakly connected: no closed set of nodes separates them.
Linked(Nodes, E, u, v) ==
  \A C \in SUBSET Nodes : Closed(E, C) => (u \in C <=> v \in C)

\* number gives the nodes the numbers of their weakly connected components, which
\* count from 1 in the order of their least nodes.
NumberedByLeast(Nodes, E, number) ==
  /\ \A u, v \in Nodes : number[u] = number[v] <=> Linked(Nodes, E, u, v)
  /\ \A u, v \in Nodes :
       number[u] < number[v] =>
         \E w \in Nodes : number[w] = number[u]
                          /\ \A x \in Nodes : number[x] = number[v] => w < x
  /\ \A u \in Nodes : number[u] > 1 => \E v \in Nodes : number[v] = number[u] - 1

\* The nodes that n edges or fewer of E lead to from s (or, Backward, that n
\* edges or fewer lead from to f).
Forward(E, s) ==
  LET ball[n \in Nat] ==
        IF n = 0 THEN {s}
        ELSE LET inner == ball[n - 1]
             IN  inner \cup {e[2] : e \in {d \in E : d[1] \in inner}}
  IN ball

Backward(E, f) == Forward({<<e[2], e[1]>> : e \in E}, f)

\* The number of edges on a shortest path from s to f, or -1 if there is none.
Dist(Nodes, E, s, f) ==
  LET within == Forward(E, s)
      lengths == {n \in 0 .. Cardinality(Nodes) : f \in within[n]}
  IN IF lengths = {} THEN -1
     ELSE CHOOSE n \in lengths : \A m \in lengths : n <= m
=============================================================================
