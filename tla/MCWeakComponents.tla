-------------------------- MODULE MCWeakComponents --------------------------
(***************************************************************************)
(* WeakComponents on every graph that can be made of a few edges.          *)
(***************************************************************************)
EXTENDS WeakComponents

\* Nodes that only edges into them link, or only edges out of them, a cycle, a
\* loop, and an edge from the greatest node to the least.
Ways      == {<<1, 0>>, <<1, 2>>, <<3, 2>>, <<2, 4>>, <<4, 1>>, <<3, 3>>, <<4, 0>>, <<0, 3>>}
=============================================================================
