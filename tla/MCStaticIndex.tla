--------------------------- MODULE MCStaticIndex ---------------------------
(***************************************************************************)
(* StaticIndex on every graph that can be made of a few edges.             *)
(***************************************************************************)
EXTENDS StaticIndex

\* Two cycles that share a node, a chord, a loop, and two ways to the last node:
\* one component to five, trees, diamonds and nodes of their own.
FiveNodes == 0 .. 4
FiveIds   == 1 .. 5
Ways      == {<<0, 1>>, <<1, 2>>, <<2, 0>>, <<1, 3>>, <<3, 1>>, <<2, 2>>, <<0, 4>>, <<4, 3>>,
              <<2, 4>>}
=============================================================================
