------------------------- MODULE MCBidirectionalBFS -------------------------
(***************************************************************************)
(* BidirectionalBFS on every graph that can be made of a few edges.        *)
(***************************************************************************)
EXTENDS BidirectionalBFS

\* Two ways from 0 to 4, of two and of four edges, a way back, a cycle and a
\* loop: the sides meet in a node, on an edge, in either half of a round, or
\* never.
FiveNodes == 0 .. 4
Ways      == {<<0, 1>>, <<1, 2>>, <<2, 3>>, <<3, 4>>, <<0, 3>>, <<2, 4>>, <<3, 1>>, <<4, 4>>}
Ends      == {<<0, 4>>, <<3, 2>>, <<4, 4>>}
=============================================================================
