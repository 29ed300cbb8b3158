-------------------------- MODULE MCDynamicWorkload --------------------------
(***************************************************************************)
(* DynamicWorkload on small graphs.                                        *)
(***************************************************************************)
EXTENDS DynamicWorkload

\* Four components, {0, 1}, {2}, {3} and {4}: enough for two cells that an edge
\* joins.  Adds joins two of them from both sides, repeats an edge, and ends one
\* in the biggest node, where addEdge does not look for doubles.
FiveNodes   == 0 .. 4
OnePair     == {<<0, 1>>, <<4, 4>>}
MixedAdds   == {<<1, 2>>, <<2, 0>>, <<2, 3>>, <<3, 4>>}
MixedAsks   == {<<0, 2>>, <<0, 4>>}

\* Six components of one node: enough for three cells.
SixNodes    == 0 .. 5
Loop        == {<<5, 5>>}
ChainAdds   == {<<0, 1>>, <<1, 2>>, <<2, 3>>, <<3, 4>>, <<4, 5>>}
ChainAsks   == {<<1, 5>>}

UpTo(n)     == 1 .. n
Versions5   == UpTo(5)
Versions6   == UpTo(6)
=============================================================================
