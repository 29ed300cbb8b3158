---------------------------- MODULE MCGraphLoad ----------------------------
(***************************************************************************)
(* GraphLoad on every file that can be made of a few edges.                *)
(***************************************************************************)
EXTENDS GraphLoad

FewNodes == 0 .. 3

\* Three edges of one node, in lines of different lengths, one of another node
\* into the same target, and one between them and back.
Ways == {<<0, 1>>, <<0, 2>>, <<0, 3>>, <<3, 1>>}

\* The files in which the greatest node has an edge out and an edge in.
SmallFiles == {f \in UNION {[1 .. n -> Ways] : n \in 2 .. 5} :
                 <<3, 1>> \in Range(f) /\ <<0, 3>> \in Range(f)}

\* Node 2 is written with two characters.
Characters == [u \in FewNodes |-> IF u = 2 THEN 2 ELSE 1]
=============================================================================
