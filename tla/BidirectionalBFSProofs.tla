----------------------- MODULE BidirectionalBFSProofs -----------------------
(***************************************************************************)
(* Theorems about BidirectionalBFS.tla: on any graph, whichever search and *)
(* whatever the GRAIL index lets it leave out, the layers are the nodes at *)
(* their distance from the ends and the result is the distance.            *)
(***************************************************************************)
EXTENDS BidirectionalBFS, PathsProofs

\* What a side follows: the edges, for the backward one turned round, from its end.
EdgesOf(side) == IF side = S_VISITED THEN Visible ELSE {<<e[2], e[1]>> : e \in Visible}
End(side)     == IF side = S_VISITED THEN nodeS ELSE nodeF
Ball(side)    == Forward(EdgesOf(side), End(side))
Reached(side) == Ball(side)[Cardinality(Nodes)]

\* The nodes d edges away from the end of a side.
Sphere(side, d) == {u \in Ball(side)[d] : d = 0 \/ u \notin Ball(side)[d - 1]}

\* A node that no search may leave out.
Counts(u) == search = "static" => \A side \in Sides : u \in Reached(side)

-----------------------------------------------------------------------------
(* The inductive invariant *)

\* The variables keep to their types, and a search that has begun had cause to.
BFSTyped ==
  /\ nodeS \in Nodes /\ nodeF \in Nodes
  /\ pc \in Sides \cup {"start", "test", "done"}
  /\ visitedTable \in [Nodes -> Sides \cup {NOT_VISITED}]
  /\ layer \in [Sides -> SUBSET Nodes] /\ next \in [Sides -> SUBSET Nodes]
  /\ distance \in Nat
  /\ pc \in Sides \cup {"test"} => nodeS # nodeF /\ verdict = "same" /\ ~NoList
  /\ pc = "start" => /\ visitedTable = [u \in Nodes |-> NOT_VISITED]
                     /\ next = [side \in Sides |-> {}] /\ distance = 0

\* A side has marked its first d layers, and has the last of them to expand.
Complete(side, d) ==
  /\ next[side] = {}
  /\ layer[side] \subseteq Marked(side) /\ Marked(side) \subseteq Ball(side)[d]
  /\ \A u \in Nodes : Counts(u) => /\ u \in Ball(side)[d] => u \in Marked(side)
                                   /\ u \in layer[side] <=> u \in Sphere(side, d)

\* It is expanding that one: the neighbours of what it has expanded are marked.
Growing(side, d) ==
  /\ next[side] \subseteq Marked(side) /\ Marked(side) \subseteq Ball(side)[d + 1]
  /\ layer[side] \subseteq Ball(side)[d]
  /\ \A u \in Nodes : Counts(u) =>
       /\ u \in Ball(side)[d] => u \in Marked(side) /\ u \notin next[side]
       /\ u \in Marked(side) => u \in Ball(side)[d] \/ u \in next[side]
       /\ u \in Ball(side)[d] /\ u \notin layer[side] =>
            \A v \in Neighbors(side, u) : Counts(v) => v \in Marked(side)

\* distance counts the layers that have been begun.
Rounds ==
  /\ pc = "test" => \E n \in Nat : /\ distance = 2 * n
                                   /\ Complete(S_VISITED, n) /\ Complete(F_VISITED, n)
  /\ pc = S_VISITED => \E n \in Nat : /\ distance = 2 * n + 1
                                      /\ Growing(S_VISITED, n) /\ Complete(F_VISITED, n)
  /\ pc = F_VISITED => \E n \in Nat : /\ distance = 2 * n + 2
                                      /\ Complete(S_VISITED, n + 1) /\ Growing(F_VISITED, n)

BFSInv == BFSTyped /\ Rounds /\ ResultIsDistance

-----------------------------------------------------------------------------
(* The two sides *)

LEMMA TwoSides ==
  /\ S_VISITED \in Sides /\ F_VISITED \in Sides /\ S_VISITED # F_VISITED
  /\ Sides = {S_VISITED, F_VISITED}
  /\ NOT_VISITED \notin Sides /\ "test" \notin Sides /\ "start" \notin Sides /\ "done" \notin Sides
  /\ Other(S_VISITED) = F_VISITED /\ Other(F_VISITED) = S_VISITED
  /\ \A side \in Sides : Other(side) \in Sides /\ Other(side) # side /\ Other(Other(side)) = side
  BY DEF Sides, S_VISITED, F_VISITED, NOT_VISITED, Other

\* The edges of a side are pairs of nodes, and those of the other turned round.
LEMMA SideEdges ==
  ASSUME NEW side \in Sides
  PROVE  /\ EdgesOf(side) \subseteq Nodes \X Nodes
         /\ \A e \in EdgesOf(side) : <<e[2], e[1]>> \in EdgesOf(Other(side))
         /\ \A u : Neighbors(side, u) = {e[2] : e \in {d \in EdgesOf(side) : d[1] = u}}
<1>1. \A e \in Visible : e \in Nodes \X Nodes /\ e = <<e[1], e[2]>>
  BY PairsAssumption DEF Visible
<1>2. EdgesOf(S_VISITED) = Visible /\ EdgesOf(F_VISITED) = {<<e[2], e[1]>> : e \in Visible}
  BY TwoSides DEF EdgesOf
<1>3. CASE side = S_VISITED
  <2>1. \A e \in EdgesOf(side) : <<e[2], e[1]>> \in EdgesOf(Other(side))
    BY <1>2, <1>3, TwoSides
  <2>2. \A u : Neighbors(side, u) = {e[2] : e \in {d \in EdgesOf(side) : d[1] = u}}
    BY <1>2, <1>3 DEF Neighbors
  <2> QED BY <1>1, <1>2, <1>3, <2>1, <2>2
<1>4. CASE side = F_VISITED
  <2>1. \A e \in EdgesOf(side) : <<e[2], e[1]>> \in EdgesOf(Other(side))
    <3> SUFFICES ASSUME NEW d \in Visible PROVE <<d[1], d[2]>> \in Visible
      BY <1>2, <1>4, TwoSides
    <3> QED BY <1>1
  <2>2. ASSUME NEW u
        PROVE  {e[1] : e \in {d \in Visible : d[2] = u}}
                 = {e[2] : e \in {d \in EdgesOf(side) : d[1] = u}}
    <3>1. \A v : v \in {e[1] : e \in {d \in Visible : d[2] = u}}
                   <=> \E d \in Visible : d[2] = u /\ d[1] = v
      OBVIOUS
    <3>2. \A v : v \in {e[2] : e \in {d \in EdgesOf(side) : d[1] = u}}
                   <=> \E e \in EdgesOf(side) : e[1] = u /\ e[2] = v
      OBVIOUS
    <3>3. \A v : (\E e \in EdgesOf(side) : e[1] = u /\ e[2] = v)
                   <=> \E d \in Visible : d[2] = u /\ d[1] = v
      <4> TAKE v
      <4>1. ASSUME NEW d \in Visible, d[2] = u, d[1] = v
            PROVE  \E e \in EdgesOf(side) : e[1] = u /\ e[2] = v
        <5>1. <<d[2], d[1]>> \in EdgesOf(side)
          BY <1>2, <1>4
        <5> QED BY <4>1, <5>1
      <4>2. ASSUME NEW e \in EdgesOf(side), e[1] = u, e[2] = v
            PROVE  \E d \in Visible : d[2] = u /\ d[1] = v
        <5>1. PICK d \in Visible : e = <<d[2], d[1]>>
          BY <1>2, <1>4
        <5> QED BY <4>2, <5>1
      <4> QED BY <4>1, <4>2
    <3> QED BY <3>1, <3>2, <3>3
  <2>3. \A u : Neighbors(side, u) = {e[2] : e \in {d \in EdgesOf(side) : d[1] = u}}
    BY <2>2, <1>4, TwoSides DEF Neighbors
  <2>4. EdgesOf(side) \subseteq Nodes \X Nodes
    BY <1>1, <1>2, <1>4
  <2> QED BY <2>1, <2>3, <2>4
<1> QED BY <1>3, <1>4, TwoSides

\* A ball holds its end, lies in the graph, and grows by the neighbours.
LEMMA BallFacts ==
  ASSUME BFSTyped, NEW side \in Sides
  PROVE  /\ Cardinality(Nodes) \in Nat /\ End(side) \in Nodes
         /\ Ball(side)[0] = {End(side)}
         /\ \A d \in Nat : /\ Ball(side)[d] \subseteq Nodes
                           /\ Ball(side)[d] \subseteq Reached(side)
                           /\ End(side) \in Ball(side)[d]
         /\ \A d, e \in Nat : d <= e => Ball(side)[d] \subseteq Ball(side)[e]
         /\ \A d \in Nat : \A v : v \in Ball(side)[d + 1] <=>
              v \in Ball(side)[d] \/ \E u \in Ball(side)[d] : v \in Neighbors(side, u)
         /\ \A u \in Reached(side) : \A v \in Neighbors(side, u) : v \in Reached(side)
<1>1. End(side) \in Nodes
  BY DEF BFSTyped, End
<1>2. Cardinality(Nodes) \in Nat
  BY NodesAssumption, FS_CardinalityType
<1>3. EdgesOf(side) \subseteq Nodes \X Nodes
  BY SideEdges
<1>4. \A v, u : v \in Neighbors(side, u) <=> \E e \in EdgesOf(side) : e[1] = u /\ e[2] = v
  BY SideEdges
<1> DEFINE F == Ball(side)
<1>5. F[0] = {End(side)} /\ \A d \in Nat : F[d + 1] = Widen(EdgesOf(side), F[d])
  BY ForwardStep DEF Ball
<1>6. \A d \in Nat : F[d] \subseteq Nodes
  BY <1>1, <1>3, ForwardInside DEF Ball
<1>7. /\ TakesAll(EdgesOf(side), F[Cardinality(Nodes)])
      /\ \A d \in Nat : F[d] \subseteq F[Cardinality(Nodes)]
  BY <1>1, <1>3, NodesAssumption, ForwardSettles DEF Ball
<1>8. \A d, e \in Nat : d <= e => F[d] \subseteq F[e]
  BY ForwardGrows DEF Ball
<1> HIDE DEF F
<1>9. \A d \in Nat : End(side) \in F[d]
  BY <1>5, <1>8
<1>10. \A d \in Nat : \A v : v \in F[d + 1] <=>
                           v \in F[d] \/ \E u \in F[d] : v \in Neighbors(side, u)
  <2> SUFFICES ASSUME NEW d \in Nat, NEW v
               PROVE  v \in F[d + 1] <=> v \in F[d] \/ \E u \in F[d] : v \in Neighbors(side, u)
    OBVIOUS
  <2>1. v \in F[d + 1] <=> v \in F[d] \/ \E e \in EdgesOf(side) : e[1] \in F[d] /\ e[2] = v
    <3>1. F[d + 1] = Widen(EdgesOf(side), F[d])
      BY <1>5
    <3> QED BY ONLY <3>1 DEF Widen
  <2> QED BY <1>4, <2>1
<1>11. \A u \in F[Cardinality(Nodes)] : \A v \in Neighbors(side, u) : v \in F[Cardinality(Nodes)]
  BY <1>4, <1>7 DEF TakesAll
<1> QED BY <1>1, <1>2, <1>5, <1>6, <1>7, <1>8, <1>9, <1>10, <1>11 DEF F, Reached

\* What one side leads to from a node leads back for the other.
LEMMA TurnBack ==
  ASSUME NEW side \in Sides, NEW u, NEW d \in Nat, NEW v \in Forward(EdgesOf(side), u)[d]
  PROVE  u \in Forward(EdgesOf(Other(side)), v)[d]
<1>1. \A e \in EdgesOf(side) : <<e[2], e[1]>> \in EdgesOf(Other(side))
  BY SideEdges
<1> QED BY <1>1, ForwardTurned

\* What a node that a side reaches leads to, the side reaches.
LEMMA ReachedOn ==
  ASSUME BFSTyped, NEW side \in Sides, NEW u \in Reached(side), NEW d \in Nat
  PROVE  Forward(EdgesOf(side), u)[d] \subseteq Reached(side)
<1>1. End(side) \in Nodes /\ EdgesOf(side) \subseteq Nodes \X Nodes
  BY BallFacts, SideEdges
<1> QED BY <1>1, NodesAssumption, ForwardOn DEF Reached, Ball

\* A node beyond d edges is led to from one that is d edges away, which counts
\* if the farther one does.
LEMMA SphereMet ==
  ASSUME BFSTyped, NEW side \in Sides, NEW d \in Nat,
         NEW w \in Reached(side), w \notin Ball(side)[d]
  PROVE  \E x \in Sphere(side, d), j \in Nat : /\ x \in Nodes
                                               /\ w \in Forward(EdgesOf(side), x)[j]
                                               /\ w \in Reached(Other(side)) => Counts(x)
<1>1. PICK k \in Nat : /\ w \in Ball(side)[k]
                       /\ \A m \in Nat : m < k => w \notin Ball(side)[m]
  BY BallFacts, DistExists DEF Reached, Ball
<1>2. d < k
  <2>1. k <= d => FALSE
    BY <1>1, BallFacts
  <2> QED BY <2>1
<1>3. k - d \in Nat /\ d + (k - d) = k
  BY <1>2
<1>4. PICK x \in Ball(side)[d] : w \in Forward(EdgesOf(side), x)[k - d]
  <2>1. w \in Forward(EdgesOf(side), End(side))[d + (k - d)]
    BY <1>1, <1>3 DEF Ball
  <2> QED BY <1>3, <2>1, ForwardParted DEF Ball
<1>5. x \in Sphere(side, d)
  <2> SUFFICES ASSUME d # 0, x \in Ball(side)[d - 1] PROVE FALSE
    BY DEF Sphere
  <2>1. d - 1 \in Nat /\ (d - 1) + (k - d) \in Nat /\ (d - 1) + (k - d) < k
    BY <1>3
  <2>2. w \in Ball(side)[(d - 1) + (k - d)]
    BY <1>3, <1>4, <2>1, ForwardJoined DEF Ball
  <2> QED BY <1>1, <2>1, <2>2
<1>6. x \in Nodes /\ x \in Reached(side)
  BY BallFacts
<1>7. w \in Reached(Other(side)) => x \in Reached(Other(side))
  <2>1. x \in Forward(EdgesOf(Other(side)), w)[k - d]
    BY <1>3, <1>4, TurnBack
  <2> QED BY <1>3, <2>1, ReachedOn, TwoSides
<1>8. w \in Reached(Other(side)) => Counts(x)
  BY <1>6, <1>7, TwoSides DEF Counts
<1> QED BY <1>3, <1>4, <1>5, <1>6, <1>8

\* A node within a edges of one end and b of the other is on a path of a + b.
LEMMA MetAt ==
  ASSUME BFSTyped, NEW side \in Sides, NEW a \in Nat, NEW b \in Nat, NEW x,
         x \in Ball(side)[a], x \in Ball(Other(side))[b]
  PROVE  End(Other(side)) \in Ball(side)[a + b]
<1>1. x \in Forward(EdgesOf(Other(side)), End(Other(side)))[b]
  BY DEF Ball
<1>2. End(Other(side)) \in Forward(EdgesOf(side), x)[b]
  BY <1>1, TurnBack, TwoSides
<1> QED BY <1>2, ForwardJoined DEF Ball

\* No path is shorter than what the sides have marked.
LEMMA NoShortPath ==
  ASSUME BFSTyped, NEW side \in Sides, NEW a \in Nat, NEW b \in Nat,
         \A u \in Nodes : Counts(u) /\ u \in Ball(side)[a] => u \in Marked(side),
         \A u \in Nodes : Counts(u) /\ u \in Ball(Other(side))[b] => u \in Marked(Other(side))
  PROVE  End(Other(side)) \notin Ball(side)[a + b]
<1> SUFFICES ASSUME End(Other(side)) \in Ball(side)[a + b] PROVE FALSE
  OBVIOUS
<1>1. PICK x \in Ball(side)[a] : End(Other(side)) \in Forward(EdgesOf(side), x)[b]
  BY ForwardParted DEF Ball
<1>2. x \in Ball(Other(side))[b]
  BY <1>1, TurnBack DEF Ball
<1>3. x \in Nodes /\ Counts(x)
  BY <1>1, <1>2, BallFacts, TwoSides DEF Counts
<1>4. x \in Marked(side) /\ x \in Marked(Other(side))
  BY <1>1, <1>2, <1>3
<1> QED BY <1>4, TwoSides DEF Marked

\* The nodes that the properties take for needless are those that do not count.
LEMMA CountsOrNeedless ==
  ASSUME BFSTyped, NEW u \in Nodes
  PROVE  Counts(u) <=> ~Needless(u)
<1> DEFINE c == Cardinality(Nodes)
<1>1. c \in Nat
  BY BallFacts, TwoSides
<1>2. Leads({nodeS}, {u}) <=> u \in Reached(S_VISITED)
  BY DEF Leads, Reached, Ball, EdgesOf, End
<1>3. Leads({u}, {nodeF}) <=> nodeF \in Forward(Visible, u)[c]
  BY DEF Leads
<1>4. EdgesOf(S_VISITED) = Visible /\ End(F_VISITED) = nodeF
  BY TwoSides DEF EdgesOf, End
<1>5. nodeF \in Forward(Visible, u)[c] => u \in Reached(F_VISITED)
  BY <1>1, <1>4, TurnBack, TwoSides DEF Reached, Ball
<1>6. u \in Reached(F_VISITED) => nodeF \in Forward(Visible, u)[c]
  BY <1>1, <1>4, TurnBack, TwoSides DEF Reached, Ball
<1>7. Counts(u) <=> (search = "static" => u \in Reached(S_VISITED) /\ u \in Reached(F_VISITED))
  BY TwoSides DEF Counts
<1> QED BY <1>2, <1>3, <1>5, <1>6, <1>7 DEF Needless

-----------------------------------------------------------------------------
(* One side's layers *)

\* The job of a search does not change.
LEMMA SameJob ==
  ASSUME UNCHANGED job
  PROVE  \A side : /\ Ball(side)' = Ball(side) /\ End(side)' = End(side)
                   /\ EdgesOf(side)' = EdgesOf(side) /\ Reached(side)' = Reached(side)
                   /\ \A d : Sphere(side, d)' = Sphere(side, d)
                   /\ \A u : /\ Neighbors(side, u)' = Neighbors(side, u)
                             /\ Counts(u)' <=> Counts(u)
<1>1. Visible' = Visible /\ nodeS' = nodeS /\ nodeF' = nodeF /\ search' = search
  BY DEF job, Visible
<1>2. \A side : EdgesOf(side)' = EdgesOf(side) /\ End(side)' = End(side)
  BY <1>1 DEF EdgesOf, End
<1>3. \A side : Ball(side)' = Ball(side)
  BY <1>2 DEF Ball
<1>4. \A side : Reached(side)' = Reached(side) /\ \A d : Sphere(side, d)' = Sphere(side, d)
  BY <1>3 DEF Reached, Sphere
<1>5. \A u : Counts(u)' <=> Counts(u)
  BY <1>1, <1>4 DEF Counts
<1>6. \A side, u : Neighbors(side, u)' = Neighbors(side, u)
  BY <1>1 DEF Neighbors
<1> QED BY <1>2, <1>3, <1>4, <1>5, <1>6

\* A side that is not touched stays as it is.
LEMMA Untouched ==
  ASSUME UNCHANGED job, NEW side, NEW d, next'[side] = next[side], layer'[side] = layer[side],
         Marked(side)' = Marked(side)
  PROVE  /\ Complete(side, d) => Complete(side, d)'
         /\ Growing(side, d) => Growing(side, d)'
<1>1. /\ \A k : (Ball(side)[k])' = Ball(side)[k]
      /\ \A u : /\ u \in Sphere(side, d)' <=> u \in Sphere(side, d)
                /\ Neighbors(side, u)' = Neighbors(side, u)
                /\ Counts(u)' <=> Counts(u)
  BY SameJob
<1>2. Complete(side, d) => Complete(side, d)'
  BY <1>1 DEF Complete
<1>3. Growing(side, d) => Growing(side, d)'
  BY <1>1 DEF Growing
<1> QED BY <1>2, <1>3

\* A side that has its layer complete may begin to expand it.
LEMMA CompleteGrows ==
  ASSUME BFSTyped, NEW side \in Sides, NEW d \in Nat, Complete(side, d)
  PROVE  Growing(side, d)
<1>1. /\ next[side] = {} /\ layer[side] \subseteq Ball(side)[d]
      /\ Marked(side) \subseteq Ball(side)[d]
  BY DEF Complete
<1>2. Ball(side)[d] \subseteq Ball(side)[d + 1]
  BY BallFacts
<1>3. ASSUME NEW u \in Nodes, Counts(u), u \in Ball(side)[d], u \notin layer[side],
             NEW v \in Neighbors(side, u), Counts(v)
      PROVE  v \in Marked(side)
  <2>1. u \notin Sphere(side, d)
    BY <1>3 DEF Complete
  <2>2. d # 0 /\ u \in Ball(side)[d - 1]
    BY <1>3, <2>1 DEF Sphere
  <2>3. d - 1 \in Nat /\ (d - 1) + 1 = d
    BY <2>2
  <2>4. v \in Ball(side)[(d - 1) + 1]
    BY <2>2, <2>3, <1>3, BallFacts
  <2>5. v \in Ball(side)[d] /\ v \in Nodes
    BY <2>3, <2>4, BallFacts
  <2> QED BY <1>3, <2>5 DEF Complete
<1> QED BY <1>1, <1>2, <1>3 DEF Complete, Growing

\* When every node of the layer is expanded the next one is complete.
LEMMA GrownIsComplete ==
  ASSUME BFSTyped, NEW side \in Sides, NEW d \in Nat, Growing(side, d), layer[side] = {},
         UNCHANGED job, Marked(side)' = Marked(side), layer'[side] = next[side], next'[side] = {}
  PROVE  Complete(side, d + 1)'
<1>1. /\ \A k : (Ball(side)[k])' = Ball(side)[k]
      /\ \A u : /\ u \in Sphere(side, d + 1)' <=> u \in Sphere(side, d + 1)
                /\ Counts(u)' <=> Counts(u)
  BY SameJob
<1>2. ASSUME NEW u \in Nodes, Counts(u), u \in Ball(side)[d + 1] PROVE u \in Marked(side)
  <2>1. CASE u \in Ball(side)[d]
    BY <1>2, <2>1 DEF Growing
  <2>2. ASSUME NEW w \in Ball(side)[d], u \in Neighbors(side, w) PROVE u \in Marked(side)
    <3>1. w \in Nodes /\ w \in Reached(side)
      BY BallFacts
    <3>2. Counts(w)
      <4> SUFFICES ASSUME search = "static" PROVE w \in Reached(Other(side))
        BY <3>1, TwoSides DEF Counts
      <4>1. u \in Reached(Other(side))
        BY <1>2, TwoSides DEF Counts
      <4>2. w \in Neighbors(Other(side), u)
        <5>1. PICK e \in EdgesOf(side) : e[1] = w /\ e[2] = u
          BY <2>2, SideEdges
        <5>2. <<u, w>> \in EdgesOf(Other(side))
          BY <5>1, SideEdges
        <5> QED BY <5>2, SideEdges, TwoSides
      <4> QED BY <4>1, <4>2, BallFacts, TwoSides
    <3> QED BY <1>2, <2>2, <3>1, <3>2 DEF Growing
  <2> QED BY <1>2, <2>1, <2>2, BallFacts
<1>3. ASSUME NEW u \in Nodes, Counts(u)
      PROVE  u \in next[side] <=> u \in Sphere(side, d + 1)
  <2>1. u \in Sphere(side, d + 1) <=> u \in Ball(side)[d + 1] /\ u \notin Ball(side)[d]
    <3>1. d + 1 # 0 /\ (d + 1) - 1 = d
      OBVIOUS
    <3> QED BY <3>1 DEF Sphere
  <2> QED BY <1>2, <1>3, <2>1 DEF Growing
<1>4. next[side] \subseteq Marked(side) /\ Marked(side) \subseteq Ball(side)[d + 1]
  BY DEF Growing
<1> QED BY <1>1, <1>2, <1>3, <1>4 DEF Complete

\* Among the neighbours found, none that counts is left out: it leads to the layer
\* that the other side will expand.
LEMMA CountingAreKept ==
  ASSUME BFSTyped, NEW side \in Sides, nodeS # nodeF, NEW d \in Nat, Complete(Other(side), d),
         NEW u, NEW found \in Kept(side, u), NEW v \in New(side, u), Counts(v)
  PROVE  v \in found
<1>1. v \in Nodes /\ v \notin Marked(Other(side))
  BY TwoSides DEF New, Marked
<1>2. CASE search # "static"
  BY <1>2 DEF Kept
<1> DEFINE o == Other(side)
           c == Cardinality(Nodes)
<1>3. CASE search = "static"
  <2>1. v \in Reached(side) /\ v \in Reached(o) /\ v \in Reached(S_VISITED)
        /\ v \in Reached(F_VISITED)
    BY <1>3, TwoSides DEF Counts
  <2>2. c \in Nat /\ o \in Sides
    BY BallFacts, TwoSides
  <2>3. CASE Mutual(nodeS, nodeF)
    <3>1. nodeF \in Forward(Visible, nodeS)[c] /\ nodeS \in Forward(Visible, nodeF)[c]
      BY <2>3 DEF Mutual, Leads
    <3>2. v \in Forward(Visible, nodeS)[c]
      BY <2>1, TwoSides DEF Reached, Ball, EdgesOf, End
    <3>3. nodeF \in Forward(Visible, v)[c]
      <4>1. v \in Forward(EdgesOf(F_VISITED), nodeF)[c]
        BY <2>1, TwoSides DEF Reached, Ball, End
      <4>2. nodeF \in Forward(EdgesOf(S_VISITED), v)[c]
        BY <2>2, <4>1, TurnBack, TwoSides
      <4> QED BY <4>2 DEF EdgesOf
    <3>4. nodeS \in Forward(Visible, v)[c]
      <4>1. Visible \subseteq Nodes \X Nodes
        BY PairsAssumption DEF Visible
      <4> QED BY <1>1, <2>2, <3>1, <3>3, <4>1, NodesAssumption, ForwardOn
    <3>5. Mutual(v, nodeS)
      BY <3>2, <3>4 DEF Mutual, Leads
    <3>6. found = {w \in New(side, u) : Mutual(w, nodeS)}
      BY <1>3, <2>3 DEF Kept
    <3> QED BY <3>5, <3>6
  <2>4. CASE ~Mutual(nodeS, nodeF)
    <3>1. v \notin Ball(o)[d]
      BY <1>1, <1>3 DEF Complete
    <3>2. PICK x \in Sphere(o, d), j \in Nat : /\ x \in Nodes
                                               /\ v \in Forward(EdgesOf(o), x)[j]
                                               /\ v \in Reached(Other(o)) => Counts(x)
      BY <2>1, <2>2, <3>1, SphereMet
    <3>3. x \in layer[o]
      <4>1. Counts(x)
        BY <2>1, <3>2, TwoSides
      <4> QED BY <3>2, <4>1 DEF Complete
    <3>4. Needed(side, v)
      <4>1. CASE side = F_VISITED
        <5>1. o = S_VISITED /\ EdgesOf(o) = Visible
          BY <4>1, TwoSides DEF EdgesOf
        <5>2. v \in Forward(Visible, x)[c]
          <6>1. Visible \subseteq Nodes \X Nodes
            BY PairsAssumption DEF Visible
          <6>2. Forward(Visible, x)[j] \subseteq Forward(Visible, x)[c]
            BY <3>2, <6>1, NodesAssumption, ForwardSettles
          <6> QED BY <3>2, <5>1, <6>2
        <5> QED BY <3>3, <4>1, <5>2, TwoSides DEF Needed, Leads
      <4>2. CASE side = S_VISITED
        <5>1. x \in Forward(Visible, v)[j]
          <6>1. x \in Forward(EdgesOf(Other(o)), v)[j]
            BY <2>2, <3>2, TurnBack
          <6> QED BY <4>2, <6>1, TwoSides DEF EdgesOf
        <5>2. x \in Forward(Visible, v)[c]
          <6>1. Visible \subseteq Nodes \X Nodes
            BY PairsAssumption DEF Visible
          <6>2. Forward(Visible, v)[j] \subseteq Forward(Visible, v)[c]
            BY <1>1, <3>2, <6>1, NodesAssumption, ForwardSettles
          <6> QED BY <5>1, <6>2
        <5> QED BY <3>3, <4>2, <5>2 DEF Needed, Leads
      <4> QED BY <4>1, <4>2, TwoSides
    <3>5. found \in {kept \in SUBSET New(side, u) :
                      \A w \in New(side, u) : Needed(side, w) => w \in kept}
      BY <1>3, <2>4, <3>3 DEF Kept
    <3> QED BY <3>4, <3>5
  <2> QED BY <2>3, <2>4
<1> QED BY <1>2, <1>3

\* Expanding a node of the layer.
LEMMA ExpandGrows ==
  ASSUME BFSTyped, NEW side \in Sides, nodeS # nodeF, NEW d \in Nat, Growing(side, d),
         NEW e \in Nat, Complete(Other(side), e),
         NEW u \in layer[side], ~Meets(side, u), Expand(side, u)
  PROVE  Growing(side, d)' /\ Complete(Other(side), e)'
<1> DEFINE o == Other(side)
<1>1. PICK found \in Kept(side, u) :
        /\ visitedTable' = [v \in Nodes |-> IF v \in found THEN side ELSE visitedTable[v]]
        /\ next' = [next EXCEPT ![side] = @ \cup found]
        /\ layer' = [layer EXCEPT ![side] = @ \ {u}]
        /\ UNCHANGED <<job, pc, distance, result>>
  BY DEF Expand
<1>2. found \subseteq New(side, u)
  BY DEF Kept
<1>3. \A v \in New(side, u) : /\ v \in Neighbors(side, u) /\ v \in Nodes
                              /\ visitedTable[v] = NOT_VISITED
                              /\ v \notin Marked(side) /\ v \notin Marked(o)
  BY TwoSides DEF New, Marked
<1>4. layer \in [Sides -> SUBSET Nodes] /\ next \in [Sides -> SUBSET Nodes] /\ o \in Sides
      /\ o # side
  BY TwoSides DEF BFSTyped
<1>5. Marked(side)' = Marked(side) \cup found /\ Marked(o)' = Marked(o)
  BY <1>1, <1>2, <1>3, <1>4 DEF Marked
<1>6. /\ next'[side] = next[side] \cup found /\ layer'[side] = layer[side] \ {u}
      /\ next'[o] = next[o] /\ layer'[o] = layer[o]
  BY <1>1, <1>4
<1>7. Complete(o, e)'
  BY <1>1, <1>5, <1>6, Untouched
<1>8. /\ \A k : (Ball(side)[k])' = Ball(side)[k]
      /\ \A v : /\ Neighbors(side, v)' = Neighbors(side, v)
                /\ Counts(v)' <=> Counts(v)
  BY <1>1, SameJob
<1>9. \A v \in New(side, u) : Counts(v) => v \in found
  BY <1>1, CountingAreKept
<1>10. u \in Ball(side)[d] /\ u \in Nodes
  BY <1>4 DEF Growing
<1>11. found \subseteq Ball(side)[d + 1]
  BY <1>2, <1>3, <1>10, BallFacts
<1>12. \A v \in Neighbors(side, u) : v \in Marked(side) \/ v \in New(side, u)
  <2> SUFFICES ASSUME NEW v \in Neighbors(side, u), v \notin Marked(side)
               PROVE  v \in New(side, u)
    OBVIOUS
  <2>1. v \in Nodes
    BY <1>10, BallFacts
  <2>2. v \notin Marked(o)
    BY DEF Meets
  <2>3. visitedTable[v] \in Sides \cup {NOT_VISITED} /\ Sides = {side, o}
    BY <2>1, TwoSides DEF BFSTyped
  <2> QED BY <2>1, <2>2, <2>3 DEF New, Marked
<1>13. ASSUME NEW v \in Nodes, Counts(v)
       PROVE  /\ v \in Ball(side)[d] => v \in Marked(side)' /\ v \notin next'[side]
              /\ v \in Marked(side)' => v \in Ball(side)[d] \/ v \in next'[side]
  <2>1. /\ v \in Ball(side)[d] => v \in Marked(side) /\ v \notin next[side]
        /\ v \in Marked(side) => v \in Ball(side)[d] \/ v \in next[side]
    BY <1>13 DEF Growing
  <2>2. v \in found => v \notin Marked(side)
    BY <1>2, <1>3
  <2> QED BY <1>5, <1>6, <2>1, <2>2
<1>14. ASSUME NEW w \in Nodes, Counts(w), w \in Ball(side)[d], w \notin layer'[side],
              NEW v \in Neighbors(side, w), Counts(v)
       PROVE  v \in Marked(side)'
  <2>1. CASE w = u
    BY <1>5, <1>9, <1>12, <1>14, <2>1
  <2>2. CASE w # u
    <3>1. w \notin layer[side]
      BY <1>6, <1>14, <2>2
    <3>2. v \in Marked(side)
      BY <1>14, <3>1 DEF Growing
    <3> QED BY <1>5, <3>2
  <2> QED BY <2>1, <2>2
<1>15. /\ next'[side] \subseteq Marked(side)' /\ Marked(side)' \subseteq Ball(side)[d + 1]
       /\ layer'[side] \subseteq Ball(side)[d]
  BY <1>5, <1>6, <1>11 DEF Growing
<1>16. Growing(side, d)'
  BY <1>8, <1>13, <1>14, <1>15 DEF Growing
<1> QED BY <1>7, <1>16

-----------------------------------------------------------------------------
(* The results *)

\* Balls that hold the counting nodes of a + b edges and miss the other end bound
\* the distance from below.
LEMMA DistMet ==
  ASSUME BFSTyped, NEW a \in Nat, NEW b \in Nat,
         \A u \in Nodes : Counts(u) /\ u \in Ball(S_VISITED)[a] => u \in Marked(S_VISITED),
         \A u \in Nodes : Counts(u) /\ u \in Ball(F_VISITED)[b] => u \in Marked(F_VISITED),
         nodeF \in Ball(S_VISITED)[a + b + 1]
  PROVE  Dist(Nodes, Visible, nodeS, nodeF) = a + b + 1
<1>1. nodeF \notin Ball(S_VISITED)[a + b]
  BY NoShortPath, TwoSides DEF End
<1>2. \A m \in Nat : m < a + b + 1 => nodeF \notin Ball(S_VISITED)[m]
  <2> SUFFICES ASSUME NEW m \in Nat, m < a + b + 1, nodeF \in Ball(S_VISITED)[m] PROVE FALSE
    OBVIOUS
  <2>1. m <= a + b /\ a + b \in Nat
    OBVIOUS
  <2>2. Ball(S_VISITED)[m] \subseteq Ball(S_VISITED)[a + b]
    BY <2>1, BallFacts, TwoSides
  <2> QED BY <1>1, <2>2
<1>3. Ball(S_VISITED) = Forward(Visible, nodeS)
  BY DEF Ball, EdgesOf, End
<1>4. Visible \subseteq Nodes \X Nodes /\ nodeS \in Nodes /\ a + b + 1 \in Nat
  BY PairsAssumption DEF Visible, BFSTyped
<1> QED BY <1>2, <1>3, <1>4, NodesAssumption, DistFound

\* A neighbour that the other side has marked closes a path.
LEMMA MeetsCloses ==
  ASSUME BFSTyped, NEW side \in Sides, NEW a \in Nat, NEW b \in Nat,
         NEW u \in Ball(side)[a], Meets(side, u), Marked(Other(side)) \subseteq Ball(Other(side))[b]
  PROVE  nodeF \in Ball(S_VISITED)[a + b + 1]
<1>1. PICK v \in Neighbors(side, u) : v \in Marked(Other(side))
  BY DEF Meets
<1>2. v \in Ball(side)[a + 1]
  BY BallFacts
<1>3. v \in Ball(Other(side))[b]
  BY <1>1
<1>4. CASE side = S_VISITED
  <2>1. nodeF \in Ball(S_VISITED)[(a + 1) + b]
    BY <1>2, <1>3, <1>4, MetAt, TwoSides DEF End
  <2>2. (a + 1) + b = a + b + 1
    OBVIOUS
  <2> QED BY <2>1, <2>2
<1>5. CASE side = F_VISITED
  <2>1. nodeF \in Ball(S_VISITED)[b + (a + 1)]
    BY <1>2, <1>3, <1>5, MetAt, TwoSides DEF End
  <2>2. b + (a + 1) = a + b + 1
    OBVIOUS
  <2> QED BY <2>1, <2>2
<1> QED BY <1>4, <1>5, TwoSides

\* While there is a path both layers hold a node of it.
LEMMA PathInLayers ==
  ASSUME BFSTyped, NEW side \in Sides, NEW n \in Nat, Complete(side, n),
         Complete(Other(side), n), layer[side] = {}
  PROVE  Dist(Nodes, Visible, nodeS, nodeF) = -1
<1> DEFINE o == Other(side)
<1>1. /\ \A u \in Nodes : Counts(u) /\ u \in Ball(side)[n] => u \in Marked(side)
      /\ \A u \in Nodes : Counts(u) /\ u \in Ball(o)[n] => u \in Marked(o)
  BY DEF Complete
<1>2. End(o) \notin Ball(side)[n]
  <2>1. End(o) \notin Ball(side)[n + n]
    BY <1>1, NoShortPath
  <2>2. n <= n + n /\ n + n \in Nat
    OBVIOUS
  <2> QED BY <2>1, <2>2, BallFacts
<1>3. End(o) \notin Reached(side)
  <2> SUFFICES ASSUME End(o) \in Reached(side) PROVE FALSE
    OBVIOUS
  <2>1. PICK x \in Sphere(side, n) : x \in Nodes /\ (End(o) \in Reached(o) => Counts(x))
    BY <1>2, SphereMet
  <2>2. End(o) \in Reached(o)
    BY BallFacts, TwoSides
  <2> QED BY <2>1, <2>2 DEF Complete
<1>4. nodeF \notin Reached(S_VISITED)
  <2>1. CASE side = S_VISITED
    BY <1>3, <2>1, TwoSides DEF End
  <2>2. CASE side = F_VISITED
    <3>1. nodeS \notin Reached(F_VISITED)
      BY <1>3, <2>2, TwoSides DEF End
    <3>2. Cardinality(Nodes) \in Nat
      BY BallFacts
    <3>3. nodeF \in Reached(S_VISITED) => nodeS \in Reached(F_VISITED)
      BY <3>2, TurnBack, TwoSides DEF Reached, Ball, End
    <3> QED BY <3>1, <3>3
  <2> QED BY <2>1, <2>2, TwoSides
<1>5. nodeF \notin Forward(Visible, nodeS)[Cardinality(Nodes)]
  BY <1>4 DEF Reached, Ball, EdgesOf, End
<1> QED BY <1>5, NodesAssumption, DistNone

\* What the search has to return.
Answer == IF \/ verdict = "different" /\ nodeS # nodeF
             \/ search = "plain" /\ NoList
          THEN -1
          ELSE Dist(Nodes, Visible, nodeS, nodeF)

\* It does not change either.
LEMMA SameAnswer ==
  ASSUME UNCHANGED job
  PROVE  Answer' = Answer /\ (NoList' <=> NoList)
  BY DEF job, Answer, NoList, Listed, Visible

\* A node is at no distance from itself.
LEMMA DistSelf ==
  ASSUME BFSTyped, nodeS = nodeF
  PROVE  Dist(Nodes, Visible, nodeS, nodeF) = 0
<1>1. Visible \subseteq Nodes \X Nodes /\ nodeS \in Nodes
  BY PairsAssumption DEF Visible, BFSTyped
<1>2. nodeF \in Forward(Visible, nodeS)[0]
  BY ForwardStep
<1>3. 0 \in Nat /\ \A m \in Nat : m < 0 => nodeF \notin Forward(Visible, nodeS)[m]
  OBVIOUS
<1> QED BY <1>1, <1>2, <1>3, NodesAssumption, DistFound

\* There is no path from an end that no edge leaves, or to one that none enters.
LEMMA NoListNoPath ==
  ASSUME BFSTyped, nodeS # nodeF, NoList
  PROVE  Dist(Nodes, Visible, nodeS, nodeF) = -1
<1>1. Visible \subseteq Nodes \X Nodes /\ nodeS \in Nodes /\ Cardinality(Nodes) \in Nat
  BY PairsAssumption, NodesAssumption, FS_CardinalityType DEF Visible, BFSTyped
<1>2. Visible \subseteq Listed
  BY DEF Visible, Listed
<1>3. CASE \A e \in Listed : e[1] # nodeS
  <2>1. TakesAll(Visible, {nodeS})
    BY <1>2, <1>3 DEF TakesAll
  <2>2. Forward(Visible, nodeS)[Cardinality(Nodes)] \subseteq {nodeS}
    BY <1>1, <2>1, ForwardStays
  <2> QED BY <2>2, NodesAssumption, DistNone
<1>4. CASE \A e \in Listed : e[2] # nodeF
  <2>1. TakesAll(Visible, Nodes \ {nodeF}) /\ nodeS \in Nodes \ {nodeF}
    BY <1>1, <1>2, <1>4 DEF TakesAll
  <2>2. Forward(Visible, nodeS)[Cardinality(Nodes)] \subseteq Nodes \ {nodeF}
    BY <1>1, <2>1, ForwardStays
  <2> QED BY <2>2, NodesAssumption, DistNone
<1> QED BY <1>3, <1>4 DEF NoList

-----------------------------------------------------------------------------
(* The steps *)

LEMMA InitBFSInv ==
  ASSUME Init
  PROVE  BFSInv
<1>1. nodeS \in Nodes /\ nodeF \in Nodes
  BY PairsAssumption DEF Init
<1>2. pc = "start" /\ pc # "test" /\ pc \notin Sides /\ pc # "done" /\ pc # S_VISITED
      /\ pc # F_VISITED
  BY TwoSides DEF Init
<1>3. BFSTyped
  BY <1>1, <1>2 DEF Init, BFSTyped
<1> QED BY <1>2, <1>3 DEF BFSInv, Rounds, ResultIsDistance

\* A step that returns the answer.
LEMMA Answered ==
  ASSUME BFSTyped, NEW length, Return(length), length = Answer
  PROVE  BFSInv'
<1>1. pc' = "done" /\ pc' # "test" /\ pc' \notin Sides /\ pc' # "start" /\ pc' # S_VISITED
      /\ pc' # F_VISITED
  BY TwoSides DEF Return
<1>2. UNCHANGED job /\ result' = Answer
  BY DEF Return
<1>3. result' = Answer'
  BY <1>2, SameAnswer
<1>4. BFSTyped'
  BY <1>1 DEF Return, BFSTyped, job, layers
<1>5. Rounds'
  BY <1>1 DEF Rounds
<1>6. ResultIsDistance'
  BY <1>3 DEF ResultIsDistance, Answer
<1> QED BY <1>4, <1>5, <1>6 DEF BFSInv

LEMMA NoSearchKeeps ==
  ASSUME BFSInv, NoSearch
  PROVE  BFSInv'
<1>1. BFSTyped
  BY DEF BFSInv
<1>2. CASE nodeS = nodeF
  <2> DEFINE length == IF search = "plain" /\ NoList THEN -1 ELSE 0
  <2>1. Return(length)
    BY <1>2 DEF NoSearch
  <2>2. length = Answer
    BY <1>1, <1>2, DistSelf DEF Answer
  <2> QED BY <1>1, <2>1, <2>2, Answered
<1>3. CASE nodeS # nodeF
  <2>1. /\ Return(-1)
        /\ \/ verdict = "different"
           \/ search = "static" /\ ~Leads({nodeS}, {nodeF})
           \/ NoList
    BY <1>3 DEF NoSearch
  <2>2. ~Leads({nodeS}, {nodeF}) => Dist(Nodes, Visible, nodeS, nodeF) = -1
    BY NodesAssumption, DistNone DEF Leads
  <2>3. Answer = -1
    BY <1>1, <1>3, <2>1, <2>2, NoListNoPath DEF Answer
  <2> QED BY <1>1, <2>1, <2>3, Answered
<1> QED BY <1>2, <1>3

LEMMA BeginKeeps ==
  ASSUME BFSInv, Begin
  PROVE  BFSInv'
<1>1. BFSTyped /\ UNCHANGED job /\ pc' = "test"
  BY DEF BFSInv, Begin
<1>2. /\ nodeS \in Nodes /\ nodeF \in Nodes /\ nodeS # nodeF
      /\ visitedTable = [u \in Nodes |-> NOT_VISITED]
      /\ next = [side \in Sides |-> {}] /\ distance = 0
      /\ next' = next /\ distance' = distance
      /\ visitedTable' = [visitedTable EXCEPT ![nodeS] = S_VISITED, ![nodeF] = F_VISITED]
      /\ layer' = [side \in Sides |-> IF side = S_VISITED THEN {nodeS} ELSE {nodeF}]
  BY <1>1 DEF BFSTyped, Begin
<1>3. \A side \in Sides : Marked(side)' = {End(side)}
  <2>1. \A u \in Nodes : visitedTable'[u] = IF u = nodeF THEN F_VISITED
                                            ELSE IF u = nodeS THEN S_VISITED ELSE NOT_VISITED
    BY <1>2
  <2> QED BY <1>2, <2>1, TwoSides DEF Marked, End
<1>4. ASSUME NEW side \in Sides PROVE Complete(side, 0)'
  <2>1. /\ (Ball(side)[0])' = Ball(side)[0]
        /\ \A u : u \in Sphere(side, 0)' <=> u \in Sphere(side, 0)
    BY <1>1, SameJob
  <2>2. Ball(side)[0] = {End(side)} /\ Sphere(side, 0) = {End(side)}
    BY <1>1, BallFacts DEF Sphere
  <2>3. next'[side] = {} /\ layer'[side] = {End(side)}
    BY <1>2, TwoSides DEF End
  <2> QED BY <1>3, <2>1, <2>2, <2>3 DEF Complete
<1>5. Rounds'
  <2>1. 0 \in Nat /\ distance' = 2 * 0
    BY <1>2
  <2> QED BY <1>1, <1>4, <2>1, TwoSides DEF Rounds
<1>6. BFSTyped'
  <2>1. nodeS' = nodeS /\ nodeF' = nodeF /\ verdict' = verdict /\ (NoList' <=> NoList)
    BY <1>1, SameAnswer DEF job
  <2>2. visitedTable' \in [Nodes -> Sides \cup {NOT_VISITED}]
    BY <1>2, TwoSides
  <2>3. layer' \in [Sides -> SUBSET Nodes] /\ next' \in [Sides -> SUBSET Nodes]
        /\ distance' \in Nat
    BY <1>2
  <2>4. verdict = "same" /\ ~NoList
    BY DEF Begin
  <2> QED BY <1>1, <1>2, <2>1, <2>2, <2>3, <2>4 DEF BFSTyped
<1>7. ResultIsDistance'
  BY <1>1 DEF ResultIsDistance
<1> QED BY <1>5, <1>6, <1>7 DEF BFSInv

\* What a search that goes on keeps of its types.
LEMMA GoesOn ==
  ASSUME BFSTyped, pc \in Sides \cup {"test"}, UNCHANGED job, pc' \in Sides \cup {"test"},
         visitedTable' \in [Nodes -> Sides \cup {NOT_VISITED}],
         layer' \in [Sides -> SUBSET Nodes], next' \in [Sides -> SUBSET Nodes],
         distance' \in Nat
  PROVE  BFSTyped' /\ ResultIsDistance'
<1>1. nodeS' = nodeS /\ nodeF' = nodeF /\ verdict' = verdict /\ (NoList' <=> NoList)
  BY SameAnswer DEF job
<1>2. pc' # "start" /\ pc' # "done"
  BY TwoSides
<1>3. nodeS \in Nodes /\ nodeF \in Nodes /\ nodeS # nodeF /\ verdict = "same" /\ ~NoList
  BY DEF BFSTyped
<1> QED BY <1>1, <1>2, <1>3 DEF BFSTyped, ResultIsDistance

\* A search that has begun returns the distance.
LEMMA AnswerIsDist ==
  ASSUME BFSTyped, pc \in Sides \cup {"test"}
  PROVE  Answer = Dist(Nodes, Visible, nodeS, nodeF)
  BY DEF BFSTyped, Answer

LEMMA TestKeeps ==
  ASSUME BFSInv, Test
  PROVE  BFSInv'
<1>1. BFSTyped /\ pc = "test" /\ pc \in Sides \cup {"test"}
  BY DEF BFSInv, Test
<1>2. PICK n \in Nat : distance = 2 * n /\ Complete(S_VISITED, n) /\ Complete(F_VISITED, n)
  BY <1>1 DEF BFSInv, Rounds
<1>3. CASE \A side \in Sides : layer[side] # {}
  <2>1. /\ distance' = distance + 1 /\ pc' = S_VISITED
        /\ UNCHANGED job /\ UNCHANGED <<visitedTable, layer, next>>
    BY <1>3 DEF Test, layers, Return
  <2>2. Growing(S_VISITED, n)
    BY <1>1, <1>2, CompleteGrows, TwoSides
  <2>3. \A side : /\ layer'[side] = layer[side] /\ next'[side] = next[side]
                  /\ Marked(side)' = Marked(side)
    BY <2>1 DEF Marked
  <2>4. Growing(S_VISITED, n)' /\ Complete(F_VISITED, n)'
    BY <1>2, <2>1, <2>2, <2>3, Untouched
  <2>5. pc' # "test" /\ pc' # F_VISITED /\ distance' = 2 * n + 1
    BY <1>2, <2>1, TwoSides
  <2>6. Rounds'
    BY <2>4, <2>5 DEF Rounds
  <2>7. /\ pc' \in Sides \cup {"test"} /\ distance' \in Nat
        /\ visitedTable' \in [Nodes -> Sides \cup {NOT_VISITED}]
        /\ layer' \in [Sides -> SUBSET Nodes] /\ next' \in [Sides -> SUBSET Nodes]
    BY <1>1, <2>1, TwoSides DEF BFSTyped
  <2>8. BFSTyped' /\ ResultIsDistance'
    BY <1>1, <2>1, <2>7, GoesOn
  <2> QED BY <2>6, <2>8 DEF BFSInv
<1>4. ASSUME NEW side \in Sides, layer[side] = {} PROVE BFSInv'
  <2>1. Return(-1)
    BY <1>4 DEF Test
  <2>2. Complete(side, n) /\ Complete(Other(side), n)
    BY <1>2, TwoSides
  <2>3. Answer = -1
    BY <1>1, <1>4, <2>2, PathInLayers, AnswerIsDist
  <2> QED BY <1>1, <2>1, <2>3, Answered
<1> QED BY <1>3, <1>4

\* What expanding a node leaves of the types.
LEMMA ExpandGoesOn ==
  ASSUME BFSTyped, NEW side \in Sides, pc = side, NEW u \in layer[side], Expand(side, u)
  PROVE  BFSTyped' /\ ResultIsDistance' /\ pc' = pc /\ distance' = distance
<1>1. PICK found \in Kept(side, u) :
        /\ visitedTable' = [v \in Nodes |-> IF v \in found THEN side ELSE visitedTable[v]]
        /\ next' = [next EXCEPT ![side] = @ \cup found]
        /\ layer' = [layer EXCEPT ![side] = @ \ {u}]
        /\ UNCHANGED <<job, pc, distance, result>>
  BY DEF Expand
<1>2. found \subseteq Nodes
  BY DEF Kept, New, Marked
<1>3. visitedTable' \in [Nodes -> Sides \cup {NOT_VISITED}]
  BY <1>1 DEF BFSTyped
<1>4. layer' \in [Sides -> SUBSET Nodes] /\ next' \in [Sides -> SUBSET Nodes]
  BY <1>1, <1>2 DEF BFSTyped
<1>5. distance' \in Nat
  BY <1>1 DEF BFSTyped
<1> QED BY <1>1, <1>3, <1>4, <1>5, GoesOn

LEMMA PopSKeeps ==
  ASSUME BFSInv, PopS
  PROVE  BFSInv'
<1>1. BFSTyped /\ pc = S_VISITED /\ pc \in Sides \cup {"test"}
  BY TwoSides DEF BFSInv, PopS, Pop
<1>2. PICK n \in Nat : distance = 2 * n + 1 /\ Growing(S_VISITED, n) /\ Complete(F_VISITED, n)
  BY <1>1 DEF BFSInv, Rounds
<1>3. PICK u \in layer[S_VISITED] : \/ Meets(S_VISITED, u) /\ Return(distance)
                                    \/ ~Meets(S_VISITED, u) /\ Expand(S_VISITED, u)
  BY DEF PopS, Pop
<1>4. CASE Meets(S_VISITED, u) /\ Return(distance)
  <2>1. u \in Ball(S_VISITED)[n] /\ Marked(F_VISITED) \subseteq Ball(F_VISITED)[n]
    BY <1>2 DEF Growing, Complete
  <2>2. nodeF \in Ball(S_VISITED)[n + n + 1]
    BY <1>1, <1>4, <2>1, MeetsCloses, TwoSides
  <2>3. /\ \A v \in Nodes : Counts(v) /\ v \in Ball(S_VISITED)[n] => v \in Marked(S_VISITED)
        /\ \A v \in Nodes : Counts(v) /\ v \in Ball(F_VISITED)[n] => v \in Marked(F_VISITED)
    BY <1>2 DEF Growing, Complete
  <2>4. Dist(Nodes, Visible, nodeS, nodeF) = n + n + 1
    BY <1>1, <2>2, <2>3, DistMet
  <2>5. distance = Answer
    BY <1>1, <1>2, <2>4, AnswerIsDist
  <2> QED BY <1>1, <1>4, <2>5, Answered
<1>5. CASE ~Meets(S_VISITED, u) /\ Expand(S_VISITED, u)
  <2>1. BFSTyped' /\ ResultIsDistance' /\ pc' = S_VISITED /\ distance' = distance
    BY <1>1, <1>5, ExpandGoesOn, TwoSides
  <2>2. nodeS # nodeF
    BY <1>1 DEF BFSTyped
  <2>3. Growing(S_VISITED, n)' /\ Complete(F_VISITED, n)'
    BY <1>1, <1>2, <1>5, <2>2, ExpandGrows, TwoSides
  <2>4. pc' # "test" /\ pc' # F_VISITED
    BY <2>1, TwoSides
  <2>5. Rounds'
    BY <1>2, <2>1, <2>3, <2>4 DEF Rounds
  <2> QED BY <2>1, <2>5 DEF BFSInv
<1> QED BY <1>3, <1>4, <1>5

LEMMA PopFKeeps ==
  ASSUME BFSInv, PopF
  PROVE  BFSInv'
<1>1. BFSTyped /\ pc = F_VISITED /\ pc \in Sides \cup {"test"}
  BY TwoSides DEF BFSInv, PopF, Pop
<1>2. PICK n \in Nat : distance = 2 * n + 2 /\ Complete(S_VISITED, n + 1) /\ Growing(F_VISITED, n)
  BY <1>1 DEF BFSInv, Rounds
<1>3. PICK u \in layer[F_VISITED] : \/ Meets(F_VISITED, u) /\ Return(distance)
                                    \/ ~Meets(F_VISITED, u) /\ Expand(F_VISITED, u)
  BY DEF PopF, Pop
<1>4. CASE Meets(F_VISITED, u) /\ Return(distance)
  <2>1. u \in Ball(F_VISITED)[n] /\ Marked(S_VISITED) \subseteq Ball(S_VISITED)[n + 1]
    BY <1>2 DEF Growing, Complete
  <2>2. nodeF \in Ball(S_VISITED)[n + (n + 1) + 1]
    BY <1>1, <1>4, <2>1, MeetsCloses, TwoSides
  <2>3. /\ \A v \in Nodes : Counts(v) /\ v \in Ball(S_VISITED)[n + 1] => v \in Marked(S_VISITED)
        /\ \A v \in Nodes : Counts(v) /\ v \in Ball(F_VISITED)[n] => v \in Marked(F_VISITED)
    BY <1>2 DEF Growing, Complete
  <2>4. n + (n + 1) + 1 = (n + 1) + n + 1 /\ n + 1 \in Nat
    OBVIOUS
  <2>5. Dist(Nodes, Visible, nodeS, nodeF) = (n + 1) + n + 1
    BY <1>1, <2>2, <2>3, <2>4, DistMet
  <2>6. distance = Answer
    BY <1>1, <1>2, <2>5, AnswerIsDist
  <2> QED BY <1>1, <1>4, <2>6, Answered
<1>5. CASE ~Meets(F_VISITED, u) /\ Expand(F_VISITED, u)
  <2>1. BFSTyped' /\ ResultIsDistance' /\ pc' = F_VISITED /\ distance' = distance
    BY <1>1, <1>5, ExpandGoesOn, TwoSides
  <2>2. nodeS # nodeF
    BY <1>1 DEF BFSTyped
  <2>3. n + 1 \in Nat
    OBVIOUS
  <2>4. Growing(F_VISITED, n)' /\ Complete(S_VISITED, n + 1)'
    BY <1>1, <1>2, <1>5, <2>2, <2>3, ExpandGrows, TwoSides
  <2>5. pc' # "test" /\ pc' # S_VISITED
    BY <2>1, TwoSides
  <2>6. Rounds'
    BY <1>2, <2>1, <2>4, <2>5 DEF Rounds
  <2> QED BY <2>1, <2>6 DEF BFSInv
<1> QED BY <1>3, <1>4, <1>5

\* What the turn from one layer to the next does.
LEMMA ShiftGoesOn ==
  ASSUME BFSTyped, NEW side \in Sides, pc \in Sides, Shift(side), pc' \in Sides \cup {"test"},
         distance' \in Nat
  PROVE  /\ BFSTyped' /\ ResultIsDistance' /\ UNCHANGED job /\ layer[side] = {}
         /\ layer'[side] = next[side] /\ next'[side] = {}
         /\ layer'[Other(side)] = layer[Other(side)] /\ next'[Other(side)] = next[Other(side)]
         /\ \A mark : Marked(mark)' = Marked(mark)
<1>1. /\ layer[side] = {} /\ UNCHANGED job /\ visitedTable' = visitedTable
      /\ layer' = [layer EXCEPT ![side] = next[side]]
      /\ next' = [next EXCEPT ![side] = {}]
  BY DEF Shift
<1>2. layer \in [Sides -> SUBSET Nodes] /\ next \in [Sides -> SUBSET Nodes]
  BY DEF BFSTyped
<1>3. layer' \in [Sides -> SUBSET Nodes] /\ next' \in [Sides -> SUBSET Nodes]
  BY <1>1, <1>2
<1>4. visitedTable' \in [Nodes -> Sides \cup {NOT_VISITED}]
  BY <1>1 DEF BFSTyped
<1>5. BFSTyped' /\ ResultIsDistance'
  BY <1>1, <1>3, <1>4, GoesOn
<1>6. Other(side) \in Sides /\ Other(side) # side
  BY TwoSides
<1>7. /\ layer'[side] = next[side] /\ next'[side] = {}
      /\ layer'[Other(side)] = layer[Other(side)] /\ next'[Other(side)] = next[Other(side)]
  BY <1>1, <1>2, <1>6
<1>8. \A mark : Marked(mark)' = Marked(mark)
  BY <1>1 DEF Marked
<1> QED BY <1>1, <1>5, <1>7, <1>8

LEMMA TurnToFKeeps ==
  ASSUME BFSInv, TurnToF
  PROVE  BFSInv'
<1>1. /\ BFSTyped /\ pc = S_VISITED /\ pc \in Sides /\ Shift(S_VISITED) /\ pc' = F_VISITED
      /\ distance' = distance + 1
  BY TwoSides DEF BFSInv, TurnToF
<1>2. PICK n \in Nat : distance = 2 * n + 1 /\ Growing(S_VISITED, n) /\ Complete(F_VISITED, n)
  BY <1>1 DEF BFSInv, Rounds
<1>3. distance' = 2 * n + 2 /\ distance' \in Nat /\ pc' \in Sides \cup {"test"}
      /\ pc' # "test" /\ pc' # S_VISITED
  BY <1>1, <1>2, TwoSides
<1>4. /\ BFSTyped' /\ ResultIsDistance' /\ UNCHANGED job /\ layer[S_VISITED] = {}
      /\ layer'[S_VISITED] = next[S_VISITED] /\ next'[S_VISITED] = {}
      /\ layer'[F_VISITED] = layer[F_VISITED] /\ next'[F_VISITED] = next[F_VISITED]
      /\ \A mark : Marked(mark)' = Marked(mark)
  BY <1>1, <1>3, ShiftGoesOn, TwoSides
<1>5. Complete(S_VISITED, n + 1)'
  BY <1>1, <1>2, <1>4, GrownIsComplete, TwoSides
<1>6. Growing(F_VISITED, n)'
  <2>1. Growing(F_VISITED, n)
    BY <1>1, <1>2, CompleteGrows, TwoSides
  <2> QED BY <1>4, <2>1, Untouched
<1>7. Rounds'
  BY <1>1, <1>3, <1>5, <1>6 DEF Rounds
<1> QED BY <1>4, <1>7 DEF BFSInv

LEMMA EndRoundKeeps ==
  ASSUME BFSInv, EndRound
  PROVE  BFSInv'
<1>1. /\ BFSTyped /\ pc = F_VISITED /\ pc \in Sides /\ Shift(F_VISITED) /\ pc' = "test"
      /\ distance' = distance
  BY TwoSides DEF BFSInv, EndRound
<1>2. PICK n \in Nat : distance = 2 * n + 2 /\ Complete(S_VISITED, n + 1) /\ Growing(F_VISITED, n)
  BY <1>1 DEF BFSInv, Rounds
<1>3. distance' = 2 * (n + 1) /\ distance' \in Nat /\ pc' \in Sides \cup {"test"}
      /\ pc' # F_VISITED /\ pc' # S_VISITED /\ n + 1 \in Nat
  BY <1>1, <1>2, TwoSides
<1>4. /\ BFSTyped' /\ ResultIsDistance' /\ UNCHANGED job /\ layer[F_VISITED] = {}
      /\ layer'[F_VISITED] = next[F_VISITED] /\ next'[F_VISITED] = {}
      /\ layer'[S_VISITED] = layer[S_VISITED] /\ next'[S_VISITED] = next[S_VISITED]
      /\ \A mark : Marked(mark)' = Marked(mark)
  BY <1>1, <1>3, ShiftGoesOn, TwoSides
<1>5. Complete(F_VISITED, n + 1)'
  BY <1>1, <1>2, <1>4, GrownIsComplete, TwoSides
<1>6. Complete(S_VISITED, n + 1)'
  BY <1>2, <1>4, Untouched
<1>7. Rounds'
  BY <1>3, <1>5, <1>6 DEF Rounds
<1> QED BY <1>4, <1>7 DEF BFSInv

LEMMA IdleKeeps ==
  ASSUME BFSInv, UNCHANGED vars
  PROVE  BFSInv'
<1>1. /\ UNCHANGED job /\ UNCHANGED <<pc, visitedTable, layer, next, distance, result>>
  BY DEF vars, layers
<1>2. BFSTyped'
  <2>1. nodeS' = nodeS /\ nodeF' = nodeF /\ verdict' = verdict /\ (NoList' <=> NoList)
    BY <1>1, SameAnswer DEF job
  <2> QED BY <1>1, <2>1 DEF BFSInv, BFSTyped
<1>3. \A side, d : /\ Complete(side, d) => Complete(side, d)'
                   /\ Growing(side, d) => Growing(side, d)'
  BY <1>1, Untouched DEF Marked
<1>4. Rounds'
  BY <1>1, <1>3 DEF BFSInv, Rounds
<1>5. ResultIsDistance'
  BY <1>1, SameAnswer DEF BFSInv, ResultIsDistance, Answer
<1> QED BY <1>2, <1>4, <1>5 DEF BFSInv

\* The inductive invariant of the searches.
LEMMA BFSInvHolds == Spec => []BFSInv
<1>1. Init => BFSInv
  BY InitBFSInv
<1>2. BFSInv /\ [Next]_vars => BFSInv'
  <2> SUFFICES ASSUME BFSInv, [Next]_vars PROVE BFSInv'
    OBVIOUS
  <2>1. CASE NoSearch
    BY <2>1, NoSearchKeeps
  <2>2. CASE Begin
    BY <2>2, BeginKeeps
  <2>3. CASE Test
    BY <2>3, TestKeeps
  <2>4. CASE PopS
    BY <2>4, PopSKeeps
  <2>5. CASE TurnToF
    BY <2>5, TurnToFKeeps
  <2>6. CASE PopF
    BY <2>6, PopFKeeps
  <2>7. CASE EndRound
    BY <2>7, EndRoundKeeps
  <2>8. CASE Returned
    BY <2>8, IdleKeeps DEF Returned
  <2>9. CASE UNCHANGED vars
    BY <2>9, IdleKeeps
  <2> QED BY <2>1, <2>2, <2>3, <2>4, <2>5, <2>6, <2>7, <2>8, <2>9 DEF Next
<1> QED BY <1>1, <1>2, PTL DEF Spec

-----------------------------------------------------------------------------
(* The theorems *)

\* A search returns the distance between its two nodes along the edges that the
\* version of its job lets pass, or -1 if there is no path: the early returns of
\* the three searches, their loops, and what the index lets the static one leave
\* out agree with Dist on every graph.
THEOREM SearchReturnsDistance == Spec => []ResultIsDistance
<1>1. BFSInv => ResultIsDistance
  BY DEF BFSInv
<1> QED BY <1>1, BFSInvHolds, PTL

\* At the top of each round the sides have marked their balls of the same radius
\* and hold the outermost layers in their queues, but for nodes on no path.
THEOREM LayersHoldDistances == Spec => []LayersAreDistances
<1>1. BFSInv => LayersAreDistances
  <2> SUFFICES ASSUME BFSInv, pc = "test" PROVE LayersAreDistances
    BY DEF LayersAreDistances
  <2>1. BFSTyped
    BY DEF BFSInv
  <2>2. PICK n \in Nat : distance = 2 * n /\ Complete(S_VISITED, n) /\ Complete(F_VISITED, n)
    BY DEF BFSInv, Rounds
  <2>3. distance \div 2 = n
    BY <2>2
  <2> DEFINE from == Forward(Visible, nodeS)
             to   == Backward(Visible, nodeF)
             fromN == IF n = 0 THEN from[0] ELSE from[n] \ from[n - 1]
             toN   == IF n = 0 THEN to[0] ELSE to[n] \ to[n - 1]
  <2>4. from = Ball(S_VISITED) /\ to = Ball(F_VISITED)
    BY TwoSides DEF Ball, EdgesOf, End, Backward
  <2> HIDE DEF from, to
  <2>5. fromN = Sphere(S_VISITED, n) /\ toN = Sphere(F_VISITED, n)
    BY <2>4 DEF Sphere
  <2> HIDE DEF fromN, toN
  <2>6. Marked(S_VISITED) \subseteq from[n] /\ Marked(F_VISITED) \subseteq to[n]
    BY <2>2, <2>4 DEF Complete
  <2>7. ASSUME NEW u \in Nodes, ~Needless(u)
        PROVE  /\ u \in from[n] <=> u \in Marked(S_VISITED)
               /\ u \in to[n] <=> u \in Marked(F_VISITED)
               /\ u \in fromN <=> u \in layer[S_VISITED]
               /\ u \in toN <=> u \in layer[F_VISITED]
    <3>1. Counts(u)
      BY <2>1, <2>7, CountsOrNeedless
    <3> QED BY <2>2, <2>4, <2>5, <2>6, <3>1 DEF Complete
  <2> QED BY <2>3, <2>6, <2>7 DEF LayersAreDistances, from, to, fromN, toN
<1> QED BY <1>1, BFSInvHolds, PTL

\* When a round begins only nodes that both queues hold can be an edge apart: the
\* marks that Test and Meets compare never pass an edge that joins the sides.
THEOREM NoEdgeIsMissed == Spec => []NoEdgeMissed
<1>1. BFSInv => NoEdgeMissed
  <2> SUFFICES ASSUME BFSInv, pc = "test", NEW e \in Visible,
                      visitedTable[e[1]] = S_VISITED, visitedTable[e[2]] = F_VISITED
               PROVE  e[1] \in layer[S_VISITED] /\ e[2] \in layer[F_VISITED]
    BY DEF NoEdgeMissed
  <2>1. BFSTyped
    BY DEF BFSInv
  <2>2. PICK n \in Nat : distance = 2 * n /\ Complete(S_VISITED, n) /\ Complete(F_VISITED, n)
    BY DEF BFSInv, Rounds
  <2>3. e[1] \in Nodes /\ e[2] \in Nodes
    BY PairsAssumption DEF Visible
  <2>4. /\ e[1] \in Marked(S_VISITED) /\ e[2] \notin Marked(S_VISITED)
        /\ e[2] \in Marked(F_VISITED) /\ e[1] \notin Marked(F_VISITED)
    BY <2>3, TwoSides DEF Marked
  <2>5. e[2] \in Neighbors(S_VISITED, e[1]) /\ e[1] \in Neighbors(F_VISITED, e[2])
    BY TwoSides DEF Neighbors
  <2>6. e[1] \in Ball(S_VISITED)[n] /\ e[2] \in Ball(F_VISITED)[n]
    BY <2>2, <2>4 DEF Complete
  <2>7. Counts(e[1]) /\ Counts(e[2])
    <3>1. e[1] \in Reached(S_VISITED) /\ e[2] \in Reached(F_VISITED)
      BY <2>1, <2>6, BallFacts, TwoSides
    <3>2. e[2] \in Reached(S_VISITED) /\ e[1] \in Reached(F_VISITED)
      BY <2>1, <2>5, <3>1, BallFacts, TwoSides
    <3> QED BY <3>1, <3>2, TwoSides DEF Counts
  <2>8. ASSUME NEW side \in Sides, NEW u \in Nodes, NEW v \in Nodes, v \in Neighbors(side, u),
               u \in Ball(side)[n], v \notin Marked(side), Counts(u), Counts(v),
               Complete(side, n)
        PROVE  u \in layer[side]
    <3>1. Growing(side, n)
      BY <2>1, <2>8, CompleteGrows
    <3> QED BY <2>8, <3>1 DEF Growing
  <2> QED BY <2>2, <2>3, <2>4, <2>5, <2>6, <2>7, <2>8, TwoSides
<1> QED BY <1>1, BFSInvHolds, PTL
=============================================================================
