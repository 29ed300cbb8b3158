------------------------ MODULE DynamicWorkloadProofs ------------------------
(***************************************************************************)
(* Theorems about UpdateIndex.tla and DynamicWorkload.tla: the index under *)
(* any edges added to any graph and any number of rebuilds, then the       *)
(* driver's A, Q and F lines - the snapshots that the queries of a batch   *)
(* see, the index under the driver's lines, and the answers printed: the   *)
(* lengths, and, up to two cells, also the -1s.                            *)
(*                                                                         *)
(* The theorems of the first part are about IndexSpec and cite only the    *)
(* assumptions of UpdateIndex.tla.                                         *)
(***************************************************************************)
EXTENDS DynamicWorkload, PathsProofs

\* Components are numbered with numbers up to the number of nodes.
LEMMA IdsAreNat == Cardinality(Nodes) \in Nat /\ Ids \subseteq Nat \ {0}
<1>1. Cardinality(Nodes) \in Nat
  BY NodesAssumption, FS_CardinalityType
<1> QED BY <1>1 DEF Ids

-----------------------------------------------------------------------------
(* Sets of linked nodes *)

\* Edges do not separate what fewer edges link.
LEMMA JoinedGrows ==
  ASSUME NEW E, NEW F, E \subseteq F, NEW A, NEW B, Joined(E, A, B)
  PROVE  Joined(F, A, B)
<1>1. ASSUME NEW C \in SUBSET Nodes, Closed(F, C) PROVE Closed(E, C)
  BY <1>1 DEF Closed
<1> QED BY <1>1 DEF Joined, Linked

\* Joined is symmetric.
LEMMA JoinedSwap ==
  ASSUME NEW E, NEW A, NEW B, Joined(E, A, B)
  PROVE  Joined(E, B, A)
  BY DEF Joined, Linked

\* Joined is transitive.
LEMMA JoinedThrough ==
  ASSUME NEW E, NEW A, NEW B, NEW C, Joined(E, A, B), Joined(E, B, C)
  PROVE  Joined(E, A, C)
<1>1. PICK b : b \in B
  BY DEF Joined
<1>2. ASSUME NEW a \in A, NEW c \in C PROVE Linked(Nodes, E, a, c)
  <2>1. Linked(Nodes, E, a, b) /\ Linked(Nodes, E, b, c)
    BY <1>1 DEF Joined
  <2> QED BY <2>1 DEF Linked
<1> QED BY <1>2 DEF Joined

\* The ends of an edge are linked.
LEMMA JoinedEnds ==
  ASSUME NEW E, NEW s, NEW f, <<s, f>> \in E
  PROVE  Joined(E, {s}, {f})
<1>1. Linked(Nodes, E, s, f)
  BY DEF Linked, Closed
<1> QED BY <1>1 DEF Joined

-----------------------------------------------------------------------------
(* Types *)

\* initUpdateIndex leaves a well-formed, empty index.
LEMMA IndexTypeInit == IndexInit => IndexTypeOK
<1> SUFFICES ASSUME IndexInit PROVE IndexTypeOK
  OBVIOUS
<1>1. Edges = InitEdges /\ \A e \in Edges : out[e] = 1
  BY DEF IndexInit, Edges, OUTGOING_EDGE
<1>2. cell \in Seq(Ids) /\ Len(cell) = 0
  BY DEF IndexInit
<1>3. dHash \in [Ids -> 0 .. Len(cell)]
  BY <1>2 DEF IndexInit, Null
<1> QED BY <1>1, <1>2, <1>3, EdgesAssumption DEF IndexInit, IndexTypeOK

\* The ids that an edge joins are ids, and so is the lesser of two.
LEMMA MinIsId ==
  ASSUME NEW c \in Ids, NEW d \in Ids
  PROVE  findMinComp(c, d) \in {c, d}
  BY DEF findMinComp

\* insertNewEdge and its cases keep the index well-formed.
LEMMA InsertTyped ==
  ASSUME IndexTypeOK, NEW s \in Nodes, NEW f \in Nodes, NEW version \in Nat,
         insertNewEdge(s, f, version)
  PROVE  /\ cell' \in Seq(Ids)
         /\ dHash' \in [Ids -> 0 .. Len(cell')]
         /\ versioningHash' \subseteq Ids \X Ids \X Nat
<1> DEFINE c == ccindex[s]
           d == ccindex[f]
<1>1. c \in Ids /\ d \in Ids
  BY DEF IndexTypeOK
<1>2. /\ cell \in Seq(Ids) /\ dHash \in [Ids -> 0 .. Len(cell)] /\ Len(cell) \in Nat
      /\ versioningHash \subseteq Ids \X Ids \X Nat
  BY DEF IndexTypeOK
<1> HIDE DEF c, d
<1>3. CASE UNCHANGED index
  BY <1>2, <1>3 DEF index
<1>4. CASE AddVersion(c, d, version) /\ (NewCell(c, d) \/ JoinCell(c, d)
                                         \/ JoinCell(d, c) \/ EqualCells(c, d))
  <2>1. versioningHash' \subseteq Ids \X Ids \X Nat
    BY <1>1, <1>2, <1>4 DEF AddVersion
  <2>2. ASSUME NEW i \in Ids, NEW j \in Ids, JoinCell(i, j)
        PROVE  cell' \in Seq(Ids) /\ dHash' \in [Ids -> 0 .. Len(cell')]
    BY <1>2, <2>2 DEF JoinCell
  <2>3. CASE NewCell(c, d)
    <3>1. findMinComp(c, d) \in Ids
      BY <1>1, MinIsId
    <3>2. cell' \in Seq(Ids) /\ Len(cell') = Len(cell) + 1
      BY <1>2, <2>3, <3>1 DEF NewCell
    <3>3. dHash' = [dHash EXCEPT ![c] = Len(cell) + 1, ![d] = Len(cell) + 1]
      BY <2>3 DEF NewCell
    <3>4. dHash' \in [Ids -> 0 .. (Len(cell) + 1)]
      BY <1>1, <1>2, <3>3
    <3> QED BY <2>1, <3>2, <3>4
  <2>4. CASE EqualCells(c, d)
    <3>1. dHash[c] \in 1 .. Len(cell) /\ dHash[d] \in 1 .. Len(cell)
      BY <1>1, <1>2, <2>4 DEF EqualCells, Null
    <3>2. Value(c) \in Ids /\ Value(d) \in Ids
      BY <1>2, <3>1 DEF Value
    <3>3. findMinComp(Value(c), Value(d)) \in Ids
      BY <3>2, MinIsId
    <3> DEFINE least == findMinComp(Value(c), Value(d))
               once  == [cell EXCEPT ![dHash[c]] = least]
    <3>5. cell' = [once EXCEPT ![dHash[d]] = least]
      BY <2>4 DEF EqualCells
    <3>6. once \in Seq(Ids) /\ Len(once) = Len(cell)
      BY <1>2, <3>1, <3>3
    <3> HIDE DEF least, once
    <3>4. cell' \in Seq(Ids) /\ Len(cell') = Len(cell)
      BY <3>1, <3>3, <3>5, <3>6 DEF least
    <3> QED BY <1>2, <2>1, <2>4, <3>4 DEF EqualCells
  <2> QED BY <1>1, <1>4, <2>1, <2>2, <2>3, <2>4
<1> QED BY <1>3, <1>4 DEF insertNewEdge, c, d

\* Every A line and every rebuild keeps the index well-formed.
LEMMA IndexTypeStep ==
  ASSUME IndexTypeOK, [IndexNext]_indexVars
  PROVE  IndexTypeOK'
<1>1. ASSUME NEW e \in Adds, NEW v \in Versions, AddToIndex(e[1], e[2], v)
      PROVE  IndexTypeOK'
  <2>1. e[1] \in Nodes /\ e[2] \in Nodes /\ v \in Nat
    BY EdgesAssumption, VersionsAssumption
  <2>2. /\ cell' \in Seq(Ids) /\ dHash' \in [Ids -> 0 .. Len(cell')]
        /\ versioningHash' \subseteq Ids \X Ids \X Nat
    BY <1>1, <2>1, InsertTyped DEF AddToIndex
  <2>3. Edges' \subseteq Nodes \X Nodes /\ \A g \in Edges' : out'[g] \in Nat
    BY <1>1, <2>1 DEF AddToIndex, InsertOutgoing, Edges, IndexTypeOK
  <2> QED BY <1>1, <2>2, <2>3 DEF AddToIndex, IndexTypeOK
<1>2. CASE rebuildIndexes /\ UNCHANGED out
  <2>1. cell' \in Seq(Ids) /\ Len(cell') = 0 /\ versioningHash' = {}
    BY <1>2 DEF rebuildIndexes, NewIndex
  <2>2. dHash' \in [Ids -> 0 .. Len(cell')]
    BY <1>2, <2>1 DEF rebuildIndexes, NewIndex, Null
  <2>3. ASSUME NEW c \in Ids, dHash[c] # Null PROVE Value(c) \in Ids
    BY <2>3 DEF Value, Null, IndexTypeOK
  <2>4. ccindex' \in [Nodes -> Ids]
    BY <1>2, <2>3 DEF rebuildIndexes, IndexTypeOK
  <2> QED BY <1>2, <2>1, <2>2, <2>4 DEF rebuildIndexes, IndexTypeOK, Edges
<1>3. CASE UNCHANGED indexVars
  BY <1>3 DEF indexVars, index, IndexTypeOK, Edges
<1> QED BY <1>1, <1>2, <1>3 DEF IndexNext

\* The index is well-formed whatever edges are added and whenever it is
\* rebuilt: every entry of dHash points to a cell, and every cell holds an id.
THEOREM IndexTyped == IndexSpec => []IndexTypeOK
<1>1. IndexInit => IndexTypeOK
  BY IndexTypeInit
<1>2. IndexTypeOK /\ [IndexNext]_indexVars => IndexTypeOK'
  BY IndexTypeStep
<1> QED BY <1>1, <1>2, PTL DEF IndexSpec

-----------------------------------------------------------------------------
(* No false merge *)

\* When the graph is loaded a component is made of linked nodes, and the
\* index is empty.
LEMMA LinkedInit == IndexInit => Labelled /\ Pointed
<1> SUFFICES ASSUME IndexInit PROVE Labelled /\ Pointed
  OBVIOUS
<1>1. ASSUME NEW u \in Nodes PROVE Joined(Edges, {u}, component[ccindex[u]])
  <2>1. Edges = InitEdges /\ ccindex \in [Nodes -> Ids]
    BY DEF IndexInit, Edges
  <2>2. component[ccindex[u]] = {v \in Nodes : ccindex[v] = ccindex[u]}
    BY <2>1 DEF IndexInit
  <2>3. \A v \in Nodes : ccindex[u] = ccindex[v] => Linked(Nodes, InitEdges, u, v)
    BY DEF IndexInit, NumberedByLeast
  <2> QED BY <2>1, <2>2, <2>3 DEF Joined
<1> QED BY <1>1 DEF IndexInit, Labelled, Pointed

\* Adding an edge leaves what is linked linked, and links its ends.
LEMMA OutGrows ==
  ASSUME NEW s \in Nodes, NEW f \in Nodes, NEW version, InsertOutgoing(s, f, version)
  PROVE  Edges' = Edges \cup {<<s, f>>}
  BY DEF InsertOutgoing, Edges

\* What insertNewEdge does to the values: those of the two components, if they
\* have any, and one of two ids for whoever shares their cells.
LEMMA InsertPointed ==
  ASSUME IndexTypeOK, Pointed, NEW E, Edges \subseteq E,
         NEW c \in Ids, NEW d \in Ids,
         Joined(E, component[c], component[d]),
         NewCell(c, d) \/ JoinCell(c, d) \/ EqualCells(c, d),
         UNCHANGED component,
         NEW x \in Ids, dHash'[x] # Null
  PROVE  Joined(E, component[x], component'[cell'[dHash'[x]]])
<1>1. ASSUME NEW y \in Ids, dHash[y] # Null
      PROVE  Joined(E, component[y], component[Value(y)])
  BY <1>1, JoinedGrows DEF Pointed
<1>2. Joined(E, component[d], component[c])
  BY JoinedSwap
<1>3. Joined(E, component[c], component[c]) /\ Joined(E, component[d], component[d])
  BY <1>2, JoinedThrough
<1>4. /\ cell \in Seq(Ids) /\ dHash \in [Ids -> 0 .. Len(cell)] /\ Len(cell) \in Nat
  BY DEF IndexTypeOK
<1>5. ASSUME NEW y \in Ids, dHash[y] # Null PROVE dHash[y] \in 1 .. Len(cell)
  BY <1>4, <1>5 DEF Null
<1>6. CASE NewCell(c, d)
  <2>1. CASE x \in {c, d}
    <3>1. cell'[dHash'[x]] = findMinComp(c, d)
      BY <1>4, <1>6, <2>1 DEF NewCell
    <3> QED BY <1>2, <1>3, <2>1, <3>1, MinIsId
  <2>2. CASE x \notin {c, d}
    <3>1. dHash'[x] = dHash[x]
      BY <1>4, <1>6, <2>2 DEF NewCell
    <3>2. cell'[dHash'[x]] = Value(x)
      BY <1>4, <1>5, <1>6, <3>1 DEF NewCell, Value
    <3> QED BY <1>1, <3>1, <3>2
  <2> QED BY <2>1, <2>2
<1>7. CASE JoinCell(c, d)
  <2>1. CASE x = c
    <3>1. cell'[dHash'[x]] = Value(d) /\ dHash[d] # Null
      BY <1>4, <1>7, <2>1 DEF JoinCell, Value
    <3> QED BY <1>1, <2>1, <3>1, JoinedThrough
  <2>2. CASE x # c
    <3>1. dHash[x] # Null /\ cell'[dHash'[x]] = Value(x)
      BY <1>4, <1>7, <2>2 DEF JoinCell, Value
    <3> QED BY <1>1, <3>1
  <2> QED BY <2>1, <2>2
<1>8. CASE EqualCells(c, d)
  <2> DEFINE least == findMinComp(Value(c), Value(d))
  <2>1. dHash[c] # Null /\ dHash[d] # Null /\ dHash' = dHash
    BY <1>8 DEF EqualCells
  <2>2. dHash[c] \in 1 .. Len(cell) /\ dHash[d] \in 1 .. Len(cell)
    BY <1>5, <2>1
  <2>3. Joined(E, component[c], component[Value(c)])
        /\ Joined(E, component[d], component[Value(d)])
    BY <1>1, <2>1
  <2>4. Value(c) \in Ids /\ Value(d) \in Ids
    BY <1>4, <2>2 DEF Value
  <2>5. Joined(E, component[c], component[least]) /\ Joined(E, component[d], component[least])
    BY <1>2, <2>3, <2>4, MinIsId, JoinedThrough
  <2>6. cell' = [[cell EXCEPT ![dHash[c]] = least] EXCEPT ![dHash[d]] = least]
    BY <1>8 DEF EqualCells
  <2> HIDE DEF least
  <2>7. ASSUME NEW k \in 1 .. Len(cell)
        PROVE  cell'[k] = IF k = dHash[c] \/ k = dHash[d] THEN least ELSE cell[k]
    BY <1>4, <2>2, <2>6
  <2>8. dHash[x] \in 1 .. Len(cell) /\ Joined(E, component[x], component[Value(x)])
    BY <1>1, <1>5, <2>1
  <2>9. ASSUME NEW y \in {c, d}, dHash[x] = dHash[y]
        PROVE  Joined(E, component[x], component[least])
    <3>1. Joined(E, component[x], component[Value(y)])
      BY <2>8, <2>9 DEF Value
    <3>2. Joined(E, component[Value(y)], component[y])
      BY <2>3, JoinedSwap
    <3>3. Joined(E, component[y], component[least])
      BY <2>5
    <3> QED BY <3>1, <3>2, <3>3, JoinedThrough
  <2> QED BY <2>1, <2>7, <2>8, <2>9 DEF Value
<1> QED BY <1>6, <1>7, <1>8

\* An A line keeps both parts of the invariant: the cells it writes name
\* components that the new edge links.
LEMMA LinkedAdd ==
  ASSUME IndexTypeOK, Labelled, Pointed,
         NEW s \in Nodes, NEW f \in Nodes, NEW version \in Nat,
         AddToIndex(s, f, version)
  PROVE  Labelled' /\ Pointed'
<1> DEFINE c == ccindex[s]
           d == ccindex[f]
<1>1. Edges' = Edges \cup {<<s, f>>} /\ Edges \subseteq Edges'
  BY OutGrows DEF AddToIndex
<1>2. UNCHANGED <<ccindex, component>>
  BY DEF AddToIndex
<1>3. ASSUME NEW u \in Nodes PROVE Joined(Edges', {u}, component[ccindex[u]])
  BY <1>1, JoinedGrows DEF Labelled
<1>4. Labelled'
  BY <1>2, <1>3 DEF Labelled
<1>5. c \in Ids /\ d \in Ids
  BY DEF IndexTypeOK
<1>6. Joined(Edges', component[c], component[d])
  <2>1. Joined(Edges', component[c], {s})
    BY <1>3, JoinedSwap
  <2>2. Joined(Edges', {s}, {f})
    BY <1>1, JoinedEnds
  <2>3. Joined(Edges', {f}, component[d])
    BY <1>3
  <2> QED BY <2>1, <2>2, <2>3, JoinedThrough
<1>7. Joined(Edges', component[d], component[c])
  BY <1>6, JoinedSwap
<1>8. ASSUME NEW x \in Ids, dHash'[x] # Null
      PROVE  Joined(Edges', component[x], component[cell'[dHash'[x]]])
  <2>1. CASE UNCHANGED index
    BY <1>1, <1>8, <2>1, JoinedGrows DEF index, Pointed, Value
  <2>2. CASE NewCell(c, d) \/ JoinCell(c, d) \/ EqualCells(c, d)
    <3> HIDE DEF c, d
    <3> QED BY <1>1, <1>2, <1>5, <1>6, <1>8, <2>2, InsertPointed
  <2>3. CASE JoinCell(d, c)
    <3> HIDE DEF c, d
    <3> QED BY <1>1, <1>2, <1>5, <1>7, <1>8, <2>3, InsertPointed
  <2> QED BY <2>1, <2>2, <2>3 DEF AddToIndex, insertNewEdge
<1> QED BY <1>2, <1>4, <1>8 DEF Pointed, Value

\* rebuildIndexes keeps them: a node takes the id that its component pointed to.
LEMMA LinkedRebuild ==
  ASSUME IndexTypeOK, Labelled, Pointed, rebuildIndexes, UNCHANGED out
  PROVE  Labelled' /\ Pointed'
<1>1. Edges' = Edges /\ component' = component
  BY DEF rebuildIndexes, Edges
<1>2. ASSUME NEW u \in Nodes PROVE Joined(Edges, {u}, component[ccindex'[u]])
  <2> DEFINE own == {c \in Ids : dHash[c] # Null /\ u \in component[c]}
  <2>1. ccindex'[u] = IF own = {} THEN ccindex[u] ELSE Value(CHOOSE c \in own : TRUE)
    BY DEF rebuildIndexes
  <2>2. CASE own = {}
    BY <2>1, <2>2 DEF Labelled
  <2>3. CASE own # {}
    <3>1. PICK c \in own : ccindex'[u] = Value(c)
      BY <2>1, <2>3
    <3>2. Joined(Edges, component[c], component[Value(c)])
      BY DEF Pointed
    <3> QED BY <3>1, <3>2 DEF Joined
  <2> QED BY <2>2, <2>3
<1>3. Labelled'
  BY <1>1, <1>2 DEF Labelled
<1>4. Pointed'
  BY DEF rebuildIndexes, NewIndex, Pointed
<1> QED BY <1>3, <1>4

\* Every step of the index keeps them.
LEMMA LinkedStep ==
  ASSUME IndexTypeOK, Labelled, Pointed, [IndexNext]_indexVars
  PROVE  Labelled' /\ Pointed'
<1>1. ASSUME NEW e \in Adds, NEW v \in Versions, AddToIndex(e[1], e[2], v)
      PROVE  Labelled' /\ Pointed'
  <2>1. e[1] \in Nodes /\ e[2] \in Nodes /\ v \in Nat
    BY EdgesAssumption, VersionsAssumption
  <2> QED BY <1>1, <2>1, LinkedAdd
<1>2. CASE rebuildIndexes /\ UNCHANGED out
  BY <1>2, LinkedRebuild
<1>3. CASE UNCHANGED indexVars
  BY <1>3 DEF indexVars, index, Labelled, Pointed, Edges, Value
<1> QED BY <1>1, <1>2, <1>3 DEF IndexNext

\* Nodes that the index takes for one component are linked.
LEMMA MergedAreLinked == IndexTypeOK /\ Labelled /\ Pointed => NoFalseMerge
<1> SUFFICES ASSUME IndexTypeOK, Labelled, Pointed,
                    NEW u \in Nodes, NEW v \in Nodes, Merged(u, v)
             PROVE  Linked(Nodes, Edges, u, v)
  BY DEF NoFalseMerge
<1> DEFINE c == ccindex[u]
           d == ccindex[v]
<1>1. Joined(Edges, {u}, component[c]) /\ Joined(Edges, component[d], {v})
  BY JoinedSwap DEF Labelled
<1>2. Joined(Edges, component[c], component[d])
  <2>1. CASE c = d
    BY <1>1, <2>1, JoinedSwap, JoinedThrough
  <2>2. CASE dHash[c] # Null /\ dHash[d] # Null /\ Value(c) = Value(d)
    <3>1. c \in Ids /\ d \in Ids
      BY DEF IndexTypeOK
    <3>2. Joined(Edges, component[c], component[Value(c)])
          /\ Joined(Edges, component[Value(d)], component[d])
      BY <2>2, <3>1, JoinedSwap DEF Pointed
    <3> QED BY <2>2, <3>2, JoinedThrough
  <2> QED BY <2>1, <2>2 DEF Merged
<1>3. Joined(Edges, {u}, {v})
  BY <1>1, <1>2, JoinedThrough
<1> QED BY <1>3 DEF Joined

\* Through any sequence of merges and rebuilds the index never takes two nodes
\* that no edges link for one component.
THEOREM IndexNeverMergesFalsely == IndexSpec => []NoFalseMerge
<1>1. IndexInit => IndexTypeOK /\ Labelled /\ Pointed
  BY IndexTypeInit, LinkedInit
<1>2. IndexTypeOK /\ Labelled /\ Pointed /\ [IndexNext]_indexVars
      => IndexTypeOK' /\ Labelled' /\ Pointed'
  BY IndexTypeStep, LinkedStep
<1>3. IndexTypeOK /\ Labelled /\ Pointed => NoFalseMerge
  BY MergedAreLinked
<1> QED BY <1>1, <1>2, <1>3, PTL DEF IndexSpec

-----------------------------------------------------------------------------
(* The driver *)

SnapshotInv == VersionBound /\ TablesAgree /\ QueriesBefore

\* Where the tables agree, a version lets the same edges pass in both.
LEMMA SameVisible ==
  ASSUME TablesAgree, NEW version \in Nat
  PROVE  VisibleIn(version) = VisibleOut(version)
<1>1. ASSUME NEW e \in VisibleOut(version) PROVE e \in VisibleIn(version)
  <2>1. e \in Nodes \X Nodes /\ out[e] <= version /\ <<e[1], e[2], out[e]>> \in in
    BY DEF VisibleOut, TablesAgree
  <2>2. e = <<e[1], e[2]>>
    BY <2>1
  <2> QED BY <2>1, <2>2 DEF VisibleIn
<1>2. ASSUME NEW t \in in, t[3] <= version PROVE <<t[1], t[2]>> \in VisibleOut(version)
  <2>1. /\ <<t[1], t[2]>> \in Edges /\ out[<<t[1], t[2]>>] \in Nat
        /\ out[<<t[1], t[2]>>] <= t[3] /\ t[3] \in Nat
    BY DEF TablesAgree
  <2> QED BY <1>2, <2>1 DEF VisibleOut
<1> QED BY <1>1, <1>2 DEF VisibleIn, VisibleOut

\* The jobs of the batch are query jobs.
LEMMA QueryTyped ==
  ASSUME QueriesBefore, NEW p \in 1 .. Len(queries)
  PROVE  /\ queries[p] \in QueryJobs /\ queries[p].versioning \in Nat
         /\ queries[p].versioning < LineVersion
         /\ VisibleOut(queries[p].versioning) = queries[p].graph
<1>1. queries[p] \in QueryJobs
  BY DEF QueriesBefore
<1>2. queries[p].versioning \in Nat
  BY <1>1 DEF QueryJobs
<1> QED BY <1>1, <1>2 DEF QueriesBefore

\* SnapshotVisible follows from the three inductive facts.
LEMMA SnapshotFollows == SnapshotInv => SnapshotVisible
<1> SUFFICES ASSUME SnapshotInv, NEW p \in 1 .. Len(queries)
             PROVE  /\ VisibleOut(queries[p].versioning) = queries[p].graph
                    /\ VisibleIn(queries[p].versioning) = queries[p].graph
  BY DEF SnapshotVisible
<1>1. queries[p].versioning \in Nat
         /\ VisibleOut(queries[p].versioning) = queries[p].graph
  BY QueryTyped DEF SnapshotInv
<1> QED BY <1>1, SameVisible DEF SnapshotInv

\* They hold when the graph is loaded.
LEMMA SnapshotInit == Init => SnapshotInv
<1> SUFFICES ASSUME Init PROVE SnapshotInv
  OBVIOUS
<1>1. Edges = InitEdges /\ \A e \in Edges : out[e] = 1
  BY DEF Init, IndexInit, Edges, OUTGOING_EDGE
<1>2. VersionBound
  BY LimitsAssumption DEF Init, VersionBound
<1>3. TablesAgree
  <2>1. ASSUME NEW e \in InitEdges PROVE e = <<e[1], e[2]>> /\ e \in Nodes \X Nodes
    BY EdgesAssumption
  <2>2. in = {<<e[1], e[2], 1>> : e \in InitEdges}
    BY DEF Init, OUTGOING_EDGE
  <2>3. currentVersion = 1
    BY DEF Init
  <2>4. ASSUME NEW t \in in
        PROVE  /\ t \in Nodes \X Nodes \X Nat
               /\ <<t[1], t[2]>> \in Edges /\ out[<<t[1], t[2]>>] <= t[3]
    BY <1>1, <2>1, <2>2
  <2> QED BY <1>1, <2>1, <2>2, <2>3, <2>4 DEF TablesAgree
<1>4. QueriesBefore
  BY DEF Init, QueriesBefore
<1> QED BY <1>2, <1>3, <1>4 DEF SnapshotInv

-----------------------------------------------------------------------------
\* A Q line keeps them: it takes the current version and the graph of now.
LEMMA QueryLineSnapshot ==
  ASSUME SnapshotInv, QueryLine
  PROVE  SnapshotInv'
<1>1. VersionBound' /\ TablesAgree'
  BY DEF SnapshotInv, QueryLine, VersionBound, TablesAgree, indexVars, Edges
<1>2. QueriesBefore'
  <2>1. PICK q \in Asks :
          queries' = Append(queries, [nodeS |-> q[1], nodeF |-> q[2],
                                      versioning |-> currentVersion, graph |-> Edges])
    BY DEF QueryLine
  <2> DEFINE new == [nodeS |-> q[1], nodeF |-> q[2],
                     versioning |-> currentVersion, graph |-> Edges]
  <2>2. queries \in Seq(QueryJobs) /\ currentVersion \in Nat /\ Edges \subseteq Nodes \X Nodes
    BY DEF SnapshotInv, QueriesBefore, VersionBound, TablesAgree
  <2>3. new \in QueryJobs
    BY <2>2, AsksAssumption DEF QueryJobs
  <2>4. queries' = Append(queries, new)
    BY <2>1
  <2>5. LineVersion' = currentVersion + 1
        /\ LineVersion \in {currentVersion, currentVersion + 1}
    BY DEF QueryLine, LineVersion
  <2>6. \A v : VisibleOut(v)' = VisibleOut(v)
    BY DEF QueryLine, VisibleOut, indexVars, Edges
  <2>7. VisibleOut(currentVersion) = Edges
    BY DEF SnapshotInv, TablesAgree, VisibleOut
  <2>8. ASSUME NEW p \in 1 .. Len(queries)
        PROVE  /\ queries[p].versioning < LineVersion'
               /\ VisibleOut(queries[p].versioning)' = queries'[p].graph
               /\ queries'[p] = queries[p]
    <3>1. queries'[p] = queries[p]
      BY <2>2, <2>4
    <3>2. /\ queries[p].versioning < LineVersion /\ queries[p].versioning \in Nat
          /\ VisibleOut(queries[p].versioning) = queries[p].graph
      BY QueryTyped DEF SnapshotInv
    <3> QED BY <2>2, <2>5, <2>6, <3>1, <3>2 DEF VisibleOut
  <2> HIDE DEF new
  <2>9. Len(queries') = Len(queries) + 1 /\ queries'[Len(queries) + 1] = new
        /\ queries' \in Seq(QueryJobs)
    BY <2>2, <2>3, <2>4
  <2>10. new.versioning = currentVersion /\ new.graph = Edges
    BY DEF new
  <2> QED
    <3> SUFFICES ASSUME NEW p \in 1 .. Len(queries')
                 PROVE  /\ queries'[p].versioning < LineVersion'
                        /\ VisibleOut(queries[p].versioning)' = queries'[p].graph
      BY <2>9 DEF QueriesBefore
    <3>1. CASE p = Len(queries) + 1
      BY <2>2, <2>5, <2>6, <2>7, <2>9, <2>10, <3>1
    <3>2. CASE p # Len(queries) + 1
      <4>1. p \in 1 .. Len(queries)
        BY <2>2, <2>9, <3>2
      <4> QED BY <2>8, <4>1
    <3> QED BY <3>1, <3>2
<1> QED BY <1>1, <1>2 DEF SnapshotInv

\* The version that an A line gives its edge.
LEMMA LineVersionBound ==
  ASSUME VersionBound
  PROVE  /\ LineVersion \in 1 .. adds + 2 /\ LineVersion >= currentVersion
         /\ adds < MaxAdds => LineVersion \in Versions
<1>1. /\ adds \in Nat /\ currentVersion \in Nat /\ currentVersion >= 1
      /\ currentVersion <= adds + 1 /\ MaxAdds \in Nat
  BY LimitsAssumption DEF VersionBound
<1>2. LineVersion \in {currentVersion, currentVersion + 1}
  BY DEF LineVersion
<1>3. adds < MaxAdds => LineVersion \in 1 .. MaxAdds + 1
  BY <1>1, <1>2
<1> QED BY <1>1, <1>2, <1>3, LimitsAssumption

\* An A line keeps them: its version is above that of every query before it.
LEMMA AddLineSnapshot ==
  ASSUME SnapshotInv, AddLine
  PROVE  SnapshotInv'
<1> DEFINE version == LineVersion
<1>1. PICK e \in Adds : addEdge(e[1], e[2], version)
  BY DEF AddLine
<1> DEFINE s == e[1]
           f == e[2]
<1>2. s \in Nodes /\ f \in Nodes
  BY EdgesAssumption
<1>3. /\ version \in Nat /\ version >= currentVersion /\ version <= adds + 2
      /\ currentVersion \in Nat /\ adds \in Nat
  BY LineVersionBound DEF SnapshotInv, VersionBound
<1>4. currentVersion' = version /\ previousJob' = "A" /\ adds' = adds + 1
  BY DEF AddLine
<1>5. VersionBound'
  <2>1. version <= adds + 1 + 1 /\ version >= 1
    BY <1>3, LineVersionBound DEF SnapshotInv
  <2>2. adds < MaxAdds /\ MaxAdds \in Nat
    BY LimitsAssumption DEF AddLine
  <2> QED BY <1>3, <1>4, <2>1, <2>2 DEF VersionBound
<1>6. /\ Edges' = Edges \cup {<<s, f>>}
      /\ \A g \in Edges' : out'[g] = IF g \in Edges THEN out[g] ELSE version
  BY <1>1 DEF addEdge, InsertOutgoing, Edges
<1>7. in \subseteq in' /\ in' \subseteq in \cup {<<s, f, version>>}
      /\ (<<s, f>> \notin Edges => <<s, f, version>> \in in')
  BY <1>1 DEF addEdge, FoundDouble
<1> HIDE DEF version, s, f
<1>8. TablesAgree'
  <2>1. Edges' \subseteq Nodes \X Nodes
    BY <1>2, <1>6 DEF SnapshotInv, TablesAgree
  <2>2. ASSUME NEW g \in Edges'
        PROVE  /\ out'[g] \in Nat /\ out'[g] <= version
               /\ <<g[1], g[2], out'[g]>> \in in'
    <3>1. CASE g \in Edges
      <4>1. /\ out[g] \in Nat /\ out[g] <= currentVersion /\ <<g[1], g[2], out[g]>> \in in
        BY <3>1 DEF SnapshotInv, TablesAgree
      <4> QED BY <1>3, <1>6, <1>7, <3>1, <4>1
    <3>2. CASE g \notin Edges
      <4>1. g = <<s, f>> /\ out'[g] = version
        BY <1>6, <3>2
      <4> QED BY <1>3, <1>7, <3>2, <4>1
    <3> QED BY <3>1, <3>2
  <2>3. ASSUME NEW t \in in'
        PROVE  /\ t \in Nodes \X Nodes \X Nat
               /\ <<t[1], t[2]>> \in Edges' /\ out'[<<t[1], t[2]>>] <= t[3]
    <3>1. CASE t \in in
      <4>1. /\ t \in Nodes \X Nodes \X Nat /\ <<t[1], t[2]>> \in Edges
            /\ out[<<t[1], t[2]>>] <= t[3]
        BY <3>1 DEF SnapshotInv, TablesAgree
      <4> QED BY <1>6, <4>1
    <3>2. CASE t = <<s, f, version>>
      <4>1. t[1] = s /\ t[2] = f /\ t[3] = version
        BY <3>2
      <4>2. <<s, f>> \in Edges => out[<<s, f>>] \in Nat /\ out[<<s, f>>] <= currentVersion
        BY DEF SnapshotInv, TablesAgree
      <4>3. <<s, f>> \in Edges' /\ out'[<<s, f>>] <= version
        BY <1>3, <1>6, <4>2
      <4> QED BY <1>2, <1>3, <3>2, <4>1, <4>3
    <3> QED BY <1>7, <3>1, <3>2
  <2> QED BY <1>4, <2>1, <2>2, <2>3 DEF TablesAgree
<1>9. QueriesBefore'
  <2>1. queries' = queries
    BY DEF AddLine
  <2>2. LineVersion' = version
    BY <1>4 DEF LineVersion
  <2>3. ASSUME NEW p \in 1 .. Len(queries)
        PROVE  /\ queries[p].versioning < version
               /\ VisibleOut(queries[p].versioning)' = queries[p].graph
    <3> DEFINE v == queries[p].versioning
    <3>1. v \in Nat /\ v < version /\ VisibleOut(v) = queries[p].graph
      BY QueryTyped DEF SnapshotInv, version
    <3>2. {g \in Edges' : out'[g] <= v} = {g \in Edges : out[g] <= v}
      BY <1>3, <1>6, <3>1
    <3> QED BY <2>1, <3>1, <3>2 DEF VisibleOut
  <2> QED BY <2>1, <2>2, <2>3 DEF SnapshotInv, QueriesBefore
<1> QED BY <1>5, <1>8, <1>9 DEF SnapshotInv

\* Lines and steps that touch neither the graph nor the versions.
LEMMA OtherSnapshot ==
  ASSUME SnapshotInv, UNCHANGED <<out, in, currentVersion, previousJob, adds>>,
         queries' = queries \/ queries' = <<>>
  PROVE  SnapshotInv'
<1>1. VersionBound' /\ TablesAgree'
  BY DEF SnapshotInv, VersionBound, TablesAgree, Edges
<1>2. ASSUME queries' = queries PROVE QueriesBefore'
  BY <1>2 DEF SnapshotInv, QueriesBefore, VisibleOut, Edges, LineVersion
<1>3. ASSUME queries' = <<>> PROVE QueriesBefore'
  BY <1>3 DEF QueriesBefore
<1> QED BY <1>1, <1>2, <1>3 DEF SnapshotInv

\* Every step keeps them.
LEMMA SnapshotStep ==
  ASSUME SnapshotInv, [Next]_vars
  PROVE  SnapshotInv'
<1> USE DEF indexVars, lines, lists
<1>1. CASE QueryLine
  BY <1>1, QueryLineSnapshot
<1>2. CASE AddLine
  BY <1>2, AddLineSnapshot
<1>3. CASE FLine
  BY <1>3, OtherSnapshot DEF FLine
<1>4. CASE Answer
  BY <1>4, OtherSnapshot DEF Answer
<1>5. CASE Metric
  BY <1>5, OtherSnapshot DEF Metric
<1>6. CASE PrintResults
  BY <1>6, OtherSnapshot DEF PrintResults
<1>7. CASE UNCHANGED vars
  BY <1>7, OtherSnapshot DEF vars
<1> QED BY <1>1, <1>2, <1>3, <1>4, <1>5, <1>6, <1>7 DEF Next

\* A query sees, in both tables, exactly the graph of its own line, however many
\* edges later lines add and repeat before the batch is answered.
THEOREM QueriesSeeTheirSnapshot == Spec => []SnapshotVisible
<1>1. Init => SnapshotInv
  BY SnapshotInit
<1>2. SnapshotInv /\ [Next]_vars => SnapshotInv'
  BY SnapshotStep
<1>3. SnapshotInv => SnapshotVisible
  BY SnapshotFollows
<1> QED BY <1>1, <1>2, <1>3, PTL DEF Spec

-----------------------------------------------------------------------------
(* The driver as a user of the index *)

\* Each step of the driver is a step of the index or leaves it alone.
LEMMA IndexStepOfLine ==
  ASSUME VersionBound, [Next]_vars
  PROVE  [IndexNext]_indexVars
<1>1. CASE AddLine
  <2>1. LineVersion \in Versions
    BY <1>1, LineVersionBound DEF AddLine
  <2>2. PICK e \in Adds : /\ addEdge(e[1], e[2], LineVersion)
                          /\ insertNewEdge(e[1], e[2], LineVersion)
    BY <1>1 DEF AddLine
  <2>3. AddToIndex(e[1], e[2], LineVersion)
    BY <1>1, <2>2 DEF AddLine, AddToIndex, addEdge
  <2> QED BY <2>1, <2>3 DEF IndexNext
<1>2. CASE Metric
  <2>1. CASE estimateMetric
    BY <1>2, <2>1 DEF Metric, IndexNext, lists
  <2>2. CASE ~estimateMetric
    BY <1>2, <2>2 DEF Metric, indexVars, lists
  <2> QED BY <2>1, <2>2
<1>3. CASE QueryLine \/ FLine \/ Answer \/ PrintResults \/ UNCHANGED vars
  BY <1>3 DEF QueryLine, FLine, Answer, PrintResults, vars
<1> QED BY <1>1, <1>2, <1>3 DEF Next

\* Whatever the workload, the driver uses the index as UpdateIndex says: every
\* edge it adds to the graph is given to the index in the same line, and no
\* other line or answer changes it.
THEOREM DriverImplementsIndex == Spec => IndexSpec
<1>1. Init => IndexInit /\ SnapshotInv
  BY SnapshotInit DEF Init
<1>2. SnapshotInv /\ [Next]_vars => SnapshotInv' /\ [IndexNext]_indexVars
  BY SnapshotStep, IndexStepOfLine DEF SnapshotInv
<1> QED BY <1>1, <1>2, PTL DEF Spec, IndexSpec

\* Nor does any workload make the index merge what no edges link.
THEOREM DriverNeverMergesFalsely == Spec => []NoFalseMerge
  BY DriverImplementsIndex, IndexNeverMergesFalsely, PTL

-----------------------------------------------------------------------------
(* The answers printed *)

\* While a batch is answered: the lengths of the queries answered so far are
\* distances; once it is answered, FoundIsExact.
AnsweredSoFar ==
  phase = "execute" =>
    /\ open \subseteq 1 .. Len(queries)
    /\ results = [p \in 1 .. Len(queries) |-> results[p]]
    /\ \A p \in 1 .. Len(queries) :
         p \notin open => results[p] \in {-1, Distance(queries[p])}

AnswerInv == SnapshotInv /\ AnsweredSoFar /\ FoundIsExact

\* A search that sees the graph of the query's line finds its distance or nothing.
LEMMA SearchExact ==
  ASSUME SnapshotInv, NEW p \in 1 .. Len(queries),
         NEW a \in shortestLengthDynamicBBFS(queries[p])
  PROVE  a.length \in {-1, Distance(queries[p])}
<1> DEFINE q == queries[p]
<1>1. q \in QueryJobs /\ VisibleOut(q.versioning) = q.graph
  BY QueryTyped DEF SnapshotInv
<1>2. q.nodeS \in Nodes /\ q.graph \in SUBSET (Nodes \X Nodes)
  BY <1>1 DEF QueryJobs
<1> HIDE DEF q
<1>3. CASE q.nodeS = q.nodeF
  <2>1. a.length = 0
    BY <1>3 DEF shortestLengthDynamicBBFS, q
  <2>2. q.nodeF \in Forward(q.graph, q.nodeS)[0]
    <3>1. Forward(q.graph, q.nodeS)[0] = {q.nodeS}
      BY ONLY ForwardStep
    <3> QED BY ONLY <1>3, <3>1
  <2>3. \A m \in Nat : m < 0 => q.nodeF \notin Forward(q.graph, q.nodeS)[m]
    OBVIOUS
  <2>4. Dist(Nodes, q.graph, q.nodeS, q.nodeF) = 0
    BY ONLY NodesAssumption, <1>2, <2>2, <2>3, DistFound
  <2> QED BY <2>1, <2>4 DEF Distance, q
<1>4. CASE q.nodeS # q.nodeF
  <2>1. PICK i \in nodesInSameComponent(q.nodeS, q.nodeF, q.versioning) :
          a = [length |-> IF i.same
                          THEN Dist(Nodes, VisibleOut(q.versioning), q.nodeS, q.nodeF)
                          ELSE -1,
               used |-> i.used]
    BY <1>4 DEF shortestLengthDynamicBBFS, q
  <2> QED BY <1>1, <2>1 DEF Distance, q
<1> QED BY <1>3, <1>4

\* Every step keeps the answers exact.
LEMMA AnswerStep ==
  ASSUME AnswerInv, [Next]_vars
  PROVE  AnswerInv'
<1>1. SnapshotInv'
  BY SnapshotStep DEF AnswerInv
<1>2. CASE QueryLine \/ AddLine \/ PrintResults
  <2>1. phase' = "read"
    BY <1>2 DEF QueryLine, AddLine, PrintResults
  <2> QED BY <1>1, <2>1 DEF AnswerInv, AnsweredSoFar, FoundIsExact
<1>3. CASE FLine
  <2>1. /\ phase' = "execute" /\ queries' = queries /\ open' = 1 .. Len(queries)
        /\ results' = [p \in 1 .. Len(queries) |-> 0]
    BY <1>3 DEF FLine, lines
  <2> QED BY <1>1, <2>1 DEF AnswerInv, AnsweredSoFar, FoundIsExact
<1>4. CASE Answer
  <2>1. PICK p \in open :
          /\ \E a \in shortestLengthDynamicBBFS(queries[p]) :
               results' = [results EXCEPT ![p] = a.length]
          /\ open' = open \ {p}
    BY <1>4 DEF Answer
  <2>2. PICK a \in shortestLengthDynamicBBFS(queries[p]) :
          results' = [results EXCEPT ![p] = a.length]
    BY <2>1
  <2>3. phase = "execute" /\ phase' = "execute" /\ queries' = queries
    BY <1>4 DEF Answer, lines
  <2>4. /\ open \subseteq 1 .. Len(queries)
        /\ results = [r \in 1 .. Len(queries) |-> results[r]]
        /\ \A r \in 1 .. Len(queries) :
             r \notin open => results[r] \in {-1, Distance(queries[r])}
    BY <2>3 DEF AnswerInv, AnsweredSoFar
  <2>5. a.length \in {-1, Distance(queries[p])}
    BY <2>1, <2>2, <2>4, SearchExact DEF AnswerInv
  <2>6. results' = [r \in 1 .. Len(queries) |-> IF r = p THEN a.length ELSE results[r]]
    BY <2>2, <2>4
  <2>7. \A r \in 1 .. Len(queries) :
          r \notin open' => results'[r] \in {-1, Distance(queries[r])}
    BY <2>1, <2>4, <2>5, <2>6
  <2>8. results' = [r \in 1 .. Len(queries) |-> results'[r]]
    BY <2>6
  <2>9. AnsweredSoFar'
    BY <2>1, <2>3, <2>4, <2>7, <2>8 DEF AnsweredSoFar, Distance
  <2> QED BY <1>1, <2>3, <2>9 DEF AnswerInv, FoundIsExact
<1>5. CASE Metric
  <2>1. /\ phase = "execute" /\ phase' = "print" /\ open = {}
        /\ queries' = queries /\ results' = results
    BY <1>5 DEF Metric, lines
  <2>2. \A p \in 1 .. Len(queries) : results[p] \in {-1, Distance(queries[p])}
    BY <2>1 DEF AnswerInv, AnsweredSoFar
  <2>3. FoundIsExact'
    BY <2>1, <2>2 DEF FoundIsExact, Distance
  <2> QED BY <1>1, <2>1, <2>3 DEF AnswerInv, AnsweredSoFar
<1>6. CASE UNCHANGED vars
  <2>1. UNCHANGED <<phase, open, queries, results>>
    BY <1>6 DEF vars, lines
  <2> QED BY <1>1, <2>1 DEF AnswerInv, AnsweredSoFar, FoundIsExact, Distance
<1> QED BY <1>2, <1>3, <1>4, <1>5, <1>6 DEF Next

\* Whatever edges are added and whatever components the index loses or merges, a
\* length that is printed is that of a shortest path in the graph as it was at
\* the query's line.
THEOREM PrintedLengthsAreDistances == Spec => []FoundIsExact
<1>1. Init => AnswerInv
  BY SnapshotInit DEF Init, AnswerInv, AnsweredSoFar, FoundIsExact
<1>2. AnswerInv /\ [Next]_vars => AnswerInv'
  BY AnswerStep
<1>3. AnswerInv => FoundIsExact
  BY DEF AnswerInv
<1> QED BY <1>1, <1>2, <1>3, PTL DEF Spec

-----------------------------------------------------------------------------
(* The answers without a path *)

\* No node is of two components as they were loaded.
Parted == \A c, d \in Ids : component[c] \cap component[d] # {} => c = d

EmptyIndex == dHash = [c \in Ids |-> Null] /\ cell = <<>> /\ versioningHash = {}

\* An index that has anything in it has merged two components.
Paired == \/ EmptyIndex
          \/ \E c, d \in Ids : c # d /\ dHash[c] # Null /\ dHash[c] = dHash[d]

\* The index takes the ids c and d for one component.
SameId(c, d) == c = d \/ (dHash[c] # Null /\ dHash[d] # Null /\ Value(c) = Value(d))

\* The index has kept every merge.
MergesKept ==
  NeverRelabelled /\ Len(cell) <= 2 =>
    \A e \in Edges : SameId(ccindex[e[1]], ccindex[e[2]])

IndexInv == IndexTypeOK /\ Labelled /\ Pointed /\ Parted /\ Paired /\ MergesKept

\* ExactUpToTwoCells for the queries answered so far.
ExactSoFar ==
  /\ phase = "print" => open = {}
  /\ phase # "read" /\ NeverRelabelled /\ Len(cell) <= 2 =>
       \A p \in 1 .. Len(queries) :
         p \notin open /\ NotJoinedLater(queries[p]) => results[p] = Distance(queries[p])

\* When the graph is loaded its edges join no two components.
LEMMA IndexInvInit == IndexInit => IndexInv
<1> SUFFICES ASSUME IndexInit PROVE IndexInv
  OBVIOUS
<1>1. IndexTypeOK /\ Labelled /\ Pointed
  BY IndexTypeInit, LinkedInit
<1>2. Parted /\ Paired
  BY DEF IndexInit, Parted, Paired, EmptyIndex
<1>3. ASSUME NEW e \in Edges PROVE ccindex[e[1]] = ccindex[e[2]]
  <2>1. e \in InitEdges /\ e[1] \in Nodes /\ e[2] \in Nodes
    BY EdgesAssumption DEF IndexInit, Edges
  <2>2. Linked(Nodes, InitEdges, e[1], e[2])
    BY <2>1 DEF Linked, Closed
  <2> QED BY <2>1, <2>2 DEF IndexInit, NumberedByLeast
<1> QED BY <1>1, <1>2, <1>3 DEF IndexInv, MergesKept, SameId

\* With at most two cells insertNewEdge joins the two components and parts no others:
\* the two cells that it makes equal are all there are.
LEMMA InsertJoins ==
  ASSUME IndexTypeOK, NEW c \in Ids, NEW d \in Ids,
         NewCell(c, d) \/ JoinCell(c, d) \/ EqualCells(c, d), Len(cell') <= 2
  PROVE  /\ SameId(c, d)' /\ Len(cell) <= 2
         /\ \A x, y \in Ids : SameId(x, y) => SameId(x, y)'
<1>1. /\ cell \in Seq(Ids) /\ dHash \in [Ids -> 0 .. Len(cell)] /\ Len(cell) \in Nat
  BY DEF IndexTypeOK
<1>2. \A x \in Ids : dHash[x] # Null => dHash[x] \in 1 .. Len(cell)
  BY <1>1 DEF Null
<1>3. CASE NewCell(c, d)
  <2>1. /\ Len(cell') = Len(cell) + 1 /\ dHash[c] = Null /\ dHash[d] = Null
        /\ \A k \in 1 .. Len(cell) : cell'[k] = cell[k]
    BY <1>1, <1>3 DEF NewCell
  <2>2. /\ dHash'[c] = Len(cell) + 1 /\ dHash'[d] = Len(cell) + 1
        /\ \A x \in Ids : dHash[x] # Null => dHash'[x] = dHash[x]
    BY <1>1, <1>3, <2>1 DEF NewCell
  <2> QED BY <1>1, <1>2, <2>1, <2>2 DEF SameId, Value, Null
<1>4. CASE JoinCell(c, d)
  <2>1. /\ dHash[c] = Null /\ dHash[d] # Null /\ cell' = cell
        /\ dHash'[c] = dHash[d] /\ \A x \in Ids : x # c => dHash'[x] = dHash[x]
    BY <1>1, <1>4 DEF JoinCell
  <2> QED BY <2>1 DEF SameId, Value
<1>5. CASE EqualCells(c, d)
  <2> DEFINE least == findMinComp(Value(c), Value(d))
  <2>1. /\ dHash[c] # Null /\ dHash[d] # Null /\ dHash' = dHash
        /\ cell' = [[cell EXCEPT ![dHash[c]] = least] EXCEPT ![dHash[d]] = least]
    BY <1>5 DEF EqualCells
  <2>2. dHash[c] \in 1 .. Len(cell) /\ dHash[d] \in 1 .. Len(cell)
    BY <1>2, <2>1
  <2>3. dHash[c] = dHash[d] => least = cell[dHash[c]]
    BY DEF findMinComp, Value
  <2> HIDE DEF least
  <2>4. \A k \in 1 .. Len(cell) :
          cell'[k] = IF k = dHash[c] \/ k = dHash[d] THEN least ELSE cell[k]
    BY <1>1, <2>1, <2>2
  <2>5. Len(cell') = Len(cell)
    BY <1>1, <2>1
  <2>6. SameId(c, d)'
    BY <2>1, <2>2, <2>4 DEF SameId, Value
  <2>7. CASE dHash[c] = dHash[d]
    <3>1. \A k \in 1 .. Len(cell) : cell'[k] = cell[k]
      BY <2>3, <2>4, <2>7
    <3> QED BY <1>2, <2>1, <2>5, <2>6, <3>1 DEF SameId, Value
  <2>8. CASE dHash[c] # dHash[d]
    <3>1. \A k \in 1 .. Len(cell) : k = dHash[c] \/ k = dHash[d]
      BY <1>1, <2>2, <2>5, <2>8
    <3>2. \A k \in 1 .. Len(cell) : cell'[k] = least
      BY <2>4, <3>1
    <3> QED BY <1>2, <2>1, <2>5, <2>6, <3>2 DEF SameId, Value
  <2> QED BY <2>7, <2>8
<1> QED BY <1>3, <1>4, <1>5

\* insertNewEdge leaves two components at one cell if it does anything.
LEMMA InsertPairs ==
  ASSUME IndexTypeOK, Paired, NEW c \in Ids, NEW d \in Ids, c # d,
         NewCell(c, d) \/ JoinCell(c, d) \/ EqualCells(c, d)
  PROVE  \E x, y \in Ids : x # y /\ dHash'[x] # Null /\ dHash'[x] = dHash'[y]
<1>1. dHash \in [Ids -> 0 .. Len(cell)] /\ Len(cell) \in Nat
  BY DEF IndexTypeOK
<1>2. CASE NewCell(c, d) \/ JoinCell(c, d)
  <2>1. dHash'[c] # Null /\ dHash'[c] = dHash'[d]
    BY <1>1, <1>2 DEF NewCell, JoinCell, Null
  <2> QED BY <2>1
<1>3. CASE EqualCells(c, d)
  BY <1>3 DEF EqualCells, Paired, EmptyIndex
<1> QED BY <1>2, <1>3

\* An A line keeps the invariant of the index.
LEMMA IndexInvAdd ==
  ASSUME IndexInv, NEW s \in Nodes, NEW f \in Nodes, NEW version \in Nat,
         AddToIndex(s, f, version)
  PROVE  Parted' /\ Paired' /\ MergesKept'
<1> PICK c, d : c = ccindex[s] /\ d = ccindex[f]
  OBVIOUS
<1>1. Edges' = Edges \cup {<<s, f>>}
  BY OutGrows DEF AddToIndex
<1>2. UNCHANGED <<ccindex, component>>
  BY DEF AddToIndex
<1>3. /\ c \in Ids /\ d \in Ids
      /\ \A e \in Edges : ccindex[e[1]] \in Ids /\ ccindex[e[2]] \in Ids
  BY DEF IndexInv, IndexTypeOK
<1>4. Parted'
  BY <1>2 DEF IndexInv, Parted
<1>5. NeverRelabelled' <=> NeverRelabelled
  BY <1>2 DEF NeverRelabelled
<1>6. CASE UNCHANGED index /\ c = d
  <2>1. \A x, y : SameId(x, y)' <=> SameId(x, y)
    BY <1>6 DEF index, SameId, Value
  <2>2. Paired' /\ Len(cell') = Len(cell)
    BY <1>6 DEF index, IndexInv, Paired, EmptyIndex
  <2>3. SameId(c, d)
    BY <1>6 DEF SameId
  <2>4. MergesKept'
    BY <1>1, <1>2, <1>5, <2>1, <2>2, <2>3 DEF IndexInv, MergesKept
  <2> QED BY <1>4, <2>2, <2>4
<1>7. CASE /\ c # d
           /\ NewCell(c, d) \/ JoinCell(c, d) \/ JoinCell(d, c) \/ EqualCells(c, d)
  <2>1. Paired'
    <3>1. \E x, y \in Ids : x # y /\ dHash'[x] # Null /\ dHash'[x] = dHash'[y]
      BY <1>3, <1>7, InsertPairs DEF IndexInv
    <3> QED BY <3>1 DEF Paired
  <2>2. ASSUME Len(cell') <= 2
        PROVE  /\ SameId(c, d)' /\ Len(cell) <= 2
               /\ \A x, y \in Ids : SameId(x, y) => SameId(x, y)'
    <3>1. CASE JoinCell(d, c)
      BY <1>3, <2>2, <3>1, InsertJoins DEF IndexInv, SameId
    <3> QED BY <1>3, <1>7, <2>2, <3>1, InsertJoins DEF IndexInv
  <2>3. MergesKept'
    BY <1>1, <1>2, <1>3, <1>5, <2>2 DEF IndexInv, MergesKept
  <2> QED BY <1>4, <2>1, <2>3
<1> QED BY <1>6, <1>7 DEF AddToIndex, insertNewEdge

\* rebuildIndexes changes nothing if the index is empty; otherwise it gives the nodes of
\* two components one id, and a node has changed component.
LEMMA RebuildRelabels ==
  ASSUME IndexInv, rebuildIndexes
  PROVE  /\ Parted' /\ EmptyIndex'
         /\ NeverRelabelled' => UNCHANGED <<ccindex, component, index>>
<1>1. /\ component' = component /\ EmptyIndex'
      /\ dHash' = [c \in Ids |-> Null] /\ cell' = <<>> /\ versioningHash' = {}
  BY DEF rebuildIndexes, NewIndex, EmptyIndex
<1>2. Parted'
  BY <1>1 DEF IndexInv, Parted
<1>3. CASE EmptyIndex
  <2>1. ccindex' = [u \in Nodes |-> ccindex[u]]
    BY <1>3 DEF rebuildIndexes, EmptyIndex
  <2>2. ccindex' = ccindex
    BY <2>1 DEF IndexInv, IndexTypeOK
  <2> QED BY <1>1, <1>2, <1>3, <2>2 DEF EmptyIndex, index
<1>4. ASSUME NEW c \in Ids, NEW d \in Ids, c # d, dHash[c] # Null, dHash[c] = dHash[d]
      PROVE  ~NeverRelabelled'
  <2>1. Joined(Edges, component[c], component[Value(c)])
        /\ Joined(Edges, component[d], component[Value(d)])
    BY <1>4 DEF IndexInv, Pointed
  <2>2. PICK u \in component[c], v \in component[d] : TRUE
    BY <2>1 DEF Joined
  <2>3. u \in Nodes /\ v \in Nodes
    BY <2>2 DEF IndexInv, IndexTypeOK
  <2>4. {b \in Ids : dHash[b] # Null /\ u \in component[b]} = {c}
    BY <1>4, <2>2 DEF IndexInv, Parted
  <2>5. {b \in Ids : dHash[b] # Null /\ v \in component[b]} = {d}
    BY <1>4, <2>2 DEF IndexInv, Parted
  <2>6. ccindex'[u] = Value(c) /\ ccindex'[v] = Value(c)
    <3>1. ccindex'[u] = Value(CHOOSE b \in {c} : TRUE)
      BY <2>3, <2>4 DEF rebuildIndexes
    <3>2. ccindex'[v] = Value(CHOOSE b \in {d} : TRUE)
      BY <2>3, <2>5 DEF rebuildIndexes
    <3>3. Value(d) = Value(c)
      BY <1>4 DEF Value
    <3> QED BY <3>1, <3>2, <3>3
  <2>7. Value(c) \in Ids
    BY <1>4 DEF IndexInv, IndexTypeOK, Value, Null
  <2>8. ASSUME u \in component[Value(c)], v \in component[Value(c)] PROVE FALSE
    <3>1. Value(c) = c
      BY <2>2, <2>7, <2>8 DEF IndexInv, Parted
    <3>2. Value(c) = d
      BY <2>2, <2>7, <2>8 DEF IndexInv, Parted
    <3> QED BY <1>4, <3>1, <3>2
  <2> QED BY <1>1, <2>3, <2>6, <2>8 DEF NeverRelabelled
<1> QED BY <1>1, <1>2, <1>3, <1>4 DEF IndexInv, Paired

\* Every step of the index keeps the invariant.
LEMMA IndexInvStep ==
  ASSUME IndexInv, [IndexNext]_indexVars
  PROVE  IndexInv'
<1>1. IndexTypeOK' /\ Labelled' /\ Pointed'
  BY IndexTypeStep, LinkedStep DEF IndexInv
<1> SUFFICES Parted' /\ Paired' /\ MergesKept'
  BY <1>1 DEF IndexInv
<1>2. ASSUME NEW e \in Adds, NEW v \in Versions, AddToIndex(e[1], e[2], v)
      PROVE  Parted' /\ Paired' /\ MergesKept'
  <2>1. e[1] \in Nodes /\ e[2] \in Nodes /\ v \in Nat
    BY EdgesAssumption, VersionsAssumption
  <2> QED BY <1>2, <2>1, IndexInvAdd
<1>3. CASE UNCHANGED indexVars
  <2>1. Parted' /\ Paired'
    BY <1>3 DEF indexVars, index, IndexInv, Parted, Paired, EmptyIndex
  <2>2. MergesKept'
    BY <1>3 DEF indexVars, index, IndexInv, MergesKept, NeverRelabelled, SameId, Value, Edges
  <2> QED BY <2>1, <2>2
<1>4. CASE rebuildIndexes /\ UNCHANGED out
  <2>1. Parted' /\ Paired'
    BY <1>4, RebuildRelabels DEF Paired
  <2>2. ASSUME NeverRelabelled' PROVE UNCHANGED indexVars
    BY <1>4, <2>2, RebuildRelabels DEF indexVars
  <2>3. MergesKept'
    <3>1. CASE NeverRelabelled'
      BY <1>3, <2>2, <3>1
    <3>2. CASE ~NeverRelabelled'
      BY <3>2 DEF MergesKept
    <3> QED BY <3>1, <3>2
  <2> QED BY <2>1, <2>3
<1> QED BY <1>2, <1>3, <1>4 DEF IndexNext

\* Nodes that a path in the graph of a query's line leads between have one component in
\* an index that has kept every merge.
LEMMA PathsAreMerged ==
  ASSUME IndexInv, NeverRelabelled, Len(cell) <= 2, NEW G \in SUBSET Edges,
         NEW s \in Nodes, NEW f \in Nodes, ~SameId(ccindex[s], ccindex[f])
  PROVE  Dist(Nodes, G, s, f) = -1
<1> DEFINE C == {u \in Nodes : SameId(ccindex[s], ccindex[u])}
<1>1. s \in C /\ f \notin C
  BY DEF SameId
<1>2. ASSUME NEW e \in G, e[1] \in C PROVE e[2] \in C
  <2>1. e[2] \in Nodes
    BY DEF IndexInv, IndexTypeOK
  <2>2. SameId(ccindex[s], ccindex[e[1]]) /\ SameId(ccindex[e[1]], ccindex[e[2]])
    BY <1>2 DEF IndexInv, MergesKept
  <2> QED BY <2>1, <2>2 DEF SameId
<1>3. TakesAll(G, C)
  BY <1>2 DEF TakesAll
<1> HIDE DEF C
<1>4. Cardinality(Nodes) \in Nat
  BY IdsAreNat
<1>5. f \notin Forward(G, s)[Cardinality(Nodes)]
  BY ONLY <1>1, <1>3, <1>4, ForwardStays
<1> QED BY ONLY <1>5, NodesAssumption, DistNone

\* nodesInSameComponent finds that two components are one in the index unless it takes
\* them for joined later, whichever way round it looks.
LEMMA LookupFinds ==
  ASSUME IndexTypeOK, NEW s, NEW f, SameId(ccindex[s], ccindex[f]), NEW version \in Nat,
         ~ (/\ \E v \in Lookup(ccindex[s], ccindex[f]) : v > version
            /\ \E v \in Lookup(ccindex[f], ccindex[s]) : v > version),
         NEW i \in nodesInSameComponent(s, f, version)
  PROVE  i.same = TRUE
<1> DEFINE c == ccindex[s]
           d == ccindex[f]
           read == IF dHash[c] = Null \/ dHash[d] = Null
                   THEN [same |-> FALSE, used |-> FALSE]
                   ELSE [same |-> Value(c) = Value(d), used |-> TRUE]
           late == [same : {FALSE}, used : BOOLEAN]
           Found(v, w) == IF v <= version \/ w <= version THEN {read} ELSE late
           all == UNION {Found(v, w) : v \in Lookup(c, d), w \in Lookup(d, c)}
<1>1. nodesInSameComponent(s, f, version) =
        IF c = d THEN {[same |-> TRUE, used |-> FALSE]} ELSE all
  BY DEF nodesInSameComponent
<1>2. CASE c = d
  BY <1>2 DEF nodesInSameComponent
<1>3. CASE c # d
  <2>1. read.same = TRUE
    BY <1>3 DEF SameId
  <2> HIDE DEF c, d, read, Found, all
  <2>2. i \in all
    BY <1>1, <1>3
  <2>3. PICK v \in Lookup(c, d), w \in Lookup(d, c) : i \in Found(v, w)
    BY <2>2 DEF all
  <2>4. v \in Int /\ w \in Int
    BY DEF Lookup, Missing, IndexTypeOK
  <2>5. v <= version \/ w <= version
    BY <2>4 DEF c, d
  <2>6. i = read
    BY <2>3, <2>5 DEF Found
  <2> QED BY <2>1, <2>6
<1> QED BY <1>2, <1>3

\* As long as no merge is lost or found too late, a search answers exactly.
LEMMA SearchFinds ==
  ASSUME SnapshotInv, IndexInv, NeverRelabelled, Len(cell) <= 2,
         NEW p \in 1 .. Len(queries), NotJoinedLater(queries[p]),
         NEW a \in shortestLengthDynamicBBFS(queries[p])
  PROVE  a.length = Distance(queries[p])
<1> DEFINE q == queries[p]
           c == ccindex[q.nodeS]
           d == ccindex[q.nodeF]
<1>1. q \in QueryJobs /\ VisibleOut(q.versioning) = q.graph
  BY QueryTyped DEF SnapshotInv
<1>2. a.length \in {-1, Distance(q)}
  BY SearchExact
<1>3. CASE SameId(c, d)
  <2>1. CASE q.nodeS = q.nodeF
    BY <1>2, <2>1 DEF shortestLengthDynamicBBFS
  <2>2. CASE q.nodeS # q.nodeF
    <3>1. ASSUME NEW i \in nodesInSameComponent(q.nodeS, q.nodeF, q.versioning)
          PROVE  i.same = TRUE
      <4>1. q.nodeS \in Nodes /\ q.nodeF \in Nodes /\ q.versioning \in Nat
        BY <1>1 DEF QueryJobs
      <4>2. ~ (/\ \E v \in Lookup(c, d) : v > q.versioning
               /\ \E v \in Lookup(d, c) : v > q.versioning)
        BY DEF NotJoinedLater
      <4> HIDE DEF q
      <4> QED BY <1>3, <3>1, <4>1, <4>2, LookupFinds DEF IndexInv
    <3>2. PICK i \in nodesInSameComponent(q.nodeS, q.nodeF, q.versioning) :
            a = [length |-> IF i.same
                            THEN Dist(Nodes, VisibleOut(q.versioning), q.nodeS, q.nodeF)
                            ELSE -1,
                 used |-> i.used]
      BY <2>2 DEF shortestLengthDynamicBBFS
    <3> QED BY <1>1, <3>1, <3>2 DEF Distance
  <2> QED BY <2>1, <2>2
<1>4. CASE ~SameId(c, d)
  <2>1. q.nodeS \in Nodes /\ q.nodeF \in Nodes /\ q.graph \subseteq Edges
    BY <1>1 DEF QueryJobs, VisibleOut
  <2>2. Distance(q) = -1
    BY <1>4, <2>1, PathsAreMerged DEF Distance
  <2> QED BY <1>2, <2>2
<1> QED BY <1>3, <1>4

\* Every step keeps the answers exact as far as ExactUpToTwoCells says.
LEMMA ExactStep ==
  ASSUME AnswerInv, IndexInv, ExactSoFar, [Next]_vars
  PROVE  ExactSoFar'
<1> USE DEF lines
<1>1. CASE QueryLine \/ AddLine \/ PrintResults
  <2>1. phase' = "read"
    BY <1>1 DEF QueryLine, AddLine, PrintResults
  <2> QED BY <2>1 DEF ExactSoFar
<1>2. CASE FLine
  BY <1>2 DEF FLine, ExactSoFar
<1>3. CASE Answer
  <2>1. PICK p \in open :
          /\ \E a \in shortestLengthDynamicBBFS(queries[p]) :
               results' = [results EXCEPT ![p] = a.length]
          /\ open' = open \ {p}
    BY <1>3 DEF Answer
  <2>2. PICK a \in shortestLengthDynamicBBFS(queries[p]) :
          results' = [results EXCEPT ![p] = a.length]
    BY <2>1
  <2>3. /\ phase = "execute" /\ phase' = "execute" /\ queries' = queries
        /\ UNCHANGED indexVars
    BY <1>3 DEF Answer
  <2>4. /\ p \in 1 .. Len(queries)
        /\ results = [r \in 1 .. Len(queries) |-> results[r]]
    BY <2>1, <2>3 DEF AnswerInv, AnsweredSoFar
  <2>5. results' = [r \in 1 .. Len(queries) |-> IF r = p THEN a.length ELSE results[r]]
    BY <2>2, <2>4
  <2>6. UNCHANGED <<ccindex, component, dHash, cell, versioningHash>>
    BY <2>3 DEF indexVars, index
  <2>7. ASSUME NeverRelabelled, Len(cell) <= 2, NEW r \in 1 .. Len(queries),
               r \notin open', NotJoinedLater(queries[r])
        PROVE  results'[r] = Distance(queries[r])
    <3>1. CASE r = p
      BY <2>2, <2>5, <2>7, <3>1, SearchFinds DEF AnswerInv
    <3>2. CASE r # p
      BY <2>1, <2>3, <2>5, <2>7, <3>2 DEF ExactSoFar
    <3> QED BY <3>1, <3>2
  <2> QED BY <2>3, <2>6, <2>7 DEF ExactSoFar, NeverRelabelled, NotJoinedLater, Lookup, Distance
<1>4. CASE Metric
  <2>1. /\ phase = "execute" /\ phase' = "print" /\ open = {} /\ open' = {}
        /\ queries' = queries /\ results' = results
    BY <1>4 DEF Metric
  <2>2. ASSUME NeverRelabelled' PROVE UNCHANGED <<ccindex, component, index>>
    BY <1>4, <2>2, RebuildRelabels DEF Metric
  <2>3. ASSUME NeverRelabelled', (Len(cell) <= 2)', NEW p \in 1 .. Len(queries),
               NotJoinedLater(queries[p])'
        PROVE  results[p] = Distance(queries[p])
    <3>1. UNCHANGED <<ccindex, component, cell, versioningHash>>
      BY <2>2, <2>3 DEF index
    <3>2. NeverRelabelled /\ Len(cell) <= 2 /\ NotJoinedLater(queries[p])
      BY <2>1, <2>3, <3>1 DEF NeverRelabelled, NotJoinedLater, Lookup
    <3> QED BY <2>1, <3>2 DEF ExactSoFar
  <2> QED BY <2>1, <2>3 DEF ExactSoFar, Distance
<1>5. CASE UNCHANGED vars
  BY <1>5 DEF vars, indexVars, index, ExactSoFar, NeverRelabelled, NotJoinedLater, Lookup,
     Distance
<1> QED BY <1>1, <1>2, <1>3, <1>4, <1>5 DEF Next

\* For every graph and workload: as long as the index has had at most two cells and was
\* never folded into ccindex, a query whose components were not joined later in both
\* directions gets its distance, and -1 only where there is no path.
THEOREM AnswersExactUpToTwoCells == Spec => []ExactUpToTwoCells
<1> DEFINE I == AnswerInv /\ IndexInv /\ ExactSoFar
<1>1. Init => I
  <2>1. ASSUME Init PROVE AnswerInv /\ ExactSoFar
    BY <2>1, SnapshotInit DEF Init, AnswerInv, AnsweredSoFar, FoundIsExact, ExactSoFar
  <2> QED BY <2>1, IndexInvInit DEF Init
<1>2. I /\ [Next]_vars => I'
  <2> SUFFICES ASSUME I, [Next]_vars PROVE I'
    OBVIOUS
  <2>1. [IndexNext]_indexVars
    BY IndexStepOfLine DEF AnswerInv, SnapshotInv
  <2> QED BY <2>1, AnswerStep, IndexInvStep, ExactStep
<1>3. I => ExactUpToTwoCells
  BY DEF ExactSoFar, ExactUpToTwoCells
<1> QED BY <1>1, <1>2, <1>3, PTL DEF Spec

-----------------------------------------------------------------------------
(* The metric *)

\* Queries counted by queriesCount that have not been answered yet.
Unanswered == IF phase = "read" THEN Len(queries)
              ELSE IF phase = "execute" THEN Cardinality(open) ELSE 0

\* Each query uses the index at most once: the counts of the metric.
Counted ==
  /\ phase \in {"read", "execute", "print"}
  /\ queries \in Seq(QueryJobs)
  /\ IsFiniteSet(open)
  /\ timesUsedCounter \in Nat /\ queriesCount \in Nat
  /\ timesUsedCounter + Unanswered <= queriesCount

\* Every step keeps the counts.
LEMMA CountedStep ==
  ASSUME SnapshotInv, Counted, [Next]_vars
  PROVE  Counted'
<1> USE DEF lines, count
<1>1. queries' \in Seq(QueryJobs) /\ Len(queries) \in Nat
  BY SnapshotStep DEF Counted, SnapshotInv, QueriesBefore
<1>2. CASE QueryLine
  <2>1. Len(queries') = Len(queries) + 1
    BY <1>2 DEF QueryLine, Counted
  <2> QED BY <1>1, <1>2, <2>1 DEF QueryLine, Counted, Unanswered
<1>3. CASE AddLine
  BY <1>1, <1>3 DEF AddLine, Counted, Unanswered
<1>4. CASE FLine
  <2>1. IsFiniteSet(1 .. Len(queries)) /\ Cardinality(1 .. Len(queries)) = Len(queries)
    <3> DEFINE n == Len(queries)
    <3>1. n \in Int /\ 1 \in Int /\ n >= 0
      BY <1>1
    <3> HIDE DEF n
    <3>2. /\ IsFiniteSet(1 .. n)
          /\ Cardinality(1 .. n) = IF 1 > n THEN 0 ELSE n - 1 + 1
      BY ONLY <3>1, FS_Interval
    <3>3. Cardinality(1 .. n) = n
      BY <3>1, <3>2
    <3> QED BY <3>2, <3>3 DEF n
  <2> QED BY <1>1, <1>4, <2>1 DEF FLine, Counted, Unanswered
<1>5. CASE Answer
  <2>1. PICK p \in open :
          /\ \E a \in shortestLengthDynamicBBFS(queries[p]) :
               timesUsedCounter' = timesUsedCounter + IF a.used THEN 1 ELSE 0
          /\ open' = open \ {p}
    BY <1>5 DEF Answer
  <2>2. timesUsedCounter' \in {timesUsedCounter, timesUsedCounter + 1}
    BY <2>1 DEF Counted
  <2>3. IsFiniteSet(open') /\ Cardinality(open') = Cardinality(open) - 1
        /\ Cardinality(open) \in Nat
    BY <2>1, FS_RemoveElement, FS_CardinalityType DEF Counted
  <2> QED BY <1>1, <1>5, <2>2, <2>3 DEF Answer, Counted, Unanswered
<1>6. CASE Metric
  <2>1. Cardinality(open) \in Nat
    BY FS_CardinalityType DEF Counted
  <2> QED BY <1>1, <1>6, <2>1 DEF Metric, Counted, Unanswered
<1>7. CASE PrintResults
  BY <1>1, <1>7 DEF PrintResults, Counted, Unanswered
<1>8. CASE UNCHANGED vars
  BY <1>1, <1>8 DEF vars, Counted, Unanswered
<1> QED BY <1>2, <1>3, <1>4, <1>5, <1>6, <1>7, <1>8 DEF Next

\* With a METRIC_VAL above 1 an index that some query has used since the last
\* rebuild is never folded into ccindex, whatever the workload: the metric would
\* need more uses than there were queries.
THEOREM UsedIndexIsKept ==
  ASSUME MetricVal > 1
  PROVE  Spec => UsedIndexKept
<1>1. Init => SnapshotInv /\ Counted
  <2>1. ASSUME Init PROVE Counted
    BY <2>1, FS_EmptySet DEF Init, Counted, Unanswered
  <2> QED BY <2>1, SnapshotInit
<1>2. SnapshotInv /\ Counted /\ [Next]_vars => SnapshotInv' /\ Counted'
  BY SnapshotStep, CountedStep
<1>3. ASSUME Counted, [Next]_vars, ccindex' # ccindex
      PROVE  queriesCount = 0 /\ timesUsedCounter = 0
  <2>1. Metric /\ estimateMetric
    BY <1>3 DEF Next, QueryLine, AddLine, FLine, Answer, Metric, PrintResults, vars,
       indexVars
  <2>2. Cardinality(open) = 0 /\ phase = "execute"
    BY <2>1, FS_EmptySet DEF Metric
  <2>3. /\ timesUsedCounter \in Nat /\ queriesCount \in Nat
        /\ timesUsedCounter <= queriesCount
    BY <1>3, <2>2 DEF Counted, Unanswered
  <2>4. MetricVal \in Nat /\ timesUsedCounter >= MetricVal * queriesCount
    BY <2>1, LimitsAssumption DEF estimateMetric
  <2>5. MetricVal * queriesCount = queriesCount + (MetricVal - 1) * queriesCount
    BY <2>3, <2>4
  <2>6. queriesCount # 0 => (MetricVal - 1) * queriesCount >= 1
    BY <2>3, <2>4
  <2> QED BY <2>3, <2>4, <2>5, <2>6
<1> QED BY <1>1, <1>2, <1>3, PTL DEF Spec, UsedIndexKept
=============================================================================
