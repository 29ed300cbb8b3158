----------------------------- MODULE UpdateIndex -----------------------------
(***************************************************************************)
(* The weakly connected components of the loaded graph and the update      *)
(* index that follows their merging as edges are added                     *)
(* (Src/Components/weaklyConnectedConponens.c).                            *)
(*                                                                         *)
(* ccindex gives each node the id of its component.  When an edge joins    *)
(* two components, the keys of both in dHash come to point to a heap cell  *)
(* that holds a component id; equal ids mean "merged".  Cells are shared   *)
(* by pointer, so dHash maps a component to the number of its cell and     *)
(* cell maps that number to the id in it.  versioningHash keeps, per       *)
(* ordered pair of components, the version at which an edge joined them.   *)
(*                                                                         *)
(* The pair's string key is hashed by hashFunction3, whose accumulator     *)
(* hval is a global that is never reset: the bucket a key falls in differs *)
(* from call to call, and a lookup can miss an entry that is there.        *)
(***************************************************************************)
EXTENDS Paths, Sequences

CONSTANTS
  Nodes,      \* the nodes, 0 .. biggestNode of the loaded graph
  InitEdges,  \* the edges of the loaded graph
  Adds,       \* bound: the edges that A lines add
  Versions    \* bound: the versions of A lines

ASSUME NodesAssumption == IsFiniteSet(Nodes) /\ Nodes \subseteq Nat
ASSUME EdgesAssumption == InitEdges \subseteq Nodes \X Nodes /\ Adds \subseteq Nodes \X Nodes
ASSUME VersionsAssumption == Versions \subseteq Nat

VARIABLES
  out,           \* the outgoing lists: each edge with its edgeProperty
  ccindex,       \* cc->ccindex, the component of each node
  component,     \* cc->component, the nodes each component was made of
  dHash,         \* the cell each component points to, or Null
  cell,          \* the values in the cells
  versioningHash \* pairs of components with the version that joined them

index     == <<dHash, cell, versioningHash>>
indexVars == <<out, ccindex, component, index>>

-----------------------------------------------------------------------------
Null    == 0
Missing == -1   \* what getEntryStringKey returns when it finds nothing
OUTGOING_EDGE == 1

Ids   == 1 .. Cardinality(Nodes)
Edges == DOMAIN out

\* The id the index gives component c: *getEntry(dHash, c).
Value(c) == cell[dHash[c]]

\* destroyUpdateIndex and initUpdateIndex.
NewIndex ==
  /\ dHash' = [c \in Ids |-> Null]
  /\ cell' = <<>>
  /\ versioningHash' = {}

\* What estimateConnectedComponets leaves (WeakComponents), with an empty index.
IndexInit ==
  /\ out = [e \in InitEdges |-> OUTGOING_EDGE]
  /\ ccindex \in {number \in [Nodes -> Ids] : NumberedByLeast(Nodes, InitEdges, number)}
  /\ component = [c \in Ids |-> {u \in Nodes : ccindex[u] = c}]
  /\ dHash = [c \in Ids |-> Null]
  /\ cell = <<>>
  /\ versioningHash = {}

-----------------------------------------------------------------------------
\* getEntryStringKey(versioningHash, "c-d"): an entry of that key, or a miss.
Lookup(c, d) ==
  {Missing} \cup {v \in {e[3] : e \in versioningHash} : <<c, d, v>> \in versioningHash}

findMinComp(c, d) == IF c < d THEN c ELSE d

\* Record the version, unless the lookup finds one.
AddVersion(c, d, version) ==
  \E found \in Lookup(c, d) :
    versioningHash' = IF found = Missing
                      THEN versioningHash \cup {<<c, d, version>>}
                      ELSE versioningHash

\* Neither component has an entry: both get one to a new cell.
NewCell(c, d) ==
  /\ dHash[c] = Null /\ dHash[d] = Null
  /\ cell' = Append(cell, findMinComp(c, d))
  /\ dHash' = [dHash EXCEPT ![c] = Len(cell) + 1, ![d] = Len(cell) + 1]

\* Mutant of JoinCell: c's entry points to a cell of c's own id.
JoinOwnCell(c, d) ==
  /\ dHash[c] = Null /\ dHash[d] # Null
  /\ dHash' = [dHash EXCEPT ![c] = Len(cell) + 1]
  /\ cell' = Append(cell, c)

\* c has none: it gets one to d's cell.
JoinCell(c, d) ==
  /\ dHash[c] = Null /\ dHash[d] # Null
  /\ dHash' = [dHash EXCEPT ![c] = dHash[d]]
  /\ UNCHANGED cell

\* Both have one: the lesser of the two values goes into both cells.
EqualCells(c, d) ==
  /\ dHash[c] # Null /\ dHash[d] # Null
  /\ LET least == findMinComp(Value(c), Value(d))
     IN cell' = [cell EXCEPT ![dHash[c]] = least, ![dHash[d]] = least]
  /\ UNCHANGED dHash

\* Join the components of s and f in the index, if they are two.
insertNewEdge(s, f, version) ==
  LET c == ccindex[s]
      d == ccindex[f]
  IN IF c = d THEN UNCHANGED index
     ELSE /\ AddVersion(c, d, version)
          /\ NewCell(c, d) \/ JoinCell(c, d) \/ JoinCell(d, c) \/ EqualCells(c, d)

\* What nodesInSameComponent may return, and leave in *updateIndexUsed, for a
\* query of the given version.  Where it does not store the flag the caller
\* finds what malloc left there.
nodesInSameComponent(s, f, version) ==
  LET c == ccindex[s]
      d == ccindex[f]
      read == IF dHash[c] = Null \/ dHash[d] = Null
              THEN [same |-> FALSE, used |-> FALSE]
              ELSE [same |-> Value(c) = Value(d), used |-> TRUE]
  IN IF c = d THEN {[same |-> TRUE, used |-> FALSE]}
     ELSE UNION {IF v <= version \/ w <= version
                 THEN {read}
                 ELSE [same : {FALSE}, used : BOOLEAN] :
                   v \in Lookup(c, d), w \in Lookup(d, c)}

\* Mutant of rebuildIndexes: component[key] is read where component[key-1] is.
rebuildNextComponent ==
  /\ ccindex' = [u \in Nodes |->
                   LET rows == {c \in Ids : dHash[c] # Null /\ c + 1 \in Ids
                                            /\ u \in component[c + 1]}
                   IN IF rows = {} THEN ccindex[u] ELSE Value(CHOOSE c \in rows : TRUE)]
  /\ UNCHANGED component
  /\ NewIndex

\* The nodes a component was made of take the id in its cell; then the index
\* starts again.
rebuildIndexes ==
  /\ ccindex' = [u \in Nodes |->
                   LET own == {c \in Ids : dHash[c] # Null /\ u \in component[c]}
                   IN IF own = {} THEN ccindex[u] ELSE Value(CHOOSE c \in own : TRUE)]
  /\ UNCHANGED component
  /\ NewIndex

-----------------------------------------------------------------------------
\* insertNeighbors on the outgoing graph: a neighbour already there keeps its
\* old edgeProperty.
InsertOutgoing(s, f, version) ==
  out' = IF <<s, f>> \in Edges THEN out
         ELSE [e \in Edges \cup {<<s, f>>} |-> IF e \in Edges THEN out[e] ELSE version]

\* The part of an A line that the index sees.
AddToIndex(s, f, version) ==
  /\ InsertOutgoing(s, f, version)
  /\ insertNewEdge(s, f, version)
  /\ UNCHANGED <<ccindex, component>>

IndexNext ==
  \/ \E e \in Adds, v \in Versions : AddToIndex(e[1], e[2], v)
  \/ rebuildIndexes /\ UNCHANGED out

IndexSpec == IndexInit /\ [][IndexNext]_indexVars

-----------------------------------------------------------------------------
(* Properties *)

\* Every variable keeps to the values its C type and its use allow.
IndexTypeOK ==
  /\ Edges \subseteq Nodes \X Nodes /\ \A e \in Edges : out[e] \in Nat
  /\ ccindex \in [Nodes -> Ids]
  /\ component \in [Ids -> SUBSET Nodes]
  /\ cell \in Seq(Ids)
  /\ dHash \in [Ids -> 0 .. Len(cell)]
  /\ versioningHash \subseteq Ids \X Ids \X Nat

\* The index, asked without regard to versions, takes u and v for one component.
Merged(u, v) ==
  LET c == ccindex[u]
      d == ccindex[v]
  IN c = d \/ (dHash[c] # Null /\ dHash[d] # Null /\ Value(c) = Value(d))

\* Through any sequence of merges and rebuilds, nodes that the index takes for
\* one component are weakly connected in the graph (insertNewEdge,
\* nodesInSameComponent, rebuildIndexes).
NoFalseMerge == \A u, v \in Nodes : Merged(u, v) => Linked(Nodes, Edges, u, v)

\* Two sets of nodes that edges link to each other.
Joined(E, A, B) == /\ A # {} /\ B # {}
                   /\ \A a \in A, b \in B : Linked(Nodes, E, a, b)

\* What makes NoFalseMerge inductive: a node is linked to all the nodes its
\* component was made of (rebuildIndexes leaves cc->component as it was),
Labelled == \A u \in Nodes : Joined(Edges, {u}, component[ccindex[u]])

\* and these, for a component in the index, to all the nodes of the component
\* that its cell names (insertNewEdge).
Pointed  == \A c \in Ids :
              dHash[c] # Null => Joined(Edges, component[c], component[Value(c)])

\* Documentation.pdf p.4: "When merging occurs the new component always takes
\* the id of the lesser of the two component ids": no component has a lesser id
\* than the one its cell holds.
LesserId == \A c \in Ids : dHash[c] # Null => Value(c) <= c

\* weaklyConnectedConponens.c:217: "If two components have been merged the
\* version stays the same the old one": one version per pair.
OldVersionStays ==
  \A e, g \in versioningHash : e[1] = g[1] /\ e[2] = g[2] => e = g
=============================================================================
