--------------------------- MODULE NeighborStore ---------------------------
(***************************************************************************)
(* The storage of a graph: list nodes in one growing buffer per side       *)
(* (Src/Graph/buffer.c), the offsets of each node's first and last list    *)
(* node (Src/Indexes/nodeIndex.c), and insertNeighbors (Src/Graph/graph.c) *)
(* step by step.                                                           *)
(*                                                                         *)
(* resizeBuffer moves the buffer, so a pointer into it is a pair: which of *)
(* the buffers allocated so far, and the offset in it.  The hash table of  *)
(* a node is the map that ExtendibleHash implements.  Versions             *)
(* (edgeProperty) are left to DynamicWorkload.                             *)
(***************************************************************************)
EXTENDS Integers, Sequences, Functions

CONSTANTS
  Nodes,                \* the node ids
  NEIGHBOR_SIZE_ARRAY,  \* neighbours in a list node
  NodeBytes,            \* sizeof(list_node)
  METADATA_SIZE,        \* bytes before the first list node
  STARTBUFFERSIZE,      \* bytes of the first buffer
  INDEX_START_SIZE      \* entries of the first index table

ASSUME NodesAssumption == Nodes \subseteq Nat

\* With 6 neighbours a list node takes 64 bytes, behind 32 bytes of metadata,
\* in a buffer of 100 bytes that doubles.
ASSUME SizesAssumption ==
  /\ NEIGHBOR_SIZE_ARRAY \in Nat \ {0} /\ INDEX_START_SIZE \in Nat
  /\ NodeBytes \in Nat \ {0} /\ NodeBytes % 16 = 0
  /\ METADATA_SIZE \in Nat /\ METADATA_SIZE % 16 = 0
  /\ STARTBUFFERSIZE \in Nat /\ STARTBUFFERSIZE % 16 = 4
  /\ METADATA_SIZE <= STARTBUFFERSIZE

VARIABLES
  buffer,       \* of each side, the buffer: which one it is, its bytes, its fill indicator
  node,         \* of each side, the list nodes by their offset
  index,        \* of each side, the index table: its size, and offsets of head and tail
  hash,         \* of each node, the hash table of its outgoing list: neighbour to offset
  biggestNode,  \* of each side, the biggest node that has a list
  step,         \* where insertNeighbors is
  part,         \* newNeighborTable: side, node, and the neighbours still to be inserted
  listNode      \* the pointer of that name in insertNeighbors

storeVars == <<buffer, node, index, hash, biggestNode, step, part, listNode>>

Side == {"out", "in"}

Pointer(b, o) == [base |-> b, off |-> o]
NULL == Pointer(-1, -1)

NoPart == [side |-> "out", node |-> 0, new |-> <<>>]
NewListNode == [neighbor |-> <<>>, next |-> NULL]
NoEntries == [v \in {} |-> -1]

\* f with the value x at o.
Put(f, o, x) == [p \in DOMAIN f \cup {o} |-> IF p = o THEN x ELSE f[p]]

StoreInit ==
  /\ buffer = [s \in Side |-> [base |-> 0, size |-> STARTBUFFERSIZE, fill |-> METADATA_SIZE]]
  /\ node = [s \in Side |-> [o \in {} |-> NewListNode]]
  /\ index = [s \in Side |-> [size |-> INDEX_START_SIZE,
                              head |-> [u \in Nodes |-> -1], tail |-> [u \in Nodes |-> -1]]]
  /\ hash = [u \in Nodes |-> NoEntries]
  /\ biggestNode = [s \in Side |-> -1]
  /\ step = "idle" /\ part = NoPart /\ listNode = NULL

-----------------------------------------------------------------------------
(* buffer.c, nodeIndex.c *)

\* Mutant of testBufferCapacity: insertionSize is left out.
testFillOnly(s) == buffer[s].fill - 5 <= buffer[s].size

testBufferCapacity(s) == buffer[s].fill - 5 + NodeBytes <= buffer[s].size

\* Mutant of Relocated: the links keep pointing into the buffer that is freed.
NotRelocated(next, b) == next

Relocated(next, b) == IF next.base = b THEN Pointer(b + 1, next.off) ELSE next

\* Twice the bytes, in a new buffer; every link of a list node goes with it.
resizeBuffer(s) ==
  /\ buffer' = [buffer EXCEPT ![s] =
                  [base |-> buffer[s].base + 1, size |-> 2 * buffer[s].size,
                   fill |-> buffer[s].fill]]
  /\ node' = [node EXCEPT ![s] = [o \in DOMAIN node[s] |->
                [node[s][o] EXCEPT !.next = Relocated(@, buffer[s].base)]]]

\* The table is enlarged to a tenth more than the node asks for.
check_resize(s, u) ==
  IF u < index[s].size THEN index[s].size ELSE u + 1 + (u * 10) \div 100

ListTail(s, u) == Pointer(buffer[s].base, index[s].tail[u])

-----------------------------------------------------------------------------
(* insertNeighbors *)

insertNeighbors(s, u, new) ==
  /\ step = "idle"
  /\ step' = "connect"
  /\ part' = [side |-> s, node |-> u, new |-> new]
  /\ biggestNode' = [biggestNode EXCEPT ![s] = IF @ < u THEN u ELSE @]
  /\ index' = [index EXCEPT ![s].size = check_resize(s, u)]
  /\ UNCHANGED <<buffer, node, hash, listNode>>

side == part.side
owner == part.node

\* The getEntry of line 266 finds the next neighbour in the owner's table.
Double == side = "out" /\ Head(part.new) \in DOMAIN hash[owner]

Full == Len(node[side][listNode.off].neighbor) = NEIGHBOR_SIZE_ARRAY

Inserting == step = "insert" /\ part.new # <<>>

\* A list node is to be allocated, by connectIndexBuffer or for a further neighbour.
NodeNeeded ==
  \/ step = "connect" /\ index[side].head[owner] = -1
  \/ Inserting /\ ~Double /\ Full

\* Mutant of Grow: the pointer is kept over the resize.
GrowKeepsPointer ==
  /\ NodeNeeded /\ ~testBufferCapacity(side)
  /\ resizeBuffer(side)
  /\ UNCHANGED <<index, hash, biggestNode, step, part, listNode>>

Grow ==
  /\ NodeNeeded /\ ~testBufferCapacity(side)
  /\ resizeBuffer(side)
  /\ listNode' = IF step = "insert"
                 THEN Pointer(buffer[side].base + 1, index[side].tail[owner])
                 ELSE listNode
  /\ UNCHANGED <<index, hash, biggestNode, step, part>>

\* The owner's entry: a new list node behind the last one, or the one it has.
connectIndexBuffer ==
  /\ step = "connect"
  /\ step' = "insert"
  /\ \/ /\ index[side].head[owner] # -1
        /\ listNode' = ListTail(side, owner)
        /\ UNCHANGED <<buffer, node, index, hash>>
     \/ /\ index[side].head[owner] = -1
        /\ testBufferCapacity(side)
        /\ LET o == buffer[side].fill IN
             /\ index' = [index EXCEPT ![side].head[owner] = o, ![side].tail[owner] = o]
             /\ node' = [node EXCEPT ![side] = Put(@, o, NewListNode)]
             /\ buffer' = [buffer EXCEPT ![side].fill = o + NodeBytes]
             /\ listNode' = Pointer(buffer[side].base, o)
        /\ hash' = IF side = "out" THEN [hash EXCEPT ![owner] = NoEntries] ELSE hash
  /\ UNCHANGED <<biggestNode, part>>

\* What a store through a pointer leaves: nothing in the buffer that is in use, if
\* the pointer leads into one that was freed.
Stored(p, list) ==
  IF p.base = buffer[side].base THEN [node[side] EXCEPT ![p.off] = list] ELSE node[side]

NextDone == part' = [part EXCEPT !.new = Tail(@)]

SkipDouble ==
  /\ Inserting /\ Double
  /\ NextDone
  /\ UNCHANGED <<buffer, node, index, hash, biggestNode, step, listNode>>

\* Mutant of AddListNode: the table's tail stays at the list node that is full.
AddKeepsTail ==
  /\ Inserting /\ ~Double /\ Full /\ testBufferCapacity(side)
  /\ LET o == buffer[side].fill
         new == Pointer(buffer[side].base, o) IN
       /\ node' = [node EXCEPT ![side] =
            Put(Stored(listNode, [node[side][listNode.off] EXCEPT !.next = new]),
                o, NewListNode)]
       /\ buffer' = [buffer EXCEPT ![side].fill = o + NodeBytes]
       /\ listNode' = new
  /\ UNCHANGED <<index, hash, biggestNode, step, part>>

\* The full list node is linked to a new one, which becomes the owner's last.
AddListNode ==
  /\ Inserting /\ ~Double /\ Full /\ testBufferCapacity(side)
  /\ LET o == buffer[side].fill
         new == Pointer(buffer[side].base, o) IN
       /\ node' = [node EXCEPT ![side] =
            Put(Stored(listNode, [node[side][listNode.off] EXCEPT !.next = new]),
                o, NewListNode)]
       /\ buffer' = [buffer EXCEPT ![side].fill = o + NodeBytes]
       /\ listNode' = new
       /\ index' = [index EXCEPT ![side].tail[owner] = o]
  /\ UNCHANGED <<hash, biggestNode, step, part>>

\* Mutant of Entry: the offset of the list's first node.
EntryOfHead == index[side].head[owner]

\* The value in the hash table: the offset of the list node that takes it.
Entry == listNode.off

StoreNeighbor ==
  /\ Inserting /\ ~Double /\ ~Full
  /\ LET v == Head(part.new) IN
       /\ node' = [node EXCEPT ![side] =
            Stored(listNode, [node[side][listNode.off] EXCEPT !.neighbor = Append(@, v)])]
       /\ hash' = IF side = "out" THEN [hash EXCEPT ![owner] = Put(@, v, Entry)] ELSE hash
  /\ NextDone
  /\ UNCHANGED <<buffer, index, biggestNode, step, listNode>>

Return ==
  /\ step = "insert" /\ part.new = <<>>
  /\ step' = "idle" /\ part' = NoPart /\ listNode' = NULL
  /\ UNCHANGED <<buffer, node, index, hash, biggestNode>>

StoreStep ==
  Grow \/ connectIndexBuffer \/ SkipDouble \/ AddListNode \/ StoreNeighbor \/ Return

StoreNext ==
  \/ \E s \in Side, u \in Nodes, new \in Seq(Nodes) : insertNeighbors(s, u, new)
  \/ StoreStep

StoreSpec == StoreInit /\ [][StoreNext]_storeVars

-----------------------------------------------------------------------------
(* How the list of a node is read: getListHead, fillFactor, nextListNode *)

\* From the list node at an offset on.  A link that leads nowhere, or into a
\* buffer that was freed, ends the list.
ListFrom(s) ==
  LET from[o \in DOMAIN node[s]] ==
        node[s][o].neighbor \o
          (IF node[s][o].next.base = buffer[s].base THEN from[node[s][o].next.off] ELSE <<>>)
  IN from

List(s, u) == IF index[s].head[u] = -1 THEN <<>> ELSE ListFrom(s)[index[s].head[u]]

-----------------------------------------------------------------------------
(* Properties *)

\* Every list node lies behind the metadata and within the bytes of its buffer,
\* although testBufferCapacity lets five bytes pass.
NodesInBuffer ==
  \A s \in Side : \A o \in DOMAIN node[s] :
    METADATA_SIZE <= o /\ o + NodeBytes <= buffer[s].size

\* No pointer outlives a resize: every link leads to a list node of the buffer in
\* use, further on, and insertNeighbors holds the owner's last list node.
LinksCurrent ==
  /\ \A s \in Side : \A o \in DOMAIN node[s] :
       node[s][o].next # NULL =>
         /\ node[s][o].next.base = buffer[s].base
         /\ node[s][o].next.off \in DOMAIN node[s] /\ o < node[s][o].next.off
  /\ step = "insert" => listNode = ListTail(side, owner) /\ listNode.off \in DOMAIN node[side]

\* getNextNeighbor goes on from the list node that the hash table names: it must
\* be the one that holds the neighbour, and each outgoing neighbour must be there.
HashFindsHolder ==
  \A u \in Nodes :
    /\ DOMAIN hash[u] = Range(List("out", u))
    /\ \A v \in DOMAIN hash[u] : v \in Range(node["out"][hash[u][v]].neighbor)

\* The lists in the buffers are the abstract lists.
Abstract == INSTANCE EdgeLists WITH
  lists <- [s \in Side |-> [u \in Nodes |-> List(s, u)]]
ImplementsEdgeLists == Abstract!EdgeSpec
=============================================================================
