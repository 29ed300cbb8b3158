-------------------------- MODULE GraphLoadProofs --------------------------
(***************************************************************************)
(* Theorems about NeighborStore.tla and GraphLoad.tla: what the buffers    *)
(* hold, for every graph file, whatever the sizes.                         *)
(***************************************************************************)
EXTENDS GraphLoad, PathsProofs, SequenceTheorems

ListNodes == [neighbor : Seq(Nodes), next : [base : Int, off : Int]]

StoreTypes ==
  /\ buffer \in [Side -> [base : Nat, size : Nat, fill : Nat]]
  /\ node = [s \in Side |-> node[s]]
  /\ \A s \in Side : DOMAIN node[s] \subseteq Nat /\ node[s] \in [DOMAIN node[s] -> ListNodes]
  /\ index \in [Side -> [size : Nat, head : [Nodes -> Int], tail : [Nodes -> Int]]]
  /\ step \in {"idle", "connect", "insert"}
  /\ part \in [side : Side, node : Nat, new : Seq(Nodes)]
  /\ step # "idle" => part.node \in Nodes
  /\ listNode \in [base : Int, off : Int]

\* The fill indicator steps by 16, and the size starts at 4 modulo 16 and doubles.
BufferFit ==
  \A s \in Side :
    /\ METADATA_SIZE <= buffer[s].fill /\ buffer[s].fill <= buffer[s].size
    /\ buffer[s].fill % 16 = 0 /\ buffer[s].size % 16 \in {0, 4, 8}

NodesBelowFill ==
  \A s \in Side : \A o \in DOMAIN node[s] :
    METADATA_SIZE <= o /\ o + NodeBytes <= buffer[s].fill

LinksInBuffer ==
  \A s \in Side : \A o \in DOMAIN node[s] :
    node[s][o].next # NULL =>
      /\ node[s][o].next.base = buffer[s].base
      /\ node[s][o].next.off \in DOMAIN node[s] /\ o < node[s][o].next.off

TailsInBuffer ==
  \A s \in Side : \A u \in Nodes :
    index[s].head[u] # -1 => index[s].tail[u] \in DOMAIN node[s]

HeldIsLast ==
  step = "insert" =>
    index[side].head[owner] # -1 /\ listNode = ListTail(side, owner)

\* Inductive for every sequence of calls of insertNeighbors.
StoreInv ==
  StoreTypes /\ BufferFit /\ NodesBelowFill /\ LinksInBuffer /\ TailsInBuffer /\ HeldIsLast

-----------------------------------------------------------------------------
(* Arithmetic of the sizes *)

LEMMA Doubled ==
  ASSUME NEW x \in Nat, x % 16 \in {0, 4, 8}
  PROVE  (2 * x) % 16 \in {0, 4, 8}
  BY SMT

\* testBufferCapacity lets five bytes pass; no buffer that occurs is so short.
LEMMA RoomForNode ==
  ASSUME NEW f \in Nat, NEW z \in Nat, f % 16 = 0, z % 16 \in {0, 4, 8},
         f - 5 + NodeBytes <= z
  PROVE  /\ f + NodeBytes <= z
         /\ (f + NodeBytes) % 16 = 0
  BY SizesAssumption, SMT

LEMMA StoreInvInit == StoreInit => StoreInv
<1> SUFFICES ASSUME StoreInit PROVE StoreInv
  OBVIOUS
<1> USE SizesAssumption DEF StoreInit, NewListNode, NULL, NoPart, Pointer, Side
<1>1. StoreTypes
  BY DEF StoreTypes
<1>2. BufferFit
  BY DEF BufferFit
<1>3. NodesBelowFill /\ LinksInBuffer /\ TailsInBuffer /\ HeldIsLast
  BY DEF NodesBelowFill, LinksInBuffer, TailsInBuffer, HeldIsLast
<1> QED BY <1>1, <1>2, <1>3 DEF StoreInv

LEMMA CallKeeps ==
  ASSUME StoreInv, NEW s \in Side, NEW u \in Nodes, NEW new \in Seq(Nodes),
         insertNeighbors(s, u, new)
  PROVE  StoreInv'
<1> USE NodesAssumption DEF StoreInv, insertNeighbors
<1>1. check_resize(s, u) \in Nat
  <2>1. u \in Nat /\ index[s].size \in Nat
    BY DEF StoreTypes
  <2>2. (u * 10) \div 100 \in Nat
    BY ONLY <2>1, SMT
  <2> QED BY <2>1, <2>2 DEF check_resize
<1>2. StoreTypes'
  BY <1>1 DEF StoreTypes
<1>3. BufferFit' /\ NodesBelowFill' /\ LinksInBuffer'
  BY DEF BufferFit, NodesBelowFill, LinksInBuffer
<1>4. \A t \in Side : index'[t].head = index[t].head /\ index'[t].tail = index[t].tail
  BY DEF StoreTypes
<1>5. TailsInBuffer' /\ HeldIsLast'
  BY <1>4 DEF TailsInBuffer, HeldIsLast
<1> QED BY <1>2, <1>3, <1>5

\* The buffer that grows takes every link along.
LEMMA GrowEffect ==
  ASSUME StoreInv, Grow
  PROVE  /\ side \in Side
         /\ buffer' \in [Side -> [base : Nat, size : Nat, fill : Nat]]
         /\ buffer'[side].base = buffer[side].base + 1
         /\ buffer'[side].size = 2 * buffer[side].size
         /\ buffer'[side].fill = buffer[side].fill
         /\ \A t \in Side \ {side} : buffer'[t] = buffer[t]
         /\ DOMAIN node'[side] = DOMAIN node[side]
         /\ \A t \in Side \ {side} : node'[t] = node[t]
         /\ node' = [t \in Side |-> node'[t]]
         /\ \A o \in DOMAIN node[side] :
              /\ node'[side][o] \in ListNodes
              /\ node'[side][o].neighbor = node[side][o].neighbor
              /\ node'[side][o].next = Relocated(node[side][o].next, buffer[side].base)
<1> USE DEF StoreInv, Grow, resizeBuffer
<1>1. part.side \in Side
  BY DEF StoreTypes
<1>2. /\ buffer' \in [Side -> [base : Nat, size : Nat, fill : Nat]]
      /\ buffer'[side].base = buffer[side].base + 1
      /\ buffer'[side].size = 2 * buffer[side].size
      /\ buffer'[side].fill = buffer[side].fill
      /\ \A t \in Side \ {side} : buffer'[t] = buffer[t]
  <2>1. buffer \in [Side -> [base : Nat, size : Nat, fill : Nat]] /\ side \in Side
    BY <1>1 DEF StoreTypes, side
  <2>2. buffer' = [buffer EXCEPT ![side] =
          [base |-> buffer[side].base + 1, size |-> 2 * buffer[side].size,
           fill |-> buffer[side].fill]]
    OBVIOUS
  <2> QED BY ONLY <2>1, <2>2
<1>3. /\ DOMAIN node'[side] = DOMAIN node[side]
      /\ \A t \in Side \ {side} : node'[t] = node[t]
      /\ node' = [t \in Side |-> node'[t]]
  BY <1>1 DEF StoreTypes, side
<1>4. ASSUME NEW o \in DOMAIN node[side]
      PROVE  /\ node'[side][o] \in ListNodes
             /\ node'[side][o].neighbor = node[side][o].neighbor
             /\ node'[side][o].next = Relocated(node[side][o].next, buffer[side].base)
  <2>1. node[side][o] \in ListNodes
    BY <1>1, <1>4 DEF StoreTypes, side
  <2>2. node'[side][o] = [node[side][o] EXCEPT !.next =
                            Relocated(node[side][o].next, buffer[side].base)]
    BY <1>1, <1>4 DEF StoreTypes, side
  <2>3. Relocated(node[side][o].next, buffer[side].base) \in [base : Int, off : Int]
    BY <1>1, <2>1 DEF StoreTypes, side, Relocated, Pointer, ListNodes
  <2> QED BY <2>1, <2>2, <2>3 DEF ListNodes
<1>5. side = part.side
  BY DEF side
<1> QED BY ONLY <1>1, <1>2, <1>3, <1>4, <1>5

LEMMA GrowKeeps == ASSUME StoreInv, Grow PROVE StoreInv'
<1> USE DEF StoreInv, Grow, resizeBuffer
<1>1. part.side \in Side
  BY DEF StoreTypes
<1>2. /\ buffer' \in [Side -> [base : Nat, size : Nat, fill : Nat]]
      /\ buffer'[side].base = buffer[side].base + 1
      /\ buffer'[side].size = 2 * buffer[side].size
      /\ buffer'[side].fill = buffer[side].fill
      /\ \A t \in Side \ {side} : buffer'[t] = buffer[t]
  BY GrowEffect
<1>3. /\ DOMAIN node'[side] = DOMAIN node[side]
      /\ \A t \in Side \ {side} : node'[t] = node[t]
      /\ node' = [t \in Side |-> node'[t]]
  BY GrowEffect
<1>4. ASSUME NEW o \in DOMAIN node[side]
      PROVE  /\ node'[side][o] \in ListNodes
             /\ node'[side][o].next = Relocated(node[side][o].next, buffer[side].base)
  BY GrowEffect
<1>5. listNode' \in [base : Int, off : Int]
  <2>1. CASE step = "insert"
    BY <2>1, <1>1 DEF StoreTypes, Pointer, side, owner
  <2> QED BY <2>1 DEF StoreTypes
<1>6. StoreTypes'
  <2>1. \A t \in Side : DOMAIN node'[t] \subseteq Nat /\ node'[t] \in [DOMAIN node'[t] -> ListNodes]
    <3>1. node'[side] = [o \in DOMAIN node'[side] |-> node'[side][o]]
      BY <1>1 DEF StoreTypes, side
    <3>2. /\ DOMAIN node[side] \subseteq Nat
          /\ \A t \in Side : DOMAIN node[t] \subseteq Nat /\ node[t] \in [DOMAIN node[t] -> ListNodes]
      BY <1>1 DEF StoreTypes, side
    <3>3. node'[side] \in [DOMAIN node'[side] -> ListNodes]
      BY ONLY <3>1, <1>3, <1>4
    <3> QED BY ONLY <3>2, <3>3, <1>3
  <2>2. /\ index \in [Side -> [size : Nat, head : [Nodes -> Int], tail : [Nodes -> Int]]]
        /\ step \in {"idle", "connect", "insert"}
        /\ part \in [side : Side, node : Nat, new : Seq(Nodes)]
        /\ step # "idle" => part.node \in Nodes
        /\ UNCHANGED <<index, step, part>>
    BY DEF StoreTypes
  <2> QED BY ONLY <1>2, <1>3, <1>5, <2>1, <2>2 DEF StoreTypes
<1>7. BufferFit'
  <2>1. /\ buffer[side].size \in Nat /\ buffer[side].fill \in Nat
        /\ METADATA_SIZE <= buffer[side].fill /\ buffer[side].fill <= buffer[side].size
        /\ buffer[side].fill % 16 = 0 /\ buffer[side].size % 16 \in {0, 4, 8}
    BY <1>1 DEF BufferFit, StoreTypes, side
  <2>2. (2 * buffer[side].size) % 16 \in {0, 4, 8}
    BY ONLY <2>1, Doubled
  <2>3. buffer[side].fill <= 2 * buffer[side].size
    BY <2>1
  <2> QED BY <1>2, <2>1, <2>2, <2>3 DEF BufferFit
<1>8. NodesBelowFill'
  BY <1>1, <1>2, <1>3 DEF NodesBelowFill
<1>9. LinksInBuffer'
  <2> SUFFICES ASSUME NEW s \in Side, NEW o \in DOMAIN node'[s], node'[s][o].next # NULL
               PROVE  /\ node'[s][o].next.base = buffer'[s].base
                      /\ node'[s][o].next.off \in DOMAIN node'[s] /\ o < node'[s][o].next.off
    BY DEF LinksInBuffer
  <2>1. CASE s # side
    BY ONLY <2>1, <1>2, <1>3, LinksInBuffer, s \in Side, o \in DOMAIN node'[s],
            node'[s][o].next # NULL DEF LinksInBuffer
  <2>2. CASE s = side
    <3>1. node[s][o].next # NULL
      <4> SUFFICES ASSUME node[s][o].next = NULL PROVE FALSE
        OBVIOUS
      <4>1. node'[s][o].next = Relocated(NULL, buffer[side].base)
        BY <2>2, <1>3, <1>4
      <4>2. buffer[side].base # -1
        BY <1>1 DEF StoreTypes, side
      <4> QED BY <4>1, <4>2 DEF Relocated, NULL, Pointer
    <3>2. /\ node[s][o].next.base = buffer[s].base
          /\ node[s][o].next.off \in DOMAIN node[s] /\ o < node[s][o].next.off
      <4>1. o \in DOMAIN node[s]
        BY ONLY <2>2, <1>3, o \in DOMAIN node'[s]
      <4> QED BY ONLY <4>1, <3>1, LinksInBuffer, s \in Side DEF LinksInBuffer
    <3>3. node'[s][o].next = Pointer(buffer[s].base + 1, node[s][o].next.off)
      BY ONLY <3>2, <2>2, <1>3, <1>4, o \in DOMAIN node'[s] DEF Relocated
    <3> QED BY ONLY <3>2, <3>3, <2>2, <1>2, <1>3 DEF Pointer
  <2> QED BY <2>1, <2>2
<1>10. TailsInBuffer'
  BY <1>1, <1>3 DEF TailsInBuffer
<1>11. HeldIsLast'
  BY <1>2 DEF HeldIsLast, ListTail, side, owner
<1> QED BY <1>6, <1>7, <1>8, <1>9, <1>10, <1>11

\* What an allocation leaves of the invariant, whatever goes into the list nodes.
LEMMA AllocationFits ==
  ASSUME StoreInv, testBufferCapacity(side),
         buffer' = [buffer EXCEPT ![side].fill = buffer[side].fill + NodeBytes]
  PROVE  /\ buffer' \in [Side -> [base : Nat, size : Nat, fill : Nat]]
         /\ buffer'[side].fill = buffer[side].fill + NodeBytes
         /\ \A t \in Side : buffer'[t].base = buffer[t].base
         /\ \A t \in Side \ {side} : buffer'[t] = buffer[t]
         /\ BufferFit'
<1>1. /\ side \in Side /\ buffer \in [Side -> [base : Nat, size : Nat, fill : Nat]]
      /\ NodeBytes \in Nat
  BY SizesAssumption DEF StoreInv, StoreTypes, side
<1>2. /\ buffer' \in [Side -> [base : Nat, size : Nat, fill : Nat]]
      /\ buffer'[side].fill = buffer[side].fill + NodeBytes
      /\ \A t \in Side : buffer'[t].base = buffer[t].base /\ buffer'[t].size = buffer[t].size
      /\ \A t \in Side \ {side} : buffer'[t] = buffer[t]
  BY ONLY <1>1, buffer' = [buffer EXCEPT ![side].fill = buffer[side].fill + NodeBytes]
<1>3. /\ buffer[side].fill + NodeBytes <= buffer[side].size
      /\ (buffer[side].fill + NodeBytes) % 16 = 0
  <2>1. /\ buffer[side].fill \in Nat /\ buffer[side].size \in Nat
        /\ buffer[side].fill % 16 = 0 /\ buffer[side].size % 16 \in {0, 4, 8}
        /\ buffer[side].fill - 5 + NodeBytes <= buffer[side].size
    BY <1>1 DEF StoreInv, BufferFit, testBufferCapacity
  <2> QED BY ONLY <2>1, RoomForNode
<1>4. METADATA_SIZE <= buffer[side].fill + NodeBytes
  BY <1>1, SizesAssumption DEF StoreInv, BufferFit
<1>5. BufferFit'
  <2> SUFFICES ASSUME NEW t \in Side
               PROVE  /\ METADATA_SIZE <= buffer'[t].fill /\ buffer'[t].fill <= buffer'[t].size
                      /\ buffer'[t].fill % 16 = 0 /\ buffer'[t].size % 16 \in {0, 4, 8}
    BY DEF BufferFit
  <2>1. CASE t = side
    BY <2>1, <1>1, <1>2, <1>3, <1>4 DEF StoreInv, BufferFit
  <2>2. CASE t # side
    BY <2>2, <1>2 DEF StoreInv, BufferFit
  <2> QED BY <2>1, <2>2
<1> QED BY <1>2, <1>5

\* A list node, new or changed, whose link is NULL or leads to a later one.
LEMMA NodesStep ==
  ASSUME StoreInv, buffer' \in [Side -> [base : Nat, size : Nat, fill : Nat]],
         \A t \in Side : buffer'[t].base = buffer[t].base,
         \A t \in Side : buffer[t].fill <= buffer'[t].fill,
         node' = [t \in Side |-> node'[t]],
         \A t \in Side : DOMAIN node[t] \subseteq DOMAIN node'[t],
         \A t \in Side : \A o \in DOMAIN node'[t] \ DOMAIN node[t] :
           o \in Nat /\ METADATA_SIZE <= o /\ o + NodeBytes <= buffer'[t].fill,
         \A t \in Side : node'[t] \in [DOMAIN node'[t] -> ListNodes],
         \A t \in Side : \A o \in DOMAIN node'[t] :
           \/ node'[t][o].next = NULL
           \/ o \in DOMAIN node[t] /\ node'[t][o].next = node[t][o].next
           \/ /\ node'[t][o].next.base = buffer[t].base
              /\ node'[t][o].next.off \in DOMAIN node'[t] /\ o < node'[t][o].next.off
  PROVE  /\ \A t \in Side : DOMAIN node'[t] \subseteq Nat
         /\ NodesBelowFill'
         /\ LinksInBuffer'
<1>1. \A t \in Side : DOMAIN node'[t] \subseteq Nat
  BY DEF StoreInv, StoreTypes
<1>2. NodesBelowFill'
  <2> SUFFICES ASSUME NEW t \in Side, NEW o \in DOMAIN node'[t]
               PROVE  METADATA_SIZE <= o /\ o + NodeBytes <= buffer'[t].fill
    BY DEF NodesBelowFill
  <2>1. CASE o \in DOMAIN node[t]
    <3>1. o \in Nat /\ METADATA_SIZE <= o /\ o + NodeBytes <= buffer[t].fill
      BY <2>1 DEF StoreInv, StoreTypes, NodesBelowFill
    <3>2. buffer[t].fill \in Nat /\ buffer'[t].fill \in Nat /\ buffer[t].fill <= buffer'[t].fill
      BY DEF StoreInv, StoreTypes
    <3> QED BY ONLY <3>1, <3>2, SizesAssumption
  <2> QED BY <2>1
<1>3. LinksInBuffer'
  BY DEF StoreInv, LinksInBuffer
<1> QED BY <1>1, <1>2, <1>3

\* The owner of an insertion and its last list node.
LEMMA HeldTyped ==
  ASSUME StoreInv, step = "insert"
  PROVE  /\ side \in Side /\ owner \in Nodes
         /\ listNode.base = buffer[side].base /\ listNode.off = index[side].tail[owner]
         /\ listNode.off \in DOMAIN node[side]
         /\ node[side][listNode.off] \in ListNodes
<1>1. side \in Side /\ owner \in Nodes
  BY DEF StoreInv, StoreTypes, side, owner
<1>2. listNode.base = buffer[side].base /\ listNode.off = index[side].tail[owner]
  BY DEF StoreInv, HeldIsLast, ListTail, Pointer
<1>3. listNode.off \in DOMAIN node[side]
  BY <1>1, <1>2 DEF StoreInv, HeldIsLast, TailsInBuffer
<1> QED BY <1>1, <1>2, <1>3 DEF StoreInv, StoreTypes

LEMMA NextIsNode ==
  ASSUME StoreInv, part.new # <<>>
  PROVE  Head(part.new) \in Nodes /\ Tail(part.new) \in Seq(Nodes)
<1>1. part.new \in Seq(Nodes)
  BY DEF StoreInv, StoreTypes
<1> QED BY <1>1, HeadTailProperties

LEMMA StoreNeighborEffect ==
  ASSUME StoreInv, StoreNeighbor
  PROVE  /\ side \in Side /\ owner \in Nodes
         /\ listNode.off \in DOMAIN node[side] /\ listNode.off = index[side].tail[owner]
         /\ node' = [t \in Side |-> node'[t]]
         /\ \A t \in Side : DOMAIN node'[t] = DOMAIN node[t]
         /\ \A t \in Side : node'[t] \in [DOMAIN node'[t] -> ListNodes]
         /\ node'[side][listNode.off].next = node[side][listNode.off].next
         /\ \A p \in DOMAIN node[side] \ {listNode.off} : node'[side][p] = node[side][p]
         /\ \A t \in Side \ {side} : node'[t] = node[t]
<1> DEFINE old == node[side][listNode.off]
           new == [old EXCEPT !.neighbor = Append(@, Head(part.new))]
<1>1. /\ side \in Side /\ owner \in Nodes
      /\ listNode.base = buffer[side].base /\ listNode.off \in DOMAIN node[side]
      /\ listNode.off = index[side].tail[owner]
      /\ old \in ListNodes
  BY HeldTyped DEF StoreNeighbor, Inserting
<1>2. new \in ListNodes /\ new.next = old.next
  <2>1. PICK v \in Nodes : v = Head(part.new)
    BY NextIsNode DEF StoreNeighbor, Inserting
  <2>2. old.neighbor \in Seq(Nodes)
    BY ONLY <1>1 DEF ListNodes
  <2>3. PICK t \in Seq(Nodes) : t = Append(old.neighbor, v)
    BY ONLY <2>2, v \in Nodes, AppendProperties
  <2>4. new = [old EXCEPT !.neighbor = t]
    BY ONLY <2>1, <2>3
  <2> HIDE DEF old, new
  <2> QED BY ONLY <1>1, <2>4, t \in Seq(Nodes) DEF ListNodes
<1>3. node' = [node EXCEPT ![side] = [node[side] EXCEPT ![listNode.off] = new]]
  BY <1>1 DEF Stored, StoreNeighbor
<1> HIDE DEF old, new
<1>4. /\ node' = [t \in Side |-> node'[t]]
      /\ \A t \in Side : DOMAIN node'[t] = DOMAIN node[t]
      /\ \A t \in Side : node'[t] \in [DOMAIN node'[t] -> ListNodes]
      /\ node'[side] = [node[side] EXCEPT ![listNode.off] = new]
      /\ \A t \in Side \ {side} : node'[t] = node[t]
  <2>1. node = [t \in Side |-> node[t]] /\ \A t \in Side : node[t] \in [DOMAIN node[t] -> ListNodes]
    BY DEF StoreInv, StoreTypes
  <2> QED BY ONLY <2>1, <1>1, <1>2, <1>3
<1>5. /\ node'[side][listNode.off] = new
      /\ \A p \in DOMAIN node[side] \ {listNode.off} : node'[side][p] = node[side][p]
  BY ONLY <1>1, <1>4
<1>6. node'[side][listNode.off].next = node[side][listNode.off].next
  BY ONLY <1>2, <1>5 DEF old
<1> QED BY ONLY <1>1, <1>4, <1>5, <1>6

LEMMA StoreNeighborHolder ==
  ASSUME StoreInv, StoreNeighbor, NEW v, v = Head(part.new)
  PROVE  /\ v \in Nodes
         /\ node'[side][listNode.off].neighbor = Append(node[side][listNode.off].neighbor, v)
<1>1. v \in Nodes
  BY NextIsNode DEF StoreNeighbor, Inserting
<1> DEFINE old == node[side][listNode.off]
           new == [old EXCEPT !.neighbor = Append(@, v)]
<1>2. /\ side \in Side /\ listNode.base = buffer[side].base
      /\ listNode.off \in DOMAIN node[side] /\ old \in ListNodes
  BY HeldTyped DEF StoreNeighbor, Inserting
<1>3. node' = [node EXCEPT ![side] = [node[side] EXCEPT ![listNode.off] = new]]
  BY <1>2 DEF Stored, StoreNeighbor
<1>4. new.neighbor = Append(old.neighbor, v)
  BY ONLY <1>2 DEF ListNodes
<1> HIDE DEF new
<1>5. node'[side][listNode.off] = new
  <2>1. node = [t \in Side |-> node[t]] /\ \A t \in Side : node[t] \in [DOMAIN node[t] -> ListNodes]
    BY DEF StoreInv, StoreTypes
  <2> HIDE DEF old
  <2> QED BY ONLY <2>1, <1>2, <1>3
<1> QED BY ONLY <1>1, <1>4, <1>5 DEF old

LEMMA StoreNeighborKeeps == ASSUME StoreInv, StoreNeighbor PROVE StoreInv'
<1> USE DEF StoreNeighbor, Inserting
<1>1. \E rest \in Seq(Nodes) : part' = [part EXCEPT !.new = rest]
  BY NextIsNode DEF NextDone
<1>2. UNCHANGED <<buffer, index, step, listNode>>
  OBVIOUS
<1>3. StoreTypes /\ BufferFit /\ TailsInBuffer /\ HeldIsLast
  BY DEF StoreInv
<1>4. /\ node' = [t \in Side |-> node'[t]]
      /\ \A t \in Side : DOMAIN node'[t] = DOMAIN node[t]
      /\ \A t \in Side : node'[t] \in [DOMAIN node'[t] -> ListNodes]
      /\ \A t \in Side : \A o \in DOMAIN node'[t] : node'[t][o].next = node[t][o].next
  <2>1. /\ node' = [t \in Side |-> node'[t]]
        /\ \A t \in Side : DOMAIN node'[t] = DOMAIN node[t]
        /\ \A t \in Side : node'[t] \in [DOMAIN node'[t] -> ListNodes]
        /\ node'[side][listNode.off].next = node[side][listNode.off].next
        /\ \A p \in DOMAIN node[side] \ {listNode.off} : node'[side][p] = node[side][p]
        /\ \A t \in Side \ {side} : node'[t] = node[t]
    BY ONLY Zenon, StoreNeighborEffect, StoreInv, StoreNeighbor
  <2> QED BY ONLY <2>1
<1>5. /\ buffer' \in [Side -> [base : Nat, size : Nat, fill : Nat]]
      /\ \A t \in Side : buffer[t].fill <= buffer'[t].fill
  <2>1. buffer' = buffer /\ buffer \in [Side -> [base : Nat, size : Nat, fill : Nat]]
    BY ONLY <1>2, <1>3 DEF StoreTypes
  <2> QED BY ONLY <2>1
<1>6. NodesBelowFill' /\ LinksInBuffer'
  BY ZenonT(40), <1>4, <1>5, NodesStep
<1>7. StoreTypes'
  <2>1. part' \in [side : Side, node : Nat, new : Seq(Nodes)] /\ part'.node = part.node
    BY ONLY <1>1, <1>3 DEF StoreTypes
  <2>2. \A t \in Side : DOMAIN node'[t] \subseteq Nat /\ node'[t] \in [DOMAIN node'[t] -> ListNodes]
    BY ONLY <1>3, <1>4 DEF StoreTypes
  <2> QED BY ONLY <2>1, <2>2, <1>2, <1>3, <1>4, <1>5 DEF StoreTypes
<1>8. BufferFit' /\ TailsInBuffer'
  BY ONLY <1>2, <1>3, <1>4 DEF BufferFit, TailsInBuffer
<1>9. HeldIsLast'
  <2>1. part'.side = part.side /\ part'.node = part.node
    BY ONLY <1>1, <1>3 DEF StoreTypes
  <2>2. side' = side /\ owner' = owner
    BY ONLY <2>1 DEF side, owner
  <2> QED BY ONLY <2>2, <1>2, <1>3 DEF HeldIsLast, ListTail
<1> QED BY <1>6, <1>7, <1>8, <1>9 DEF StoreInv

\* The fill indicator is not yet the offset of a list node.
LEMMA FillIsFree ==
  ASSUME StoreInv, NEW s \in Side
  PROVE  /\ buffer[s].fill \in Nat
         /\ buffer[s].fill \notin DOMAIN node[s]
         /\ \A o \in DOMAIN node[s] : o \in Nat /\ o < buffer[s].fill
<1>1. \A o \in DOMAIN node[s] : o \in Nat /\ o + NodeBytes <= buffer[s].fill
  BY DEF StoreInv, StoreTypes, NodesBelowFill
<1>2. buffer[s].fill \in Nat
  BY DEF StoreInv, StoreTypes
<1> QED BY ONLY <1>1, <1>2, SizesAssumption

LEMMA NewListNodeTyped == NewListNode \in ListNodes /\ NewListNode.next = NULL
  BY DEF NewListNode, ListNodes, NULL, Pointer

LEMMA AddListNodeEffect ==
  ASSUME StoreInv, AddListNode
  PROVE  /\ step = "insert" /\ side \in Side /\ owner \in Nodes
         /\ listNode.off = index[side].tail[owner] /\ listNode.off \in DOMAIN node[side]
         /\ node[side][listNode.off] \in ListNodes
         /\ DOMAIN node'[side] = DOMAIN node[side] \cup {buffer[side].fill}
         /\ node'[side] = [p \in DOMAIN node'[side] |-> node'[side][p]]
         /\ node'[side][buffer[side].fill] = NewListNode
         /\ node'[side][listNode.off] = [node[side][listNode.off] EXCEPT
                                         !.next = Pointer(buffer[side].base, buffer[side].fill)]
         /\ \A p \in DOMAIN node[side] \ {listNode.off} : node'[side][p] = node[side][p]
         /\ \A t \in Side \ {side} : node'[t] = node[t]
         /\ node' = [t \in Side |-> node'[t]]
         /\ index' \in [Side -> [size : Nat, head : [Nodes -> Int], tail : [Nodes -> Int]]]
         /\ \A t \in Side : index'[t].head = index[t].head
         /\ index'[side].tail[owner] = buffer[side].fill
         /\ \A t \in Side, u \in Nodes :
              t # side \/ u # owner => index'[t].tail[u] = index[t].tail[u]
<1> DEFINE o == buffer[side].fill
           old == node[side][listNode.off]
           linked == [old EXCEPT !.next = Pointer(buffer[side].base, o)]
           rest == [node[side] EXCEPT ![listNode.off] = linked]
<1>1. step = "insert" /\ testBufferCapacity(side)
  BY DEF AddListNode, Inserting
<1>2. /\ side \in Side /\ owner \in Nodes
      /\ listNode.base = buffer[side].base /\ listNode.off = index[side].tail[owner]
      /\ listNode.off \in DOMAIN node[side] /\ old \in ListNodes
  BY <1>1, HeldTyped
<1>3. /\ o \in Nat /\ o \notin DOMAIN node[side]
      /\ \A p \in DOMAIN node[side] : p \in Nat /\ p < o
  BY <1>2, FillIsFree
<1>4. /\ node' = [node EXCEPT ![side] = Put(rest, o, NewListNode)]
      /\ buffer' = [buffer EXCEPT ![side].fill = o + NodeBytes]
      /\ listNode' = Pointer(buffer[side].base, o)
      /\ index' = [index EXCEPT ![side].tail[owner] = o]
      /\ UNCHANGED <<hash, biggestNode, step, part>>
  BY <1>2 DEF AddListNode, Stored
<1>8. node = [t \in Side |-> node[t]] /\ \A t \in Side : node[t] \in [DOMAIN node[t] -> ListNodes]
  BY DEF StoreInv, StoreTypes
<1> HIDE DEF o, old, linked
<1>9. /\ DOMAIN rest = DOMAIN node[side]
      /\ rest[listNode.off] = linked
      /\ \A p \in DOMAIN node[side] \ {listNode.off} : rest[p] = node[side][p]
  BY ONLY <1>2, <1>8
<1> HIDE DEF rest
<1>10. /\ node'[side] = Put(rest, o, NewListNode)
       /\ \A t \in Side \ {side} : node'[t] = node[t]
       /\ node' = [t \in Side |-> node'[t]]
  BY ONLY <1>2, <1>4, <1>8
<1>11. /\ DOMAIN node'[side] = DOMAIN node[side] \cup {o}
       /\ node'[side] = [p \in DOMAIN node'[side] |-> node'[side][p]]
       /\ node'[side][o] = NewListNode
       /\ \A p \in DOMAIN node[side] : node'[side][p] = rest[p]
  <2>1. o \notin DOMAIN rest
    BY ONLY <1>3, <1>9
  <2>2. /\ DOMAIN Put(rest, o, NewListNode) = DOMAIN rest \cup {o}
        /\ Put(rest, o, NewListNode)
             = [p \in DOMAIN Put(rest, o, NewListNode) |-> Put(rest, o, NewListNode)[p]]
        /\ Put(rest, o, NewListNode)[o] = NewListNode
        /\ \A p \in DOMAIN rest : Put(rest, o, NewListNode)[p] = rest[p]
    BY ONLY <2>1 DEF Put
  <2> QED BY ONLY <2>2, <1>9, <1>10
<1>17. /\ index' \in [Side -> [size : Nat, head : [Nodes -> Int], tail : [Nodes -> Int]]]
       /\ \A t \in Side : index'[t].head = index[t].head
       /\ index'[side].tail[owner] = o
       /\ \A t \in Side, u \in Nodes :
            t # side \/ u # owner => index'[t].tail[u] = index[t].tail[u]
  <2>1. index \in [Side -> [size : Nat, head : [Nodes -> Int], tail : [Nodes -> Int]]]
    BY DEF StoreInv, StoreTypes
  <2>2. index[side] \in [size : Nat, head : [Nodes -> Int], tail : [Nodes -> Int]]
    BY ONLY <2>1, <1>2
  <2>3. index'[side] = [index[side] EXCEPT !.tail = [index[side].tail EXCEPT ![owner] = o]]
    BY ONLY <2>1, <1>2, <1>4
  <2>4. [index[side].tail EXCEPT ![owner] = o] \in [Nodes -> Int]
    BY ONLY <2>2, <1>2, <1>3
  <2>5. /\ index'[side] \in [size : Nat, head : [Nodes -> Int], tail : [Nodes -> Int]]
        /\ index'[side].head = index[side].head
        /\ index'[side].tail = [index[side].tail EXCEPT ![owner] = o]
    BY ONLY <2>2, <2>3, <2>4
  <2>6. /\ DOMAIN index' = Side /\ index' = [t \in Side |-> index'[t]]
        /\ \A t \in Side \ {side} : index'[t] = index[t]
    BY ONLY <2>1, <1>2, <1>4
  <2>7. /\ index'[side].tail[owner] = o
        /\ \A u \in Nodes \ {owner} : index'[side].tail[u] = index[side].tail[u]
    BY ONLY <2>2, <2>5, <1>2
  <2> QED BY ONLY <2>1, <2>5, <2>6, <2>7
<1>20. node'[side][listNode.off] = linked
         /\ \A p \in DOMAIN node[side] \ {listNode.off} : node'[side][p] = node[side][p]
  BY ONLY <1>2, <1>9, <1>11
<1> QED BY ONLY <1>1, <1>2, <1>10, <1>11, <1>17, <1>20 DEF o, old, linked

LEMMA AddListNodeKeeps == ASSUME StoreInv, AddListNode PROVE StoreInv'
<1> DEFINE o == buffer[side].fill
           old == node[side][listNode.off]
           linked == [old EXCEPT !.next = Pointer(buffer[side].base, o)]
<1>1. step = "insert" /\ testBufferCapacity(side)
  BY DEF AddListNode, Inserting
<1>2. /\ side \in Side /\ owner \in Nodes
      /\ listNode.base = buffer[side].base /\ listNode.off = index[side].tail[owner]
      /\ listNode.off \in DOMAIN node[side] /\ old \in ListNodes
  BY <1>1, HeldTyped
<1>3. /\ o \in Nat /\ o \notin DOMAIN node[side]
      /\ \A p \in DOMAIN node[side] : p \in Nat /\ p < o
  BY <1>2, FillIsFree
<1>4. /\ buffer' = [buffer EXCEPT ![side].fill = o + NodeBytes]
      /\ listNode' = Pointer(buffer[side].base, o)
      /\ index' = [index EXCEPT ![side].tail[owner] = o]
      /\ UNCHANGED <<hash, biggestNode, step, part>>
  BY <1>2 DEF AddListNode, Stored
<1>5. /\ buffer' \in [Side -> [base : Nat, size : Nat, fill : Nat]]
      /\ buffer'[side].fill = o + NodeBytes
      /\ \A t \in Side : buffer'[t].base = buffer[t].base
      /\ \A t \in Side \ {side} : buffer'[t] = buffer[t]
      /\ BufferFit'
  BY <1>1, <1>4, AllocationFits
<1>6. buffer[side].base \in Nat /\ buffer \in [Side -> [base : Nat, size : Nat, fill : Nat]]
  BY <1>2 DEF StoreInv, StoreTypes
<1>7. linked \in ListNodes /\ linked.next = Pointer(buffer[side].base, o)
  <2>1. Pointer(buffer[side].base, o) \in [base : Int, off : Int]
    BY ONLY <1>3, <1>6 DEF Pointer
  <2> QED BY ONLY <1>2, <2>1 DEF ListNodes
<1>8. node = [t \in Side |-> node[t]] /\ \A t \in Side : node[t] \in [DOMAIN node[t] -> ListNodes]
  BY DEF StoreInv, StoreTypes
<1>9. /\ node'[side][listNode.off] = linked
      /\ \A p \in DOMAIN node[side] \ {listNode.off} : node'[side][p] = node[side][p]
  BY AddListNodeEffect
<1>10. /\ \A t \in Side \ {side} : node'[t] = node[t]
       /\ node' = [t \in Side |-> node'[t]]
  BY AddListNodeEffect
<1>11. /\ DOMAIN node'[side] = DOMAIN node[side] \cup {o}
       /\ node'[side] = [p \in DOMAIN node'[side] |-> node'[side][p]]
       /\ node'[side][o] = NewListNode
  BY AddListNodeEffect
<1> HIDE DEF o, old, linked
<1>12. \A t \in Side : node'[t] \in [DOMAIN node'[t] -> ListNodes]
  <2>1. \A p \in DOMAIN node'[side] : node'[side][p] \in ListNodes
    BY ONLY <1>2, <1>7, <1>8, <1>9, <1>11, NewListNodeTyped
  <2> QED BY ONLY <2>1, <1>8, <1>10, <1>11
<1>13. \A t \in Side : \A p \in DOMAIN node'[t] :
           \/ node'[t][p].next = NULL
           \/ p \in DOMAIN node[t] /\ node'[t][p].next = node[t][p].next
           \/ /\ node'[t][p].next.base = buffer[t].base
              /\ node'[t][p].next.off \in DOMAIN node'[t] /\ p < node'[t][p].next.off
  <2> SUFFICES ASSUME NEW t \in Side, NEW p \in DOMAIN node'[t]
               PROVE  \/ node'[t][p].next = NULL
                      \/ p \in DOMAIN node[t] /\ node'[t][p].next = node[t][p].next
                      \/ /\ node'[t][p].next.base = buffer[t].base
                         /\ node'[t][p].next.off \in DOMAIN node'[t] /\ p < node'[t][p].next.off
    OBVIOUS
  <2>1. CASE t # side
    BY <2>1, <1>10
  <2>2. CASE t = side /\ p = o
    BY <2>2, <1>11, NewListNodeTyped
  <2>3. CASE t = side /\ p = listNode.off
    <3>1. node'[t][p].next = Pointer(buffer[side].base, o) /\ p < o
      BY ONLY <2>3, <1>2, <1>3, <1>7, <1>9, <1>11
    <3> QED BY ONLY <2>3, <3>1, <1>11 DEF Pointer
  <2>4. CASE t = side /\ p # o /\ p # listNode.off
    BY ONLY <2>4, <1>9, <1>11, p \in DOMAIN node'[t]
  <2> QED BY <2>1, <2>2, <2>3, <2>4
<1>14. /\ \A t \in Side : buffer[t].fill <= buffer'[t].fill
       /\ \A t \in Side : DOMAIN node[t] \subseteq DOMAIN node'[t]
  <2>1. \A t \in Side : buffer[t].fill <= buffer'[t].fill
    BY ONLY <1>3, <1>5, <1>6, SizesAssumption DEF o
  <2> QED BY <2>1, <1>10, <1>11
<1>15. \A t \in Side : \A p \in DOMAIN node'[t] \ DOMAIN node[t] :
           p \in Nat /\ METADATA_SIZE <= p /\ p + NodeBytes <= buffer'[t].fill
  <2>1. METADATA_SIZE <= o
    BY <1>2 DEF o, StoreInv, BufferFit
  <2>2. o + NodeBytes <= o + NodeBytes
    BY <1>3, SizesAssumption
  <2> QED BY <2>1, <2>2, <1>3, <1>5, <1>10, <1>11
<1>16. (\A t \in Side : DOMAIN node'[t] \subseteq Nat) /\ NodesBelowFill' /\ LinksInBuffer'
  BY <1>5, <1>10, <1>12, <1>13, <1>14, <1>15, NodesStep
<1>17. /\ index' \in [Side -> [size : Nat, head : [Nodes -> Int], tail : [Nodes -> Int]]]
       /\ \A t \in Side : index'[t].head = index[t].head
       /\ index'[side].tail[owner] = o
       /\ \A t \in Side, u \in Nodes :
            t # side \/ u # owner => index'[t].tail[u] = index[t].tail[u]
  BY ONLY AddListNodeEffect, StoreInv, AddListNode DEF o
<1>18. StoreTypes'
  <2>1. listNode' \in [base : Int, off : Int]
    BY <1>3, <1>4, <1>6 DEF Pointer
  <2>2. UNCHANGED <<step, part>>
    BY <1>4
  <2> QED BY <2>1, <2>2, <1>5, <1>10, <1>12, <1>16, <1>17 DEF StoreInv, StoreTypes
<1>19. TailsInBuffer'
  <2> SUFFICES ASSUME NEW t \in Side, NEW u \in Nodes, index'[t].head[u] # -1
               PROVE  index'[t].tail[u] \in DOMAIN node'[t]
    BY DEF TailsInBuffer
  <2>1. CASE t = side /\ u = owner
    BY <2>1, <1>11, <1>17
  <2>2. CASE t # side \/ u # owner
    <3>1. index[t].tail[u] \in DOMAIN node[t]
      BY <1>17 DEF StoreInv, TailsInBuffer
    <3> QED BY <3>1, <2>2, <1>14, <1>17
  <2> QED BY <2>1, <2>2
<1>20. HeldIsLast'
  <2>1. side' = side /\ owner' = owner
    BY <1>4 DEF side, owner
  <2>2. index'[side].head[owner] # -1
    BY <1>1, <1>2, <1>17 DEF StoreInv, HeldIsLast
  <2>3. listNode' = Pointer(buffer'[side].base, index'[side].tail[owner])
    BY <1>2, <1>4, <1>5, <1>17
  <2> QED BY <2>1, <2>2, <2>3 DEF HeldIsLast, ListTail
<1> QED BY <1>5, <1>16, <1>18, <1>19, <1>20 DEF StoreInv

\* The owner's first list node.
LEMMA FirstListNodeEffect ==
  ASSUME StoreInv, connectIndexBuffer, index[side].head[owner] = -1
  PROVE  /\ side \in Side /\ owner \in Nodes
         /\ buffer[side].fill \in Nat /\ buffer[side].fill \notin DOMAIN node[side]
         /\ DOMAIN node'[side] = DOMAIN node[side] \cup {buffer[side].fill}
         /\ node'[side] = [p \in DOMAIN node'[side] |-> node'[side][p]]
         /\ node'[side][buffer[side].fill] = NewListNode
         /\ \A p \in DOMAIN node[side] : node'[side][p] = node[side][p]
         /\ \A t \in Side \ {side} : node'[t] = node[t]
         /\ node' = [t \in Side |-> node'[t]]
         /\ index' \in [Side -> [size : Nat, head : [Nodes -> Int], tail : [Nodes -> Int]]]
         /\ index'[side].head[owner] = buffer[side].fill
         /\ index'[side].tail[owner] = buffer[side].fill
         /\ \A t \in Side, u \in Nodes :
              t # side \/ u # owner => /\ index'[t].head[u] = index[t].head[u]
                                       /\ index'[t].tail[u] = index[t].tail[u]
<1> DEFINE o == buffer[side].fill
           new == Put(node[side], o, NewListNode)
<1>1. step = "connect" /\ step' = "insert" /\ testBufferCapacity(side)
  BY DEF connectIndexBuffer
<1>2. side \in Side /\ owner \in Nodes
  BY <1>1 DEF StoreInv, StoreTypes, side, owner
<1>3. /\ o \in Nat /\ o \notin DOMAIN node[side] /\ o # -1
  BY <1>2, FillIsFree
<1>4. /\ node' = [node EXCEPT ![side] = new]
      /\ buffer' = [buffer EXCEPT ![side].fill = o + NodeBytes]
      /\ listNode' = Pointer(buffer[side].base, o)
      /\ index' = [index EXCEPT ![side].head[owner] = o, ![side].tail[owner] = o]
      /\ part' = part
  BY DEF connectIndexBuffer
<1>7. node = [t \in Side |-> node[t]] /\ \A t \in Side : node[t] \in [DOMAIN node[t] -> ListNodes]
  BY DEF StoreInv, StoreTypes
<1>8. /\ DOMAIN new = DOMAIN node[side] \cup {o}
      /\ new[o] = NewListNode
      /\ \A p \in DOMAIN node[side] : new[p] = node[side][p]
      /\ new = [p \in DOMAIN new |-> new[p]]
  BY ONLY <1>3 DEF Put
<1> HIDE DEF o, new
<1>9. /\ node'[side] = new
      /\ \A t \in Side \ {side} : node'[t] = node[t]
      /\ node' = [t \in Side |-> node'[t]]
  BY ONLY <1>2, <1>4, <1>7
<1>15. /\ index' \in [Side -> [size : Nat, head : [Nodes -> Int], tail : [Nodes -> Int]]]
       /\ index'[side].head[owner] = o /\ index'[side].tail[owner] = o
       /\ \A t \in Side, u \in Nodes :
            t # side \/ u # owner => /\ index'[t].head[u] = index[t].head[u]
                                     /\ index'[t].tail[u] = index[t].tail[u]
  <2>1. index \in [Side -> [size : Nat, head : [Nodes -> Int], tail : [Nodes -> Int]]]
    BY DEF StoreInv, StoreTypes
  <2>2. index[side] \in [size : Nat, head : [Nodes -> Int], tail : [Nodes -> Int]]
    BY ONLY <2>1, <1>2
  <2>3. index'[side] = [index[side] EXCEPT !.head = [index[side].head EXCEPT ![owner] = o],
                                           !.tail = [index[side].tail EXCEPT ![owner] = o]]
    BY ONLY <2>1, <2>2, <1>2, <1>4
  <2>4. /\ [index[side].head EXCEPT ![owner] = o] \in [Nodes -> Int]
        /\ [index[side].tail EXCEPT ![owner] = o] \in [Nodes -> Int]
    BY ONLY <2>2, <1>2, <1>3
  <2>5. /\ index'[side] \in [size : Nat, head : [Nodes -> Int], tail : [Nodes -> Int]]
        /\ index'[side].head = [index[side].head EXCEPT ![owner] = o]
        /\ index'[side].tail = [index[side].tail EXCEPT ![owner] = o]
    BY ONLY <2>2, <2>3, <2>4
  <2>6. /\ DOMAIN index' = Side /\ index' = [t \in Side |-> index'[t]]
        /\ \A t \in Side \ {side} : index'[t] = index[t]
    BY ONLY <2>1, <1>2, <1>4
  <2>7. /\ index'[side].head[owner] = o /\ index'[side].tail[owner] = o
        /\ \A u \in Nodes \ {owner} : /\ index'[side].head[u] = index[side].head[u]
                                       /\ index'[side].tail[u] = index[side].tail[u]
    BY ONLY <2>2, <2>5, <1>2
  <2> QED BY ONLY SMTT(30), <2>1, <2>5, <2>6, <2>7
<1> QED BY ONLY <1>2, <1>3, <1>8, <1>9, <1>15 DEF o

LEMMA FirstListNodeKeeps ==
  ASSUME StoreInv, connectIndexBuffer, index[side].head[owner] = -1
  PROVE  StoreInv'
<1> DEFINE o == buffer[side].fill
<1>1. step = "connect" /\ step' = "insert" /\ testBufferCapacity(side)
  BY DEF connectIndexBuffer
<1>2. side \in Side /\ owner \in Nodes
  BY <1>1 DEF StoreInv, StoreTypes, side, owner
<1>3. /\ o \in Nat /\ o \notin DOMAIN node[side] /\ o # -1
  BY <1>2, FillIsFree
<1>4. /\ buffer' = [buffer EXCEPT ![side].fill = o + NodeBytes]
      /\ listNode' = Pointer(buffer[side].base, o)
      /\ part' = part
  BY DEF connectIndexBuffer
<1>5. /\ buffer' \in [Side -> [base : Nat, size : Nat, fill : Nat]]
      /\ buffer'[side].fill = o + NodeBytes
      /\ \A t \in Side : buffer'[t].base = buffer[t].base
      /\ \A t \in Side \ {side} : buffer'[t] = buffer[t]
      /\ BufferFit'
  BY <1>1, <1>4, AllocationFits
<1>6. buffer[side].base \in Nat /\ buffer \in [Side -> [base : Nat, size : Nat, fill : Nat]]
  BY <1>2 DEF StoreInv, StoreTypes
<1>7. node = [t \in Side |-> node[t]] /\ \A t \in Side : node[t] \in [DOMAIN node[t] -> ListNodes]
  BY DEF StoreInv, StoreTypes
<1>8. /\ DOMAIN node'[side] = DOMAIN node[side] \cup {o}
      /\ node'[side][o] = NewListNode
      /\ \A p \in DOMAIN node[side] : node'[side][p] = node[side][p]
      /\ node'[side] = [p \in DOMAIN node'[side] |-> node'[side][p]]
  BY FirstListNodeEffect
<1>9. /\ \A t \in Side \ {side} : node'[t] = node[t]
      /\ node' = [t \in Side |-> node'[t]]
  BY FirstListNodeEffect
<1> HIDE DEF o
<1>10. \A t \in Side : node'[t] \in [DOMAIN node'[t] -> ListNodes]
  <2>1. \A p \in DOMAIN node'[side] : node'[side][p] \in ListNodes
    BY ONLY <1>2, <1>7, <1>8, NewListNodeTyped
  <2> QED BY ONLY <2>1, <1>7, <1>8, <1>9
<1>11. /\ \A t \in Side : buffer[t].fill <= buffer'[t].fill
       /\ \A t \in Side : DOMAIN node[t] \subseteq DOMAIN node'[t]
  <2>1. \A t \in Side : buffer[t].fill <= buffer'[t].fill
    BY ONLY <1>3, <1>5, <1>6, SizesAssumption DEF o
  <2> QED BY <2>1, <1>8, <1>9
<1>12. \A t \in Side : \A p \in DOMAIN node'[t] \ DOMAIN node[t] :
           p \in Nat /\ METADATA_SIZE <= p /\ p + NodeBytes <= buffer'[t].fill
  <2>1. METADATA_SIZE <= o
    BY <1>2 DEF o, StoreInv, BufferFit
  <2>2. o + NodeBytes <= o + NodeBytes
    BY <1>3, SizesAssumption
  <2> QED BY <2>1, <2>2, <1>3, <1>5, <1>8, <1>9
<1>13. \A t \in Side : \A p \in DOMAIN node'[t] :
           \/ node'[t][p].next = NULL
           \/ p \in DOMAIN node[t] /\ node'[t][p].next = node[t][p].next
  BY ONLY <1>8, <1>9, NewListNodeTyped
<1>14. (\A t \in Side : DOMAIN node'[t] \subseteq Nat) /\ NodesBelowFill' /\ LinksInBuffer'
  BY <1>5, <1>9, <1>10, <1>11, <1>12, <1>13, NodesStep
<1>15. /\ index' \in [Side -> [size : Nat, head : [Nodes -> Int], tail : [Nodes -> Int]]]
       /\ index'[side].head[owner] = o /\ index'[side].tail[owner] = o
       /\ \A t \in Side, u \in Nodes :
            t # side \/ u # owner => /\ index'[t].head[u] = index[t].head[u]
                                     /\ index'[t].tail[u] = index[t].tail[u]
  BY ONLY FirstListNodeEffect, StoreInv, connectIndexBuffer, index[side].head[owner] = -1 DEF o
<1>16. StoreTypes'
  <2>1. listNode' \in [base : Int, off : Int]
    BY <1>3, <1>4, <1>6 DEF Pointer
  <2>2. part'.node \in Nodes /\ part' \in [side : Side, node : Nat, new : Seq(Nodes)]
    BY <1>1, <1>4 DEF StoreInv, StoreTypes
  <2> QED BY <2>1, <2>2, <1>1, <1>5, <1>9, <1>10, <1>14, <1>15 DEF StoreInv, StoreTypes
<1>17. TailsInBuffer'
  <2> SUFFICES ASSUME NEW t \in Side, NEW u \in Nodes, index'[t].head[u] # -1
               PROVE  index'[t].tail[u] \in DOMAIN node'[t]
    BY DEF TailsInBuffer
  <2>1. CASE t = side /\ u = owner
    BY <2>1, <1>8, <1>9, <1>15
  <2>2. CASE t # side \/ u # owner
    <3>1. index[t].tail[u] \in DOMAIN node[t]
      BY <2>2, <1>15 DEF StoreInv, TailsInBuffer
    <3> QED BY <3>1, <2>2, <1>11, <1>15
  <2> QED BY <2>1, <2>2
<1>18. HeldIsLast'
  <2>1. side' = side /\ owner' = owner
    BY <1>4 DEF side, owner
  <2>2. listNode' = Pointer(buffer'[side].base, index'[side].tail[owner])
    BY <1>2, <1>4, <1>5, <1>15
  <2> QED BY <2>1, <2>2, <1>3, <1>15 DEF HeldIsLast, ListTail
<1> QED BY <1>5, <1>14, <1>16, <1>17, <1>18 DEF StoreInv

\* The steps that touch no list node: an owner's list taken up again, a neighbour that
\* is there, and the return.
LEMMA QuietStepKeeps ==
  ASSUME StoreInv,
         \/ connectIndexBuffer /\ index[side].head[owner] # -1
         \/ SkipDouble \/ Return \/ UNCHANGED storeVars
  PROVE  StoreInv'
<1>1. UNCHANGED <<buffer, node, index>>
  BY DEF connectIndexBuffer, SkipDouble, Return, storeVars
<1>2. BufferFit' /\ NodesBelowFill' /\ LinksInBuffer' /\ TailsInBuffer'
  BY <1>1 DEF StoreInv, BufferFit, NodesBelowFill, LinksInBuffer, TailsInBuffer
<1>3. StoreTypes' /\ HeldIsLast'
  <2> USE DEF StoreInv, StoreTypes, HeldIsLast, side, owner, ListTail
  <2>1. CASE connectIndexBuffer /\ index[side].head[owner] # -1
    <3>1. /\ step = "connect" /\ step' = "insert" /\ part' = part
          /\ listNode' = Pointer(buffer[side].base, index[side].tail[owner])
      BY <2>1 DEF connectIndexBuffer
    <3>2. listNode' \in [base : Int, off : Int]
      BY <3>1 DEF Pointer
    <3> QED BY <2>1, <3>1, <3>2, <1>1
  <2>2. CASE SkipDouble
    <3>1. /\ step = "insert" /\ part.new # <<>> /\ UNCHANGED <<step, listNode>>
          /\ part' = [part EXCEPT !.new = Tail(part.new)]
      BY <2>2 DEF SkipDouble, Inserting, NextDone
    <3>2. Tail(part.new) \in Seq(Nodes)
      BY <3>1, HeadTailProperties
    <3>3. /\ part' \in [side : Side, node : Nat, new : Seq(Nodes)]
          /\ part'.side = part.side /\ part'.node = part.node
      BY <3>1, <3>2
    <3> QED BY <3>1, <3>3, <1>1
  <2>3. CASE Return
    <3>1. NoPart \in [side : Side, node : Nat, new : Seq(Nodes)]
      BY DEF NoPart, Side
    <3>2. NULL \in [base : Int, off : Int]
      BY DEF NULL, Pointer
    <3> QED BY <2>3, <3>1, <3>2, <1>1 DEF Return
  <2>4. CASE UNCHANGED storeVars
    BY <2>4 DEF storeVars
  <2> QED BY <2>1, <2>2, <2>3, <2>4
<1> QED BY <1>2, <1>3 DEF StoreInv

LEMMA StoreStepKeeps == StoreInv /\ (StoreStep \/ UNCHANGED storeVars) => StoreInv'
<1> SUFFICES ASSUME StoreInv, StoreStep \/ UNCHANGED storeVars PROVE StoreInv'
  OBVIOUS
<1>1. CASE Grow
  BY <1>1, GrowKeeps
<1>2. CASE connectIndexBuffer
  BY <1>2, FirstListNodeKeeps, QuietStepKeeps
<1>3. CASE SkipDouble
  BY <1>3, QuietStepKeeps
<1>4. CASE AddListNode
  BY <1>4, AddListNodeKeeps
<1>5. CASE StoreNeighbor
  BY <1>5, StoreNeighborKeeps
<1>6. CASE Return \/ UNCHANGED storeVars
  BY <1>6, QuietStepKeeps
<1> QED BY <1>1, <1>2, <1>3, <1>4, <1>5, <1>6 DEF StoreStep

LEMMA StoreInvImplies == StoreInv => NodesInBuffer /\ LinksCurrent
<1> SUFFICES ASSUME StoreInv PROVE NodesInBuffer /\ LinksCurrent
  OBVIOUS
<1>1. NodesInBuffer
  <2> SUFFICES ASSUME NEW s \in Side, NEW o \in DOMAIN node[s]
               PROVE  METADATA_SIZE <= o /\ o + NodeBytes <= buffer[s].size
    BY DEF NodesInBuffer
  <2>1. /\ o \in Nat /\ buffer[s].fill \in Nat /\ buffer[s].size \in Nat
        /\ METADATA_SIZE <= o /\ o + NodeBytes <= buffer[s].fill
        /\ buffer[s].fill <= buffer[s].size
    BY DEF StoreInv, StoreTypes, NodesBelowFill, BufferFit
  <2> QED BY ONLY <2>1, SizesAssumption
<1>2. LinksCurrent
  BY HeldTyped DEF StoreInv, LinksInBuffer, HeldIsLast, LinksCurrent
<1> QED BY <1>1, <1>2

\* Whoever calls insertNeighbors, in whatever order: no list node runs over the end of
\* its buffer, and no pointer outlives a resize.
THEOREM StoreIsSound == StoreSpec => [](NodesInBuffer /\ LinksCurrent)
<1>1. StoreInv /\ [StoreNext]_storeVars => StoreInv'
  BY StoreStepKeeps, CallKeeps DEF StoreNext
<1> QED BY <1>1, StoreInvInit, StoreInvImplies, PTL DEF StoreSpec

-----------------------------------------------------------------------------
(* The list of a node *)

\* ListFrom, of the list nodes in a buffer and the number of the buffer.
Unrolled(nodes, b) ==
  LET from[o \in DOMAIN nodes] ==
        nodes[o].neighbor \o
          (IF nodes[o].next.base = b THEN from[nodes[o].next.off] ELSE <<>>)
  IN from

\* The equation at o.
Unrolls(nodes, b, from, o) ==
  from[o] = nodes[o].neighbor \o
              (IF nodes[o].next.base = b THEN from[nodes[o].next.off] ELSE <<>>)

\* Links lead further on, and not beyond some offset.
WellLinked(nodes, b) ==
  /\ b \in Nat /\ DOMAIN nodes \subseteq Nat /\ nodes \in [DOMAIN nodes -> ListNodes]
  /\ \E f \in Nat : \A o \in DOMAIN nodes : o < f
  /\ \A o \in DOMAIN nodes :
       nodes[o].next # NULL =>
         /\ nodes[o].next.base = b
         /\ nodes[o].next.off \in DOMAIN nodes /\ o < nodes[o].next.off

LEMMA LinkOrNot ==
  ASSUME NEW nodes, NEW b, WellLinked(nodes, b), NEW o \in DOMAIN nodes
  PROVE  /\ nodes[o].next.base = b <=> nodes[o].next # NULL
         /\ nodes[o].next.base = b => /\ nodes[o].next.off \in DOMAIN nodes
                                      /\ o < nodes[o].next.off
         /\ o \in Nat /\ nodes[o].neighbor \in Seq(Nodes)
<1>1. b # -1
  BY DEF WellLinked
<1>2. NULL.base = -1
  BY DEF NULL, Pointer
<1>3. nodes[o] \in ListNodes /\ o \in Nat
  BY DEF WellLinked
<1> QED BY <1>1, <1>2, <1>3 DEF WellLinked, ListNodes

\* What holds of a list node as soon as it holds of those further on, holds of all.
LEMMA FromTheEnd ==
  ASSUME NEW D \in SUBSET Nat, NEW f \in Nat, \A o \in D : o < f, NEW G,
         \A o \in D : (\A p \in D : o < p => p \in G) => o \in G
  PROVE  D \subseteq G
<1> SUFFICES ASSUME D \ G # {} PROVE FALSE
  OBVIOUS
<1> DEFINE U == {f - x : x \in D \ G}
<1>1. U \subseteq Nat /\ U # {}
  <2>1. \A x \in D \ G : f - x \in Nat
    OBVIOUS
  <2>2. PICK x \in D \ G : TRUE
    OBVIOUS
  <2>3. f - x \in U
    OBVIOUS
  <2> QED BY <2>1, <2>3
<1>2. PICK m \in U : \A y \in U : m <= y
  BY <1>1, LeastNat
<1>4. PICK x \in D \ G : m = f - x
  BY <1>2
<1>5. \A p \in D : x < p => p \in G
  <2> SUFFICES ASSUME NEW p \in D, x < p, p \notin G PROVE FALSE
    OBVIOUS
  <2>1. f - p \in U /\ f - p \in Nat /\ f - x \in Nat /\ f - p < f - x
    OBVIOUS
  <2>2. f - x <= f - p
    BY <1>2, <1>4, <2>1
  <2> QED BY ONLY <2>1, <2>2
<1> QED BY <1>4, <1>5

\* The recursive function exists: from the last list node backwards.
LEMMA UnrolledEquation ==
  ASSUME NEW nodes, NEW b, WellLinked(nodes, b)
  PROVE  \A o \in DOMAIN nodes : Unrolls(nodes, b, Unrolled(nodes, b), o)
<1> DEFINE D == DOMAIN nodes
           At(from, o) == nodes[o].neighbor \o
                            (IF nodes[o].next.base = b THEN from[nodes[o].next.off] ELSE <<>>)
           Rec(from) == from = [o \in D |-> At(from, o)]
<1>1. PICK f \in Nat : \A o \in D : o < f
  BY DEF WellLinked
<1>2. \A o \in D : o \in Nat /\ (nodes[o].next.base = b =>
                      nodes[o].next.off \in D /\ o < nodes[o].next.off)
  BY LinkOrNot
<1> DEFINE T == {k \in Nat : \E g : /\ g = [o \in D |-> g[o]]
                                    /\ \A o \in D : f <= o + k => g[o] = At(g, o)}
<1>3. 0 \in T
  <2> DEFINE g == [o \in D |-> <<>>]
  <2>1. \A o \in D : ~(f <= o + 0)
    BY <1>1, <1>2
  <2>2. g = [o \in D |-> g[o]]
    OBVIOUS
  <2> QED BY <2>1, <2>2
<1>4. \A k \in T : k + 1 \in T
  <2> SUFFICES ASSUME NEW k \in Nat, NEW g, g = [o \in D |-> g[o]],
                      \A o \in D : f <= o + k => g[o] = At(g, o)
               PROVE  k + 1 \in T
    OBVIOUS
  <2> HIDE DEF At
  <2> DEFINE h == [o \in D |-> IF f <= o + k THEN g[o] ELSE At(g, o)]
  <2>1. h = [o \in D |-> h[o]] /\ \A o \in D : f <= o + k => h[o] = g[o]
    OBVIOUS
  <2>2. \A o \in D : ~(f <= o + k) => h[o] = At(g, o)
    OBVIOUS
  <2> HIDE DEF h
  <2>3. \A o \in D : f <= o + (k + 1) => At(h, o) = At(g, o)
    <3> SUFFICES ASSUME NEW o \in D, f <= o + (k + 1) PROVE At(h, o) = At(g, o)
      OBVIOUS
    <3>1. CASE nodes[o].next.base = b
      <4>1. nodes[o].next.off \in D /\ f <= nodes[o].next.off + k
        <5>1. nodes[o].next.off \in D /\ o < nodes[o].next.off /\ o \in Nat
              /\ nodes[o].next.off \in Nat
          BY <1>2, <3>1
        <5> QED BY ONLY <5>1, f \in Nat, k \in Nat, f <= o + (k + 1)
      <4> QED BY <2>1, <4>1 DEF At
    <3>2. CASE nodes[o].next.base # b
      BY <3>2 DEF At
    <3> QED BY <3>1, <3>2
  <2>4. \A o \in D : f <= o + (k + 1) => h[o] = At(h, o)
    BY <2>1, <2>2, <2>3
  <2> QED BY <2>1, <2>4
<1>5. T \in SUBSET Nat
  OBVIOUS
<1> HIDE DEF T
<1>6. T = Nat
  BY <1>3, <1>4, <1>5, SetInduction
<1>7. \E g : Rec(g)
  <2>1. PICK g : g = [o \in D |-> g[o]] /\ \A o \in D : f <= o + f => g[o] = At(g, o)
    <3>1. f \in T
      BY <1>6
    <3> QED BY <3>1 DEF T
  <2>2. \A o \in D : f <= o + f
    BY <1>2
  <2> HIDE DEF At
  <2>3. \A o \in D : g[o] = At(g, o)
    BY <2>1, <2>2
  <2> QED BY <2>1, <2>3
<1>8. Unrolled(nodes, b) = CHOOSE g : Rec(g)
  BY DEF Unrolled
<1>9. Rec(Unrolled(nodes, b))
  <2> HIDE DEF Rec
  <2> QED BY <1>7, <1>8
<1> DEFINE F == Unrolled(nodes, b)
<1>10. F = [o \in D |-> At(F, o)]
  BY <1>9
<1> HIDE DEF F, At
<1>11. \A o \in D : F[o] = At(F, o)
  BY <1>10
<1> QED BY <1>11 DEF Unrolls, F, At

\* It gives sequences of nodes.
LEMMA UnrolledTyped ==
  ASSUME NEW nodes, NEW b, WellLinked(nodes, b)
  PROVE  \A o \in DOMAIN nodes : Unrolled(nodes, b)[o] \in Seq(Nodes)
<1> DEFINE D == DOMAIN nodes
           F == Unrolled(nodes, b)
           G == {o \in D : F[o] \in Seq(Nodes)}
<1>1. PICK f \in Nat : \A o \in D : o < f
  BY DEF WellLinked
<1>2. D \in SUBSET Nat
  BY DEF WellLinked
<1>3. \A o \in D : Unrolls(nodes, b, F, o)
  BY UnrolledEquation
<1> HIDE DEF F
<1>4. ASSUME NEW o \in D, \A p \in D : o < p => p \in G PROVE o \in G
  <2>1. CASE nodes[o].next.base = b
    <3>1. nodes[o].next.off \in D /\ o < nodes[o].next.off /\ nodes[o].neighbor \in Seq(Nodes)
      BY <2>1, LinkOrNot
    <3>2. F[nodes[o].next.off] \in Seq(Nodes)
      BY <3>1, <1>4
    <3>3. F[o] = nodes[o].neighbor \o F[nodes[o].next.off]
      BY <2>1, <1>3 DEF Unrolls
    <3> QED BY <3>1, <3>2, <3>3, ConcatProperties
  <2>2. CASE nodes[o].next.base # b
    <3>1. nodes[o].neighbor \in Seq(Nodes)
      BY LinkOrNot
    <3>2. F[o] = nodes[o].neighbor \o <<>>
      BY <2>2, <1>3 DEF Unrolls
    <3> QED BY <3>1, <3>2, ConcatEmptySeq
  <2> QED BY <2>1, <2>2
<1> HIDE DEF G
<1>5. D \subseteq G
  BY <1>1, <1>2, <1>4, FromTheEnd
<1> QED BY <1>5 DEF G, F

\* A list node may move, and an empty one may be put behind the last: the lists stay.
LEMMA UnrolledSame ==
  ASSUME NEW m, NEW b, NEW n, NEW c, WellLinked(m, b), WellLinked(n, c),
         DOMAIN m \subseteq DOMAIN n,
         \A o \in DOMAIN m : n[o].neighbor = m[o].neighbor,
         \A o \in DOMAIN m : m[o].next # NULL =>
           n[o].next # NULL /\ n[o].next.off = m[o].next.off,
         \A o \in DOMAIN m : m[o].next = NULL /\ n[o].next # NULL =>
           n[n[o].next.off] = NewListNode
  PROVE  \A o \in DOMAIN m : Unrolled(n, c)[o] = Unrolled(m, b)[o]
<1> DEFINE D == DOMAIN m
           F == Unrolled(m, b)
           H == Unrolled(n, c)
           G == {o \in D : H[o] = F[o]}
<1>1. PICK f \in Nat : \A o \in D : o < f
  BY DEF WellLinked
<1>2. D \in SUBSET Nat
  BY DEF WellLinked
<1>3. /\ \A o \in D : Unrolls(m, b, F, o)
      /\ \A o \in DOMAIN n : Unrolls(n, c, H, o)
      /\ \A o \in D : n[o].neighbor = m[o].neighbor
  BY UnrolledEquation
<1>4. \A o \in D : m[o].next.base = b <=> m[o].next # NULL
  BY LinkOrNot
<1>5. \A o \in D : m[o].next.base = b => m[o].next.off \in D /\ o < m[o].next.off
  BY LinkOrNot
<1>6. \A o \in DOMAIN n : /\ n[o].next.base = c <=> n[o].next # NULL
                          /\ n[o].next.base = c => n[o].next.off \in DOMAIN n
  BY LinkOrNot
<1>7. \A o \in DOMAIN n : n[o] = NewListNode => H[o] = <<>>
  <2> SUFFICES ASSUME NEW o \in DOMAIN n, n[o] = NewListNode PROVE H[o] = <<>>
    OBVIOUS
  <2>1. n[o].neighbor = <<>> /\ n[o].next = NULL
    BY DEF NewListNode
  <2>2. n[o].next.base # c
    BY <1>6, <2>1
  <2>3. H[o] = <<>> \o <<>>
    BY <1>3, <2>1, <2>2 DEF Unrolls
  <2> QED BY <2>3
<1> HIDE DEF F, H
<1>8. ASSUME NEW o \in D, \A p \in D : o < p => p \in G PROVE o \in G
  <2>1. CASE m[o].next # NULL
    <3>1. m[o].next.off \in D /\ o < m[o].next.off
      BY <2>1, <1>4, <1>5
    <3>2. H[m[o].next.off] = F[m[o].next.off]
      BY <3>1, <1>8
    <3>3. n[o].next.base = c /\ n[o].next.off = m[o].next.off
      BY <2>1, <1>6
    <3>4. H[o] = n[o].neighbor \o H[n[o].next.off]
      BY <3>3, <1>3 DEF Unrolls
    <3>5. F[o] = m[o].neighbor \o F[m[o].next.off]
      BY <2>1, <1>3, <1>4 DEF Unrolls
    <3>6. H[o] = F[o]
      BY ONLY <3>2, <3>3, <3>4, <3>5, <1>3, o \in D
    <3> QED BY <3>6
  <2>2. CASE m[o].next = NULL
    <3>1. F[o] = m[o].neighbor \o <<>>
      BY <2>2, <1>3, <1>4 DEF Unrolls
    <3>2. H[o] = n[o].neighbor \o <<>>
      <4>1. CASE n[o].next = NULL
        BY <4>1, <1>3, <1>6 DEF Unrolls
      <4>2. CASE n[o].next # NULL
        <5>1. n[o].next.base = c /\ n[o].next.off \in DOMAIN n
          BY <4>2, <1>6
        <5>2. H[n[o].next.off] = <<>>
          BY <2>2, <4>2, <5>1, <1>7
        <5> QED BY <5>1, <5>2, <1>3 DEF Unrolls
      <4> QED BY <4>1, <4>2
    <3> QED BY <3>1, <3>2, <1>3
  <2> QED BY <2>1, <2>2
<1> HIDE DEF G
<1>9. D \subseteq G
  BY <1>1, <1>2, <1>8, FromTheEnd
<1> QED BY <1>9 DEF G, F, H

LEMMA ConcatAppend ==
  ASSUME NEW S, NEW s \in Seq(S), NEW t \in Seq(S), NEW v \in S
  PROVE  s \o Append(t, v) = Append(s \o t, v)
<1>1. Append(t, v) = t \o <<v>>
  BY AppendIsConcat
<1>2. s \o t \in Seq(S)
  BY ConcatProperties
<1>3. Append(s \o t, v) = (s \o t) \o <<v>>
  BY <1>2, AppendIsConcat
<1>4. <<v>> \in Seq(S)
  OBVIOUS
<1> QED BY <1>1, <1>3, <1>4, ConcatAssociative

\* From m to n, the neighbour v is put into t, the last of the list nodes C.
PutLast(m, n, C, t, v) ==
  /\ DOMAIN n = DOMAIN m /\ t \in C /\ t \in DOMAIN m /\ v \in Nodes
  /\ m[t].next = NULL /\ n[t].next = NULL /\ n[t].neighbor = Append(m[t].neighbor, v)
  /\ \A o \in DOMAIN m :
       /\ o # t => n[o] = m[o]
       /\ m[o].next # NULL => (m[o].next.off \in C <=> o \in C)
       /\ o \in C /\ m[o].next = NULL => o = t

\* It is the last of the lists from any of these, and of no others.
LEMMA UnrolledAppended ==
  ASSUME NEW m, NEW n, NEW b, WellLinked(m, b), WellLinked(n, b),
         NEW C, NEW t, NEW v, PutLast(m, n, C, t, v)
  PROVE  \A o \in DOMAIN m :
           Unrolled(n, b)[o] = IF o \in C THEN Append(Unrolled(m, b)[o], v) ELSE Unrolled(m, b)[o]
<1> DEFINE D == DOMAIN m
           F == Unrolled(m, b)
           H == Unrolled(n, b)
           G == {o \in D : H[o] = IF o \in C THEN Append(F[o], v) ELSE F[o]}
<1>  /\ DOMAIN n = DOMAIN m /\ t \in C /\ t \in D /\ v \in Nodes
      /\ m[t].next = NULL /\ n[t].next = NULL /\ n[t].neighbor = Append(m[t].neighbor, v)
      /\ \A o \in D : /\ o # t => n[o] = m[o]
                      /\ m[o].next # NULL => (m[o].next.off \in C <=> o \in C)
                      /\ o \in C /\ m[o].next = NULL => o = t
  BY DEF PutLast
<1>1. PICK f \in Nat : \A o \in D : o < f
  BY DEF WellLinked
<1>2. D \in SUBSET Nat
  BY DEF WellLinked
<1>3. /\ \A o \in D : Unrolls(m, b, F, o)
      /\ \A o \in D : Unrolls(n, b, H, o)
      /\ \A o \in D : F[o] \in Seq(Nodes)
  BY UnrolledEquation, UnrolledTyped
<1>4. \A o \in D : m[o].next.base = b <=> m[o].next # NULL
  BY LinkOrNot
<1>5. \A o \in D : m[o].next # NULL => m[o].next.off \in D /\ o < m[o].next.off
  BY LinkOrNot
<1>6. \A o \in D : m[o].neighbor \in Seq(Nodes)
  BY LinkOrNot
<1>7. NULL.base # b
  BY <1>4
<1> HIDE DEF F, H
<1>8. ASSUME NEW o \in D, \A p \in D : o < p => p \in G PROVE o \in G
  <2>1. CASE o = t
    <3>1. H[o] = Append(m[o].neighbor, v) \o <<>> /\ F[o] = m[o].neighbor \o <<>>
      BY <2>1, <1>3, <1>7 DEF Unrolls
    <3>2. F[o] = m[o].neighbor /\ H[o] = Append(m[o].neighbor, v)
      <4>1. Append(m[o].neighbor, v) \in Seq(Nodes)
        BY <1>6, AppendProperties
      <4> QED BY ONLY <3>1, <4>1, <1>6, o \in D, ConcatEmptySeq
    <3> QED BY <2>1, <3>2
  <2>2. CASE o # t /\ m[o].next = NULL
    <3>1. n[o] = m[o] /\ o \notin C
      BY <2>2
    <3>2. F[o] = m[o].neighbor \o <<>>
      BY ONLY <2>2, <1>3, <1>7, o \in D DEF Unrolls
    <3>3. H[o] = n[o].neighbor \o <<>>
      <4>1. Unrolls(n, b, H, o)
        BY <1>3
      <4>2. n[o].next.base # b
        BY <2>2, <3>1, <1>7
      <4> QED BY ONLY <4>1, <4>2 DEF Unrolls
    <3> QED BY <3>1, <3>2, <3>3
  <2>3. CASE o # t /\ m[o].next # NULL
    <3> DEFINE p == m[o].next.off
    <3>1. /\ p \in D /\ p \in G /\ n[o] = m[o] /\ (p \in C <=> o \in C)
          /\ m[o].next.base = b
      BY <2>3, <1>4, <1>5, <1>8
    <3>2. H[o] = m[o].neighbor \o H[p] /\ F[o] = m[o].neighbor \o F[p]
      BY <3>1, <1>3 DEF Unrolls
    <3>3. CASE o \notin C
      <4>1. H[p] = F[p]
        BY <3>1, <3>3
      <4>2. H[o] = F[o]
        BY ONLY <3>2, <4>1
      <4> QED BY <3>3, <4>2
    <3>4. CASE o \in C
      <4>1. H[p] = Append(F[p], v) /\ F[p] \in Seq(Nodes) /\ m[o].neighbor \in Seq(Nodes)
        BY <3>1, <3>4, <1>3, <1>6
      <4> HIDE DEF p
      <4>2. H[o] = Append(F[o], v)
        <5> DEFINE front == m[o].neighbor
        <5>1. F[p] \in Seq(Nodes) /\ front \in Seq(Nodes)
          BY <4>1
        <5> HIDE DEF front
        <5>2. front \o Append(F[p], v) = Append(front \o F[p], v)
          BY ONLY <5>1, v \in Nodes, ConcatAppend
        <5> QED BY ONLY <3>2, <4>1, <5>2 DEF front
      <4> QED BY <3>4, <4>2
    <3> QED BY <3>3, <3>4
  <2> QED BY <2>1, <2>2, <2>3
<1> HIDE DEF G
<1>9. D \subseteq G
  BY <1>1, <1>2, <1>8, FromTheEnd
<1> QED BY <1>9 DEF G, F, H

LEMMA StoreLinked == StoreInv => \A s \in Side : WellLinked(node[s], buffer[s].base)
<1> SUFFICES ASSUME StoreInv, NEW s \in Side PROVE WellLinked(node[s], buffer[s].base)
  OBVIOUS
<1>1. /\ buffer[s].base \in Nat /\ DOMAIN node[s] \subseteq Nat
      /\ node[s] \in [DOMAIN node[s] -> ListNodes]
  BY DEF StoreInv, StoreTypes
<1>2. \E f \in Nat : \A o \in DOMAIN node[s] : o < f
  BY FillIsFree
<1> QED BY <1>1, <1>2 DEF StoreInv, LinksInBuffer, WellLinked

LEMMA StoreLinkedNext == StoreInv' => \A s \in Side : WellLinked(node'[s], buffer'[s].base)
<1>1. (StoreInv => \A s \in Side : WellLinked(node[s], buffer[s].base))'
  BY StoreLinked, PTL
<1> QED BY <1>1 DEF WellLinked

LEMMA ListUnrolled ==
  ASSUME NEW s \in Side, NEW u \in Nodes
  PROVE  /\ index[s].head[u] = -1 => List(s, u) = <<>>
         /\ index[s].head[u] # -1 =>
              List(s, u) = Unrolled(node[s], buffer[s].base)[index[s].head[u]]
         /\ index'[s].head[u] = -1 => List(s, u)' = <<>>
         /\ index'[s].head[u] # -1 =>
              List(s, u)' = Unrolled(node'[s], buffer'[s].base)[index'[s].head[u]]
  BY Zenon DEF List, ListFrom, Unrolled

-----------------------------------------------------------------------------
(* Whose a list node is *)

\* own says whose a list node is: a list begins and ends with list nodes of its
\* node, links lead from one of them to another, and only the last has none.
Owners(own) ==
  \A s \in Side :
    /\ \A u \in Nodes :
         index[s].head[u] # -1 =>
           /\ index[s].head[u] \in DOMAIN node[s] /\ index[s].tail[u] \in DOMAIN node[s]
           /\ own[s][index[s].head[u]] = u /\ own[s][index[s].tail[u]] = u
           /\ node[s][index[s].tail[u]].next = NULL
    /\ \A o \in DOMAIN node[s] :
         /\ own[s][o] \in Nodes /\ index[s].head[own[s][o]] # -1
         /\ node[s][o].next # NULL => own[s][node[s][o].next.off] = own[s][o]
         /\ node[s][o].next = NULL => o = index[s].tail[own[s][o]]

Owned == \E own : Owners(own)

\* What the step does to the lists.
ListsStay == \A s \in Side, u \in Nodes : List(s, u)' = List(s, u)

ListGrows(v) ==
  \A s \in Side, u \in Nodes :
    List(s, u)' = IF s = side /\ u = owner THEN Append(List(s, u), v) ELSE List(s, u)

\* Links that stay, in list nodes that stay.
LEMMA OwnersStay ==
  ASSUME NEW own, Owners(own), StoreInv,
         \A s \in Side : index'[s].head = index[s].head /\ index'[s].tail = index[s].tail,
         \A s \in Side : DOMAIN node'[s] = DOMAIN node[s],
         \A s \in Side : \A o \in DOMAIN node[s] :
           /\ node'[s][o].next = NULL <=> node[s][o].next = NULL
           /\ node'[s][o].next.off = node[s][o].next.off
  PROVE  Owners(own)'
<1> SUFFICES ASSUME NEW s \in Side
             PROVE  /\ \A u \in Nodes :
                         index'[s].head[u] # -1 =>
                           /\ index'[s].head[u] \in DOMAIN node'[s]
                           /\ index'[s].tail[u] \in DOMAIN node'[s]
                           /\ own[s][index'[s].head[u]] = u /\ own[s][index'[s].tail[u]] = u
                           /\ node'[s][index'[s].tail[u]].next = NULL
                    /\ \A o \in DOMAIN node'[s] :
                         /\ own[s][o] \in Nodes /\ index'[s].head[own[s][o]] # -1
                         /\ node'[s][o].next # NULL => own[s][node'[s][o].next.off] = own[s][o]
                         /\ node'[s][o].next = NULL => o = index'[s].tail[own[s][o]]
  BY DEF Owners
<1>1. /\ \A u \in Nodes :
           index[s].head[u] # -1 =>
             /\ index[s].head[u] \in DOMAIN node[s] /\ index[s].tail[u] \in DOMAIN node[s]
             /\ own[s][index[s].head[u]] = u /\ own[s][index[s].tail[u]] = u
             /\ node[s][index[s].tail[u]].next = NULL
      /\ \A o \in DOMAIN node[s] :
           /\ own[s][o] \in Nodes /\ index[s].head[own[s][o]] # -1
           /\ node[s][o].next # NULL => own[s][node[s][o].next.off] = own[s][o]
           /\ node[s][o].next = NULL => o = index[s].tail[own[s][o]]
  BY DEF Owners
<1>2. /\ index'[s].head = index[s].head /\ index'[s].tail = index[s].tail
      /\ DOMAIN node'[s] = DOMAIN node[s]
      /\ \A o \in DOMAIN node[s] :
           /\ node'[s][o].next = NULL <=> node[s][o].next = NULL
           /\ node'[s][o].next.off = node[s][o].next.off
  OBVIOUS
<1> QED BY ONLY <1>1, <1>2

LEMMA GrowLists ==
  ASSUME StoreInv, StoreInv', NEW own, Owners(own), Grow
  PROVE  Owners(own)' /\ ListsStay
<1>0. index' = index
  BY DEF Grow
<1>1. ASSUME NEW s \in Side, NEW o \in DOMAIN node[s]
      PROVE  /\ node'[s][o].neighbor = node[s][o].neighbor
             /\ node'[s][o].next = NULL <=> node[s][o].next = NULL
             /\ node'[s][o].next.off = node[s][o].next.off
  <2>1. CASE s # side
    BY <2>1, GrowEffect
  <2>2. CASE s = side
    <3>1. /\ node'[s][o].neighbor = node[s][o].neighbor
          /\ node'[s][o].next = Relocated(node[s][o].next, buffer[s].base)
      BY <2>2, GrowEffect
    <3>2. /\ node[s][o].next.base = buffer[s].base <=> node[s][o].next # NULL
          /\ buffer[s].base \in Nat
      BY StoreLinked, LinkOrNot DEF WellLinked
    <3>3. Pointer(buffer[s].base + 1, node[s][o].next.off) # NULL
          /\ Pointer(buffer[s].base + 1, node[s][o].next.off).off = node[s][o].next.off
      BY <3>2 DEF Pointer, NULL
    <3> QED BY <3>1, <3>2, <3>3 DEF Relocated
  <2> QED BY <2>1, <2>2
<1>2. \A s \in Side : DOMAIN node'[s] = DOMAIN node[s]
  BY GrowEffect
<1>3. Owners(own)'
  BY <1>0, <1>1, <1>2, OwnersStay
<1>4. ASSUME NEW s \in Side, NEW u \in Nodes PROVE List(s, u)' = List(s, u)
  <2>1. WellLinked(node[s], buffer[s].base) /\ WellLinked(node'[s], buffer'[s].base)
    BY StoreLinked, StoreLinkedNext
  <2>2. \A o \in DOMAIN node[s] :
          Unrolled(node'[s], buffer'[s].base)[o] = Unrolled(node[s], buffer[s].base)[o]
    BY <2>1, <1>1, <1>2, UnrolledSame
  <2>3. index[s].head[u] # -1 => index[s].head[u] \in DOMAIN node[s]
    BY DEF Owners
  <2> QED BY <2>2, <2>3, <1>0, ListUnrolled
<1> QED BY <1>3, <1>4 DEF ListsStay

\* A new last list node of the owner, linked behind the one that was the last.
LEMMA OwnersExtended ==
  ASSUME StoreInv, NEW own, Owners(own), side \in Side, owner \in Nodes,
         NEW x \in Nat, x = buffer[side].fill,
         NEW own2, own2[side][x] = owner,
         \A s \in Side : \A p \in DOMAIN node[s] : own2[s][p] = own[s][p],
         \A s \in Side \ {side} : node'[s] = node[s],
         DOMAIN node'[side] = DOMAIN node[side] \cup {x},
         node'[side][x].next = NULL,
         NEW last \in Int, last = IF index[side].head[owner] = -1 THEN -1
                                 ELSE index[side].tail[owner],
         \A p \in DOMAIN node[side] : p = last =>
           node'[side][p].next # NULL /\ node'[side][p].next.off = x,
         \A p \in DOMAIN node[side] : p # last => node'[side][p].next = node[side][p].next,
         index'[side].tail[owner] = x,
         index[side].head[owner] = -1 => index'[side].head[owner] = x,
         index[side].head[owner] # -1 => index'[side].head[owner] = index[side].head[owner],
         \A s \in Side, u \in Nodes : s # side \/ u # owner =>
           index'[s].head[u] = index[s].head[u] /\ index'[s].tail[u] = index[s].tail[u]
  PROVE  Owners(own2)'
<1>1. x \notin DOMAIN node[side] /\ x # -1
  BY FillIsFree
<1>2. /\ \A s \in Side : \A p \in DOMAIN node[s] : own2[s][p] = own[s][p]
      /\ own2[side][x] = owner
  OBVIOUS
<1>3. ASSUME NEW s \in Side, NEW p \in DOMAIN node[s], node[s][p].next # NULL
      PROVE  node[s][p].next.off \in DOMAIN node[s]
  BY <1>3 DEF StoreInv, LinksInBuffer
<1>4. -1 \notin DOMAIN node[side]
  BY DEF StoreInv, StoreTypes
<1>6. ASSUME NEW s \in Side
      PROVE  /\ \A u \in Nodes :
                  index'[s].head[u] # -1 =>
                    /\ index'[s].head[u] \in DOMAIN node'[s]
                    /\ index'[s].tail[u] \in DOMAIN node'[s]
                    /\ own2[s][index'[s].head[u]] = u /\ own2[s][index'[s].tail[u]] = u
                    /\ node'[s][index'[s].tail[u]].next = NULL
             /\ \A p \in DOMAIN node'[s] :
                  /\ own2[s][p] \in Nodes /\ index'[s].head[own2[s][p]] # -1
                  /\ node'[s][p].next # NULL =>
                       own2[s][node'[s][p].next.off] = own2[s][p]
                  /\ node'[s][p].next = NULL => p = index'[s].tail[own2[s][p]]
  <2>4. CASE s # side
    <3>1. /\ node'[s] = node[s]
          /\ \A u \in Nodes : /\ index'[s].head[u] = index[s].head[u]
                              /\ index'[s].tail[u] = index[s].tail[u]
      BY <2>4
    <3>2. /\ \A u \in Nodes :
               index[s].head[u] # -1 =>
                 /\ index[s].head[u] \in DOMAIN node[s] /\ index[s].tail[u] \in DOMAIN node[s]
                 /\ own[s][index[s].head[u]] = u /\ own[s][index[s].tail[u]] = u
                 /\ node[s][index[s].tail[u]].next = NULL
          /\ \A p \in DOMAIN node[s] :
               /\ own[s][p] \in Nodes /\ index[s].head[own[s][p]] # -1
               /\ node[s][p].next # NULL => own[s][node[s][p].next.off] = own[s][p]
               /\ node[s][p].next = NULL => p = index[s].tail[own[s][p]]
      BY DEF Owners
    <3>3. \A p \in DOMAIN node[s] : own2[s][p] = own[s][p]
      BY <1>2
    <3>4. \A p \in DOMAIN node[s] : node[s][p].next # NULL => node[s][p].next.off \in DOMAIN node[s]
      BY <1>3
    <3>5. ASSUME NEW u \in Nodes, index'[s].head[u] # -1
          PROVE  /\ index'[s].head[u] \in DOMAIN node'[s]
                 /\ index'[s].tail[u] \in DOMAIN node'[s]
                 /\ own2[s][index'[s].head[u]] = u /\ own2[s][index'[s].tail[u]] = u
                 /\ node'[s][index'[s].tail[u]].next = NULL
      <4>1. /\ index'[s].head[u] = index[s].head[u] /\ index'[s].tail[u] = index[s].tail[u]
            /\ node'[s] = node[s]
        BY <3>1
      <4>2. /\ index[s].head[u] \in DOMAIN node[s] /\ index[s].tail[u] \in DOMAIN node[s]
            /\ own[s][index[s].head[u]] = u /\ own[s][index[s].tail[u]] = u
            /\ node[s][index[s].tail[u]].next = NULL
        BY ONLY <3>2, <3>5, <4>1, u \in Nodes
      <4> QED BY ONLY <3>3, <4>1, <4>2
    <3>6. ASSUME NEW p \in DOMAIN node'[s]
          PROVE  /\ own2[s][p] \in Nodes /\ index'[s].head[own2[s][p]] # -1
                 /\ node'[s][p].next # NULL => own2[s][node'[s][p].next.off] = own2[s][p]
                 /\ node'[s][p].next = NULL => p = index'[s].tail[own2[s][p]]
      BY ONLY <3>1, <3>2, <3>3, <3>4, p \in DOMAIN node'[s]
    <3> QED BY <3>5, <3>6
  <2>5. CASE s = side
    <3>1. ASSUME NEW u \in Nodes, index'[s].head[u] # -1
          PROVE  /\ index'[s].head[u] \in DOMAIN node'[s]
                 /\ index'[s].tail[u] \in DOMAIN node'[s]
                 /\ own2[s][index'[s].head[u]] = u /\ own2[s][index'[s].tail[u]] = u
                 /\ node'[s][index'[s].tail[u]].next = NULL
      <4>1. CASE u = owner
        <5>1. /\ index'[s].tail[u] = x /\ x \in DOMAIN node'[s] /\ own2[s][x] = u
              /\ node'[s][x].next = NULL
          BY <2>5, <4>1
        <5>2. CASE index[side].head[owner] = -1
          BY <2>5, <4>1, <5>1, <5>2
        <5>3. CASE index[side].head[owner] # -1
          <6>1. index[side].head[owner] \in DOMAIN node[side] /\ own[side][index[side].head[owner]] = owner
            BY <5>3 DEF Owners
          <6>2. index'[s].head[u] \in DOMAIN node'[s] /\ own2[s][index'[s].head[u]] = u
            BY <1>2, <2>5, <4>1, <5>3, <6>1
          <6> QED BY <5>1, <6>2
        <5> QED BY <5>2, <5>3
      <4>2. CASE u # owner
        <5>1. /\ index'[s].head[u] = index[s].head[u] /\ index'[s].tail[u] = index[s].tail[u]
              /\ index[s].head[u] # -1
          BY <3>1, <4>2
        <5>2. /\ index[s].head[u] \in DOMAIN node[s] /\ index[s].tail[u] \in DOMAIN node[s]
              /\ own[s][index[s].head[u]] = u /\ own[s][index[s].tail[u]] = u
              /\ node[s][index[s].tail[u]].next = NULL
          BY <5>1 DEF Owners
        <5>3. index[s].tail[u] # last
          <6>1. CASE index[side].head[owner] = -1
            BY <1>4, <2>5, <5>2, <6>1
          <6>2. CASE index[side].head[owner] # -1
            BY <2>5, <4>2, <5>2, <6>2 DEF Owners
          <6> QED BY <6>1, <6>2
        <5>4. node'[s][index[s].tail[u]].next = NULL
          BY <2>5, <5>2, <5>3
        <5> QED BY <1>2, <2>5, <5>1, <5>2, <5>4
      <4> QED BY <4>1, <4>2
    <3>2. ASSUME NEW p \in DOMAIN node'[s]
          PROVE  /\ own2[s][p] \in Nodes /\ index'[s].head[own2[s][p]] # -1
                 /\ node'[s][p].next # NULL => own2[s][node'[s][p].next.off] = own2[s][p]
                 /\ node'[s][p].next = NULL => p = index'[s].tail[own2[s][p]]
      <4>1. CASE p = x
        BY <1>1, <1>2, <2>5, <4>1
      <4>2. CASE p # x
        <5>1. /\ p \in DOMAIN node[s] /\ own2[s][p] = own[s][p]
              /\ own[s][p] \in Nodes /\ index[s].head[own[s][p]] # -1
              /\ node[s][p].next # NULL => own[s][node[s][p].next.off] = own[s][p]
              /\ node[s][p].next = NULL => p = index[s].tail[own[s][p]]
          <6>1. p \in DOMAIN node[s]
            BY <2>5, <3>2, <4>2
          <6> QED BY ONLY <6>1, <1>2, s \in Side, Owners(own) DEF Owners
        <5>2. index'[s].head[own[s][p]] # -1
          BY <1>1, <2>5, <5>1
        <5>3. CASE p = last
          <6>1. own[s][p] = owner
            <7>1. index[side].head[owner] # -1 /\ p = index[side].tail[owner]
              <8>1. p \in DOMAIN node[side]
                BY ONLY <2>5, <5>1
              <8>2. p # -1
                BY ONLY <8>1, <1>4
              <8> QED BY ONLY <8>2, <5>3, last = IF index[side].head[owner] = -1 THEN -1
                                                 ELSE index[side].tail[owner]
            <7> QED BY ONLY <2>5, <7>1, owner \in Nodes, s \in Side, Owners(own) DEF Owners
          <6>2. node'[s][p].next # NULL /\ node'[s][p].next.off = x
            <7>1. p \in DOMAIN node[side]
              BY ONLY <2>5, <5>1
            <7>2. \A q \in DOMAIN node[side] : q = last =>
                    node'[side][q].next # NULL /\ node'[side][q].next.off = x
              OBVIOUS
            <7> QED BY ONLY <2>5, <5>3, <7>1, <7>2
          <6> QED BY <1>2, <2>5, <5>1, <5>2, <6>1, <6>2
        <5>4. CASE p # last
          <6>1. node'[s][p].next = node[s][p].next
            BY <2>5, <5>1, <5>4
          <6>2. node[s][p].next = NULL => own[s][p] # owner
            BY <2>5, <5>1, <5>4
          <6>3. node[s][p].next # NULL => own2[s][node[s][p].next.off] = own[s][p]
            BY <1>2, <1>3, <5>1
          <6> QED BY <2>5, <5>1, <5>2, <6>1, <6>2, <6>3
        <5> QED BY <5>3, <5>4
      <4> QED BY <4>1, <4>2
    <3> QED BY <3>1, <3>2
  <2> QED BY <2>4, <2>5
<1> QED BY ONLY <1>6 DEF Owners

LEMMA FirstListNodeLists ==
  ASSUME StoreInv, StoreInv', NEW own, Owners(own),
         connectIndexBuffer, index[side].head[owner] = -1
  PROVE  Owned' /\ ListsStay
<1>1. PICK x \in Nat : x = buffer[side].fill
  BY FirstListNodeEffect
<1>2. /\ side \in Side /\ owner \in Nodes /\ x \notin DOMAIN node[side]
      /\ DOMAIN node'[side] = DOMAIN node[side] \cup {x}
      /\ node'[side][x] = NewListNode
      /\ \A p \in DOMAIN node[side] : node'[side][p] = node[side][p]
      /\ \A t \in Side \ {side} : node'[t] = node[t]
      /\ index'[side].head[owner] = x /\ index'[side].tail[owner] = x
      /\ \A t \in Side, u \in Nodes :
           t # side \/ u # owner => /\ index'[t].head[u] = index[t].head[u]
                                    /\ index'[t].tail[u] = index[t].tail[u]
  BY ONLY <1>1, FirstListNodeEffect, StoreInv, connectIndexBuffer,
          index[side].head[owner] = -1
<1>3. NewListNode.next = NULL
  BY NewListNodeTyped
<1>4. PICK own2 : own2 = [s \in Side |-> [p \in DOMAIN node[s] \cup {x} |->
                            IF p \in DOMAIN node[s] THEN own[s][p] ELSE owner]]
  OBVIOUS
<1>5. Owners(own2)'
  <2>1. /\ own2[side][x] = owner
        /\ \A s \in Side : \A p \in DOMAIN node[s] : own2[s][p] = own[s][p]
    BY ONLY <1>2, <1>4
  <2>2. node'[side][x].next = NULL
    BY ONLY <1>2, <1>3
  <2>3. \A p \in DOMAIN node[side] : node'[side][p].next = node[side][p].next
    BY ONLY <1>2
  <2>4. PICK last \in Int : last = IF index[side].head[owner] = -1 THEN -1
                                   ELSE index[side].tail[owner]
    OBVIOUS
  <2>5. last \notin DOMAIN node[side]
    BY <1>2, <2>4 DEF StoreInv, StoreTypes
  <2>6. /\ index[side].head[owner] = -1 => index'[side].head[owner] = x
        /\ index[side].head[owner] # -1 =>
             index'[side].head[owner] = index[side].head[owner]
        /\ \A p \in DOMAIN node[side] : p = last =>
             node'[side][p].next # NULL /\ node'[side][p].next.off = x
    BY ONLY <1>2, <2>5, index[side].head[owner] = -1
  <2> QED BY ONLY <1>1, <1>2, <2>1, <2>2, <2>3, <2>4, <2>6, x \in Nat, last \in Int,
                  StoreInv, Owners(own), OwnersExtended
<1>6. Owned'
  BY <1>5 DEF Owned
<1>7. ASSUME NEW s \in Side, NEW u \in Nodes PROVE List(s, u)' = List(s, u)
  <2>1. WellLinked(node[s], buffer[s].base) /\ WellLinked(node'[s], buffer'[s].base)
    BY StoreLinked, StoreLinkedNext
  <2>2. DOMAIN node[s] \subseteq DOMAIN node'[s] /\ \A o \in DOMAIN node[s] : node'[s][o] = node[s][o]
    BY <1>2
  <2>3. \A o \in DOMAIN node[s] :
          Unrolled(node'[s], buffer'[s].base)[o] = Unrolled(node[s], buffer[s].base)[o]
    BY ONLY <2>1, <2>2, UnrolledSame
  <2>4. index[s].head[u] # -1 => index[s].head[u] \in DOMAIN node[s]
    BY DEF Owners
  <2>5. CASE s = side /\ u = owner
    <3>1. Unrolls(node'[side], buffer'[side].base, Unrolled(node'[side], buffer'[side].base), x)
      BY <1>2, <2>1, <2>5, UnrolledEquation
    <3>2. node'[side][x].neighbor = <<>> /\ node'[side][x].next.base # buffer'[side].base
      BY <1>2, <1>3, <2>1, <2>5, LinkOrNot DEF NewListNode
    <3>3. Unrolled(node'[side], buffer'[side].base)[x] = <<>>
      BY <3>1, <3>2 DEF Unrolls
    <3>4. x # -1
      BY <1>1
    <3> QED BY <1>2, <2>5, <3>3, <3>4, ListUnrolled
  <2>6. CASE s # side \/ u # owner
    BY <1>2, <2>3, <2>4, <2>6, ListUnrolled
  <2> QED BY <2>5, <2>6
<1> QED BY <1>6, <1>7 DEF ListsStay

LEMMA AddListNodeLists ==
  ASSUME StoreInv, StoreInv', NEW own, Owners(own), AddListNode
  PROVE  Owned' /\ ListsStay
<1>1. side \in Side /\ owner \in Nodes /\ step = "insert"
  BY AddListNodeEffect
<1>2. PICK x \in Nat : x = buffer[side].fill
  BY <1>1, FillIsFree
<1>3. /\ x \notin DOMAIN node[side] /\ buffer[side].base \in Nat
      /\ index[side].head[owner] # -1
  BY <1>1, <1>2, FillIsFree DEF StoreInv, StoreTypes, HeldIsLast
<1>4. /\ listNode.off = index[side].tail[owner] /\ listNode.off \in DOMAIN node[side]
      /\ node[side][listNode.off] \in ListNodes
      /\ DOMAIN node'[side] = DOMAIN node[side] \cup {x}
      /\ node'[side][x] = NewListNode
      /\ node'[side][listNode.off] = [node[side][listNode.off] EXCEPT
                                      !.next = Pointer(buffer[side].base, x)]
      /\ \A p \in DOMAIN node[side] \ {listNode.off} : node'[side][p] = node[side][p]
      /\ \A t \in Side \ {side} : node'[t] = node[t]
      /\ \A t \in Side : index'[t].head = index[t].head
      /\ index'[side].tail[owner] = x
      /\ \A t \in Side, u \in Nodes :
           t # side \/ u # owner => index'[t].tail[u] = index[t].tail[u]
  BY ONLY <1>2, AddListNodeEffect, StoreInv, AddListNode
<1>5. NewListNode.next = NULL /\ NewListNode.neighbor = <<>>
  BY NewListNodeTyped DEF NewListNode
<1>6. /\ node'[side][listNode.off].next # NULL /\ node'[side][listNode.off].next.off = x
      /\ node'[side][listNode.off].neighbor = node[side][listNode.off].neighbor
  <2>1. Pointer(buffer[side].base, x) # NULL /\ Pointer(buffer[side].base, x).off = x
    BY <1>3 DEF Pointer, NULL
  <2> QED BY ONLY <1>4, <2>1 DEF ListNodes
<1>7. PICK own2 : own2 = [s \in Side |-> [p \in DOMAIN node[s] \cup {x} |->
                            IF p \in DOMAIN node[s] THEN own[s][p] ELSE owner]]
  OBVIOUS
<1>8. Owners(own2)'
  <2>1. /\ own2[side][x] = owner
        /\ \A s \in Side : \A p \in DOMAIN node[s] : own2[s][p] = own[s][p]
    BY ONLY <1>1, <1>3, <1>7
  <2>2. node'[side][x].next = NULL
    BY ONLY <1>4, <1>5
  <2>3. PICK last \in Int : last = listNode.off
    BY DEF StoreInv, StoreTypes
  <2>4. last = IF index[side].head[owner] = -1 THEN -1 ELSE index[side].tail[owner]
    BY ONLY <1>3, <1>4, <2>3
  <2>5. \A p \in DOMAIN node[side] : p = last =>
          node'[side][p].next # NULL /\ node'[side][p].next.off = x
    BY ONLY <1>6, <2>3
  <2>6. \A p \in DOMAIN node[side] : p # last => node'[side][p].next = node[side][p].next
    BY ONLY <1>4, <2>3
  <2>7. index'[side].head[owner] = index[side].head[owner]
    BY ONLY <1>1, <1>4
  <2>8. \A s \in Side, u \in Nodes : s # side \/ u # owner =>
          index'[s].head[u] = index[s].head[u] /\ index'[s].tail[u] = index[s].tail[u]
    BY ONLY <1>4
  <2>9. DOMAIN node'[side] = DOMAIN node[side] \cup {x} /\ index'[side].tail[owner] = x
        /\ \A s \in Side \ {side} : node'[s] = node[s]
    BY ONLY <1>4
  <2> QED BY ONLY <1>1, <1>2, <1>3, <2>1, <2>2, <2>4, <2>5, <2>6, <2>7, <2>8, <2>9,
                  x \in Nat, last \in Int, StoreInv, Owners(own), OwnersExtended
<1>9. Owned'
  BY <1>8 DEF Owned
<1>10. ASSUME NEW s \in Side, NEW u \in Nodes PROVE List(s, u)' = List(s, u)
  <2>1. WellLinked(node[s], buffer[s].base) /\ WellLinked(node'[s], buffer'[s].base)
    BY StoreLinked, StoreLinkedNext
  <2>2. /\ DOMAIN node[s] \subseteq DOMAIN node'[s]
        /\ \A o \in DOMAIN node[s] : node'[s][o].neighbor = node[s][o].neighbor
    BY ONLY <1>4, <1>6, s \in Side
  <2>3. node[side][listNode.off].next = NULL
    <3>1. index[side].head[owner] # -1 => node[side][index[side].tail[owner]].next = NULL
      BY ONLY <1>1, Owners(own) DEF Owners
    <3> QED BY ONLY <1>3, <1>4, <3>1
  <2>4. \A o \in DOMAIN node[s] :
          \/ node'[s][o].next = node[s][o].next
          \/ /\ node[s][o].next = NULL
             /\ node'[s][node'[s][o].next.off] = NewListNode
    <3>1. CASE s = side
      BY ONLY <3>1, <1>4, <1>6, <2>3
    <3>2. CASE s # side
      BY ONLY <3>2, <1>4, s \in Side
    <3> QED BY <3>1, <3>2
  <2>5. \A o \in DOMAIN node[s] :
          Unrolled(node'[s], buffer'[s].base)[o] = Unrolled(node[s], buffer[s].base)[o]
    BY ONLY <2>1, <2>2, <2>4, UnrolledSame
  <2>6. index[s].head[u] # -1 => index[s].head[u] \in DOMAIN node[s]
    BY DEF Owners
  <2> QED BY <1>4, <2>5, <2>6, ListUnrolled
<1> QED BY <1>9, <1>10 DEF ListsStay

LEMMA StoreNeighborLists ==
  ASSUME StoreInv, StoreInv', NEW own, Owners(own), StoreNeighbor
  PROVE  Owners(own)' /\ ListGrows(Head(part.new))
<1>1. step = "insert" /\ UNCHANGED <<buffer, index>>
  BY DEF StoreNeighbor, Inserting
<1>2. PICK v \in Nodes : v = Head(part.new)
  BY StoreNeighborHolder
<1>3. /\ side \in Side /\ owner \in Nodes
      /\ listNode.off \in DOMAIN node[side] /\ listNode.off = index[side].tail[owner]
      /\ \A t \in Side : DOMAIN node'[t] = DOMAIN node[t]
      /\ node'[side][listNode.off].next = node[side][listNode.off].next
      /\ \A p \in DOMAIN node[side] \ {listNode.off} : node'[side][p] = node[side][p]
      /\ \A t \in Side \ {side} : node'[t] = node[t]
  BY ONLY StoreNeighborEffect, StoreInv, StoreNeighbor
<1>4. Owners(own)'
  <2>1. \A s \in Side : \A o \in DOMAIN node[s] : node'[s][o].next = node[s][o].next
    BY ONLY <1>3
  <2>2. \A s \in Side : index'[s].head = index[s].head /\ index'[s].tail = index[s].tail
    BY <1>1
  <2> QED BY ONLY <1>3, <2>1, <2>2, StoreInv, Owners(own), OwnersStay
<1>5. index[side].head[owner] # -1
  BY <1>1 DEF StoreInv, HeldIsLast
<1>6. ASSUME NEW s \in Side, NEW u \in Nodes
      PROVE  List(s, u)' = IF s = side /\ u = owner THEN Append(List(s, u), v)
                           ELSE List(s, u)
  <2>1. /\ WellLinked(node[s], buffer[s].base) /\ WellLinked(node'[s], buffer'[s].base)
        /\ WellLinked(node'[s], buffer[s].base)
    BY <1>1, StoreLinked, StoreLinkedNext
  <2>2. index[s].head[u] # -1 => index[s].head[u] \in DOMAIN node[s] /\ own[s][index[s].head[u]] = u
    BY DEF Owners
  <2>3. CASE s # side
    <3>1. node'[s] = node[s]
      BY <1>3, <2>3
    <3> QED BY <1>1, <2>3, <3>1, ListUnrolled
  <2>4. CASE s = side
    <3> DEFINE C == {o \in DOMAIN node[side] : own[side][o] = owner}
    <3>1. \A o \in DOMAIN node[side] : o \in C <=> own[side][o] = owner
      BY DEF C
    <3> HIDE DEF C
    <3>2. PICK t \in DOMAIN node[side] : t = listNode.off
      BY ONLY <1>3
    <3>3. own[side][t] = owner /\ node[side][t].next = NULL
      <4>1. side \in Side /\ owner \in Nodes /\ t = index[side].tail[owner]
        BY ONLY <1>3, <3>2
      <4> QED BY ONLY <1>5, <4>1, Owners(own) DEF Owners
    <3>4. ASSUME NEW o \in DOMAIN node[side]
          PROVE  /\ node[side][o].next # NULL => (node[side][o].next.off \in C <=> o \in C)
                 /\ o \in C /\ node[side][o].next = NULL => o = t
      <4>1. node[side][o].next # NULL =>
              /\ node[side][o].next.off \in DOMAIN node[side]
              /\ own[side][node[side][o].next.off] = own[side][o]
        BY <1>3 DEF StoreInv, LinksInBuffer, Owners
      <4>2. node[side][o].next = NULL => o = index[side].tail[own[side][o]]
        BY <1>3 DEF Owners
      <4>3. t = index[side].tail[owner]
        BY <1>3, <3>2
      <4> QED BY ONLY <4>1, <4>2, <4>3, <3>1, o \in DOMAIN node[side]
    <3>5. /\ DOMAIN node'[side] = DOMAIN node[side]
          /\ node'[side][t].neighbor = Append(node[side][t].neighbor, v)
          /\ node'[side][t].next = NULL
          /\ \A o \in DOMAIN node[side] : o # t => node'[side][o] = node[side][o]
      <4>1. node'[side][t].neighbor = Append(node[side][t].neighbor, v)
        BY ONLY <1>2, <3>2, StoreInv, StoreNeighbor, StoreNeighborHolder
      <4>2. /\ DOMAIN node'[side] = DOMAIN node[side] /\ node'[side][t].next = NULL
            /\ \A o \in DOMAIN node[side] : o # t => node'[side][o] = node[side][o]
        BY ONLY <1>3, <3>2, <3>3
      <4> QED BY ONLY <4>1, <4>2
    <3>6. t \in C /\ WellLinked(node[side], buffer[side].base)
          /\ WellLinked(node'[side], buffer[side].base)
      BY <2>1, <2>4, <3>1, <3>3
    <3>7. \A o \in DOMAIN node[side] :
            Unrolled(node'[side], buffer[side].base)[o]
              = IF o \in C THEN Append(Unrolled(node[side], buffer[side].base)[o], v)
                ELSE Unrolled(node[side], buffer[side].base)[o]
      <4>1. PutLast(node[side], node'[side], C, t, v)
        BY ONLY v \in Nodes, t \in DOMAIN node[side], <3>3, <3>4, <3>5, <3>6 DEF PutLast
      <4> QED BY ONLY <4>1, <3>6, UnrolledAppended
    <3>8. /\ index[side].head[u] # -1 => (index[side].head[u] \in C <=> u = owner)
          /\ index[side].head[u] # -1 => index[side].head[u] \in DOMAIN node[side]
      BY <2>2, <2>4, <3>1
    <3>9. CASE index[side].head[u] = -1
      BY <1>1, <1>5, <2>4, <3>9, ListUnrolled
    <3>10. CASE index[side].head[u] # -1
      <4>1. /\ List(s, u) = Unrolled(node[side], buffer[side].base)[index[side].head[u]]
            /\ List(s, u)' = Unrolled(node'[side], buffer[side].base)[index[side].head[u]]
        BY <1>1, <2>4, <3>10, ListUnrolled
      <4> QED BY ONLY <2>4, <3>7, <3>8, <3>10, <4>1
    <3> QED BY <3>9, <3>10
  <2> QED BY <2>3, <2>4
<1> QED BY <1>4, <1>6, <1>2 DEF ListGrows

\* Nothing is stored: the lists stay.
LEMMA QuietLists ==
  ASSUME NEW own, Owners(own), UNCHANGED <<buffer, node>>,
         \A s \in Side : index'[s].head = index[s].head /\ index'[s].tail = index[s].tail
  PROVE  Owners(own)' /\ ListsStay
<1>1. Owners(own)'
  BY DEF Owners
<1>2. ListsStay
  BY ListUnrolled DEF ListsStay
<1> QED BY <1>1, <1>2

-----------------------------------------------------------------------------
(* The hash tables *)

HashRight ==
  /\ hash = [u \in Nodes |-> hash[u]]
  /\ \A u \in Nodes :
       /\ DOMAIN hash[u] = Range(List("out", u))
       /\ \A v \in DOMAIN hash[u] : /\ hash[u][v] \in DOMAIN node["out"]
                                    /\ v \in Range(node["out"][hash[u][v]].neighbor)

\* The list nodes stay where they are, and lose no neighbour.
NodesKept ==
  \A o \in DOMAIN node["out"] :
    o \in DOMAIN node'["out"] /\ node'["out"][o].neighbor = node["out"][o].neighbor

ListInv == StoreInv /\ Owned /\ HashRight

LEMMA ListTyped == StoreInv /\ Owned => \A s \in Side, u \in Nodes : List(s, u) \in Seq(Nodes)
<1> SUFFICES ASSUME StoreInv, Owned, NEW s \in Side, NEW u \in Nodes
             PROVE  List(s, u) \in Seq(Nodes)
  OBVIOUS
<1> PICK own : Owners(own)
  BY DEF Owned
<1>1. CASE index[s].head[u] = -1
  <2>1. List(s, u) = <<>>
    BY <1>1 DEF List
  <2>2. <<>> \in Seq(Nodes)
    OBVIOUS
  <2> QED BY ONLY <2>1, <2>2
<1>2. CASE index[s].head[u] # -1
  <2>1. index[s].head[u] \in DOMAIN node[s]
    BY <1>2 DEF Owners
  <2>2. WellLinked(node[s], buffer[s].base)
    BY StoreLinked
  <2>3. \A o \in DOMAIN node[s] : Unrolled(node[s], buffer[s].base)[o] \in Seq(Nodes)
    BY ONLY <2>2, UnrolledTyped
  <2> QED BY <1>2, <2>1, <2>3, ListUnrolled
<1> QED BY <1>1, <1>2

LEMMA RangeOfAppend ==
  ASSUME NEW S, NEW t \in Seq(S), NEW v \in S
  PROVE  Range(Append(t, v)) = Range(t) \cup {v}
<1>1. /\ Len(t) \in Nat /\ DOMAIN t = 1 .. Len(t) /\ DOMAIN Append(t, v) = 1 .. Len(t) + 1
      /\ \A i \in 1 .. Len(t) : Append(t, v)[i] = t[i]
      /\ Append(t, v)[Len(t) + 1] = v
  BY LenProperties, AppendProperties
<1>2. ASSUME NEW w \in Range(Append(t, v)) PROVE w \in Range(t) \cup {v}
  <2>1. PICK i \in 1 .. Len(t) + 1 : w = Append(t, v)[i]
    BY ONLY <1>1, w \in Range(Append(t, v)) DEF Range
  <2>2. i \in 1 .. Len(t) \/ i = Len(t) + 1
    BY ONLY <1>1, i \in 1 .. Len(t) + 1
  <2> QED BY ONLY <1>1, <2>1, <2>2 DEF Range
<1>3. ASSUME NEW w \in Range(t) PROVE w \in Range(Append(t, v))
  <2>1. PICK i \in 1 .. Len(t) : w = t[i]
    BY ONLY <1>1, w \in Range(t) DEF Range
  <2>2. i \in 1 .. Len(t) + 1
    BY ONLY <1>1, i \in 1 .. Len(t)
  <2> QED BY ONLY <1>1, <2>1, <2>2 DEF Range
<1>4. v \in Range(Append(t, v))
  <2>1. Len(t) + 1 \in 1 .. Len(t) + 1
    BY ONLY <1>1
  <2> QED BY ONLY <1>1, <2>1 DEF Range
<1> QED BY <1>2, <1>3, <1>4

LEMMA HashStays ==
  ASSUME HashRight, ListsStay, NodesKept, UNCHANGED hash
  PROVE  HashRight'
<1>1. \A u \in Nodes : List("out", u)' = List("out", u)
  BY DEF ListsStay, Side
<1> QED BY <1>1 DEF HashRight, NodesKept, Range

\* The table of a node that had no list is made anew, and is empty again.
LEMMA FirstListNodeHash ==
  ASSUME HashRight, ListsStay, NodesKept, connectIndexBuffer, index[side].head[owner] = -1,
         owner \in Nodes
  PROVE  HashRight'
<1>1. \A u \in Nodes : List("out", u)' = List("out", u)
  BY DEF ListsStay, Side
<1>2. CASE side # "out"
  <2>1. hash' = hash
    BY <1>2 DEF connectIndexBuffer
  <2> QED BY <2>1, HashStays
<1>3. CASE side = "out"
  <2>1. hash' = [hash EXCEPT ![owner] = NoEntries]
    BY <1>3 DEF connectIndexBuffer
  <2>2. Range(List("out", owner)) = {}
    <3>1. List("out", owner) = <<>>
      BY <1>3 DEF List
    <3> QED BY <3>1 DEF Range
  <2>3. DOMAIN NoEntries = {}
    BY DEF NoEntries
  <2>4. /\ hash' = [u \in Nodes |-> hash'[u]] /\ hash'[owner] = NoEntries
        /\ \A u \in Nodes \ {owner} : hash'[u] = hash[u]
    BY ONLY <2>1, HashRight, owner \in Nodes DEF HashRight
  <2> QED BY <1>1, <2>2, <2>3, <2>4 DEF HashRight, NodesKept, Range
<1> QED BY <1>2, <1>3

LEMMA StoreNeighborHash ==
  ASSUME StoreInv, Owned, HashRight, StoreNeighbor, ListGrows(Head(part.new))
  PROVE  HashRight'
<1>1. PICK v \in Nodes : v = Head(part.new)
  BY StoreNeighborHolder
<1>2. /\ side \in Side /\ owner \in Nodes /\ listNode.off \in DOMAIN node[side]
      /\ \A t \in Side : DOMAIN node'[t] = DOMAIN node[t]
      /\ \A p \in DOMAIN node[side] \ {listNode.off} : node'[side][p] = node[side][p]
      /\ \A t \in Side \ {side} : node'[t] = node[t]
  BY ONLY StoreNeighborEffect, StoreInv, StoreNeighbor
<1>3. node[side][listNode.off].neighbor \in Seq(Nodes)
  BY <1>2 DEF StoreInv, StoreTypes, ListNodes
<1>4. Range(node'[side][listNode.off].neighbor) = Range(node[side][listNode.off].neighbor) \cup {v}
  <2>1. node'[side][listNode.off].neighbor = Append(node[side][listNode.off].neighbor, v)
    BY ONLY <1>1, StoreInv, StoreNeighbor, StoreNeighborHolder
  <2> QED BY ONLY <1>3, <2>1, v \in Nodes, RangeOfAppend
<1>5. \A o \in DOMAIN node["out"] :
        /\ o \in DOMAIN node'["out"]
        /\ Range(node["out"][o].neighbor) \subseteq Range(node'["out"][o].neighbor)
  <2>1. "out" \in Side
    BY DEF Side
  <2>2. CASE side = "out"
    BY ONLY <2>1, <2>2, <1>2, <1>4
  <2>3. CASE side # "out"
    BY ONLY <2>1, <2>3, <1>2
  <2> QED BY <2>2, <2>3
<1>6. \A u \in Nodes : Range(List("out", u))' =
        IF side = "out" /\ u = owner THEN Range(List("out", u)) \cup {v} ELSE Range(List("out", u))
  <2> SUFFICES ASSUME NEW u \in Nodes
               PROVE  Range(List("out", u))' =
                        IF side = "out" /\ u = owner THEN Range(List("out", u)) \cup {v}
                        ELSE Range(List("out", u))
    OBVIOUS
  <2>1. List("out", u)' = IF side = "out" /\ u = owner THEN Append(List("out", u), v)
                          ELSE List("out", u)
    BY <1>1 DEF ListGrows, Side
  <2>2. PICK t \in Seq(Nodes) : t = List("out", u)
    BY ListTyped DEF Side
  <2>3. Range(Append(t, v)) = Range(t) \cup {v}
    BY RangeOfAppend
  <2>4. Range(List("out", u))' = Range(List("out", u)')
    BY DEF Range
  <2> QED BY <2>1, <2>2, <2>3, <2>4
<1>7. CASE side # "out"
  <2>1. hash' = hash
    BY <1>7 DEF StoreNeighbor
  <2> QED BY <1>5, <1>6, <1>7, <2>1 DEF HashRight
<1>8. CASE side = "out"
  <2>1. hash' = [hash EXCEPT ![owner] = Put(hash[owner], v, listNode.off)]
    BY <1>1, <1>8 DEF StoreNeighbor, Entry
  <2> DEFINE put == Put(hash[owner], v, listNode.off)
  <2>2. /\ DOMAIN put = DOMAIN hash[owner] \cup {v} /\ put[v] = listNode.off
        /\ \A w \in DOMAIN hash[owner] : w # v => put[w] = hash[owner][w]
    BY DEF Put
  <2> HIDE DEF put
  <2>3. /\ hash' = [u \in Nodes |-> hash'[u]] /\ hash'[owner] = put
        /\ \A u \in Nodes \ {owner} : hash'[u] = hash[u]
    BY ONLY <2>1, HashRight, <1>2 DEF HashRight, put
  <2>4. ASSUME NEW u \in Nodes
        PROVE  /\ DOMAIN hash'[u] = Range(List("out", u))'
               /\ \A w \in DOMAIN hash'[u] : /\ hash'[u][w] \in DOMAIN node'["out"]
                                             /\ w \in Range(node'["out"][hash'[u][w]].neighbor)
    <3>1. /\ DOMAIN hash[u] = Range(List("out", u))
          /\ \A w \in DOMAIN hash[u] : /\ hash[u][w] \in DOMAIN node["out"]
                                       /\ w \in Range(node["out"][hash[u][w]].neighbor)
      BY DEF HashRight
    <3>2. CASE u # owner
      BY ONLY <1>5, <1>6, <2>3, <3>1, <3>2, u \in Nodes
    <3>3. CASE u = owner
      <4>1. DOMAIN hash'[u] = Range(List("out", u))'
        BY ONLY <1>6, <1>8, <2>2, <2>3, <3>1, <3>3, u \in Nodes
      <4>2. ASSUME NEW w \in DOMAIN put
            PROVE  put[w] \in DOMAIN node'["out"] /\ w \in Range(node'["out"][put[w]].neighbor)
        <5>1. CASE w = v
          BY ONLY <5>1, <1>2, <1>4, <1>8, <2>2
        <5>2. CASE w # v
          BY ONLY <5>2, <1>5, <2>2, <3>1, <3>3, w \in DOMAIN put
        <5> QED BY <5>1, <5>2
      <4> QED BY ONLY <2>3, <3>3, <4>1, <4>2
    <3> QED BY <3>2, <3>3
  <2> QED BY ONLY <2>3, <2>4 DEF HashRight
<1> QED BY <1>7, <1>8

\* What a step does to the lists: nothing, or a neighbour is put behind the owner's.
LEMMA ListStep ==
  ListInv /\ [StoreNext]_storeVars =>
    ListInv' /\ (ListsStay \/ (StoreNeighbor /\ ListGrows(Head(part.new))))
<1> SUFFICES ASSUME ListInv, [StoreNext]_storeVars
             PROVE  ListInv' /\ (ListsStay \/ (StoreNeighbor /\ ListGrows(Head(part.new))))
  OBVIOUS
<1>a. StoreInv /\ Owned /\ HashRight
  BY DEF ListInv
<1> PICK own : Owners(own)
  BY <1>a DEF Owned
<1>b. StoreInv'
  BY <1>a, StoreStepKeeps, CallKeeps DEF StoreNext
<1>q. ASSUME UNCHANGED <<buffer, node, hash>>,
             \A s \in Side : index'[s].head = index[s].head /\ index'[s].tail = index[s].tail
      PROVE  ListInv' /\ ListsStay
  <2>1. Owners(own)' /\ ListsStay
    BY <1>q, QuietLists
  <2>2. NodesKept
    BY <1>q DEF NodesKept
  <2>3. HashRight'
    BY <1>a, <1>q, <2>1, <2>2, HashStays
  <2>4. Owned'
    BY <2>1 DEF Owned
  <2> QED BY <1>b, <2>1, <2>3, <2>4 DEF ListInv
<1>1. CASE \E s \in Side, u \in Nodes, new \in Seq(Nodes) : insertNeighbors(s, u, new)
  <2>1. UNCHANGED <<buffer, node, hash>>
    BY <1>1 DEF insertNeighbors
  <2>2. PICK t \in Side, u \in Nodes : index' = [index EXCEPT ![t].size = check_resize(t, u)]
    BY <1>1 DEF insertNeighbors
  <2>3. \A s \in Side : index'[s].head = index[s].head /\ index'[s].tail = index[s].tail
    <3>1. index \in [Side -> [size : Nat, head : [Nodes -> Int], tail : [Nodes -> Int]]]
      BY <1>a DEF StoreInv, StoreTypes
    <3> HIDE DEF check_resize
    <3> QED BY ONLY <2>2, <3>1
  <2> QED BY <1>q, <2>1, <2>3
<1>2. CASE Grow
  <2>1. Owners(own)' /\ ListsStay
    BY <1>2, <1>a, <1>b, GrowLists
  <2>2. NodesKept
    <3>1. "out" \in Side
      BY DEF Side
    <3>2. CASE side = "out"
      BY <1>2, <1>a, <3>1, <3>2, GrowEffect DEF NodesKept
    <3>3. CASE side # "out"
      BY <1>2, <1>a, <3>1, <3>3, GrowEffect DEF NodesKept
    <3> QED BY <3>2, <3>3
  <2>3. HashRight'
    BY <1>2, <1>a, <2>1, <2>2, HashStays DEF Grow
  <2> QED BY <1>b, <2>1, <2>3 DEF ListInv, Owned
<1>3. CASE connectIndexBuffer /\ index[side].head[owner] # -1
  BY <1>3, <1>q DEF connectIndexBuffer
<1>4. CASE connectIndexBuffer /\ index[side].head[owner] = -1
  <2>1. Owned' /\ ListsStay
    BY <1>4, <1>a, <1>b, FirstListNodeLists
  <2>2. owner \in Nodes /\ NodesKept
    <3>1. "out" \in Side
      BY DEF Side
    <3>2. /\ DOMAIN node'[side] = DOMAIN node[side] \cup {buffer[side].fill} /\ owner \in Nodes
          /\ \A p \in DOMAIN node[side] : node'[side][p] = node[side][p]
          /\ \A t \in Side \ {side} : node'[t] = node[t]
      BY ONLY <1>4, <1>a, FirstListNodeEffect
    <3>3. CASE side = "out"
      BY ONLY <3>1, <3>2, <3>3 DEF NodesKept
    <3>4. CASE side # "out"
      BY ONLY <3>1, <3>2, <3>4 DEF NodesKept
    <3> QED BY <3>3, <3>4
  <2>3. HashRight'
    BY <1>4, <1>a, <2>1, <2>2, FirstListNodeHash
  <2> QED BY <1>b, <2>1, <2>3 DEF ListInv
<1>5. CASE SkipDouble \/ Return \/ UNCHANGED storeVars
  BY <1>5, <1>q DEF SkipDouble, Return, storeVars
<1>6. CASE AddListNode
  <2>1. Owned' /\ ListsStay
    BY <1>6, <1>a, <1>b, AddListNodeLists
  <2>2. NodesKept
    <3>1. "out" \in Side
      BY DEF Side
    <3>2. /\ DOMAIN node'[side] = DOMAIN node[side] \cup {buffer[side].fill}
          /\ node[side][listNode.off] \in ListNodes
          /\ node'[side][listNode.off] = [node[side][listNode.off] EXCEPT
                                          !.next = Pointer(buffer[side].base, buffer[side].fill)]
          /\ \A p \in DOMAIN node[side] \ {listNode.off} : node'[side][p] = node[side][p]
          /\ \A t \in Side \ {side} : node'[t] = node[t]
      BY ONLY <1>6, <1>a, AddListNodeEffect
    <3>3. node'[side][listNode.off].neighbor = node[side][listNode.off].neighbor
      BY ONLY <3>2 DEF ListNodes
    <3>4. CASE side = "out"
      BY ONLY <3>1, <3>2, <3>3, <3>4 DEF NodesKept
    <3>5. CASE side # "out"
      BY ONLY <3>1, <3>2, <3>5 DEF NodesKept
    <3> QED BY <3>4, <3>5
  <2>3. HashRight'
    BY <1>6, <1>a, <2>1, <2>2, HashStays DEF AddListNode
  <2> QED BY <1>b, <2>1, <2>3 DEF ListInv
<1>7. CASE StoreNeighbor
  <2>1. Owners(own)' /\ ListGrows(Head(part.new))
    BY <1>7, <1>a, <1>b, StoreNeighborLists
  <2>2. HashRight'
    BY <1>7, <1>a, <2>1, StoreNeighborHash
  <2> QED BY <1>7, <1>b, <2>1, <2>2 DEF ListInv, Owned
<1> QED BY <1>1, <1>2, <1>3, <1>4, <1>5, <1>6, <1>7 DEF StoreNext, StoreStep

LEMMA ListInvInit == StoreInit => ListInv /\ \A s \in Side, u \in Nodes : List(s, u) = <<>>
<1> SUFFICES ASSUME StoreInit
             PROVE  ListInv /\ \A s \in Side, u \in Nodes : List(s, u) = <<>>
  OBVIOUS
<1>1. \A s \in Side, u \in Nodes : index[s].head[u] = -1 /\ DOMAIN node[s] = {}
  BY DEF StoreInit
<1>2. \A s \in Side, u \in Nodes : List(s, u) = <<>>
  BY <1>1 DEF List
<1>3. Owned
  <2>1. \A own : Owners(own)
    BY <1>1 DEF Owners, StoreInit
  <2> QED BY <2>1 DEF Owned
<1>4. HashRight
  <2>1. Range(<<>>) = {} /\ DOMAIN NoEntries = {} /\ "out" \in Side
    BY DEF Range, NoEntries, Side
  <2>2. hash = [u \in Nodes |-> NoEntries]
    BY DEF StoreInit
  <2> QED BY <1>2, <2>1, <2>2 DEF HashRight
<1> QED BY <1>2, <1>3, <1>4, StoreInvInit DEF ListInv

LEMMA ListInvFinds == ListInv => HashFindsHolder
  BY DEF ListInv, HashRight, HashFindsHolder

\* A step of the store is one of the abstract lists: the neighbour is put behind the
\* list of its owner, and into an outgoing list only if it is not there.
LEMMA ListsAreAbstract ==
  ListInv /\ [StoreNext]_storeVars =>
    [Abstract!EdgeNext]_[s \in Side |-> [u \in Nodes |-> List(s, u)]]
<1> DEFINE lists == [s \in Side |-> [u \in Nodes |-> List(s, u)]]
<1> SUFFICES ASSUME ListInv, [StoreNext]_storeVars
             PROVE  Abstract!EdgeNext \/ lists' = lists
  OBVIOUS
<1>1. ListsStay \/ (StoreNeighbor /\ ListGrows(Head(part.new)))
  BY ListStep
<1>2. CASE ListsStay
  BY <1>2 DEF ListsStay
<1>3. CASE StoreNeighbor /\ ListGrows(Head(part.new))
  <2>1. PICK v \in Nodes : v = Head(part.new)
    BY <1>3, StoreNeighborHolder DEF ListInv
  <2>2. side \in {"out", "in"} /\ owner \in Nodes
    BY <1>3, StoreNeighborEffect DEF ListInv, Side
  <2>3. side = "out" => v \notin Abstract!Range(lists[side][owner])
    <3>1. side = "out" => v \notin DOMAIN hash[owner]
      BY <1>3, <2>1 DEF StoreNeighbor, Double
    <3>2. DOMAIN hash[owner] = Range(List("out", owner))
      BY <2>2 DEF ListInv, HashRight
    <3> QED BY <2>2, <3>1, <3>2 DEF Side, Range, Abstract!Range
  <2>4. lists' = [lists EXCEPT ![side][owner] = Append(@, v)]
    <3>1. \A s \in Side, u \in Nodes :
            List(s, u)' = IF s = side /\ u = owner THEN Append(List(s, u), v) ELSE List(s, u)
      BY <1>3, <2>1 DEF ListGrows
    <3> QED BY <2>2, <3>1 DEF Side
  <2>5. Abstract!AddNeighbor(side, owner, v)
    <3> HIDE DEF lists
    <3> QED BY <2>3, <2>4 DEF Abstract!AddNeighbor, lists
  <2>6. PICK s \in {"out", "in"}, u \in Nodes : s = side /\ u = owner
    BY <2>2
  <2>7. Abstract!AddNeighbor(s, u, v)
    <3> HIDE DEF lists
    <3> QED BY ONLY <2>5, <2>6 DEF Abstract!AddNeighbor
  <2> QED BY <2>7 DEF Abstract!EdgeNext
<1> QED BY <1>1, <1>2, <1>3

LEMMA StoreLists == StoreSpec => []ListInv
<1>1. StoreInit => ListInv
  BY ListInvInit
<1>2. ListInv /\ [StoreNext]_storeVars => ListInv'
  BY ListStep
<1> QED BY <1>1, <1>2, PTL DEF StoreSpec

\* Whoever calls insertNeighbors, in whatever order: the lists in the buffers grow as
\* the abstract lists do, and a table leads to the holder of each neighbour.
THEOREM StoreIsEdgeLists == StoreSpec => []HashFindsHolder /\ ImplementsEdgeLists
<1> DEFINE lists == [s \in Side |-> [u \in Nodes |-> List(s, u)]]
<1>1. StoreInit => Abstract!EdgeInit
  BY ListInvInit DEF Abstract!EdgeInit, Side
<1>2. ListInv /\ [StoreNext]_storeVars => [Abstract!EdgeNext]_lists
  BY ListsAreAbstract
<1> HIDE DEF lists
<1> QED BY <1>1, <1>2, StoreLists, ListInvFinds, PTL
        DEF StoreSpec, ImplementsEdgeLists, Abstract!EdgeSpec, lists

-----------------------------------------------------------------------------
(* GraphLoad *)

Edges == Nodes \X Nodes

LoadTypes ==
  /\ file \in Seq(Edges) /\ line \in 0 .. Lines
  /\ chunk \in Seq(Edges) /\ counter \in 0 .. Len(chunk)
  /\ phase \in Side \cup {"read", "ready", "add"}
  /\ added \in Seq(Edges) /\ (phase = "add" => added # <<>>)

LoadInv == StoreInv /\ LoadTypes

\* A bounded set of natural numbers has a greatest element.
LEMMA MaxOfBounded ==
  ASSUME NEW n \in Nat, NEW T \in SUBSET (0 .. n), T # {}
  PROVE  Max(T) \in T /\ \A y \in T : Max(T) >= y
<1> DEFINE R == OpToRel(<, Nat)
           U == {n - x : x \in T}
<1>1. U \subseteq Nat /\ U # {}
  <2>1. \A x \in T : n - x \in Nat
    OBVIOUS
  <2>2. PICK x \in T : TRUE
    OBVIOUS
  <2>3. n - x \in U
    OBVIOUS
  <2> QED BY <2>1, <2>3
<1>2. PICK m \in U : \A y \in U : ~ (<<y, m>> \in R)
  BY <1>1, NatLessThanWellFounded, WFMin
<1>3. \A y \in U : ~ (y < m)
  BY <1>1, <1>2 DEF OpToRel
<1>4. PICK x \in T : m = n - x
  BY <1>2
<1>5. \A y \in T : x >= y
  <2> SUFFICES ASSUME NEW y \in T PROVE x >= y
    OBVIOUS
  <2>1. ~ (n - y < n - x)
    BY <1>3, <1>4
  <2> QED BY <2>1
<1> QED BY <1>5 DEF Max

LEMMA MinOfTwo ==
  ASSUME NEW a \in Int, NEW b \in Int
  PROVE  Min({a, b}) \in Int /\ Min({a, b}) <= b /\ Min({a, b}) = IF a <= b THEN a ELSE b
<1>1. \E x \in {a, b} : \A y \in {a, b} : x =< y
  OBVIOUS
<1>2. Min({a, b}) \in {a, b} /\ \A y \in {a, b} : Min({a, b}) =< y
  BY <1>1 DEF Min
<1> QED BY <1>2

\* The bytes of some lines are a number: the sum over a finite set exists.
LEMMA BytesTyped ==
  ASSUME LoadTypes, NEW k \in 1 .. Lines - line
  PROVE  Bytes(k) \in Int
<1> DEFINE S == line + 1 .. line + k
           D == SUBSET S
           first(s) == CHOOSE x \in s : TRUE
           At(g, s) == IF s = {} THEN 0 ELSE LineBytes(first(s)) + g[s \ {first(s)}]
           Rec(g) == g = [s \in D |-> At(g, s)]
<1>1. \A i \in S : LineBytes(i) \in Int
  <2>1. file \in Seq(Edges) /\ line \in 0 .. Lines /\ Len(file) \in Nat /\ Lines = Len(file) + 1
    BY LenProperties DEF LoadTypes, Lines
  <2>2. \A i \in S : i = Lines \/ i \in 1 .. Len(file)
    BY ONLY <2>1, k \in 1 .. Lines - line
  <2>3. \A i \in 1 .. Len(file) : file[i] \in Edges
    BY ONLY <2>1, ElementOfSeq
  <2>4. \A i \in 1 .. Len(file) : Digits[file[i][1]] \in Nat /\ Digits[file[i][2]] \in Nat
    BY ONLY <2>3, FilesAssumption DEF Edges
  <2> QED BY ONLY <2>2, <2>4 DEF LineBytes
<1>2. \A s \in D :
        /\ Cardinality(s) \in Nat
        /\ s # {} => /\ first(s) \in S /\ s \ {first(s)} \in D
                     /\ Cardinality(s \ {first(s)}) = Cardinality(s) - 1
        /\ Cardinality(s) = 0 => s = {}
  <2> SUFFICES ASSUME NEW s \in D
               PROVE  /\ Cardinality(s) \in Nat
                      /\ s # {} => /\ first(s) \in S /\ s \ {first(s)} \in D
                                   /\ Cardinality(s \ {first(s)}) = Cardinality(s) - 1
                      /\ Cardinality(s) = 0 => s = {}
    OBVIOUS
  <2>1. IsFiniteSet(S)
    <3>1. line + 1 \in Int /\ line + k \in Int
      BY LenProperties DEF LoadTypes, Lines
    <3> QED BY ONLY <3>1, FS_Interval
  <2>2. IsFiniteSet(s)
    BY <2>1, FS_Subset
  <2>3. s # {} => first(s) \in s
    OBVIOUS
  <2> HIDE DEF first
  <2>4. s # {} => Cardinality(s \ {first(s)}) = Cardinality(s) - 1
    BY ONLY <2>2, <2>3, FS_RemoveElement
  <2>5. Cardinality(s) \in Nat /\ (Cardinality(s) = 0 => s = {})
    BY ONLY <2>2, FS_CardinalityType, FS_EmptySet
  <2> QED BY <2>3, <2>4, <2>5
<1>3. S \in D /\ D = SUBSET S
  OBVIOUS
<1>4. Bytes(k) = (CHOOSE g : Rec(g))[S]
  BY Zenon DEF Bytes, MapThenSumSet, MapThenFoldSet
<1> HIDE DEF S, D, first
<1>e. \A s \in D : Cardinality(s) <= 0 => s = {}
  <2> SUFFICES ASSUME NEW s \in D, Cardinality(s) <= 0 PROVE s = {}
    OBVIOUS
  <2>1. Cardinality(s) \in Nat /\ (Cardinality(s) = 0 => s = {})
    BY <1>2
  <2> QED BY ONLY <2>1, Cardinality(s) <= 0
<1> DEFINE T == {n \in Nat : \E g : /\ g = [s \in D |-> g[s]]
                                    /\ \A s \in D : Cardinality(s) <= n => g[s] = At(g, s)}
<1>5. 0 \in T
  <2> DEFINE g == [s \in D |-> 0]
  <2>1. \A s \in D : Cardinality(s) <= 0 => g[s] = At(g, s)
    BY ONLY <1>e
  <2>2. g = [s \in D |-> g[s]]
    OBVIOUS
  <2> QED BY <2>1, <2>2
<1>6. \A n \in T : n + 1 \in T
  <2> SUFFICES ASSUME NEW n \in Nat, NEW g, g = [s \in D |-> g[s]],
                      \A s \in D : Cardinality(s) <= n => g[s] = At(g, s)
               PROVE  n + 1 \in T
    OBVIOUS
  <2> HIDE DEF At
  <2> DEFINE h == [s \in D |-> IF Cardinality(s) <= n THEN g[s] ELSE At(g, s)]
  <2>1. h = [s \in D |-> h[s]] /\ \A s \in D : Cardinality(s) <= n => h[s] = g[s]
    OBVIOUS
  <2>2. \A s \in D : h[s] = At(g, s)
    OBVIOUS
  <2> HIDE DEF h
  <2>3. \A s \in D : Cardinality(s) <= n + 1 => At(h, s) = At(g, s)
    <3> SUFFICES ASSUME NEW s \in D, Cardinality(s) <= n + 1, s # {} PROVE At(h, s) = At(g, s)
      BY DEF At
    <3>1. s \ {first(s)} \in D /\ Cardinality(s \ {first(s)}) <= n
      BY <1>2
    <3> QED BY <2>1, <3>1 DEF At
  <2>4. \A s \in D : Cardinality(s) <= n + 1 => h[s] = At(h, s)
    BY ONLY <2>2, <2>3
  <2> QED BY ONLY <2>1, <2>4, n \in Nat DEF T
<1>7. T \in SUBSET Nat
  OBVIOUS
<1> HIDE DEF T
<1>8. T = Nat
  BY <1>5, <1>6, <1>7, SetInduction
<1>9. Cardinality(S) \in Nat /\ \A s \in D : Cardinality(s) <= Cardinality(S)
  <2>1. IsFiniteSet(S)
    <3>1. line + 1 \in Int /\ line + k \in Int
      BY LenProperties DEF LoadTypes, Lines
    <3> QED BY ONLY <3>1, FS_Interval DEF S
  <2> QED BY ONLY <2>1, FS_Subset, FS_CardinalityType DEF D
<1>10. \E g : Rec(g)
  <2>1. PICK g : /\ g = [s \in D |-> g[s]]
                 /\ \A s \in D : Cardinality(s) <= Cardinality(S) => g[s] = At(g, s)
    <3>1. Cardinality(S) \in T
      BY <1>8, <1>9
    <3> QED BY <3>1 DEF T
  <2> HIDE DEF At
  <2>2. \A s \in D : g[s] = At(g, s)
    BY <2>1, <1>9
  <2> QED BY <2>1, <2>2
<1> DEFINE F == CHOOSE g : Rec(g)
<1>11. Rec(F)
  <2> HIDE DEF Rec
  <2> QED BY <1>10
<1> HIDE DEF F
<1>12. \A s \in D : F[s] = At(F, s)
  <2> HIDE DEF At
  <2>1. F = [s \in D |-> At(F, s)]
    BY <1>11
  <2> QED BY ONLY <2>1
<1> DEFINE U == {n \in Nat : \A s \in D : Cardinality(s) <= n => F[s] \in Int}
<1>z. \A s \in D : s = {} => F[s] \in Int
  BY ONLY <1>12
<1>13. 0 \in U
  BY ONLY <1>e, <1>z
<1>14. ASSUME NEW n \in U PROVE n + 1 \in U
  <2>1. ASSUME NEW s \in D, Cardinality(s) <= n + 1, s # {} PROVE F[s] \in Int
    <3>1. s \ {first(s)} \in D /\ Cardinality(s \ {first(s)}) <= n /\ first(s) \in S
      BY <1>2, <2>1
    <3> QED BY <1>1, <1>12, <2>1, <3>1
  <2>2. n \in Nat /\ n + 1 \in Nat
    OBVIOUS
  <2> QED BY ONLY <1>z, <2>1, <2>2
<1>15. U \in SUBSET Nat
  OBVIOUS
<1> HIDE DEF U
<1>16. U = Nat
  BY <1>13, <1>14, <1>15, SetInduction
<1>17. F[S] \in Int
  <2>1. Cardinality(S) \in U
    BY <1>9, <1>16
  <2> QED BY <1>3, <1>9, <2>1 DEF U
<1> QED BY <1>4, <1>17 DEF F

\* What ReadChunk reads: lines of the file, and rows of edges.
LEMMA ChunkTyped ==
  ASSUME LoadTypes
  PROVE  /\ line + Whole \in 0 .. Lines
         /\ Rows \subseteq Seq(Edges)
<1>1. file \in Seq(Edges) /\ line \in 0 .. Lines /\ Len(file) \in Nat /\ Lines = Len(file) + 1
  BY LenProperties DEF LoadTypes, Lines
<1>2. Whole \in 0 .. Lines - line
  <2> DEFINE T == {0} \cup {k \in 1 .. Lines - line : Bytes(k) <= CHUNK}
  <2>1. Lines - line \in Nat /\ T \subseteq 0 .. Lines - line /\ T # {}
    BY ONLY <1>1
  <2>2. Max(T) \in T
    BY ONLY <2>1, MaxOfBounded
  <2> QED BY <2>1, <2>2 DEF Whole
<1>3. line + Whole \in 0 .. Lines
  BY ONLY <1>1, <1>2
<1>4. countNewLine \in Int
  BY <1>1, <1>2 DEF countNewLine
<1> DEFINE end == Min({line + countNewLine, Len(file)})
           edges == SubSeq(file, line + 1, end)
<1>5. end \in Int /\ end <= Len(file)
  <2>1. line + countNewLine \in Int
    BY ONLY <1>1, <1>4
  <2>2. Len(file) \in Int
    BY ONLY <1>1
  <2> QED BY ONLY <2>1, <2>2, MinOfTwo, Zenon
<1> HIDE DEF end
<1>6. edges \in Seq(Edges) /\ Len(edges) \in Nat
  <2>1. \A i \in line + 1 .. end : i \in 1 .. Len(file)
    BY ONLY <1>1, <1>5
  <2>2. \A i \in 1 .. Len(file) : file[i] \in Edges
    BY ONLY <1>1, ElementOfSeq
  <2>3. \A i \in line + 1 .. end : file[i] \in Edges
    BY ONLY <2>1, <2>2
  <2>4. line + 1 \in Int
    BY ONLY <1>1
  <2>5. edges \in Seq(Edges)
    BY ONLY <1>5, <2>3, <2>4, SubSeqProperties
  <2> QED BY ONLY <2>5, LenProperties
<1> HIDE DEF edges
<1>7. ASSUME NEW stray \in [1 .. countNewLine - Len(edges) -> Edges]
      PROVE  edges \o stray \in Seq(Edges)
  <2>1. PICK k \in Nat : 1 .. countNewLine - Len(edges) = 1 .. k
    <3>1. CASE countNewLine - Len(edges) >= 0
      BY <3>1, <1>4, <1>6
    <3>2. CASE countNewLine - Len(edges) < 0
      <4>1. 1 .. countNewLine - Len(edges) = 1 .. 0
        BY <3>2, <1>4, <1>6
      <4> QED BY <4>1
    <3> QED BY <3>1, <3>2, <1>4, <1>6
  <2>2. stray \in Seq(Edges)
    <3>1. stray \in [1 .. k -> Edges]
      BY <2>1
    <3> QED BY ONLY <3>1, k \in Nat, SeqDef
  <2> QED BY ONLY <2>2, <1>6, ConcatProperties
<1>8. Rows = {edges \o stray : stray \in [1 .. countNewLine - Len(edges) -> Edges]}
  BY DEF Rows, edges, end, Edges
<1> QED BY <1>3, <1>7, <1>8

\* dissectChunk takes at least one edge and no more than are left.
LEMMA GroupTyped ==
  ASSUME LoadTypes, NEW s \in Side, counter < Len(chunk)
  PROVE  /\ Owner(s, chunk[counter + 1]) \in Nodes
         /\ counter + GroupSize(s) \in 0 .. Len(chunk)
         /\ [i \in 1 .. GroupSize(s) |-> Other(s, chunk[counter + i])] \in Seq(Nodes)
         /\ GroupSize(s) \in 1 .. Len(chunk) - counter
         /\ \A i \in 1 .. GroupSize(s) :
              Owner(s, chunk[counter + i]) = Owner(s, chunk[counter + 1])
<1>1. chunk \in Seq(Edges) /\ Len(chunk) \in Nat /\ counter \in Nat /\ counter < Len(chunk)
  BY LenProperties DEF LoadTypes
<1>2. \A i \in 1 .. Len(chunk) : Owner(s, chunk[i]) \in Nodes /\ Other(s, chunk[i]) \in Nodes
  <2>1. \A i \in 1 .. Len(chunk) : chunk[i] \in Edges
    BY ONLY <1>1, ElementOfSeq
  <2> QED BY <2>1 DEF Owner, Other, Edges
<1> DEFINE T == {k \in 1 .. Len(chunk) - counter : \A i \in 1 .. k :
                   Owner(s, chunk[counter + i]) = Owner(s, chunk[counter + 1])}
<1>3. /\ GroupSize(s) \in 1 .. Len(chunk) - counter
      /\ \A i \in 1 .. GroupSize(s) :
           Owner(s, chunk[counter + i]) = Owner(s, chunk[counter + 1])
  <2>1. 1 \in T
    BY <1>1
  <2>2. Len(chunk) - counter \in Nat /\ T \subseteq 0 .. Len(chunk) - counter
    BY <1>1
  <2>3. Max(T) \in T
    BY ONLY <2>1, <2>2, MaxOfBounded
  <2> QED BY <2>3 DEF GroupSize
<1>4. \A i \in 1 .. GroupSize(s) : counter + i \in 1 .. Len(chunk)
  BY ONLY <1>1, <1>3
<1>5. [i \in 1 .. GroupSize(s) |-> Other(s, chunk[counter + i])] \in Seq(Nodes)
  <2>1. GroupSize(s) \in Nat
    BY ONLY <1>1, <1>3
  <2>2. \A i \in 1 .. GroupSize(s) : Other(s, chunk[counter + i]) \in Nodes
    BY ONLY <1>2, <1>4
  <2> QED BY ONLY <2>1, <2>2
<1>6. counter + 1 \in 1 .. Len(chunk) /\ counter + GroupSize(s) \in 0 .. Len(chunk)
  BY ONLY <1>1, <1>3
<1> QED BY <1>2, <1>3, <1>5, <1>6

LEMMA LastAdded == LoadTypes /\ phase = "add" => added[Len(added)] \in Edges
<1> SUFFICES ASSUME LoadTypes, phase = "add" PROVE added[Len(added)] \in Edges
  OBVIOUS
<1>1. added \in Seq(Edges) /\ added # <<>>
  BY DEF LoadTypes
<1>2. Len(added) \in 1 .. Len(added)
  BY ONLY <1>1, LenProperties, EmptySeq
<1> QED BY ONLY <1>1, <1>2, ElementOfSeq

LEMMA LoadInit == Init => LoadInv
<1> SUFFICES ASSUME Init PROVE LoadInv
  OBVIOUS
<1>1. file \in Seq(Edges)
  BY FilesAssumption DEF Init, Edges
<1>2. Len(file) \in Nat
  BY <1>1, LenProperties
<1>3. LoadTypes
  BY <1>1, <1>2 DEF Init, LoadTypes, Lines
<1> QED BY <1>3, StoreInvInit DEF Init, LoadInv

LEMMA LoadStepKeeps == LoadInv /\ [Next]_vars => LoadInv'
<1> SUFFICES ASSUME LoadInv, [Next]_vars PROVE LoadInv'
  OBVIOUS
<1>a. StoreInv /\ LoadTypes
  BY DEF LoadInv
<1>b. UNCHANGED storeVars => StoreInv'
  BY <1>a, StoreStepKeeps
<1>c. UNCHANGED file => Lines' = Lines
  BY DEF Lines
<1>1. CASE ReadChunk
  <2>1. /\ UNCHANGED <<storeVars, file, added>> /\ line' = line + Whole /\ chunk' \in Rows
        /\ phase' = "out" /\ counter' = 0
    BY <1>1 DEF ReadChunk
  <2>2. line' \in 0 .. Lines /\ chunk' \in Seq(Edges)
    BY <2>1, <1>a, ChunkTyped
  <2>3. 0 \in 0 .. Len(chunk')
    <3>1. Len(chunk') \in Nat
      BY <2>2, LenProperties
    <3> QED BY <3>1
  <2> QED BY <2>1, <2>2, <2>3, <1>a, <1>b, <1>c DEF LoadInv, LoadTypes, Side
<1>2. CASE EndOfFile
  BY <1>2, <1>a, <1>b, <1>c DEF EndOfFile, LoadInv, LoadTypes
<1>3. ASSUME NEW s \in Side, InsertGroup(s) PROVE LoadInv'
  <2>1. /\ counter < Len(chunk) /\ counter' = counter + GroupSize(s)
        /\ insertNeighbors(s, Owner(s, chunk[counter + 1]),
             [i \in 1 .. GroupSize(s) |-> Other(s, chunk[counter + i])])
        /\ UNCHANGED <<file, line, chunk, phase, added>>
    BY <1>3 DEF InsertGroup
  <2>2. StoreInv'
    BY <2>1, <1>a, GroupTyped, CallKeeps
  <2>3. counter' \in 0 .. Len(chunk)
    BY <2>1, <1>a, GroupTyped
  <2> QED BY <2>1, <2>2, <2>3, <1>a, <1>c DEF LoadInv, LoadTypes
<1>4. CASE NextPhase
  <2>1. 0 \in 0 .. Len(chunk)
    <3>1. Len(chunk) \in Nat
      BY <1>a, LenProperties DEF LoadTypes
    <3> QED BY <3>1
  <2> QED BY <2>1, <1>4, <1>a, <1>b, <1>c DEF NextPhase, LoadInv, LoadTypes, Side
<1>5. CASE Insert
  BY <1>5, <1>a, <1>c, StoreStepKeeps DEF Insert, LoadInv, LoadTypes
<1>6. ASSUME NEW u \in Nodes, NEW v \in Nodes, AddLine(u, v) PROVE LoadInv'
  <2>1. added' = Append(added, <<u, v>>) /\ UNCHANGED <<file, line, chunk, counter>>
    BY <1>6 DEF AddLine
  <2>2. added' \in Seq(Edges) /\ added' # <<>>
    <3>1. <<u, v>> \in Edges /\ added \in Seq(Edges)
      BY <1>a DEF Edges, LoadTypes
    <3> QED BY ONLY <3>1, <2>1, AppendProperties
  <2>3. StoreInv' /\ phase' \in {phase, "add"}
    <3>1. CASE FoundDouble(u, v)
      BY <3>1, <1>6, <1>b DEF AddLine
    <3>2. CASE ~FoundDouble(u, v)
      <4>1. insertNeighbors("out", u, <<v>>) /\ phase' = "add"
        BY <3>2, <1>6 DEF AddLine
      <4>2. <<v>> \in Seq(Nodes) /\ "out" \in Side
        BY DEF Side
      <4> QED BY <4>1, <4>2, <1>a, CallKeeps
    <3> QED BY <3>1, <3>2
  <2> QED BY <2>1, <2>2, <2>3, <1>a, <1>c DEF LoadInv, LoadTypes
<1>7. CASE AddIngoing
  <2> DEFINE e == added[Len(added)]
  <2>1. /\ phase = "add" /\ phase' = "ready" /\ insertNeighbors("in", e[2], <<e[1]>>)
        /\ UNCHANGED <<file, line, chunk, counter, added>>
    BY <1>7 DEF AddIngoing
  <2>2. e \in Edges
    BY <2>1, <1>a, LastAdded
  <2>3. e[2] \in Nodes /\ <<e[1]>> \in Seq(Nodes) /\ "in" \in Side
    BY <2>2 DEF Edges, Side
  <2>4. StoreInv'
    BY <2>1, <2>3, <1>a, CallKeeps
  <2> QED BY <2>1, <2>4, <1>a, <1>c DEF LoadInv, LoadTypes
<1>8. CASE WorkloadEnds \/ UNCHANGED vars
  BY <1>8, <1>a, <1>b, <1>c DEF WorkloadEnds, vars, LoadInv, LoadTypes
<1> QED BY <1>1, <1>2, <1>3, <1>4, <1>5, <1>6, <1>7, <1>8 DEF Next, LoadStep

\* While a graph file of any length is loaded, in chunks of any size, and edges are
\* added: no list node runs over the end of its buffer.
THEOREM NodesStayInBuffer == Spec => []NodesInBuffer
<1>1. LoadInv => NodesInBuffer
  BY StoreInvImplies DEF LoadInv
<1> QED BY <1>1, LoadInit, LoadStepKeeps, PTL DEF Spec

\* ... and every link and held pointer leads into the buffer in use, and a link
\* further on, so that no list runs in a circle.
THEOREM LinksStayCurrent == Spec => []LinksCurrent
<1>1. LoadInv => LinksCurrent
  BY StoreInvImplies DEF LoadInv
<1> QED BY <1>1, LoadInit, LoadStepKeeps, PTL DEF Spec

\* What graphCreate and addEdge do to the storage is what callers of insertNeighbors may.
LEMMA LoadCallsStore == LoadInv /\ [Next]_vars => [StoreNext]_storeVars
<1> SUFFICES ASSUME LoadInv, [Next]_vars PROVE [StoreNext]_storeVars
  OBVIOUS
<1>1. CASE UNCHANGED storeVars
  BY <1>1
<1>2. ASSUME NEW s \in Side, InsertGroup(s) PROVE StoreNext
  <2>1. /\ counter < Len(chunk)
        /\ insertNeighbors(s, Owner(s, chunk[counter + 1]),
             [i \in 1 .. GroupSize(s) |-> Other(s, chunk[counter + i])])
    BY <1>2 DEF InsertGroup
  <2>2. /\ Owner(s, chunk[counter + 1]) \in Nodes
        /\ [i \in 1 .. GroupSize(s) |-> Other(s, chunk[counter + i])] \in Seq(Nodes)
    BY <2>1, GroupTyped DEF LoadInv
  <2> QED BY <2>1, <2>2 DEF StoreNext
<1>3. CASE Insert
  BY <1>3 DEF Insert, StoreNext
<1>4. ASSUME NEW u \in Nodes, NEW v \in Nodes, AddLine(u, v), ~UNCHANGED storeVars
      PROVE  StoreNext
  <2>1. insertNeighbors("out", u, <<v>>)
    BY <1>4 DEF AddLine
  <2>2. <<v>> \in Seq(Nodes) /\ "out" \in Side
    BY DEF Side
  <2> QED BY <2>1, <2>2 DEF StoreNext
<1>5. CASE AddIngoing
  <2> DEFINE e == added[Len(added)]
  <2>1. phase = "add" /\ insertNeighbors("in", e[2], <<e[1]>>)
    BY <1>5 DEF AddIngoing
  <2>2. e \in Edges
    BY <2>1, LastAdded DEF LoadInv
  <2>3. e[2] \in Nodes /\ <<e[1]>> \in Seq(Nodes) /\ "in" \in Side
    BY <2>2 DEF Edges, Side
  <2> HIDE DEF e
  <2> QED BY <2>1, <2>3 DEF StoreNext
<1>6. CASE ReadChunk \/ EndOfFile \/ NextPhase \/ WorkloadEnds \/ UNCHANGED vars
  BY <1>1, <1>6 DEF ReadChunk, EndOfFile, NextPhase, WorkloadEnds, vars
<1> QED BY <1>1, <1>2, <1>3, <1>4, <1>5, <1>6 DEF Next, LoadStep

THEOREM LoadIsStore == Spec => StoreSpec
<1>1. Init => StoreInit
  BY DEF Init
<1> QED BY <1>1, LoadInit, LoadStepKeeps, LoadCallsStore, PTL DEF Spec, StoreSpec

\* getNextNeighbor finds the list node that it goes on from: at every point of a load
\* and of the A lines that follow, each outgoing neighbour is in its node's table,
\* with the offset of the list node that holds it.
THEOREM HashAlwaysFindsHolder == Spec => []HashFindsHolder
  BY LoadIsStore, StoreIsEdgeLists, PTL

\* The searches may take what is in the buffers for the lists of EdgeLists.
THEOREM LoadImplementsEdgeLists == Spec => ImplementsEdgeLists
  BY LoadIsStore, StoreIsEdgeLists, PTL

-----------------------------------------------------------------------------
(* What a graph is loaded from *)

\* The edges in the lists of a side, and those that insertNeighbors still has to put there.
Held(s) == {e \in Edges : Other(s, e) \in Range(List(s, Owner(s, e)))}
Waiting(s) ==
  {e \in Edges : /\ step # "idle" /\ side = s
                 /\ Owner(s, e) = owner /\ Other(s, e) \in Range(part.new)}
Taken(s) == Held(s) \cup Waiting(s)

\* The edges of the first n lines, and those of the chunk that are not handed over.
FileTo(n) == {file[i] : i \in {j \in DOMAIN file : j <= n}}
Rest == {chunk[i] : i \in {j \in DOMAIN chunk : counter < j}}

\* Every edge that has been read is in the lists of a side, on its way there, or still
\* in the chunk.
Contents ==
  /\ phase = "read" => step = "idle" /\ Taken("out") = FileTo(line) /\ Taken("in") = FileTo(line)
  /\ phase = "out" => /\ Taken("out") \cup Rest = FileTo(line)
                      /\ Taken("in") \cup Range(chunk) = FileTo(line)
  /\ phase = "in" => Taken("out") = FileTo(line) /\ Taken("in") \cup Rest = FileTo(line)
  /\ phase = "ready" => /\ line = Lines /\ Taken("in") = Taken("out")
                        /\ Taken("out") = Range(file) \cup Range(added)
  /\ phase = "add" => /\ line = Lines /\ Taken("out") = Range(file) \cup Range(added)
                      /\ Taken("in") \cup {added[Len(added)]} = Range(file) \cup Range(added)
  /\ phase \in Side \cup {"read"} => added = <<>>

LEMMA HeldStays == ListsStay => \A s \in Side : Held(s)' = Held(s)
<1> SUFFICES ASSUME ListsStay, NEW s \in Side PROVE Held(s)' = Held(s)
  OBVIOUS
<1>1. \A e \in Edges : Owner(s, e) \in Nodes
  BY DEF Edges, Owner
<1>2. \A e \in Edges : List(s, Owner(s, e))' = List(s, Owner(s, e))
  BY <1>1 DEF ListsStay
<1> QED BY <1>2 DEF Held, Range

\* A step that stores nothing and is about the same insertion.
LEMMA TakenStays ==
  ASSUME ListsStay, UNCHANGED part, step' = "idle" <=> step = "idle"
  PROVE  \A s \in Side : Taken(s)' = Taken(s)
<1>1. \A s \in Side : Waiting(s)' = Waiting(s)
  BY DEF Waiting, side, owner, Range
<1> QED BY <1>1, HeldStays DEF Taken

LEMMA RangeOfHeadTail ==
  ASSUME NEW new \in Seq(Nodes), new # <<>>
  PROVE  Range(new) = {Head(new)} \cup Range(Tail(new))
<1>1. /\ Len(new) \in Nat \ {0} /\ DOMAIN new = 1 .. Len(new)
      /\ Head(new) = new[1] /\ Tail(new) \in Seq(Nodes) /\ Len(Tail(new)) = Len(new) - 1
      /\ DOMAIN Tail(new) = 1 .. Len(new) - 1
      /\ \A i \in 1 .. Len(new) - 1 : Tail(new)[i] = new[i + 1]
  BY HeadTailProperties, LenProperties, EmptySeq
<1>2. ASSUME NEW i \in 1 .. Len(new) PROVE new[i] \in {Head(new)} \cup Range(Tail(new))
  <2>1. CASE i = 1
    BY ONLY <1>1, <2>1
  <2>2. CASE i # 1
    <3>1. i - 1 \in 1 .. Len(new) - 1 /\ (i - 1) + 1 = i
      BY ONLY <1>1, <2>2, i \in 1 .. Len(new)
    <3>2. Tail(new)[i - 1] = new[i]
      BY ONLY <1>1, <3>1
    <3> QED BY ONLY <1>1, <3>1, <3>2 DEF Range
  <2> QED BY <2>1, <2>2
<1>3. Head(new) \in Range(new)
  <2>1. 1 \in 1 .. Len(new)
    BY ONLY <1>1
  <2> QED BY ONLY <1>1, <2>1 DEF Range
<1>4. ASSUME NEW i \in 1 .. Len(new) - 1 PROVE Tail(new)[i] \in Range(new)
  <2>1. i + 1 \in 1 .. Len(new)
    BY ONLY <1>1, i \in 1 .. Len(new) - 1
  <2> QED BY ONLY <1>1, <2>1, i \in 1 .. Len(new) - 1 DEF Range
<1> QED BY ONLY <1>1, <1>2, <1>3, <1>4 DEF Range

LEMMA HeldGrows ==
  ASSUME ListInv, NEW v \in Nodes, ListGrows(v), NEW s \in Side
  PROVE  Held(s)' = Held(s) \cup {e \in Edges : s = side /\ Owner(s, e) = owner /\ Other(s, e) = v}
<1>1. \A e \in Edges : Owner(s, e) \in Nodes
  BY DEF Edges, Owner
<1>2. ASSUME NEW u \in Nodes
      PROVE  Range(List(s, u))' = IF s = side /\ u = owner THEN Range(List(s, u)) \cup {v}
                                  ELSE Range(List(s, u))
  <2>1. List(s, u) \in Seq(Nodes)
    BY ListTyped DEF ListInv
  <2>2. List(s, u)' = IF s = side /\ u = owner THEN Append(List(s, u), v) ELSE List(s, u)
    BY DEF ListGrows
  <2>3. Range(Append(List(s, u), v)) = Range(List(s, u)) \cup {v}
    BY ONLY <2>1, RangeOfAppend, v \in Nodes
  <2>4. Range(List(s, u))' = Range(List(s, u)')
    BY DEF Range
  <2> QED BY ONLY <2>2, <2>3, <2>4
<1> QED BY ONLY <1>1, <1>2 DEF Held, Owner, Other

\* The next neighbour is dealt with: its edges are in the lists.
LEMMA TakenByNext ==
  ASSUME StoreInv, step = "insert", part.new # <<>>, step' = step,
         part' = [part EXCEPT !.new = Tail(part.new)],
         NEW s \in Side,
         Held(s)' = Held(s) \cup {e \in Edges : s = side /\ Owner(s, e) = owner
                                                        /\ Other(s, e) = Head(part.new)}
  PROVE  Taken(s)' = Taken(s)
<1>1. part.new \in Seq(Nodes) /\ part'.new = Tail(part.new) /\ part'.side = part.side
      /\ part'.node = part.node
  BY DEF StoreInv, StoreTypes
<1>2. Range(part.new) = {Head(part.new)} \cup Range(Tail(part.new))
  BY <1>1, RangeOfHeadTail
<1>3. Waiting(s) = {e \in Edges : side = s /\ Owner(s, e) = owner /\ Other(s, e) \in Range(part.new)}
  BY DEF Waiting
<1>4. Waiting(s)' = {e \in Edges : side = s /\ Owner(s, e) = owner
                                   /\ Other(s, e) \in Range(Tail(part.new))}
  BY <1>1 DEF Waiting, side, owner, Owner, Other, Range
<1> QED BY <1>2, <1>3, <1>4 DEF Taken

\* What a step of insertNeighbors does leaves what has been taken: a neighbour that is
\* passed over is in the table, so in the list, and one that is stored is in the list.
LEMMA TakenByStep ==
  ASSUME ListInv, StoreStep
  PROVE  \A s \in Side : Taken(s)' = Taken(s)
<1>a. StoreInv /\ Owned /\ HashRight
  BY DEF ListInv
<1>b. ListsStay \/ (StoreNeighbor /\ ListGrows(Head(part.new)))
  BY ListStep DEF StoreNext
<1>1. CASE Grow \/ connectIndexBuffer \/ AddListNode
  <2>1. UNCHANGED part /\ (step' = "idle" <=> step = "idle")
    BY <1>1 DEF Grow, NodeNeeded, connectIndexBuffer, AddListNode, Inserting
  <2>2. ListsStay
    <3>1. ~StoreNeighbor
      BY <1>1 DEF Grow, NodeNeeded, connectIndexBuffer, AddListNode, StoreNeighbor, Inserting
    <3> QED BY <1>b, <3>1
  <2> QED BY <2>1, <2>2, TakenStays
<1>2. CASE SkipDouble
  <2>1. /\ step = "insert" /\ part.new # <<>> /\ step' = step
        /\ part' = [part EXCEPT !.new = Tail(part.new)]
        /\ side = "out" /\ Head(part.new) \in DOMAIN hash[owner]
    BY <1>2 DEF SkipDouble, Inserting, Double, NextDone
  <2>2. ListsStay
    BY <1>2, <1>b DEF SkipDouble, StoreNeighbor
  <2>3. Head(part.new) \in Range(List("out", owner))
    <3>1. owner \in Nodes
      BY <2>1, <1>a DEF StoreInv, StoreTypes, owner
    <3> QED BY <2>1, <3>1, <1>a DEF HashRight
  <2>4. ASSUME NEW s \in Side
        PROVE  Held(s)' = Held(s) \cup {e \in Edges : s = side /\ Owner(s, e) = owner
                                                      /\ Other(s, e) = Head(part.new)}
    <3>1. {e \in Edges : s = side /\ Owner(s, e) = owner /\ Other(s, e) = Head(part.new)}
            \subseteq Held(s)
      BY <2>1, <2>3 DEF Held
    <3>2. Held(s)' = Held(s)
      BY <2>2, HeldStays
    <3> QED BY ONLY <3>1, <3>2
  <2> QED BY <1>a, <2>1, <2>4, TakenByNext
<1>3. CASE StoreNeighbor
  <2>1. /\ step = "insert" /\ part.new # <<>> /\ step' = step
        /\ part' = [part EXCEPT !.new = Tail(part.new)]
    BY <1>3 DEF StoreNeighbor, Inserting, NextDone
  <2>2. Head(part.new) \in Nodes
    BY <1>3, <1>a, StoreNeighborHolder
  <2>4. ListGrows(Head(part.new))
    BY <1>3, <1>a, StoreStepKeeps, StoreNeighborLists DEF Owned, StoreStep
  <2>5. \A s \in Side :
          Held(s)' = Held(s) \cup {e \in Edges : s = side /\ Owner(s, e) = owner
                                                 /\ Other(s, e) = Head(part.new)}
    BY <2>2, <2>4, HeldGrows
  <2> QED BY <1>a, <2>1, <2>5, TakenByNext
<1>4. CASE Return
  <2>1. step = "insert" /\ part.new = <<>> /\ step' = "idle"
    BY <1>4 DEF Return
  <2>2. ListsStay
    BY <1>4, <1>b DEF Return, StoreNeighbor, Inserting
  <2>3. \A s \in Side : Waiting(s) = {} /\ Waiting(s)' = {}
    BY <2>1 DEF Waiting, Range
  <2> QED BY <2>2, <2>3, HeldStays DEF Taken
<1> QED BY <1>1, <1>2, <1>3, <1>4 DEF StoreStep

\* A call of insertNeighbors takes the edges of its node and its neighbours.
LEMMA TakenByCall ==
  ASSUME ListInv, NEW t \in Side, NEW u \in Nodes, NEW new \in Seq(Nodes),
         insertNeighbors(t, u, new), NEW s \in Side
  PROVE  Taken(s)' = Taken(s) \cup {e \in Edges : t = s /\ Owner(s, e) = u
                                                  /\ Other(s, e) \in Range(new)}
<1>1. /\ step = "idle" /\ step' = "connect"
      /\ part' = [side |-> t, node |-> u, new |-> new]
  BY DEF insertNeighbors
<1>2. ListsStay
  <2>1. StoreNext
    BY DEF StoreNext
  <2> QED BY <1>1, <2>1, ListStep DEF StoreNeighbor, Inserting
<1>3. Waiting(s) = {}
  BY <1>1 DEF Waiting
<1>4. Waiting(s)' = {e \in Edges : t = s /\ Owner(s, e) = u /\ Other(s, e) \in Range(new)}
  BY <1>1 DEF Waiting, side, owner, Owner, Other, Range
<1>5. Held(s)' = Held(s)
  BY <1>2, HeldStays
<1> QED BY <1>3, <1>4, <1>5 DEF Taken

\* The chunk is the lines between where the file was and where it is set to, without
\* the line S: no row is left as malloc gave it.
LEMMA ChunkIsLines ==
  ASSUME LoadTypes, line < Lines, NEW c \in Rows
  PROVE  FileTo(line + Whole) = FileTo(line) \cup Range(c)
<1>1. file \in Seq(Edges) /\ line \in 0 .. Lines /\ Len(file) \in Nat /\ Lines = Len(file) + 1
      /\ line < Lines /\ DOMAIN file = 1 .. Len(file)
  BY LenProperties DEF LoadTypes, Lines
<1>2. Whole \in 0 .. Lines - line /\ (Bytes(Lines - line) < CHUNK => Whole = Lines - line)
  <2> DEFINE T == {0} \cup {k \in 1 .. Lines - line : Bytes(k) <= CHUNK}
  <2>1. Lines - line \in Nat /\ T \subseteq 0 .. Lines - line /\ T # {}
    BY ONLY <1>1
  <2>2. Max(T) \in T /\ \A y \in T : Max(T) >= y
    BY ONLY <2>1, MaxOfBounded
  <2>3. Whole = Max(T)
    BY DEF Whole
  <2>4. ASSUME Bytes(Lines - line) < CHUNK PROVE Lines - line \in T
    <3>1. Lines - line \in 1 .. Lines - line
      BY ONLY <1>1
    <3>2. Bytes(Lines - line) \in Int
      BY <3>1, BytesTyped
    <3>3. CHUNK \in Nat
      BY FilesAssumption
    <3>4. Bytes(Lines - line) <= CHUNK
      BY ONLY <2>4, <3>2, <3>3
    <3> QED BY ONLY <3>1, <3>4
  <2> HIDE DEF T
  <2>5. Max(T) \in 0 .. Lines - line
    BY ONLY <2>1, <2>2
  <2> QED BY ONLY <1>1, <2>2, <2>3, <2>4, <2>5
<1> DEFINE end == Min({line + countNewLine, Len(file)})
           edges == SubSeq(file, line + 1, end)
<1>e. \A n \in Int : line + countNewLine = n => end = IF n <= Len(file) THEN n ELSE Len(file)
  <2>1. \A n \in Int : Min({n, Len(file)}) = IF n <= Len(file) THEN n ELSE Len(file)
    <3>1. Len(file) \in Int
      BY ONLY <1>1
    <3> QED BY ONLY <3>1, MinOfTwo
  <2> QED BY <2>1
<1> HIDE DEF end
<1>3. /\ end \in Int /\ line <= end /\ end <= Len(file) /\ countNewLine = end - line
      /\ \A i \in 1 .. Len(file) : i <= end <=> i <= line + Whole
  <2>1. CASE LastNewlineBlanked
    <3>1. Whole = Lines - line
      BY ONLY <1>1, <1>2, <2>1 DEF LastNewlineBlanked
    <3>2. countNewLine = Whole - 1
      BY <2>1 DEF countNewLine
    <3>3. line + countNewLine = Len(file) /\ Len(file) \in Int
      BY ONLY <1>1, <3>1, <3>2
    <3>4. end = Len(file)
      BY ONLY <3>3, <1>e
    <3> QED BY ONLY <1>1, <3>1, <3>2, <3>4
  <2>2. CASE ~LastNewlineBlanked
    <3>1. Whole \in 0 .. Len(file) - line
      BY ONLY <1>1, <1>2, <2>2 DEF LastNewlineBlanked
    <3>2. countNewLine = Whole
      BY <2>2 DEF countNewLine
    <3>3. end = line + Whole
      <4>1. line + Whole \in Int /\ line + Whole <= Len(file) /\ Len(file) \in Int
        BY ONLY <1>1, <3>1
      <4> QED BY ONLY <3>2, <4>1, <1>e
    <3> QED BY ONLY <1>1, <3>1, <3>2, <3>3
  <2> QED BY <2>1, <2>2
<1>4. /\ edges \in Seq(Edges) /\ Len(edges) = end - line /\ DOMAIN edges = 1 .. end - line
      /\ \A i \in 1 .. end - line : edges[i] = file[line + i]
  <2>1. \A i \in line + 1 .. end : i \in 1 .. Len(file)
    BY ONLY <1>1, <1>3
  <2>2. \A i \in 1 .. Len(file) : file[i] \in Edges
    BY ONLY <1>1, ElementOfSeq
  <2>3. \A i \in line + 1 .. end : file[i] \in Edges
    BY ONLY <2>1, <2>2
  <2>4. line + 1 \in Int
    BY ONLY <1>1
  <2>5. /\ edges \in Seq(Edges)
        /\ Len(edges) = (IF line + 1 <= end THEN end - (line + 1) + 1 ELSE 0)
        /\ \A i \in 1 .. end - (line + 1) + 1 : edges[i] = file[line + 1 + i - 1]
    BY ONLY <1>3, <2>3, <2>4, SubSeqProperties
  <2> HIDE DEF edges
  <2>6. Len(edges) = end - line
    BY ONLY <1>1, <1>3, <2>5
  <2>7. ASSUME NEW i \in 1 .. end - line PROVE edges[i] = file[line + i]
    <3>1. i \in 1 .. end - (line + 1) + 1 /\ line + 1 + i - 1 = line + i
      BY ONLY <1>1, <1>3, i \in 1 .. end - line
    <3> QED BY ONLY <2>5, <3>1
  <2> QED BY ONLY <2>5, <2>6, <2>7, LenProperties
<1>5. c = edges
  <2>1. PICK stray \in [1 .. countNewLine - Len(edges) -> Edges] : c = edges \o stray
    BY DEF Rows, edges, end, Edges
  <2> HIDE DEF edges
  <2>2. 1 .. countNewLine - Len(edges) = 1 .. 0
    BY ONLY <1>1, <1>3, <1>4
  <2>3. stray \in Seq(Edges) /\ Len(stray) = 0
    <3>1. stray \in [1 .. 0 -> Edges]
      BY <2>2
    <3> QED BY ONLY <3>1
  <2>4. stray = <<>>
    BY ONLY <2>3, EmptySeq
  <2> QED BY ONLY <1>4, <2>1, <2>4, ConcatEmptySeq
<1> HIDE DEF edges
<1>6. Range(edges) = {file[i] : i \in {j \in 1 .. Len(file) : line < j /\ j <= end}}
  <2>1. ASSUME NEW i \in 1 .. end - line
        PROVE  edges[i] = file[line + i] /\ line + i \in {j \in 1 .. Len(file) : line < j /\ j <= end}
    BY ONLY <1>1, <1>3, <1>4, i \in 1 .. end - line
  <2>2. ASSUME NEW j \in 1 .. Len(file), line < j, j <= end
        PROVE  j - line \in 1 .. end - line /\ edges[j - line] = file[j]
    <3>1. j - line \in 1 .. end - line /\ line + (j - line) = j
      BY ONLY <1>1, <1>3, <2>2, j \in 1 .. Len(file)
    <3> QED BY ONLY <1>4, <3>1
  <2> QED BY ONLY <1>4, <2>1, <2>2 DEF Range
<1>7. FileTo(line) = {file[i] : i \in {j \in 1 .. Len(file) : j <= line}}
  BY <1>1 DEF FileTo
<1>8. FileTo(line + Whole) = {file[i] : i \in {j \in 1 .. Len(file) : j <= end}}
  BY ONLY <1>1, <1>3 DEF FileTo
<1>9. {j \in 1 .. Len(file) : j <= end} =
        {j \in 1 .. Len(file) : j <= line} \cup {j \in 1 .. Len(file) : line < j /\ j <= end}
  BY ONLY <1>1, <1>3
<1> QED BY ONLY <1>5, <1>6, <1>7, <1>8, <1>9

\* The edges that a call of insertNeighbors is made for are those of the chunk from the
\* counter on to where it is set to.
Group(s) ==
  {e \in Edges : /\ Owner(s, e) = Owner(s, chunk[counter + 1])
                 /\ Other(s, e) \in Range([i \in 1 .. GroupSize(s) |-> Other(s, chunk[counter + i])])}

LEMMA GroupIsRest ==
  ASSUME LoadTypes, NEW s \in Side, counter < Len(chunk)
  PROVE  Rest = Group(s) \cup {chunk[i] : i \in {j \in DOMAIN chunk : counter + GroupSize(s) < j}}
<1> DEFINE g == GroupSize(s)
<1>1. /\ chunk \in Seq(Edges) /\ Len(chunk) \in Nat /\ counter \in Nat /\ counter < Len(chunk)
      /\ DOMAIN chunk = 1 .. Len(chunk)
  BY LenProperties DEF LoadTypes
<1>2. /\ g \in 1 .. Len(chunk) - counter
      /\ \A i \in 1 .. g : Owner(s, chunk[counter + i]) = Owner(s, chunk[counter + 1])
  BY GroupTyped
<1> HIDE DEF g
<1>3. \A i \in 1 .. g : counter + i \in 1 .. Len(chunk) /\ chunk[counter + i] \in Edges
  <2>1. \A i \in 1 .. g : counter + i \in 1 .. Len(chunk)
    BY ONLY <1>1, <1>2
  <2>2. \A i \in 1 .. Len(chunk) : chunk[i] \in Edges
    BY ONLY <1>1, ElementOfSeq
  <2> QED BY ONLY <2>1, <2>2
<1>4. \A d, e \in Edges : Owner(s, d) = Owner(s, e) /\ Other(s, d) = Other(s, e) => d = e
  BY DEF Owner, Other, Edges
<1>5. Group(s) = {chunk[counter + i] : i \in 1 .. g}
  <2> DEFINE new == [i \in 1 .. g |-> Other(s, chunk[counter + i])]
  <2>1. \A w : w \in Range(new) <=> \E i \in 1 .. g : w = Other(s, chunk[counter + i])
    BY DEF Range
  <2>2. Group(s) = {e \in Edges : Owner(s, e) = Owner(s, chunk[counter + 1])
                                  /\ Other(s, e) \in Range(new)}
    BY DEF Group, g
  <2> HIDE DEF new
  <2>3. ASSUME NEW e \in Group(s) PROVE \E i \in 1 .. g : e = chunk[counter + i]
    <3>1. PICK i \in 1 .. g : Other(s, e) = Other(s, chunk[counter + i])
      BY ONLY <2>1, <2>2, e \in Group(s)
    <3>2. e \in Edges /\ Owner(s, e) = Owner(s, chunk[counter + i])
      BY ONLY <1>2, <2>2, e \in Group(s), i \in 1 .. g
    <3> QED BY ONLY <1>3, <1>4, <3>1, <3>2, i \in 1 .. g
  <2>4. ASSUME NEW i \in 1 .. g PROVE chunk[counter + i] \in Group(s)
    BY ONLY <1>2, <1>3, <2>1, <2>2, i \in 1 .. g
  <2> QED BY ONLY <2>3, <2>4
<1>6. {chunk[counter + i] : i \in 1 .. g} =
        {chunk[i] : i \in {j \in 1 .. Len(chunk) : counter < j /\ j <= counter + g}}
  <2>1. \A i \in 1 .. g : counter + i \in {j \in 1 .. Len(chunk) : counter < j /\ j <= counter + g}
    BY ONLY <1>1, <1>2
  <2>2. \A j \in 1 .. Len(chunk) :
          counter < j /\ j <= counter + g => j - counter \in 1 .. g /\ counter + (j - counter) = j
    BY ONLY <1>1, <1>2
  <2> QED BY ONLY <2>1, <2>2
<1>7. {j \in 1 .. Len(chunk) : counter < j} =
        {j \in 1 .. Len(chunk) : counter < j /\ j <= counter + g}
          \cup {j \in 1 .. Len(chunk) : counter + g < j}
  BY ONLY <1>1, <1>2
<1>8. Rest = {chunk[i] : i \in {j \in 1 .. Len(chunk) : counter < j}}
  BY ONLY <1>1 DEF Rest
<1>9. Rest = Group(s) \cup {chunk[i] : i \in {j \in 1 .. Len(chunk) : counter + g < j}}
  BY ONLY <1>5, <1>6, <1>7, <1>8
<1> QED BY ONLY <1>1, <1>9 DEF g

GraphInv == ListInv /\ LoadTypes /\ Contents

LEMMA WholeFile == LoadTypes => FileTo(Lines) = Range(file)
<1> SUFFICES ASSUME LoadTypes PROVE FileTo(Lines) = Range(file)
  OBVIOUS
<1>1. file \in Seq(Edges) /\ Len(file) \in Nat /\ Lines = Len(file) + 1 /\ DOMAIN file = 1 .. Len(file)
  BY LenProperties DEF LoadTypes, Lines
<1>2. {j \in DOMAIN file : j <= Lines} = DOMAIN file
  BY ONLY <1>1
<1> QED BY <1>2 DEF FileTo, Range

LEMMA ContentsInit == Init => Contents
<1> SUFFICES ASSUME Init PROVE Contents
  OBVIOUS
<1>1. LoadTypes /\ phase = "read" /\ step = "idle" /\ line = 0 /\ added = <<>>
  BY LoadInit DEF LoadInv, Init, StoreInit
<1>2. \A s \in Side : Taken(s) = {}
  <2>1. \A s \in Side, u \in Nodes : List(s, u) = <<>>
    BY ListInvInit DEF Init
  <2>2. \A s \in Side : \A e \in Edges : Owner(s, e) \in Nodes
    BY DEF Edges, Owner
  <2>3. Range(<<>>) = {}
    BY DEF Range
  <2> QED BY <1>1, <2>1, <2>2, <2>3 DEF Taken, Held, Waiting
<1>3. FileTo(0) = {}
  <2>1. DOMAIN file = 1 .. Len(file) /\ Len(file) \in Nat
    BY <1>1, LenProperties DEF LoadTypes
  <2>2. {j \in DOMAIN file : j <= 0} = {}
    BY ONLY <2>1
  <2> QED BY <2>2 DEF FileTo
<1>4. "out" \in Side /\ "in" \in Side /\ "read" \notin Side
  BY DEF Side
<1> QED BY <1>1, <1>2, <1>3, <1>4 DEF Contents

\* At a chunk's beginning all of it is still to be handed over, at its end nothing.
LEMMA RestOfChunk ==
  LoadTypes => (counter = 0 => Rest = Range(chunk)) /\ (counter = Len(chunk) => Rest = {})
<1> SUFFICES ASSUME LoadTypes
             PROVE  (counter = 0 => Rest = Range(chunk)) /\ (counter = Len(chunk) => Rest = {})
  OBVIOUS
<1>1. DOMAIN chunk = 1 .. Len(chunk) /\ Len(chunk) \in Nat
  BY LenProperties DEF LoadTypes
<1>2. counter = 0 => {j \in DOMAIN chunk : counter < j} = DOMAIN chunk
  BY ONLY <1>1
<1>3. counter = Len(chunk) => {j \in DOMAIN chunk : counter < j} = {}
  BY ONLY <1>1
<1> QED BY <1>2, <1>3 DEF Rest, Range

LEMMA QuietTaken == UNCHANGED storeVars => \A s \in Side : Taken(s)' = Taken(s)
<1> SUFFICES ASSUME UNCHANGED storeVars PROVE \A s \in Side : Taken(s)' = Taken(s)
  OBVIOUS
<1>1. UNCHANGED <<buffer, node, index, part, step>>
  BY DEF storeVars
<1>2. ListsStay
  BY <1>1, ListUnrolled DEF ListsStay
<1> QED BY <1>1, <1>2, TakenStays

LEMMA ChunkReadContents == ASSUME GraphInv, ReadChunk PROVE Contents'
<1>1. /\ phase = "read" /\ line < Lines /\ line' = line + Whole /\ chunk' \in Rows
      /\ phase' = "out" /\ counter' = 0 /\ UNCHANGED <<storeVars, file, added>>
  BY DEF ReadChunk
<1>2. LoadTypes /\ LoadTypes'
  BY LoadStepKeeps DEF GraphInv, ListInv, LoadInv, Next, LoadStep
<1>3. added = <<>> /\ Taken("out")' = FileTo(line) /\ Taken("in")' = FileTo(line)
  <2>1. added = <<>> /\ Taken("out") = FileTo(line) /\ Taken("in") = FileTo(line)
    BY <1>1 DEF GraphInv, Contents
  <2> QED BY <1>1, <2>1, QuietTaken DEF Side
<1>4. FileTo(line)' = FileTo(line) \cup Range(chunk)'
  <2>1. PICK c \in Rows : c = chunk'
    BY <1>1
  <2>2. FileTo(line + Whole) = FileTo(line) \cup Range(c)
    BY <1>1, <1>2, ChunkIsLines
  <2>3. FileTo(line)' = FileTo(line + Whole)
    BY <1>1 DEF FileTo
  <2>4. Range(chunk)' = Range(c)
    BY <2>1 DEF Range
  <2> QED BY ONLY <2>2, <2>3, <2>4
<1>5. Rest' = Range(chunk)'
  <2>1. (LoadTypes => (counter = 0 => Rest = Range(chunk)) /\ (counter = Len(chunk) => Rest = {}))'
    BY RestOfChunk, PTL
  <2> QED BY <1>1, <1>2, <2>1
<1> QED BY <1>1, <1>3, <1>4, <1>5 DEF Contents

LEMMA GroupContents ==
  ASSUME GraphInv, NEW s \in Side, InsertGroup(s) PROVE Contents'
<1>1. /\ phase = s /\ counter < Len(chunk) /\ counter' = counter + GroupSize(s)
      /\ insertNeighbors(s, Owner(s, chunk[counter + 1]),
           [i \in 1 .. GroupSize(s) |-> Other(s, chunk[counter + i])])
      /\ UNCHANGED <<file, line, chunk, phase, added>>
  BY DEF InsertGroup
<1>2. LoadTypes /\ ListInv
  BY DEF GraphInv
<1>3. ASSUME NEW t \in Side
      PROVE  Taken(t)' = IF t = s THEN Taken(t) \cup Group(s) ELSE Taken(t)
  <2>1. PICK u \in Nodes, new \in Seq(Nodes) :
          /\ u = Owner(s, chunk[counter + 1])
          /\ new = [i \in 1 .. GroupSize(s) |-> Other(s, chunk[counter + i])]
    BY <1>1, <1>2, GroupTyped
  <2>2. insertNeighbors(s, u, new)
    BY <1>1, <2>1
  <2>3. Taken(t)' = Taken(t) \cup {e \in Edges : s = t /\ Owner(t, e) = u /\ Other(t, e) \in Range(new)}
    BY <1>2, <2>2, TakenByCall
  <2>4. CASE t = s
    BY <2>1, <2>3, <2>4 DEF Group
  <2>5. CASE t # s
    BY <2>3, <2>5
  <2> QED BY <2>4, <2>5
<1>4. Rest = Group(s) \cup Rest'
  <2>1. Rest = Group(s) \cup {chunk[i] : i \in {j \in DOMAIN chunk : counter + GroupSize(s) < j}}
    BY <1>1, <1>2, GroupIsRest
  <2>2. Rest' = {chunk[i] : i \in {j \in DOMAIN chunk : counter + GroupSize(s) < j}}
    BY <1>1 DEF Rest
  <2> QED BY ONLY <2>1, <2>2
<1>5. FileTo(line)' = FileTo(line) /\ Range(chunk)' = Range(chunk)
  BY <1>1 DEF FileTo, Range
<1>6. s \in {"out", "in"} /\ Side = {"out", "in"}
  BY DEF Side
<1>7. Contents
  BY DEF GraphInv
<1>8. CASE s = "out"
  BY ONLY <1>1, <1>3, <1>4, <1>5, <1>6, <1>7, <1>8 DEF Contents
<1>9. CASE s = "in"
  BY ONLY <1>1, <1>3, <1>4, <1>5, <1>6, <1>7, <1>9 DEF Contents
<1> QED BY <1>6, <1>8, <1>9

LEMMA PhaseContents == ASSUME GraphInv, NextPhase PROVE Contents'
<1>1. /\ phase \in {"out", "in"} /\ step = "idle" /\ counter = Len(chunk)
      /\ phase' = (IF phase = "out" THEN "in" ELSE "read")
      /\ counter' = 0 /\ UNCHANGED <<storeVars, file, line, chunk, added>>
  BY DEF NextPhase, Side
<1>2. LoadTypes /\ LoadTypes' /\ Contents
  BY LoadStepKeeps DEF GraphInv, ListInv, LoadInv, Next, LoadStep
<1>3. Taken("out")' = Taken("out") /\ Taken("in")' = Taken("in")
  BY <1>1, QuietTaken DEF Side
<1>4. Rest = {}
  BY <1>1, <1>2, RestOfChunk
<1>5. Rest' = Range(chunk)'
  <2>1. (LoadTypes => (counter = 0 => Rest = Range(chunk)) /\ (counter = Len(chunk) => Rest = {}))'
    BY RestOfChunk, PTL
  <2> QED BY <1>1, <1>2, <2>1
<1>6. FileTo(line)' = FileTo(line) /\ Range(chunk)' = Range(chunk)
  BY <1>1 DEF FileTo, Range
<1>7. step' = "idle"
  BY <1>1 DEF storeVars
<1>8. Side = {"out", "in"}
  BY DEF Side
<1>9. CASE phase = "out"
  BY ONLY <1>1, <1>2, <1>3, <1>4, <1>5, <1>6, <1>7, <1>8, <1>9 DEF Contents
<1>10. CASE phase = "in"
  BY ONLY <1>1, <1>2, <1>3, <1>4, <1>5, <1>6, <1>7, <1>8, <1>10 DEF Contents
<1> QED BY <1>1, <1>9, <1>10

LEMMA InsertContents == ASSUME GraphInv, Insert PROVE Contents'
<1>1. StoreStep /\ UNCHANGED <<file, line, chunk, counter, phase, added>>
  BY DEF Insert
<1>2. Taken("out")' = Taken("out") /\ Taken("in")' = Taken("in")
  BY <1>1, TakenByStep DEF GraphInv, Side
<1>3. step # "idle"
  BY <1>1 DEF StoreStep, Grow, NodeNeeded, connectIndexBuffer, SkipDouble, AddListNode,
              StoreNeighbor, Return, Inserting
<1>4. /\ FileTo(line)' = FileTo(line) /\ Range(chunk)' = Range(chunk) /\ Rest' = Rest
      /\ Range(file)' = Range(file) /\ Range(added)' = Range(added) /\ Lines' = Lines
  BY <1>1 DEF FileTo, Range, Rest, Lines
<1>5. Contents
  BY DEF GraphInv
<1> QED BY ONLY <1>1, <1>2, <1>3, <1>4, <1>5 DEF Contents

LEMMA OneEdgeTaken ==
  ASSUME ListInv, NEW t \in Side, NEW e \in Edges,
         insertNeighbors(t, Owner(t, e), <<Other(t, e)>>), NEW s \in Side
  PROVE  Taken(s)' = IF s = t THEN Taken(s) \cup {e} ELSE Taken(s)
<1>1. PICK u \in Nodes, v \in Nodes : u = Owner(t, e) /\ v = Other(t, e)
  BY DEF Edges, Owner, Other
<1>2. PICK new \in Seq(Nodes) : new = <<v>> /\ Range(new) = {v}
  <2>1. <<v>> \in Seq(Nodes) /\ DOMAIN <<v>> = {1} /\ <<v>>[1] = v
    BY ONLY v \in Nodes
  <2>2. Range(<<v>>) = {v}
    BY ONLY <2>1 DEF Range
  <2> QED BY ONLY <2>1, <2>2
<1>3. insertNeighbors(t, u, new)
  BY <1>1, <1>2
<1>4. Taken(s)' = Taken(s) \cup {d \in Edges : t = s /\ Owner(s, d) = u /\ Other(s, d) \in Range(new)}
  BY <1>3, TakenByCall
<1>5. {d \in Edges : Owner(t, d) = u /\ Other(t, d) \in {v}} = {e}
  BY <1>1 DEF Edges, Owner, Other
<1>6. CASE s = t
  BY ONLY <1>2, <1>4, <1>5, <1>6
<1>7. CASE s # t
  BY ONLY <1>4, <1>7
<1> QED BY <1>6, <1>7

\* An A line whose edge is in the graph adds nothing; another is taken on the outgoing
\* side at once, and on the ingoing side next.
LEMMA AddLineContents ==
  ASSUME GraphInv, NEW u \in Nodes, NEW v \in Nodes, AddLine(u, v) PROVE Contents'
<1>1. /\ phase = "ready" /\ step = "idle" /\ added' = Append(added, <<u, v>>)
      /\ UNCHANGED <<file, line, chunk, counter>>
  BY DEF AddLine
<1>2. LoadTypes /\ ListInv /\ Contents
  BY DEF GraphInv
<1>3. added \in Seq(Edges) /\ <<u, v>> \in Edges
  BY <1>2 DEF LoadTypes, Edges
<1>4. Range(added)' = Range(added) \cup {<<u, v>>}
  <2>1. Range(Append(added, <<u, v>>)) = Range(added) \cup {<<u, v>>}
    BY ONLY <1>3, RangeOfAppend
  <2>2. Range(added)' = Range(Append(added, <<u, v>>))
    BY <1>1 DEF Range
  <2> QED BY ONLY <2>1, <2>2
<1>5. added'[Len(added')] = <<u, v>>
  BY ONLY <1>1, <1>3, AppendProperties
<1>6. Range(file)' = Range(file) /\ Lines' = Lines
  BY <1>1 DEF Range, Lines
<1>7. /\ line = Lines /\ Taken("in") = Taken("out")
      /\ Taken("out") = Range(file) \cup Range(added)
  BY ONLY <1>1, <1>2 DEF Contents
<1>8. CASE FoundDouble(u, v)
  <2>1. phase' = phase /\ UNCHANGED storeVars
    BY <1>8 DEF AddLine
  <2>2. Taken("out")' = Taken("out") /\ Taken("in")' = Taken("in")
    BY <2>1, QuietTaken DEF Side
  <2>3. <<u, v>> \in Taken("out")
    <3>1. v \in Range(List("out", u))
      BY <1>2, <1>8 DEF FoundDouble, ListInv, HashRight
    <3>2. <<u, v>>[1] = u /\ <<u, v>>[2] = v
      OBVIOUS
    <3> QED BY <1>3, <3>1, <3>2 DEF Taken, Held, Owner, Other
  <2> QED BY ONLY <1>1, <1>4, <1>6, <1>7, <2>1, <2>2, <2>3 DEF Contents, Side
<1>9. CASE ~FoundDouble(u, v)
  <2>1. insertNeighbors("out", u, <<v>>) /\ phase' = "add"
    BY <1>9 DEF AddLine
  <2>2. /\ "out" \in Side /\ "in" \in Side /\ "in" # "out"
        /\ Owner("out", <<u, v>>) = u /\ Other("out", <<u, v>>) = v
    BY DEF Side, Owner, Other
  <2>3. insertNeighbors("out", Owner("out", <<u, v>>), <<Other("out", <<u, v>>)>>)
    BY <2>1, <2>2
  <2>4. Taken("in")' = Taken("in") /\ Taken("out")' = Taken("out") \cup {<<u, v>>}
    BY <1>2, <1>3, <2>2, <2>3, OneEdgeTaken
  <2> QED BY ONLY <1>1, <1>4, <1>5, <1>6, <1>7, <2>1, <2>4 DEF Contents, Side
<1> QED BY <1>8, <1>9

LEMMA AddIngoingContents == ASSUME GraphInv, AddIngoing PROVE Contents'
<1> DEFINE e == added[Len(added)]
<1>1. /\ phase = "add" /\ phase' = "ready" /\ insertNeighbors("in", e[2], <<e[1]>>)
      /\ UNCHANGED <<file, line, chunk, counter, added>>
  BY DEF AddIngoing
<1>2. LoadTypes /\ ListInv /\ Contents
  BY DEF GraphInv
<1>3. e \in Edges
  BY <1>1, <1>2, LastAdded
<1>4. /\ line = Lines /\ Taken("out") = Range(file) \cup Range(added)
      /\ Taken("in") \cup {e} = Range(file) \cup Range(added)
  BY ONLY <1>1, <1>2 DEF Contents
<1> HIDE DEF e
<1>5. /\ "out" \in Side /\ "in" \in Side /\ "in" # "out"
      /\ Owner("in", e) = e[2] /\ Other("in", e) = e[1]
  BY DEF Side, Owner, Other
<1>6. insertNeighbors("in", Owner("in", e), <<Other("in", e)>>)
  BY <1>1, <1>5
<1>7. Taken("out")' = Taken("out") /\ Taken("in")' = Taken("in") \cup {e}
  BY <1>2, <1>3, <1>5, <1>6, OneEdgeTaken
<1>8. Range(file)' = Range(file) /\ Range(added)' = Range(added) /\ Lines' = Lines
  BY <1>1 DEF Range, Lines
<1> QED BY ONLY <1>1, <1>4, <1>7, <1>8 DEF Contents, Side

LEMMA GraphInvStep == GraphInv /\ [Next]_vars => GraphInv'
<1> SUFFICES ASSUME GraphInv, [Next]_vars PROVE GraphInv'
  OBVIOUS
<1>1. LoadInv
  BY DEF GraphInv, ListInv, LoadInv
<1>2. LoadTypes'
  BY <1>1, LoadStepKeeps DEF LoadInv
<1>3. ListInv'
  BY <1>1, LoadCallsStore, ListStep DEF GraphInv
<1>4. ASSUME UNCHANGED <<storeVars, file, line, chunk, counter, added>>,
             phase' = phase \/ (phase = "read" /\ phase' = "ready" /\ line = Lines)
      PROVE  Contents'
  <2>1. Taken("out")' = Taken("out") /\ Taken("in")' = Taken("in")
    BY <1>4, QuietTaken DEF Side
  <2>2. /\ FileTo(line)' = FileTo(line) /\ Range(chunk)' = Range(chunk) /\ Rest' = Rest
        /\ Range(file)' = Range(file) /\ Range(added)' = Range(added) /\ Lines' = Lines
    BY <1>4 DEF FileTo, Range, Rest, Lines
  <2>3. Contents /\ FileTo(Lines) = Range(file) /\ Range(<<>>) = {} /\ step' = step
    BY <1>4, WholeFile DEF GraphInv, Range, storeVars
  <2>4. CASE phase' = phase
    BY ONLY <1>4, <2>1, <2>2, <2>3, <2>4 DEF Contents
  <2>5. CASE phase = "read" /\ phase' = "ready" /\ line = Lines
    BY ONLY <1>4, <2>1, <2>2, <2>3, <2>5 DEF Contents, Side
  <2> QED BY <1>4, <2>4, <2>5
<1>5. ASSUME EndOfFile PROVE Contents'
  BY <1>4, <1>5 DEF EndOfFile
<1>6. ASSUME WorkloadEnds \/ UNCHANGED vars PROVE Contents'
  BY <1>4, <1>6 DEF WorkloadEnds, vars
<1>7. Contents'
  BY <1>5, <1>6, ChunkReadContents, GroupContents, PhaseContents, InsertContents,
     AddLineContents, AddIngoingContents DEF Next, LoadStep
<1> QED BY <1>2, <1>3, <1>7 DEF GraphInv

\* When main goes on to the workload, and after each A line: both sides hold exactly
\* the edges of the file and of the A lines, wherever the chunks were cut, whatever the
\* lines' lengths.
THEOREM GraphIsLoaded == Spec => []LoadedGraph
<1>1. Init => GraphInv
  BY LoadInit, ListInvInit, ContentsInit DEF GraphInv, LoadInv, Init
<1>2. GraphInv => LoadedGraph
  <2> SUFFICES ASSUME GraphInv, phase = "ready", step = "idle", NEW u \in Nodes, NEW v \in Nodes
               PROVE  LET has == <<u, v>> \in Range(file) \cup Range(added) IN
                        /\ v \in Range(List("out", u)) <=> has
                        /\ u \in Range(List("in", v)) <=> has
    BY DEF LoadedGraph
  <2>1. /\ Held("out") = Range(file) \cup Range(added)
        /\ Held("in") = Range(file) \cup Range(added)
    BY DEF GraphInv, Contents, Taken, Waiting
  <2>2. <<u, v>> \in Edges /\ <<u, v>>[1] = u /\ <<u, v>>[2] = v
    BY DEF Edges
  <2>3. /\ <<u, v>> \in Held("out") <=> v \in Range(List("out", u))
        /\ <<u, v>> \in Held("in") <=> u \in Range(List("in", v))
    BY <2>2 DEF Held, Owner, Other
  <2> QED BY ONLY <2>1, <2>3
<1> QED BY <1>1, <1>2, GraphInvStep, PTL DEF Spec
=============================================================================
